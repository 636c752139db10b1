------------------------------ MODULE MCLives ------------------------------
(***************************************************************************)
(* Two users, one of whom may come twice, and scenes with a budget for each *)
(* deed: a duel with a mob and each other's arrows; sickness and cures; a   *)
(* farm; boats; the clock and the weather; goods and saves.                *)
(***************************************************************************)
EXTENDS Lives

CONSTANTS ann, again, bob, Ann, Bob, gem, bone, b1, b2, b3, boat, raft

Users   == again :> Ann @@ ann :> Ann @@ bob :> Bob
Kinds   == {"zombie", "skeleton", "creeper", "cow", "villager"}
Healths == [k \in Kinds |-> 1]
AllDeeds == {"hurt", "kill", "heal", "respawn", "mode", "eat", "drink", "milk", "attack", "shoot", "feed",
             "summon", "ride", "sleep", "weather", "move", "join", "leave", "save", "crash", "mobs",
             "items", "rot", "arrows", "regen", "hunger", "effects", "clock", "flip"}
Budget(d) == d @@ [x \in AllDeeds |-> 0]

Scene(who, goods, beast, onGround, inChest, budget) ==
  [here |-> who, pack |-> goods @@ [p \in Player |-> {}], mobs |-> beast, ground |-> onGround,
   chest |-> inChest, deeds |-> Budget(budget)]
Alone == [p \in {} |-> {}]
NoMob == [b \in {} |-> Unborn]

Duel  == Scene({ann}, ann :> {gem}, b1 :> Born("zombie", bone), {}, {},
               "mobs" :> 2 @@ "attack" :> 1 @@ "hurt" :> 1 @@ "respawn" :> 1 @@ "items" :> 1)
Hunt  == Scene({ann, bob}, Alone, b1 :> Born("skeleton", bone) @@ b2 :> Born("creeper", None), {}, {},
               "mobs" :> 1 @@ "shoot" :> 1 @@ "arrows" :> 2 @@ "rot" :> 1)
Brews == Scene({ann}, Alone, NoMob, {}, {},
               "drink" :> 2 @@ "milk" :> 1 @@ "mode" :> 1 @@ "effects" :> 2 @@ "hurt" :> 1 @@ "regen" :> 1)
Meals == Scene({ann}, ann :> {gem}, NoMob, {}, {},
               "eat" :> 2 @@ "mode" :> 1 @@ "hurt" :> 2 @@ "hunger" :> 4 @@ "regen" :> 2 @@ "heal" :> 1)
Farm  == Scene({ann}, Alone, b1 :> Born("cow", bone) @@ b2 :> Born("cow", None), {}, {},
               "feed" :> 3 @@ "mobs" :> 4)
Boats == Scene({ann, bob}, Alone, NoMob, {}, {}, "ride" :> 4 @@ "leave" :> 1)
Skies == Scene({ann}, Alone, NoMob, {}, {},
               "weather" :> 1 @@ "clock" :> 1 @@ "flip" :> 2 @@ "join" :> 1 @@ "sleep" :> 1)
Dawn  == Scene({ann}, Alone, NoMob, {}, {},
               "sleep" :> 2 @@ "clock" :> 2 @@ "save" :> 1 @@ "crash" :> 1)
Folk  == Scene({ann}, Alone, b1 :> Born("villager", bone), {}, {},
               "summon" :> 1 @@ "mobs" :> 2 @@ "leave" :> 1)
Ruins == Scene({ann}, Alone, b1 :> Born("villager", bone), {}, {},
               "mobs" :> 1 @@ "attack" :> 1 @@ "save" :> 1 @@ "crash" :> 1)
Goods == Scene({ann}, ann :> {gem}, NoMob, {}, {bone},
               "move" :> 2 @@ "leave" :> 1 @@ "join" :> 1 @@ "kill" :> 1 @@ "save" :> 1 @@ "crash" :> 1)
Chase == Scene({ann, bob}, ann :> {gem}, b1 :> Born("zombie", None), {bone}, {},
               "items" :> 1 @@ "leave" :> 1 @@ "join" :> 1 @@ "mobs" :> 1 @@ "attack" :> 1)
Relay == Scene({ann}, ann :> {gem}, NoMob, {}, {bone},
               "move" :> 1 @@ "leave" :> 2 @@ "join" :> 1 @@ "save" :> 1)
AllScenes == {Duel, Hunt, Brews, Meals, Farm, Boats, Skies, Dawn, Folk, Ruins, Goods, Relay, Chase}
=============================================================================
