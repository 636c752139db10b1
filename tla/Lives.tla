------------------------------- MODULE Lives -------------------------------
(***************************************************************************)
(* Lives: the vitals and effects of players, their coming and going, mobs,  *)
(* arrows, vehicles and the clock, and what of them is saved: combat.rs,    *)
(* effects.rs, player.rs, mobs.rs, drops.rs, the saves of lib.rs and        *)
(* persistence.rs, and the handlers of connection.rs and commands.rs that   *)
(* touch them.                                                             *)
(*                                                                         *)
(* Three kinds of threads run at once: a task for each connection, the      *)
(* game loop, and the saver.  Each goes through locked sections one after  *)
(* another, and what it read in one is old in the next.  Where things are  *)
(* is left out: who is near whom is any choice.                            *)
(***************************************************************************)
EXTENDS Integers, FiniteSets, SequencesExt, TLC

CONSTANTS Player,      \* connections, each with an entity id of its own
          User, user,  \* whose they are: a player's file is named by the uuid
          Body, Boat,  \* the entity ids mobs and vehicles may get
          Thing,       \* items, each there once
          Scenes,      \* the states it may start from
          Kind, Hostile, Shooter, Bomber, Tame, \* mobs_table.rs
          MaxHealth, MaxFood, MaxSat, WellFed, Starving, \* of players
          MobHealth,   \* kind.max_health
          Blow,        \* what armour may leave of a blow
          EffectTime,  \* seconds of an effect
          DyingTicks, AttackRest, LoveTicks, BreedRest, GrowTicks, FeedGrow,
          PerPlayer, MostMobs, \* the cap of try_spawn
          Day, Night, Morning, \* the clock: its length, the times of night, where it starts
          KeepInventory,
          Loop, Torn, None \* the game loop's thread; a file that parses as nothing

Thread == Player \cup {Loop}
Effect == {"speed", "regeneration", "poison"}

ASSUME LivesAssumption ==
  /\ user \in [Player -> User]
  /\ Hostile \cup Tame \subseteq Kind /\ Shooter \cup Bomber \subseteq Hostile
  /\ "villager" \notin Tame
  /\ IsFiniteSet(Player) /\ IsFiniteSet(Body) /\ IsFiniteSet(Thing) /\ Player \cap Body = {}
  /\ MobHealth \in [Kind -> Nat]
  /\ MaxHealth \in Nat \ {0} /\ {MaxFood, MaxSat, WellFed, Starving} \subseteq Nat
  /\ Blow \subseteq Nat \ {0} /\ EffectTime \in Nat \ {0}
  /\ GrowTicks \in Nat \ {0}
  /\ {DyingTicks, AttackRest, LoveTicks, BreedRest, FeedGrow} \subseteq Nat
  /\ Day \in Nat \ {0} /\ Night \subseteq 0..(Day - 1) /\ Morning \in 0..(Day - 1)
  /\ None \notin Player \cup User \cup Boat \cup Thing /\ None # "villager" /\ Loop \notin Player
  /\ {"containers", "entities", "meta"} \cap User = {}

VARIABLES
  self,    \* of each connection: how far it is, PlayerState, Inventory, its effects
  table,   \* Shared.players
  records, \* Shared.stats and advancements: the players with an entry
  mob,     \* Shared.mobs
  known,   \* Shared.villagers: the registered ones
  rider,   \* Shared.vehicles: Vehicle.rider
  arrow,   \* Shared.projectiles: how many of each owner
  ground, chest, \* the things in Shared.items, and in containers
  sky,     \* world_time, raining
  disk,    \* the files
  step,    \* of each thread: the rest of the locked sections it is in the middle of
  todo,    \* of the game loop: what of its present function is left
  tick,    \* of mobs::tick: remove and lovers
  saver,   \* how far save_all is
  shown,   \* of each client: its health bar, its walk speed, its weather
  past,    \* history
  deeds    \* bound: how often each thing may still happen

people == <<self, table, records, shown>>
beasts == <<mob, known, rider, arrow>>
stores == <<ground, chest, disk, saver>>
course == <<sky, todo, tick>>
vars   == <<people, beasts, stores, course, step, past, deeds>>

\* What a change of vitals or effects leaves alone.
elsewhere == <<table, records, beasts, stores, course>>

Calm   == [e \in Effect |-> 0]
Fresh  == [health |-> MaxHealth, food |-> MaxFood, sat |-> MaxSat, dead |-> FALSE,
           creative |-> FALSE, pack |-> {}, effect |-> Calm, riding |-> None, at |-> "new", file |-> None]
Still  == [at |-> "idle", on |-> None, told |-> <<0, 0>>, died |-> FALSE, old |-> FALSE, bag |-> {}]
Unborn == [at |-> "unborn", kind |-> None, health |-> 0, dying |-> None, baby |-> FALSE, age |-> 0,
           love |-> 0, rest |-> 0, ready |-> 0, loot |-> None]
Gone   == [Unborn EXCEPT !.at = "gone"]
NoTick == [crowd |-> {}, night |-> FALSE, remove |-> {}, lovers |-> {}]
Resting == [at |-> "idle", left |-> {}, file |-> None, data |-> None]

\* Mob::new
Born(k, loot) == [Unborn EXCEPT !.at = "here", !.kind = k, !.health = MobHealth[k], !.loot = loot]

\* A scene has players with things, a connection for each user, mobs just born, and things
\* about; none of them twice.
Lots(scene, t) ==
  {<<"pack", p>> : p \in {q \in scene.here : t \in scene.pack[q]}}
  \cup {<<"mob", b>> : b \in {c \in DOMAIN scene.mobs : scene.mobs[c].loot = t}}
  \cup {<<"ground", g>> : g \in {t} \cap scene.ground} \cup {<<"chest", g>> : g \in {t} \cap scene.chest}

ASSUME ScenesAssumption ==
  \A scene \in Scenes :
    /\ scene.here \subseteq Player /\ scene.pack \in [Player -> SUBSET Thing]
    /\ scene.ground \cup scene.chest \subseteq Thing
    /\ \A b \in DOMAIN scene.mobs :
         b \in Body /\ \E k \in Kind, loot \in Thing \cup {None} : scene.mobs[b] = Born(k, loot)
    /\ \A p, q \in scene.here : user[p] = user[q] => p = q
    /\ \A t \in Thing : \A x, y \in Lots(scene, t) : x = y

\* What stands for no file, and for one that parses as nothing, is not in any.
ASSUME NothingAssumption ==
  /\ None \notin {Torn, "containers", "entities", "meta"}
  /\ \A x \in {None, Torn} :
       /\ \A S \in SUBSET Thing : x # S
       /\ x \notin [health : Nat, food : Nat, sat : Nat, pack : SUBSET Thing]
       /\ x \notin [mobs : SUBSET [body : Body, kind : Kind, health : Nat, loot : Thing \cup {None}],
                    items : SUBSET Thing]

Vitals(s) == <<s.health, s.food>>
Here == {b \in Body : mob[b].at = "here"}
Alive(b) == mob[b].dying = None \* Mob::alive
MaxOf(a, b) == IF a > b THEN a ELSE b
MinOf(a, b) == IF a < b THEN a ELSE b

\* mobs.write() is held from a tick's first mob to the end of its pairing.
MobsHeld == \E i \in DOMAIN todo : todo[i].do = "pair"

Free(p) == self[p].at = "play" /\ step[p].at = "idle"
LoopFree == todo = <<>> /\ step[Loop].at = "idle"

Spend(d) == deeds[d] > 0 /\ deeds' = [deeds EXCEPT ![d] = @ - 1]

File == {"containers", "entities", "meta"} \cup User

-----------------------------------------------------------------------------
(* History *)

\* Things S have moved.
Moved(h, S) == [h EXCEPT !.stirred = @ \cup S, !.safe = @ \ S]

\* They are gone for good, as the code means them to be or not.
Written(h, S) == [Moved(h, S) EXCEPT !.lost = @ \cup S]

\* They have been, or may have been, saved in two places or in none.
Cut(h, S) == [Moved(h, S) EXCEPT !.cut = @ \cup S]

\* Player p has been told what thread u worked out: it may have been overtaken.
Heard(h, u) == IF step[u].old THEN [h EXCEPT !.crossed = @ \cup {step[u].on}]
                              ELSE [h EXCEPT !.crossed = @ \ {step[u].on}]

\* Things S get into player p's pack: two connections of one user each have a pack, for one file.
Into(h, p, S) == IF user[p] \in h.twice THEN Cut(h, S) ELSE Moved(h, S)

\* A connection whose inventory still counts.
Holds(p) == self[p].at \in {"joining", "play", "saving", "saved"}
Siblings(p) == {q \in Player \ {p} : user[q] = user[p] /\ Holds(q)}

\* The pack in the file of user v, as it is or is being written.
Filed(v) == LET f == IF saver.file = v THEN saver.data ELSE disk[v]
            IN  IF f \in {None, Torn} THEN {} ELSE f.pack

\* Where thing t is.
Places(t) ==
  {<<"pack", user[p]>> : p \in {q \in Player : Holds(q) /\ t \in self[q].pack}}
  \cup {<<"pack", v>> : v \in {w \in User : /\ \A p \in Player : user[p] = w => ~Holds(p)
                                            /\ t \in Filed(w)}}
  \cup {<<"ground", None>> : g \in {t} \cap ground}
  \cup {<<"chest", None>> : g \in {t} \cap chest}
  \cup {<<"mob", None>> : b \in {c \in Here : mob[c].loot = t}}

\* The threads that carry it: dropped, or collected.
Carried(t) == \/ \E u \in Thread : t \in step[u].bag
              \/ \E i \in DOMAIN todo : todo[i].do = "give" /\ todo[i].arg = t

-----------------------------------------------------------------------------
(* combat.rs: two locked sections and what is sent after each *)

\* Thread u has player p's vitals made into t, and is to tell p.  What others were about
\* to tell p is overtaken.
Outrun(u, p) ==
  [v \in Thread |-> IF v # u /\ step[v].on = p /\ step[v].at \in {"hurt", "telling"}
                    THEN [step[v] EXCEPT !.old = TRUE] ELSE step[v]]

Change(u, p, t, at, died) ==
  /\ self' = [self EXCEPT ![p] = t]
  /\ step' = [Outrun(u, p) EXCEPT ![u] =
       [Still EXCEPT !.at = at, !.on = p, !.told = Vitals(t), !.died = died]]

\* The state lock of damage_player: the dead are not hurt, and one dies who had health.
Struck(s, n) ==
  IF s.dead THEN s
  ELSE [s EXCEPT !.health = MaxOf(0, @ - n), !.dead = (s.health <= n /\ s.health > 0)]

damage_player(u, p, n) ==
  LET t == Struck(self[p], n)
  IN  Change(u, p, t, "hurt", t.dead /\ ~self[p].dead)

\* Mutant: the dead are healed too.
HealedDead(s, n) == [s EXCEPT !.health = MinOf(MaxHealth, @ + n)]

\* heal: the dead are not healed.
Healed(s, n) == IF s.dead THEN s ELSE [s EXCEPT !.health = MinOf(MaxHealth, @ + n)]

\* revive, which asks nothing.
Revived(s) == [s EXCEPT !.health = MaxHealth, !.food = MaxFood, !.sat = MaxSat, !.dead = FALSE]

Risen(h, p, t) == IF t.health > 0 THEN [h EXCEPT !.undead = @ \ {p}] ELSE h

Tell(u) == shown' = [shown EXCEPT ![step[u].on].vitals = step[u].told]

\* The rest of damage_player.  One who is dead by now, by another's blow, is told by that other.
Flinch(u) ==
  /\ step[u].at = "hurt"
  /\ LET p == step[u].on
     IN  IF self[p].dead /\ ~step[u].died
         THEN step' = [step EXCEPT ![u] = Still] /\ UNCHANGED <<shown, past>>
         ELSE /\ Tell(u)
              /\ past' = Heard(past, u)
              /\ step' = [step EXCEPT ![u] = IF @.died /\ ~KeepInventory
                                             THEN [Still EXCEPT !.at = "dropping", !.on = p] ELSE Still]
  /\ UNCHANGED <<self, elsewhere, deeds>>

\* Mutant: it is read, and emptied by nobody.
DropCopies(u) ==
  /\ step[u].at = "dropping"
  /\ LET p == step[u].on
     IN  /\ step' = [step EXCEPT ![u] = [Still EXCEPT !.at = "spilling", !.bag = self[p].pack]]
         /\ past' = Moved(past, self[p].pack)
  /\ UNCHANGED <<self, elsewhere, shown, deeds>>

\* The inventory is emptied under its lock ...  What a leaving player drops after the
\* snapshot for its file is in both.
DropAll(u) ==
  /\ step[u].at = "dropping"
  /\ LET p == step[u].on
     IN  /\ step' = [step EXCEPT ![u] = [Still EXCEPT !.at = "spilling", !.bag = self[p].pack]]
         /\ self' = [self EXCEPT ![p].pack = {}]
         /\ past' = IF self[p].at = "play" THEN Moved(past, self[p].pack) ELSE Cut(past, self[p].pack)
  /\ UNCHANGED <<elsewhere, shown, deeds>>

\* ... and goes to the ground.
spawn_item(S) == ground' = ground \cup S

Spill(u) ==
  /\ step[u].at = "spilling"
  /\ spawn_item(step[u].bag)
  /\ past' = Moved(past, step[u].bag)
  /\ step' = [step EXCEPT ![u] = Still]
  /\ UNCHANGED <<people, beasts, chest, disk, saver, course, deeds>>

\* The end of heal, revive, regenerate, hunger_tick and try_eat: update_health is sent.
SendHealth(u) ==
  /\ step[u].at = "telling"
  /\ Tell(u)
  /\ past' = Heard(past, u)
  /\ step' = [step EXCEPT ![u] = Still]
  /\ UNCHANGED <<self, elsewhere, deeds>>

-----------------------------------------------------------------------------
(* A player's own doings: connection.rs, commands.rs, effects.rs *)

\* check_environment: a fall, or the void, which asks for no mode; and /kill.
Fall(p) ==
  /\ Free(p) /\ Spend("hurt")
  /\ ~self[p].dead
  /\ \E n \in Blow : damage_player(p, p, n)
  /\ UNCHANGED <<elsewhere, shown, past>>

Kill(p) ==
  /\ Free(p) /\ Spend("kill")
  /\ damage_player(p, p, MaxHealth)
  /\ UNCHANGED <<elsewhere, shown, past>>

Mend(p, t) == /\ Change(p, p, t, "telling", FALSE)
              /\ past' = Risen(past, p, t)

\* /heal
Heal(p) ==
  /\ Free(p) /\ Spend("heal")
  /\ Mend(p, Revived(self[p]))
  /\ UNCHANGED <<elsewhere, shown>>

\* set_walk_speed and the abilities sent elsewhere: the client walks fast or not.
Walk(p, fast) == shown' = [shown EXCEPT ![p].fast = fast]
Slowed(h, p) == [h EXCEPT !.milked = @ \ {p}]

\* ClientCommand 0, which asks for no death.  The new world comes with a plain walk.
Respawn(p) ==
  /\ Free(p) /\ Spend("respawn")
  /\ Change(p, p, Revived(self[p]), "telling", FALSE)
  /\ Walk(p, FALSE)
  /\ past' = Slowed(Risen(past, p, Revived(self[p])), p)
  /\ UNCHANGED elsewhere

\* set_gamemode
SetGamemode(p) ==
  /\ Free(p) /\ Spend("mode")
  /\ self' = [self EXCEPT ![p].creative = ~@]
  /\ Walk(p, FALSE)
  /\ past' = Slowed(past, p)
  /\ UNCHANGED <<elsewhere, step>>

\* switch_dimension, as far as vitals go.
SwitchDimension(p) ==
  /\ Free(p) /\ Spend("mode")
  /\ Walk(p, FALSE)
  /\ past' = Slowed(past, p)
  /\ UNCHANGED <<elsewhere, self, step>>

\* try_eat.  What is eaten goes by the inventory, which is not kept here.
Eat(p) ==
  /\ Free(p) /\ Spend("eat")
  /\ \E n \in 1..MaxFood :
       LET food == MinOf(MaxFood, self[p].food + n)
       IN  Change(p, p, [self[p] EXCEPT !.food = food, !.sat = MinOf(food, MinOf(MaxSat, @ + n))],
                  "telling", FALSE)
  /\ self[p].food < MaxFood \/ self[p].creative
  /\ UNCHANGED <<elsewhere, shown, past>>

\* try_drink of a potion, /effect, and food with an effect: effects::apply.
ApplyInstant(p) ==
  /\ Free(p) /\ Spend("drink")
  /\ \/ Mend(p, Healed(self[p], 1))
     \/ (\E n \in Blow : damage_player(p, p, n)) /\ UNCHANGED past
  /\ UNCHANGED <<elsewhere, shown>>

ApplyLasting(p) ==
  /\ Free(p) /\ Spend("drink")
  /\ \E e \in Effect :
       IF e = "speed"
       THEN /\ Walk(p, TRUE)
            /\ step' = [step EXCEPT ![p] = [Still EXCEPT !.at = "hastening", !.on = p]]
            /\ UNCHANGED self
       ELSE /\ self' = [self EXCEPT ![p].effect[e] = EffectTime]
            /\ UNCHANGED <<shown, step>>
  /\ UNCHANGED <<elsewhere, past>>

\* Speed is told before it is registered.
AddSpeed(p) ==
  /\ step[p].at = "hastening"
  /\ self' = [self EXCEPT ![p].effect["speed"] = EffectTime]
  /\ step' = [step EXCEPT ![p] = Still]
  /\ UNCHANGED <<elsewhere, shown, past, deeds>>

\* Milk takes all effects away, and leaves the client's walk as it is.
DrinkMilk(p) ==
  /\ Free(p) /\ Spend("milk")
  /\ self' = [self EXCEPT ![p].effect = Calm]
  /\ past' = IF shown[p].fast THEN [past EXCEPT !.milked = @ \cup {p}] ELSE past
  /\ UNCHANGED <<elsewhere, step, shown>>

-----------------------------------------------------------------------------
(* Mobs, arrows, vehicles, the clock and containers in a player's hands *)

\* player_attack: one section of the table of mobs.
Attack(p, b) ==
  /\ Free(p) /\ ~MobsHeld /\ Spend("attack")
  /\ ~self[p].dead
  /\ mob[b].at = "here" /\ Alive(b)
  /\ \E n \in Blow : mob' = [mob EXCEPT ![b].health = MaxOf(0, @ - n)]
  /\ UNCHANGED <<people, known, rider, arrow, stores, course, step, past>>

spawn_arrow(o) == arrow' = [arrow EXCEPT ![o] = @ + 1]

\* try_shoot_bow
Shoot(p) ==
  /\ Free(p) /\ Spend("shoot")
  /\ spawn_arrow(p)
  /\ UNCHANGED <<people, mob, known, rider, stores, course, step, past>>

\* A baby is brought nearer to growing, perhaps too near: one with no time left never grows.
Feed(p, b) ==
  /\ Free(p) /\ ~MobsHeld /\ Spend("feed")
  /\ ~self[p].dead
  /\ mob[b].at = "here" /\ mob[b].kind \in Tame
  /\ LET m == mob[b]
         age == MaxOf(0, m.age - (m.age \div 10 + FeedGrow))
     IN  \/ /\ m.baby
            /\ mob' = [mob EXCEPT ![b].age = age]
            /\ past' = IF age = 0 THEN [past EXCEPT !.overfed = @ \cup {b}] ELSE past
         \/ /\ ~m.baby /\ m.rest = 0
            /\ mob' = [mob EXCEPT ![b].love = LoveTicks]
            /\ UNCHANGED past
  /\ UNCHANGED <<people, known, rider, arrow, stores, course, step>>

\* add_mob, before the villager is registered.
Enlist(u, b, k) ==
  /\ mob' = [mob EXCEPT ![b] = Born(k, None)]
  /\ step' = IF k = "villager" THEN [step EXCEPT ![u] = [Still EXCEPT !.at = "naming", !.on = b]] ELSE step

\* /summon
Summon(p) ==
  /\ Free(p) /\ ~MobsHeld /\ Spend("summon")
  /\ \E b \in Body, k \in Kind : mob[b] = Unborn /\ Enlist(p, b, k)
  /\ UNCHANGED <<people, known, rider, arrow, stores, course, past>>

register_villager(u) ==
  /\ step[u].at = "naming"
  /\ LET b == step[u].on
     IN  /\ known' = known \cup {b}
         /\ past' = IF mob[b].at = "here" THEN past ELSE [past EXCEPT !.ghosts = @ \cup {b}]
  /\ step' = [step EXCEPT ![u] = Still]
  /\ UNCHANGED <<people, mob, rider, arrow, stores, course, deeds>>

\* interact_entity: the vehicle gets a rider, whoever rode it, and then the player a vehicle,
\* whichever it rode.
Mount(p, v) ==
  /\ Free(p) /\ Spend("ride")
  /\ ~self[p].dead
  /\ rider' = [rider EXCEPT ![v] = p]
  /\ step' = [step EXCEPT ![p] = [Still EXCEPT !.at = "mounting", !.on = v]]
  /\ past' = [past EXCEPT !.ousted = (@ \cup ({rider[v]} \ {None}) \X {v}) \ {<<p, v>>},
                          !.strayed = @ \ {<<p, v>>}]
  /\ UNCHANGED <<people, mob, known, arrow, stores, course>>

Seat(p) ==
  /\ step[p].at = "mounting"
  /\ self' = [self EXCEPT ![p].riding = step[p].on]
  /\ past' = [past EXCEPT !.strayed = @ \cup ({p} \X ({self[p].riding} \ {None, step[p].on}))]
  /\ step' = [step EXCEPT ![p] = Still]
  /\ UNCHANGED <<elsewhere, shown, deeds>>

\* SteerVehicle with a jump: the other way round.
Dismount(p) ==
  /\ Free(p) /\ Spend("ride")
  /\ self[p].riding # None
  /\ self' = [self EXCEPT ![p].riding = None]
  /\ step' = [step EXCEPT ![p] = [Still EXCEPT !.at = "rising", !.on = self[p].riding]]
  /\ UNCHANGED <<elsewhere, shown, past>>

Rise(p) ==
  /\ step[p].at = "rising"
  /\ LET v == step[p].on
     IN  /\ rider' = [rider EXCEPT ![v] = None]
         /\ past' = [past EXCEPT !.ousted = @ \cup ({rider[v]} \ {None, p}) \X {v},
                                 !.strayed = @ \ {<<p, v>>}]
  /\ step' = [step EXCEPT ![p] = Still]
  /\ UNCHANGED <<people, mob, known, arrow, stores, course, deeds>>

\* set_time, by /time or by who sleeps at night; what advance_time has read it overwrites.
Storing == todo # <<>> /\ Head(todo).do = "store"

set_time(t) ==
  /\ sky' = [sky EXCEPT !.time = t]
  /\ past' = [past EXCEPT !.clock = t, !.missed = Storing]

Sleep(p) ==
  /\ Free(p) /\ Spend("sleep")
  /\ \/ sky.time \in Night /\ set_time(Morning)
     \/ \E t \in 0..(Day - 1) : set_time(t)
  /\ UNCHANGED <<people, beasts, stores, todo, tick, step>>

\* /weather tells everybody, and sets nothing.
Weather(p) ==
  /\ Free(p) /\ Spend("weather")
  /\ \E r \in BOOLEAN :
       /\ shown' = [q \in Player |-> IF q \in table THEN [shown[q] EXCEPT !.rain = r] ELSE shown[q]]
       /\ past' = [past EXCEPT !.misled = IF r = sky.raining THEN @ \ table ELSE @ \cup table]
  /\ UNCHANGED <<self, elsewhere, step>>

\* Things go between a pack and a chest: Windows has it in detail.
Stow(p, t) ==
  /\ Free(p) /\ Spend("move")
  /\ t \in self[p].pack
  /\ self' = [self EXCEPT ![p].pack = @ \ {t}]
  /\ chest' = chest \cup {t}
  /\ past' = Moved(past, {t})
  /\ UNCHANGED <<table, records, shown, beasts, ground, disk, saver, course, step>>

Fetch(p, t) ==
  /\ Free(p) /\ Spend("move")
  /\ t \in chest
  /\ chest' = chest \ {t}
  /\ self' = [self EXCEPT ![p].pack = @ \cup {t}]
  /\ past' = Into(past, p, {t})
  /\ UNCHANGED <<table, records, shown, beasts, ground, disk, saver, course, step>>

-----------------------------------------------------------------------------
(* Coming and going: play of connection.rs *)

snapshot_data(s) == [health |-> s.health, food |-> s.food, sat |-> s.sat, pack |-> s.pack]

apply_data(f) ==
  IF f \in {None, Torn} THEN Fresh
  ELSE [Fresh EXCEPT !.health = f.health, !.food = f.food, !.sat = f.sat, !.pack = f.pack]

Packs(S) == UNION {self[q].pack : q \in S}
Differ(S, T) == (S \ T) \cup (T \ S)

\* The file is read, and the newcomer is told how it is.  Who comes a second time has the same
\* things again, and who comes while its file is being written may find none.
Load(p) ==
  /\ self[p].at = "new" /\ Spend("join")
  /\ LET v == user[p]
         s == apply_data(disk[v])
         raw == IF s.health = 0 THEN [past EXCEPT !.undead = @ \cup {p}] ELSE past
     IN  /\ self' = [self EXCEPT ![p] = [s EXCEPT !.at = "joining"]]
         /\ shown' = [shown EXCEPT ![p] = [vitals |-> Vitals(s), fast |-> FALSE, rain |-> sky.raining]]
         /\ past' = IF Siblings(p) # {}
                    THEN Cut([raw EXCEPT !.twice = @ \cup {v}], s.pack \cup Filed(v) \cup Packs(Siblings(p)))
                    ELSE IF disk[v] = Torn THEN Cut(raw, Filed(v)) ELSE raw
  /\ UNCHANGED <<elsewhere, step>>

Enter(p) ==
  /\ self[p].at = "joining"
  /\ self' = [self EXCEPT ![p].at = "play"]
  /\ table' = table \cup {p}
  /\ UNCHANGED <<records, shown, beasts, stores, course, step, past, deeds>>

\* The connection ends: a snapshot for the file, which is emptied to be written; the vehicle
\* keeps its rider.
Leave(p) ==
  /\ Free(p) /\ Spend("leave")
  /\ self' = [self EXCEPT ![p].at = "saving", ![p].file = snapshot_data(self[p])]
  /\ disk' = [disk EXCEPT ![user[p]] = Torn]
  /\ LET h == [past EXCEPT !.strayed = @ \cup {<<p, v>> : v \in {w \in Boat : rider[w] = p}}]
     IN  past' = IF saver.file = user[p] THEN Cut(h, Differ(saver.data.pack, self[p].pack)) ELSE h
  /\ UNCHANGED <<table, records, shown, beasts, ground, chest, saver, course, step>>

WriteFile(p) ==
  /\ self[p].at = "saving"
  /\ disk' = [disk EXCEPT ![user[p]] = self[p].file]
  /\ self' = [self EXCEPT ![p].at = "saved"]
  /\ UNCHANGED <<table, records, shown, beasts, ground, chest, saver, course, step, past, deeds>>

remove_player(p) ==
  /\ self[p].at = "saved"
  /\ table' = table \ {p}
  /\ self' = [self EXCEPT ![p].at = "left"]
  /\ UNCHANGED <<records, shown, beasts, stores, course, step, past, deeds>>

\* clear_effects, clear_stats, clear_advancements
Clear(p) ==
  /\ self[p].at = "left"
  /\ records' = records \ {p}
  /\ self' = [self EXCEPT ![p].at = "gone", ![p].effect = Calm, ![p].file = None]
  /\ UNCHANGED <<table, shown, beasts, stores, course, step, past, deeds>>

-----------------------------------------------------------------------------
(* The game loop.  Each function reads the players, or goes through a table
   under its lock, and then does what it noted there: todo. *)

Job(d, x, a) == [do |-> d, on |-> x, arg |-> a]
Jobs(d, S) == LET s == SetToSeq(S) IN [i \in DOMAIN s |-> Job(d, s[i], None)]
Do(d) == todo # <<>> /\ step[Loop].at = "idle" /\ Head(todo).do = d
Done(more) == todo' = more \o Tail(todo)

\* nearest_player is one of these.
Living(S) == {p \in S : ~self[p].dead}

\* mobs::tick.  With nobody online the mobs are swept away.
MobsTick ==
  /\ LoopFree /\ Spend("mobs")
  /\ \/ /\ table = {}
        /\ mob' = [b \in Body |-> IF b \in Here THEN Gone ELSE mob[b]]
        /\ past' = [Written(past, {mob[b].loot : b \in Here} \ {None}) EXCEPT
                      !.ghosts = @ \cup (known \cap Here)]
        /\ UNCHANGED course
     \/ /\ table # {}
        /\ todo' = Append(Jobs("mob", Here), Job("pair", None, None))
        /\ tick' = [NoTick EXCEPT !.crowd = table, !.night = sky.time \in Night]
        /\ UNCHANGED <<mob, sky, past>>
  /\ UNCHANGED <<people, known, rider, arrow, stores, step>>

\* The countdown of one that is dying.
MobDying ==
  /\ Do("mob")
  /\ LET b == Head(todo).on
     IN  /\ mob[b].dying # None
         /\ mob' = [mob EXCEPT ![b].dying = MaxOf(0, @ - 1)]
         /\ tick' = [tick EXCEPT !.remove = @ \cup (IF mob[b].dying = 0 THEN {b} ELSE {})]
  /\ Done(<<>>)
  /\ UNCHANGED <<people, known, rider, arrow, stores, sky, step, past, deeds>>

drop_loot(loot) == ground' = ground \cup loot

\* One that was killed: its loot falls, and the kill is put down to the nearest living player,
\* who may have left since the players were read.
MobDies ==
  /\ Do("mob")
  /\ LET b == Head(todo).on
         loot == {mob[b].loot} \ {None}
     IN  /\ Alive(b) /\ mob[b].health = 0
         /\ mob' = [mob EXCEPT ![b].dying = DyingTicks, ![b].loot = None]
         /\ drop_loot(loot)
         /\ \/ Living(tick.crowd) = {} /\ past' = Moved(past, loot) /\ UNCHANGED records
            \/ \E p \in Living(tick.crowd) :
                 /\ records' = records \cup {p}
                 /\ past' = IF self[p].at = "gone"
                            THEN [Moved(past, loot) EXCEPT !.leaked = @ \cup {p}] ELSE Moved(past, loot)
  /\ Done(<<>>)
  /\ UNCHANGED <<self, table, shown, known, rider, arrow, chest, disk, saver, sky, tick, step, deeds>>

\* One far from every living player, as all are when none lives.
MobStrays ==
  /\ Do("mob")
  /\ LET b == Head(todo).on
     IN  /\ Alive(b) /\ mob[b].health > 0
         /\ tick' = [tick EXCEPT !.remove = @ \cup {b}]
  /\ Done(<<>>)
  /\ UNCHANGED <<people, beasts, stores, sky, step, past, deeds>>

\* The counters, and then step_mob.
Aged(m) == [m EXCEPT !.rest = MaxOf(0, @ - 1), !.ready = MaxOf(0, @ - 1), !.love = MaxOf(0, @ - 1),
                     !.age = IF m.baby THEN MaxOf(0, @ - 1) ELSE @,
                     !.baby = @ /\ m.age # 1]

\* Those within the blast, of who is there by now, are hurt.
explode == \E S \in SUBSET Living(table) : Done(Jobs("hit", S))

MobLives ==
  /\ Do("mob")
  /\ Living(tick.crowd) # {}
  /\ LET b == Head(todo).on
         m == Aged(mob[b])
         foes == IF m.kind \in Hostile THEN Living(tick.crowd) ELSE {}
     IN  /\ m.dying = None /\ m.health > 0
         /\ tick' = [tick EXCEPT !.lovers = @ \cup (IF mob[b].love > 0 /\ ~m.baby /\ m.rest = 0
                                                    THEN {b} ELSE {})]
         /\ \/ \* nobody within reach
               mob' = [mob EXCEPT ![b] = m] /\ Done(<<>>) /\ UNCHANGED arrow
            \/ \* a creeper
               /\ m.kind \in Bomber /\ foes # {}
               /\ mob' = [mob EXCEPT ![b] = [m EXCEPT !.health = 0]]
               /\ explode
               /\ UNCHANGED arrow
            \/ \* spawn_arrow
               /\ m.kind \in Shooter /\ foes # {} /\ m.ready = 0
               /\ mob' = [mob EXCEPT ![b] = [m EXCEPT !.ready = AttackRest]]
               /\ spawn_arrow(b) /\ Done(<<>>)
            \/ \* melee
               /\ m.kind \notin Shooter \cup Bomber /\ m.ready = 0
               /\ mob' = [mob EXCEPT ![b] = [m EXCEPT !.ready = AttackRest]]
               /\ \E p \in foes : Done(<<Job("hit", p, None)>>)
               /\ UNCHANGED arrow
  /\ UNCHANGED <<people, known, rider, stores, sky, step, past, deeds>>

\* A blow noted before: damage_player, on one who may be dead or gone by now.
Hit ==
  /\ Do("hit")
  /\ LET j == Head(todo)
     IN  \E n \in IF j.arg = None THEN Blow ELSE {j.arg} : damage_player(Loop, j.on, n)
  /\ Done(<<>>)
  /\ UNCHANGED <<table, records, beasts, stores, sky, tick, shown, past, deeds>>

\* The end of the locked section: the dead and the strayed go, and two in love are parents.
\* One pair in a tick is all that fewer than four mobs can be.
Pair ==
  /\ Do("pair")
  /\ \E S \in SUBSET tick.lovers, more \in BOOLEAN :
       /\ Cardinality(S) \in {0, 2} /\ \A a, c \in S : mob[a].kind = mob[c].kind
       /\ mob' = [b \in Body |-> IF b \in tick.remove THEN Gone
                                 ELSE IF b \in S THEN [mob[b] EXCEPT !.love = 0, !.rest = BreedRest]
                                 ELSE mob[b]]
       /\ Done(Jobs("baby", {mob[a].kind : a \in S}) \o <<Job("forget", None, None)>>
               \o (IF more THEN <<Job("spawn", None, None)>> ELSE <<>>))
  /\ past' = Written(past, {mob[b].loot : b \in tick.remove} \ {None})
  /\ UNCHANGED <<people, known, rider, arrow, stores, sky, tick, step, deeds>>

\* spawn_baby
Baby ==
  /\ Do("baby") /\ Done(<<>>)
  /\ \/ \E b \in Body :
          /\ mob[b] = Unborn
          /\ mob' = [mob EXCEPT ![b] = [Born(Head(todo).on, None) EXCEPT !.baby = TRUE, !.age = GrowTicks]]
     \/ (\A b \in Body : mob[b] # Unborn) /\ UNCHANGED mob
  /\ UNCHANGED <<people, known, rider, arrow, stores, sky, tick, step, past, deeds>>

\* Mutant: nobody is forgotten.
ForgetNobody ==
  /\ Do("forget") /\ Done(<<>>)
  /\ tick' = [tick EXCEPT !.remove = {}]
  /\ UNCHANGED <<people, beasts, stores, sky, step, past, deeds>>

\* remove_villager
Forget ==
  /\ Do("forget") /\ Done(<<>>)
  /\ known' = known \ tick.remove
  /\ tick' = [tick EXCEPT !.remove = {}]
  /\ UNCHANGED <<people, mob, rider, arrow, stores, sky, step, past, deeds>>

\* try_spawn: under the cap of the players read before, if there is a place.
Spawn ==
  /\ Do("spawn") /\ Done(<<>>)
  /\ \/ /\ Cardinality(Here) < MinOf(Cardinality(tick.crowd) * PerPlayer, MostMobs)
        /\ \E b \in Body, k \in Kind :
             (k \in Hostile => tick.night) /\ mob[b] = Unborn /\ Enlist(Loop, b, k)
     \/ UNCHANGED <<mob, step>>
  /\ UNCHANGED <<people, known, rider, arrow, stores, sky, tick, past, deeds>>

\* tick_items: what is near a living player is taken from the ground ...
ItemsTick ==
  /\ LoopFree /\ Spend("items")
  /\ \E S \in SUBSET ground : S # {} /\
       \E f \in [S -> Living(table)] :
         /\ ground' = ground \ S
         /\ LET s == SetToSeq(S) IN todo' = [i \in DOMAIN s |-> Job("give", f[s[i]], s[i])]
         /\ past' = Moved(past, S)
  /\ UNCHANGED <<people, beasts, chest, disk, saver, sky, tick, step>>

\* ... and then goes to its pack, which by now may have been saved for the last time.
Give ==
  /\ Do("give") /\ Done(<<>>)
  /\ LET p == Head(todo).on
         t == Head(todo).arg
     IN  /\ self' = [self EXCEPT ![p].pack = @ \cup {t}]
         /\ past' = IF self[p].at = "play" THEN Into(past, p, {t}) ELSE Cut(past, {t})
  /\ UNCHANGED <<table, records, shown, beasts, stores, sky, tick, step, deeds>>

\* An item lies too long, or falls out of the world.
Rot ==
  /\ LoopFree /\ Spend("rot")
  /\ \E t \in ground : ground' = ground \ {t} /\ past' = Written(past, {t})
  /\ UNCHANGED <<people, beasts, chest, disk, saver, course, step>>

\* tick_projectiles: some arrows come down, on living players, on mobs that were alive
\* when the tables were read, or on nothing.
ArrowsTick ==
  /\ LoopFree /\ Spend("arrows")
  /\ \E S \in SUBSET {o \in Player \cup Body : arrow[o] > 0} : S # {} /\
       \E f \in [S -> Living(table) \cup {b \in Here : Alive(b)} \cup {None}] :
         /\ \A o \in S : f[o] # o
         /\ arrow' = [o \in DOMAIN arrow |-> IF o \in S THEN arrow[o] - 1 ELSE arrow[o]]
         /\ todo' = Jobs("hit", {f[o] : o \in S} \cap Player) \o Jobs("pierce", {f[o] : o \in S} \cap Body)
  /\ UNCHANGED <<people, mob, known, rider, stores, sky, tick, step, past>>

Pierce ==
  /\ Do("pierce") /\ Done(<<>>)
  /\ LET b == Head(todo).on
     IN  \E n \in Blow : mob' = IF b \in Here THEN [mob EXCEPT ![b].health = MaxOf(0, @ - n)] ELSE mob
  /\ UNCHANGED <<people, known, rider, arrow, stores, sky, tick, step, past, deeds>>

\* regenerate, hunger_tick and effects::tick go through the players they read.
Round(d, name) ==
  /\ LoopFree /\ Spend(d)
  /\ table # {}
  /\ todo' = Jobs(name, table)
  /\ UNCHANGED <<people, beasts, stores, sky, tick, step, past>>

Regenerate  == Round("regen", "regen")
HungerTick  == Round("hunger", "hunger")
EffectsTick == Round("effects", "affect")

\* The loop makes player p's vitals into t, and goes on to tell it.
Alter(p, t) ==
  /\ Change(Loop, p, t, "telling", FALSE)
  /\ past' = Risen(past, p, t)

Regen ==
  /\ Do("regen") /\ Done(<<>>)
  /\ LET p == Head(todo).on
         s == self[p]
         fit == ~s.dead /\ s.food >= WellFed /\ s.health < MaxHealth
     IN  \/ fit /\ Alter(p, [s EXCEPT !.health = @ + 1])
         \/ ~fit /\ UNCHANGED <<self, step, past>>
  /\ UNCHANGED <<table, records, beasts, stores, sky, tick, shown, deeds>>

Hunger ==
  /\ Do("hunger")
  /\ LET p == Head(todo).on
         s == self[p]
         t == IF s.sat > 0 THEN [s EXCEPT !.sat = @ - 1] ELSE [s EXCEPT !.food = MaxOf(0, @ - 1)]
     IN  IF s.dead \/ s.creative
         THEN Done(<<>>) /\ UNCHANGED <<self, step, past>>
         ELSE /\ Done(IF t.food = 0 /\ t.health > Starving THEN <<Job("hit", p, 1)>> ELSE <<>>)
              /\ Alter(p, t)
  /\ UNCHANGED <<table, records, beasts, stores, sky, tick, shown, deeds>>

\* The effects are read, and then each has its turn.
Affect ==
  /\ Do("affect")
  /\ LET p == Head(todo).on
         has == {e \in Effect : self[p].effect[e] > 0}
     IN  Done(Jobs("mend", {q \in {p} : "regeneration" \in has})
              \o Jobs("poison", {q \in {p} : "poison" \in has})
              \o Jobs("wane", {q \in {p} : has # {}}))
  /\ UNCHANGED <<people, beasts, stores, sky, tick, step, past, deeds>>

MendEffect ==
  /\ Do("mend") /\ Done(<<>>)
  /\ LET p == Head(todo).on IN Alter(p, Healed(self[p], 1))
  /\ UNCHANGED <<table, records, beasts, stores, sky, tick, shown, deeds>>

Poison ==
  /\ Do("poison") /\ Done(<<>>)
  /\ LET p == Head(todo).on
     IN  \/ self[p].health > 1 /\ damage_player(Loop, p, 1)
         \/ self[p].health <= 1 /\ UNCHANGED <<self, step>>
  /\ UNCHANGED <<table, records, beasts, stores, sky, tick, shown, past, deeds>>

\* Mutant: the client is not told that speed is over.
WaneUnsaid ==
  /\ Do("wane") /\ Done(<<>>)
  /\ LET p == Head(todo).on
     IN  self' = [self EXCEPT ![p].effect = [e \in Effect |-> MaxOf(0, @[e] - 1)]]
  /\ UNCHANGED <<table, records, shown, beasts, stores, sky, tick, step, past, deeds>>

Wane ==
  /\ Do("wane")
  /\ LET p == Head(todo).on
     IN  /\ self' = [self EXCEPT ![p].effect = [e \in Effect |-> MaxOf(0, @[e] - 1)]]
         /\ Done(Jobs("slow", {q \in {p} : self[p].effect["speed"] = 1}))
  /\ UNCHANGED <<table, records, shown, beasts, stores, sky, tick, step, past, deeds>>

Slow ==
  /\ Do("slow") /\ Done(<<>>)
  /\ Walk(Head(todo).on, FALSE)
  /\ past' = Slowed(past, Head(todo).on)
  /\ UNCHANGED <<self, table, records, beasts, stores, sky, tick, step, deeds>>

\* advance_time: a load, and then a store.
Clock ==
  /\ LoopFree /\ Spend("clock")
  /\ todo' = <<Job("store", None, (sky.time + 1) % Day)>>
  /\ past' = [past EXCEPT !.clock = ((IF past.missed THEN sky.time ELSE @) + 1) % Day, !.missed = FALSE]
  /\ UNCHANGED <<people, beasts, stores, sky, tick, step>>

Store ==
  /\ Do("store") /\ Done(<<>>)
  /\ sky' = [sky EXCEPT !.time = Head(todo).arg]
  /\ UNCHANGED <<people, beasts, stores, tick, step, past, deeds>>

\* The weather turns, and those in the table are told.
Flip ==
  /\ LoopFree /\ Spend("flip")
  /\ sky' = [sky EXCEPT !.raining = ~@]
  /\ todo' = <<Job("rain", None, ~sky.raining)>>
  /\ UNCHANGED <<people, beasts, stores, tick, step, past>>

TellWeather ==
  /\ Do("rain") /\ Done(<<>>)
  /\ LET r == Head(todo).arg
     IN  /\ shown' = [q \in Player |-> IF q \in table THEN [shown[q] EXCEPT !.rain = r] ELSE shown[q]]
         /\ past' = [past EXCEPT !.misled = (@ \ table) \cup {p \in Player : /\ self[p].at = "joining"
                                                                            /\ shown[p].rain # r}]
  /\ UNCHANGED <<self, table, records, beasts, stores, sky, tick, step, deeds>>

-----------------------------------------------------------------------------
(* save_all, a file after another, each emptied and then written in place.
   One runs at a time here. *)

\* File f is emptied, to be written with d.
Truncate(f, d, at) ==
  /\ disk' = [disk EXCEPT ![f] = Torn]
  /\ saver' = [saver EXCEPT !.at = at, !.file = f, !.data = d]

saving == <<people, beasts, ground, chest, course, step>>

\* containers_snapshot
SaveContainers ==
  /\ saver.at = "idle" /\ Spend("save")
  /\ Truncate("containers", chest, "containers")
  /\ past' = [past EXCEPT !.stirred = {}]
  /\ UNCHANGED saving

SavePut ==
  /\ saver.file # None /\ saver.at # "meta"
  /\ disk' = [disk EXCEPT ![saver.file] = saver.data]
  /\ saver' = [saver EXCEPT !.file = None, !.data = None]
  /\ UNCHANGED <<saving, past, deeds>>

SavePlayers ==
  /\ saver.at = "containers" /\ saver.file = None
  /\ saver' = [saver EXCEPT !.at = "players", !.left = table]
  /\ UNCHANGED <<saving, disk, past, deeds>>

\* One who left since is saved too, over what it, or who came after it, has saved or is
\* about to.
SavePlayer(p) ==
  /\ saver.at = "players" /\ saver.file = None /\ p \in saver.left
  /\ disk' = [disk EXCEPT ![user[p]] = Torn]
  /\ saver' = [saver EXCEPT !.left = @ \ {p}, !.file = user[p], !.data = snapshot_data(self[p])]
  /\ past' = IF self[p].at \in {"left", "gone"}
             THEN LET after == {q \in Siblings(p) : self[q].at = "saving"}
                  IN  Cut(past, Differ(self[p].pack, Filed(user[p]))
                                \cup UNION {Differ(self[p].pack, self[q].file.pack) : q \in after})
             ELSE past
  /\ UNCHANGED <<saving, deeds>>

\* snapshot_entities: the mobs that are not dying, and later the items.
SaveMobs ==
  /\ saver.at = "players" /\ saver.file = None /\ saver.left = {}
  /\ ~MobsHeld
  /\ saver' = [saver EXCEPT !.at = "mobs",
                !.data = {[body |-> b, kind |-> mob[b].kind, health |-> mob[b].health, loot |-> mob[b].loot] :
                          b \in {c \in Here : Alive(c)}}]
  /\ UNCHANGED <<saving, disk, past, deeds>>

SaveItems ==
  /\ saver.at = "mobs"
  /\ Truncate("entities", [mobs |-> saver.data, items |-> ground], "entities")
  /\ UNCHANGED <<saving, past, deeds>>

SaveMeta ==
  /\ saver.at = "entities" /\ saver.file = None
  /\ Truncate("meta", sky.time, "meta")
  /\ UNCHANGED <<saving, past, deeds>>

\* The save is whole: what lay still meanwhile is safe, wherever it is.
Saved ==
  /\ saver.at = "meta"
  /\ disk' = [disk EXCEPT !["meta"] = saver.data]
  /\ saver' = Resting
  /\ LET still == {t \in Thing \ (past.stirred \cup past.cut \cup past.lost) : Places(t) # {}}
     IN  past' = [past EXCEPT !.safe = still, !.home = [t \in still |-> Places(t)]]
  /\ UNCHANGED <<saving, deeds>>

FileOf(place) == IF place[1] = "pack" THEN place[2]
                 ELSE IF place[1] = "chest" THEN "containers" ELSE "entities"

\* The process is killed, and the server starts again from its files: run of lib.rs.
Read(f, nothing) == IF disk[f] \in {None, Torn} THEN nothing ELSE disk[f]

Restart ==
  /\ Spend("crash")
  /\ LET saved == Read("entities", [mobs |-> {}, items |-> {}])
         back(b) == {m \in saved.mobs : m.body = b}
         time == Read("meta", Morning)
         torn == {t \in past.safe : \E w \in past.home[t] : disk[FileOf(w)] = Torn}
     IN  /\ mob' = [b \in Body |->
              IF back(b) # {} THEN LET m == CHOOSE m \in back(b) : TRUE
                                   IN  [Born(m.kind, m.loot) EXCEPT !.health = m.health]
              ELSE IF mob[b] = Unborn THEN Unborn ELSE Gone]
         /\ known' = {m.body : m \in {n \in saved.mobs : n.kind = "villager"}}
         /\ ground' = saved.items
         /\ chest' = Read("containers", {})
         /\ sky' = [time |-> IF time = 0 THEN Morning ELSE time, raining |-> FALSE]
         /\ past' = [past EXCEPT !.cut = @ \cup (Thing \ past.safe) \cup torn, !.safe = @ \ torn,
                       !.clock = time, !.missed = (time = 0), !.stirred = {},
                       !.ghosts = {}, !.ousted = {}, !.strayed = {}, !.overfed = {}, !.leaked = {}]
  /\ self' = [p \in Player |-> IF self[p].at = "new" THEN self[p] ELSE [Fresh EXCEPT !.at = "gone"]]
  /\ table' = {} /\ records' = {} /\ todo' = <<>> /\ tick' = NoTick /\ saver' = Resting
  /\ rider' = [v \in Boat |-> None]
  /\ arrow' = [o \in DOMAIN arrow |-> 0]
  /\ step' = [u \in Thread |-> Still]
  /\ UNCHANGED <<disk, shown>>

-----------------------------------------------------------------------------
Init ==
  /\ \E scene \in Scenes :
       /\ self = [p \in Player |-> IF p \in scene.here
                                   THEN [Fresh EXCEPT !.at = "play", !.pack = scene.pack[p]] ELSE Fresh]
       /\ table = scene.here
       /\ mob = [b \in Body |-> IF b \in DOMAIN scene.mobs THEN scene.mobs[b] ELSE Unborn]
       /\ ground = scene.ground /\ chest = scene.chest
       /\ deeds = scene.deeds
  /\ known = {b \in Body : mob[b].kind = "villager"}
  /\ records = {}
  /\ rider = [v \in Boat |-> None]
  /\ arrow = [o \in Player \cup Body |-> 0]
  /\ sky = [time |-> Morning, raining |-> FALSE]
  /\ disk = [f \in File |-> None]
  /\ step = [u \in Thread |-> Still]
  /\ todo = <<>> /\ tick = NoTick /\ saver = Resting
  /\ shown = [p \in Player |-> [vitals |-> Vitals(Fresh), fast |-> FALSE, rain |-> FALSE]]
  /\ past = [crossed |-> {}, milked |-> {}, undead |-> {}, overfed |-> {}, misled |-> {}, ghosts |-> {},
             leaked |-> {}, ousted |-> {}, strayed |-> {}, twice |-> {}, stirred |-> {}, safe |-> {},
             home |-> <<>>, cut |-> {}, lost |-> {t \in Thing : Places(t) = {}}, clock |-> Morning, missed |-> FALSE]

Next ==
  \/ \E u \in Thread : Flinch(u) \/ DropAll(u) \/ Spill(u) \/ SendHealth(u) \/ register_villager(u)
  \/ \E p \in Player :
       \/ Fall(p) \/ Kill(p) \/ Heal(p) \/ Respawn(p) \/ SetGamemode(p) \/ SwitchDimension(p) \/ Eat(p)
       \/ ApplyInstant(p) \/ ApplyLasting(p) \/ AddSpeed(p) \/ DrinkMilk(p)
       \/ Shoot(p) \/ Summon(p) \/ Seat(p) \/ Dismount(p) \/ Rise(p) \/ Sleep(p) \/ Weather(p)
       \/ \E b \in Body : Attack(p, b) \/ Feed(p, b)
       \/ \E v \in Boat : Mount(p, v)
       \/ \E t \in Thing : Stow(p, t) \/ Fetch(p, t)
       \/ Load(p) \/ Enter(p) \/ Leave(p) \/ WriteFile(p) \/ remove_player(p) \/ Clear(p) \/ SavePlayer(p)
  \/ MobsTick \/ MobDying \/ MobDies \/ MobStrays \/ MobLives \/ Hit \/ Pair \/ Baby \/ Forget \/ Spawn
  \/ ItemsTick \/ Give \/ Rot \/ ArrowsTick \/ Pierce
  \/ Regenerate \/ Regen \/ HungerTick \/ Hunger
  \/ EffectsTick \/ Affect \/ MendEffect \/ Poison \/ Wane \/ Slow
  \/ Clock \/ Store \/ Flip \/ TellWeather
  \/ SaveContainers \/ SavePut \/ SavePlayers \/ SaveMobs \/ SaveItems \/ SaveMeta \/ Saved
  \/ Restart

Spec == Init /\ [][Next]_vars

-----------------------------------------------------------------------------
(* Who has no health is dead and who is dead has none, except one who came back from
   a file saved while dead, whom no blow kills until something heals it; a mob in its
   death throes stays without health and has dropped its loot; and a baby grows up,
   unless it was fed out of its time, when it stays a baby. (damage_player, heal,
   revive, apply_data, mobs::tick, interact_entity) *)
DeadOrAlive ==
  /\ \A p \in Player :
       /\ self[p].dead => self[p].health = 0
       /\ self[p].health = 0 => self[p].dead \/ p \in past.undead
  /\ \A b \in Here :
       /\ mob[b].dying # None => mob[b].health = 0 /\ mob[b].loot = None
       /\ mob[b].baby => mob[b].age > 0 \/ b \in past.overfed

(* Each thing is in one place or in one thread's hands, through deaths, pick-ups, leaving and
   restarts, but for those given to or dropped by a player past its last snapshot, those
   of a user connected twice, those a leaving player and the saver wrote in the wrong order, and
   those that moved since the last whole save when the process dies. (DropAll, tick_items, save_all) *)
OnceInTheWorld ==
  \A t \in Thing \ (past.cut \cup past.lost) :
    Cardinality(Places(t)) + (IF Carried(t) THEN 1 ELSE 0) = 1

(* What lay where it is through a whole save and since is still there after any number of
   crashes, in the middle of a save too, unless its own file was being written then.
   (save_all, restore_entities, load_player) *)
RestingIsKept == \A t \in past.safe : Places(t) = past.home[t]

(* The clock is one for each tick past where it was set, unless it was set between the
   load and the store of a tick, and comes back as saved, unless that was at its zero.
   (advance_time, set_time, run) *)
ClockIsKept == past.missed \/ Storing \/ sky.time = past.clock

NothingIsLost == OnceInTheWorld /\ RestingIsKept /\ ClockIsKept

(* The health bar a player is shown is its health, once what is on its way to it is said,
   unless two threads changed it and told it in the other order. (combat.rs) *)
HudIsTrue ==
  \A p \in Player : self[p].at = "play" /\ p \notin past.crossed =>
    \/ shown[p].vitals = Vitals(self[p])
    \/ \E u \in Thread : step[u].on = p /\ step[u].at \in {"hurt", "telling"}

(* A client walks fast only while speed lasts, unless milk took the effect away.
   (effects::apply and tick, try_drink) *)
SpeedIsEarned ==
  \A p \in Player : shown[p].fast /\ self[p].at = "play" =>
    \/ self[p].effect["speed"] > 0 \/ p \in past.milked \/ step[p].at = "hastening"
    \/ \E i \in DOMAIN todo : todo[i].do = "slow" /\ todo[i].on = p

(* A client is shown the weather there is, unless /weather said otherwise or it turned
   between what a newcomer was told and its entry in the table. (play, game_loop) *)
WeatherIsShown ==
  \A p \in table \ past.misled : shown[p].rain = sky.raining \/ (todo # <<>> /\ Head(todo).do = "rain")

ShownIsTrue == HudIsTrue /\ SpeedIsEarned /\ WeatherIsShown

(* A vehicle's rider rides it, unless it mounted another or left; and who rides a vehicle is
   its rider, unless another took it, or got off it, since. (interact_entity, SteerVehicle) *)
RidersAgree ==
  \A p \in Player, v \in Boat :
    /\ rider[v] = p => \/ self[p].riding = v \/ <<p, v>> \in past.strayed
                       \/ (step[p].at \in {"mounting", "rising"} /\ step[p].on = v)
    /\ self[p].at = "play" /\ self[p].riding = v => rider[v] = p \/ <<p, v>> \in past.ousted

(* Every villager in the world is registered, or is about to be, and no other is, unless
   it went before its registration or was swept away with nobody online. (summon, try_spawn,
   mobs::tick, restore_entities) *)
VillagersKnown ==
  LET villagers == {b \in Here : mob[b].kind = "villager"}
  IN  /\ \A b \in villagers : b \in known \/ \E u \in Thread : step[u].at = "naming" /\ step[u].on = b
      /\ known \subseteq villagers \cup past.ghosts \cup tick.remove

(* Nobody who left has statistics or advancements, unless a kill was put down to it by a tick that
   began before. (clear_stats, stat_mob_killed) *)
NobodysRecords == \A p \in records : self[p].at # "gone" \/ p \in past.leaked

TablesAgree == RidersAgree /\ VillagersKnown /\ NobodysRecords
=============================================================================
