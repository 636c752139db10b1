----------------------------- MODULE LivesProofs -----------------------------
(***************************************************************************)
(* Theorems about Lives, for any players, mobs, vehicles, things and        *)
(* scenes: who is dead, which tables agree, what the clients are shown, and *)
(* that no thing is lost or doubled, through any number of crashes.         *)
(***************************************************************************)
EXTENDS LivesSteps

(***************************************************************************)
(* What a step keeps: who is dead.                                         *)
(***************************************************************************)

PeopleDeadOrAlive ==
  \A p \in Player :
    /\ self[p].dead => self[p].health = 0
    /\ self[p].health = 0 => self[p].dead \/ p \in past.undead
BeastsDeadOrAlive ==
  \A b \in Here :
    /\ mob[b].dying # None => mob[b].health = 0 /\ mob[b].loot = None
    /\ mob[b].baby => mob[b].age > 0 \/ b \in past.overfed

\* Who comes back is as its file says.
LEMMA LoadNotes ==
  ASSUME LivesAssumption, Types, NEW p \in Player, Load(p)
  PROVE  /\ past.undead \subseteq past'.undead
         /\ apply_data(disk[user[p]]).health = 0 => p \in past'.undead
<1> DEFINE raw == IF apply_data(disk[user[p]]).health = 0 THEN [past EXCEPT !.undead = @ \cup {p}] ELSE past
<1>0. Proper(past)
  BY DEF Types, PeopleTypes
<1>1. \/ \E S : past' = Cut([raw EXCEPT !.twice = @ \cup {user[p]}], S)
      \/ \E S : past' = Cut(raw, S)
      \/ past' = raw
  BY DEF Load
<1>2. /\ Proper(raw) /\ past.undead \subseteq raw.undead
      /\ apply_data(disk[user[p]]).health = 0 => p \in raw.undead
  BY <1>0 DEF Proper, PastFields
<1> HIDE DEF raw
<1>3. Proper([raw EXCEPT !.twice = @ \cup {user[p]}]) /\ [raw EXCEPT !.twice = @ \cup {user[p]}].undead = raw.undead
  BY <1>2 DEF Proper, PastFields
<1>4. \A S : Cut(raw, S).undead = raw.undead
  BY <1>2, CutKeeps DEF Marks
<1>5. \A S : Cut([raw EXCEPT !.twice = @ \cup {user[p]}], S).undead = raw.undead
  BY <1>3, CutKeeps DEF Marks
<1> QED
  BY <1>1, <1>2, <1>4, <1>5

\* Every step keeps it that who is dead has no health, and who has none is dead.
LEMMA PeopleStep ==
  ASSUME LivesAssumption, Types, DeadOrAlive, OldHands, [Next]_vars
  PROVE  PeopleDeadOrAlive'
<1>0. PeopleDeadOrAlive
  BY DEF DeadOrAlive, PeopleDeadOrAlive
<1>1. CASE Alteration
  <2>1. PICK u \in Thread, p \in Player, t \in Self, at \in {"hurt", "telling"}, died \in BOOLEAN :
          Altered(u, p, t, at, died)
    BY <1>1 DEF Alteration
  <2>2. /\ Change(u, p, t, at, died)
        /\ t.dead => t.health = 0
        /\ t.health = 0 => t.dead \/ p \in past'.undead
        /\ past.undead \ {p} \subseteq past'.undead
    BY <2>1 DEF Altered
  <2>3. Changed(u, p, t, at, died)
    BY <2>2, ChangeIs
  <2>4. self'[p] = t /\ \A q \in Player \ {p} : self'[q] = self[q]
    BY <2>3 DEF Changed
  <2> QED
    BY <1>0, <2>2, <2>4 DEF PeopleDeadOrAlive
<1>2. CASE Altering
  <2>1. CASE AtRest
    BY <1>0, <2>1 DEF AtRest, people, PeopleDeadOrAlive
  <2> QED
    BY <1>1, <1>2, <2>1, AlteringAlters
<1>3. CASE Loading
  <2>1. PICK p \in Player : Load(p)
    BY <1>3 DEF Loading
  <2> DEFINE s == apply_data(disk[user[p]])
  <2>2. self' = [self EXCEPT ![p] = [s EXCEPT !.at = "joining"]]
    BY <2>1 DEF Load
  <2>3. user[p] \in User
    BY DEF LivesAssumption
  <2>4. s \in Self /\ s.dead = FALSE
    BY <2>3, Loaded
  <2>5. past.undead \subseteq past'.undead /\ (s.health = 0 => p \in past'.undead)
    BY <2>1, LoadNotes
  <2> HIDE DEF s
  <2>6. [s EXCEPT !.at = "joining"].health = s.health /\ [s EXCEPT !.at = "joining"].dead = FALSE
    BY <2>4 DEF Self
  <2>7. /\ self'[p].health = s.health /\ self'[p].dead = FALSE
        /\ \A q \in Player \ {p} : self'[q] = self[q]
    BY <2>2, <2>6 DEF Types, PeopleTypes
  <2> QED
    BY <1>0, <2>5, <2>7 DEF PeopleDeadOrAlive
<1>4. CASE Restart /\ past'.undead = past.undead
  <2>1. \A p \in Player : self'[p] = self[p] \/ self'[p] = [Fresh EXCEPT !.at = "gone"]
    BY <1>4 DEF Restart
  <2>2. [Fresh EXCEPT !.at = "gone"].health # 0 /\ [Fresh EXCEPT !.at = "gone"].dead = FALSE
    BY FreshTyped DEF LivesAssumption
  <2> QED
    BY <1>0, <1>4, <2>1, <2>2 DEF PeopleDeadOrAlive
<1>5. CASE Same("health") /\ Same("dead") /\ past'.undead = past.undead
  <2>1. \A p \in Player : self'[p].health = self[p].health /\ self'[p].dead = self[p].dead
    BY <1>5 DEF Same
  <2> QED
    BY <1>0, <1>5, <2>1 DEF PeopleDeadOrAlive
<1>6. (Same("health") /\ Same("food") /\ Same("dead")) \/ Altering \/ Loading \/ Restart
  BY WhatBecomesOfPlayers DEF SelfGoes
<1>7. past'.undead = past.undead \/ Altering \/ Loading
  BY MarksKept DEF MarksGo
<1> QED
  BY <1>2, <1>3, <1>4, <1>5, <1>6, <1>7

\* A beast b that is right, as those overfed are S.
Sound(m, b, S) ==
  /\ m.at = "here" =>
       /\ m.dying # None => m.health = 0 /\ m.loot = None
       /\ m.baby => m.age > 0 \/ b \in S
  /\ m.love > 0 => m.at = "here" /\ m.kind \in Tame

\* One that is new, whatever its health, and one that is not there.
LEMMA BornFields ==
  ASSUME LivesAssumption, NEW k \in Kind, NEW loot \in Thing \cup {None}
  PROVE  /\ Born(k, loot) \in Mob /\ Born(k, loot).at = "here" /\ Born(k, loot).love = 0
         /\ Born(k, loot).dying = None /\ Born(k, loot).baby = FALSE
  BY DEF Born, Unborn, Mob, LivesAssumption

\* A mob just born is sound.
LEMMA NewIsSound ==
  ASSUME LivesAssumption, NEW k \in Kind, NEW loot \in Thing \cup {None}, NEW b, NEW S
  PROVE  /\ Sound(Born(k, loot), b, S)
         /\ \A n \in Nat : Sound([Born(k, loot) EXCEPT !.health = n], b, S)
         /\ k \in Tame => Sound([Born(k, loot) EXCEPT !.baby = TRUE, !.age = GrowTicks], b, S)
<1> DEFINE m == Born(k, loot)
<1>1. m \in Mob /\ m.love = 0 /\ m.dying = None /\ m.baby = FALSE
  BY BornFields
<1>2. GrowTicks > 0 /\ GrowTicks \in Nat
  BY DEF LivesAssumption
<1> HIDE DEF m
<1>3. Sound(m, b, S)
  BY <1>1 DEF Sound
<1>4. \A n \in Nat : Sound([m EXCEPT !.health = n], b, S)
  BY <1>1 DEF Sound, Mob
<1>5. Sound([m EXCEPT !.baby = TRUE, !.age = GrowTicks], b, S)
  BY <1>1, <1>2 DEF Sound, Mob
<1> QED
  BY <1>3, <1>4, <1>5 DEF m

\* So are one not born yet and one that is gone.
LEMMA NobodyIsSound ==
  ASSUME NEW b, NEW S
  PROVE  Sound(Unborn, b, S) /\ Sound(Gone, b, S)
  BY NobodyTyped DEF Sound

BeastsSound == \A b \in Body : Sound(mob[b], b, past.overfed)

(***************************************************************************)
(* What a step keeps: the order of the loop's jobs.                        *)
(***************************************************************************)

\* Jobs of some kinds no job brings: they were there, and others keep them.
LEMMA WhatIsToCome ==
  ASSUME todo \in Seq(AJob), todo # <<>>, NEW more \in Seq(AJob), New(more), Done(more), NEW d
  PROVE  /\ ToCome(d) /\ Head(todo).do # d => ToCome(d)'
         /\ d \in {"mob", "pair", "rain", "store", "give"} /\ ToCome(d)' => ToCome(d)
         /\ d = "forget" /\ ToCome(d)' => ToCome(d) \/ Head(todo).do = "pair"
<1>1. /\ \A i \in DOMAIN todo' :
           \/ i \in DOMAIN more /\ todo'[i] = more[i]
           \/ \E k \in DOMAIN todo : k > 1 /\ i = Len(more) + k - 1 /\ todo'[i] = todo[k]
      /\ \A k \in DOMAIN todo :
           k > 1 => Len(more) + k - 1 \in DOMAIN todo' /\ todo'[Len(more) + k - 1] = todo[k]
  BY DoneJobs
<1>2. Head(todo) = todo[1] /\ DOMAIN todo = 1..Len(todo) /\ Len(todo) \in Nat
  BY FirstJob
<1>3. ToCome(d) /\ Head(todo).do # d => ToCome(d)'
  BY <1>1, <1>2 DEF ToCome
<1>4. \A i \in DOMAIN more : /\ more[i].do \notin {"mob", "pair", "rain", "store", "give"}
                             /\ more[i].do = "forget" => Head(todo).do = "pair"
  BY DEF New
<1>5. ToCome(d)' => ToCome(d) \/ \E i \in DOMAIN more : more[i].do = d
  BY <1>1 DEF ToCome
<1> QED
  BY <1>3, <1>4, <1>5

\* Once it is there, the pairing is the last thing.
LEMMA PairingIsLast ==
  ASSUME todo \in Seq(AJob), todo # <<>>, NEW more \in Seq(AJob), New(more), Done(more), JobsInOrder
  PROVE  /\ \A i \in DOMAIN todo' : todo'[i].do = "pair" => i = Len(todo')
         /\ Head(todo).do = "pair" => ~ToCome("pair")'
<1>1. /\ \A i \in DOMAIN todo' :
           \/ i \in DOMAIN more /\ todo'[i] = more[i]
           \/ \E k \in DOMAIN todo : k > 1 /\ i = Len(more) + k - 1 /\ todo'[i] = todo[k]
      /\ Len(todo') = Len(more) + Len(todo) - 1
  BY DoneJobs
<1>2. Head(todo) = todo[1] /\ DOMAIN todo = 1..Len(todo) /\ Len(todo) \in Nat /\ 1 \in DOMAIN todo
  BY FirstJob
<1>3. \A i \in DOMAIN more : more[i].do # "pair"
  BY DEF New
<1>4. \A i \in DOMAIN todo' : todo'[i].do = "pair" =>
        \E k \in DOMAIN todo : k > 1 /\ k = Len(todo) /\ i = Len(more) + k - 1
  BY <1>1, <1>3 DEF JobsInOrder
<1>5. ASSUME Head(todo).do = "pair" PROVE Len(todo) = 1
  BY <1>2, <1>5 DEF JobsInOrder
<1> QED
  BY <1>1, <1>4, <1>5 DEF ToCome

\* Every step keeps the order of the jobs.
LEMMA OrderStep ==
  ASSUME LivesAssumption, Types, OldHands, LoversTame, JobsInOrder, [Next]_vars
  PROVE  JobsInOrder'
<1>0. LoopGoes /\ todo \in Seq(AJob)
  BY LoopStep, LivesAssumption DEF Types, LoopTypes
<1>1. CASE UNCHANGED todo
  BY <1>1 DEF JobsInOrder, ToCome
<1>2. CASE Starting
  <2>1. /\ \A i \in DOMAIN todo' : todo'[i].do = "pair" => i = Len(todo')
        /\ \A i \in DOMAIN todo' : todo'[i].do # "forget"
    BY <1>2 DEF Starting
  <2>2. ToCome("mob")' => ToCome("pair")'
    BY <1>2 DEF Starting, ToCome
  <2> QED
    BY <2>1, <2>2 DEF JobsInOrder, ToCome
<1>3. CASE GoingOn
  <2>1. PICK more \in Seq(AJob) : New(more) /\ Done(more)
    BY <1>3 DEF GoingOn
  <2>2. todo # <<>>
    BY <1>3 DEF GoingOn
  <2>3. /\ ToCome("pair") /\ Head(todo).do # "pair" => ToCome("pair")'
        /\ ToCome("pair")' => ToCome("pair")
        /\ ToCome("mob")' => ToCome("mob")
        /\ ToCome("forget")' => ToCome("forget") \/ Head(todo).do = "pair"
    BY <1>0, <2>1, <2>2, WhatIsToCome
  <2>4. /\ \A i \in DOMAIN todo' : todo'[i].do = "pair" => i = Len(todo')
        /\ Head(todo).do = "pair" => ~ToCome("pair")'
    BY <1>0, <2>1, <2>2, PairingIsLast
  <2>5. Head(todo).do = "pair" => ~ToCome("mob")'
    <3>1. SUFFICES ASSUME Head(todo).do = "pair", ToCome("mob")' PROVE FALSE
      OBVIOUS
    <3>2. PICK i \in DOMAIN todo' : todo'[i].do = "mob"
      BY <3>1 DEF ToCome
    <3>3. PICK k \in DOMAIN todo : k > 1
      BY <1>0, <2>1, <2>2, <3>2, DoneJobs DEF New
    <3>4. Head(todo) = todo[1] /\ DOMAIN todo = 1..Len(todo) /\ Len(todo) \in Nat
      BY <1>0, <2>2, FirstJob
    <3> QED
      BY <3>1, <3>3, <3>4 DEF JobsInOrder
  <2> QED
    BY <2>3, <2>4, <2>5 DEF JobsInOrder
<1>4. CASE todo' = <<>>
  <2>1. DOMAIN todo' = {}
    BY <1>4
  <2> QED
    BY <2>1 DEF JobsInOrder, ToCome
<1> QED
  BY <1>0, <1>1, <1>2, <1>3, <1>4 DEF LoopGoes

(***************************************************************************)
(* What a step keeps: the beasts.                                          *)
(***************************************************************************)

\* What becomes of beast b: it stays, or is gone, or is new; a restart brings back others.
Stays(b) == mob'[b].at = mob[b].at /\ mob'[b].kind = mob[b].kind
Comes(b) == mob[b] = Unborn /\ mob'[b].at = "here"
Goes(b)  == mob'[b] = Gone
BeastGoes(b) ==
  /\ Sound(mob'[b], b, past'.overfed)
  /\ \/ Stays(b)
     \/ Goes(b) /\ (MobsTick \/ (Pair /\ b \in tick.remove))
     \/ Comes(b) /\ (Summoning \/ Baby \/ Spawn)
     \/ Restart

OthersStay(S) == \A b \in Body \ S : mob'[b] = mob[b]

\* A beast that is as it was is as right as it was.
LEMMA StillSound ==
  ASSUME NEW b \in Body, BeastsSound, mob'[b] = mob[b], past.overfed \subseteq past'.overfed
  PROVE  BeastGoes(b)
  BY DEF BeastsSound, Sound, BeastGoes, Stays

\* In every step a beast stays, goes or comes, and is sound.
LEMMA BeastsStep ==
  ASSUME LivesAssumption, Types, DeadOrAlive, OldHands, LoversTame, BeastsSound, [Next]_vars
  PROVE  \A b \in Body : BeastGoes(b)
<1>0. /\ mob \in [Body -> Creature] /\ \A b \in Body : mob[b] \in Mob /\ Sound(mob[b], b, past.overfed)
      /\ tick.lovers \subseteq Body
  BY DEF Types, BeastTypes, LoopTypes, Tick, Creature, BeastsSound
<1>1. ASSUME NEW p \in Player, NEW c \in Body, Attack(p, c), NEW b \in Body PROVE BeastGoes(b)
  <2>1. PICK n \in Blow : mob' = [mob EXCEPT ![c].health = MaxOf(0, @ - n)]
    BY <1>1 DEF Attack
  <2>2. mob[c].dying = None /\ UNCHANGED past
    BY <1>1 DEF Attack, Alive
  <2>3. CASE b = c
    <3> DEFINE h == MaxOf(0, mob[c].health - n)
    <3>1. mob'[b] = [mob[b] EXCEPT !.health = h]
      BY <1>0, <2>1, <2>3
    <3> HIDE DEF h
    <3>2. Sound([mob[b] EXCEPT !.health = h], b, past.overfed)
      BY <1>0, <2>2, <2>3 DEF Sound, Mob
    <3>3. Stays(b)
      BY <1>0, <3>1 DEF Stays, Mob
    <3> QED
      BY <2>2, <3>1, <3>2, <3>3 DEF BeastGoes
  <2>4. CASE b # c
    BY <2>1, <2>2, <2>4, <1>0, StillSound
  <2> QED
    BY <2>3, <2>4
<1>2. ASSUME NEW p \in Player, NEW c \in Body, Feed(p, c), NEW b \in Body PROVE BeastGoes(b)
  <2> DEFINE age == MaxOf(0, mob[c].age - (mob[c].age \div 10 + FeedGrow))
             over == IF age = 0 THEN [past EXCEPT !.overfed = @ \cup {c}] ELSE past
  <2>1. \/ mob' = [mob EXCEPT ![c].age = age] /\ past' = over
        \/ mob' = [mob EXCEPT ![c].love = LoveTicks] /\ UNCHANGED past
    BY <1>2 DEF Feed
  <2>2. mob[c].at = "here" /\ mob[c].kind \in Tame
    BY <1>2 DEF Feed
  <2>3. Proper(past) /\ age \in Nat /\ mob[c] \in Mob
    BY <1>0 DEF Types, PeopleTypes, Mob, MaxOf, LivesAssumption
  <2> HIDE DEF age
  <2>4. over.overfed = IF age = 0 THEN past.overfed \cup {c} ELSE past.overfed
    BY <2>3 DEF Proper, PastFields
  <2> HIDE DEF over
  <2>5. past.overfed \subseteq past'.overfed
    BY <2>1, <2>4
  <2>6. CASE b = c /\ mob' = [mob EXCEPT ![c].age = age] /\ past' = over
    <3>1. mob'[b] = [mob[b] EXCEPT !.age = age]
      BY <1>0, <2>6
    <3>2. Sound([mob[b] EXCEPT !.age = age], b, past'.overfed)
      BY <1>0, <2>2, <2>3, <2>4, <2>6 DEF Sound, Mob
    <3>3. Stays(b)
      BY <1>0, <3>1 DEF Stays, Mob
    <3> QED
      BY <3>1, <3>2, <3>3 DEF BeastGoes
  <2>7. CASE b = c /\ mob' = [mob EXCEPT ![c].love = LoveTicks] /\ UNCHANGED past
    <3>1. mob'[b] = [mob[b] EXCEPT !.love = LoveTicks]
      BY <1>0, <2>7
    <3>2. Sound([mob[b] EXCEPT !.love = LoveTicks], b, past'.overfed)
      BY <1>0, <2>2, <2>7 DEF Sound, Mob
    <3>3. Stays(b)
      BY <1>0, <3>1 DEF Stays, Mob
    <3> QED
      BY <3>1, <3>2, <3>3 DEF BeastGoes
  <2>8. CASE b # c
    BY <2>1, <2>5, <2>8, <1>0, StillSound
  <2> QED
    BY <2>1, <2>6, <2>7, <2>8
<1>3. ASSUME NEW p \in Player, Summon(p), NEW b \in Body PROVE BeastGoes(b)
  <2>1. PICK c \in Body, k \in Kind : mob[c] = Unborn /\ mob' = [mob EXCEPT ![c] = Born(k, None)]
    BY <1>3 DEF Summon, Enlist
  <2>2. UNCHANGED past
    BY <1>3 DEF Summon
  <2>3. CASE b = c
    <3>1. mob'[b] = Born(k, None)
      BY <1>0, <2>1, <2>3
    <3>0. None \in Thing \cup {None}
      OBVIOUS
    <3>2. Sound(Born(k, None), b, past'.overfed) /\ Born(k, None).at = "here"
      BY <3>0, NewIsSound, BornFields, Zenon
    <3> QED
      BY <1>3, <2>1, <2>3, <3>1, <3>2 DEF BeastGoes, Comes, Summoning
  <2>4. CASE b # c
    BY <2>1, <2>2, <2>4, <1>0, StillSound
  <2> QED
    BY <2>3, <2>4
<1>4. ASSUME MobsTick, NEW b \in Body PROVE BeastGoes(b)
  <2>1. CASE UNCHANGED <<mob, past>>
    BY <2>1, StillSound
  <2>2. CASE /\ mob' = [c \in Body |-> IF c \in Here THEN Gone ELSE mob[c]]
             /\ past' = [Written(past, {mob[c].loot : c \in Here} \ {None}) EXCEPT
                          !.ghosts = @ \cup (known \cap Here)]
    <3>1. past'.overfed = past.overfed
      BY <2>2 DEF Written, Moved, Types, PeopleTypes, Proper, PastFields
    <3>2. mob'[b] = Gone \/ mob'[b] = mob[b]
      BY <2>2
    <3>3. CASE mob'[b] = Gone
      BY <1>4, <3>3, NobodyIsSound DEF BeastGoes, Goes
    <3>4. CASE mob'[b] = mob[b]
      BY <3>1, <3>4, StillSound
    <3> QED
      BY <3>2, <3>3, <3>4
  <2> QED
    BY <1>4, <2>1, <2>2 DEF MobsTick
<1>5. ASSUME MobDying, NEW b \in Body PROVE BeastGoes(b)
  <2> DEFINE c == Head(todo).on
             d == MaxOf(0, mob[c].dying - 1)
  <2>1. c \in Body
    BY <1>5, JobOnBody DEF MobDying, Do
  <2>2. mob[c].dying # None /\ mob' = [mob EXCEPT ![c].dying = d] /\ UNCHANGED past
    BY <1>5 DEF MobDying
  <2>3. CASE b = c
    <3> HIDE DEF d
    <3>1. mob'[b] = [mob[b] EXCEPT !.dying = d]
      BY <1>0, <2>2, <2>3
    <3>2. Sound([mob[b] EXCEPT !.dying = d], b, past.overfed)
      BY <1>0, <2>2, <2>3 DEF Sound, Mob
    <3>3. Stays(b)
      BY <1>0, <3>1 DEF Stays, Mob
    <3> QED
      BY <2>2, <3>1, <3>2, <3>3 DEF BeastGoes
  <2>4. CASE b # c
    BY <2>1, <2>2, <2>4, <1>0, StillSound
  <2> QED
    BY <2>3, <2>4
<1>6. ASSUME MobDies, NEW b \in Body PROVE BeastGoes(b)
  <2> DEFINE c == Head(todo).on
  <2>1. c \in Body
    BY <1>6, JobOnBody DEF MobDies, Do
  <2>2. mob[c].health = 0 /\ mob' = [mob EXCEPT ![c] = [mob[c] EXCEPT !.dying = DyingTicks, !.loot = None]]
    BY <1>6, <2>1, <1>0 DEF MobDies
  <2>3. past'.overfed = past.overfed
    BY <1>6, MobDiesNotes DEF Marks
  <2>4. CASE b = c
    <3>1. mob'[b] = [mob[b] EXCEPT !.dying = DyingTicks, !.loot = None]
      BY <1>0, <2>2, <2>4
    <3>2. Sound([mob[b] EXCEPT !.dying = DyingTicks, !.loot = None], b, past.overfed)
      BY <1>0, <2>2, <2>4 DEF Sound, Mob
    <3>3. Stays(b)
      BY <1>0, <3>1 DEF Stays, Mob
    <3> QED
      BY <2>3, <3>1, <3>2, <3>3 DEF BeastGoes
  <2>5. CASE b # c
    <3>1. mob'[b] = mob[b]
      BY <2>1, <2>2, <2>5, <1>0
    <3> QED
      BY <2>3, <3>1, StillSound
  <2> QED
    BY <2>4, <2>5
<1>7. ASSUME MobLives, NEW b \in Body PROVE BeastGoes(b)
  <2>1. Head(todo).on \in Body
    BY <1>7, JobOnBody DEF MobLives, Do
  <2> DEFINE c == Head(todo).on
             m == Aged(mob[c])
  <2>2. /\ m \in Creature /\ m \in Mob /\ m.at = mob[c].at /\ m.kind = mob[c].kind
        /\ m.dying = mob[c].dying
        /\ m.love > 0 => mob[c].love > 0
    BY <1>0, <2>1, AgedTyped DEF Creature
  <2>3. m.baby => m.age > 0 \/ mob[c].age = 0
    <3>1. m.baby => m.age = MaxOf(0, mob[c].age - 1) /\ mob[c].age # 1
      BY <1>0, <2>1, AgedTyped
    <3>2. mob[c].age \in Nat
      BY <1>0, <2>1 DEF Mob
    <3> QED
      BY <3>1, <3>2 DEF MaxOf
  <2>3a. m.baby => mob[c].baby
    BY <1>0, <2>1, AgedTyped
  <2>4. m.dying = None
    BY <1>7, MobLivesDoes
  <2>5. \/ mob' = [mob EXCEPT ![c] = m]
        \/ mob' = [mob EXCEPT ![c] = [m EXCEPT !.health = 0]]
        \/ mob' = [mob EXCEPT ![c] = [m EXCEPT !.ready = AttackRest]]
    BY <1>7, MobLivesDoes
  <2>6. UNCHANGED past
    BY <1>7, MobLivesDoes
  <2> HIDE DEF m
  <2>7. mob[c].age \in Nat /\ mob[c] \in Mob /\ Sound(mob[c], c, past.overfed)
    BY <1>0, <2>1 DEF Mob
  <2>8. Sound(m, c, past.overfed)
    BY <2>2, <2>3, <2>3a, <2>4, <2>7 DEF Sound
  <2>9. Sound([m EXCEPT !.health = 0], c, past.overfed) /\ Sound([m EXCEPT !.ready = AttackRest], c, past.overfed)
    BY <2>2, <2>4, <2>8 DEF Sound, Mob
  <2>10. CASE b = c
    <3>1. \/ mob'[b] = m \/ mob'[b] = [m EXCEPT !.health = 0] \/ mob'[b] = [m EXCEPT !.ready = AttackRest]
      BY <1>0, <2>1, <2>5, <2>10
    <3>2. Sound(mob'[b], b, past'.overfed)
      BY <2>6, <2>8, <2>9, <2>10, <3>1
    <3>3. mob'[b].at = m.at /\ mob'[b].kind = m.kind
      BY <2>2, <3>1 DEF Mob
    <3> QED
      BY <2>2, <2>10, <3>2, <3>3 DEF BeastGoes, Stays
  <2>11. CASE b # c
    BY <2>1, <2>5, <2>6, <2>11, <1>0, StillSound
  <2> QED
    BY <2>10, <2>11
<1>8. ASSUME Pair, NEW b \in Body PROVE BeastGoes(b)
  <2>1. PICK S \in SUBSET tick.lovers :
         mob' = [c \in Body |-> IF c \in tick.remove THEN Gone
                                ELSE IF c \in S THEN [mob[c] EXCEPT !.love = 0, !.rest = BreedRest]
                                ELSE mob[c]]
    BY <1>8, Zenon DEF Pair
  <2>0. \/ b \in tick.remove /\ mob'[b] = Gone
        \/ b \notin tick.remove /\ b \in S /\ mob'[b] = [mob[b] EXCEPT !.love = 0, !.rest = BreedRest]
        \/ b \notin tick.remove /\ b \notin S /\ mob'[b] = mob[b]
    BY <2>1, Zenon
  <2>2. past' = Written(past, {mob[c].loot : c \in tick.remove} \ {None})
    BY <1>8, Zenon DEF Pair
  <2>3. past'.overfed = past.overfed
    BY <2>2 DEF Written, Moved, Types, PeopleTypes, Proper, PastFields
  <2>4. CASE b \in tick.remove
    <3>1. mob'[b] = Gone
      BY <2>0, <2>4
    <3> QED
      BY <1>8, <2>4, <3>1, NobodyIsSound, Zenon DEF BeastGoes, Goes
  <2>5. CASE b \notin tick.remove /\ b \in S
    <3>1. mob'[b] = [mob[b] EXCEPT !.love = 0, !.rest = BreedRest]
      BY <2>0, <2>5
    <3>2. Sound([mob[b] EXCEPT !.love = 0, !.rest = BreedRest], b, past.overfed)
      BY <1>0 DEF Sound, Mob
    <3>3. Stays(b)
      BY <1>0, <3>1 DEF Stays, Mob
    <3> QED
      BY <2>3, <3>1, <3>2, <3>3 DEF BeastGoes
  <2>6. CASE b \notin tick.remove /\ b \notin S
    <3>1. mob'[b] = mob[b]
      BY <2>0, <2>6
    <3> QED
      BY <2>3, <3>1, StillSound
  <2> QED
    BY <2>4, <2>5, <2>6
<1>9. ASSUME Baby, NEW b \in Body PROVE BeastGoes(b)
  <2> DEFINE k == Head(todo).on
  <2>1. UNCHANGED mob \/ \E c \in Body :
          mob[c] = Unborn /\ mob' = [mob EXCEPT ![c] = [Born(k, None) EXCEPT !.baby = TRUE, !.age = GrowTicks]]
    BY <1>9 DEF Baby
  <2>2. UNCHANGED past
    BY <1>9 DEF Baby
  <2>3. k \in Tame /\ k \in Kind
    BY <1>9, JobOnBody DEF Baby, Do, LivesAssumption
  <2> DEFINE n == [Born(k, None) EXCEPT !.baby = TRUE, !.age = GrowTicks]
  <2>4. Sound(n, b, past.overfed)
    BY <2>3, NewIsSound, Zenon
  <2>5. n.at = "here"
    <3>0. None \in Thing \cup {None}
      OBVIOUS
    <3>1. Born(k, None) \in Mob /\ Born(k, None).at = "here"
      BY <2>3, <3>0, BornFields, Zenon
    <3> QED
      BY <3>1 DEF Mob
  <2> HIDE DEF n, k
  <2>6. CASE UNCHANGED mob
    BY <2>2, <2>6, StillSound
  <2>7. ASSUME NEW c \in Body, mob[c] = Unborn, mob' = [mob EXCEPT ![c] = n] PROVE BeastGoes(b)
    <3>1. CASE b = c
      <4>1. mob'[b] = n
        BY <1>0, <2>7, <3>1
      <4> QED
        BY <1>9, <2>2, <2>4, <2>5, <2>7, <3>1, <4>1 DEF BeastGoes, Comes
    <3>2. CASE b # c
      BY <2>2, <2>7, <3>2, <1>0, StillSound
    <3> QED
      BY <3>1, <3>2
  <2> QED
    BY <2>1, <2>6, <2>7 DEF n
<1>10. ASSUME Spawn, NEW b \in Body PROVE BeastGoes(b)
  <2>1. UNCHANGED mob \/ \E c \in Body, k \in Kind : mob[c] = Unborn /\ mob' = [mob EXCEPT ![c] = Born(k, None)]
    BY <1>10, Zenon DEF Spawn, Enlist
  <2>2. UNCHANGED past
    BY <1>10 DEF Spawn
  <2>3. CASE UNCHANGED mob
    BY <2>2, <2>3, StillSound
  <2>4. ASSUME NEW c \in Body, NEW k \in Kind, mob[c] = Unborn, mob' = [mob EXCEPT ![c] = Born(k, None)]
        PROVE  BeastGoes(b)
    <3>1. CASE b = c
      <4>1. mob'[b] = Born(k, None)
        BY <1>0, <2>4, <3>1
      <4>0. None \in Thing \cup {None}
        OBVIOUS
      <4>2. Sound(Born(k, None), b, past'.overfed) /\ Born(k, None).at = "here"
        BY <4>0, NewIsSound, BornFields, Zenon
      <4> QED
        BY <1>10, <2>4, <3>1, <4>1, <4>2 DEF BeastGoes, Comes
    <3>2. CASE b # c
      BY <2>2, <2>4, <3>2, <1>0, StillSound
    <3> QED
      BY <3>1, <3>2
  <2> QED
    BY <2>1, <2>3, <2>4
<1>11. ASSUME Pierce, NEW b \in Body PROVE BeastGoes(b)
  <2> DEFINE c == Head(todo).on
  <2>1. PICK n \in Blow : mob' = IF c \in Here THEN [mob EXCEPT ![c].health = MaxOf(0, @ - n)] ELSE mob
    BY <1>11 DEF Pierce
  <2>2. UNCHANGED past
    BY <1>11 DEF Pierce
  <2>3. CASE b = c /\ c \in Here
    <3> DEFINE h == MaxOf(0, mob[b].health - n)
    <3>1. mob'[b] = [mob[b] EXCEPT !.health = h]
      BY <1>0, <2>1, <2>3
    <3>2. mob[b].health = 0 => h = 0
      BY LivesAssumption DEF LivesAssumption, MaxOf
    <3> HIDE DEF h
    <3>3. Sound([mob[b] EXCEPT !.health = h], b, past.overfed)
      BY <1>0, <3>2 DEF Sound, Mob
    <3>4. Stays(b)
      BY <1>0, <3>1 DEF Stays, Mob
    <3> QED
      BY <2>2, <3>1, <3>3, <3>4 DEF BeastGoes
  <2>4. CASE b # c \/ c \notin Here
    <3>1. mob'[b] = mob[b]
      BY <1>0, <2>1, <2>4
    <3> QED
      BY <2>2, <3>1, StillSound
  <2> QED
    BY <2>3, <2>4
<1>12. ASSUME Restart, NEW b \in Body PROVE BeastGoes(b)
  <2> DEFINE saved == Read("entities", [mobs |-> {}, items |-> {}])
             back == {m \in saved.mobs : m.body = b}
             m == CHOOSE m \in back : TRUE
             new == [Born(m.kind, m.loot) EXCEPT !.health = m.health]
  <2>1. saved.mobs \subseteq SavedMob
    BY SavedEntities
  <2>2. back # {} => m \in SavedMob
    BY <2>1
  <2>3. back # {} => m.kind \in Kind /\ m.loot \in Thing \cup {None} /\ m.health \in Nat
    BY <2>2 DEF SavedMob
  <2> HIDE DEF m
  <2>4. back # {} => Sound(new, b, past'.overfed)
    BY <2>3, NewIsSound, Zenon
  <2>5. mob'[b] = IF back # {} THEN new ELSE IF mob[b] = Unborn THEN Unborn ELSE Gone
    BY <1>12 DEF Restart, m
  <2> HIDE DEF new, back
  <2>6. Sound(mob'[b], b, past'.overfed)
    BY <2>4, <2>5, NobodyIsSound
  <2> QED
    BY <1>12, <2>6 DEF BeastGoes
<1>13. ASSUME UNCHANGED mob, past'.overfed = past.overfed \/ Feeding \/ Restart, NEW b \in Body
      PROVE  BeastGoes(b)
  <2>1. CASE past'.overfed = past.overfed
    BY <1>13, <2>1, StillSound
  <2> QED
    BY <1>2, <1>12, <1>13, <2>1 DEF Feeding
<1>14. TablesGo /\ MarksGo
  BY WhatBecomesOfTables, MarksKept
<1> QED
  BY <1>1, <1>2, <1>3, <1>4, <1>5, <1>6, <1>7, <1>8, <1>9, <1>10, <1>11, <1>12, <1>13, <1>14
  DEF TablesGo, MarksGo, Attacking, Feeding, Summoning

\* While mobs are gone through, none comes in that loop and none goes.
LEMMA HeldBeastsStay ==
  ASSUME LivesAssumption, Types, OldHands, LoversTame, JobsInOrder, [Next]_vars,
         \A b \in Body : BeastGoes(b), ToCome("pair")', ~Starting
  PROVE  /\ ToCome("pair")
         /\ \A b \in Body : mob[b].at # "unborn" => Stays(b)
<1>0. LoopGoes /\ todo \in Seq(AJob)
  BY LoopStep DEF Types, LoopTypes
<1>1. todo' # <<>>
  BY DEF ToCome
<1>2. ToCome("pair") /\ ~Pair /\ ~Restart /\ todo # <<>>
  <2>0. Pair => Head(todo).do = "pair" /\ todo' # todo
    <3>1. SUFFICES ASSUME Pair PROVE Head(todo).do = "pair" /\ todo' # todo
      OBVIOUS
    <3>2. Head(todo).do = "pair" /\ todo # <<>>
      BY <3>1, Zenon DEF Pair, Do
    <3>3. ToCome("pair")
      BY <1>0, <3>2, FirstJob DEF ToCome
    <3>4. ToCome("forget")'
      BY <3>1, PairGoesOn
    <3> QED
      BY <3>2, <3>3, <3>4 DEF JobsInOrder, ToCome
  <2>1. Restart => todo' = <<>>
    BY DEF Restart
  <2>2. CASE UNCHANGED todo
    BY <1>1, <2>0, <2>1, <2>2 DEF ToCome
  <2>3. CASE GoingOn
    <3>1. PICK more \in Seq(AJob) : New(more) /\ Done(more) /\ todo # <<>>
      BY <2>3 DEF GoingOn
    <3>2. ToCome("pair") /\ Head(todo).do # "pair"
      BY <1>0, <3>1, WhatIsToCome, PairingIsLast
    <3> QED
      BY <1>1, <2>0, <2>1, <3>1, <3>2
  <2> QED
    BY <1>0, <1>1, <2>2, <2>3 DEF LoopGoes
<1>3. ~MobsTick
  BY <1>2 DEF MobsTick, LoopFree
<1>4. Unborn.at = "unborn"
  BY NobodyTyped
<1> QED
  BY <1>2, <1>3, <1>4 DEF BeastGoes, Comes, Stays

\* Every step keeps it that only tame beasts that are there are in love.
LEMMA LoversStep ==
  ASSUME LivesAssumption, Types, DeadOrAlive, OldHands, LoversTame, JobsInOrder, BeastsSound,
         [Next]_vars
  PROVE  LoversTame'
<1>1. \A b \in Body : BeastGoes(b)
  BY BeastsStep
<1>2. \A b \in Body : mob'[b].love > 0 => InWorldTame(b)'
  BY <1>1 DEF BeastGoes, Sound, InWorldTame
<1>3. ASSUME ToCome("pair")', NEW b \in tick'.lovers PROVE InWorldTame(b)'
  <2>1. CASE Starting
    BY <1>3, <2>1 DEF Starting, ToCome
  <2>2. CASE ~Starting
    <3>1. ToCome("pair") /\ \A c \in Body : mob[c].at # "unborn" => Stays(c)
      BY <1>1, <1>3, <2>2, HeldBeastsStay
    <3>2. tick.lovers \subseteq Body
      BY DEF Types, LoopTypes, Tick
    <3>3. ~MobsTick
      BY <3>1 DEF MobsTick, LoopFree, ToCome
    <3>4. ~Restart
      BY <1>3 DEF Restart, ToCome
    <3>5. MobLives => b \in tick.lovers \/ (b \in Body /\ mob[b].love > 0)
      <4>1. SUFFICES ASSUME MobLives PROVE b \in tick.lovers \/ (b \in Body /\ mob[b].love > 0)
        OBVIOUS
      <4>2. Head(todo).on \in Body
        BY <4>1, JobOnBody, Zenon DEF MobLives, Do
      <4>3. PICK L : /\ tick' = [tick EXCEPT !.lovers = @ \cup L]
                     /\ L = IF mob[Head(todo).on].love > 0 /\ ~Aged(mob[Head(todo).on]).baby
                               /\ Aged(mob[Head(todo).on]).rest = 0
                            THEN {Head(todo).on} ELSE {}
        BY <4>1, Zenon DEF MobLives
      <4>4. tick'.lovers = tick.lovers \cup L
        BY <4>3 DEF Types, LoopTypes, Tick
      <4> QED
        BY <1>3, <4>2, <4>3, <4>4
    <3>6. tick'.lovers = tick.lovers \/ MobLives
      BY WhatBecomesOfTables, <3>3, <3>4 DEF TablesGo
    <3>7. b \in Body /\ InWorldTame(b)
      BY <1>3, <3>1, <3>2, <3>5, <3>6 DEF LoversTame
    <3> QED
      BY <3>1, <3>7 DEF InWorldTame, Stays
  <2> QED
    BY <2>1, <2>2
<1> QED
  BY <1>2, <1>3 DEF LoversTame

\* The living have health, and the dead have none.
LEMMA DeadOrAliveParts == DeadOrAlive <=> PeopleDeadOrAlive /\ BeastsDeadOrAlive
  BY DEF DeadOrAlive, PeopleDeadOrAlive, BeastsDeadOrAlive

\* The invariant's parts about beasts, one by one.
LEMMA BeastsAreSound ==
  ASSUME DeadOrAlive, LoversTame
  PROVE  BeastsSound
  BY DEF DeadOrAlive, LoversTame, InWorldTame, BeastsSound, Sound, Here

\* Every step keeps it that the dead are dead, and the living alive.
LEMMA DeadOrAliveStep ==
  ASSUME LivesAssumption, Types, DeadOrAlive, OldHands, LoversTame, [Next]_vars
  PROVE  DeadOrAlive'
<1>1. PeopleDeadOrAlive'
  BY PeopleStep
<1>2. \A b \in Body : Sound(mob'[b], b, past'.overfed)
  BY BeastsAreSound, BeastsStep DEF BeastGoes
<1>3. BeastsDeadOrAlive'
  BY <1>2 DEF BeastsDeadOrAlive, Sound, Here
<1> QED
  BY <1>1, <1>3 DEF DeadOrAlive, PeopleDeadOrAlive, BeastsDeadOrAlive

\* The mobs a tick has yet to go through are there.
LEMMA MobsToComeStep ==
  ASSUME LivesAssumption, Types, DeadOrAlive, OldHands, LoversTame, JobsInOrder, MobsToCome,
         [Next]_vars
  PROVE  MobsToCome'
<1>0. todo \in Seq(AJob) /\ LoopGoes /\ \A b \in Body : BeastGoes(b)
  BY LoopStep, BeastsAreSound, BeastsStep DEF Types, LoopTypes
<1>1. CASE Starting
  BY <1>1 DEF Starting, MobsToCome, Here
<1>2. ASSUME ~Starting, NEW i \in DOMAIN todo', todo'[i].do = "mob"
      PROVE  mob'[todo'[i].on].at = "here"
  <2>1. ToCome("pair")'
    BY <1>2, OrderStep DEF JobsInOrder, ToCome
  <2>2. \A b \in Body : mob[b].at # "unborn" => Stays(b)
    BY <1>0, <1>2, <2>1, HeldBeastsStay
  <2>3. todo' # <<>>
    BY <1>2
  <2>4. \E k \in DOMAIN todo : todo[k] = todo'[i]
    <3>1. CASE UNCHANGED todo
      BY <1>2, <3>1
    <3>2. CASE GoingOn
      <4>1. PICK more \in Seq(AJob) : New(more) /\ Done(more) /\ todo # <<>>
        BY <3>2 DEF GoingOn
      <4>2. \A k \in DOMAIN more : more[k].do # "mob"
        BY <4>1 DEF New
      <4> QED
        BY <1>0, <1>2, <4>1, <4>2, DoneJobs
    <3> QED
      BY <1>0, <1>2, <2>3, <3>1, <3>2 DEF LoopGoes
  <2>5. PICK k \in DOMAIN todo : todo[k] = todo'[i]
    BY <2>4
  <2>6. todo[k] \in AJob
    BY <1>0
  <2>7. todo'[i].on \in Body /\ mob[todo'[i].on].at = "here"
    BY <1>2, <2>5, <2>6, JobFields DEF MobsToCome
  <2> QED
    BY <2>2, <2>7 DEF Stays
<1> QED
  BY <1>1, <1>2 DEF MobsToCome

\* The mobs to be forgotten are noted.
Noting == MobDying \/ MobStrays

\* A mob that is to go is noted, besides those noted before.
LEMMA NotingNotes ==
  ASSUME Types, Noting
  PROVE  tick.remove \subseteq tick'.remove /\ tick'.remove \subseteq tick.remove \cup {Head(todo).on}
<1>1. tick = [crowd |-> tick.crowd, night |-> tick.night, remove |-> tick.remove, lovers |-> tick.lovers]
  BY DEF Types, LoopTypes, Tick
<1>2. PICK S \in SUBSET {Head(todo).on} : tick' = [tick EXCEPT !.remove = @ \cup S]
  BY DEF Noting, MobDying, MobStrays
<1> QED
  BY <1>1, <1>2

\* A tick of the mobs begins when no tick is under way, and so none is noted.
LEMMA NoneNotedYet ==
  ASSUME RemoveNoted, MobsTick
  PROVE  tick.remove = {}
<1>1. todo = <<>>
  BY DEF MobsTick, LoopFree
<1> QED
  BY <1>1 DEF RemoveNoted, ToCome
\* Every step keeps it that mobs are noted only while a tick is under way.
LEMMA RemoveNotedStep ==
  ASSUME LivesAssumption, Types, DeadOrAlive, OldHands, LoversTame, JobsInOrder, MobsToCome,
         RemoveNoted, [Next]_vars
  PROVE  RemoveNoted'
<1>0. todo \in Seq(AJob) /\ LoopGoes /\ \A b \in Body : BeastGoes(b)
  BY LoopStep, BeastsAreSound, BeastsStep DEF Types, LoopTypes
<1>1. tick.remove \subseteq Body /\ Unborn.at = "unborn" /\ Gone.at = "gone"
  BY NobodyTyped DEF Types, LoopTypes, Tick
<1>2. CASE tick'.remove = {}
  BY <1>2 DEF RemoveNoted
<1>3. CASE Noting
  <2>1. todo # <<>> /\ Head(todo).do = "mob" /\ Done(<<>>)
    BY <1>3 DEF Noting, MobDying, MobStrays, Do
  <2>2. ToCome("pair")'
    <3>1. ToCome("pair")
      BY <1>0, <2>1, FirstJob DEF JobsInOrder, ToCome
    <3> QED
      BY <1>0, <2>1, <3>1, NoNewJob, WhatIsToCome
  <2>3. Head(todo).on \in Body /\ mob[Head(todo).on].at = "here"
    BY <1>0, <2>1, FirstJob, JobOnBody DEF MobsToCome
  <2>4. tick'.remove \subseteq tick.remove \cup {Head(todo).on}
    BY <1>3, NotingNotes
  <2>5. \A b \in tick'.remove : b \in Body /\ mob[b].at \in {"here", "gone"}
    BY <1>1, <2>3, <2>4 DEF RemoveNoted
  <2>6. ~Starting
    BY <2>1 DEF Starting, LoopFree
  <2>7. \A b \in Body : mob[b].at # "unborn" => Stays(b)
    BY <1>0, <2>2, <2>6, HeldBeastsStay
  <2> QED
    BY <2>2, <2>5, <2>7 DEF RemoveNoted, Stays
<1>4. CASE MobsTick
  <2>1. todo = <<>> /\ tick.remove = {}
    BY <1>4, NoneNotedYet DEF MobsTick, LoopFree
  <2>2. \A t, n : [NoTick EXCEPT !.crowd = t, !.night = n].remove = {}
    BY DEF NoTick
  <2>3. tick'.remove = {}
    BY <1>4, <2>1, <2>2 DEF MobsTick, course
  <2> QED
    BY <1>2, <2>3
<1>5. CASE Forget
  BY <1>2, <1>5 DEF Forget, Types, LoopTypes, Tick
<1>6. CASE Restart
  BY <1>2, <1>6 DEF Restart, NoTick
<1>7. CASE tick'.remove = tick.remove /\ tick.remove # {} /\ ~Forget /\ ~Restart /\ ~MobsTick
  <2>1. ToCome("pair") \/ ToCome("forget")
    BY <1>7 DEF RemoveNoted
  <2>2. todo # <<>>
    BY <2>1 DEF ToCome
  <2>3. ~Starting
    BY <2>2 DEF Starting, LoopFree
  <2>4. CASE UNCHANGED todo
    <3>1. ~Pair
      <4>1. SUFFICES ASSUME Pair PROVE FALSE
        OBVIOUS
      <4>2. Head(todo).do = "pair" /\ ToCome("forget")'
        BY <4>1, PairGoesOn, Zenon DEF Pair, Do
      <4> QED
        BY <1>0, <2>2, <2>4, <4>2, FirstJob DEF JobsInOrder, ToCome
    <3>2. (ToCome("pair") \/ ToCome("forget"))' /\ (ToCome("pair")' <=> ToCome("pair"))
      BY <2>1, <2>4 DEF ToCome
    <3>3. ASSUME NEW b \in tick.remove
          PROVE  mob'[b].at = "gone" \/ (mob'[b].at = "here" /\ ToCome("pair")')
      <4>1. b \in Body /\ (mob[b].at = "gone" \/ (mob[b].at = "here" /\ ToCome("pair")))
        BY <1>1 DEF RemoveNoted
      <4>2. Stays(b) \/ Comes(b)
        BY <1>0, <1>7, <3>1, <4>1 DEF BeastGoes
      <4> QED
        BY <1>1, <3>2, <4>1, <4>2 DEF Stays, Comes
    <3> QED
      BY <1>7, <3>2, <3>3 DEF RemoveNoted
  <2>5. CASE GoingOn
    <3>1. PICK more \in Seq(AJob) : New(more) /\ Done(more)
      BY <2>5 DEF GoingOn
    <3>2. /\ ToCome("pair") /\ Head(todo).do # "pair" => ToCome("pair")'
          /\ ToCome("forget") /\ Head(todo).do # "forget" => ToCome("forget")'
      BY <1>0, <2>2, <3>1, WhatIsToCome
    <3>3. Head(todo).do # "forget" /\ (Head(todo).do = "pair" => Pair)
      BY <1>7, <2>5 DEF GoingOn
    <3>4. Pair => ToCome("forget")'
      BY PairGoesOn
    <3>5. ToCome("pair")' \/ ToCome("forget")'
      BY <2>1, <3>2, <3>3, <3>4
    <3>6. ASSUME NEW b \in tick.remove
          PROVE  mob'[b].at = "gone" \/ (mob'[b].at = "here" /\ ToCome("pair")')
      <4>1. b \in Body /\ (mob[b].at = "gone" \/ (mob[b].at = "here" /\ ToCome("pair")))
        BY <1>1 DEF RemoveNoted
      <4>2. Stays(b) \/ Comes(b) \/ Goes(b)
        BY <1>0, <1>7, <4>1 DEF BeastGoes
      <4>3. Pair => mob'[b].at = "gone"
        <5>1. SUFFICES ASSUME Pair PROVE mob'[b].at = "gone"
          OBVIOUS
        <5>2. mob'[b] = Gone
          BY <4>1, <5>1, Zenon DEF Pair
        <5> QED
          BY <1>1, <5>2
      <4> QED
        BY <1>1, <3>2, <3>3, <4>1, <4>2, <4>3 DEF Stays, Comes, Goes
    <3> QED
      BY <1>7, <3>5, <3>6 DEF RemoveNoted
  <2> QED
    BY <1>0, <1>7, <2>3, <2>4, <2>5 DEF LoopGoes
<1>8. TablesGo
  BY WhatBecomesOfTables
<1> QED
  BY <1>2, <1>3, <1>4, <1>5, <1>6, <1>7, <1>8 DEF TablesGo, Noting

(***************************************************************************)
(* What each thread goes on with.                                          *)
(***************************************************************************)

Kept(u) == step'[u].at = step[u].at /\ step'[u].on = step[u].on
Begins(u) ==
  /\ step[u].at = "idle"
  /\ \/ step'[u].at \in {"hurt", "telling"} /\ Altering
     \/ step'[u].at = "hastening" /\ u \in Player /\ Hastening(u)
     \/ step'[u].at = "naming" /\ Enlisting(u) /\ (Summoning \/ Spawn)
     \/ step'[u].at = "mounting" /\ u \in Player /\ \E v \in Boat : Mount(u, v)
     \/ step'[u].at = "rising" /\ u \in Player /\ Dismount(u)
Ends(u) ==
  \/ step[u].at = "hurt" /\ Flinch(u)
  \/ step[u].at = "dropping" /\ DropAll(u)
  \/ step[u].at = "spilling" /\ Spill(u)
  \/ step[u].at = "telling" /\ SendHealth(u)
  \/ step[u].at = "naming" /\ register_villager(u)
  \/ step[u].at = "hastening" /\ u \in Player /\ AddSpeed(u)
  \/ step[u].at = "mounting" /\ u \in Player /\ Seat(u)
  \/ step[u].at = "rising" /\ u \in Player /\ Rise(u)
StepsGo == Restart \/ \A u \in Thread : Kept(u) \/ Begins(u) \/ Ends(u)

\* In every step each thread stays, begins something, or ends it.
LEMMA WhatThreadsDo ==
  ASSUME LivesAssumption, Types, DeadOrAlive, OldHands, [Next]_vars
  PROVE  StepsGo
<1>0. step \in [Thread -> Step] /\ Player \subseteq Thread /\ Loop \in Thread /\ Loop \notin Player
  BY DEF Types, PeopleTypes, Thread, LivesAssumption
<1>1. CASE Altering
  <2>1. CASE Alteration
    <3>1. PICK u \in Thread, p \in Player, t \in Self, at \in {"hurt", "telling"}, died \in BOOLEAN :
            Altered(u, p, t, at, died)
      BY <2>1 DEF Alteration
    <3>2. Changed(u, p, t, at, died) /\ step[u].at = "idle"
      BY <3>1, ChangeIs DEF Altered
    <3>3. \A v \in Thread \ {u} : Kept(v)
      BY <3>2 DEF Changed, Kept
    <3>4. Begins(u)
      BY <1>1, <3>2 DEF Changed, Begins
    <3> QED
      BY <3>3, <3>4 DEF StepsGo
  <2>2. CASE AtRest
    BY <2>2 DEF AtRest, people, StepsGo, Kept
  <2> QED
    BY <1>1, <2>1, <2>2, AlteringAlters
<1>2. CASE Aside
  BY <1>2, AsideLeaves DEF Left, StepsGo, Kept
<1>3. ASSUME NEW u \in Thread, Flinch(u) PROVE StepsGo
  <2>1. Ends(u)
    BY <1>3 DEF Flinch, Ends
  <2>2. \A v \in Thread \ {u} : Kept(v)
    BY <1>3, <1>0 DEF Flinch, Kept
  <2> QED
    BY <2>1, <2>2 DEF StepsGo
<1>4. ASSUME NEW u \in Thread, DropAll(u) PROVE StepsGo
  <2>1. Ends(u)
    BY <1>4 DEF DropAll, Ends
  <2>2. \A v \in Thread \ {u} : Kept(v)
    BY <1>4, <1>0 DEF DropAll, Kept
  <2> QED
    BY <2>1, <2>2 DEF StepsGo
<1>5. ASSUME NEW u \in Thread, Spill(u) PROVE StepsGo
  <2>1. Ends(u)
    BY <1>5 DEF Spill, Ends
  <2>2. \A v \in Thread \ {u} : Kept(v)
    BY <1>5, <1>0 DEF Spill, Kept
  <2> QED
    BY <2>1, <2>2 DEF StepsGo
<1>6. ASSUME NEW u \in Thread, SendHealth(u) PROVE StepsGo
  <2>1. Ends(u)
    BY <1>6 DEF SendHealth, Ends
  <2>2. \A v \in Thread \ {u} : Kept(v)
    BY <1>6, <1>0 DEF SendHealth, Kept
  <2> QED
    BY <2>1, <2>2 DEF StepsGo
<1>7. ASSUME NEW u \in Thread, register_villager(u) PROVE StepsGo
  <2>1. Ends(u)
    BY <1>7 DEF register_villager, Ends
  <2>2. \A v \in Thread \ {u} : Kept(v)
    BY <1>7, <1>0 DEF register_villager, Kept
  <2> QED
    BY <2>1, <2>2 DEF StepsGo
<1>8. ASSUME NEW p \in Player, AddSpeed(p) PROVE StepsGo
  <2>1. Ends(p)
    BY <1>8 DEF AddSpeed, Ends
  <2>2. \A v \in Thread \ {p} : Kept(v)
    BY <1>8, <1>0 DEF AddSpeed, Kept
  <2> QED
    BY <2>1, <2>2 DEF StepsGo
<1>9. ASSUME NEW p \in Player, Seat(p) PROVE StepsGo
  <2>1. Ends(p)
    BY <1>9 DEF Seat, Ends
  <2>2. \A v \in Thread \ {p} : Kept(v)
    BY <1>9, <1>0 DEF Seat, Kept
  <2> QED
    BY <2>1, <2>2 DEF StepsGo
<1>10. ASSUME NEW p \in Player, Rise(p) PROVE StepsGo
  <2>1. Ends(p)
    BY <1>10 DEF Rise, Ends
  <2>2. \A v \in Thread \ {p} : Kept(v)
    BY <1>10, <1>0 DEF Rise, Kept
  <2> QED
    BY <2>1, <2>2 DEF StepsGo
<1>11. ASSUME NEW p \in Player, ApplyLasting(p) PROVE StepsGo
  <2>1. CASE Hastening(p)
    <3>1. step[p].at = "idle"
      BY <1>11, ApplyLastingIs DEF Free
    <3>2. [Still EXCEPT !.at = "hastening", !.on = p].at = "hastening"
      BY DEF Still
    <3>3. Begins(p)
      BY <1>0, <2>1, <3>1, <3>2 DEF Begins, Hastening
    <3>4. \A v \in Thread \ {p} : Kept(v)
      BY <2>1 DEF Hastening, Kept
    <3> QED
      BY <3>3, <3>4 DEF StepsGo
  <2>2. CASE Lasting(p)
    BY <2>2 DEF Lasting, StepsGo, Kept
  <2> QED
    BY <1>11, <2>1, <2>2, ApplyLastingIs
<1>12. ASSUME NEW p \in Player, Summon(p) PROVE StepsGo
  <2>1. Enlisting(p) /\ p \in Thread /\ step[p].at = "idle"
    BY <1>12, <1>0, SummonEnlists DEF Summon, Free
  <2>2. step'[p] = step[p] \/ step'[p].at = "naming"
    BY <2>1, EnlistingStep
  <2>3. Kept(p) \/ Begins(p)
    BY <1>12, <2>1, <2>2 DEF Kept, Begins, Summoning
  <2>4. \A v \in Thread \ {p} : Kept(v)
    BY <2>1, EnlistingStep DEF Kept
  <2> QED
    BY <2>3, <2>4 DEF StepsGo
<1>13. CASE Spawn
  <2>1. (Enlisting(Loop) \/ UNCHANGED step) /\ step[Loop].at = "idle"
    BY <1>13, SpawnEnlists DEF Spawn, Do
  <2>2. CASE UNCHANGED step
    BY <2>2 DEF StepsGo, Kept
  <2>3. CASE Enlisting(Loop)
    <3>1. step'[Loop] = step[Loop] \/ step'[Loop].at = "naming"
      BY <1>0, <2>3, EnlistingStep
    <3>2. Kept(Loop) \/ Begins(Loop)
      BY <1>13, <2>1, <2>3, <3>1 DEF Kept, Begins
    <3>3. \A v \in Thread \ {Loop} : Kept(v)
      BY <1>0, <2>3, EnlistingStep DEF Kept
    <3> QED
      BY <3>2, <3>3 DEF StepsGo
  <2> QED
    BY <2>1, <2>2, <2>3
<1>14. ASSUME NEW p \in Player, Dismount(p) PROVE StepsGo
  <2>1. step[p].at = "idle" /\ step' = [step EXCEPT ![p] = [Still EXCEPT !.at = "rising", !.on = self[p].riding]]
    BY <1>14 DEF Dismount, Free
  <2>2. [Still EXCEPT !.at = "rising", !.on = self[p].riding].at = "rising"
    BY DEF Still
  <2>3. Begins(p)
    BY <1>14, <1>0, <2>1, <2>2 DEF Begins
  <2>4. \A u \in Thread \ {p} : Kept(u)
    BY <2>1 DEF Kept
  <2> QED
    BY <2>3, <2>4 DEF StepsGo
<1>15. ASSUME NEW p \in Player, NEW v \in Boat, Mount(p, v) PROVE StepsGo
  <2>1. step[p].at = "idle" /\ step' = [step EXCEPT ![p] = [Still EXCEPT !.at = "mounting", !.on = v]]
    BY <1>15 DEF Mount, Free
  <2>2. [Still EXCEPT !.at = "mounting", !.on = v].at = "mounting"
    BY DEF Still
  <2>3. Begins(p)
    BY <1>15, <1>0, <2>1, <2>2 DEF Begins
  <2>4. \A u \in Thread \ {p} : Kept(u)
    BY <2>1 DEF Kept
  <2> QED
    BY <2>3, <2>4 DEF StepsGo
<1>16. ASSUME NEW p \in Player,
            \/ SetGamemode(p) \/ SwitchDimension(p) \/ DrinkMilk(p) \/ Weather(p) \/ Load(p)
            \/ Enter(p) \/ Leave(p) \/ WriteFile(p) \/ remove_player(p) \/ Clear(p)
     PROVE  UNCHANGED step
  BY <1>16 DEF SetGamemode, SwitchDimension, DrinkMilk, Weather, Load, Enter, Leave, WriteFile,
      remove_player, Clear
<1>17. ASSUME NEW p \in Player, NEW t \in Thing, Stow(p, t) \/ Fetch(p, t) PROVE UNCHANGED step
  BY <1>17 DEF Stow, Fetch
<1>18. CASE Give \/ Wane \/ Slow \/ TellWeather
  <2>1. UNCHANGED step
    BY <1>18 DEF Give, Wane, Slow, TellWeather
  <2> QED
    BY <2>1 DEF StepsGo, Kept
<1>19. CASE Restart
  BY <1>19 DEF StepsGo
<1>20. CASE UNCHANGED step
  BY <1>20 DEF StepsGo, Kept
<1> QED
  BY <1>1, <1>2, <1>3, <1>4, <1>5, <1>6, <1>7, <1>8, <1>9, <1>10, <1>11, <1>12, <1>13, <1>14,
     <1>15, <1>16, <1>17, <1>18, <1>19, <1>20
  DEF Next, Altering, Aside

\* A thread that ends something is idle, or goes on to drop or spill.
LEMMA EndsAre ==
  ASSUME Types, NEW u \in Thread, Ends(u)
  PROVE  step'[u].at \in {"idle", "dropping", "spilling"}
<1>0. step \in [Thread -> Step]
  BY DEF Types, PeopleTypes
<1>1. CASE Flinch(u)
  <2>1. step' = [step EXCEPT ![u] = Still]
        \/ step' = [step EXCEPT ![u] = IF @.died /\ ~KeepInventory
                                       THEN [Still EXCEPT !.at = "dropping", !.on = step[u].on]
                                       ELSE Still]
    BY <1>1 DEF Flinch
  <2>2. [Still EXCEPT !.at = "dropping", !.on = step[u].on].at = "dropping"
    BY DEF Still
  <2> QED
    BY <1>0, <2>1, <2>2, StepParts
<1>2. CASE DropAll(u)
  <2>1. step' = [step EXCEPT ![u] = [Still EXCEPT !.at = "spilling", !.bag = self[step[u].on].pack]]
    BY <1>2 DEF DropAll
  <2>2. [Still EXCEPT !.at = "spilling", !.bag = self[step[u].on].pack].at = "spilling"
    BY DEF Still
  <2> QED
    BY <1>0, <2>1, <2>2
<1>3. CASE \/ Spill(u) \/ SendHealth(u) \/ register_villager(u)
           \/ (u \in Player /\ (AddSpeed(u) \/ Seat(u) \/ Rise(u)))
  <2>1. step' = [step EXCEPT ![u] = Still]
    BY <1>3 DEF Spill, SendHealth, register_villager, AddSpeed, Seat, Rise
  <2> QED
    BY <1>0, <2>1, StepParts
<1> QED
  BY <1>1, <1>2, <1>3 DEF Ends

(***************************************************************************)
(* What a step keeps: vehicles and their riders.                           *)
(***************************************************************************)

\* What the steps that concern a vehicle do, one by one.
Rides(p, v) == rider[v] = p \/ <<p, v>> \in past.ousted
NewRides(p, v) == rider'[v] = p \/ <<p, v>> \in past'.ousted
OtherSteps(p) == \A q \in Player \ {p} : step'[q] = step[q]
OtherSelves(p) == \A q \in Player \ {p} : self'[q] = self[q]

\* What mounting does: it takes the vehicle, before the player rides it.
LEMMA MountDoes ==
  ASSUME LivesAssumption, Types, NEW p \in Player, NEW v \in Boat, Mount(p, v)
  PROVE  /\ rider'[v] = p /\ \A w \in Boat \ {v} : rider'[w] = rider[w]
         /\ step[p].at = "idle" /\ step'[p].at = "mounting" /\ step'[p].on = v
         /\ OtherSteps(p) /\ UNCHANGED self
         /\ \A q \in Player, w \in Boat : Rides(q, w) => NewRides(q, w)
         /\ past'.strayed = past.strayed \ {<<p, v>>}
<1>0. rider \in [Boat -> Player \cup {None}] /\ step \in [Thread -> Step] /\ p \in Thread
      /\ Proper(past) /\ None \notin Player
  BY DEF Types, PeopleTypes, BeastTypes, Thread, LivesAssumption
<1>1. /\ rider' = [rider EXCEPT ![v] = p] /\ UNCHANGED self /\ step[p].at = "idle"
      /\ step' = [step EXCEPT ![p] = [Still EXCEPT !.at = "mounting", !.on = v]]
  BY DEF Mount, Free, people
<1>2. [Still EXCEPT !.at = "mounting", !.on = v].at = "mounting"
      /\ [Still EXCEPT !.at = "mounting", !.on = v].on = v
  BY DEF Still
<1>3. past'.strayed = past.strayed \ {<<p, v>>}
      /\ past'.ousted = (past.ousted \cup ({rider[v]} \ {None}) \X {v}) \ {<<p, v>>}
  BY <1>0 DEF Mount, Proper, PastFields
<1>4. ASSUME NEW q \in Player, NEW w \in Boat, Rides(q, w) PROVE NewRides(q, w)
  <2>1. CASE q = p /\ w = v
    BY <1>0, <1>1, <2>1 DEF NewRides
  <2>2. CASE ~(q = p /\ w = v) /\ <<q, w>> \in past.ousted
    BY <1>3, <2>2 DEF NewRides
  <2>3. CASE q # p /\ w = v /\ rider[w] = q
    BY <1>0, <1>3, <2>3 DEF NewRides
  <2>4. CASE w # v /\ rider[w] = q
    BY <1>0, <1>1, <2>4 DEF NewRides
  <2> QED
    BY <1>4, <2>1, <2>2, <2>3, <2>4 DEF Rides
<1> QED
  BY <1>0, <1>1, <1>2, <1>3, <1>4 DEF OtherSteps, Thread

\* What getting off does: it leaves the vehicle, after the player has stopped riding it.
LEMMA RiseDoes ==
  ASSUME LivesAssumption, Types, Boarding, NEW p \in Player, Rise(p)
  PROVE  /\ step[p].at = "rising" /\ step[p].on \in Boat /\ self[p].riding = None
         /\ rider'[step[p].on] = None /\ \A w \in Boat \ {step[p].on} : rider'[w] = rider[w]
         /\ step'[p].at = "idle" /\ OtherSteps(p) /\ UNCHANGED self
         /\ \A q \in Player, w \in Boat : q # p \/ w # step[p].on => (Rides(q, w) => NewRides(q, w))
         /\ past'.strayed = past.strayed \ {<<p, step[p].on>>}
<1>0. rider \in [Boat -> Player \cup {None}] /\ step \in [Thread -> Step] /\ p \in Thread
      /\ Proper(past) /\ None \notin Player
  BY DEF Types, PeopleTypes, BeastTypes, Thread, LivesAssumption
<1>1. step[p].at = "rising" /\ step[p].on \in Boat /\ self[p].riding = None
  BY DEF Rise, Boarding
<1> DEFINE v == step[p].on
<1>2. rider' = [rider EXCEPT ![v] = None] /\ UNCHANGED self /\ step' = [step EXCEPT ![p] = Still]
  BY DEF Rise, people
<1>3. past'.strayed = past.strayed \ {<<p, v>>}
      /\ past'.ousted = past.ousted \cup ({rider[v]} \ {None, p}) \X {v}
  BY <1>0 DEF Rise, Proper, PastFields
<1> HIDE DEF v
<1>4. ASSUME NEW q \in Player, NEW w \in Boat, q # p \/ w # v, Rides(q, w) PROVE NewRides(q, w)
  <2>1. CASE <<q, w>> \in past.ousted
    BY <1>3, <2>1 DEF NewRides
  <2>2. CASE q # p /\ w = v /\ rider[w] = q
    BY <1>0, <1>3, <2>2 DEF NewRides
  <2>3. CASE w # v /\ rider[w] = q
    BY <1>0, <1>2, <2>3 DEF NewRides
  <2> QED
    BY <1>4, <2>1, <2>2, <2>3 DEF Rides
<1> QED
  BY <1>0, <1>1, <1>2, <1>3, <1>4, StepParts DEF OtherSteps, Thread, v

\* What sitting down does: the player rides what it had taken.
LEMMA SeatDoes ==
  ASSUME LivesAssumption, Types, Boarding, NEW p \in Player, Seat(p)
  PROVE  /\ step[p].at = "mounting" /\ step[p].on \in Boat /\ Rides(p, step[p].on)
         /\ self'[p].riding = step[p].on /\ OtherSelves(p)
         /\ step'[p].at = "idle" /\ OtherSteps(p) /\ UNCHANGED rider
         /\ past'.ousted = past.ousted /\ past.strayed \subseteq past'.strayed
         /\ \A w \in Boat : self[p].riding = w => w = step[p].on \/ <<p, w>> \in past'.strayed
<1>0. self \in [Player -> Self] /\ step \in [Thread -> Step] /\ p \in Thread
      /\ Proper(past) /\ None \notin Boat
  BY DEF Types, PeopleTypes, Thread, LivesAssumption
<1>1. step[p].at = "mounting" /\ step[p].on \in Boat /\ Rides(p, step[p].on)
  BY DEF Seat, Boarding, Rides
<1>2. /\ UNCHANGED rider /\ self' = [self EXCEPT ![p].riding = step[p].on]
      /\ step' = [step EXCEPT ![p] = Still]
  BY DEF Seat, elsewhere, beasts
<1>3. past'.strayed = past.strayed \cup ({p} \X ({self[p].riding} \ {None, step[p].on}))
      /\ past'.ousted = past.ousted
  BY <1>0 DEF Seat, Proper, PastFields
<1>4. self'[p].riding = step[p].on
  BY <1>0, <1>2 DEF Self
<1> QED
  BY <1>0, <1>1, <1>2, <1>3, <1>4, StepParts DEF OtherSteps, OtherSelves, Thread

\* What dismounting does: the player stops riding, and has yet to leave the vehicle.
LEMMA DismountDoes ==
  ASSUME LivesAssumption, Types, NEW p \in Player, Dismount(p)
  PROVE  /\ step[p].at = "idle" /\ step'[p].at = "rising" /\ step'[p].on = self[p].riding
         /\ self[p].riding \in Boat /\ self'[p].riding = None
         /\ OtherSelves(p) /\ OtherSteps(p) /\ UNCHANGED <<rider, past>>
<1>0. self \in [Player -> Self] /\ step \in [Thread -> Step] /\ p \in Thread
  BY DEF Types, PeopleTypes, Thread
<1>1. /\ UNCHANGED <<rider, past>> /\ self' = [self EXCEPT ![p].riding = None] /\ step[p].at = "idle"
      /\ step' = [step EXCEPT ![p] = [Still EXCEPT !.at = "rising", !.on = self[p].riding]]
      /\ self[p].riding # None
  BY DEF Dismount, Free, elsewhere, beasts
<1>2. /\ [Still EXCEPT !.at = "rising", !.on = self[p].riding].at = "rising"
      /\ [Still EXCEPT !.at = "rising", !.on = self[p].riding].on = self[p].riding
  BY DEF Still
<1>3. self'[p].riding = None /\ self[p].riding \in Boat
  BY <1>0, <1>1 DEF Self
<1> QED
  BY <1>0, <1>1, <1>2, <1>3 DEF OtherSteps, OtherSelves, Thread

\* What loading does: somebody new joins, and rides nothing.
LEMMA LoadDoes ==
  ASSUME LivesAssumption, Types, NEW p \in Player, Load(p)
  PROVE  /\ self[p].at = "new" /\ self'[p].at = "joining" /\ self'[p].riding = None
         /\ OtherSelves(p) /\ UNCHANGED <<rider, step>>
<1>0. self \in [Player -> Self] /\ user[p] \in User
  BY DEF Types, PeopleTypes, LivesAssumption
<1> DEFINE s == apply_data(disk[user[p]])
<1>1. /\ self[p].at = "new" /\ UNCHANGED <<rider, step>>
      /\ self' = [self EXCEPT ![p] = [s EXCEPT !.at = "joining"]]
  BY DEF Load, elsewhere, beasts
<1>2. s \in Self /\ s.riding = None
  BY <1>0, Loaded
<1> HIDE DEF s
<1>3. [s EXCEPT !.at = "joining"].at = "joining" /\ [s EXCEPT !.at = "joining"].riding = None
  BY <1>2 DEF Self
<1> QED
  BY <1>0, <1>1, <1>3 DEF OtherSelves

\* After a restart nobody rides anything.
LEMMA RestartRides ==
  ASSUME LivesAssumption, Types, Restart
  PROVE  /\ \A p \in Player : self'[p].at \in {"new", "gone"} /\ step'[p].at = "idle"
         /\ \A v \in Boat : rider'[v] = None
<1>0. self \in [Player -> Self]
  BY DEF Types, PeopleTypes
<1>1. /\ self' = [p \in Player |-> IF self[p].at = "new" THEN self[p] ELSE [Fresh EXCEPT !.at = "gone"]]
      /\ step' = [u \in Thread |-> Still] /\ rider' = [v \in Boat |-> None]
  BY DEF Restart
<1> QED
  BY <1>0, <1>1, FreshTyped, StepParts DEF Thread

\* Who rides, or was ousted, still does, or gets off.
LEMMA RidesStays ==
  ASSUME LivesAssumption, Types, DeadOrAlive, OldHands, Boarding, [Next]_vars,
         NEW p \in Player, NEW v \in Boat, Rides(p, v)
  PROVE  NewRides(p, v) \/ Restart \/ (Rise(p) /\ step[p].on = v)
<1>1. MarksGo /\ TablesGo
  BY MarksKept, WhatBecomesOfTables
<1>2. CASE Mounting
  <2>1. PICK q \in Player, w \in Boat : Mount(q, w)
    BY <1>2 DEF Mounting
  <2> QED
    BY <2>1, MountDoes
<1>3. CASE Rising
  <2>1. PICK q \in Player : Rise(q)
    BY <1>3 DEF Rising
  <2> QED
    BY <2>1, RiseDoes
<1>4. CASE UNCHANGED rider /\ past'.ousted = past.ousted
  BY <1>4 DEF Rides, NewRides
<1> QED
  BY <1>1, <1>2, <1>3, <1>4 DEF MarksGo, TablesGo

\* A player half way onto a vehicle, or off it, after a step.
Boarded(p) ==
  /\ step'[p].at = "mounting" => step'[p].on \in Boat /\ NewRides(p, step'[p].on)
  /\ step'[p].at = "rising" => step'[p].on \in Boat /\ self'[p].riding = None

\* Every step keeps a player's being half way onto a vehicle, or half way off.
LEMMA BoardedNext ==
  ASSUME LivesAssumption, Types, DeadOrAlive, OldHands, Boarding, [Next]_vars, NEW p \in Player
  PROVE  Boarded(p)
<1>0. p \in Thread /\ (Restart \/ Kept(p) \/ Begins(p) \/ Ends(p))
  BY WhatThreadsDo DEF StepsGo, Thread
<1>1. CASE Restart
  BY <1>1, RestartRides DEF Boarded
<1>2. CASE Kept(p) /\ step[p].at = "mounting" /\ ~Restart
  <2>1. step'[p].at = "mounting" /\ step'[p].on = step[p].on /\ step[p].on \in Boat
        /\ Rides(p, step[p].on)
    BY <1>2 DEF Kept, Boarding, Rides
  <2>2. ~Rise(p)
    BY <1>2 DEF Rise
  <2>3. NewRides(p, step[p].on)
    BY <1>2, <2>1, <2>2, RidesStays
  <2> QED
    BY <2>1, <2>3 DEF Boarded
<1>3. CASE Kept(p) /\ step[p].at = "rising" /\ ~Restart
  <2>1. step'[p].at = "rising" /\ step'[p].on = step[p].on /\ step[p].on \in Boat
        /\ self[p].riding = None
    BY <1>3 DEF Kept, Boarding
  <2>2. Same("riding") \/ Seating \/ Dismounting \/ Loading
    BY <1>3, WhatBecomesOfPlayers DEF SelfGoes
  <2>3. CASE Same("riding")
    BY <2>1, <2>3 DEF Same, Boarded
  <2>4. CASE Seating
    <3>1. PICK q \in Player : Seat(q)
      BY <2>4 DEF Seating
    <3>2. q # p
      BY <1>3, <3>1, SeatDoes
    <3> QED
      BY <2>1, <3>1, <3>2, SeatDoes DEF OtherSelves, Boarded
  <2>5. CASE Dismounting
    <3>1. PICK q \in Player : Dismount(q)
      BY <2>5 DEF Dismounting
    <3> QED
      BY <2>1, <3>1, DismountDoes DEF OtherSelves, Boarded
  <2>6. CASE Loading
    <3>1. PICK q \in Player : Load(q)
      BY <2>6 DEF Loading
    <3> QED
      BY <2>1, <3>1, LoadDoes DEF OtherSelves, Boarded
  <2> QED
    BY <2>2, <2>3, <2>4, <2>5, <2>6
<1>4. CASE Kept(p) /\ step[p].at \notin {"mounting", "rising"}
  BY <1>4 DEF Kept, Boarded
<1>5. CASE Begins(p)
  <2>1. ASSUME step'[p].at = "mounting"
        PROVE  step'[p].on \in Boat /\ NewRides(p, step'[p].on)
    <3>1. PICK v \in Boat : Mount(p, v)
      BY <1>5, <2>1 DEF Begins
    <3> QED
      BY <3>1, MountDoes DEF NewRides
  <2>2. ASSUME step'[p].at = "rising" PROVE step'[p].on \in Boat /\ self'[p].riding = None
    <3>1. Dismount(p)
      BY <1>5, <2>2 DEF Begins
    <3> QED
      BY <3>1, DismountDoes
  <2> QED
    BY <2>1, <2>2 DEF Boarded
<1>6. CASE Ends(p)
  <2>1. step'[p].at \notin {"mounting", "rising"}
    BY <1>0, <1>6, EndsAre
  <2> QED
    BY <2>1 DEF Boarded
<1> QED
  BY <1>0, <1>1, <1>2, <1>3, <1>4, <1>5, <1>6

\* Every step keeps it that who is half way on is the rider, or was ousted.
LEMMA BoardingStep ==
  ASSUME LivesAssumption, Types, DeadOrAlive, OldHands, Boarding, [Next]_vars
  PROVE  Boarding'
<1>1. \A p \in Player : Boarded(p)
  BY BoardedNext
<1>2. ASSUME NEW p \in Player
      PROVE  /\ step'[p].at = "mounting" => /\ step'[p].on \in Boat
                                            /\ \/ rider'[step'[p].on] = p
                                               \/ <<p, step'[p].on>> \in past'.ousted
             /\ step'[p].at = "rising" => step'[p].on \in Boat /\ self'[p].riding = None
  BY <1>1 DEF Boarded, NewRides
<1> QED
  BY <1>2, Zenon DEF Boarding

\* Who comes changes no note of who rode what.
LEMMA LoadStrays ==
  ASSUME LivesAssumption, Types, NEW p \in Player, Load(p)
  PROVE  past'.strayed = past.strayed
<1> DEFINE s == apply_data(disk[user[p]])
           raw == IF s.health = 0 THEN [past EXCEPT !.undead = @ \cup {p}] ELSE past
           two == [raw EXCEPT !.twice = @ \cup {user[p]}]
<1>1. past' = raw \/ (\E S : past' = Cut(raw, S)) \/ (\E S : past' = Cut(two, S))
  BY DEF Load
<1>2. Proper(past)
  BY DEF Types, PeopleTypes
<1>3. Proper(raw) /\ raw.strayed = past.strayed
  BY <1>2 DEF Proper, PastFields
<1>4. Proper(two) /\ two.strayed = past.strayed
  <2> HIDE DEF raw
  <2> QED
    BY <1>3 DEF Proper, PastFields
<1> HIDE DEF raw, two
<1>5. \A h, S : Proper(h) => Cut(h, S).strayed = h.strayed
  BY DEF Cut, Moved, Proper, PastFields
<1> QED
  BY <1>1, <1>3, <1>4, <1>5

\* Who comes or goes was in the game or coming, if it is in the game now.
LEMMA ComesOrGoes ==
  ASSUME Types, Entering \/ Leaving \/ Departing \/ Clearing, NEW p \in Player, self'[p].at = "play"
  PROVE  self[p].at \in {"joining", "play"}
<1>0. self \in [Player -> Self]
  BY DEF Types, PeopleTypes
<1>1. ASSUME NEW q \in Player, Enter(q) PROVE self[p].at \in {"joining", "play"}
  <2>1. self[q].at = "joining" /\ self' = [self EXCEPT ![q].at = "play"]
    BY <1>1 DEF Enter
  <2> QED
    BY <1>0, <2>1
<1>2. ASSUME NEW q \in Player, Leave(q) \/ WriteFile(q) \/ remove_player(q) \/ Clear(q)
      PROVE  self[p].at \in {"joining", "play"}
  <2>1. \/ self' = [self EXCEPT ![q].at = "saving", ![q].file = snapshot_data(self[q])]
        \/ self' = [self EXCEPT ![q].at = "saved"]
        \/ self' = [self EXCEPT ![q].at = "left"]
        \/ self' = [self EXCEPT ![q].at = "gone", ![q].effect = Calm, ![q].file = None]
    BY <1>2 DEF Leave, WriteFile, remove_player, Clear
  <2>2. \A r \in Player \ {q} : self'[r] = self[r]
    BY <1>0, <2>1
  <2>3. self'[q].at # "play"
    BY <1>0, <2>1 DEF Self
  <2> QED
    BY <2>2, <2>3
<1> QED
  BY <1>1, <1>2 DEF Entering, Leaving, Departing, Clearing

\* A vehicle's rider rides it, but for what history knows and what is on its way ...
Riding(p, v) == self[p].riding = v \/ <<p, v>> \in past.strayed
On(p, v) == step[p].at \in {"mounting", "rising"} /\ step[p].on = v
NewRiding(p, v) == self'[p].riding = v \/ <<p, v>> \in past'.strayed
NewOn(p, v) == step'[p].at \in {"mounting", "rising"} /\ step'[p].on = v

\* Who leaves while riding is noted, besides those noted before.
LEMMA LeaveNotes ==
  ASSUME Types, NEW p \in Player, Leave(p)
  PROVE  past.strayed \subseteq past'.strayed
<1> DEFINE h == [past EXCEPT !.strayed = @ \cup {<<p, v>> : v \in {w \in Boat : rider[w] = p}}]
<1>1. past' = h \/ \E S : past' = Cut(h, S)
  BY DEF Leave
<1>2. Proper(past)
  BY DEF Types, PeopleTypes
<1>3. h.strayed = past.strayed \cup {<<p, v>> : v \in {w \in Boat : rider[w] = p}} /\ Proper(h)
  BY <1>2 DEF Proper, PastFields
<1> HIDE DEF h
<1>4. \A S : Cut(h, S).strayed = h.strayed
  BY <1>3 DEF Cut, Moved, Proper, PastFields
<1> QED
  BY <1>1, <1>3, <1>4

\* After every step a vehicle's rider rides it or is half way, or is noted.
LEMMA RiderRides ==
  ASSUME LivesAssumption, Types, DeadOrAlive, OldHands, NotYetRiding, Boarding, RidersAgree,
         [Next]_vars,
         NEW p \in Player, NEW v \in Boat, rider'[v] = p
  PROVE  NewRiding(p, v) \/ NewOn(p, v)
<1>0. p \in Thread /\ None \notin Player /\ None \notin Boat
  BY DEF Thread, LivesAssumption
<1>1. MarksGo /\ TablesGo /\ SelfGoes /\ StepsGo
  BY MarksKept, WhatBecomesOfTables, WhatBecomesOfPlayers, WhatThreadsDo
<1>2. rider[v] = p => Riding(p, v) \/ On(p, v)
  BY DEF RidersAgree, Riding, On
<1>3. CASE Restart
  BY <1>0, <1>3, RestartRides
<1>4. CASE Mounting
  <2>1. PICK q \in Player, w \in Boat : Mount(q, w)
    BY <1>4 DEF Mounting
  <2>2. CASE w = v
    <3>1. q = p
      BY <2>1, <2>2, MountDoes
    <3> QED
      BY <2>1, <2>2, <3>1, MountDoes DEF NewOn
  <2>3. CASE w # v
    <3>1. rider[v] = p
      BY <2>1, <2>3, MountDoes
    <3>2. CASE Riding(p, v)
      BY <2>1, <2>3, <3>2, MountDoes DEF Riding, NewRiding
    <3>3. CASE On(p, v)
      <4>1. q # p
        BY <2>1, <3>3, MountDoes DEF On
      <4> QED
        BY <2>1, <3>3, <4>1, MountDoes DEF On, NewOn, OtherSteps
    <3> QED
      BY <1>2, <3>1, <3>2, <3>3
  <2> QED
    BY <2>2, <2>3
<1>5. CASE Rising
  <2>1. PICK q \in Player : Rise(q)
    BY <1>5 DEF Rising
  <2>2. v # step[q].on /\ rider[v] = p
    BY <1>0, <2>1, RiseDoes
  <2>3. CASE Riding(p, v)
    BY <2>1, <2>2, <2>3, RiseDoes DEF Riding, NewRiding
  <2>4. CASE On(p, v)
    <3>1. q # p
      BY <2>2, <2>4 DEF On
    <3> QED
      BY <2>1, <2>4, <3>1, RiseDoes DEF On, NewOn, OtherSteps
  <2> QED
    BY <1>2, <2>2, <2>3, <2>4
<1>6. CASE Seating
  <2>1. PICK q \in Player : Seat(q)
    BY <1>6 DEF Seating
  <2>2. rider[v] = p
    BY <2>1, SeatDoes
  <2>3. CASE q = p
    BY <1>2, <2>1, <2>2, <2>3, SeatDoes DEF Riding, On, NewRiding
  <2>4. CASE q # p
    BY <1>2, <2>1, <2>2, <2>4, SeatDoes DEF Riding, On, NewRiding, NewOn, OtherSelves, OtherSteps
  <2> QED
    BY <2>3, <2>4
<1>7. CASE Dismounting
  <2>1. PICK q \in Player : Dismount(q)
    BY <1>7 DEF Dismounting
  <2>2. rider[v] = p
    BY <2>1, DismountDoes
  <2>3. CASE q = p
    BY <1>2, <2>1, <2>2, <2>3, DismountDoes DEF Riding, On, NewRiding, NewOn
  <2>4. CASE q # p
    BY <1>2, <2>1, <2>2, <2>4, DismountDoes DEF Riding, On, NewRiding, NewOn, OtherSelves,
       OtherSteps
  <2> QED
    BY <2>3, <2>4
<1>8. CASE Loading
  <2>1. PICK q \in Player : Load(q)
    BY <1>8 DEF Loading
  <2>2. rider[v] = p
    BY <2>1, LoadDoes
  <2>3. past'.strayed = past.strayed
    BY <2>1, LoadStrays
  <2>4. self[p].riding = v => self'[p].riding = v
    BY <1>0, <2>1, LoadDoes DEF OtherSelves, NotYetRiding
  <2> QED
    BY <1>2, <2>1, <2>2, <2>3, <2>4, LoadDoes DEF Riding, On, NewRiding, NewOn
<1>9. CASE UNCHANGED rider /\ Same("riding") /\ (past'.strayed = past.strayed \/ Leaving)
           /\ ~Seating /\ ~Rising /\ ~Restart
  <2>1. past.strayed \subseteq past'.strayed
    BY <1>9, LeaveNotes DEF Leaving
  <2>2. Riding(p, v) => NewRiding(p, v)
    BY <1>9, <2>1 DEF Riding, NewRiding, Same
  <2>3. ~(Seat(p) \/ Rise(p))
    BY <1>9 DEF Seating, Rising
  <2>4. ASSUME On(p, v) PROVE NewOn(p, v)
    <3>1. ~Begins(p) /\ ~Ends(p)
      BY <2>3, <2>4 DEF On, Begins, Ends
    <3>2. Kept(p)
      BY <1>0, <1>1, <1>9, <3>1 DEF StepsGo
    <3> QED
      BY <2>4, <3>2 DEF On, NewOn, Kept
  <2> QED
    BY <1>2, <1>9, <2>2, <2>4
<1> QED
  BY <1>1, <1>3, <1>4, <1>5, <1>6, <1>7, <1>8, <1>9 DEF MarksGo, TablesGo, SelfGoes

\* ... and who is in the game and rides a vehicle is its rider.
LEMMA RideHasRider ==
  ASSUME LivesAssumption, Types, DeadOrAlive, OldHands, NotYetRiding, Boarding, RidersAgree,
         [Next]_vars,
         NEW p \in Player, NEW v \in Boat, self'[p].at = "play", self'[p].riding = v
  PROVE  NewRides(p, v)
<1>0. None \notin Boat
  BY DEF LivesAssumption
<1>1. SelfGoes
  BY WhatBecomesOfPlayers
<1>2. CASE Restart
  BY <1>2, RestartRides
<1>3. CASE Seating
  <2>1. PICK q \in Player : Seat(q)
    BY <1>3 DEF Seating
  <2>2. CASE q = p
    <3>1. v = step[p].on /\ Rides(p, v) /\ UNCHANGED rider /\ past'.ousted = past.ousted
      BY <2>1, <2>2, SeatDoes
    <3> QED
      BY <3>1 DEF Rides, NewRides
  <2>3. CASE q # p
    <3>1. self'[p] = self[p] /\ UNCHANGED rider /\ past'.ousted = past.ousted
      BY <2>1, <2>3, SeatDoes DEF OtherSelves
    <3> QED
      BY <3>1 DEF NewRides, RidersAgree
  <2> QED
    BY <2>2, <2>3
<1>4. CASE Dismounting
  <2>1. PICK q \in Player : Dismount(q)
    BY <1>4 DEF Dismounting
  <2>2. q # p
    BY <1>0, <2>1, DismountDoes
  <2>3. self'[p] = self[p] /\ UNCHANGED <<rider, past>>
    BY <2>1, <2>2, DismountDoes DEF OtherSelves
  <2> QED
    BY <2>3 DEF NewRides, RidersAgree
<1>5. CASE Same("riding") /\ Same("at") /\ ~Restart
  <2>1. self[p].at = "play" /\ self[p].riding = v
    BY <1>5 DEF Same
  <2>2. Rides(p, v)
    BY <2>1 DEF RidersAgree, Rides
  <2>3. ~(Rise(p) /\ step[p].on = v)
    BY <1>0, <2>1, RiseDoes
  <2> QED
    BY <1>5, <2>2, <2>3, RidesStays
<1>6. CASE Same("riding") /\ (Entering \/ Leaving \/ Departing \/ Clearing) /\ ~Restart
  <2>1. self[p].riding = v
    BY <1>6 DEF Same
  <2>2. self[p].at \in {"joining", "play"}
    BY <1>6, ComesOrGoes
  <2>3. self[p].at = "play"
    BY <1>0, <2>1, <2>2 DEF NotYetRiding
  <2>4. Rides(p, v)
    BY <2>1, <2>3 DEF RidersAgree, Rides
  <2>5. ~(Rise(p) /\ step[p].on = v)
    BY <1>0, <2>1, RiseDoes
  <2> QED
    BY <1>6, <2>4, <2>5, RidesStays
<1>7. CASE Loading
  <2>1. PICK q \in Player : Load(q)
    BY <1>7 DEF Loading
  <2>2. q # p
    BY <2>1, LoadDoes
  <2>3. self'[p] = self[p]
    BY <2>1, <2>2, LoadDoes DEF OtherSelves
  <2>4. Rides(p, v)
    BY <2>3 DEF RidersAgree, Rides
  <2>5. ~(Rise(p) /\ step[p].on = v) \/ self[p].riding = None
    BY RiseDoes
  <2>6. CASE Restart
    BY <2>6, RestartRides
  <2> QED
    BY <1>0, <2>3, <2>4, <2>5, <2>6, RidesStays
<1> QED
  BY <1>1, <1>2, <1>3, <1>4, <1>5, <1>6, <1>7 DEF SelfGoes

\* Every step keeps it that vehicles and their riders agree.
LEMMA RidersAgreeStep ==
  ASSUME LivesAssumption, Types, DeadOrAlive, OldHands, NotYetRiding, Boarding, RidersAgree,
         [Next]_vars
  PROVE  RidersAgree'
<1>1. ASSUME NEW p \in Player, NEW v \in Boat
      PROVE  /\ rider'[v] = p => \/ self'[p].riding = v \/ <<p, v>> \in past'.strayed
                                 \/ (step'[p].at \in {"mounting", "rising"} /\ step'[p].on = v)
             /\ self'[p].at = "play" /\ self'[p].riding = v => rider'[v] = p \/ <<p, v>> \in past'.ousted
  BY RiderRides, RideHasRider DEF NewRiding, NewOn, NewRides
<1> QED
  BY <1>1, Zenon DEF RidersAgree

(***************************************************************************)
(* What a step keeps: records.                                             *)
(***************************************************************************)

\* A kill is credited to somebody there, or to somebody noted as gone.
LEMMA MobDiesCredits ==
  ASSUME Types, MobDies
  PROVE  /\ past.leaked \subseteq past'.leaked /\ UNCHANGED self
         /\ \A p \in records' : p \in records \/ self[p].at # "gone" \/ p \in past'.leaked
<1>0. Proper(past)
  BY DEF Types, PeopleTypes
<1> DEFINE loot == {mob[Head(todo).on].loot} \ {None}
           h == Moved(past, loot)
<1>1. Proper(h) /\ h.leaked = past.leaked
  BY <1>0 DEF Moved, Proper, PastFields
<1>2. /\ UNCHANGED self
      /\ \/ past' = h /\ UNCHANGED records
         \/ \E p \in Living(tick.crowd) :
              /\ records' = records \cup {p}
              /\ past' = IF self[p].at = "gone" THEN [h EXCEPT !.leaked = @ \cup {p}] ELSE h
  BY Zenon DEF MobDies
<1> HIDE DEF h
<1>3. \A p : [h EXCEPT !.leaked = @ \cup {p}].leaked = h.leaked \cup {p}
  BY <1>1 DEF Proper, PastFields
<1>4. CASE past' = h /\ UNCHANGED records
  BY <1>1, <1>2, <1>4
<1>5. ASSUME NEW p \in Living(tick.crowd), records' = records \cup {p},
             past' = IF self[p].at = "gone" THEN [h EXCEPT !.leaked = @ \cup {p}] ELSE h
      PROVE  /\ past.leaked \subseteq past'.leaked
             /\ \A q \in records' : q \in records \/ self[q].at # "gone" \/ q \in past'.leaked
  BY <1>1, <1>3, <1>5
<1> QED
  BY <1>2, <1>4, <1>5

\* Every step keeps it that who has left has no statistics, or is noted.
LEMMA NobodysRecordsStep ==
  ASSUME LivesAssumption, Types, DeadOrAlive, OldHands, NobodysRecords, [Next]_vars
  PROVE  NobodysRecords'
<1>0. self \in [Player -> Self] /\ records \subseteq Player
  BY DEF Types, PeopleTypes
<1>1. MarksGo /\ TablesGo /\ SelfGoes
  BY MarksKept, WhatBecomesOfTables, WhatBecomesOfPlayers
<1>2. CASE Restart
  BY <1>2 DEF Restart, NobodysRecords
<1>3. CASE MobDies
  BY <1>3, MobDiesCredits DEF NobodysRecords
<1>4. CASE Clearing
  <2>1. PICK q \in Player : Clear(q)
    BY <1>4 DEF Clearing
  <2>2. /\ records' = records \ {q} /\ UNCHANGED past
        /\ self' = [self EXCEPT ![q].at = "gone", ![q].effect = Calm, ![q].file = None]
    BY <2>1 DEF Clear
  <2>3. \A p \in records' : p \in records /\ self'[p] = self[p]
    BY <1>0, <2>2
  <2> QED
    BY <2>2, <2>3 DEF NobodysRecords
<1>5. CASE UNCHANGED records /\ past'.leaked = past.leaked
           /\ (Same("at") \/ Loading \/ Entering \/ Leaving \/ Departing)
  <2>1. \A p \in Player : self'[p].at = "gone" => self[p].at = "gone"
    <3>1. CASE Same("at")
      BY <3>1 DEF Same
    <3>2. CASE Loading
      <4>1. PICK q \in Player : Load(q)
        BY <3>2 DEF Loading
      <4> QED
        BY <4>1, LoadDoes DEF OtherSelves
    <3>3. ASSUME NEW q \in Player, Enter(q) \/ Leave(q) \/ WriteFile(q) \/ remove_player(q)
          PROVE  \A p \in Player : self'[p].at = "gone" => self[p].at = "gone"
      <4>1. \/ self' = [self EXCEPT ![q].at = "play"]
            \/ self' = [self EXCEPT ![q].at = "saving", ![q].file = snapshot_data(self[q])]
            \/ self' = [self EXCEPT ![q].at = "saved"]
            \/ self' = [self EXCEPT ![q].at = "left"]
        BY <3>3 DEF Enter, Leave, WriteFile, remove_player
      <4>2. \A r \in Player \ {q} : self'[r] = self[r]
        BY <1>0, <4>1
      <4>3. self'[q].at # "gone"
        BY <1>0, <4>1 DEF Self
      <4> QED
        BY <4>2, <4>3
    <3> QED
      BY <1>5, <3>1, <3>2, <3>3 DEF Entering, Leaving, Departing
  <2> QED
    BY <1>0, <1>5, <2>1 DEF NobodysRecords
<1> QED
  BY <1>1, <1>2, <1>3, <1>4, <1>5 DEF MarksGo, TablesGo, SelfGoes

(***************************************************************************)
(* What a step keeps: a body is saved once.                                *)
(***************************************************************************)

DiskGoes ==
  \/ UNCHANGED disk
  \/ \E f \in File \ {"entities"} : \E x : disk' = [disk EXCEPT ![f] = x]
  \/ disk' = [disk EXCEPT !["entities"] = Torn]
  \/ SavePut
SaverGoes ==
  \/ UNCHANGED saver
  \/ saver'.file \in (File \ {"entities"}) \cup {None} /\ saver'.at # "mobs"
  \/ SaveMobs
  \/ SaveItems

\* The files that do not hold entities.
LEMMA OtherFiles ==
  ASSUME LivesAssumption
  PROVE  /\ {"containers", "meta"} \subseteq File \ {"entities"}
         /\ \A p \in Player : user[p] \in File \ {"entities"}
  BY DEF File, LivesAssumption

\* No step writes the file of entities but the saver's.
LEMMA WhatBecomesOfFiles ==
  ASSUME LivesAssumption, Types, [Next]_vars
  PROVE  DiskGoes
<1>1. ASSUME NEW p \in Player, Leave(p) PROVE DiskGoes
  <2>1. disk' = [disk EXCEPT ![user[p]] = Torn]
    BY <1>1 DEF Leave
  <2> QED
    BY <2>1, OtherFiles DEF DiskGoes
<1>2. ASSUME NEW p \in Player, WriteFile(p) PROVE DiskGoes
  <2>1. disk' = [disk EXCEPT ![user[p]] = self[p].file]
    BY <1>2 DEF WriteFile
  <2> QED
    BY <2>1, OtherFiles DEF DiskGoes
<1>3. ASSUME NEW p \in Player, SavePlayer(p) PROVE DiskGoes
  <2>1. disk' = [disk EXCEPT ![user[p]] = Torn]
    BY <1>3 DEF SavePlayer
  <2> QED
    BY <2>1, OtherFiles DEF DiskGoes
<1>4. CASE SaveContainers
  <2>1. disk' = [disk EXCEPT !["containers"] = Torn]
    BY <1>4 DEF SaveContainers, Truncate
  <2> QED
    BY <2>1, OtherFiles DEF DiskGoes
<1>5. CASE SavePut
  BY <1>5 DEF DiskGoes
<1>6. CASE SaveItems
  BY <1>6 DEF SaveItems, Truncate, DiskGoes
<1>7. CASE SaveMeta
  <2>1. disk' = [disk EXCEPT !["meta"] = Torn]
    BY <1>7 DEF SaveMeta, Truncate
  <2> QED
    BY <2>1, OtherFiles DEF DiskGoes
<1>8. CASE Saved
  <2>1. disk' = [disk EXCEPT !["meta"] = saver.data]
    BY <1>8 DEF Saved
  <2> QED
    BY <2>1, OtherFiles DEF DiskGoes
<1>9. ASSUME NEW u \in Thread,
            Flinch(u) \/ DropAll(u) \/ Spill(u) \/ SendHealth(u)
            \/ register_villager(u)
     PROVE  DiskGoes
  BY <1>9
  DEF DiskGoes, Flinch, DropAll, Spill, SendHealth, register_villager, elsewhere, stores
<1>10. ASSUME NEW p \in Player,
            Fall(p) \/ Kill(p) \/ Heal(p) \/ Respawn(p) \/ SetGamemode(p)
            \/ SwitchDimension(p) \/ Eat(p) \/ ApplyInstant(p) \/ ApplyLasting(p)
            \/ AddSpeed(p) \/ DrinkMilk(p) \/ Shoot(p) \/ Summon(p) \/ Seat(p)
            \/ Dismount(p) \/ Rise(p) \/ Sleep(p) \/ Weather(p) \/ Load(p) \/ Enter(p)
            \/ remove_player(p) \/ Clear(p)
     PROVE  DiskGoes
  <2>1. UNCHANGED disk
    BY <1>10, Zenon
    DEF Fall, Kill, Heal, Respawn, SetGamemode, SwitchDimension, Eat, ApplyInstant,
        ApplyLasting, AddSpeed, DrinkMilk, Shoot, Summon, Seat, Dismount, Rise, Sleep,
        Weather, Load, Enter, remove_player, Clear, elsewhere, stores
  <2> QED
    BY <2>1 DEF DiskGoes
<1>11. ASSUME NEW p \in Player, NEW b \in Body, Attack(p, b) \/ Feed(p, b)
     PROVE  DiskGoes
  BY <1>11 DEF DiskGoes, Attack, Feed, elsewhere, stores
<1>12. ASSUME NEW p \in Player, NEW v \in Boat, Mount(p, v) PROVE DiskGoes
  BY <1>12 DEF DiskGoes, Mount, elsewhere, stores
<1>13. ASSUME NEW p \in Player, NEW t \in Thing, Stow(p, t) \/ Fetch(p, t)
     PROVE  DiskGoes
  BY <1>13 DEF DiskGoes, Stow, Fetch, elsewhere, stores
<1>14. CASE MobsTick \/ MobDying \/ MobDies \/ MobStrays \/ MobLives \/ Hit \/ Pair
            \/ Baby \/ Forget \/ Spawn \/ ItemsTick \/ Give \/ Rot \/ ArrowsTick
            \/ Pierce \/ Regenerate \/ Regen \/ HungerTick \/ Hunger \/ EffectsTick
            \/ Affect \/ MendEffect \/ Poison \/ Wane \/ Slow \/ Clock \/ Store \/ Flip
            \/ TellWeather \/ SavePlayers \/ SaveMobs \/ Restart
  <2>1. UNCHANGED disk
    BY <1>14, Zenon
    DEF MobsTick, MobDying, MobDies, MobStrays, MobLives, Hit, Pair, Baby, Forget,
        Spawn, ItemsTick, Give, Rot, ArrowsTick, Pierce, Regenerate, Regen, HungerTick,
        Hunger, EffectsTick, Affect, MendEffect, Poison, Wane, Slow, Clock, Store, Flip,
        TellWeather, SavePlayers, SaveMobs, Restart, Round, elsewhere, stores
  <2> QED
    BY <2>1 DEF DiskGoes
<1>15. CASE UNCHANGED vars
  BY <1>15 DEF DiskGoes, vars, people, beasts, stores, course
<1> QED
  BY <1>1, <1>2, <1>3, <1>4, <1>5, <1>6, <1>7, <1>8, <1>9, <1>10, <1>11, <1>12, <1>13,
     <1>14, <1>15
  DEF Next

\* What the saver takes of the mobs, and what it keeps of that.
LEMMA WhatBecomesOfTheSaver ==
  ASSUME LivesAssumption, Types, [Next]_vars
  PROVE  SaverGoes
<1>0. SaverTyped(saver)
  BY DEF Types, FileTypes, SaverTyped
<1>1. ASSUME NEW p \in Player, SavePlayer(p) PROVE SaverGoes
  <2>1. /\ saver' = [saver EXCEPT !.left = @ \ {p}, !.file = user[p], !.data = snapshot_data(self[p])]
        /\ saver.at = "players"
    BY <1>1 DEF SavePlayer
  <2> QED
    BY <1>0, <2>1, OtherFiles DEF SaverTyped, SaverGoes
<1>2. CASE SaveContainers
  <2>1. saver' = [saver EXCEPT !.at = "containers", !.file = "containers", !.data = chest]
    BY <1>2 DEF SaveContainers, Truncate
  <2> QED
    BY <1>0, <2>1, OtherFiles DEF SaverTyped, SaverGoes
<1>3. CASE SavePut
  <2>1. saver' = [saver EXCEPT !.file = None, !.data = None] /\ saver.file # None
    BY <1>3 DEF SavePut
  <2> QED
    BY <1>0, <2>1 DEF SaverTyped, SaverGoes
<1>4. CASE SavePlayers
  <2>1. saver' = [saver EXCEPT !.at = "players", !.left = table] /\ saver.file = None
    BY <1>4 DEF SavePlayers
  <2> QED
    BY <1>0, <2>1 DEF SaverTyped, SaverGoes
<1>5. CASE SaveMobs \/ SaveItems
  BY <1>5 DEF SaverGoes
<1>7. CASE SaveMeta
  <2>1. saver' = [saver EXCEPT !.at = "meta", !.file = "meta", !.data = sky.time]
    BY <1>7 DEF SaveMeta, Truncate
  <2> QED
    BY <1>0, <2>1, OtherFiles DEF SaverTyped, SaverGoes
<1>8. CASE Saved \/ Restart
  <2>1. saver' = Resting
    BY <1>8 DEF Saved, Restart
  <2> QED
    BY <2>1 DEF SaverGoes, Resting
<1>10. ASSUME NEW u \in Thread,
            Flinch(u) \/ DropAll(u) \/ Spill(u) \/ SendHealth(u)
            \/ register_villager(u)
     PROVE  SaverGoes
  BY <1>10
  DEF SaverGoes, Flinch, DropAll, Spill, SendHealth, register_villager, elsewhere, stores
<1>11. ASSUME NEW p \in Player,
            Fall(p) \/ Kill(p) \/ Heal(p) \/ Respawn(p) \/ SetGamemode(p)
            \/ SwitchDimension(p) \/ Eat(p) \/ ApplyInstant(p) \/ ApplyLasting(p)
            \/ AddSpeed(p) \/ DrinkMilk(p) \/ Shoot(p) \/ Summon(p) \/ Seat(p)
            \/ Dismount(p) \/ Rise(p) \/ Sleep(p) \/ Weather(p) \/ Load(p) \/ Enter(p)
            \/ Leave(p) \/ WriteFile(p) \/ remove_player(p) \/ Clear(p)
     PROVE  SaverGoes
  <2>1. UNCHANGED saver
    BY <1>11, Zenon
    DEF Fall, Kill, Heal, Respawn, SetGamemode, SwitchDimension, Eat, ApplyInstant,
        ApplyLasting, AddSpeed, DrinkMilk, Shoot, Summon, Seat, Dismount, Rise, Sleep,
        Weather, Load, Enter, Leave, WriteFile, remove_player, Clear, elsewhere, stores
  <2> QED
    BY <2>1 DEF SaverGoes
<1>12. ASSUME NEW p \in Player, NEW b \in Body, Attack(p, b) \/ Feed(p, b)
     PROVE  SaverGoes
  BY <1>12 DEF SaverGoes, Attack, Feed, elsewhere, stores
<1>13. ASSUME NEW p \in Player, NEW v \in Boat, Mount(p, v) PROVE SaverGoes
  BY <1>13 DEF SaverGoes, Mount, elsewhere, stores
<1>14. ASSUME NEW p \in Player, NEW t \in Thing, Stow(p, t) \/ Fetch(p, t)
     PROVE  SaverGoes
  BY <1>14 DEF SaverGoes, Stow, Fetch, elsewhere, stores
<1>15. CASE MobsTick \/ MobDying \/ MobDies \/ MobStrays \/ MobLives \/ Hit \/ Pair
            \/ Baby \/ Forget \/ Spawn \/ ItemsTick \/ Give \/ Rot \/ ArrowsTick
            \/ Pierce \/ Regenerate \/ Regen \/ HungerTick \/ Hunger \/ EffectsTick
            \/ Affect \/ MendEffect \/ Poison \/ Wane \/ Slow \/ Clock \/ Store \/ Flip
            \/ TellWeather
  <2>1. UNCHANGED saver
    BY <1>15, Zenon
    DEF MobsTick, MobDying, MobDies, MobStrays, MobLives, Hit, Pair, Baby, Forget,
        Spawn, ItemsTick, Give, Rot, ArrowsTick, Pierce, Regenerate, Regen, HungerTick,
        Hunger, EffectsTick, Affect, MendEffect, Poison, Wane, Slow, Clock, Store, Flip,
        TellWeather, Round, elsewhere, stores
  <2> QED
    BY <2>1 DEF SaverGoes
<1>16. CASE UNCHANGED vars
  BY <1>16 DEF SaverGoes, vars, people, beasts, stores, course
<1> QED
  BY <1>1, <1>2, <1>3, <1>4, <1>5, <1>7, <1>8, <1>10, <1>11, <1>12, <1>13,
     <1>14, <1>15, <1>16
  DEF Next

\* Every step keeps it that a body is saved once.
LEMMA OneSavedEachStep ==
  ASSUME LivesAssumption, Types, OneSavedEach, [Next]_vars
  PROVE  OneSavedEach'
<1>0. disk = [f \in File |-> disk[f]] /\ "entities" \in File /\ SaverTyped(saver)
  BY FileNames DEF Types, FileTypes, SaverTyped
<1>1. disk'["entities"] \notin {None, Torn} => OneEach(disk'["entities"].mobs)
  <2>1. CASE UNCHANGED disk
    BY <2>1 DEF OneSavedEach
  <2>2. ASSUME NEW f \in File \ {"entities"}, NEW x, disk' = [disk EXCEPT ![f] = x]
        PROVE  disk'["entities"] \notin {None, Torn} => OneEach(disk'["entities"].mobs)
    <3>1. disk'["entities"] = disk["entities"]
      BY <1>0, <2>2
    <3> QED
      BY <3>1 DEF OneSavedEach
  <2>3. CASE disk' = [disk EXCEPT !["entities"] = Torn]
    BY <1>0, <2>3
  <2>4. CASE SavePut
    <3>1. disk' = [disk EXCEPT ![saver.file] = saver.data] /\ saver.file # None
      BY <2>4 DEF SavePut
    <3>2. disk'["entities"] = (IF saver.file = "entities" THEN saver.data ELSE disk["entities"])
      BY <1>0, <3>1
    <3> QED
      BY <3>1, <3>2 DEF OneSavedEach
  <2> QED
    BY <2>1, <2>2, <2>3, <2>4, WhatBecomesOfFiles DEF DiskGoes
<1>2. /\ saver'.file = "entities" /\ saver'.file # None => OneEach(saver'.data.mobs)
      /\ saver'.at = "mobs" => OneEach(saver'.data)
  <2>1. CASE UNCHANGED saver
    BY <2>1 DEF OneSavedEach
  <2>2. CASE saver'.file \in (File \ {"entities"}) \cup {None} /\ saver'.at # "mobs"
    BY <2>2
  <2>3. CASE SaveMobs
    <3> DEFINE d == {[body |-> b, kind |-> mob[b].kind, health |-> mob[b].health, loot |-> mob[b].loot] :
                     b \in {c \in Here : Alive(c)}}
    <3>1. saver' = [saver EXCEPT !.at = "mobs", !.data = d] /\ saver.file = None
      BY <2>3 DEF SaveMobs
    <3>2. OneEach(d)
      BY DEF OneEach
    <3> HIDE DEF d
    <3> QED
      BY <1>0, <3>1, <3>2 DEF SaverTyped
  <2>4. CASE SaveItems
    <3> DEFINE d == [mobs |-> saver.data, items |-> ground]
    <3>1. saver' = [saver EXCEPT !.at = "entities", !.file = "entities", !.data = d] /\ saver.at = "mobs"
      BY <2>4 DEF SaveItems, Truncate
    <3>2. OneEach(d.mobs)
      BY <3>1 DEF OneSavedEach
    <3> HIDE DEF d
    <3> QED
      BY <1>0, <3>1, <3>2 DEF SaverTyped
  <2> QED
    BY <2>1, <2>2, <2>3, <2>4, WhatBecomesOfTheSaver DEF SaverGoes
<1> QED
  BY <1>1, <1>2 DEF OneSavedEach, OneEach

(***************************************************************************)
(* What a step keeps: villagers and their registration.                    *)
(***************************************************************************)

NewKind(b) == mob'[b].at = "here" /\ mob'[b].kind = "villager"

\* The one who enlists a villager is to register it.
LEMMA EnlistingNames ==
  ASSUME LivesAssumption, Types, NEW u \in Thread, Enlisting(u)
  PROVE  /\ step'[u] # step[u] => step'[u].on \in Body /\ NewKind(step'[u].on)
         /\ \A c \in Body : mob'[c] # mob[c] /\ mob'[c].kind = "villager" =>
              step'[u].at = "naming" /\ step'[u].on = c
<1>0. mob \in [Body -> Creature] /\ step \in [Thread -> Step]
  BY DEF Types, PeopleTypes, BeastTypes
<1>1. PICK b \in Body, k \in Kind :
        /\ mob' = [mob EXCEPT ![b] = Born(k, None)]
        /\ \/ k # "villager" /\ UNCHANGED step
           \/ k = "villager" /\ step' = [step EXCEPT ![u] = [Still EXCEPT !.at = "naming", !.on = b]]
  BY Zenon DEF Enlisting
<1>2. Born(k, None).at = "here" /\ Born(k, None).kind = k
  BY DEF Born, Unborn
<1>3. mob'[b] = Born(k, None) /\ \A c \in Body \ {b} : mob'[c] = mob[c]
  BY <1>0, <1>1
<1>4. /\ [Still EXCEPT !.at = "naming", !.on = b].at = "naming"
      /\ [Still EXCEPT !.at = "naming", !.on = b].on = b
  BY DEF Still
<1>5. k = "villager" => step'[u].at = "naming" /\ step'[u].on = b
  BY <1>0, <1>1, <1>4
<1> QED
  BY <1>1, <1>2, <1>3, <1>5 DEF NewKind

\* A villager that comes is to be registered.
LEMMA NewVillager ==
  ASSUME LivesAssumption, Types, NEW b \in Body, Comes(b), mob'[b].kind = "villager",
         Summoning \/ Baby \/ Spawn
  PROVE  \E u \in Thread : step'[u].at = "naming" /\ step'[u].on = b
<1>0. mob \in [Body -> Creature] /\ Unborn.at = "unborn" /\ mob'[b] # mob[b] /\ Loop \in Thread
      /\ Player \subseteq Thread
  BY NobodyTyped DEF Types, BeastTypes, Comes, Thread
<1>1. ASSUME NEW u \in Thread, Enlisting(u)
      PROVE  \E v \in Thread : step'[v].at = "naming" /\ step'[v].on = b
  BY <1>0, <1>1, EnlistingNames
<1>2. CASE Summoning
  BY <1>0, <1>1, <1>2, SummonEnlists DEF Summoning
<1>3. CASE Spawn
  BY <1>0, <1>1, <1>3, SpawnEnlists
<1>4. CASE Baby
  <2> DEFINE k == Head(todo).on
             n == [Born(k, None) EXCEPT !.baby = TRUE, !.age = GrowTicks]
  <2>1. k \in Tame /\ k # "villager"
    BY <1>4, JobOnBody DEF Baby, Do, LivesAssumption
  <2>2. n.kind = k
    BY DEF Born, Unborn
  <2>3. UNCHANGED mob \/ \E c \in Body : mob' = [mob EXCEPT ![c] = n]
    BY <1>4 DEF Baby
  <2> HIDE DEF n, k
  <2> QED
    BY <1>0, <2>1, <2>2, <2>3
<1> QED
  BY <1>2, <1>3, <1>4

\* Every step keeps it that what is to be registered is a villager, if it is there.
LEMMA NamingVillagersStep ==
  ASSUME LivesAssumption, Types, DeadOrAlive, OldHands, LoversTame, NamingVillagers, [Next]_vars
  PROVE  NamingVillagers'
<1>0. StepsGo /\ \A b \in Body : BeastGoes(b)
  BY WhatThreadsDo, BeastsAreSound, BeastsStep
<1>1. Unborn.at = "unborn" /\ Gone.at = "gone" /\ Still.at = "idle"
  BY NobodyTyped, StepParts
<1>2. ASSUME NEW u \in Thread, step'[u].at = "naming"
      PROVE  /\ step'[u].on \in Body
             /\ mob'[step'[u].on].at = "gone" \/ NewKind(step'[u].on)
  <2>0. ~Restart
    BY <1>1, <1>2 DEF Restart
  <2>1. CASE Kept(u)
    <3>1. step[u].at = "naming" /\ step'[u].on = step[u].on
      BY <1>2, <2>1 DEF Kept
    <3> DEFINE b == step[u].on
    <3>2. b \in Body /\ (mob[b].at = "gone" \/ (mob[b].at = "here" /\ mob[b].kind = "villager"))
      BY <3>1 DEF NamingVillagers
    <3>3. Stays(b) \/ Goes(b)
      BY <1>0, <1>1, <2>0, <3>2 DEF BeastGoes, Comes
    <3> HIDE DEF b
    <3>4. mob'[b].at = "gone" \/ NewKind(b)
      BY <1>1, <3>2, <3>3 DEF Stays, Goes, NewKind
    <3> QED
      BY <3>1, <3>2, <3>4 DEF b
  <2>2. CASE Begins(u)
    <3>1. Enlisting(u) /\ step'[u] # step[u]
      BY <1>2, <2>2 DEF Begins
    <3> QED
      BY <3>1, EnlistingNames
  <2>3. ~Ends(u)
    BY <1>2, EndsAre
  <2> QED
    BY <1>0, <2>0, <2>1, <2>2, <2>3 DEF StepsGo
<1> QED
  BY <1>2, Zenon DEF NamingVillagers, NewKind

\* Before the loop forgets those it noted, they are gone.
LEMMA ForgetsTheGone ==
  ASSUME Types, JobsInOrder, RemoveNoted, Forget
  PROVE  /\ \A b \in tick.remove : mob[b].at = "gone"
         /\ known' = known \ tick.remove /\ UNCHANGED <<mob, step, past>>
<1>1. /\ todo # <<>> /\ Head(todo).do = "forget"
      /\ known' = known \ tick.remove /\ UNCHANGED <<mob, step, past>>
  BY DEF Forget, Do
<1>2. ToCome("forget")
  BY <1>1, FirstJob DEF ToCome, Types, LoopTypes
<1>3. ~ToCome("pair")
  BY <1>2 DEF JobsInOrder
<1> QED
  BY <1>1, <1>3 DEF RemoveNoted

\* What registering does, and what it notes of a villager that is gone.
LEMMA RegisterDoes ==
  ASSUME Types, NEW u \in Thread, register_villager(u)
  PROVE  /\ step[u].at = "naming" /\ known' = known \cup {step[u].on}
         /\ UNCHANGED mob /\ past.ghosts \subseteq past'.ghosts /\ UNCHANGED tick
         /\ mob[step[u].on].at # "here" => step[u].on \in past'.ghosts
  BY DEF register_villager, course, Types, PeopleTypes, Proper, PastFields

\* The mobs swept away with nobody online are noted.
LEMMA SweepNotes ==
  ASSUME Types, MobsTick
  PROVE  /\ past.ghosts \subseteq past'.ghosts /\ UNCHANGED <<known, step>>
         /\ \A b \in Here : mob'[b] = mob[b] \/ (b \in known => b \in past'.ghosts)
<1>0. Proper(past)
  BY DEF Types, PeopleTypes
<1>1. UNCHANGED <<known, step>>
  BY DEF MobsTick
<1>2. CASE UNCHANGED <<mob, past>>
  BY <1>1, <1>2
<1>3. CASE past' = [Written(past, {mob[b].loot : b \in Here} \ {None}) EXCEPT
                     !.ghosts = @ \cup (known \cap Here)]
  <2> DEFINE h == Written(past, {mob[b].loot : b \in Here} \ {None})
  <2>1. Proper(h) /\ h.ghosts = past.ghosts
    BY <1>0 DEF Written, Moved, Proper, PastFields
  <2>2. past' = [h EXCEPT !.ghosts = @ \cup (known \cap Here)]
    BY <1>3
  <2> HIDE DEF h
  <2>3. past'.ghosts = past.ghosts \cup (known \cap Here)
    BY <2>1, <2>2 DEF Proper, PastFields
  <2> QED
    BY <1>1, <2>3
<1> QED
  BY <1>2, <1>3 DEF MobsTick

\* What a restart makes of the saved villagers.
LEMMA RestartVillagers ==
  ASSUME LivesAssumption, Types, OneSavedEach, Restart, NEW b \in Body
  PROVE  NewKind(b) <=> b \in known'
<1> DEFINE saved == Read("entities", [mobs |-> {}, items |-> {}])
           back == {m \in saved.mobs : m.body = b}
           one == CHOOSE m \in back : TRUE
           new == [Born(one.kind, one.loot) EXCEPT !.health = one.health]
<1>1. saved.mobs \subseteq SavedMob /\ OneEach(saved.mobs)
  <2>1. OneEach({}) /\ [mobs |-> {}, items |-> {}].mobs = {}
    BY DEF OneEach
  <2> QED
    BY <2>1, SavedEntities DEF Read, OneSavedEach
<1>2. /\ known' = {m.body : m \in {n \in saved.mobs : n.kind = "villager"}}
      /\ mob'[b] = IF back # {} THEN new ELSE IF mob[b] = Unborn THEN Unborn ELSE Gone
  BY DEF Restart
<1>3. ASSUME back # {} PROVE one \in saved.mobs /\ one.body = b
  BY <1>3
<1>4. new.at = "here" /\ new.kind = one.kind
  BY DEF Born, Unborn
<1> HIDE DEF one, new, saved
<1>5. Unborn.at = "unborn" /\ Gone.at = "gone"
  BY NobodyTyped
<1>6. CASE back # {}
  <2>1. \A m \in saved.mobs : m.body = b => m = one
    BY <1>1, <1>3, <1>6 DEF OneEach
  <2>2. NewKind(b) <=> one.kind = "villager"
    BY <1>2, <1>4, <1>6 DEF NewKind
  <2> QED
    BY <1>2, <1>3, <1>6, <2>1, <2>2
<1>7. CASE back = {}
  <2>1. b \notin known'
    BY <1>2, <1>7
  <2> QED
    BY <1>2, <1>5, <1>7, <2>1 DEF NewKind
<1> QED
  BY <1>6, <1>7

\* A villager is registered, or about to be ...
LEMMA VillagerIsNamed ==
  ASSUME LivesAssumption, Types, DeadOrAlive, OldHands, NamingVillagers, LoversTame, JobsInOrder,
         RemoveNoted,
         OneSavedEach, VillagersKnown, [Next]_vars, NEW b \in Body, NewKind(b)
  PROVE  b \in known' \/ \E u \in Thread : step'[u].at = "naming" /\ step'[u].on = b
<1>0. StepsGo /\ TablesGo /\ BeastGoes(b) /\ Gone.at = "gone"
  BY WhatThreadsDo, WhatBecomesOfTables, BeastsAreSound, BeastsStep, NobodyTyped
<1>1. CASE Restart
  BY <1>1, RestartVillagers
<1>2. CASE Comes(b) /\ (Summoning \/ Baby \/ Spawn)
  BY <1>2, NewVillager DEF NewKind
<1>3. CASE Stays(b) /\ ~Restart
  <2>1. mob[b].at = "here" /\ mob[b].kind = "villager"
    BY <1>3 DEF Stays, NewKind
  <2>2. b \in known \/ \E u \in Thread : step[u].at = "naming" /\ step[u].on = b
    BY <2>1 DEF VillagersKnown, Here
  <2>3. CASE b \in known
    <3>1. CASE Registering
      BY <2>3, <3>1, RegisterDoes DEF Registering
    <3>2. CASE Forget
      BY <2>1, <2>3, <3>2, ForgetsTheGone
    <3> QED
      BY <1>0, <1>3, <2>3, <3>1, <3>2 DEF TablesGo
  <2>4. ASSUME NEW u \in Thread, step[u].at = "naming", step[u].on = b
        PROVE  b \in known' \/ (step'[u].at = "naming" /\ step'[u].on = b)
    <3>1. ~Begins(u)
      BY <2>4 DEF Begins
    <3>2. Ends(u) => register_villager(u)
      BY <2>4 DEF Ends
    <3> QED
      BY <1>0, <1>3, <2>4, <3>1, <3>2, RegisterDoes DEF StepsGo, Kept
  <2> QED
    BY <2>2, <2>3, <2>4
<1> QED
  BY <1>0, <1>1, <1>2, <1>3 DEF BeastGoes, Goes, NewKind

\* ... and nothing else is.
LEMMA NamedIsVillager ==
  ASSUME LivesAssumption, Types, DeadOrAlive, OldHands, NamingVillagers, LoversTame, JobsInOrder,
         RemoveNoted,
         OneSavedEach, VillagersKnown, [Next]_vars, NEW b \in known'
  PROVE  (b \in Body /\ NewKind(b)) \/ b \in past'.ghosts \/ b \in tick'.remove
<1>0. TablesGo /\ MarksGo /\ \A c \in Body : BeastGoes(c)
  BY MarksKept, WhatBecomesOfTables, BeastsAreSound, BeastsStep
<1>1. Unborn.at = "unborn" /\ tick.remove \subseteq Body
  BY NobodyTyped DEF Types, LoopTypes, Tick
<1>2. CASE Restart
  <2>1. b \in Body
    <3>1. Read("entities", [mobs |-> {}, items |-> {}]).mobs \subseteq SavedMob
      BY SavedEntities
    <3>2. known' = {m.body : m \in {n \in Read("entities", [mobs |-> {}, items |-> {}]).mobs :
                                     n.kind = "villager"}}
      BY <1>2 DEF Restart
    <3> QED
      BY <3>1, <3>2 DEF SavedMob
  <2> QED
    BY <1>2, <2>1, RestartVillagers
<1>3. CASE b \notin known /\ ~Restart
  <2>1. PICK u \in Thread : register_villager(u)
    BY <1>0, <1>3, ForgetsTheGone DEF TablesGo, Registering
  <2>2. b = step[u].on /\ UNCHANGED mob
    BY <1>3, <2>1, RegisterDoes
  <2>3. b \in Body /\ (mob[b].at = "gone" \/ (mob[b].at = "here" /\ mob[b].kind = "villager"))
    BY <2>1, <2>2, RegisterDoes DEF NamingVillagers
  <2> QED
    BY <2>1, <2>2, <2>3, RegisterDoes DEF NewKind
<1>4. CASE b \in known /\ ~Restart
  <2>1. \/ b \in Body /\ mob[b].at = "here" /\ mob[b].kind = "villager"
        \/ b \in past.ghosts \/ b \in tick.remove
    BY <1>4 DEF VillagersKnown, Here
  <2>2. past.ghosts \subseteq past'.ghosts
    BY <1>0, <1>4, RegisterDoes, SweepNotes DEF MarksGo, Registering
  <2>3. CASE b \in tick.remove
    <3>1. ~Forget
      BY <2>3, ForgetsTheGone
    <3>2. ~MobsTick
      BY <2>3, NoneNotedYet
    <3>3. MobDying \/ MobStrays => tick.remove \subseteq tick'.remove
      BY NotingNotes DEF Noting
    <3> QED
      BY <1>0, <1>4, <2>3, <3>1, <3>2, <3>3 DEF TablesGo
  <2>4. CASE b \in Body /\ mob[b].at = "here" /\ mob[b].kind = "villager"
    <3>1. CASE Stays(b)
      BY <2>4, <3>1 DEF Stays, NewKind
    <3>2. CASE MobsTick
      BY <1>4, <2>4, <3>2, SweepNotes DEF Here, NewKind
    <3>3. CASE Pair /\ b \in tick.remove
      BY <2>3, <3>3
    <3> QED
      BY <1>0, <1>1, <1>4, <2>4, <3>1, <3>2, <3>3 DEF BeastGoes, Comes
  <2> QED
    BY <2>1, <2>2, <2>3, <2>4
<1> QED
  BY <1>2, <1>3, <1>4

\* Every step keeps it that villagers are registered, and nothing else is.
LEMMA VillagersKnownStep ==
  ASSUME LivesAssumption, Types, DeadOrAlive, OldHands, NamingVillagers, LoversTame, JobsInOrder,
         RemoveNoted,
         OneSavedEach, VillagersKnown, [Next]_vars
  PROVE  VillagersKnown'
<1>1. \A b \in Body : NewKind(b) =>
        b \in known' \/ \E u \in Thread : step'[u].at = "naming" /\ step'[u].on = b
  BY VillagerIsNamed
<1>2. \A b \in known' : (b \in Body /\ NewKind(b)) \/ b \in past'.ghosts \/ b \in tick'.remove
  BY NamedIsVillager
<1> QED
  BY <1>1, <1>2 DEF VillagersKnown, Here, NewKind

(***************************************************************************)
(* What a step shows.                                                      *)
(***************************************************************************)

Hasting == \E p \in Player : Hastening(p) /\ Free(p) /\ UNCHANGED past
ShownBy ==
  UNCHANGED shown \/ Altering \/ Hearing \/ Slowing \/ Slow \/ Forecasting \/ TellWeather \/ Loading \/ Hasting

\* Which steps change what a client shows.
LEMMA WhoShows ==
  ASSUME LivesAssumption, Types, [Next]_vars
  PROVE  ShownBy
<1>1. ASSUME NEW u \in Thread, DropAll(u) \/ Spill(u) \/ register_villager(u) PROVE UNCHANGED shown
  BY <1>1 DEF DropAll, Spill, register_villager, people
<1>2. ASSUME NEW p \in Player,
             \/ AddSpeed(p) \/ DrinkMilk(p) \/ Summon(p) \/ Seat(p) \/ Dismount(p) \/ Rise(p)
             \/ Enter(p) \/ Leave(p) \/ WriteFile(p) \/ remove_player(p) \/ Clear(p)
      PROVE  UNCHANGED shown
  BY <1>2, Zenon
  DEF AddSpeed, DrinkMilk, Summon, Seat, Dismount, Rise, Enter, Leave, WriteFile, remove_player,
      Clear, people
<1>3. ASSUME NEW p \in Player, NEW v \in Boat, Mount(p, v) PROVE UNCHANGED shown
  BY <1>3 DEF Mount, people
<1>4. ASSUME NEW p \in Player, NEW t \in Thing, Stow(p, t) \/ Fetch(p, t) PROVE UNCHANGED shown
  BY <1>4 DEF Stow, Fetch
<1>5. CASE Spawn \/ Give \/ Wane \/ Restart
  BY <1>5, Zenon DEF Spawn, Give, Wane, Restart, people, ShownBy
<1>6. CASE Aside
  BY <1>6, AsideLeaves DEF Left, ShownBy
<1>7. ASSUME NEW p \in Player, ApplyLasting(p) PROVE ShownBy
  BY <1>7, ApplyLastingIs DEF Lasting, Hasting, ShownBy
<1> QED
  BY <1>1, <1>2, <1>3, <1>4, <1>5, <1>6, <1>7
  DEF Next, Altering, Aside, ShownBy, Hearing, Slowing, Forecasting, Loading

\* A client is shown less speed, or more, or something else; and milk is not forgotten meanwhile.
Slows(p) == shown' = [shown EXCEPT ![p].fast = FALSE] /\ past.milked \ {p} \subseteq past'.milked
ShownGoes ==
  \/ \E p \in Player : Slows(p)
  \/ /\ past.milked \subseteq past'.milked
     /\ UNCHANGED shown \/ Hearing \/ Forecasting \/ TellWeather \/ Loading \/ Hasting

\* What those steps change of it.
LEMMA WhatIsShown ==
  ASSUME LivesAssumption, Types, DeadOrAlive, OldHands, [Next]_vars
  PROVE  ShownGoes
<1>0. Proper(past)
  BY DEF Types, PeopleTypes
<1>1. CASE Altering
  <2>1. CASE Alteration
    BY <2>1 DEF Alteration, Altered, ShownGoes, Slows
  <2>2. CASE AtRest
    BY <2>2 DEF AtRest, people, ShownGoes
  <2> QED
    BY <1>1, <2>1, <2>2, AlteringAlters
<1>2. CASE Slowing
  <2>1. PICK p \in Player : Walk(p, FALSE) /\ past' = Slowed(past, p)
    BY <1>2 DEF Slowing, SetGamemode, SwitchDimension
  <2>2. past'.milked = past.milked \ {p}
    BY <1>0, <2>1, SlowedNotes
  <2> QED
    BY <2>1, <2>2 DEF Walk, ShownGoes, Slows
<1>3. CASE Slow
  <2>1. Walk(Head(todo).on, FALSE) /\ past' = Slowed(past, Head(todo).on)
    BY <1>3 DEF Slow
  <2>2. Head(todo).on \in Player
    BY <1>3, JobIsForKnown DEF Slow, Do, PlayerJob
  <2>3. past'.milked = past.milked \ {Head(todo).on}
    BY <1>0, <2>1, SlowedNotes
  <2> QED
    BY <2>1, <2>2, <2>3 DEF Walk, ShownGoes, Slows
<1>4. CASE Milking
  <2>1. PICK p \in Player : DrinkMilk(p)
    BY <1>4 DEF Milking
  <2>2. UNCHANGED shown
    BY <2>1 DEF DrinkMilk
  <2>3. past.milked \subseteq past'.milked
    BY <2>1 DEF DrinkMilk, Types, PeopleTypes, Proper, PastFields
  <2> QED
    BY <2>2, <2>3 DEF ShownGoes
<1>5. MarksGo
  BY MarksKept
<1> QED
  BY <1>1, <1>2, <1>3, <1>4, <1>5, WhoShows DEF MarksGo, ShownBy, ShownGoes

\* What those steps show, one by one.
LEMMA HearingShows ==
  ASSUME Types, OldHands, Hearing
  PROVE  \E u \in Thread, p \in Player :
           /\ Telling(u, p) /\ \A v \in Thread \ {u} : step'[v] = step[v]
           /\ UNCHANGED <<self, table, todo, sky>>
           /\ \/ step[u].at = "hurt" /\ self[p].dead /\ ~step[u].died /\ UNCHANGED <<shown, past>>
              \/ shown' = [shown EXCEPT ![p].vitals = step[u].told] /\ past' = Heard(past, u)
<1>1. PICK u \in Thread : Flinch(u) \/ SendHealth(u)
  BY DEF Hearing
<1>2. step[u].at \in {"hurt", "telling"}
  BY <1>1 DEF Flinch, SendHealth
<1>3. step[u].on \in Player
  BY <1>2, ToldIsPlayer
<1>4. UNCHANGED <<self, table, todo, sky>>
  BY <1>1 DEF Flinch, SendHealth, elsewhere, course
<1>5. \/ step[u].at = "hurt" /\ self[step[u].on].dead /\ ~step[u].died /\ UNCHANGED <<shown, past>>
      \/ Tell(u) /\ past' = Heard(past, u)
  BY <1>1 DEF Flinch, SendHealth
<1>6. \A v \in Thread \ {u} : step'[v] = step[v]
  BY <1>1 DEF Flinch, SendHealth, Types, PeopleTypes
<1> QED
  BY <1>2, <1>3, <1>4, <1>5, <1>6 DEF Tell, Telling

\* What a newcomer is shown.
LEMMA LoadingShows ==
  ASSUME LivesAssumption, Types, NEW p \in Player, Load(p)
  PROVE  /\ shown'[p].vitals = Vitals(self'[p]) /\ shown'[p].fast = FALSE
         /\ shown'[p].rain = sky.raining
         /\ \A q \in Player \ {p} : shown'[q] = shown[q]
         /\ UNCHANGED <<table, todo, sky>>
<1>0. self \in [Player -> Self] /\ shown \in [Player -> Shown] /\ user[p] \in User
  BY DEF Types, PeopleTypes, LivesAssumption
<1> DEFINE s == apply_data(disk[user[p]])
<1>1. /\ self' = [self EXCEPT ![p] = [s EXCEPT !.at = "joining"]]
      /\ shown' = [shown EXCEPT ![p] = [vitals |-> Vitals(s), fast |-> FALSE, rain |-> sky.raining]]
      /\ UNCHANGED <<table, todo, sky>>
  BY DEF Load, elsewhere, course
<1>2. s \in Self
  BY <1>0, Loaded
<1> HIDE DEF s
<1>3. Vitals([s EXCEPT !.at = "joining"]) = Vitals(s)
  BY <1>2 DEF Vitals, Self
<1>4. self'[p] = [s EXCEPT !.at = "joining"]
  BY <1>0, <1>1
<1> HIDE DEF Vitals
<1> QED
  BY <1>0, <1>1, <1>3, <1>4

\* After a restart no thread is in the middle of anything.
LEMMA RestartIdle ==
  ASSUME Restart
  PROVE  \A u \in Thread : step'[u].at = "idle"
  BY StepParts DEF Restart

\* The vitals of who is known stay as they are but for blows and cures.
LEMMA VitalsStay ==
  ASSUME LivesAssumption, Types, DeadOrAlive, OldHands, ~Altering, ~Restart, [Next]_vars,
         NEW p \in Player, Known(p)
  PROVE  /\ self'[p].health = self[p].health /\ self'[p].food = self[p].food
         /\ self'[p].dead = self[p].dead
<1>1. CASE Loading
  <2>1. PICK q \in Player : Load(q)
    BY <1>1 DEF Loading
  <2>2. q # p
    BY <2>1, LoadDoes DEF Known
  <2> QED
    BY <2>1, <2>2, LoadDoes DEF OtherSelves
<1>2. SelfGoes
  BY WhatBecomesOfPlayers
<1> QED
  BY <1>1, <1>2 DEF SelfGoes, Same

(***************************************************************************)
(* What a step keeps: what is shown of vitals.                             *)
(***************************************************************************)

\* The vitals shown change only as they are told, or with a newcomer.
LEMMA VitalsShown ==
  ASSUME LivesAssumption, Types, DeadOrAlive, OldHands, [Next]_vars
  PROVE  (\A q \in Player : shown'[q].vitals = shown[q].vitals) \/ Hearing \/ Loading
<1>0. shown \in [Player -> Shown]
  BY DEF Types, PeopleTypes
<1>1. ASSUME NEW p \in Player, Slows(p) \/ Hastening(p)
      PROVE  \A q \in Player : shown'[q].vitals = shown[q].vitals
  <2>1. shown' = [shown EXCEPT ![p].fast = TRUE] \/ shown' = [shown EXCEPT ![p].fast = FALSE]
    BY <1>1 DEF Slows, Hastening
  <2>2. CASE shown' = [shown EXCEPT ![p].fast = TRUE]
    BY <1>0, <2>2 DEF Shown
  <2>3. CASE shown' = [shown EXCEPT ![p].fast = FALSE]
    BY <1>0, <2>3 DEF Shown
  <2> QED
    BY <2>1, <2>2, <2>3
<1>2. ASSUME NEW r, shown' = [q \in Player |-> IF q \in table THEN [shown[q] EXCEPT !.rain = r] ELSE shown[q]]
      PROVE  \A q \in Player : shown'[q].vitals = shown[q].vitals
  BY <1>0, <1>2 DEF Shown
<1>3. CASE Forecasting \/ TellWeather
  BY <1>2, <1>3 DEF Forecasting, Weather, TellWeather
<1>4. CASE UNCHANGED shown
  BY <1>4
<1> QED
  BY <1>1, <1>3, <1>4, WhatIsShown DEF ShownGoes, Hasting

\* Vitals are health and food.
LEMMA VitalsOf ==
  ASSUME NEW p \in Player, self'[p].health = self[p].health, self'[p].food = self[p].food
  PROVE  Vitals(self'[p]) = Vitals(self[p])
  BY DEF Vitals

\* A thread that tells is as it was, or just begins to, or tells.
LEMMA TellingStays ==
  ASSUME LivesAssumption, Types, DeadOrAlive, OldHands, ~Altering, [Next]_vars,
         NEW u \in Thread, step[u].at \in {"hurt", "telling"}
  PROVE  step'[u] = step[u] \/ Hearing \/ Restart
<1>1. Steady
  BY OwnSteps DEF OldHands, Told
<1>2. StepsGo
  BY WhatThreadsDo
<1>3. ~Begins(u) /\ (Ends(u) => Hearing)
  BY DEF Begins, Ends, Hearing
<1> QED
  BY <1>1, <1>2, <1>3 DEF Steady, Apart, StepsGo, Kept

\* Every step keeps it that what a thread is about to tell is so, unless overtaken.
LEMMA TellsTheTruthStep ==
  ASSUME LivesAssumption, Types, DeadOrAlive, OldHands, TellsTheTruth, [Next]_vars
  PROVE  TellsTheTruth'
<1>1. CASE Alteration
  <2>1. PICK u \in Thread, p \in Player, t \in Self, at \in {"hurt", "telling"}, died \in BOOLEAN :
          Altered(u, p, t, at, died)
    BY <1>1 DEF Alteration
  <2>2. Changed(u, p, t, at, died)
    BY <2>1, ChangeIs DEF Altered
  <2>3. ASSUME NEW v \in Thread, NEW q \in Player, step'[v].on = q, step'[v].at \in {"hurt", "telling"},
               ~step'[v].old
        PROVE  step'[v].told = Vitals(self'[q])
    <3>1. CASE v = u
      BY <2>2, <2>3, <3>1 DEF Changed
    <3>2. CASE v # u
      <4>1. /\ step'[v].at = step[v].at /\ step'[v].on = step[v].on /\ step'[v].told = step[v].told
            /\ ~step[v].old /\ ~Telling(v, p)
        BY <2>2, <2>3, <3>2 DEF Changed
      <4>2. q # p /\ self'[q] = self[q]
        BY <2>2, <2>3, <4>1 DEF Changed, Telling
      <4> QED
        BY <2>3, <4>1, <4>2 DEF TellsTheTruth, Telling
    <3> QED
      BY <3>1, <3>2
  <2> QED
    BY <2>3, Zenon DEF TellsTheTruth, Telling
<1>2. CASE AtRest
  <2>1. UNCHANGED <<self, step>>
    BY <1>2 DEF AtRest, people
  <2> QED
    BY <2>1 DEF TellsTheTruth, Telling
<1>3. CASE ~Altering
  <2>1. ASSUME NEW u \in Thread, NEW p \in Player, step'[u].on = p, step'[u].at \in {"hurt", "telling"},
               ~step'[u].old
        PROVE  step'[u].told = Vitals(self'[p])
    <3>1. step'[u] = step[u]
      BY <1>3, <2>1, OwnSteps DEF OldHands, Told, Steady, Apart
    <3>2. step[u].told = Vitals(self[p]) /\ Known(p)
      BY <2>1, <3>1 DEF TellsTheTruth, Telling, OldHands
    <3>3. ~Restart
      BY <2>1, RestartIdle
    <3>4. self'[p].health = self[p].health /\ self'[p].food = self[p].food
      BY <1>3, <3>2, <3>3, VitalsStay
    <3> QED
      BY <3>1, <3>2, <3>4, VitalsOf
  <2> QED
    BY <2>1, Zenon DEF TellsTheTruth, Telling
<1> QED
  BY <1>1, <1>2, <1>3, AlteringAlters

\* Of those who are told, somebody will tell.
WillTellNext(u, p) ==
  /\ step'[u].on = p /\ step'[u].at \in {"hurt", "telling"}
  /\ step'[u].told = Vitals(self'[p])
  /\ step'[u].at = "telling" \/ step'[u].died \/ ~self'[p].dead
ShowsNext(p) == shown'[p].vitals = Vitals(self'[p]) \/ \E u \in Thread : WillTellNext(u, p)

\* After a change of vitals the client shows them, or some thread is to tell them.
LEMMA AlterationTells ==
  ASSUME LivesAssumption, Types, Alteration, SomeoneTells, NEW q \in Player,
         self'[q].at \in {"joining", "play"}, q \notin past'.crossed
  PROVE  ShowsNext(q)
<1>1. PICK u \in Thread, p \in Player, t \in Self, at \in {"hurt", "telling"}, died \in BOOLEAN :
        Altered(u, p, t, at, died)
  BY DEF Alteration
<1>2. Changed(u, p, t, at, died) /\ step[u].at = "idle"
  BY <1>1, ChangeIs DEF Altered
<1>3. self[q].at \in {"joining", "play"} /\ q \notin past.crossed
  <2>1. self'[q].at = self[q].at
    BY AlterationKeeps
  <2>2. past'.crossed = past.crossed
    BY AlterationKeeps DEF Marks
  <2> QED
    BY <2>1, <2>2
<1>4. shown[q].vitals = Vitals(self[q]) \/ \E v \in Thread : WillTell(v, q)
  BY <1>3 DEF SomeoneTells
<1>5. shown'[q].vitals = shown[q].vitals
  <2>1. shown' = shown \/ shown' = [shown EXCEPT ![p].fast = FALSE]
    BY <1>1 DEF Altered
  <2> QED
    BY <2>1 DEF Types, PeopleTypes, Shown
<1>6. CASE q = p /\ (at = "telling" \/ died \/ ~t.dead)
  BY <1>2, <1>6 DEF Changed, ShowsNext, WillTellNext
<1>7. CASE q # p \/ (q = p /\ ~(at = "telling" \/ died \/ ~t.dead))
  <2>1. self'[q] = self[q]
    BY <1>1, <1>2, <1>7 DEF Changed, Altered
  <2>2. ASSUME NEW v \in Thread, WillTell(v, q) PROVE WillTellNext(v, q)
    <3>1. v # u
      BY <1>2, <2>2 DEF WillTell, Telling
    <3> QED
      BY <1>2, <2>1, <2>2, <3>1 DEF Changed, WillTell, WillTellNext, Telling
  <2> QED
    BY <1>4, <1>5, <2>1, <2>2 DEF ShowsNext
<1> QED
  BY <1>6, <1>7

\* A client that is told shows what it was told, and another thread may still be to tell.
LEMMA HearingTells ==
  ASSUME LivesAssumption, Types, OldHands, TellsTheTruth, SomeoneTells, Hearing, NEW q \in Player,
         self'[q].at \in {"joining", "play"}, q \notin past'.crossed
  PROVE  ShowsNext(q)
<1>1. PICK u \in Thread, p \in Player :
        /\ Telling(u, p) /\ \A v \in Thread \ {u} : step'[v] = step[v]
        /\ UNCHANGED <<self, table, todo, sky>>
        /\ \/ step[u].at = "hurt" /\ self[p].dead /\ ~step[u].died /\ UNCHANGED <<shown, past>>
           \/ shown' = [shown EXCEPT ![p].vitals = step[u].told] /\ past' = Heard(past, u)
  BY HearingShows
<1>2. Proper(past) /\ shown \in [Player -> Shown] /\ step[u].on = p
  BY <1>1 DEF Types, PeopleTypes, Telling
<1>3. CASE step[u].at = "hurt" /\ self[p].dead /\ ~step[u].died /\ UNCHANGED <<shown, past>>
  <2>1. shown[q].vitals = Vitals(self[q]) \/ \E v \in Thread : WillTell(v, q)
    BY <1>1, <1>3 DEF SomeoneTells
  <2>2. ASSUME NEW v \in Thread, WillTell(v, q) PROVE WillTellNext(v, q)
    <3>1. v # u
      BY <1>1, <1>3, <2>2 DEF WillTell, Telling
    <3> QED
      BY <1>1, <2>2, <3>1 DEF WillTell, WillTellNext, Telling
  <2> QED
    BY <1>1, <1>3, <2>1, <2>2 DEF ShowsNext
<1>4. CASE shown' = [shown EXCEPT ![p].vitals = step[u].told] /\ past' = Heard(past, u)
  <2>1. /\ step[u].old => past'.crossed = past.crossed \cup {p}
        /\ ~step[u].old => past'.crossed = past.crossed \ {p}
    BY <1>2, <1>4, HeardNotes
  <2>2. CASE q = p
    <3>1. step[u].told = Vitals(self[p])
      BY <1>1, <2>1, <2>2 DEF TellsTheTruth
    <3>2. shown'[p].vitals = step[u].told
      BY <1>2, <1>4 DEF Shown
    <3> QED
      BY <1>1, <2>2, <3>1, <3>2 DEF ShowsNext
  <2>3. CASE q # p
    <3>1. q \notin past.crossed /\ shown'[q] = shown[q]
      BY <1>2, <1>4, <2>1, <2>3
    <3>2. shown[q].vitals = Vitals(self[q]) \/ \E v \in Thread : WillTell(v, q)
      BY <1>1, <3>1 DEF SomeoneTells
    <3>3. ASSUME NEW v \in Thread, WillTell(v, q) PROVE WillTellNext(v, q)
      <4>1. v # u
        BY <1>2, <2>3, <3>3 DEF WillTell, Telling
      <4> QED
        BY <1>1, <3>3, <4>1 DEF WillTell, WillTellNext, Telling
    <3> QED
      BY <1>1, <3>1, <3>2, <3>3 DEF ShowsNext
  <2> QED
    BY <2>2, <2>3
<1> QED
  BY <1>1, <1>3, <1>4

\* Who is in the game was in it, or is just coming.
LEMMA WasThere ==
  ASSUME LivesAssumption, Types, DeadOrAlive, OldHands, [Next]_vars, NEW q \in Player,
         self'[q].at \in {"joining", "play"}
  PROVE  self[q].at \in {"joining", "play"} \/ Load(q)
<1>0. self \in [Player -> Self]
  BY DEF Types, PeopleTypes
<1>1. CASE Loading
  <2>1. PICK p \in Player : Load(p)
    BY <1>1 DEF Loading
  <2> QED
    BY <2>1, LoadDoes DEF OtherSelves
<1>2. CASE Same("at")
  BY <1>2 DEF Same
<1>3. CASE Restart
  BY <1>3, RestartRides
<1>4. ASSUME NEW p \in Player, Enter(p) \/ Leave(p) \/ WriteFile(p) \/ remove_player(p) \/ Clear(p)
      PROVE  self[q].at \in {"joining", "play"}
  <2>1. \/ self' = [self EXCEPT ![p].at = "play"] /\ self[p].at = "joining"
        \/ self' = [self EXCEPT ![p].at = "saving", ![p].file = snapshot_data(self[p])]
        \/ self' = [self EXCEPT ![p].at = "saved"]
        \/ self' = [self EXCEPT ![p].at = "left"]
        \/ self' = [self EXCEPT ![p].at = "gone", ![p].effect = Calm, ![p].file = None]
    BY <1>4 DEF Enter, Leave, WriteFile, remove_player, Clear
  <2>2. \A r \in Player \ {p} : self'[r] = self[r]
    BY <1>0, <2>1
  <2>3. self'[p].at \in {"joining", "play"} => self[p].at = "joining"
    BY <1>0, <2>1 DEF Self
  <2> QED
    BY <2>2, <2>3
<1>5. SelfGoes
  BY WhatBecomesOfPlayers
<1> QED
  BY <1>1, <1>2, <1>3, <1>4, <1>5 DEF SelfGoes, Entering, Leaving, Departing, Clearing

\* Every step keeps it that who is shown something else is to be told by someone.
LEMMA SomeoneTellsStep ==
  ASSUME LivesAssumption, Types, DeadOrAlive, OldHands, TellsTheTruth, SomeoneTells, [Next]_vars
  PROVE  SomeoneTells'
<1>1. ASSUME NEW q \in Player, self'[q].at \in {"joining", "play"}, q \notin past'.crossed
      PROVE  ShowsNext(q)
  <2>1. CASE Alteration
    BY <1>1, <2>1, AlterationTells
  <2>2. CASE Hearing
    BY <1>1, <2>2, HearingTells
  <2>3. CASE Load(q)
    BY <2>3, LoadingShows DEF ShowsNext
  <2>4. CASE ~Altering /\ ~Hearing /\ ~Load(q)
    <3>1. self[q].at \in {"joining", "play"} /\ ~Restart
      BY <1>1, <2>4, WasThere, RestartRides
    <3>2. q \notin past.crossed
      BY <1>1, <2>4, MarksKept DEF MarksGo
    <3>3. shown[q].vitals = Vitals(self[q]) \/ \E v \in Thread : WillTell(v, q)
      BY <3>1, <3>2 DEF SomeoneTells
    <3>4. Known(q) \/ self[q].at = "joining"
      BY <3>1 DEF Known
    <3>5. /\ self'[q].health = self[q].health /\ self'[q].food = self[q].food
          /\ self'[q].dead = self[q].dead
      <4>1. CASE Loading
        <5>1. PICK p \in Player : Load(p)
          BY <4>1 DEF Loading
        <5>2. p # q
          BY <2>4, <5>1
        <5> QED
          BY <5>1, <5>2, LoadDoes DEF OtherSelves
      <4> QED
        BY <2>4, <3>1, <4>1, WhatBecomesOfPlayers DEF SelfGoes, Same
    <3>6. Vitals(self'[q]) = Vitals(self[q])
      BY <3>5, VitalsOf
    <3>7. shown'[q].vitals = shown[q].vitals
      <4>1. CASE Loading
        <5>1. PICK p \in Player : Load(p)
          BY <4>1 DEF Loading
        <5>2. p # q
          BY <2>4, <5>1
        <5> QED
          BY <5>1, <5>2, LoadingShows
      <4> QED
        BY <2>4, <4>1, VitalsShown
    <3>8. ASSUME NEW v \in Thread, WillTell(v, q) PROVE WillTellNext(v, q)
      <4>1. step'[v] = step[v]
        BY <2>4, <3>1, <3>8, TellingStays DEF WillTell, Telling
      <4> QED
        BY <3>5, <3>6, <3>8, <4>1 DEF WillTell, WillTellNext, Telling
    <3> QED
      BY <3>3, <3>6, <3>7, <3>8 DEF ShowsNext
  <2>5. CASE AtRest
    <3>1. UNCHANGED <<self, step, shown, past>>
      BY <2>5 DEF AtRest, people
    <3>2. shown[q].vitals = Vitals(self[q]) \/ \E v \in Thread : WillTell(v, q)
      BY <1>1, <3>1 DEF SomeoneTells
    <3> QED
      BY <3>1, <3>2 DEF ShowsNext, WillTell, WillTellNext, Telling
  <2> QED
    BY <2>1, <2>2, <2>3, <2>4, <2>5, AlteringAlters
<1> QED
  BY <1>1, Zenon DEF SomeoneTells, ShowsNext, WillTellNext, WillTell, Telling

(***************************************************************************)
(* What a step keeps: what is shown of the weather.                        *)
(***************************************************************************)

\* Who is coming was coming, or just begins to.
LEMMA JoiningWas ==
  ASSUME LivesAssumption, Types, DeadOrAlive, OldHands, [Next]_vars, NEW q \in Player,
         self'[q].at = "joining"
  PROVE  self[q].at = "joining" \/ Load(q)
<1>0. self \in [Player -> Self]
  BY DEF Types, PeopleTypes
<1>1. CASE Loading
  <2>1. PICK p \in Player : Load(p)
    BY <1>1 DEF Loading
  <2> QED
    BY <2>1, LoadDoes DEF OtherSelves
<1>2. ASSUME NEW p \in Player, Enter(p) \/ Leave(p) \/ WriteFile(p) \/ remove_player(p) \/ Clear(p)
      PROVE  self[q].at = "joining"
  <2>1. \/ self' = [self EXCEPT ![p].at = "play"]
        \/ self' = [self EXCEPT ![p].at = "saving", ![p].file = snapshot_data(self[p])]
        \/ self' = [self EXCEPT ![p].at = "saved"]
        \/ self' = [self EXCEPT ![p].at = "left"]
        \/ self' = [self EXCEPT ![p].at = "gone", ![p].effect = Calm, ![p].file = None]
    BY <1>2 DEF Enter, Leave, WriteFile, remove_player, Clear
  <2>2. \A r \in Player \ {p} : self'[r] = self[r]
    BY <1>0, <2>1
  <2>3. self'[p].at # "joining"
    BY <1>0, <2>1 DEF Self
  <2> QED
    BY <2>2, <2>3
<1>3. CASE Restart
  BY <1>3, RestartRides
<1> QED
  BY <1>1, <1>2, <1>3, WhatBecomesOfPlayers DEF SelfGoes, Same, Entering, Leaving, Departing,
     Clearing

\* The weather shown changes only as it is told, or with a newcomer.
LEMMA RainShown ==
  ASSUME LivesAssumption, Types, DeadOrAlive, OldHands, [Next]_vars
  PROVE  (\A q \in Player : shown'[q].rain = shown[q].rain) \/ Forecasting \/ TellWeather \/ Loading
<1>0. shown \in [Player -> Shown]
  BY DEF Types, PeopleTypes
<1>1. ASSUME NEW p \in Player, NEW f, shown' = [shown EXCEPT ![p].fast = f]
      PROVE  \A q \in Player : shown'[q].rain = shown[q].rain
  BY <1>0, <1>1 DEF Shown
<1>2. ASSUME NEW p \in Player, NEW x, shown' = [shown EXCEPT ![p].vitals = x]
      PROVE  \A q \in Player : shown'[q].rain = shown[q].rain
  BY <1>0, <1>2 DEF Shown
<1>3. CASE Hearing
  BY <1>2, <1>3, HearingShows
<1>4. ASSUME NEW p \in Player, Slows(p) \/ Hastening(p)
      PROVE  \A q \in Player : shown'[q].rain = shown[q].rain
  BY <1>1, <1>4 DEF Slows, Hastening
<1> QED
  BY <1>3, <1>4, WhatIsShown DEF ShownGoes, Hasting

\* Who is to be shown the weather.
Bound(p) == p \in table \/ self[p].at = "joining"
BoundNext(p) == p \in table' \/ self'[p].at = "joining"
TurningNext == todo' # <<>> /\ Head(todo').do = "rain"

\* Who is bound to hear of the weather was so before, or has just come.
LEMMA BoundWas ==
  ASSUME LivesAssumption, Types, DeadOrAlive, OldHands, [Next]_vars, NEW p \in Player, BoundNext(p)
  PROVE  Bound(p) \/ Load(p)
<1>1. ASSUME NEW q \in Player, Enter(q), p \in table' PROVE Bound(p)
  BY <1>1 DEF Enter, Bound
<1>2. ASSUME NEW q \in Player, WriteFile(q) \/ remove_player(q) PROVE table' \subseteq table
  BY <1>2 DEF WriteFile, remove_player
<1>3. Restart => table' = {}
  BY DEF Restart
<1> QED
  BY <1>1, <1>2, <1>3, JoiningWas, WhatBecomesOfTables DEF TablesGo, Entering, Departing, Bound,
     BoundNext

\* While the loop is to tell the weather, it does nothing else first.
LEMMA TurningStays ==
  ASSUME LivesAssumption, Types, OldHands, LoversTame, [Next]_vars, Turning
  PROVE  TurningNext \/ TellWeather \/ Restart
<1>1. LoopGoes
  BY LoopStep
<1>2. ~Starting
  BY DEF Starting, LoopFree, Turning
<1>3. GoingOn => TellWeather
  BY DEF GoingOn, Turning
<1> QED
  BY <1>1, <1>2, <1>3 DEF LoopGoes, Turning, TurningNext

WeatherToCome(p) == p \notin past.misled /\ Bound(p) => shown[p].rain = sky.raining \/ Turning

\* After every step who is bound to hear of the weather shows it, or is to be told.
LEMMA WeatherNext ==
  ASSUME LivesAssumption, Types, DeadOrAlive, OldHands, LoversTame, WeatherToTell, WeatherIsShown,
         [Next]_vars, NEW p \in Player, BoundNext(p), p \notin past'.misled
  PROVE  shown'[p].rain = sky'.raining \/ TurningNext
<1>0. shown \in [Player -> Shown] /\ Proper(past) /\ table \subseteq Player
  BY DEF Types, PeopleTypes
<1>1. ~Restart
  <2>1. Restart => table' = {} /\ self'[p].at # "joining"
    BY RestartRides DEF Restart
  <2> QED
    BY <2>1 DEF BoundNext
<1>2. CASE Load(p)
  BY <1>2, LoadingShows
<1>3. CASE Loading /\ ~Load(p)
  <2>1. PICK q \in Player : Load(q)
    BY <1>3 DEF Loading
  <2>2. q # p
    BY <1>3, <2>1
  <2>3. shown'[p] = shown[p] /\ UNCHANGED <<table, todo, sky>>
    BY <2>1, <2>2, LoadingShows
  <2>4. self'[p] = self[p]
    BY <2>1, <2>2, LoadDoes DEF OtherSelves
  <2>5. past'.misled = past.misled
    <3>1. ~Forecasting /\ ~TellWeather
      BY <2>1, <2>4, LoadDoes DEF Forecasting, Weather, TellWeather
    <3> QED
      BY <3>1, MarksKept DEF MarksGo
  <2> QED
    BY <2>3, <2>4, <2>5 DEF WeatherToTell, WeatherIsShown, BoundNext, Turning, TurningNext
<1>4. CASE Forecasting
  <2>1. PICK q \in Player : Weather(q)
    BY <1>4 DEF Forecasting
  <2>2. PICK r \in BOOLEAN :
          /\ shown' = [z \in Player |-> IF z \in table THEN [shown[z] EXCEPT !.rain = r] ELSE shown[z]]
          /\ past' = [past EXCEPT !.misled = IF r = sky.raining THEN @ \ table ELSE @ \cup table]
    BY <2>1 DEF Weather
  <2>3. UNCHANGED <<self, table, todo, sky>>
    BY <2>1 DEF Weather, elsewhere, course
  <2>4. past'.misled = IF r = sky.raining THEN past.misled \ table ELSE past.misled \cup table
    BY <1>0, <2>2 DEF Proper, PastFields
  <2>5. CASE p \in table
    <3>1. r = sky.raining
      BY <2>4, <2>5
    <3>2. shown'[p].rain = r
      BY <1>0, <2>2, <2>5 DEF Shown
    <3> QED
      BY <2>3, <3>1, <3>2
  <2>6. CASE p \notin table
    <3>1. shown'[p] = shown[p] /\ p \notin past.misled
      BY <2>2, <2>4, <2>6
    <3> QED
      BY <2>3, <2>6, <3>1 DEF WeatherToTell, BoundNext, Turning, TurningNext
  <2> QED
    BY <2>5, <2>6
<1>5. CASE TellWeather
  <2> DEFINE r == Head(todo).arg
  <2>1. /\ shown' = [z \in Player |-> IF z \in table THEN [shown[z] EXCEPT !.rain = r] ELSE shown[z]]
        /\ past' = [past EXCEPT !.misled = (@ \ table) \cup {q \in Player : /\ self[q].at = "joining"
                                                                            /\ shown[q].rain # r}]
        /\ UNCHANGED <<self, table, sky>> /\ todo # <<>> /\ Head(todo).do = "rain"
    BY <1>5 DEF TellWeather, Do
  <2>2. r = sky.raining
    BY <2>1, FirstJob DEF WeatherToTell, Types, LoopTypes
  <2> HIDE DEF r
  <2>3. past'.misled = (past.misled \ table) \cup {q \in Player : self[q].at = "joining" /\ shown[q].rain # r}
    BY <1>0, <2>1 DEF Proper, PastFields
  <2>4. shown'[p].rain = r
    BY <1>0, <2>1, <2>3 DEF Shown, BoundNext
  <2> QED
    BY <2>1, <2>2, <2>4
<1>6. CASE ~Loading /\ ~Forecasting /\ ~TellWeather
  <2>1. Bound(p)
    BY <1>6, BoundWas DEF Loading
  <2>2. shown'[p].rain = shown[p].rain /\ past'.misled = past.misled
    BY <1>6, RainShown, MarksKept DEF MarksGo
  <2>3. shown[p].rain = sky.raining \/ Turning
    BY <2>1, <2>2 DEF Bound, WeatherToTell, WeatherIsShown, Turning
  <2>4. Turning => TurningNext
    BY <1>1, <1>6, TurningStays
  <2>5. Flip => TurningNext
    BY DEF Flip, TurningNext, Job
  <2>6. sky'.raining = sky.raining \/ Flip
    BY <1>1, WhatBecomesOfTables DEF TablesGo
  <2> QED
    BY <2>2, <2>3, <2>4, <2>5, <2>6
<1> QED
  BY <1>2, <1>3, <1>4, <1>5, <1>6

\* What the loop is to tell is the weather.
LEMMA RainToTell ==
  ASSUME LivesAssumption, Types, DeadOrAlive, OldHands, LoversTame, WeatherToTell, [Next]_vars,
         NEW i \in DOMAIN todo', todo'[i].do = "rain"
  PROVE  todo'[i].arg = sky'.raining
<1>0. LoopGoes /\ todo \in Seq(AJob)
  BY LoopStep DEF Types, LoopTypes
<1>1. CASE Starting
  BY <1>1 DEF Starting
<1>2. ~(Restart /\ todo' = <<>>)
  OBVIOUS
<1>3. CASE ~Starting /\ todo # <<>>
  <2>1. sky'.raining = sky.raining \/ Restart
    BY <1>3, WhatBecomesOfTables DEF TablesGo, Flip, LoopFree
  <2>2. ~Restart
    BY DEF Restart
  <2>3. CASE UNCHANGED todo
    BY <2>1, <2>2, <2>3 DEF WeatherToTell
  <2>4. CASE GoingOn
    <3>1. PICK more \in Seq(AJob) : New(more) /\ Done(more)
      BY <2>4 DEF GoingOn
    <3>2. \/ i \in DOMAIN more /\ todo'[i] = more[i]
          \/ \E k \in DOMAIN todo : todo'[i] = todo[k]
      BY <1>0, <1>3, <3>1, DoneJobs
    <3>3. \E k \in DOMAIN todo : todo'[i] = todo[k]
      BY <3>1, <3>2 DEF New
    <3> QED
      BY <2>1, <2>2, <3>3 DEF WeatherToTell
  <2> QED
    BY <1>0, <1>2, <1>3, <2>3, <2>4 DEF LoopGoes
<1>4. CASE ~Starting /\ todo = <<>>
  BY <1>0, <1>2, <1>4 DEF LoopGoes, GoingOn
<1> QED
  BY <1>1, <1>3, <1>4

\* Every step keeps it that the weather is shown, or to be told.
LEMMA WeatherStep ==
  ASSUME LivesAssumption, Types, DeadOrAlive, OldHands, LoversTame, WeatherToTell, WeatherIsShown,
         [Next]_vars
  PROVE  WeatherToTell' /\ WeatherIsShown'
<1>1. \A p \in Player : BoundNext(p) /\ p \notin past'.misled => shown'[p].rain = sky'.raining \/ TurningNext
  BY WeatherNext
<1>2. \A i \in DOMAIN todo' : todo'[i].do = "rain" => todo'[i].arg = sky'.raining
  BY RainToTell
<1>3. table' \subseteq Player
  BY TablesTyped
<1>4. WeatherToTell'
  BY <1>1, <1>2, Zenon DEF WeatherToTell, BoundNext, Turning, TurningNext
<1>5. WeatherIsShown'
  BY <1>1, <1>3 DEF WeatherIsShown, BoundNext, TurningNext
<1> QED
  BY <1>4, <1>5

(***************************************************************************)
(* What a step keeps: what is shown of speed.                              *)
(***************************************************************************)

\* Who walks fast did, or is just told to; and milk is not forgotten meanwhile.
LEMMA FastWas ==
  ASSUME LivesAssumption, Types, DeadOrAlive, OldHands, [Next]_vars, NEW p \in Player,
         shown'[p].fast
  PROVE  \/ shown[p].fast /\ (p \in past.milked => p \in past'.milked)
         \/ Hastening(p) /\ Free(p)
<1>0. shown \in [Player -> Shown]
  BY DEF Types, PeopleTypes
<1>1. ASSUME NEW q \in Player, Slows(q)
      PROVE  shown[p].fast /\ (p \in past.milked => p \in past'.milked)
  <2>1. q # p
    BY <1>0, <1>1 DEF Slows, Shown
  <2> QED
    BY <1>0, <1>1, <2>1 DEF Slows
<1>2. ASSUME NEW q \in Player, Hastening(q), Free(q), q # p
      PROVE  shown[p].fast
  BY <1>0, <1>2 DEF Hastening
<1>3. ASSUME NEW q \in Player, NEW x, shown' = [shown EXCEPT ![q].vitals = x]
      PROVE  shown[p].fast
  BY <1>0, <1>3 DEF Shown
<1>4. ASSUME Hearing PROVE shown[p].fast
  <2>1. PICK u \in Thread, q \in Player : shown' = shown \/ shown' = [shown EXCEPT ![q].vitals = step[u].told]
    BY <1>4, HearingShows
  <2>2. CASE shown' = shown
    BY <2>2
  <2>3. CASE shown' = [shown EXCEPT ![q].vitals = step[u].told]
    BY <1>3, <2>3
  <2> QED
    BY <2>1, <2>2, <2>3
<1>5. ASSUME NEW r, shown' = [q \in Player |-> IF q \in table THEN [shown[q] EXCEPT !.rain = r] ELSE shown[q]]
      PROVE  shown[p].fast
  BY <1>0, <1>5 DEF Shown
<1>6. ASSUME Forecasting PROVE shown[p].fast
  <2>1. PICK q \in Player : Weather(q)
    BY <1>6 DEF Forecasting
  <2> QED
    BY <1>5, <2>1 DEF Weather
<1>7. ASSUME TellWeather PROVE shown[p].fast
  BY <1>5, <1>7 DEF TellWeather
<1>8. ASSUME Loading PROVE shown[p].fast
  <2>1. PICK q \in Player : Load(q)
    BY <1>8 DEF Loading
  <2>2. shown'[q].fast = FALSE /\ \A r \in Player \ {q} : shown'[r] = shown[r]
    BY <2>1, LoadingShows, Zenon
  <2>3. q # p
    BY <2>2
  <2>4. shown'[p] = shown[p]
    BY <2>2, <2>3
  <2> QED
    BY <2>4
<1> QED
  BY <1>1, <1>2, <1>4, <1>6, <1>7, <1>8, WhatIsShown DEF ShownGoes, Hasting

\* Every step keeps it that a newcomer walks slowly.
LEMMA SlowAtFirstStep ==
  ASSUME LivesAssumption, Types, DeadOrAlive, OldHands, SlowAtFirst, [Next]_vars
  PROVE  SlowAtFirst'
<1>1. ASSUME NEW p \in Player, self'[p].at = "joining" PROVE ~shown'[p].fast
  <2>1. CASE Load(p)
    BY <2>1, LoadingShows
  <2>2. CASE self[p].at = "joining"
    <3>1. ~shown[p].fast /\ ~Free(p)
      BY <2>2 DEF SlowAtFirst, Free
    <3> QED
      BY <3>1, FastWas
  <2> QED
    BY <1>1, <2>1, <2>2, JoiningWas
<1> QED
  BY <1>1 DEF SlowAtFirst

\* Why a client walks fast, after a step.
SlowNext(p) == \E i \in DOMAIN todo' : todo'[i].do = "slow" /\ todo'[i].on = p
Earned(p) ==
  \/ self'[p].effect["speed"] > 0 \/ p \in past'.milked \/ step'[p].at = "hastening"
  \/ SlowNext(p)

\* The loop is still to slow those it was to, but for one it slows now.
LEMMA SlowStays ==
  ASSUME LivesAssumption, Types, OldHands, LoversTame, [Next]_vars, NEW p \in Player,
         NEW i \in DOMAIN todo, todo[i].do = "slow", todo[i].on = p
  PROVE  SlowNext(p) \/ (Slow /\ Head(todo).on = p) \/ Restart
<1>0. todo \in Seq(AJob) /\ LoopGoes /\ todo # <<>>
  BY LoopStep DEF Types, LoopTypes
<1>1. ~Starting
  BY <1>0 DEF Starting, LoopFree
<1>2. CASE UNCHANGED todo
  BY <1>2 DEF SlowNext
<1>3. CASE GoingOn
  <2>1. PICK more \in Seq(AJob) : Done(more)
    BY <1>3 DEF GoingOn
  <2>2. CASE i > 1
    <3>1. Len(more) + i - 1 \in DOMAIN todo' /\ todo'[Len(more) + i - 1] = todo[i]
      BY <1>0, <2>1, <2>2, DoneJobs
    <3> QED
      BY <3>1 DEF SlowNext
  <2>3. CASE i = 1
    BY <1>0, <1>3, <2>3, FirstJob DEF GoingOn
  <2> QED
    BY <1>0, <2>2, <2>3, FirstJob
<1> QED
  BY <1>0, <1>1, <1>2, <1>3 DEF LoopGoes

\* Slowing one slows it.
LEMMA SlowSlows ==
  ASSUME LivesAssumption, Types, OldHands, Slow
  PROVE  ~shown'[Head(todo).on].fast
<1>1. Head(todo).on \in Player
  BY JobIsForKnown DEF Slow, Do, PlayerJob
<1> QED
  BY <1>1 DEF Slow, Walk, Types, PeopleTypes, Shown

\* Speed wanes, and the loop is to say when it is over.
LEMMA WaneSlows ==
  ASSUME LivesAssumption, Types, OldHands, Wane, NEW p \in Player, self[p].effect["speed"] > 0
  PROVE  self'[p].effect["speed"] > 0 \/ SlowNext(p)
<1>0. /\ self \in [Player -> Self] /\ self[p].effect \in [Effect -> Nat] /\ "speed" \in Effect
      /\ todo \in Seq(AJob) /\ todo # <<>>
  BY DEF Types, PeopleTypes, LoopTypes, Self, Effect, Wane, Do
<1>1. PICK q \in Player : q = Head(todo).on /\ Known(q)
  BY JobIsForKnown DEF Wane, Do, PlayerJob
<1> DEFINE S == {r \in {q} : self[q].effect["speed"] = 1}
<1>2. /\ self' = [self EXCEPT ![q].effect = [e \in Effect |-> MaxOf(0, @[e] - 1)]]
      /\ Done(Jobs("slow", S))
  BY <1>1 DEF Wane
<1>3. CASE q # p
  BY <1>0, <1>2, <1>3
<1>4. CASE q = p /\ self[p].effect["speed"] = 1
  <2>1. S = {p} /\ \A r \in S : Known(r)
    BY <1>1, <1>4
  <2> HIDE DEF S
  <2>2. Jobs("slow", S) \in Seq(AJob)
    BY <2>1, JobsForPlayers DEF PlayerJob
  <2>3. IsFiniteSet(S) /\ p \in S
    BY <2>1, FS_Singleton, Zenon
  <2>4. PICK i \in DOMAIN Jobs("slow", S) : Jobs("slow", S)[i] = Job("slow", p, None)
    BY <2>3, JobsOfSet
  <2>5. i \in DOMAIN todo' /\ todo'[i] = Job("slow", p, None)
    BY <1>0, <1>2, <2>2, <2>4, DoneJobs
  <2> QED
    BY <2>5 DEF SlowNext, Job
<1>5. CASE q = p /\ self[p].effect["speed"] # 1
  <2>1. self'[p].effect = [e \in Effect |-> MaxOf(0, self[p].effect[e] - 1)]
    BY <1>0, <1>2, <1>5 DEF Self
  <2>2. self'[p].effect["speed"] = MaxOf(0, self[p].effect["speed"] - 1)
    BY <1>0, <2>1
  <2> QED
    BY <1>0, <1>5, <2>2 DEF MaxOf
<1> QED
  BY <1>3, <1>4, <1>5

\* Who registers speed has it.
LEMMA AddSpeedAdds ==
  ASSUME LivesAssumption, Types, NEW p \in Player, AddSpeed(p)
  PROVE  self'[p].effect["speed"] > 0 /\ OtherSelves(p)
  BY DEF AddSpeed, LivesAssumption, Types, PeopleTypes, Self, OtherSelves, Effect

\* Milk leaves those it slows unslowed.
LEMMA MilkNotes ==
  ASSUME Types, NEW p \in Player, DrinkMilk(p)
  PROVE  /\ shown[p].fast => p \in past'.milked
         /\ OtherSelves(p) /\ UNCHANGED shown
  BY DEF DrinkMilk, Types, PeopleTypes, Proper, PastFields, OtherSelves

\* Speed lasts, unless milk takes it away or it wanes.
LEMMA SpeedLasts ==
  ASSUME LivesAssumption, Types, DeadOrAlive, OldHands, [Next]_vars, NEW p \in Player,
         self'[p].at = "play", shown[p].fast, shown'[p].fast, self[p].effect["speed"] > 0
  PROVE  Earned(p)
<1>0. self \in [Player -> Self]
  BY DEF Types, PeopleTypes
<1>1. CASE Affecting
  <2>1. PICK q \in Player : ApplyLasting(q) \/ AddSpeed(q)
    BY <1>1 DEF Affecting
  <2>2. CASE AddSpeed(q)
    BY <2>2, AddSpeedAdds DEF OtherSelves, Earned
  <2>3. CASE ApplyLasting(q)
    <3>1. Hastening(q) \/ Lasting(q)
      BY <2>3, ApplyLastingIs
    <3>2. CASE Hastening(q)
      BY <3>2 DEF Hastening, Earned
    <3>3. CASE Lasting(q)
      BY <1>0, <3>3 DEF Lasting, Self, Earned
    <3> QED
      BY <3>1, <3>2, <3>3
  <2> QED
    BY <2>1, <2>2, <2>3
<1>2. CASE Milking
  <2>1. PICK q \in Player : DrinkMilk(q)
    BY <1>2 DEF Milking
  <2> QED
    BY <2>1, MilkNotes DEF OtherSelves, Earned
<1>3. CASE Wane
  BY <1>3, WaneSlows DEF Earned
<1>4. CASE Clearing
  <2>1. PICK q \in Player : Clear(q)
    BY <1>4 DEF Clearing
  <2>2. q # p /\ self'[p] = self[p]
    BY <1>0, <2>1 DEF Clear, Self
  <2> QED
    BY <2>2 DEF Earned
<1>5. CASE Loading
  <2>1. PICK q \in Player : Load(q)
    BY <1>5 DEF Loading
  <2>2. q # p
    BY <2>1, LoadDoes
  <2> QED
    BY <2>1, <2>2, LoadDoes DEF OtherSelves, Earned
<1>6. ~Restart
  BY RestartRides
<1> QED
  BY <1>1, <1>2, <1>3, <1>4, <1>5, <1>6, WhatBecomesOfPlayers DEF SelfGoes, Same, Earned

\* Every step keeps it that who walks fast has the effect, or is noted.
LEMMA SpeedIsEarnedStep ==
  ASSUME LivesAssumption, Types, DeadOrAlive, OldHands, LoversTame, SlowAtFirst, SpeedIsEarned,
         [Next]_vars
  PROVE  SpeedIsEarned'
<1>0. Still.at = "idle"
  BY StepParts
<1>1. ASSUME NEW p \in Player, shown'[p].fast, self'[p].at = "play" PROVE Earned(p)
  <2>1. CASE Hastening(p)
    BY <2>1 DEF Hastening, Earned, Types, PeopleTypes, Thread
  <2>2. CASE shown[p].fast /\ (p \in past.milked => p \in past'.milked)
    <3>1. self[p].at = "play"
      BY <1>1, <2>2, WasThere, LoadDoes DEF SlowAtFirst
    <3>2. CASE self[p].effect["speed"] > 0
      BY <1>1, <2>2, <3>2, SpeedLasts
    <3>3. CASE p \in past.milked
      BY <2>2, <3>3 DEF Earned
    <3>4. CASE step[p].at = "hastening"
      <4>1. ~Restart
        BY <1>1, RestartRides
      <4>2. Kept(p) \/ Begins(p) \/ Ends(p)
        BY <4>1, WhatThreadsDo DEF StepsGo, Thread
      <4>3. CASE Ends(p)
        BY <3>4, <4>3, AddSpeedAdds DEF Ends, Earned
      <4> QED
        BY <3>4, <4>2, <4>3 DEF Kept, Begins, Earned
    <3>5. CASE \E i \in DOMAIN todo : todo[i].do = "slow" /\ todo[i].on = p
      <4>1. ~Restart
        BY <1>1, RestartRides
      <4> QED
        BY <1>1, <3>5, <4>1, SlowStays, SlowSlows DEF Earned
    <3> QED
      BY <2>2, <3>1, <3>2, <3>3, <3>4, <3>5 DEF SpeedIsEarned
  <2> QED
    BY <1>1, <2>1, <2>2, FastWas
<1> QED
  BY <1>1, Zenon DEF SpeedIsEarned, Earned, SlowNext

\* Who will be told is shown the truth, or will be.
LEMMA HudFollows ==
  ASSUME SomeoneTells
  PROVE  HudIsTrue
  BY DEF SomeoneTells, HudIsTrue, WillTell, Telling

(***************************************************************************)
(* Where it starts, and what every step keeps.                             *)
(***************************************************************************)

\* A player who is new.
LEMMA FreshIs ==
  ASSUME LivesAssumption
  PROVE  /\ Fresh \in Self /\ Fresh.at = "new" /\ Fresh.riding = None /\ Fresh.dead = FALSE
         /\ Fresh.health = MaxHealth /\ MaxHealth > 0
<1>1. /\ MaxHealth \in Nat /\ MaxHealth > 0 /\ MaxFood \in Nat /\ MaxSat \in Nat
  BY DEF LivesAssumption
<1>2. Calm \in [Effect -> Nat]
  BY DEF Calm
<1>3. None \in Boat \cup {None} /\ None \in Snapshot \cup {None}
  OBVIOUS
<1> HIDE DEF Calm
<1>4. Fresh \in Self
  BY <1>1, <1>2, <1>3 DEF Fresh, Self
<1>5. /\ Fresh.at = "new" /\ Fresh.riding = None /\ Fresh.dead = FALSE /\ Fresh.health = MaxHealth
  BY DEF Fresh
<1> QED
  BY <1>1, <1>4, <1>5

\* One who is there from the start.
There(S) == [Fresh EXCEPT !.at = "play", !.pack = S]
\* A player who is there from the first.
LEMMA ThereIs ==
  ASSUME LivesAssumption, NEW S \in SUBSET Thing
  PROVE  /\ There(S) \in Self /\ There(S).at = "play" /\ There(S).riding = None /\ There(S).dead = FALSE
         /\ There(S).health = Fresh.health /\ There(S).food = Fresh.food
<1>1. Fresh \in Self /\ Fresh.riding = None /\ Fresh.dead = FALSE
  BY FreshIs, Zenon
<1> HIDE DEF Fresh
<1> QED
  BY <1>1 DEF There, Self

\* Where everything else is at the start.
LEMMA InitParts ==
  ASSUME Init
  PROVE  /\ records = {} /\ rider = [v \in Boat |-> None]
         /\ sky = [time |-> Morning, raining |-> FALSE]
         /\ disk = [f \in File |-> None] /\ step = [u \in Thread |-> Still]
         /\ todo = <<>> /\ tick = NoTick /\ saver = Resting
         /\ shown = [p \in Player |-> [vitals |-> Vitals(Fresh), fast |-> FALSE, rain |-> FALSE]]
         /\ known = {b \in Body : mob[b].kind = "villager"}
  BY Zenon DEF Init

\* What there is at first.
LEMMA InitScene ==
  ASSUME Init
  PROVE  \E scene \in Scenes :
           /\ self = [p \in Player |-> IF p \in scene.here
                                       THEN [Fresh EXCEPT !.at = "play", !.pack = scene.pack[p]] ELSE Fresh]
           /\ table = scene.here
           /\ mob = [b \in Body |-> IF b \in DOMAIN scene.mobs THEN scene.mobs[b] ELSE Unborn]
           /\ ground = scene.ground /\ chest = scene.chest
  BY Zenon DEF Init

\* At first the history has all its fields,
LEMMA InitHistory ==
  ASSUME Init
  PROVE  Proper(past)
<1>1. PICK l : past = [crossed |-> {}, milked |-> {}, undead |-> {}, overfed |-> {}, misled |-> {}, ghosts |-> {},
                       leaked |-> {}, ousted |-> {}, strayed |-> {}, twice |-> {}, stirred |-> {}, safe |-> {},
                       home |-> <<>>, cut |-> {}, lost |-> l, clock |-> Morning, missed |-> FALSE]
  BY Zenon DEF Init
<1> QED
  BY <1>1 DEF Proper, PastFields

\* A player at the start.
LEMMA InitPlayers ==
  ASSUME LivesAssumption, Init
  PROVE  /\ self \in [Player -> Self] /\ table \subseteq Player
         /\ \A p \in Player : /\ self[p].at \in {"new", "play"} /\ self[p].riding = None /\ ~self[p].dead
                              /\ self[p].health > 0 /\ Vitals(self[p]) = Vitals(Fresh)
         /\ \A p \in table : self[p].at = "play"
<1>1. PICK scene \in Scenes :
        /\ self = [p \in Player |-> IF p \in scene.here
                                    THEN [Fresh EXCEPT !.at = "play", !.pack = scene.pack[p]] ELSE Fresh]
        /\ table = scene.here
  BY InitScene, Zenon
<1>2. scene.here \subseteq Player /\ scene.pack \in [Player -> SUBSET Thing]
  BY <1>1, ScenesAssumption, Zenon
<1>3. ASSUME NEW p \in Player
      PROVE  /\ self[p] \in Self /\ self[p].at \in {"new", "play"} /\ self[p].riding = None /\ ~self[p].dead
             /\ self[p].health = Fresh.health /\ self[p].food = Fresh.food /\ self[p].health > 0
             /\ p \in table => self[p].at = "play"
  <2>1. /\ Fresh \in Self /\ Fresh.at = "new" /\ Fresh.riding = None /\ Fresh.dead = FALSE
        /\ Fresh.health > 0
    <3>1. Fresh.health = MaxHealth /\ MaxHealth > 0
      BY FreshIs, Zenon
    <3> QED
      BY <3>1, FreshIs, Zenon
  <2>2. CASE p \in scene.here
    <3>1. scene.pack[p] \in SUBSET Thing
      BY <1>2
    <3>2. PICK S \in SUBSET Thing : self[p] = There(S)
      BY <1>1, <2>2, <3>1, Zenon DEF There
    <3>3. /\ There(S) \in Self /\ There(S).at = "play" /\ There(S).riding = None /\ There(S).dead = FALSE
          /\ There(S).health = Fresh.health /\ There(S).food = Fresh.food
      BY ThereIs, Zenon
    <3> QED
      BY <2>1, <3>2, <3>3
  <2>3. CASE p \notin scene.here
    <3>1. self[p] = Fresh
      BY <1>1, <2>3, Zenon
    <3>2. p \notin table
      BY <1>1, <2>3, Zenon
    <3> QED
      BY <2>1, <3>1, <3>2
  <2> QED
    BY <2>2, <2>3
<1>4. self \in [Player -> Self]
  <2>1. self = [p \in Player |-> self[p]]
    BY <1>1, Zenon
  <2> QED
    BY <1>3, <2>1
<1>5. \A p \in Player : Vitals(self[p]) = Vitals(Fresh)
  BY <1>3 DEF Vitals
<1>6. table \subseteq Player
  BY <1>1, <1>2, Zenon
<1> QED
  BY <1>3, <1>4, <1>5, <1>6

\* A mob at the start.
LEMMA InitMobs ==
  ASSUME LivesAssumption, Init
  PROVE  /\ mob \in [Body -> Creature]
         /\ \A b \in Body : mob[b].at \in {"unborn", "here"} /\ mob[b].dying = None /\ ~mob[b].baby /\ mob[b].love = 0
         /\ \A b \in Body : mob[b].at = "unborn" => mob[b].kind = None
<1>1. PICK scene \in Scenes : mob = [b \in Body |-> IF b \in DOMAIN scene.mobs THEN scene.mobs[b] ELSE Unborn]
  BY InitScene, Zenon
<1>2. ASSUME NEW b \in Body
      PROVE  /\ mob[b] \in Creature
             /\ mob[b].at \in {"unborn", "here"} /\ mob[b].dying = None /\ mob[b].baby = FALSE /\ mob[b].love = 0
             /\ mob[b].at = "unborn" => mob[b].kind = None
  <2>1. CASE b \in DOMAIN scene.mobs
    <3>1. PICK k \in Kind, loot \in Thing \cup {None} : scene.mobs[b] = Born(k, loot)
      BY <2>1, ScenesAssumption, Zenon
    <3>2. mob[b] = Born(k, loot)
      BY <1>1, <2>1, <3>1, Zenon
    <3>3. Born(k, loot) \in Creature
      BY BornTyped, Zenon
    <3>4. /\ Born(k, loot).at = "here" /\ Born(k, loot).love = 0
          /\ Born(k, loot).dying = None /\ Born(k, loot).baby = FALSE
      BY BornFields, Zenon
    <3> QED
      BY <3>2, <3>3, <3>4
  <2>2. CASE b \notin DOMAIN scene.mobs
    <3>1. mob[b] = Unborn
      BY <1>1, <2>2, Zenon
    <3> QED
      BY <3>1, NobodyTyped DEF Unborn
  <2> QED
    BY <2>1, <2>2
<1>3. mob = [b \in Body |-> mob[b]]
  BY <1>1, Zenon
<1> QED
  BY <1>2, <1>3

\* everything has its type,
LEMMA InitTypes ==
  ASSUME LivesAssumption, Init
  PROVE  Types
<1>1. Still \in Step
  BY StepParts
<1>2. PeopleTypes
  <2>1. shown \in [Player -> Shown]
    <3>1. Vitals(Fresh) \in Nat \X Nat
      <4>1. Fresh \in Self
        BY FreshIs, Zenon
      <4> QED
        BY <4>1 DEF Vitals, Self
    <3>2. [vitals |-> Vitals(Fresh), fast |-> FALSE, rain |-> FALSE] \in Shown
      BY <3>1 DEF Shown
    <3> QED
      BY <3>2, InitParts
  <2>2. step \in [Thread -> Step] /\ records \subseteq Player
    BY <1>1, InitParts
  <2> QED
    BY <2>1, <2>2, InitHistory, InitPlayers DEF PeopleTypes
<1>3. BeastTypes
  BY InitMobs, InitParts DEF BeastTypes
<1>4. LoopTypes
  <2>1. todo = <<>> /\ tick = NoTick /\ sky = [time |-> Morning, raining |-> FALSE]
    BY InitParts
  <2>2. Morning \in Nat
    BY Clock0
  <2> QED
    BY <2>1, <2>2 DEF LoopTypes, NoTick, Tick
<1>5. FileTypes
  <2>1. /\ disk = [f \in File |-> None] /\ saver = Resting
    BY InitParts
  <2>2. ground \cup chest \subseteq Thing
    BY InitScene, ScenesAssumption, Zenon
  <2>3. \A p \in Player : self[p].at # "saving"
    BY InitPlayers
  <2> QED
    BY <2>1, <2>2, <2>3 DEF FileTypes, Resting
<1> QED
  BY <1>2, <1>3, <1>4, <1>5 DEF Types

\* nobody is in the middle of anything,
LEMMA InitWhereabouts ==
  ASSUME LivesAssumption, Init
  PROVE  Whereabouts /\ Boarding
<1>1. /\ \A u \in Thread : step[u].at = "idle"
      /\ todo = <<>> /\ tick.crowd = {}
  BY StepParts, InitParts DEF NoTick
<1>2. \A p \in Player : self[p].riding = None
  BY InitPlayers
<1>3. \A p \in table : Known(p)
  BY InitPlayers DEF Known
<1> QED
  BY <1>1, <1>2, <1>3 DEF Whereabouts, BusyPlays, NotYetRiding, OldHands, Droppers, Boarding, Thread

\* no mob is in love, noted or about to be registered,
LEMMA InitVillages ==
  ASSUME LivesAssumption, Init
  PROVE  Villages
<1>1. /\ \A u \in Thread : step[u].at = "idle"
      /\ todo = <<>> /\ tick.remove = {} /\ tick.lovers = {}
      /\ saver.at = "idle" /\ saver.file = None /\ disk["entities"] = None
  BY StepParts, InitParts DEF NoTick, Resting, File
<1>2. \A b \in Body : mob[b].love = 0
  BY InitMobs
<1> QED
  BY <1>1, <1>2
  DEF Villages, NamingVillagers, LoversTame, JobsInOrder, MobsToCome, RemoveNoted, OneSavedEach, ToCome

\* the tables agree,
LEMMA InitTables ==
  ASSUME LivesAssumption, Init
  PROVE  DeadOrAlive /\ TablesAgree
<1>1. DeadOrAlive
  <2>1. \A p \in Player : ~self[p].dead /\ self[p].health > 0 /\ self[p].health \in Nat
    BY InitPlayers DEF Self
  <2>2. \A b \in Body : mob[b].dying = None /\ ~mob[b].baby
    BY InitMobs
  <2> QED
    BY <2>1, <2>2 DEF DeadOrAlive, Here
<1>2. RidersAgree
  <2>1. \A p \in Player : self[p].riding = None /\ p # None
    BY InitPlayers DEF LivesAssumption
  <2>2. \A v \in Boat : rider[v] = None /\ v # None
    BY InitParts DEF LivesAssumption
  <2> QED
    BY <2>1, <2>2 DEF RidersAgree
<1>3. VillagersKnown
  <2>1. known = {b \in Body : mob[b].kind = "villager"}
    BY InitParts
  <2>2. \A b \in Body : mob[b].kind = "villager" => mob[b].at = "here"
    <3>1. ASSUME NEW b \in Body, mob[b].kind = "villager", mob[b].at # "here" PROVE FALSE
      <4>1. mob[b].kind = None
        BY <3>1, InitMobs
      <4> QED
        BY <3>1, <4>1 DEF LivesAssumption
    <3> QED
      BY <3>1
  <2> QED
    BY <2>1, <2>2 DEF VillagersKnown, Here
<1>4. NobodysRecords
  BY InitParts DEF NobodysRecords
<1> QED
  BY <1>1, <1>2, <1>3, <1>4 DEF TablesAgree

\* and clients show what is so.
LEMMA InitShows ==
  ASSUME LivesAssumption, Init
  PROVE  Shows /\ ShownIsTrue
<1>1. /\ \A u \in Thread : step[u].at = "idle"
      /\ todo = <<>> /\ sky.raining = FALSE
  BY StepParts, InitParts
<1>2. \A p \in Player : /\ shown[p].vitals = Vitals(Fresh) /\ shown[p].fast = FALSE
                        /\ shown[p].rain = FALSE
  BY InitParts
<1>3. \A p \in Player : Vitals(self[p]) = Vitals(Fresh)
  BY InitPlayers
<1>4. table \subseteq Player
  BY InitPlayers
<1>5. TellsTheTruth /\ SomeoneTells /\ SlowAtFirst
  BY <1>1, <1>2, <1>3 DEF TellsTheTruth, Telling, SomeoneTells, SlowAtFirst
<1>6. WeatherToTell
  <2>1. DOMAIN todo = {}
    BY <1>1
  <2> QED
    BY <1>1, <1>2, <2>1 DEF WeatherToTell, LivesAssumption
<1>7. HudIsTrue
  BY <1>5, HudFollows
<1>8. SpeedIsEarned
  BY <1>2 DEF SpeedIsEarned
<1>9. WeatherIsShown
  BY <1>1, <1>2, <1>4 DEF WeatherIsShown
<1> QED
  BY <1>5, <1>6, <1>7, <1>8, <1>9 DEF Shows, ShownIsTrue

\* The invariant holds at first ...
LEMMA LivesInit ==
  ASSUME LivesAssumption, Init
  PROVE  LivesInv
  BY InitTypes, InitWhereabouts, InitVillages, InitTables, InitShows DEF LivesInv

\* ... and every step keeps it.
LEMMA LivesStep ==
  ASSUME LivesAssumption, LivesInv, [Next]_vars
  PROVE  LivesInv'
<1>1. /\ Types /\ Whereabouts /\ DeadOrAlive /\ Boarding /\ Villages /\ TablesAgree
      /\ Shows /\ ShownIsTrue
  BY DEF LivesInv
<1>2. /\ BusyPlays /\ NotYetRiding /\ OldHands /\ Droppers
      /\ NamingVillagers /\ LoversTame /\ JobsInOrder /\ MobsToCome /\ RemoveNoted /\ OneSavedEach
      /\ RidersAgree /\ VillagersKnown /\ NobodysRecords
      /\ TellsTheTruth /\ SomeoneTells /\ SlowAtFirst /\ WeatherToTell
      /\ SpeedIsEarned /\ WeatherIsShown
  BY <1>1 DEF Whereabouts, Villages, TablesAgree, Shows, ShownIsTrue
<1>3. BeastsSound
  BY <1>1, <1>2, BeastsAreSound
<1>4. Types'
  BY <1>1, <1>2, TypesStep
<1>5. Whereabouts'
  BY <1>1, <1>2, WhereaboutsStep
<1>6. DeadOrAlive'
  BY <1>1, <1>2, DeadOrAliveStep
<1>7. Boarding'
  BY <1>1, <1>2, BoardingStep
<1>8. Villages'
  <2>1. NamingVillagers'
    BY <1>1, <1>2, NamingVillagersStep
  <2>2. LoversTame'
    BY <1>1, <1>2, <1>3, LoversStep
  <2>3. JobsInOrder'
    BY <1>1, <1>2, OrderStep
  <2>4. MobsToCome'
    BY <1>1, <1>2, MobsToComeStep
  <2>5. RemoveNoted'
    BY <1>1, <1>2, RemoveNotedStep
  <2>6. OneSavedEach'
    BY <1>1, <1>2, OneSavedEachStep
  <2> QED
    BY <2>1, <2>2, <2>3, <2>4, <2>5, <2>6 DEF Villages
<1>9. TablesAgree'
  <2>1. RidersAgree'
    BY <1>1, <1>2, RidersAgreeStep
  <2>2. VillagersKnown'
    BY <1>1, <1>2, VillagersKnownStep
  <2>3. NobodysRecords'
    BY <1>1, <1>2, NobodysRecordsStep
  <2> QED
    BY <2>1, <2>2, <2>3 DEF TablesAgree
<1>10. Shows' /\ ShownIsTrue'
  <2>1. TellsTheTruth' /\ SomeoneTells'
    BY <1>1, <1>2, TellsTheTruthStep, SomeoneTellsStep
  <2>2. SlowAtFirst'
    BY <1>1, <1>2, SlowAtFirstStep
  <2>3. WeatherToTell' /\ WeatherIsShown'
    BY <1>1, <1>2, WeatherStep
  <2>4. SpeedIsEarned'
    BY <1>1, <1>2, SpeedIsEarnedStep
  <2>5. HudIsTrue'
    BY <2>1 DEF SomeoneTells, HudIsTrue, WillTell, Telling
  <2> QED
    BY <2>1, <2>2, <2>3, <2>4, <2>5 DEF Shows, ShownIsTrue
<1> QED
  BY <1>4, <1>5, <1>6, <1>7, <1>8, <1>9, <1>10 DEF LivesInv

\* So it holds always, for any players, mobs, vehicles, things and scenes.  (All of the
\* threads that change players and mobs, and the saver: combat.rs, mobs.rs, effects.rs,
\* player.rs, persistence.rs, connection.rs)
THEOREM LivesInvariant == Spec => []LivesInv
<1>1. Init => LivesInv
  BY LivesInit, LivesAssumption
<1>2. LivesInv /\ [Next]_vars => LivesInv'
  BY LivesStep, LivesAssumption
<1> QED
  BY <1>1, <1>2, PTL DEF Spec

(***************************************************************************)
(* The theorems.                                                           *)
(***************************************************************************)

(* Who has no health is dead and who is dead has none, but for one who came back from
   a file saved while dead; a mob in its death throes stays without health and has
   dropped its loot; and a baby grows up, unless it was fed out of its time.  However
   the blows, cures and ticks of the threads fall between each other's locks.
   (damage_player, heal, revive, apply_data, mobs::tick, interact_entity) *)
THEOREM TheDeadAreDead == Spec => []DeadOrAlive
<1>1. LivesInv => DeadOrAlive
  BY DEF LivesInv
<1> QED
  BY <1>1, LivesInvariant, PTL

(* A vehicle and who rides it agree, every villager is registered and nothing else is,
   and nobody who left has statistics, but for the races history notes. (interact_entity,
   SteerVehicle, summon, try_spawn, mobs::tick, clear_stats, stat_mob_killed) *)
THEOREM RegistersAgree == Spec => []TablesAgree
<1>1. LivesInv => TablesAgree
  BY DEF LivesInv
<1> QED
  BY <1>1, LivesInvariant, PTL

(* What a client is shown of its health, its speed and the weather is so, once what is
   on its way to it is said, but for the races history notes. (combat.rs, effects::apply
   and tick, try_drink, play, game_loop) *)
THEOREM ClientsAreToldTheTruth == Spec => []ShownIsTrue
<1>1. LivesInv => ShownIsTrue
  BY DEF LivesInv
<1> QED
  BY <1>1, LivesInvariant, PTL

\* Nobody's pack is touched.
LEMMA NoPack ==
  ASSUME NEW t, UNCHANGED <<self, disk, saver>>
  PROVE  /\ \A v \in User : Packed(t, v)' <=> Packed(t, v)
         /\ \A q \in Player : t \in self'[q].pack <=> t \in self[q].pack
<1>1. \A q \in Player : Holds(q)' <=> Holds(q)
  BY DEF Holds
<1> QED
  BY <1>1, SamePacks

\* What has a mob in it, when no other spot is touched.
LEMMA OnlyMobs ==
  ASSUME LivesAssumption, Types, NEW t \in Thing, Fares(t), Grows, Local,
         UNCHANGED <<self, step, ground, chest>>, Due(t)' <=> Due(t),
         ~Given(t)' => \A b \in Body : Has(b, t)' <=> Has(b, t)
  PROVE  Fares(t)'
<1>1. /\ \A v \in User : Packed(t, v)' <=> Packed(t, v)
      /\ \A q \in Player : t \in self'[q].pack <=> t \in self[q].pack
  BY NoPack DEF Local
<1> QED
  BY <1>1, UntouchedFares DEF Fixed

\* A tick of the mobs begins with no gift.
LEMMA MobsTickDue ==
  ASSUME LivesAssumption, Types, MobsTick, NEW t
  PROVE  Due(t)' <=> Due(t)
<1>1. CASE UNCHANGED todo
  BY <1>1 DEF Due
<1>2. CASE todo = <<>> /\ todo' = Append(Jobs("mob", Here), Job("pair", None, None))
  <2>1. IsFiniteSet(Here)
    BY FS_Subset DEF LivesAssumption, Here
  <2>2. Jobs("mob", Here) \in Seq({Job("mob", x, None) : x \in Here})
    BY <2>1, JobsOfSet
  <2>3. \A i \in DOMAIN Jobs("mob", Here) : Jobs("mob", Here)[i].do = "mob"
    BY <2>2 DEF Job
  <2>4. Job("pair", None, None).do = "pair"
    BY DEF Job
  <2> DEFINE J == Jobs("mob", Here)
  <2> HIDE DEF J
  <2>5. \A i \in DOMAIN todo' : todo'[i].do # "give"
    BY <1>2, <2>2, <2>3, <2>4 DEF J
  <2> QED
    BY <1>2, <2>5 DEF Due
<1> QED
  BY <1>1, <1>2 DEF MobsTick, LoopFree, course

\* With nobody online the mobs are swept away, with what they have.
LEMMA MobsTickFares ==
  ASSUME LivesAssumption, Types, NEW t \in Thing, Fares(t), Grows, Local, MobsTick
  PROVE  Fares(t)'
<1>1. UNCHANGED <<self, step, ground, chest>> /\ (Due(t)' <=> Due(t))
  BY MobsTickDue DEF MobsTick, people, stores
<1>2. ASSUME ~Given(t)', NEW b \in Body PROVE Has(b, t)' <=> Has(b, t)
  <2>1. CASE UNCHANGED mob
    BY <2>1 DEF Has
  <2>2. CASE /\ mob' = [c \in Body |-> IF c \in Here THEN Gone ELSE mob[c]]
             /\ past' = [Written(past, {mob[c].loot : c \in Here} \ {None}) EXCEPT
                           !.ghosts = @ \cup (known \cap Here)]
    <3>1. {mob[c].loot : c \in Here} \ {None} \subseteq past'.lost
      <4> DEFINE S == {mob[c].loot : c \in Here} \ {None}
      <4>1. Proper(Written(past, S)) /\ Written(past, S).lost = past.lost \cup S
        BY WrittenKeeps, WrittenFates DEF Types, PeopleTypes
      <4> HIDE DEF S
      <4>2. past' = [Written(past, S) EXCEPT !.ghosts = @ \cup (known \cap Here)]
        BY <2>2 DEF S
      <4>3. past'.lost = Written(past, S).lost
        BY <4>1, <4>2 DEF Proper, PastFields
      <4> QED
        BY <4>1, <4>3 DEF S
    <3>2. ~Has(b, t)
      BY <1>2, <3>1 DEF Has, Given, Here, LivesAssumption
    <3>3. mob'[b].at # "here"
      BY <2>2 DEF Here, Gone, Unborn
    <3> QED
      BY <3>2, <3>3 DEF Has
  <2> QED
    BY <2>1, <2>2 DEF MobsTick
<1> QED
  BY <1>1, <1>2, OnlyMobs

\* Those that pair lose nothing; those that go, what they have.
LEMMA PairFares ==
  ASSUME LivesAssumption, Types, Whereabouts, LoversTame, GivenOnce,
         NEW t \in Thing, Fares(t), Grows, Local, Pair
  PROVE  Fares(t)'
<1>1. UNCHANGED <<self, step, ground, chest>>
  BY Zenon DEF Pair, people, stores
<1>2. Due(t)' <=> Due(t)
  <2>1. PICK more \in Seq(AJob) : New(more) /\ Done(more)
    BY PairGoesOn DEF GoingOn
  <2>2. todo # <<>> /\ Head(todo).do = "pair" /\ todo \in Seq(AJob)
    BY DEF Pair, Do, Types, LoopTypes
  <2>3. Due(t)' <=> \E k \in DOMAIN todo : k > 1 /\ todo[k].do = "give" /\ todo[k].arg = t
    BY <2>1, <2>2, DoneDue
  <2>4. Head(todo) = todo[1] /\ DOMAIN todo = 1..Len(todo)
    BY <2>2, FirstJob
  <2>5. \A k \in DOMAIN todo : todo[k].do = "give" => k > 1
    BY <2>2, <2>4
  <2> QED
    BY <2>3, <2>5 DEF Due
<1>3. past' = Written(past, {mob[b].loot : b \in tick.remove} \ {None})
  BY Zenon DEF Pair
<1>4. {mob[b].loot : b \in tick.remove} \ {None} \subseteq past'.lost
  BY <1>3, WrittenFates DEF Types, PeopleTypes
<1>5. \E S : mob' = [b \in Body |-> IF b \in tick.remove THEN Gone
                                    ELSE IF b \in S THEN [mob[b] EXCEPT !.love = 0, !.rest = BreedRest]
                                    ELSE mob[b]]
  BY Zenon DEF Pair
<1>6. ASSUME ~Given(t)', NEW b \in Body PROVE Has(b, t)' <=> Has(b, t)
  <2>1. CASE b \in tick.remove
    <3>1. mob'[b].at # "here"
      BY <1>5, <2>1 DEF Gone, Unborn
    <3>2. ~Has(b, t)
      BY <1>4, <1>6, <2>1 DEF Has, Given, LivesAssumption
    <3> QED
      BY <3>1, <3>2 DEF Has
  <2>2. CASE b \notin tick.remove
    <3>1. mob[b] \in Creature
      BY DEF Types, BeastTypes
    <3>2. mob'[b] \in {mob[b], [mob[b] EXCEPT !.love = 0, !.rest = BreedRest]}
      BY <1>5, <2>2
    <3>3. mob'[b].at = mob[b].at /\ mob'[b].loot = mob[b].loot
      BY <3>1, <3>2 DEF Creature, Mob
    <3> QED
      BY <3>3 DEF Has
  <2> QED
    BY <2>1, <2>2
<1> QED
  BY <1>1, <1>2, <1>6, OnlyMobs

\* What lies too long is lost.
LEMMA RotFares ==
  ASSUME LivesAssumption, Types, NEW t \in Thing, Fares(t), Grows, Local, Rot
  PROVE  Fares(t)'
<1>1. PICK x \in ground : ground' = ground \ {x} /\ past' = Written(past, {x})
  BY DEF Rot
<1>2. UNCHANGED <<self, step, mob, chest, todo, disk, saver>>
  BY DEF Rot, people, beasts, course
<1>3. x \in past'.lost
  BY <1>1, WrittenFates DEF Types, PeopleTypes
<1>4. /\ \A v \in User : Packed(t, v)' <=> Packed(t, v)
      /\ \A q \in Player : t \in self'[q].pack <=> t \in self[q].pack
  BY <1>2, NoPack
<1>5. /\ \A b \in Body : Has(b, t)' <=> Has(b, t)
      /\ Due(t)' <=> Due(t)
  BY <1>2 DEF Has, Due
<1>6. ~Given(t)' => (t \in ground' <=> t \in ground)
  BY <1>1, <1>3 DEF Given
<1> QED
  BY <1>2, <1>4, <1>5, <1>6, UntouchedFares DEF Fixed

\* Loot falls.
LEMMA MobDiesFares ==
  ASSUME LivesAssumption, Types, MobsToCome, GivenOnce, NEW t \in Thing, Fares(t), Grows, Local, MobDies
  PROVE  Fares(t)'
<1>0. Do("mob") /\ Done(<<>>) /\ todo \in Seq(AJob) /\ todo # <<>> /\ Head(todo).do = "mob"
  BY DEF MobDies, Do, Types, LoopTypes
<1>1. Head(todo) \in AJob /\ Head(todo) = todo[1] /\ 1 \in DOMAIN todo /\ DOMAIN todo = 1..Len(todo)
  BY <1>0, FirstJob
<1>2. Head(todo).on \in Body /\ mob[Head(todo).on].at = "here"
  BY <1>0, <1>1, JobFields DEF MobsToCome
<1>3. PICK c \in Body : c = Head(todo).on
  BY <1>2
<1> DEFINE loot == {mob[c].loot} \ {None}
<1>4. /\ \E n : mob' = [mob EXCEPT ![c] = n] /\ n.at = mob[c].at /\ n.loot = None
      /\ ground' = ground \cup loot
      /\ UNCHANGED <<self, step, chest, disk, saver>>
  <2>1. mob[c] \in Mob /\ mob \in [Body -> Creature]
    BY DEF Types, BeastTypes, Creature
  <2>2. mob' = [mob EXCEPT ![c].dying = DyingTicks, ![c].loot = None]
    BY <1>3, Zenon DEF MobDies
  <2>3. mob' = [mob EXCEPT ![c] = [mob[c] EXCEPT !.dying = DyingTicks, !.loot = None]]
    BY <2>1, <2>2
  <2>4. [mob[c] EXCEPT !.dying = DyingTicks, !.loot = None].at = mob[c].at
    BY <2>1 DEF Mob
  <2>5. [mob[c] EXCEPT !.dying = DyingTicks, !.loot = None].loot = None
    BY <2>1 DEF Mob
  <2>6. UNCHANGED <<self, step, chest, disk, saver>> /\ ground' = ground \cup loot
    BY <1>3, Zenon DEF MobDies, drop_loot
  <2> QED
    BY <2>3, <2>4, <2>5, <2>6
<1>5. loot \subseteq past'.stirred
  BY <1>3, MobDiesFates
<1>6. mob'[c].at = "here" /\ mob'[c].loot = None /\ \A b \in Body \ {c} : mob'[b] = mob[b]
  BY <1>2, <1>3, <1>4 DEF Types, BeastTypes
<1>7. /\ \A v \in User : Packed(t, v)' <=> Packed(t, v)
      /\ \A q \in Player : t \in self'[q].pack <=> t \in self[q].pack
  BY <1>4, NoPack
<1>8. Due(t)' <=> Due(t)
  <2>1. Due(t)' <=> \E k \in DOMAIN todo : k > 1 /\ todo[k].do = "give" /\ todo[k].arg = t
    BY <1>0, NoNewJob, DoneDue
  <2>2. \A k \in DOMAIN todo : todo[k].do = "give" => k > 1
    BY <1>0, <1>1
  <2> QED
    BY <2>1, <2>2 DEF Due
<1>9. \A w \in Thread : t \in step'[w].bag <=> t \in step[w].bag
  BY <1>4
<1>10. t # None
  BY DEF LivesAssumption
<1>11. CASE mob[c].loot = t
  <2>1. Has(c, t) /\ ~Has(c, t)' /\ \A b \in Body \ {c} : Has(b, t)' <=> Has(b, t)
    BY <1>2, <1>3, <1>6, <1>10, <1>11 DEF Has
  <2>2. t \in loot
    BY <1>10, <1>11
  <2>3. Shifts(t, "mob", c, "ground", None)
    BY <1>4, <1>7, <1>8, <1>9, <2>1, <2>2 DEF Shifts, Spot
  <2>4. At(t, "mob", c) /\ \A q \in Player : PackFits(q, t)
    BY <1>7, <2>1 DEF At, PackFits
  <2> QED
    BY <1>5, <2>2, <2>3, <2>4, HandOver
<1>12. CASE mob[c].loot # t
  <2>1. \A b \in Body : Has(b, t)' <=> Has(b, t)
    BY <1>6, <1>10, <1>12 DEF Has
  <2>2. (t \in ground' <=> t \in ground) /\ (t \in chest' <=> t \in chest)
    BY <1>4, <1>12
  <2> QED
    BY <1>7, <1>8, <1>9, <2>1, <2>2, UntouchedFares DEF Fixed
<1> QED
  BY <1>11, <1>12

\* What is picked up is due.
LEMMA ItemsTickFares ==
  ASSUME LivesAssumption, Types, NEW t \in Thing, Fares(t), Grows, Local, ItemsTick
  PROVE  Fares(t)'
<1>1. PICK S \in SUBSET ground : /\ ground' = ground \ S /\ past' = Moved(past, S)
                                 /\ \A x : Due(x)' <=> x \in S
  BY ItemsTickTakes
<1>2. UNCHANGED <<self, step, mob, chest, disk, saver>> /\ ~Due(t)
  BY ItemsTickTakes DEF ItemsTick, people, beasts
<1>3. S \subseteq past'.stirred
  BY <1>1, MovedFates DEF Types, PeopleTypes
<1>4. /\ \A v \in User : Packed(t, v)' <=> Packed(t, v)
      /\ \A q \in Player : t \in self'[q].pack <=> t \in self[q].pack
  BY <1>2, NoPack
<1>5. \A b \in Body : Has(b, t)' <=> Has(b, t)
  BY <1>2 DEF Has
<1>6. CASE t \in S
  <2>1. At(t, "ground", None) /\ \A q \in Player : PackFits(q, t)
    BY <1>4, <1>6 DEF At, PackFits
  <2>2. Shifts(t, "ground", None, "due", None)
    BY <1>1, <1>2, <1>4, <1>5, <1>6 DEF Shifts, Spot
  <2> QED
    BY <1>3, <1>6, <2>1, <2>2, HandOver
<1>7. CASE t \notin S
  <2>1. (Due(t)' <=> Due(t)) /\ (t \in ground' <=> t \in ground)
    BY <1>1, <1>2, <1>7
  <2> QED
    BY <1>2, <1>4, <1>5, <2>1, UntouchedFares DEF Fixed
<1> QED
  BY <1>6, <1>7

\* Whatever is handled, each thing fares on.
LEMMA HandlingFares ==
  ASSUME LivesAssumption, LivesInv, Order, WorldGoes, NEW t \in Thing, Fares(t), Handling
  PROVE  Fares(t)'
<1>1. /\ Types /\ Whereabouts /\ Droppers /\ LoversTame /\ MobsToCome /\ TwiceNoted /\ GivenOnce /\ EmptyHanded
      /\ Grows
  BY DEF LivesInv, Whereabouts, Villages, Order, WorldGoes
<1>2. Local
  BY <1>1, HandlingLocal
<1>3. ASSUME NEW u \in Thread, DropAll(u) \/ Spill(u) PROVE Fares(t)'
  <2>1. DropAll(u) => step[u].on \in Player
    BY <1>1 DEF DropAll, Droppers
  <2> QED
    BY <1>1, <1>2, <1>3, <2>1, DropAllFares, SpillFares
<1>4. ASSUME NEW p \in Player, NEW x \in Thing, Stow(p, x) \/ Fetch(p, x) PROVE Fares(t)'
  BY <1>1, <1>2, <1>4, StowFares, FetchFares
<1>5. CASE MobsTick \/ MobDies \/ Pair
  BY <1>1, <1>2, <1>5, MobsTickFares, MobDiesFares, PairFares
<1>6. CASE ItemsTick \/ Give \/ Rot
  BY <1>1, <1>2, <1>6, ItemsTickFares, GiveFares, RotFares
<1> QED
  BY <1>3, <1>4, <1>5, <1>6 DEF Handling, Dropping, Spilling, Stowing, Fetching

(***************************************************************************)
(* Steps of those who come and go.                                         *)
(***************************************************************************)

\* A thing that stays is saved as before in a file that is left alone.
LEMMA RestsThere ==
  ASSUME NEW t, Rests(t), Fixed(t), NEW k, NEW x, Lying(k, x),
         disk'[FileFor(k, x)] = disk[FileFor(k, x)],
         saver'.file = FileFor(k, x) => saver.file = FileFor(k, x) /\ saver'.data = saver.data,
         t \in past.safe \/ Covered(FileFor(k, x))
  PROVE  RestsAt(t, k, x)'
<1>1. At(t, k, x)' <=> At(t, k, x)
  BY FixedAt
<1>2. RestsAt(t, k, x)
  BY DEF Rests
<1>3. FileFor(k, x)' = FileFor(k, x)
  BY DEF FileFor
<1> QED
  BY <1>1, <1>2, <1>3 DEF RestsAt, OnDisk

\* A pack is in no file but its user's.
LEMMA PackFile ==
  ASSUME LivesAssumption, NEW k, NEW x, Lying(k, x), NEW v \in User
  PROVE  FileFor(k, x) = v <=> k = "pack" /\ x = v
  BY DEF LivesAssumption, Lying, FileFor

\* The file of a newcomer.
LEMMA LoadedPack ==
  ASSUME LivesAssumption, NothingAssumption, Types, SaverInOrder, NEW t, Alike(t), NEW v \in User
  PROVE  /\ apply_data(disk[v]).pack = Stored(v)
         /\ disk[v] # Torn => (t \in Stored(v) <=> t \in Filed(v))
<1>1. apply_data(disk[v]).pack = Stored(v)
  BY DEF apply_data, Stored, Fresh
<1>2. ASSUME disk[v] # Torn PROVE t \in Stored(v) <=> t \in Filed(v)
  <2>1. CASE saver.file = v
    <3>1. disk[v] # None /\ v # None
      BY <2>1 DEF SaverInOrder, LivesAssumption
    <3> QED
      BY <1>2, <2>1, <3>1, FiledIs DEF Alike, FilesAgree, Stored
  <2>2. CASE saver.file # v
    BY <2>2, FiledIs
  <2> QED
    BY <2>1, <2>2
<1> QED
  BY <1>1, <1>2

\* Who comes has what is in its file, and no other has it.
LEMMA LoadFares ==
  ASSUME LivesAssumption, NothingAssumption, Types, TwiceNoted, SaverInOrder, WorldGoes,
         NEW t \in Thing, Fares(t), NEW p \in Player, Load(p)
  PROVE  Fares(t)'
<1> DEFINE v == user[p]
<1>1. /\ self[p].at = "new" /\ self' = [self EXCEPT ![p] = [apply_data(disk[v]) EXCEPT !.at = "joining"]]
      /\ UNCHANGED <<disk, saver, mob, step, ground, chest, todo>>
  BY DEF Load, elsewhere, beasts, stores, course
<1>2. v \in User /\ ~Holds(p)
  BY <1>1 DEF LivesAssumption, Holds
<1>3. /\ self'[p].at = "joining" /\ self'[p].pack = Stored(v)
      /\ \A q \in Player \ {p} : self'[q] = self[q]
  <2>1. [apply_data(disk[v]) EXCEPT !.at = "joining"].at = "joining"
    BY DEF apply_data, Fresh
  <2>2. [apply_data(disk[v]) EXCEPT !.at = "joining"].pack = Stored(v)
    BY DEF apply_data, Fresh, Stored
  <2> QED
    BY <1>1, <2>1, <2>2 DEF Types, PeopleTypes
<1>4. \A w : (t \in Filed(w))' <=> t \in Filed(w)
  BY <1>1 DEF Filed
<1>5. \A w : (t \in Stored(w))' <=> t \in Stored(w)
  BY <1>1 DEF Stored
<1>6. /\ \A q \in Player \ {p} : Holds(q)' <=> Holds(q)
      /\ Holds(p)'
  BY <1>3 DEF Holds
<1>7. \A w \in User \ {v} : Packed(t, w)' <=> Packed(t, w)
  BY <1>1, <1>3, <1>6, SamePacks
<1>8. ASSUME ~Given(t)'
      PROVE  (Packed(t, v)' <=> Packed(t, v)) /\ Alike(t)'
  <2>1. Alike(t)
    BY <1>8, GivenGrows DEF Fares, WorldGoes
  <2>2. CASE Siblings(p) # {}
    <3>1. /\ t \notin Stored(v) /\ t \notin Filed(v) /\ t \notin Packs(Siblings(p))
          /\ past'.twice = past.twice \cup {v}
      <4>1. apply_data(disk[v]).pack = Stored(v)
        BY <2>1, <1>2, LoadedPack
      <4> QED
        BY <1>8, <2>2, <4>1, LoadFates DEF Given
    <3>2. \A q \in Player \ {p} : user[q] = v /\ Holds(q) => t \notin self[q].pack
      BY <3>1 DEF Packs, Siblings
    <3>3. \E q \in Player \ {p} : user[q] = v /\ Holds(q)
      BY <2>2 DEF Siblings
    <3>4. ~Packed(t, v)
      BY <1>2, <3>2, <3>3 DEF Packed
    <3>5. ~Packed(t, v)'
      BY <1>3, <1>6, <3>1, <3>2 DEF Packed
    <3>6. FilesAgree(t)'
      BY <1>1, <2>1 DEF Alike, FilesAgree
    <3>7. ASSUME NEW q \in Player PROVE PackAgrees(t, q)'
      <4>1. CASE q = p
        BY <1>3, <1>4, <3>1, <4>1 DEF PackAgrees
      <4>2. CASE q # p /\ user[q] = v
        BY <1>1, <1>3, <1>4, <1>6, <3>1, <3>2, <4>2, <2>1 DEF PackAgrees, Alike, Holds
      <4>3. CASE q # p /\ user[q] # v
        BY <1>1, <1>3, <1>4, <1>6, <3>1, <4>3, <2>1 DEF PackAgrees, Alike
      <4> QED
        BY <4>1, <4>2, <4>3
    <3>8. TwiceBare(t)'
      BY <1>4, <1>5, <2>1, <3>1 DEF TwiceBare, Alike
    <3> QED
      BY <3>4, <3>5, <3>6, <3>7, <3>8 DEF Alike
  <2>3. CASE Siblings(p) = {}
    <3>1. past'.twice = past.twice /\ (t \in Stored(v) <=> t \in Filed(v))
      <4>1. past'.twice = past.twice
        BY <2>3, LoadFates
      <4>2. CASE disk[v] = Torn
        BY <1>8, <2>3, <4>1, <4>2, LoadFates DEF Given, Stored
      <4>3. CASE disk[v] # Torn
        BY <1>2, <2>1, <4>1, <4>3, LoadedPack
      <4> QED
        BY <4>1, <4>2, <4>3
    <3>2. \A q \in Player : user[q] = v => ~Holds(q)
      BY <1>2, <2>3 DEF Siblings
    <3>3. Packed(t, v) <=> t \in Filed(v)
      BY <3>2, FilePacks
    <3>4. Packed(t, v)' <=> t \in Filed(v)
      <4>1. \A q \in Player : user[q] = v /\ Holds(q)' => q = p
        BY <1>6, <3>2
      <4>2. Packed(t, v)' <=> t \in self'[p].pack
        BY <1>6, <4>1 DEF Packed
      <4> QED
        BY <1>3, <3>1, <4>2
    <3>5. FilesAgree(t)'
      BY <1>1, <2>1 DEF Alike, FilesAgree
    <3>6. ASSUME NEW q \in Player PROVE PackAgrees(t, q)'
      <4>1. CASE q = p
        <5>1. user[p] \in past.twice => t \notin Stored(v)
          BY <1>2, <2>1 DEF Alike, TwiceBare
        <5> QED
          BY <1>3, <1>4, <3>1, <4>1, <5>1 DEF PackAgrees
      <4>2. CASE q # p
        BY <1>1, <1>3, <1>4, <1>6, <3>1, <4>2, <2>1 DEF PackAgrees, Alike
      <4> QED
        BY <4>1, <4>2
    <3>7. TwiceBare(t)'
      BY <1>4, <1>5, <2>1, <3>1 DEF TwiceBare, Alike
    <3> QED
      BY <3>3, <3>4, <3>5, <3>6, <3>7 DEF Alike
  <2> QED
    BY <2>2, <2>3
<1>9. ASSUME ~Given(t)' PROVE Fixed(t)
  <2>1. \A w \in User : Packed(t, w)' <=> Packed(t, w)
    BY <1>7, <1>8, <1>9
  <2> QED
    BY <1>1, <2>1 DEF Fixed, Has, Due
<1>10. /\ past'.home = past.home /\ past'.safe \subseteq past.safe
       /\ Quiet(t)' => Quiet(t) /\ ~Given(t)'
  <2>1. /\ past'.home = past.home
        /\ \E S : /\ past'.stirred = past.stirred \cup S /\ past'.safe = past.safe \ S
                  /\ past'.cut = past.cut \cup S /\ past'.lost = past.lost
    BY LoadFates DEF Fates
  <2> QED
    BY <2>1 DEF Quiet, Given
<1>11. Quiet(t)' => Rests(t)'
  <2>1. \A q \in saver.left : q # p
    BY <1>1 DEF SaverInOrder, Known
  <2>2. saver.left \subseteq Player
    BY DEF Types, FileTypes
  <2>3. \A q \in saver.left : t \in self'[q].pack <=> t \in self[q].pack
    BY <1>3, <2>1, <2>2
  <2> QED
    BY <1>1, <1>9, <1>10, <2>3, RestsSame DEF Fares
<1> QED
  BY <1>8, <1>9, <1>10, <1>11, FixedFares DEF WorldGoes

\* One connection changes how far it is, and keeps its pack; nothing else moves.
Steps(p, at) ==
  /\ self'[p].at = at /\ self'[p].pack = self[p].pack
  /\ \A q \in Player \ {p} : self'[q] = self[q]
  /\ UNCHANGED <<saver, mob, step, ground, chest, todo>>

\* A connection that counts before and after keeps all packs where they are.
LEMMA StepsFixed ==
  ASSUME LivesAssumption, NEW t \in Thing, NEW p \in Player, NEW at, Steps(p, at), Holds(p), Holds(p)',
         \A f \in User \ {user[p]} : disk'[f] = disk[f]
  PROVE  Fixed(t)
<1>1. \A q \in Player : Holds(q)' <=> Holds(q)
  BY DEF Steps, Holds
<1>2. \A q \in Player : self'[q].pack = self[q].pack
  BY DEF Steps
<1>3. ASSUME NEW w \in User PROVE Packed(t, w)' <=> Packed(t, w)
  <2>1. CASE w = user[p]
    BY <1>1, <1>2, <2>1 DEF Packed
  <2>2. CASE w # user[p]
    <3>1. (t \in Filed(w))' <=> t \in Filed(w)
      BY <2>2 DEF Filed, Steps
    <3> QED
      BY <1>1, <1>2, <3>1 DEF Packed
  <2> QED
    BY <2>1, <2>2
<1> QED
  BY <1>3 DEF Fixed, Steps, Has, Due

\* What rests stays so in the other files.
LEMMA StepsRest ==
  ASSUME LivesAssumption, Types, NEW t \in Thing, Rests(t), Fixed(t), NEW p \in Player, NEW at, Steps(p, at),
         \A f \in File \ {user[p]} : disk'[f] = disk[f], past'.safe \subseteq past.safe,
         Lying("pack", user[p]) /\ (t \in past.safe \/ Covered(user[p])) => RestsAt(t, "pack", user[p])'
  PROVE  Rests(t)'
<1>1. user[p] \in User /\ saver.left \subseteq Player /\ \A q \in Player : user[q] \in User
  BY DEF LivesAssumption, Types, FileTypes
<1>2. UNCHANGED saver /\ \A q \in Player : self'[q].pack = self[q].pack
  BY DEF Steps
<1>3. ASSUME NEW k, NEW x, Lying(k, x), t \in past'.safe \/ Covered(FileFor(k, x))'
      PROVE  RestsAt(t, k, x)'
  <2>1. Covered(FileFor(k, x))' <=> Covered(FileFor(k, x))
    BY <1>2 DEF Covered, FileFor
  <2>2. CASE FileFor(k, x) = user[p]
    <3>1. k = "pack" /\ x = user[p]
      BY <1>1, <1>3, <2>2, PackFile
    <3> QED
      BY <1>3, <2>1, <2>2, <3>1
  <2>3. CASE FileFor(k, x) # user[p]
    <3>1. FileFor(k, x) \in File
      BY <1>3 DEF Lying, FileFor, File
    <3> QED
      BY <1>2, <1>3, <2>1, <2>3, <3>1, RestsThere
  <2> QED
    BY <2>2, <2>3
<1>4. RestsMobs(t)'
  BY <1>2 DEF Rests, RestsMobs, Fixed
<1>5. RestsLeft(t)'
  BY <1>1, <1>2 DEF Rests, RestsLeft, Fixed
<1> QED
  BY <1>3, <1>4, <1>5 DEF Rests

\* Who leaves empties its file, and has what is to be in it.
LEMMA LeaveFares ==
  ASSUME LivesAssumption, NothingAssumption, Types, TwiceNoted, WorldGoes,
         NEW t \in Thing, Fares(t), NEW p \in Player, Leave(p)
  PROVE  Fares(t)'
<1> DEFINE v == user[p]
<1>1. /\ self[p].at = "play" /\ Steps(p, "saving") /\ self'[p].file.pack = self[p].pack
  <2>1. /\ self' = [self EXCEPT ![p].at = "saving", ![p].file = snapshot_data(self[p])] /\ self[p].at = "play"
        /\ UNCHANGED <<saver, mob, step, ground, chest, todo>>
    BY DEF Leave, Free, beasts, course
  <2>2. self[p] \in Self /\ self \in [Player -> Self]
    BY DEF Types, PeopleTypes
  <2>3. self'[p] = [self[p] EXCEPT !.at = "saving", !.file = snapshot_data(self[p])]
    BY <2>1, <2>2
  <2>4. self'[p].at = "saving" /\ self'[p].pack = self[p].pack
    BY <2>2, <2>3 DEF Self
  <2>5. self'[p].file = snapshot_data(self[p])
    BY <2>2, <2>3 DEF Self
  <2>6. \A q \in Player \ {p} : self'[q] = self[q]
    BY <2>1, <2>2
  <2>7. snapshot_data(self[p]).pack = self[p].pack
    BY DEF snapshot_data
  <2>8. Steps(p, "saving")
    BY <2>1, <2>4, <2>6 DEF Steps
  <2> QED
    BY <2>1, <2>5, <2>7, <2>8
<1>2. v \in User /\ v \in File /\ Holds(p) /\ Holds(p)'
  BY <1>1 DEF LivesAssumption, Holds, Steps, File
<1>3. /\ disk'[v] = Torn /\ \A f \in File \ {v} : disk'[f] = disk[f]
      /\ UNCHANGED saver
  BY LeaverDoes DEF DiskGets
<1>4. Fixed(t)
  BY <1>1, <1>2, <1>3, StepsFixed DEF File
<1>5. /\ past'.home = past.home /\ past'.safe \subseteq past.safe /\ past'.twice = past.twice
      /\ Quiet(t)' => Quiet(t) /\ ~Given(t)'
      /\ ~Given(t)' /\ saver.file = v => (t \in saver.data.pack <=> t \in self[p].pack)
  <2> DEFINE S == IF saver.file = v THEN Differ(saver.data.pack, self[p].pack) ELSE {}
  <2>1. /\ past'.home = past.home /\ past'.twice = past.twice /\ past'.lost = past.lost
        /\ past'.stirred = past.stirred \cup S /\ past'.safe = past.safe \ S
        /\ past'.cut = past.cut \cup S
    BY LeaveFates DEF Fates
  <2> QED
    BY <2>1 DEF Quiet, Given, Differ
<1>6. \A w \in User : /\ saver.file = v \/ w # v => ((t \in Filed(w))' <=> t \in Filed(w))
                      /\ saver.file # v => (t \notin Filed(v))'
                      /\ w # v => ((t \in Stored(w))' <=> t \in Stored(w))
                      /\ (t \notin Stored(v))'
  BY <1>3 DEF Filed, Stored, File
<1>7. ASSUME ~Given(t)' PROVE Alike(t)'
  <2>1. Alike(t)
    BY <1>7, GivenGrows DEF Fares, WorldGoes
  <2>2. FilesAgree(t)'
    BY <1>3, <2>1 DEF Alike, FilesAgree, File
  <2>3. ASSUME NEW q \in Player PROVE PackAgrees(t, q)'
    <3>1. CASE q = p
      BY <1>1, <1>2, <1>3, <1>5, <1>7, <2>1, <3>1 DEF PackAgrees, Steps, Alike
    <3>2. CASE q # p /\ user[q] = v
      <4>1. Holds(q) => v \in past.twice /\ t \notin self[q].pack
        BY <1>2, <2>1, <3>2 DEF TwiceNoted, Alike, PackAgrees
      <4>2. v \in past.twice => (t \notin Filed(v))'
        BY <1>2, <1>6, <2>1 DEF Alike, TwiceBare
      <4>3. self'[q] = self[q] /\ (Holds(q)' <=> Holds(q)) /\ PackAgrees(t, q)
        BY <1>1, <2>1, <3>2 DEF Steps, Alike, Holds
      <4> QED
        BY <1>3, <1>5, <3>2, <4>1, <4>2, <4>3 DEF PackAgrees, Holds
    <3>3. CASE q # p /\ user[q] # v
      <4>1. self'[q] = self[q] /\ (Holds(q)' <=> Holds(q)) /\ PackAgrees(t, q) /\ user[q] \in User
        BY <1>1, <2>1, <3>3 DEF Steps, Alike, Holds, LivesAssumption
      <4> QED
        BY <1>3, <1>5, <1>6, <3>3, <4>1 DEF PackAgrees
    <3> QED
      BY <3>1, <3>2, <3>3
  <2>4. TwiceBare(t)'
    BY <1>5, <1>6, <2>1 DEF TwiceBare, Alike
  <2> QED
    BY <2>2, <2>3, <2>4 DEF Alike
<1>8. Quiet(t)' => Rests(t)'
  <2>1. ASSUME Rests(t), t \in past.safe \/ Covered(v) PROVE RestsAt(t, "pack", v)'
    <3>1. RestsAt(t, "pack", v)
      BY <1>2, <2>1 DEF Rests, Lying, FileFor
    <3>2. At(t, "pack", v)' <=> At(t, "pack", v)
      BY <1>4, FixedAt
    <3> QED
      BY <1>3, <3>1, <3>2 DEF RestsAt, FileFor
  <2> QED
    BY <1>1, <1>2, <1>3, <1>4, <1>5, <2>1, StepsRest DEF Fares
<1> QED
  BY <1>4, <1>5, <1>7, <1>8, FixedFares DEF WorldGoes

\* The file of one who leaves is filled with what it has.
LEMMA WriteFileFares ==
  ASSUME LivesAssumption, NothingAssumption, Types, TwiceNoted, WorldGoes,
         NEW t \in Thing, Fares(t), NEW p \in Player, WriteFile(p)
  PROVE  Fares(t)'
<1> DEFINE v == user[p]
<1>1. self[p].at = "saving" /\ Steps(p, "saved") /\ UNCHANGED past
  <2>1. /\ self' = [self EXCEPT ![p].at = "saved"] /\ self[p].at = "saving"
        /\ UNCHANGED <<saver, mob, step, ground, chest, todo, past>>
    BY DEF WriteFile, beasts, course
  <2>2. self[p] \in Self /\ self \in [Player -> Self]
    BY DEF Types, PeopleTypes
  <2>3. self'[p].at = "saved" /\ self'[p].pack = self[p].pack /\ \A q \in Player \ {p} : self'[q] = self[q]
    BY <2>1, <2>2 DEF Self
  <2> QED
    BY <2>1, <2>3 DEF Steps
<1>2. v \in User /\ v \in File /\ Holds(p) /\ Holds(p)'
  BY <1>1 DEF LivesAssumption, Holds, Steps, File
<1>3. /\ disk'[v] = self[p].file /\ \A f \in File \ {v} : disk'[f] = disk[f]
      /\ UNCHANGED saver /\ self[p].file \notin {None, Torn}
  BY <1>1, LeaverDoes, DataIsSomething DEF DiskGets
<1>4. Fixed(t)
  BY <1>1, <1>2, <1>3, StepsFixed DEF File
<1>5. /\ past'.home = past.home /\ past'.safe \subseteq past.safe /\ past'.twice = past.twice
      /\ Quiet(t)' => Quiet(t) /\ ~Given(t)'
  BY <1>1 DEF Quiet, Given
<1>6. \A w \in User : /\ saver.file = v \/ w # v => ((t \in Filed(w))' <=> t \in Filed(w))
                      /\ saver.file # v => ((t \in Filed(v))' <=> t \in self[p].file.pack)
                      /\ w # v => ((t \in Stored(w))' <=> t \in Stored(w))
                      /\ (t \in Stored(v))' <=> t \in self[p].file.pack
  BY <1>3 DEF Filed, Stored, File
<1>7. ASSUME Alike(t)
      PROVE  /\ t \in self[p].pack <=> t \in self[p].file.pack
             /\ saver.file = v => (t \in self[p].pack <=> t \in saver.data.pack)
             /\ v \in past.twice => t \notin self[p].pack
  BY <1>1, <1>2, <1>7 DEF Alike, PackAgrees
<1>8. ASSUME ~Given(t)' PROVE Alike(t)'
  <2>1. Alike(t)
    BY <1>8, GivenGrows DEF Fares, WorldGoes
  <2>2. FilesAgree(t)'
    BY <1>3, <1>7, <2>1 DEF Alike, FilesAgree, File
  <2>3. (t \in Filed(v))' <=> t \in self[p].pack
    <3>1. CASE saver.file = v
      <4>1. t \in Filed(v) <=> t \in saver.data.pack
        BY <1>2, <3>1, FiledIs
      <4> QED
        BY <1>2, <1>6, <1>7, <2>1, <3>1, <4>1
    <3>2. CASE saver.file # v
      BY <1>2, <1>6, <1>7, <2>1, <3>2
    <3> QED
      BY <3>1, <3>2
  <2>4. ASSUME NEW q \in Player PROVE PackAgrees(t, q)'
    <3>1. CASE q = p
      BY <1>1, <1>2, <1>5, <1>7, <2>1, <2>3, <3>1 DEF PackAgrees, Steps
    <3>2. CASE q # p /\ user[q] = v
      <4>1. Holds(q) => v \in past.twice /\ t \notin self[q].pack
        BY <1>2, <2>1, <3>2 DEF TwiceNoted, Alike, PackAgrees
      <4>2. v \in past.twice => (t \notin Filed(v))'
        BY <1>7, <2>1, <2>3
      <4>3. self'[q] = self[q] /\ (Holds(q)' <=> Holds(q)) /\ PackAgrees(t, q)
        BY <1>1, <2>1, <3>2 DEF Steps, Alike, Holds
      <4> QED
        BY <1>3, <1>5, <3>2, <4>1, <4>2, <4>3 DEF PackAgrees, Holds
    <3>3. CASE q # p /\ user[q] # v
      <4>1. self'[q] = self[q] /\ (Holds(q)' <=> Holds(q)) /\ PackAgrees(t, q) /\ user[q] \in User
        BY <1>1, <2>1, <3>3 DEF Steps, Alike, Holds, LivesAssumption
      <4> QED
        BY <1>3, <1>5, <1>6, <3>3, <4>1 DEF PackAgrees
    <3> QED
      BY <3>1, <3>2, <3>3
  <2>5. TwiceBare(t)'
    BY <1>5, <1>6, <1>7, <2>1, <2>3 DEF TwiceBare, Alike
  <2> QED
    BY <2>2, <2>4, <2>5 DEF Alike
<1>9. Quiet(t)' => Rests(t)'
  <2>1. ASSUME Alike(t), Rests(t), t \in past.safe \/ Covered(v) PROVE RestsAt(t, "pack", v)'
    <3>1. RestsAt(t, "pack", v)
      BY <1>2, <2>1 DEF Rests, Lying, FileFor
    <3>2. At(t, "pack", v)' <=> At(t, "pack", v)
      BY <1>4, FixedAt
    <3>3. At(t, "pack", v) <=> t \in self[p].file.pack
      BY <1>2, <1>7, <2>1, PlayerPacks DEF At
    <3> QED
      BY <1>3, <3>1, <3>2, <3>3 DEF RestsAt, OnDisk, Says, FileFor
  <2> QED
    BY <1>1, <1>2, <1>3, <1>4, <1>5, <2>1, GivenGrows, StepsRest DEF Fares, WorldGoes
<1> QED
  BY <1>4, <1>5, <1>8, <1>9, FixedFares DEF WorldGoes

\* Who is removed has what is in its file, or nothing that counts.
LEMMA RemoveFares ==
  ASSUME LivesAssumption, NothingAssumption, Types, TwiceNoted, SaverInOrder, WorldGoes,
         NEW t \in Thing, Fares(t), NEW p \in Player, remove_player(p)
  PROVE  Fares(t)'
<1> DEFINE v == user[p]
<1>1. self[p].at = "saved" /\ Steps(p, "left") /\ UNCHANGED <<past, disk>>
  <2>1. /\ self' = [self EXCEPT ![p].at = "left"] /\ self[p].at = "saved"
        /\ UNCHANGED <<disk, saver, mob, step, ground, chest, todo, past>>
    BY DEF remove_player, beasts, stores, course
  <2>2. self[p] \in Self /\ self \in [Player -> Self]
    BY DEF Types, PeopleTypes
  <2>3. self'[p].at = "left" /\ self'[p].pack = self[p].pack /\ \A q \in Player \ {p} : self'[q] = self[q]
    BY <2>1, <2>2 DEF Self
  <2> QED
    BY <2>1, <2>3 DEF Steps
<1>2. v \in User /\ Holds(p) /\ ~Holds(p)' /\ \A q \in Player \ {p} : Holds(q)' <=> Holds(q)
  BY <1>1 DEF LivesAssumption, Holds, Steps
<1>3. /\ UNCHANGED <<disk, saver>> /\ \A q \in Player : self'[q].pack = self[q].pack
      /\ past'.home = past.home /\ past'.safe \subseteq past.safe /\ past'.twice = past.twice
      /\ Quiet(t)' => Quiet(t) /\ ~Given(t)'
  BY <1>1 DEF Quiet, Given, Steps
<1>4. \A w \in User : /\ (t \in Filed(w))' <=> t \in Filed(w)
                      /\ (t \in Stored(w))' <=> t \in Stored(w)
  BY <1>3 DEF Filed, Stored
<1>5. ASSUME ~Given(t)' PROVE Alike(t) /\ Fixed(t)
  <2>1. Alike(t)
    BY <1>5, GivenGrows DEF Fares, WorldGoes
  <2>2. \A w \in User \ {v} : Packed(t, w)' <=> Packed(t, w)
    BY <1>2, <1>3, SamePacks
  <2>3. /\ Packed(t, v) <=> t \in self[p].pack
        /\ t \in self[p].pack <=> t \in Filed(v)
    BY <1>1, <1>2, <2>1, PlayerPacks DEF Alike, PackAgrees
  <2>4. Packed(t, v)' <=> Packed(t, v)
    <3>1. CASE \E q \in Player \ {p} : user[q] = v /\ Holds(q)
      <4>1. v \in past.twice
        BY <1>2, <3>1 DEF TwiceNoted
      <4>2. \A q \in Player : user[q] = v /\ Holds(q) => t \notin self[q].pack
        BY <2>1, <4>1 DEF Alike, PackAgrees
      <4>3. ~Packed(t, v)'
        BY <1>2, <1>3, <3>1, <4>2 DEF Packed
      <4> QED
        BY <1>2, <2>3, <4>2, <4>3
    <3>2. CASE ~\E q \in Player \ {p} : user[q] = v /\ Holds(q)
      <4>1. Packed(t, v)' <=> (t \in Filed(v))'
        BY <1>2, <3>2 DEF Packed
      <4> QED
        BY <1>2, <1>4, <2>3, <4>1
    <3> QED
      BY <3>1, <3>2
  <2> QED
    BY <1>1, <2>1, <2>2, <2>4 DEF Fixed, Steps, Has, Due
<1>6. ASSUME ~Given(t)' PROVE Alike(t)'
  <2>1. Alike(t)
    BY <1>5, <1>6
  <2>2. FilesAgree(t)' /\ TwiceBare(t)'
    BY <1>3, <1>4, <2>1 DEF Alike, FilesAgree, TwiceBare
  <2>3. ASSUME NEW q \in Player PROVE PackAgrees(t, q)'
    <3>1. user[q] \in User /\ PackAgrees(t, q)
      BY <2>1 DEF LivesAssumption, Alike
    <3>2. CASE q = p
      BY <1>1, <1>2, <3>2 DEF PackAgrees, Steps
    <3>3. CASE q # p
      BY <1>1, <1>2, <1>3, <1>4, <3>1, <3>3 DEF PackAgrees, Steps
    <3> QED
      BY <3>2, <3>3
  <2> QED
    BY <2>2, <2>3 DEF Alike
<1>7. Quiet(t)' => Rests(t)'
  <2>1. saver.left \subseteq Player
    BY DEF Types, FileTypes
  <2> QED
    BY <1>3, <1>5, <2>1, RestsSame DEF Fares
<1> QED
  BY <1>3, <1>5, <1>6, <1>7, FixedFares DEF WorldGoes

(***************************************************************************)
(* Steps of the saver.                                                     *)
(***************************************************************************)

\* The saver has come from no player's file to none, or is done with one.
Aloof == /\ \A v \in User : saver.file # v /\ saver'.file # v /\ disk'[v] = disk[v]
         /\ UNCHANGED <<self, mob, step, ground, chest, todo>> /\ past'.twice = past.twice
Putting == /\ saver.file # None /\ saver'.file = None /\ DiskGets(saver.file, saver.data)
           /\ UNCHANGED <<self, mob, step, ground, chest, todo>> /\ past'.twice = past.twice

\* Players' files are, or are to be, as before.
LEMMA SavedAlike ==
  ASSUME LivesAssumption, NothingAssumption, Types, NEW t \in Thing, Aloof \/ Putting
  PROVE  Fixed(t) /\ (Alike(t) => Alike(t)')
<1>1. \A v \in User : v # None /\ v \in File
  BY DEF LivesAssumption, File
<1>2. /\ UNCHANGED <<self, mob, step, ground, chest, todo>> /\ past'.twice = past.twice
      /\ \A v \in User : saver'.file # v
  BY <1>1 DEF Aloof, Putting
<1>3. ASSUME NEW v \in User
      PROVE  /\ (t \in Filed(v))' <=> t \in Filed(v)
             /\ (t \in Stored(v))' => t \in Stored(v) \/ t \in Filed(v)
  <2>1. CASE Aloof
    BY <2>1 DEF Aloof, Filed, Stored
  <2>2. CASE Putting /\ saver.file = v
    <3>1. disk'[v] = saver.data /\ saver'.file # v
      BY <1>2, <2>2 DEF Putting, DiskGets
    <3>2. t \in Filed(v) <=> saver.data \notin {None, Torn} /\ t \in saver.data.pack
      BY <2>2 DEF Filed
    <3>3. (t \in Filed(v))' <=> saver.data \notin {None, Torn} /\ t \in saver.data.pack
      BY <3>1 DEF Filed
    <3>4. (t \in Stored(v))' <=> saver.data \notin {None, Torn} /\ t \in saver.data.pack
      BY <3>1 DEF Stored
    <3> QED
      BY <3>2, <3>3, <3>4
  <2>3. CASE Putting /\ saver.file # v
    <3>1. disk'[v] = disk[v] /\ saver'.file # v
      BY <1>1, <1>2, <2>3 DEF Putting, DiskGets
    <3> QED
      BY <2>3, <3>1 DEF Filed, Stored
  <2> QED
    BY <2>1, <2>2, <2>3
<1>4. Fixed(t)
  <2>1. ASSUME NEW v \in User PROVE Packed(t, v)' <=> Packed(t, v)
    BY <1>2, <1>3 DEF Packed, Holds
  <2> QED
    BY <1>2, <2>1 DEF Fixed, Has, Due
<1>5. ASSUME Alike(t) PROVE Alike(t)'
  <2>1. FilesAgree(t)'
    BY <1>2 DEF FilesAgree
  <2>2. ASSUME NEW q \in Player PROVE PackAgrees(t, q)'
    <3>1. PackAgrees(t, q) /\ user[q] \in User
      BY <1>5 DEF Alike, LivesAssumption
    <3> QED
      BY <1>2, <1>3, <3>1 DEF PackAgrees, Holds
  <2>3. TwiceBare(t)'
    BY <1>2, <1>3, <1>5 DEF Alike, TwiceBare
  <2> QED
    BY <2>1, <2>2, <2>3 DEF Alike
<1> QED
  BY <1>4, <1>5

\* What the saver leaves alone.
LEMMA SaverLeaves ==
  ASSUME Types, Saving
  PROVE  /\ UNCHANGED <<self, table, mob, step, ground, chest, todo>>
         /\ UNCHANGED past \/ SaveContainers \/ Saved \/ \E p \in Player : SavePlayer(p)
  BY DEF Saving, SaveContainers, SavePut, SavePlayers, SavePlayer, SaveMobs, SaveItems, SaveMeta, Saved,
         saving, people, beasts, course

\* All its steps are such, but for the saving of a player.
LEMMA SaverAloof ==
  ASSUME LivesAssumption, NothingAssumption, Types, SaverInOrder, WorldGoes, Saving
  PROVE  Aloof \/ Putting \/ \E p \in Player : SavePlayer(p)
<1>1. /\ UNCHANGED <<self, mob, step, ground, chest, todo>>
      /\ past'.twice = past.twice
  <2>1. past'.twice = past.twice \/ Loading
    BY DEF WorldGoes, Grows
  <2>2. UNCHANGED self
    BY SaverLeaves
  <2>3. ASSUME NEW p \in Player, Load(p) PROVE FALSE
    <3>1. self[p].at = "new" /\ self' = [self EXCEPT ![p] = [apply_data(disk[user[p]]) EXCEPT !.at = "joining"]]
      BY <2>3 DEF Load
    <3>2. [apply_data(disk[user[p]]) EXCEPT !.at = "joining"].at = "joining"
      BY DEF apply_data, Fresh
    <3> QED
      BY <2>2, <3>1, <3>2 DEF Types, PeopleTypes
  <2> QED
    BY <2>1, <2>3, SaverLeaves DEF Loading
<1>2. /\ \A v \in User : v \in File \ {"containers", "entities", "meta"} /\ v # None
      /\ {"containers", "entities", "meta"} \subseteq File /\ None \notin {"containers", "entities", "meta"}
  BY DEF LivesAssumption, NothingAssumption, File
<1>3. CASE SavePut
  BY <1>1, <1>3, SaverDoes DEF Putting, SaverIs
<1>4. CASE SaveContainers \/ SaveItems \/ SaveMeta \/ Saved
  BY <1>1, <1>2, <1>4, SaverDoes DEF SaverIs, DiskGets, Aloof, SaverInOrder
<1>5. CASE SavePlayers \/ SaveMobs
  BY <1>1, <1>2, <1>5, SaverDoes DEF SaverIs, DiskGets, Aloof
<1> QED
  BY <1>3, <1>4, <1>5 DEF Saving

\* The file that is written gets what it was to get.
LEMMA SavePutRests ==
  ASSUME LivesAssumption, NothingAssumption, Types, SaverInOrder,
         NEW t \in Thing, Rests(t), Fixed(t), SavePut, UNCHANGED <<self, past>>
  PROVE  Rests(t)'
<1>1. /\ saver.file # None /\ saver.at # "meta" /\ DiskGets(saver.file, saver.data)
      /\ saver'.at = saver.at /\ saver'.left = saver.left /\ saver'.file = None
  BY SaverDoes DEF SaverIs
<1>2. saver.at # "mobs"
  BY <1>1 DEF SaverInOrder
<1>3. saver.left \subseteq Player /\ (\A q \in Player : user[q] \in User) /\ None \notin User
  BY DEF LivesAssumption, Types, FileTypes
<1>4. ASSUME NEW k, NEW x, Lying(k, x), t \in past'.safe \/ Covered(FileFor(k, x))'
      PROVE  RestsAt(t, k, x)'
  <2>1. /\ Covered(FileFor(k, x))' <=> Covered(FileFor(k, x))
        /\ FileFor(k, x)' = FileFor(k, x)
    BY <1>1 DEF Covered, FileFor
  <2>2. RestsAt(t, k, x) /\ (At(t, k, x)' <=> At(t, k, x))
    BY <1>4, <2>1, FixedAt DEF Rests
  <2>3. FileFor(k, x) \in File \ {None}
    BY <1>3, <1>4 DEF Lying, FileFor, File, NothingAssumption
  <2>4. CASE FileFor(k, x) = saver.file
    <3>1. Says(saver.data, t, k, x) <=> At(t, k, x)
      BY <2>2, <2>4 DEF RestsAt
    <3>2. disk'[FileFor(k, x)] = saver.data
      BY <1>1, <2>4 DEF DiskGets
    <3>3. saver.data # None
      BY <1>4, <2>4, DataIsSomething DEF Lying, FileFor
    <3> QED
      BY <1>1, <2>1, <2>2, <2>3, <3>1, <3>2, <3>3 DEF RestsAt, OnDisk
  <2>5. CASE FileFor(k, x) # saver.file
    <3>1. disk'[FileFor(k, x)] = disk[FileFor(k, x)]
      BY <1>1, <2>3, <2>5 DEF DiskGets
    <3> QED
      BY <1>1, <2>1, <2>2, <2>3, <3>1 DEF RestsAt, OnDisk
  <2> QED
    BY <2>4, <2>5
<1>5. RestsMobs(t)' /\ RestsLeft(t)'
  BY <1>1, <1>2, <1>3 DEF Rests, RestsMobs, RestsLeft, Fixed
<1> QED
  BY <1>4, <1>5 DEF Rests

\* A file that is left alone, and that the saver had been through, or is about to read.
LEMMA RestsAside ==
  ASSUME LivesAssumption, NothingAssumption, NEW t \in Thing, Rests(t), Fixed(t), NEW k, NEW x, Lying(k, x),
         saver'.file # FileFor(k, x), disk'[FileFor(k, x)] = disk[FileFor(k, x)],
         t \in past.safe \/ Covered(FileFor(k, x))
  PROVE  RestsAt(t, k, x)'
  BY RestsThere

\* The players come next: those who are not in the table are as their files say.
LEMMA SavePlayersRests ==
  ASSUME LivesAssumption, NothingAssumption, Types, TwiceNoted, TableTrue, SaverInOrder,
         NEW t \in Thing, Rests(t), Alike(t), Fixed(t), SavePlayers, UNCHANGED <<self, past>>
  PROVE  Rests(t)'
<1>1. /\ saver.at = "containers" /\ saver.file = None /\ UNCHANGED disk
      /\ saver'.at = "players" /\ saver'.left = table /\ saver'.file = None
  BY SaverDoes DEF SaverIs
<1>2. (\A q \in Player : user[q] \in User) /\ None \notin User /\ table \subseteq Player
  BY DEF LivesAssumption, Types, PeopleTypes
<1>3. ASSUME NEW k, NEW x, Lying(k, x), t \in past'.safe \/ Covered(FileFor(k, x))'
      PROVE  RestsAt(t, k, x)'
  <2>1. FileFor(k, x)' = FileFor(k, x) /\ FileFor(k, x) # None
    BY <1>2, <1>3 DEF FileFor, Lying, NothingAssumption
  <2>2. CASE t \in past.safe \/ Covered(FileFor(k, x))
    BY <1>1, <1>3, <2>1, <2>2, RestsAside
  <2>3. CASE ~(t \in past.safe \/ Covered(FileFor(k, x)))
    <3>1. k = "pack" /\ x \in User /\ \A p \in table : user[p] # x
      <4>1. \/ FileFor(k, x) = "containers"
            \/ FileFor(k, x) \in User /\ \A p \in table : user[p] # FileFor(k, x)
        BY <1>1, <1>3, <2>1, <2>3 DEF Covered
      <4>2. ~(FileFor(k, x) = "containers")
        BY <1>1, <2>3 DEF Covered
      <4> QED
        BY <1>2, <1>3, <4>1, <4>2, PackFile
    <3>2. Packed(t, x) <=> t \in Filed(x)
      <4>1. CASE \E q \in Player : user[q] = x /\ Holds(q)
        <5>1. PICK q \in Player : user[q] = x /\ Holds(q)
          BY <4>1
        <5>2. self[q].at = "joining"
          BY <3>1, <5>1 DEF TableTrue, Holds
        <5> QED
          BY <5>1, <5>2, PlayerPacks DEF Alike, PackAgrees
      <4>2. CASE ~\E q \in Player : user[q] = x /\ Holds(q)
        BY <4>2, FilePacks
      <4> QED
        BY <4>1, <4>2
    <3>3. Filed(x) = Stored(x)
      BY <1>1, <1>2, <3>1 DEF Filed, Stored
    <3>4. disk[x] # Torn => (OnDisk(t, k, x) <=> t \in Stored(x))
      BY <3>1 DEF OnDisk, FileFor, Says, Stored
    <3>5. At(t, k, x)' <=> Packed(t, x)
      BY <3>1, FixedAt DEF At
    <3>6. FileFor(k, x) = x /\ (OnDisk(t, k, x)' <=> OnDisk(t, k, x))
      BY <1>1, <3>1 DEF FileFor, OnDisk
    <3> QED
      BY <1>1, <2>1, <3>2, <3>3, <3>4, <3>5, <3>6 DEF RestsAt
  <2> QED
    BY <2>2, <2>3
<1>4. RestsMobs(t)'
  BY <1>1 DEF RestsMobs
<1>5. RestsLeft(t)'
  <2>1. ASSUME NEW p \in table PROVE t \in self[p].pack <=> Packed(t, user[p])
    <3>1. p \in Player /\ Holds(p)
      BY <1>2 DEF TableTrue, Holds
    <3> QED
      BY <3>1, PlayerPacks
  <2> QED
    BY <1>1, <1>2, <2>1 DEF RestsLeft, Fixed
<1> QED
  BY <1>3, <1>4, <1>5 DEF Rests

\* Then the mobs: what they have is read.
LEMMA SaveMobsRests ==
  ASSUME LivesAssumption, NothingAssumption, Types, DeadOrAlive, SaverInOrder,
         NEW t \in Thing, Rests(t), Fixed(t), SaveMobs, UNCHANGED <<self, mob, past>>
  PROVE  Rests(t)'
<1>1. /\ saver.at = "players" /\ saver.left = {} /\ UNCHANGED disk
      /\ saver'.at = "mobs" /\ saver'.left = {} /\ saver'.file = None
      /\ saver'.data = {[body |-> b, kind |-> mob[b].kind, health |-> mob[b].health, loot |-> mob[b].loot] :
                        b \in {c \in Here : Alive(c)}}
  BY SaverDoes
<1>2. ASSUME NEW k, NEW x, Lying(k, x), t \in past'.safe \/ Covered(FileFor(k, x))'
      PROVE  RestsAt(t, k, x)'
  <2>1. FileFor(k, x)' = FileFor(k, x) /\ FileFor(k, x) # None
    BY <1>2 DEF FileFor, Lying, NothingAssumption, LivesAssumption
  <2>2. Covered(FileFor(k, x))' => Covered(FileFor(k, x))
    BY <1>1, <2>1 DEF Covered
  <2> QED
    BY <1>1, <1>2, <2>1, <2>2, RestsAside
<1>3. RestsMobs(t)'
  <2>1. ASSUME NEW b \in Body PROVE Has(b, t) <=> \E m \in saver'.data : m.body = b /\ m.loot = t
    <3>1. Has(b, t) => b \in Here /\ Alive(b)
      BY DEF Has, Here, Alive, DeadOrAlive, LivesAssumption
    <3>2. (\E m \in saver'.data : m.body = b /\ m.loot = t)
          <=> \E c \in {d \in Here : Alive(d)} : c = b /\ mob[c].loot = t
      <4> DEFINE As(c) == [body |-> c, kind |-> mob[c].kind, health |-> mob[c].health, loot |-> mob[c].loot]
      <4>1. \A c : As(c).body = c /\ As(c).loot = mob[c].loot
        OBVIOUS
      <4>2. saver'.data = {As(c) : c \in {d \in Here : Alive(d)}}
        BY <1>1
      <4> HIDE DEF As
      <4> QED
        BY <4>1, <4>2
    <3> QED
      BY <3>1, <3>2 DEF Has, Here
  <2> QED
    BY <2>1 DEF RestsMobs, Fixed
<1>4. RestsLeft(t)'
  BY <1>1 DEF RestsLeft
<1> QED
  BY <1>2, <1>3, <1>4 DEF Rests

\* The items are taken with the mobs.
LEMMA SaveItemsRests ==
  ASSUME LivesAssumption, NothingAssumption, Types, SaverInOrder,
         NEW t \in Thing, Rests(t), Fixed(t), SaveItems, UNCHANGED <<self, ground, past>>
  PROVE  Rests(t)'
<1>1. /\ saver.at = "mobs" /\ DiskGets("entities", Torn)
      /\ saver'.at = "entities" /\ saver'.left = saver.left /\ saver'.file = "entities"
      /\ saver'.data = [mobs |-> saver.data, items |-> ground]
  BY SaverDoes DEF SaverIs
<1>2. saver.left = {}
  BY <1>1 DEF SaverInOrder
<1>3. ASSUME NEW k, NEW x, Lying(k, x), t \in past'.safe \/ Covered(FileFor(k, x))'
      PROVE  RestsAt(t, k, x)'
  <2>1. FileFor(k, x)' = FileFor(k, x) /\ FileFor(k, x) \in File
    BY <1>3 DEF FileFor, Lying, File
  <2>2. CASE FileFor(k, x) # "entities"
    <3>1. Covered(FileFor(k, x))' => Covered(FileFor(k, x))
      BY <1>1, <2>1, <2>2 DEF Covered
    <3>2. disk'[FileFor(k, x)] = disk[FileFor(k, x)]
      BY <1>1, <2>1, <2>2 DEF DiskGets
    <3> QED
      BY <1>1, <1>3, <2>2, <3>1, <3>2, RestsAside
  <2>3. CASE FileFor(k, x) = "entities"
    <3>1. disk'[FileFor(k, x)] = Torn
      BY <1>1, <2>3 DEF DiskGets
    <3>2. (k = "mob" /\ x \in Body) \/ (k = "ground" /\ x = None)
      BY <1>3, <2>3 DEF Lying, FileFor, LivesAssumption
    <3>3. \A b \in Body : Has(b, t) <=> \E m \in saver.data : m.body = b /\ m.loot = t
      BY <1>1 DEF Rests, RestsMobs
    <3>4. Says(saver'.data, t, k, x) <=> At(t, k, x)
      <4>1. CASE k = "mob" /\ x \in Body
        BY <1>1, <3>3, <4>1 DEF Says, At
      <4>2. CASE k = "ground" /\ x = None
        BY <1>1, <4>2 DEF Says, At
      <4> QED
        BY <3>2, <4>1, <4>2
    <3>5. At(t, k, x)' <=> At(t, k, x)
      BY FixedAt
    <3> QED
      BY <2>1, <3>1, <3>4, <3>5 DEF RestsAt
  <2> QED
    BY <2>2, <2>3
<1>4. RestsMobs(t)'
  BY <1>1 DEF RestsMobs
<1>5. RestsLeft(t)'
  BY <1>1, <1>2 DEF RestsLeft
<1> QED
  BY <1>3, <1>4, <1>5 DEF Rests

\* The clock is no thing.
LEMMA SaveMetaRests ==
  ASSUME LivesAssumption, NothingAssumption, Types, SaverInOrder,
         NEW t \in Thing, Rests(t), Fixed(t), SaveMeta, UNCHANGED <<self, past>>
  PROVE  Rests(t)'
<1>1. /\ saver.at = "entities" /\ DiskGets("meta", Torn)
      /\ saver'.at = "meta" /\ saver'.left = saver.left /\ saver'.file = "meta"
  BY SaverDoes DEF SaverIs
<1>2. saver.left = {}
  BY <1>1 DEF SaverInOrder
<1>3. ASSUME NEW k, NEW x, Lying(k, x), t \in past'.safe \/ Covered(FileFor(k, x))'
      PROVE  RestsAt(t, k, x)'
  <2>1. FileFor(k, x)' = FileFor(k, x) /\ FileFor(k, x) \in File /\ FileFor(k, x) # "meta"
    BY <1>3 DEF FileFor, Lying, File, LivesAssumption
  <2>2. Covered(FileFor(k, x))' => Covered(FileFor(k, x))
    BY <1>1, <2>1 DEF Covered
  <2>3. disk'[FileFor(k, x)] = disk[FileFor(k, x)]
    BY <1>1, <2>1 DEF DiskGets
  <2> QED
    BY <1>1, <1>3, <2>1, <2>2, <2>3, RestsAside
<1>4. RestsMobs(t)'
  BY <1>1 DEF RestsMobs
<1>5. RestsLeft(t)'
  BY <1>1, <1>2 DEF RestsLeft
<1> QED
  BY <1>3, <1>4, <1>5 DEF Rests

\* A save begins: things lie still from here on.
LEMMA SaveContainersRests ==
  ASSUME LivesAssumption, NothingAssumption, Types, SaverInOrder,
         NEW t \in Thing, t \in past.safe => Rests(t), Fixed(t), SaveContainers, UNCHANGED <<self, chest>>,
         past'.safe \subseteq past.safe
  PROVE  Rests(t)'
<1>1. /\ saver.at = "idle" /\ DiskGets("containers", Torn)
      /\ saver'.at = "containers" /\ saver'.left = saver.left /\ saver'.file = "containers"
      /\ saver'.data = chest
  BY SaverDoes DEF SaverIs
<1>2. saver.left = {}
  BY <1>1 DEF SaverInOrder
<1>3. ASSUME NEW k, NEW x, Lying(k, x), t \in past'.safe \/ Covered(FileFor(k, x))'
      PROVE  RestsAt(t, k, x)'
  <2>1. FileFor(k, x)' = FileFor(k, x) /\ FileFor(k, x) \in File
    BY <1>3 DEF FileFor, Lying, File
  <2>2. CASE FileFor(k, x) # "containers"
    <3>1. ~Covered(FileFor(k, x))'
      <4>1. FileFor(k, x) \in User \/ FileFor(k, x) = "entities"
        BY <1>3, <2>2 DEF Lying, FileFor
      <4> QED
        BY <1>1, <2>1, <2>2, <4>1 DEF Covered, LivesAssumption
    <3>2. disk'[FileFor(k, x)] = disk[FileFor(k, x)]
      BY <1>1, <2>1, <2>2 DEF DiskGets
    <3> QED
      BY <1>1, <1>3, <2>2, <3>1, <3>2, RestsAside
  <2>3. CASE FileFor(k, x) = "containers"
    <3>1. disk'[FileFor(k, x)] = Torn
      BY <1>1, <2>3 DEF DiskGets
    <3>2. k = "chest" /\ x = None
      BY <1>3, <2>3 DEF Lying, FileFor, LivesAssumption
    <3>3. Says(saver'.data, t, k, x) <=> At(t, k, x)
      BY <1>1, <3>2 DEF Says, At
    <3>4. At(t, k, x)' <=> At(t, k, x)
      BY FixedAt
    <3> QED
      BY <2>1, <3>1, <3>3, <3>4 DEF RestsAt
  <2> QED
    BY <2>2, <2>3
<1>4. RestsMobs(t)'
  BY <1>1 DEF RestsMobs
<1>5. RestsLeft(t)'
  BY <1>1, <1>2 DEF RestsLeft
<1> QED
  BY <1>3, <1>4, <1>5 DEF Rests

\* The save is whole: what lay still is in its file, and safe.
LEMMA SavedFares ==
  ASSUME LivesAssumption, NothingAssumption, Types, SaverInOrder, WorldGoes,
         NEW t \in Thing, Fares(t), Fixed(t), Alike(t) => Alike(t)', Saved
  PROVE  Fares(t)'
<1>1. /\ saver.at = "meta" /\ DiskGets("meta", saver.data)
      /\ saver'.at = "idle" /\ saver'.left = {} /\ saver'.file = None
  BY SaverDoes DEF SaverIs
<1> DEFINE still == {x \in Thing \ (past.stirred \cup past.cut \cup past.lost) : Places(x) # {}}
<1>2. /\ past'.safe = still /\ past'.home = [x \in still |-> Places(x)]
      /\ past'.stirred = past.stirred /\ past'.cut = past.cut /\ past'.lost = past.lost
  <2> DEFINE home == [x \in still |-> Places(x)]
  <2>1. past' = [past EXCEPT !.safe = still, !.home = home]
    BY Zenon DEF Saved
  <2> HIDE DEF still, home
  <2>2. past'.safe = still /\ past'.home = home
    BY <2>1 DEF Types, PeopleTypes, Proper, PastFields
  <2>3. past'.stirred = past.stirred /\ past'.cut = past.cut /\ past'.lost = past.lost
    BY <2>1 DEF Types, PeopleTypes, Proper, PastFields
  <2> QED
    BY <2>2, <2>3 DEF home
<1>3. (Given(t)' <=> Given(t)) /\ (Quiet(t)' <=> Quiet(t))
  BY <1>2 DEF Given, Quiet
<1>4. ~Given(t)' => Sole(t)' /\ Alike(t)'
  BY <1>3, FixedAt DEF Fares
<1>5. ASSUME Quiet(t)' PROVE Rests(t)'
  <2>1. ASSUME NEW k, NEW x, Lying(k, x) PROVE RestsAt(t, k, x)'
    <3>1. FileFor(k, x) \in File /\ FileFor(k, x) \notin {"meta", None} /\ Covered(FileFor(k, x))
      BY <1>1, <2>1 DEF FileFor, Lying, File, LivesAssumption, NothingAssumption, Covered
    <3>2. disk'[FileFor(k, x)] = disk[FileFor(k, x)] /\ Rests(t)
      BY <1>1, <1>3, <1>5, <3>1 DEF DiskGets, Fares
    <3> QED
      BY <1>1, <2>1, <3>1, <3>2, RestsThere
  <2>2. RestsMobs(t)' /\ RestsLeft(t)'
    BY <1>1 DEF RestsMobs, RestsLeft
  <2> QED
    BY <2>1, <2>2 DEF Rests
<1>6. ASSUME t \in past'.safe PROVE Homed(t)'
  <2>1. Places(t)' = Places(t)
    BY FixedPlaces
  <2>2. t \in still /\ past'.home[t] = Places(t)
    BY <1>2, <1>6
  <2> QED
    BY <2>1, <2>2 DEF Homed
<1> QED
  BY <1>4, <1>5, <1>6, FaresWith DEF WorldGoes

\* A player of the table is saved, with those who left and those who came after.
LEMMA SavePlayerFares ==
  ASSUME LivesAssumption, NothingAssumption, Types, TwiceNoted, SaverInOrder, WorldGoes,
         NEW t \in Thing, Fares(t), NEW p \in Player, SavePlayer(p)
  PROVE  Fares(t)'
<1> DEFINE v == user[p]
<1> DEFINE After == {q \in Siblings(p) : self[q].at = "saving"}
<1>1. /\ saver.at = "players" /\ saver.file = None /\ p \in saver.left
      /\ disk'[v] = Torn /\ \A f \in File \ {v} : disk'[f] = disk[f]
      /\ saver'.at = "players" /\ saver'.left = saver.left \ {p} /\ saver'.file = v
      /\ saver'.data = snapshot_data(self[p]) /\ saver'.data \notin {None, Torn}
  BY SaverDoes, DataIsSomething DEF SaverIs, DiskGets
<1>2. /\ v \in User /\ v \in File /\ v # None /\ saver'.data.pack = self[p].pack
      /\ \A q \in Player : user[q] \in User
  BY <1>1 DEF LivesAssumption, File, snapshot_data
<1>3. UNCHANGED <<self, mob, step, ground, chest, todo>>
  BY DEF SavePlayer, saving, people, beasts, course
<1>4. Holds(p) \/ self[p].at \in {"left", "gone"}
  <2>1. Known(p) /\ self[p].at \in {"new", "joining", "play", "saving", "saved", "left", "gone"}
    BY <1>1 DEF SaverInOrder, Types, PeopleTypes, Self
  <2> QED
    BY <2>1 DEF Known, Holds
<1>5. /\ past'.home = past.home /\ past'.safe \subseteq past.safe /\ past'.twice = past.twice
      /\ Quiet(t)' => Quiet(t) /\ ~Given(t)'
      /\ self[p].at \in {"left", "gone"} /\ ~Given(t)' =>
           /\ t \in self[p].pack <=> t \in Filed(v)
           /\ \A q \in After : t \in self[p].pack <=> t \in self[q].file.pack
  <2>1. CASE self[p].at \in {"left", "gone"}
    <3> DEFINE S == Differ(self[p].pack, Filed(v)) \cup UNION {Differ(self[p].pack, self[q].file.pack) : q \in After}
    <3>1. past' = Cut(past, S)
      BY <2>1, Zenon DEF SavePlayer
    <3>2. /\ past'.home = past.home /\ past'.twice = past.twice /\ past'.lost = past.lost
          /\ past'.stirred = past.stirred \cup S /\ past'.safe = past.safe \ S
          /\ past'.cut = past.cut \cup S
      <4> HIDE DEF S
      <4> QED
        BY <3>1, CutFates DEF Fates, Types, PeopleTypes
    <3>3. t \notin S => /\ t \in self[p].pack <=> t \in Filed(v)
                        /\ \A q \in After : t \in self[p].pack <=> t \in self[q].file.pack
      BY DEF Differ
    <3> HIDE DEF S
    <3>4. ~Given(t)' => t \notin S
      BY <3>2 DEF Given
    <3>5. /\ past'.home = past.home /\ past'.safe \subseteq past.safe /\ past'.twice = past.twice
          /\ Quiet(t)' => Quiet(t) /\ ~Given(t)'
      BY <3>2 DEF Quiet, Given
    <3> QED
      BY <3>3, <3>4, <3>5
  <2>2. CASE self[p].at \notin {"left", "gone"}
    BY <2>2 DEF SavePlayer, Quiet, Given
  <2> QED
    BY <2>1, <2>2
<1>6. /\ (t \in Filed(v))' <=> t \in self[p].pack
      /\ (t \notin Stored(v))'
      /\ \A w \in User \ {v} : /\ (t \in Filed(w))' <=> t \in Filed(w)
                               /\ (t \in Stored(w))' <=> t \in Stored(w)
  <2>1. (t \in Filed(v))' <=> t \in self[p].pack
    BY <1>1, <1>2 DEF Filed
  <2>2. (t \notin Stored(v))'
    BY <1>1 DEF Stored
  <2>3. ASSUME NEW w \in User \ {v}
        PROVE  /\ (t \in Filed(w))' <=> t \in Filed(w)
               /\ (t \in Stored(w))' <=> t \in Stored(w)
    <3>1. saver.file # w /\ saver'.file # w /\ disk'[w] = disk[w]
      BY <1>1 DEF LivesAssumption, File
    <3> QED
      BY <3>1 DEF Filed, Stored
  <2> QED
    BY <2>1, <2>2, <2>3
<1>7. \A q \in Player : Holds(q)' <=> Holds(q)
  BY <1>3 DEF Holds
<1>8. ASSUME ~Given(t)' PROVE Fixed(t)
  <2>1. ASSUME NEW w \in User PROVE Packed(t, w)' <=> Packed(t, w)
    <3>1. CASE w # v
      BY <1>3, <1>6, <1>7, <3>1 DEF Packed
    <3>2. CASE w = v /\ \E q \in Player : user[q] = v /\ Holds(q)
      BY <1>3, <1>7, <3>2 DEF Packed
    <3>3. CASE w = v /\ ~\E q \in Player : user[q] = v /\ Holds(q)
      <4>1. t \in self[p].pack <=> t \in Filed(v)
        BY <1>4, <1>5, <1>8, <3>3
      <4>2. (Packed(t, v) <=> t \in Filed(v)) /\ (Packed(t, v)' <=> (t \in Filed(v))')
        BY <1>7, <3>3 DEF Packed
      <4> QED
        BY <1>6, <3>3, <4>1, <4>2
    <3> QED
      BY <3>1, <3>2, <3>3
  <2> QED
    BY <1>3, <2>1 DEF Fixed, Has, Due
<1>9. ASSUME ~Given(t)' PROVE Alike(t)'
  <2>1. Alike(t)
    BY <1>9, GivenGrows DEF Fares, WorldGoes
  <2>2. FilesAgree(t)'
    BY <1>1, <1>2 DEF FilesAgree
  <2>3. \A q \in Player : PackAgrees(t, q)
    BY <2>1 DEF Alike
  <2>4. Holds(p) /\ v \in past.twice => t \notin self[p].pack
    BY <2>3 DEF PackAgrees
  <2>5. ASSUME NEW q \in Player PROVE PackAgrees(t, q)'
    <3>1. PackAgrees(t, q)
      BY <2>3
    <3>2. CASE user[q] # v
      BY <1>1, <1>2, <1>3, <1>5, <1>6, <1>7, <3>1, <3>2 DEF PackAgrees
    <3>3. CASE q = p
      BY <1>2, <1>3, <1>5, <1>6, <1>7, <3>1, <3>3 DEF PackAgrees
    <3>4. CASE user[q] = v /\ q # p /\ Holds(p)
      <4>1. Holds(q) => t \notin self[q].pack /\ t \notin self[p].pack
        BY <2>4, <3>1, <3>4 DEF TwiceNoted, PackAgrees
      <4> QED
        BY <1>2, <1>3, <1>5, <1>6, <1>7, <3>1, <3>4, <4>1 DEF PackAgrees, Holds
    <3>5. CASE user[q] = v /\ q # p /\ self[p].at \in {"left", "gone"}
      <4>1. t \in self[p].pack <=> t \in Filed(v)
        BY <1>5, <1>9, <3>5
      <4>2. self[q].at = "saving" => (t \in self[p].pack <=> t \in self[q].file.pack)
        <5>1. self[q].at = "saving" => q \in After
          BY <3>5 DEF Siblings, Holds
        <5> QED
          BY <1>5, <1>9, <3>5, <5>1
      <4> QED
        BY <1>2, <1>3, <1>5, <1>6, <1>7, <3>1, <3>5, <4>1, <4>2 DEF PackAgrees
    <3> QED
      BY <1>4, <3>2, <3>3, <3>4, <3>5
  <2>6. TwiceBare(t)'
    <3>1. v \in past.twice => t \notin self[p].pack
      BY <1>2, <1>4, <1>5, <1>9, <2>1, <2>4 DEF Alike, TwiceBare
    <3> QED
      BY <1>2, <1>5, <1>6, <2>1, <3>1 DEF Alike, TwiceBare
  <2> QED
    BY <2>2, <2>5, <2>6 DEF Alike
<1>10. ASSUME Quiet(t)' PROVE Rests(t)'
  <2>1. Rests(t) /\ Fixed(t)
    BY <1>5, <1>8, <1>10 DEF Fares
  <2>2. ASSUME NEW k, NEW x, Lying(k, x), t \in past'.safe \/ Covered(FileFor(k, x))'
        PROVE  RestsAt(t, k, x)'
    <3>1. FileFor(k, x)' = FileFor(k, x) /\ FileFor(k, x) \in File
      BY <2>2 DEF FileFor, Lying, File
    <3>2. CASE FileFor(k, x) # v
      <4>1. Covered(FileFor(k, x))' => Covered(FileFor(k, x))
        BY <1>1, <3>1, <3>2 DEF Covered
      <4> QED
        BY <1>1, <1>5, <2>1, <2>2, <3>1, <3>2, <4>1, RestsThere
    <3>3. CASE FileFor(k, x) = v
      <4>1. k = "pack" /\ x = v
        BY <1>2, <2>2, <3>3, PackFile
      <4>2. At(t, k, x)' <=> t \in self[p].pack
        BY <1>1, <1>2, <2>1, <4>1, FixedAt DEF Rests, RestsLeft, At
      <4> QED
        BY <1>1, <1>2, <3>1, <3>3, <4>1, <4>2 DEF RestsAt, Says
    <3> QED
      BY <3>2, <3>3
  <2>3. RestsMobs(t)'
    BY <1>1 DEF RestsMobs
  <2>4. RestsLeft(t)'
    <3>1. saver.left \subseteq Player
      BY DEF Types, FileTypes
    <3> QED
      BY <1>1, <1>2, <1>3, <2>1, <3>1 DEF Rests, RestsLeft, Fixed
  <2> QED
    BY <2>2, <2>3, <2>4 DEF Rests
<1> QED
  BY <1>5, <1>8, <1>9, <1>10, FixedFares DEF WorldGoes

\* Whatever the saver does, each thing fares on.
LEMMA SavingFares ==
  ASSUME LivesAssumption, NothingAssumption, LivesInv, Order, WorldGoes, NEW t \in Thing, Fares(t), Saving
  PROVE  Fares(t)'
<1>1. /\ Types /\ DeadOrAlive /\ TwiceNoted /\ TableTrue /\ SaverInOrder /\ Grows
  BY DEF LivesInv, Order, WorldGoes
<1>2. CASE \E p \in Player : SavePlayer(p)
  BY <1>1, <1>2, SavePlayerFares
<1>3. CASE ~\E p \in Player : SavePlayer(p)
  <2>1. Fixed(t) /\ (Alike(t) => Alike(t)')
    BY <1>1, <1>3, SaverAloof, SavedAlike
  <2>2. UNCHANGED <<self, mob, ground, chest>> /\ (UNCHANGED past \/ SaveContainers \/ Saved)
    BY <1>1, <1>3, SaverLeaves
  <2>3. CASE Saved
    BY <1>1, <2>1, <2>3, SavedFares
  <2>4. CASE SaveContainers
    <3>1. past' = [past EXCEPT !.stirred = {}]
      BY <2>4 DEF SaveContainers
    <3>2. \A x \in {"safe", "home", "cut", "lost"} : past'[x] = past[x]
      BY <1>1, <3>1 DEF Types, PeopleTypes, Proper, PastFields
    <3>3. Rests(t)'
      BY <1>1, <2>1, <2>2, <2>4, <3>2, SaveContainersRests DEF Fares
    <3>4. ~Given(t)' => Alike(t)'
      BY <2>1, <1>1, GivenGrows DEF Fares
    <3> QED
      BY <1>1, <2>1, <3>2, <3>3, <3>4, FixedFares
  <2>5. CASE UNCHANGED past /\ (SavePut \/ SavePlayers \/ SaveMobs \/ SaveItems \/ SaveMeta)
    <3>1. (Quiet(t)' <=> Quiet(t)) /\ (Given(t)' <=> Given(t))
      BY <2>5 DEF Quiet, Given
    <3>2. Quiet(t) => ~Given(t)
      BY DEF Quiet, Given
    <3>3. Quiet(t)' => Rests(t)'
      BY <1>1, <2>1, <2>2, <2>5, <3>1, <3>2, SavePutRests, SavePlayersRests, SaveMobsRests, SaveItemsRests, SaveMetaRests
      DEF Fares
    <3> QED
      BY <1>1, <2>1, <2>5, <3>1, <3>3, FixedFares DEF Fares
  <2> QED
    BY <1>3, <2>2, <2>3, <2>4, <2>5 DEF Saving
<1> QED
  BY <1>2, <1>3

\* A safe thing whose files are whole is in no torn one.
LEMMA SafeIsWhole ==
  ASSUME LivesAssumption, NEW t \in Thing, Fares(t), t \in past.safe, t \notin TornThings,
         NEW k, NEW x, Lying(k, x), At(t, k, x)
  PROVE  disk[FileFor(k, x)] # Torn
<1>1. \A w \in Places(t) : disk[FileOf(w)] # Torn
  BY DEF Fares, Homed, TornThings
<1>2. CASE k = "pack" /\ x \in User
  <2>1. <<"pack", x>> \in Places(t)
    BY <1>2, PlacesAre DEF At
  <2> QED
    BY <1>1, <1>2, <2>1 DEF FileOf, FileFor
<1>3. CASE k = "ground" /\ x = None
  <2>1. <<"ground", None>> \in Places(t)
    BY <1>3, PlacesAre DEF At
  <2> QED
    BY <1>1, <1>3, <2>1 DEF FileOf, FileFor
<1>4. CASE k = "chest" /\ x = None
  <2>1. <<"chest", None>> \in Places(t)
    BY <1>4, PlacesAre DEF At
  <2> QED
    BY <1>1, <1>4, <2>1 DEF FileOf, FileFor
<1>5. CASE k = "mob" /\ x \in Body
  <2>1. <<"mob", None>> \in Places(t)
    BY <1>5, PlacesAre DEF At
  <2> QED
    BY <1>1, <1>5, <2>1 DEF FileOf, FileFor
<1> QED
  BY <1>2, <1>3, <1>4, <1>5 DEF Lying

\* So it is where its file says, and what no file says it is in has it not.
LEMMA SafeIsOnDisk ==
  ASSUME LivesAssumption, NEW t \in Thing, Fares(t), t \in past.safe, t \notin TornThings,
         NEW k, NEW x, Lying(k, x)
  PROVE  At(t, k, x) <=> disk[FileFor(k, x)] # Torn /\ OnDisk(t, k, x)
<1>1. RestsAt(t, k, x)
  BY DEF Fares, Rests
<1> QED
  BY <1>1, SafeIsWhole DEF RestsAt

\* And nobody carries it.
LEMMA SafeLies ==
  ASSUME LivesAssumption, NEW t \in Thing, Fares(t), t \in past.safe
  PROVE  /\ \A u \in Thread : t \notin step[u].bag
         /\ ~Due(t)
<1>1. Sole(t) /\ Places(t) # {}
  BY DEF Fares, Quiet, Given, Homed
<1>2. PICK k, x : \A j, y : At(t, j, y) <=> j = k /\ y = x
  BY <1>1 DEF Sole
<1>3. \E j \in {"pack", "ground", "chest", "mob"} : \E y : At(t, j, y)
  BY <1>1, PlacesAre DEF At
<1>4. k \notin {"bag", "due"}
  BY <1>2, <1>3
<1>5. \A u \in Thread : ~At(t, "bag", u)
  BY <1>2, <1>4
<1>6. ~At(t, "due", None)
  BY <1>2, <1>4
<1> QED
  BY <1>5, <1>6 DEF At

\* What a restart reads.
LEMMA RestartDoes ==
  ASSUME Restart
  PROVE  LET saved == Read("entities", [mobs |-> {}, items |-> {}])
             back(b) == {m \in saved.mobs : m.body = b}
         IN  /\ ground' = saved.items /\ chest' = Read("containers", {})
             /\ \A b \in Body :
                  /\ back(b) # {} => LET m == CHOOSE m \in back(b) : TRUE
                                     IN  mob'[b] = [Born(m.kind, m.loot) EXCEPT !.health = m.health]
                  /\ back(b) = {} => mob'[b] \in {Unborn, Gone}
             /\ todo' = <<>> /\ saver' = Resting /\ disk' = disk
             /\ step' = [u \in Thread |-> Still]
             /\ self' = [p \in Player |-> IF self[p].at = "new" THEN self[p] ELSE [Fresh EXCEPT !.at = "gone"]]
  BY DEF Restart

\* Nobody holds a pack then, and the saver has begun no file.
LEMMA RestartEmpties ==
  ASSUME LivesAssumption, Types, Restart
  PROVE  /\ \A p \in Player : self'[p].at \in {"new", "gone"} /\ ~Holds(p)'
         /\ saver'.at = "idle" /\ saver'.left = {} /\ saver'.file = None
         /\ \A v \in User : Filed(v)' = Stored(v) /\ Stored(v)' = Stored(v)
<1>1. saver' = Resting /\ disk' = disk
  BY RestartDoes
<1>2. saver'.at = "idle" /\ saver'.left = {} /\ saver'.file = None
  BY <1>1 DEF Resting
<1>3. ASSUME NEW p \in Player PROVE self'[p].at \in {"new", "gone"} /\ ~Holds(p)'
  <2>1. self' = [q \in Player |-> IF self[q].at = "new" THEN self[q] ELSE [Fresh EXCEPT !.at = "gone"]]
    BY RestartDoes
  <2>2. [Fresh EXCEPT !.at = "gone"].at = "gone"
    BY DEF Fresh
  <2>3. self'[p].at \in {"new", "gone"}
    BY <2>1, <2>2
  <2> QED
    BY <2>3 DEF Holds
<1>4. ASSUME NEW v \in User PROVE Filed(v)' = Stored(v) /\ Stored(v)' = Stored(v)
  <2>1. v # None
    BY DEF LivesAssumption
  <2> QED
    BY <1>1, <1>2, <2>1 DEF Filed, Stored
<1> QED
  BY <1>2, <1>3, <1>4

\* A safe thing in a mob comes back with it ...
LEMMA RestartMobs ==
  ASSUME LivesAssumption, Types, OneSavedEach, Restart, NEW t \in Thing, NEW b \in Body,
         disk["entities"] # Torn
  PROVE  Has(b, t)' <=> OnDisk(t, "mob", b)
<1> DEFINE saved == Read("entities", [mobs |-> {}, items |-> {}])
           back == {m \in saved.mobs : m.body = b}
           one == CHOOSE m \in back : TRUE
<1>1. saved.mobs \subseteq SavedMob /\ OneEach(saved.mobs)
  <2>1. OneEach({}) /\ [mobs |-> {}, items |-> {}].mobs = {}
    BY DEF OneEach
  <2> QED
    BY <2>1, SavedEntities DEF Read, OneSavedEach
<1>2. /\ back # {} => mob'[b] = [Born(one.kind, one.loot) EXCEPT !.health = one.health]
      /\ back = {} => mob'[b] \in {Unborn, Gone}
  BY RestartDoes
<1>3. OnDisk(t, "mob", b) <=> \E m \in back : m.loot = t
  <2>1. OnDisk(t, "mob", b) <=> disk["entities"] # None /\ \E m \in disk["entities"].mobs : m.body = b /\ m.loot = t
    BY DEF OnDisk, FileFor, Says
  <2>2. CASE disk["entities"] = None
    <3>1. saved.mobs = {}
      BY <2>2 DEF Read
    <3> QED
      BY <2>1, <2>2, <3>1
  <2>3. CASE disk["entities"] # None
    <3>1. saved = disk["entities"]
      BY <2>3 DEF Read
    <3> QED
      BY <2>1, <2>3, <3>1
  <2> QED
    BY <2>2, <2>3
<1>4. Unborn.at = "unborn" /\ Gone.at = "gone"
  BY NobodyTyped
<1> HIDE DEF saved
<1>5. CASE back = {}
  <2>1. mob'[b].at # "here"
    BY <1>2, <1>4, <1>5
  <2> QED
    BY <1>3, <1>5, <2>1 DEF Has
<1>6. CASE back # {}
  <2>1. one \in back /\ \A m \in back : m = one
    BY <1>1, <1>6 DEF OneEach
  <2> HIDE DEF one
  <2>2. one \in SavedMob
    BY <1>1, <2>1
  <2>3. one.kind \in Kind /\ one.loot \in Thing \cup {None}
    BY <2>2 DEF SavedMob
  <2>4. /\ [Born(one.kind, one.loot) EXCEPT !.health = one.health].at = "here"
        /\ [Born(one.kind, one.loot) EXCEPT !.health = one.health].loot = one.loot
    BY DEF Born, Unborn
  <2>5. mob'[b].at = "here" /\ mob'[b].loot = one.loot
    BY <1>2, <1>6, <2>4
  <2> QED
    BY <1>3, <1>6, <2>1, <2>5 DEF Has
<1> QED
  BY <1>5, <1>6

\* ... and so does each that is safe, in files that are whole: it is where it was.
LEMMA SafeReturns ==
  ASSUME LivesAssumption, Types, OneSavedEach, Restart, NEW t \in Thing, Fares(t),
         t \in past.safe, t \notin TornThings
  PROVE  Fixed(t)
<1>1. ASSUME NEW v \in User PROVE Packed(t, v)' <=> Packed(t, v)
  <2>1. Packed(t, v)' <=> t \in Stored(v)
    BY RestartEmpties DEF Packed
  <2>2. Lying("pack", v) /\ FileFor("pack", v) = v
    BY <1>1 DEF Lying, FileFor
  <2>3. At(t, "pack", v) <=> disk[v] # Torn /\ OnDisk(t, "pack", v)
    BY <2>2, SafeIsOnDisk
  <2>4. At(t, "pack", v) <=> Packed(t, v)
    BY DEF At
  <2>5. OnDisk(t, "pack", v) <=> disk[v] # None /\ t \in disk[v].pack
    BY <2>2 DEF OnDisk, Says
  <2> QED
    BY <2>1, <2>3, <2>4, <2>5 DEF Stored
<1>2. ASSUME NEW b \in Body PROVE Has(b, t)' <=> Has(b, t)
  <2>1. Lying("mob", b) /\ FileFor("mob", b) = "entities"
    BY DEF Lying, FileFor
  <2>2. At(t, "mob", b) <=> disk["entities"] # Torn /\ OnDisk(t, "mob", b)
    BY <2>1, SafeIsOnDisk
  <2>3. At(t, "mob", b) <=> Has(b, t)
    BY DEF At
  <2>4. CASE disk["entities"] = Torn
    <3>1. Read("entities", [mobs |-> {}, items |-> {}]).mobs = {}
      BY <2>4 DEF Read
    <3>2. mob'[b] \in {Unborn, Gone}
      BY <3>1, RestartDoes
    <3>3. Unborn.at = "unborn" /\ Gone.at = "gone"
      BY NobodyTyped
    <3> QED
      BY <2>2, <2>3, <2>4, <3>2, <3>3 DEF Has
  <2>5. CASE disk["entities"] # Torn
    BY <2>2, <2>3, <2>5, RestartMobs
  <2> QED
    BY <2>4, <2>5
<1>3. t \in ground' <=> t \in ground
  <2>1. Lying("ground", None) /\ FileFor("ground", None) = "entities"
    BY DEF Lying, FileFor
  <2>2. At(t, "ground", None) <=> disk["entities"] # Torn /\ OnDisk(t, "ground", None)
    BY <2>1, SafeIsOnDisk
  <2>3. At(t, "ground", None) <=> t \in ground
    BY DEF At
  <2>4. OnDisk(t, "ground", None) <=> disk["entities"] # None /\ t \in disk["entities"].items
    BY <2>1 DEF OnDisk, Says
  <2>5. ground' = Read("entities", [mobs |-> {}, items |-> {}]).items
    BY RestartDoes
  <2> QED
    BY <2>2, <2>3, <2>4, <2>5 DEF Read
<1>4. t \in chest' <=> t \in chest
  <2>1. Lying("chest", None) /\ FileFor("chest", None) = "containers"
    BY DEF Lying, FileFor
  <2>2. At(t, "chest", None) <=> disk["containers"] # Torn /\ OnDisk(t, "chest", None)
    BY <2>1, SafeIsOnDisk
  <2>3. At(t, "chest", None) <=> t \in chest
    BY DEF At
  <2>4. OnDisk(t, "chest", None) <=> disk["containers"] # None /\ t \in disk["containers"]
    BY <2>1 DEF OnDisk, Says
  <2>5. chest' = Read("containers", {})
    BY RestartDoes
  <2> QED
    BY <2>2, <2>3, <2>4, <2>5 DEF Read
<1>5. \A u \in Thread : t \in step'[u].bag <=> t \in step[u].bag
  <2>1. step' = [u \in Thread |-> Still] /\ Still.bag = {}
    BY RestartDoes DEF Still
  <2> QED
    BY <2>1, SafeLies
<1>6. Due(t)' <=> Due(t)
  <2>1. todo' = <<>> /\ ~Due(t)
    BY RestartDoes, SafeLies
  <2> QED
    BY <2>1 DEF Due
<1> QED
  BY <1>1, <1>2, <1>3, <1>4, <1>5, <1>6 DEF Fixed

\* What counts after a restart is what was safe, and is in files that are whole.
LEMMA RestartGives ==
  ASSUME Types, Restart, NEW t \in Thing, ~Given(t)'
  PROVE  t \in past.safe /\ t \notin TornThings /\ t \in past'.safe
BY RestartFates DEF Given

\* So each thing fares on through a restart.
LEMMA RestartFares ==
  ASSUME LivesAssumption, NothingAssumption, Types, OneSavedEach, Grows, Restart, NEW t \in Thing, Fares(t)
  PROVE  Fares(t)'
<1>1. /\ \A p \in Player : self'[p].at \in {"new", "gone"} /\ ~Holds(p)'
      /\ saver'.at = "idle" /\ saver'.left = {} /\ saver'.file = None
      /\ \A v \in User : Filed(v)' = Stored(v) /\ Stored(v)' = Stored(v)
  BY RestartEmpties
<1>2. past'.safe \subseteq past.safe /\ past'.home = past.home /\ past'.twice = past.twice
  BY RestartFates
<1>3. disk' = disk
  BY RestartDoes
<1>4. ASSUME ~Given(t)' PROVE Fixed(t) /\ Alike(t)' /\ Rests(t)'
  <2>1. t \in past.safe /\ t \notin TornThings
    BY <1>4, RestartGives
  <2>2. Fixed(t)
    BY <2>1, SafeReturns
  <2>3. Alike(t) /\ Rests(t)
    BY <2>1 DEF Fares, Quiet, Given
  <2>4. FilesAgree(t)'
    <3>1. \A v \in User : v # None
      BY DEF LivesAssumption
    <3> QED
      BY <1>1, <3>1 DEF FilesAgree
  <2>5. ASSUME NEW p \in Player PROVE PackAgrees(t, p)'
    BY <1>1 DEF PackAgrees
  <2>6. TwiceBare(t)'
    BY <1>1, <1>2, <2>3 DEF Alike, TwiceBare
  <2>7. ASSUME NEW k, NEW x, Lying(k, x) PROVE RestsAt(t, k, x)'
    <3>1. FileFor(k, x) # None
      BY <2>7 DEF FileFor, Lying, LivesAssumption, NothingAssumption
    <3> QED
      BY <1>1, <1>3, <2>1, <2>2, <2>3, <2>7, <3>1, RestsThere
  <2>8. RestsMobs(t)' /\ RestsLeft(t)'
    BY <1>1 DEF RestsMobs, RestsLeft
  <2> QED
    BY <2>2, <2>4, <2>5, <2>6, <2>7, <2>8 DEF Alike, Rests
<1>5. Quiet(t)' => ~Given(t)'
  BY DEF Quiet, Given
<1> QED
  BY <1>2, <1>4, <1>5, FixedFares

\* Whatever the step, each thing fares on.
LEMMA FaresStep ==
  ASSUME LivesAssumption, NothingAssumption, LivesInv, Order, WorldGoes, NEW t \in Thing, Fares(t)
  PROVE  Fares(t)'
<1>1. Types /\ OneSavedEach /\ TwiceNoted /\ SaverInOrder /\ Grows
  BY DEF LivesInv, Villages, Order, WorldGoes
<1>2. CASE Handling
  BY <1>2, HandlingFares
<1>3. ASSUME NEW p \in Player, Load(p) PROVE Fares(t)'
  BY <1>1, <1>3, LoadFares
<1>4. ASSUME NEW p \in Player, Leave(p) PROVE Fares(t)'
  BY <1>1, <1>4, LeaveFares
<1>5. ASSUME NEW p \in Player, WriteFile(p) PROVE Fares(t)'
  BY <1>1, <1>5, WriteFileFares
<1>6. ASSUME NEW p \in Player, remove_player(p) PROVE Fares(t)'
  BY <1>1, <1>6, RemoveFares
<1>7. CASE Saving
  BY <1>7, SavingFares
<1>8. CASE Restart
  BY <1>1, <1>8, RestartFares
<1>9. CASE ~Handling /\ ~Loading /\ ~Leaving /\ ~Departing /\ ~Saving /\ ~Restart
  BY <1>1, <1>9, QuietFares
<1> QED
  BY <1>2, <1>3, <1>4, <1>5, <1>6, <1>7, <1>8, <1>9 DEF Loading, Leaving, Departing

(***************************************************************************)
(* The clock.                                                              *)
(***************************************************************************)

\* A time that is to be stored is the first job of the loop.
LEMMA StoringIs ==
  ASSUME LoopTypes, ClockNoted, NEW i \in DOMAIN todo, todo[i].do = "store"
  PROVE  Storing /\ i = 1 /\ Head(todo) = todo[1]
<1>1. i = 1
  BY DEF ClockNoted
<1>2. todo \in Seq(AJob) /\ todo # <<>>
  <2>1. DOMAIN <<>> = {}
    OBVIOUS
  <2> QED
    BY <2>1 DEF LoopTypes
<1>3. Head(todo) = todo[1]
  BY <1>2, FirstJob
<1> QED
  BY <1>1, <1>2, <1>3 DEF Storing

\* Jobs that are not for the clock bring none that is.
LEMMA NothingToStore ==
  ASSUME LoopTypes, ClockNoted, LoopGoes, ~Clock, ~Store, ~Restart, ~UNCHANGED todo
  PROVE  ~Storing /\ \A i \in DOMAIN todo' : todo'[i].do # "store"
<1>1. CASE Starting
  BY <1>1 DEF Starting, LoopFree, Storing
<1>2. CASE GoingOn
  <2>1. PICK more \in Seq(AJob) : New(more) /\ Done(more)
    BY <1>2 DEF GoingOn
  <2>2. todo \in Seq(AJob) /\ todo # <<>> /\ Head(todo).do # "store"
    BY <1>2 DEF GoingOn, LoopTypes
  <2>3. \A i \in DOMAIN todo' :
          \/ i \in DOMAIN more /\ todo'[i] = more[i]
          \/ \E k \in DOMAIN todo : k > 1 /\ i = Len(more) + k - 1 /\ todo'[i] = todo[k]
    BY <2>1, <2>2, DoneJobs
  <2>4. \A k \in DOMAIN todo : todo[k].do # "store"
    BY <2>2, StoringIs
  <2>5. \A i \in DOMAIN more : more[i].do # "store"
    BY <2>1 DEF New
  <2> QED
    BY <2>2, <2>3, <2>4, <2>5 DEF Storing
<1> QED
  BY <1>1, <1>2 DEF LoopGoes

\* What the steps of the clock, and a restart, do to it.
LEMMA ClockDoes ==
  ASSUME Types
  PROVE  /\ Clock => /\ LoopFree /\ sky' = sky
                     /\ todo' = <<Job("store", None, (sky.time + 1) % Day)>>
                     /\ past'.clock = ((IF past.missed THEN sky.time ELSE past.clock) + 1) % Day
                     /\ past'.missed = FALSE
         /\ Store => /\ Storing /\ Done(<<>>) /\ sky'.time = Head(todo).arg /\ past' = past
         /\ \A p \in Player : Sleep(p) =>
              todo' = todo /\ sky'.time = past'.clock /\ past'.missed = Storing
         /\ Restart => todo' = <<>> /\ (past'.missed \/ sky'.time = past'.clock)
<1>1. Proper(past) /\ sky \in [time : Nat, raining : BOOLEAN]
  BY DEF Types, PeopleTypes, LoopTypes
<1>2. ASSUME Clock
      PROVE  /\ LoopFree /\ sky' = sky
             /\ todo' = <<Job("store", None, (sky.time + 1) % Day)>>
             /\ past'.clock = ((IF past.missed THEN sky.time ELSE past.clock) + 1) % Day
             /\ past'.missed = FALSE
  <2>1. past' = [past EXCEPT !.clock = ((IF past.missed THEN sky.time ELSE @) + 1) % Day, !.missed = FALSE]
    BY <1>2 DEF Clock
  <2>2. past'.missed = FALSE
    BY <1>1, <2>1, Zenon DEF Proper, PastFields
  <2>3. past'.clock = ((IF past.missed THEN sky.time ELSE past.clock) + 1) % Day
    <3> DEFINE c == ((IF past.missed THEN sky.time ELSE past.clock) + 1) % Day
    <3>1. past' = [past EXCEPT !.clock = c, !.missed = FALSE]
      BY <2>1
    <3> HIDE DEF c
    <3>2. past'.clock = c
      BY <1>1, <3>1 DEF Proper, PastFields
    <3> QED
      BY <3>2 DEF c
  <2> QED
    BY <1>2, <2>2, <2>3 DEF Clock
<1>3. ASSUME Store
      PROVE  Storing /\ Done(<<>>) /\ sky'.time = Head(todo).arg /\ past' = past
  BY <1>1, <1>3 DEF Store, Do, Storing
<1>4. ASSUME NEW p \in Player, Sleep(p)
      PROVE  todo' = todo /\ sky'.time = past'.clock /\ past'.missed = Storing
  <2>1. PICK t : set_time(t)
    BY <1>4 DEF Sleep
  <2>2. past' = [past EXCEPT !.clock = t, !.missed = Storing] /\ sky' = [sky EXCEPT !.time = t]
    BY <2>1 DEF set_time
  <2>3. past'.missed = Storing
    BY <1>1, <2>2, Zenon DEF Proper, PastFields
  <2>4. past'.clock = t /\ sky'.time = t
    <3> DEFINE s == Storing
    <3>1. past' = [past EXCEPT !.clock = t, !.missed = s]
      BY <2>2
    <3> HIDE DEF s
    <3> QED
      BY <1>1, <2>2, <3>1 DEF Proper, PastFields
  <2> QED
    BY <1>4, <2>3, <2>4 DEF Sleep
<1>5. ASSUME Restart
      PROVE  todo' = <<>> /\ (past'.missed \/ sky'.time = past'.clock)
  <2>1. sky' = [time |-> IF Read("meta", Morning) = 0 THEN Morning ELSE Read("meta", Morning), raining |-> FALSE]
    BY <1>5 DEF Restart
  <2>2. past'.clock = Read("meta", Morning) /\ past'.missed = (Read("meta", Morning) = 0)
    BY <1>5, RestartFates
  <2> QED
    BY <1>5, <2>1, <2>2, RestartDoes
<1> QED
  BY <1>2, <1>3, <1>4, <1>5

\* The clock is what history says it is, after every step.
LEMMA ClockStep ==
  ASSUME LivesAssumption, LivesInv, WorldGoes, ClockNoted, ClockIsKept, [Next]_vars
  PROVE  ClockNoted' /\ ClockIsKept'
<1>1. Types /\ OldHands /\ LoversTame /\ LoopTypes /\ FatesGo /\ StoresGo
  BY DEF LivesInv, Types, Whereabouts, Villages, WorldGoes
<1>2. LoopGoes
  BY <1>1, LoopStep
<1>3. DOMAIN <<>> = {}
  OBVIOUS
<1>4. CASE Clock
  <2>1. /\ LoopFree /\ sky' = sky
        /\ todo' = <<Job("store", None, (sky.time + 1) % Day)>>
        /\ past'.clock = ((IF past.missed THEN sky.time ELSE past.clock) + 1) % Day
    BY <1>1, <1>4, ClockDoes
  <2>2. past.missed \/ sky.time = past.clock
    BY <2>1 DEF LoopFree, ClockIsKept, Storing
  <2>3. past'.clock = (sky.time + 1) % Day
    BY <2>1, <2>2
  <2> DEFINE j == Job("store", None, (sky.time + 1) % Day)
  <2>4. j.do = "store" /\ j.arg = past'.clock
    BY <2>3 DEF Job
  <2>5. todo' = <<j>>
    BY <2>1
  <2> HIDE DEF j
  <2>6. DOMAIN todo' = {1} /\ todo'[1] = j /\ todo' # <<>> /\ Head(todo') = j
    BY <2>5
  <2> QED
    BY <2>4, <2>6 DEF ClockNoted, ClockIsKept, Storing
<1>5. CASE Store
  <2>1. Storing /\ Done(<<>>) /\ sky'.time = Head(todo).arg /\ past' = past
    BY <1>1, <1>5, ClockDoes
  <2>2. todo \in Seq(AJob) /\ todo # <<>> /\ Head(todo).do = "store"
    BY <1>1, <2>1 DEF LoopTypes, Storing
  <2>3. Head(todo) = todo[1] /\ 1 \in DOMAIN todo
    BY <2>2, FirstJob
  <2>4. past.missed \/ Head(todo).arg = past.clock
    BY <2>2, <2>3 DEF ClockNoted
  <2>5. <<>> \in Seq(AJob) /\ DOMAIN <<>> = {}
    OBVIOUS
  <2>6. \A i \in DOMAIN todo' : \E k \in DOMAIN todo : k > 1 /\ todo'[i] = todo[k]
    <3>1. \A i \in DOMAIN todo' :
            \/ i \in DOMAIN <<>> /\ todo'[i] = <<>>[i]
            \/ \E k \in DOMAIN todo : k > 1 /\ i = Len(<<>>) + k - 1 /\ todo'[i] = todo[k]
      BY <2>1, <2>2, <2>5, DoneJobs
    <3> QED
      BY <2>5, <3>1
  <2>7. \A i \in DOMAIN todo' : todo'[i].do # "store"
    BY <2>6 DEF ClockNoted
  <2> QED
    BY <2>1, <2>4, <2>7 DEF ClockNoted, ClockIsKept
<1>6. CASE Sleeping
  <2>1. todo' = todo /\ sky'.time = past'.clock /\ past'.missed = Storing
    BY <1>1, <1>6, ClockDoes DEF Sleeping
  <2>2. \A i \in DOMAIN todo : todo[i].do = "store" => i = 1 /\ Storing
    BY <1>1, StoringIs
  <2> QED
    BY <2>1, <2>2 DEF ClockNoted, ClockIsKept
<1>7. CASE Restart
  <2>1. todo' = <<>> /\ (past'.missed \/ sky'.time = past'.clock)
    BY <1>1, <1>7, ClockDoes
  <2> QED
    BY <1>3, <2>1 DEF ClockNoted, ClockIsKept
<1>8. CASE ~Clock /\ ~Store /\ ~Sleeping /\ ~Restart
  <2>1. sky'.time = sky.time /\ past'.clock = past.clock /\ past'.missed = past.missed
    BY <1>1, <1>8 DEF FatesGo, StoresGo, Hours
  <2>2. CASE UNCHANGED todo
    BY <2>1, <2>2 DEF ClockNoted, ClockIsKept, Storing
  <2>3. CASE ~UNCHANGED todo
    <3>1. ~Storing /\ \A i \in DOMAIN todo' : todo'[i].do # "store"
      BY <1>1, <1>2, <1>8, <2>3, NothingToStore
    <3> QED
      BY <2>1, <3>1 DEF ClockNoted, ClockIsKept
  <2> QED
    BY <2>2, <2>3
<1> QED
  BY <1>4, <1>5, <1>6, <1>7, <1>8

(***************************************************************************)
(* Things at the start, and always.                                        *)
(***************************************************************************)

\* At first nobody is given anything, or has anything in hand, and nothing is saved.
LEMMA InitHands ==
  ASSUME LivesAssumption, Init
  PROVE  /\ \A u \in Thread : step[u].bag = {}
         /\ todo = <<>> /\ DOMAIN todo = {} /\ saver.at = "idle" /\ saver.left = {} /\ saver.file = None
         /\ \A f \in File : disk[f] = None
         /\ \A v \in User : Filed(v) = {} /\ Stored(v) = {}
<1>1. /\ disk = [f \in File |-> None] /\ step = [u \in Thread |-> Still]
      /\ todo = <<>> /\ saver = Resting
  BY InitParts
<1>2. Still.bag = {} /\ saver.at = "idle" /\ saver.left = {} /\ saver.file = None
  BY <1>1 DEF Still, Resting
<1>3. ASSUME NEW v \in User PROVE Filed(v) = {} /\ Stored(v) = {}
  <2>1. v # None /\ v \in File
    BY DEF LivesAssumption, File
  <2> QED
    BY <1>1, <1>2, <2>1 DEF Filed, Stored
<1> QED
  BY <1>1, <1>2, <1>3

\* What history says of things at first.
LEMMA InitFates ==
  ASSUME Init
  PROVE  /\ past.twice = {} /\ past.stirred = {} /\ past.safe = {} /\ past.cut = {}
         /\ past.lost = {t \in Thing : Places(t) = {}}
         /\ past.clock = Morning /\ past.missed = FALSE
<1> DEFINE l == {t \in Thing : Places(t) = {}}
<1>1. past = [crossed |-> {}, milked |-> {}, undead |-> {}, overfed |-> {}, misled |-> {}, ghosts |-> {},
              leaked |-> {}, ousted |-> {}, strayed |-> {}, twice |-> {}, stirred |-> {}, safe |-> {},
              home |-> <<>>, cut |-> {}, lost |-> l, clock |-> Morning, missed |-> FALSE]
  BY Zenon DEF Init
<1> HIDE DEF l
<1>2. /\ past.twice = {} /\ past.stirred = {} /\ past.safe = {} /\ past.cut = {}
      /\ past.lost = l /\ past.clock = Morning /\ past.missed = FALSE
  BY <1>1
<1> QED
  BY <1>2 DEF l

\* Who is there at first, one of each user ...
LEMMA InitPeople ==
  ASSUME LivesAssumption, NEW scene \in Scenes,
         self = [p \in Player |-> IF p \in scene.here
                                  THEN [Fresh EXCEPT !.at = "play", !.pack = scene.pack[p]] ELSE Fresh]
  PROVE  /\ \A p \in Player : /\ self[p].at \in {"new", "play"}
                              /\ Holds(p) <=> p \in scene.here
                              /\ self[p].at = "play" <=> p \in scene.here
                              /\ Holds(p) => self[p].pack = scene.pack[p]
         /\ \A p, q \in Player : Holds(p) /\ Holds(q) /\ user[p] = user[q] => p = q
<1>1. ASSUME NEW p \in Player
      PROVE  /\ self[p].at \in {"new", "play"}
             /\ Holds(p) <=> p \in scene.here
             /\ self[p].at = "play" <=> p \in scene.here
             /\ Holds(p) => self[p].pack = scene.pack[p]
  <2>1. CASE p \in scene.here
    <3>1. self[p] = [Fresh EXCEPT !.at = "play", !.pack = scene.pack[p]]
      BY <2>1
    <3>2. self[p].at = "play" /\ self[p].pack = scene.pack[p]
      BY <3>1 DEF Fresh
    <3> QED
      BY <2>1, <3>2 DEF Holds
  <2>2. CASE p \notin scene.here
    <3>1. self[p] = Fresh
      BY <2>2
    <3>2. self[p].at = "new"
      BY <3>1 DEF Fresh
    <3> QED
      BY <2>2, <3>2 DEF Holds
  <2> QED
    BY <2>1, <2>2
<1>2. \A p, q \in scene.here : user[p] = user[q] => p = q
  BY ScenesAssumption, Zenon
<1> QED
  BY <1>1, <1>2

\* ... has what the scene gives it, and so with all else.
LEMMA InitLots ==
  ASSUME LivesAssumption, Init, NEW t \in Thing
  PROVE  \E k, y : \A j, z : At(t, j, z) => j = k /\ z = y
<1>1. PICK scene \in Scenes :
        /\ self = [p \in Player |-> IF p \in scene.here
                                    THEN [Fresh EXCEPT !.at = "play", !.pack = scene.pack[p]] ELSE Fresh]
        /\ mob = [b \in Body |-> IF b \in DOMAIN scene.mobs THEN scene.mobs[b] ELSE Unborn]
        /\ ground = scene.ground /\ chest = scene.chest
  BY InitScene, Zenon
<1>2. \A x, y \in Lots(scene, t) : x = y
  BY ScenesAssumption, Zenon
<1>3. \A p \in Player : (Holds(p) <=> p \in scene.here) /\ (Holds(p) => self[p].pack = scene.pack[p])
  BY <1>1, InitPeople
<1>4. scene.here \subseteq Player
  BY ScenesAssumption, Zenon
<1> DEFINE Slot(x, k, y) == \/ k = "pack" /\ \E p \in Player : x = <<"pack", p>> /\ y = user[p]
                            \/ k # "pack" /\ x = <<k, IF k = "mob" THEN y ELSE t>> /\ (k # "mob" => y = None)
<1>5. ASSUME NEW k, NEW y, At(t, k, y) PROVE \E x \in Lots(scene, t) : Slot(x, k, y)
  <2>1. CASE k = "pack" /\ y \in User /\ Packed(t, y)
    <3>1. t \notin Filed(y)
      BY <2>1, InitHands
    <3>2. PICK p \in Player : user[p] = y /\ Holds(p) /\ t \in self[p].pack
      BY <2>1, <3>1 DEF Packed
    <3>3. <<"pack", p>> \in Lots(scene, t)
      BY <1>3, <3>2 DEF Lots
    <3> QED
      BY <2>1, <3>2, <3>3
  <2>2. CASE k = "mob" /\ y \in Body /\ Has(y, t)
    <3>1. mob[y].at = "here" /\ mob[y].loot = t
      BY <2>2 DEF Has
    <3>2. y \in DOMAIN scene.mobs
      BY <1>1, <2>2, <3>1 DEF Unborn
    <3>3. scene.mobs[y].loot = t
      BY <1>1, <2>2, <3>1, <3>2
    <3>4. <<"mob", y>> \in Lots(scene, t)
      BY <3>2, <3>3 DEF Lots
    <3> QED
      BY <2>2, <3>4
  <2>3. CASE k = "ground" /\ y = None /\ t \in ground
    <3>1. <<"ground", t>> \in Lots(scene, t)
      BY <1>1, <2>3 DEF Lots
    <3> QED
      BY <2>3, <3>1
  <2>4. CASE k = "chest" /\ y = None /\ t \in chest
    <3>1. <<"chest", t>> \in Lots(scene, t)
      BY <1>1, <2>4 DEF Lots
    <3> QED
      BY <2>4, <3>1
  <2>5. ~(k = "bag" /\ y \in Thread /\ t \in step[y].bag) /\ ~(k = "due" /\ y = None /\ Due(t))
    BY InitHands DEF Due
  <2> QED
    BY <1>5, <2>1, <2>2, <2>3, <2>4, <2>5 DEF At
<1>6. ASSUME NEW x, NEW k, NEW y, NEW j, NEW z, Slot(x, k, y), Slot(x, j, z)
      PROVE  k = j /\ y = z
  BY <1>6
<1> HIDE DEF Slot
<1>7. CASE \E k, y : At(t, k, y)
  <2>1. PICK k, y : At(t, k, y)
    BY <1>7
  <2>2. PICK x \in Lots(scene, t) : Slot(x, k, y)
    BY <1>5, <2>1
  <2>3. ASSUME NEW j, NEW z, At(t, j, z) PROVE j = k /\ z = y
    <3>1. PICK w \in Lots(scene, t) : Slot(w, j, z)
      BY <1>5, <2>3
    <3>2. w = x
      BY <1>2, <2>2, <3>1
    <3> QED
      BY <1>6, <2>2, <3>1, <3>2
  <2> QED
    BY <2>3
<1>8. CASE \A k, y : ~At(t, k, y)
  BY <1>8
<1> QED
  BY <1>7, <1>8

\* At first each thing that is anywhere fares well.
LEMMA InitFares ==
  ASSUME LivesAssumption, Init, NEW t \in Thing
  PROVE  Fares(t)
<1>1. /\ past.twice = {} /\ past.stirred = {} /\ past.safe = {} /\ past.cut = {}
      /\ past.lost = {s \in Thing : Places(s) = {}}
  BY InitFates
<1>2. /\ saver.at = "idle" /\ saver.left = {} /\ saver.file = None
  BY InitHands
<1>3. ASSUME ~Given(t) PROVE Sole(t)
  <2>1. PICK k, y : \A j, z : At(t, j, z) => j = k /\ z = y
    BY InitLots
  <2>2. PICK w : w \in Places(t)
    BY <1>1, <1>3 DEF Given
  <2>3. \E j, z : At(t, j, z)
    BY <2>2, PlacesAre DEF At
  <2>4. \A j, z : At(t, j, z) <=> j = k /\ z = y
    BY <2>1, <2>3
  <2> QED
    BY <2>4 DEF Sole
<1>4. Alike(t)
  <2>1. \A p \in Player : self[p].at \in {"new", "play"}
    BY InitPlayers
  <2>2. \A v \in User : v # None
    BY DEF LivesAssumption
  <2> QED
    BY <1>1, <1>2, <2>1, <2>2 DEF Alike, FilesAgree, PackAgrees, TwiceBare
<1>5. Rests(t)
  <2>1. \A f : ~Covered(f)
    BY <1>2 DEF Covered
  <2> QED
    BY <1>1, <1>2, <2>1 DEF Rests, RestsMobs, RestsLeft
<1> QED
  BY <1>1, <1>3, <1>4, <1>5 DEF Fares

\* Nothing is out of order at first.
LEMMA InitOrder ==
  ASSUME LivesAssumption, Init
  PROVE  Order /\ ClockNoted /\ ClockIsKept
<1>1. PICK scene \in Scenes :
        /\ self = [p \in Player |-> IF p \in scene.here
                                    THEN [Fresh EXCEPT !.at = "play", !.pack = scene.pack[p]] ELSE Fresh]
        /\ table = scene.here
  BY InitScene, Zenon
<1>2. /\ \A p \in Player : self[p].at \in {"new", "play"} /\ (self[p].at = "play" <=> p \in scene.here)
      /\ \A p, q \in Player : Holds(p) /\ Holds(q) /\ user[p] = user[q] => p = q
  BY <1>1, InitPeople
<1>3. /\ \A u \in Thread : step[u].bag = {}
      /\ DOMAIN todo = {} /\ saver.at = "idle" /\ saver.left = {} /\ saver.file = None
  BY InitHands
<1>4. TwiceNoted
  BY <1>2 DEF TwiceNoted
<1>5. TableTrue
  BY <1>1, <1>2 DEF TableTrue
<1>6. SaverInOrder
  BY <1>3, NothingAssumption DEF SaverInOrder, LivesAssumption
<1>7. GivenOnce /\ EmptyHanded /\ ClockNoted
  BY <1>3 DEF GivenOnce, EmptyHanded, ClockNoted
<1>8. SafeThings
  BY InitFates DEF SafeThings
<1>9. ClockIsKept
  <2>1. sky = [time |-> Morning, raining |-> FALSE] /\ past.clock = Morning
    BY InitParts, InitFates
  <2> QED
    BY <2>1 DEF ClockIsKept
<1> QED
  BY <1>4, <1>5, <1>6, <1>7, <1>8, <1>9 DEF Order

\* Every step keeps all of that.
LEMMA ThingsStep ==
  ASSUME LivesAssumption, NothingAssumption, LivesInv, ThingsInv, [Next]_vars
  PROVE  ThingsInv'
<1>1. Order /\ (\A t \in Thing : Fares(t)) /\ ClockNoted /\ ClockIsKept
  BY DEF ThingsInv
<1>2. WorldGoes
  BY <1>1, EachStepGoes
<1>3. Order'
  BY <1>1, <1>2, OrderKept
<1>4. ASSUME NEW t \in Thing PROVE Fares(t)'
  BY <1>1, <1>2, FaresStep
<1>5. ClockNoted' /\ ClockIsKept'
  BY <1>1, <1>2, ClockStep
<1> QED
  BY <1>3, <1>4, <1>5 DEF ThingsInv

\* So it holds always: every thing is in one spot, and saved as it is, but for what is
\* accounted for no more.  (DropAll, tick_items, save_all, load_player, remove_player, run)
THEOREM ThingsInvariant == Spec => []ThingsInv
<1>1. Init => ThingsInv
  BY InitOrder, InitFares, LivesAssumption DEF ThingsInv
<1>2. LivesInv /\ ThingsInv /\ [Next]_vars => ThingsInv'
  BY ThingsStep, LivesAssumption, NothingAssumption
<1> QED
  BY <1>1, <1>2, LivesInvariant, PTL DEF Spec

\* A thing in one spot is in one place and in no hand, or in one hand and no place.
LEMMA SoleIsOnce ==
  ASSUME LivesAssumption, NEW t \in Thing, Sole(t)
  PROVE  Cardinality(Places(t)) + (IF Carried(t) THEN 1 ELSE 0) = 1
<1>1. PICK k, x : \A j, y : At(t, j, y) <=> j = k /\ y = x
  BY DEF Sole
<1>2. At(t, k, x)
  BY <1>1
<1>3. Carried(t) <=> (\E u \in Thread : At(t, "bag", u)) \/ At(t, "due", None)
  BY DEF Carried, At, Due
<1>4. CASE k \in {"bag", "due"}
  <2>1. Carried(t)
    BY <1>2, <1>3, <1>4 DEF At
  <2>2. Places(t) = {}
    <3>1. \A j, y : At(t, j, y) => j \in {"bag", "due"}
      BY <1>1, <1>4
    <3>2. ASSUME NEW w \in Places(t) PROVE FALSE
      <4>1. \E j \in {"pack", "ground", "chest", "mob"} : \E y : At(t, j, y)
        BY <3>2, PlacesAre DEF At
      <4> QED
        BY <3>1, <4>1
    <3> QED
      BY <3>2
  <2> QED
    BY <2>1, <2>2, FS_EmptySet
<1>5. CASE k \notin {"bag", "due"}
  <2>1. ~Carried(t)
    BY <1>1, <1>3, <1>5
  <2> DEFINE w == IF k = "pack" THEN <<"pack", x>> ELSE <<k, None>>
  <2>2. w \in Places(t)
    BY <1>2, <1>5, PlacesAre DEF At
  <2>3. ASSUME NEW v \in Places(t) PROVE v = w
    <3>1. \/ \E y \in User : At(t, "pack", y) /\ v = <<"pack", y>>
          \/ At(t, "ground", None) /\ v = <<"ground", None>>
          \/ At(t, "chest", None) /\ v = <<"chest", None>>
          \/ \E y \in Body : At(t, "mob", y) /\ v = <<"mob", None>>
      BY <2>3, PlacesAre DEF At
    <3> QED
      BY <1>1, <3>1
  <2> HIDE DEF w
  <2>4. Places(t) = {w}
    BY <2>2, <2>3
  <2>5. Cardinality({w}) = 1
    BY FS_Singleton, Zenon
  <2> QED
    BY <2>1, <2>4, <2>5
<1> QED
  BY <1>4, <1>5

(* Each thing is in one place or in one thread's hands, through deaths, pick-ups, leaving and
   restarts; what rested through a whole save and since is where it was, after any number of
   crashes; and the clock goes on from where it was set or saved: but for the races and the
   torn files history notes, and those alone.  (DropAll, tick_items, save_all,
   restore_entities, load_player, advance_time, set_time, run) *)
THEOREM NothingIsEverLost == Spec => []NothingIsLost
<1>1. ThingsInv => NothingIsLost
  <2>1. ASSUME ThingsInv PROVE OnceInTheWorld
    <3>1. ASSUME NEW t \in Thing, t \notin past.cut \cup past.lost
          PROVE  Cardinality(Places(t)) + (IF Carried(t) THEN 1 ELSE 0) = 1
      <4>1. Sole(t)
        BY <2>1, <3>1 DEF ThingsInv, Fares, Given
      <4> QED
        BY <4>1, SoleIsOnce, LivesAssumption
    <3> QED
      BY <3>1 DEF OnceInTheWorld
  <2>2. ASSUME ThingsInv PROVE RestingIsKept
    BY <2>2 DEF ThingsInv, RestingIsKept, Order, SafeThings, Fares, Homed
  <2>3. ThingsInv => ClockIsKept
    BY DEF ThingsInv
  <2> QED
    BY <2>1, <2>2, <2>3 DEF NothingIsLost
<1> QED
  BY <1>1, ThingsInvariant, PTL
=============================================================================
