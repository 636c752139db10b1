------------------------------ MODULE LivesSteps ------------------------------
(***************************************************************************)
(* Two inductive invariants of Lives, for any players, mobs, vehicles,      *)
(* things and scenes, and what each step does to what they speak of: the    *)
(* order of the loop's jobs, the types, who is where, what is noted of the  *)
(* past, and where things are and what is saved of them.                    *)
(***************************************************************************)
EXTENDS Lives, FiniteSetTheorems, TLAPS


(***************************************************************************)
(* Types.                                                                  *)
(***************************************************************************)

Snapshot == [health : Nat, food : Nat, sat : Nat, pack : SUBSET Thing]
Self     == [health : Nat, food : Nat, sat : Nat, dead : BOOLEAN, creative : BOOLEAN,
             pack : SUBSET Thing, effect : [Effect -> Nat], riding : Boat \cup {None},
             at : {"new", "joining", "play", "saving", "saved", "left", "gone"},
             file : Snapshot \cup {None}]
Step     == [at : {"idle", "hurt", "dropping", "spilling", "telling", "hastening", "naming",
                   "mounting", "rising"},
             on : Player \cup Body \cup Boat \cup {None}, told : Nat \X Nat,
             died : BOOLEAN, old : BOOLEAN, bag : SUBSET Thing]
Mob      == [at : {"unborn", "here", "gone"}, kind : Kind \cup {None}, health : Nat,
             dying : Nat \cup {None}, baby : BOOLEAN, age : Nat, love : Nat, rest : Nat,
             ready : Nat, loot : Thing \cup {None}]
Creature == {m \in Mob : m.at = "here" => m.kind \in Kind}
SavedMob == [body : Body, kind : Kind, health : Nat, loot : Thing \cup {None}]
Entities == [mobs : SUBSET SavedMob, items : SUBSET Thing]
Shown    == [vitals : Nat \X Nat, fast : BOOLEAN, rain : BOOLEAN]

PlayerJob == {"hit", "give", "regen", "hunger", "affect", "mend", "poison", "wane", "slow"}
AJob == [do : {"mob", "pierce"}, on : Body, arg : {None}]
        \cup [do : {"hit"}, on : Player, arg : {None, 1}]
        \cup [do : {"give"}, on : Player, arg : Thing]
        \cup [do : PlayerJob \ {"hit", "give"}, on : Player, arg : {None}]
        \cup [do : {"baby"}, on : Tame, arg : {None}]
        \cup [do : {"pair", "forget", "spawn"}, on : {None}, arg : {None}]
        \cup [do : {"store"}, on : {None}, arg : Nat]
        \cup [do : {"rain"}, on : {None}, arg : BOOLEAN]

PastFields == {"crossed", "milked", "undead", "overfed", "misled", "ghosts", "leaked", "ousted",
               "strayed", "twice", "stirred", "safe", "home", "cut", "lost", "clock", "missed"}

\* A history with all its fields, and of those the ones the invariants below go by.
Proper(h) == h = [x \in PastFields |-> h[x]]
Marks == {"crossed", "milked", "undead", "overfed", "misled", "ghosts", "leaked", "ousted", "strayed"}

\* ... and those that things go by.
Fates == {"twice", "stirred", "safe", "home", "cut", "lost", "clock", "missed"}

PeopleTypes ==
  /\ self \in [Player -> Self]
  /\ table \subseteq Player /\ records \subseteq Player
  /\ shown \in [Player -> Shown]
  /\ step \in [Thread -> Step]
  /\ Proper(past)

BeastTypes ==
  /\ mob \in [Body -> Creature]
  /\ rider \in [Boat -> Player \cup {None}]

Tick     == [crowd : SUBSET Player, night : BOOLEAN, remove : SUBSET Body, lovers : SUBSET Body]
LoopTypes == todo \in Seq(AJob) /\ tick \in Tick /\ sky \in [time : Nat, raining : BOOLEAN]

\* What a file holds.
Right(f, d) ==
  /\ f = "containers" => d \subseteq Thing
  /\ f = "entities" => d \in Entities
  /\ f = "meta" => d \in Nat
  /\ f \in User => d \in Snapshot

FileTypes ==
  /\ ground \cup chest \subseteq Thing
  /\ disk = [f \in File |-> disk[f]]
  /\ \A f \in File : disk[f] \notin {None, Torn} => Right(f, disk[f])
  /\ \A p \in Player : self[p].at = "saving" => self[p].file \in Snapshot
  /\ saver = [x \in {"at", "left", "file", "data"} |-> saver[x]]
  /\ saver.left \subseteq Player
  /\ saver.file \in File \cup {None} /\ (saver.file # None => Right(saver.file, saver.data))
  /\ saver.at = "mobs" => saver.data \subseteq SavedMob /\ saver.file = None
  /\ saver.at = "meta" => saver.data \in Nat

Types == PeopleTypes /\ BeastTypes /\ LoopTypes /\ FileTypes

(***************************************************************************)
(* Who is where.                                                           *)
(***************************************************************************)

\* Only a player in the game is in the middle of anything; one not yet in the game
\* rides nothing, and the game loop has nothing to do with it.
BusyPlays == \A p \in Player : step[p].at # "idle" => self[p].at = "play"
NotYetRiding == \A p \in Player : self[p].at \in {"new", "joining"} => self[p].riding = None
Known(p) == self[p].at \notin {"new", "joining"}
OldHands ==
  /\ \A p \in table \cup tick.crowd : Known(p)
  /\ \A i \in DOMAIN todo : todo[i].do \in PlayerJob => Known(todo[i].on)
  /\ \A u \in Thread : step[u].at \in {"hurt", "telling"} => step[u].on \in Player /\ Known(step[u].on)

\* What is dropped is a player's.
Droppers == \A u \in Thread : step[u].at = "dropping" => step[u].on \in Player

Whereabouts == BusyPlays /\ NotYetRiding /\ OldHands /\ Droppers

(***************************************************************************)
(* Vehicles.                                                               *)
(***************************************************************************)

\* A player half way onto a vehicle is its rider, unless ousted; one half way off
\* rides none.
Boarding ==
  \A p \in Player :
    /\ step[p].at = "mounting" => /\ step[p].on \in Boat
                                  /\ rider[step[p].on] = p \/ <<p, step[p].on>> \in past.ousted
    /\ step[p].at = "rising" => step[p].on \in Boat /\ self[p].riding = None

(***************************************************************************)
(* Villagers.                                                              *)
(***************************************************************************)

\* What is about to be registered is a villager, if it is still there.
NamingVillagers ==
  \A u \in Thread : step[u].at = "naming" =>
    /\ step[u].on \in Body
    /\ \/ mob[step[u].on].at = "gone"
       \/ mob[step[u].on].at = "here" /\ mob[step[u].on].kind = "villager"

ToCome(d) == \E i \in DOMAIN todo : todo[i].do = d

\* Only beasts that are there and tame are in love, and have young.
InWorldTame(b) == mob[b].at = "here" /\ mob[b].kind \in Tame
LoversTame ==
  /\ \A b \in Body : mob[b].love > 0 => InWorldTame(b)
  /\ ToCome("pair") => \A b \in tick.lovers : InWorldTame(b)

\* A tick goes through its mobs, which are there, then pairs them and lets some go, and
\* then forgets those: until then they are noted.
JobsInOrder ==
  /\ \A i \in DOMAIN todo : todo[i].do = "pair" => i = Len(todo)
  /\ ToCome("mob") => ToCome("pair")
  /\ ToCome("forget") => ~ToCome("pair")
MobsToCome == \A i \in DOMAIN todo : todo[i].do = "mob" => mob[todo[i].on].at = "here"
RemoveNoted ==
  /\ tick.remove # {} => ToCome("pair") \/ ToCome("forget")
  /\ \A b \in tick.remove : mob[b].at = "gone" \/ (mob[b].at = "here" /\ ToCome("pair"))

\* A body is saved once.
OneEach(S) == \A m, n \in S : m.body = n.body => m = n
OneSavedEach ==
  /\ disk["entities"] \notin {None, Torn} => OneEach(disk["entities"].mobs)
  /\ saver.file = "entities" /\ saver.file # None => OneEach(saver.data.mobs)
  /\ saver.at = "mobs" => OneEach(saver.data)

Villages == NamingVillagers /\ LoversTame /\ JobsInOrder /\ MobsToCome /\ RemoveNoted /\ OneSavedEach

(***************************************************************************)
(* What is shown.                                                          *)
(***************************************************************************)

\* What a thread is about to tell a player is how it is, unless overtaken; and
\* whoever is told something else is to be told how it is, by someone who will.
Telling(u, p) == step[u].on = p /\ step[u].at \in {"hurt", "telling"}
WillTell(u, p) == /\ Telling(u, p)
                  /\ step[u].told = Vitals(self[p])
                  /\ step[u].at = "telling" \/ step[u].died \/ ~self[p].dead
TellsTheTruth ==
  \A u \in Thread, p \in Player :
    Telling(u, p) /\ ~step[u].old => step[u].told = Vitals(self[p])
SomeoneTells ==
  \A p \in Player : self[p].at \in {"joining", "play"} /\ p \notin past.crossed =>
    shown[p].vitals = Vitals(self[p]) \/ \E u \in Thread : WillTell(u, p)

\* A newcomer walks slowly.
SlowAtFirst == \A p \in Player : self[p].at = "joining" => ~shown[p].fast

\* The weather to be told is the weather, and a newcomer was shown it.
Turning == todo # <<>> /\ Head(todo).do = "rain"
WeatherToTell ==
  /\ \A i \in DOMAIN todo : todo[i].do = "rain" => todo[i].arg = sky.raining
  /\ \A p \in Player \ past.misled :
       self[p].at = "joining" => shown[p].rain = sky.raining \/ Turning

Shows == TellsTheTruth /\ SomeoneTells /\ SlowAtFirst /\ WeatherToTell

LivesInv == /\ Types /\ Whereabouts
            /\ DeadOrAlive
            /\ Boarding /\ Villages /\ TablesAgree
            /\ Shows /\ ShownIsTrue

(***************************************************************************)
(* Sequences of jobs.                                                      *)
(***************************************************************************)

\* Jobs makes a sequence of one job for each member of a finite set.
LEMMA JobsOfSet ==
  ASSUME NEW d, NEW S, IsFiniteSet(S)
  PROVE  /\ Jobs(d, S) \in Seq({Job(d, x, None) : x \in S})
         /\ \A x \in S : \E i \in DOMAIN Jobs(d, S) : Jobs(d, S)[i] = Job(d, x, None)
<1> DEFINE n == Cardinality(S)
           s == SetToSeq(S)
<1>1. n \in Nat /\ ExistsBijection(1..n, S)
  BY FS_CardinalityType
<1>2. PICK f \in [1..n -> S] : IsInjective(f)
  BY <1>1 DEF ExistsBijection, Bijection, Injection, IsInjective
<1>3. s \in [1..n -> S] /\ IsInjective(s)
  BY <1>2 DEF SetToSeq
<1>4. s \in Injection(1..n, S)
  BY <1>3 DEF Injection, IsInjective
<1>5. Cardinality(1..n) = n /\ IsFiniteSet(1..n)
  BY <1>1, FS_Interval
<1>6. s \in Surjection(1..n, S)
  BY <1>4, <1>5, FS_Injection
<1>7. Jobs(d, S) = [i \in 1..n |-> Job(d, s[i], None)]
  BY <1>3 DEF Jobs
<1>8. Jobs(d, S) \in Seq({Job(d, x, None) : x \in S})
  BY <1>1, <1>3, <1>7
<1>9. ASSUME NEW x \in S PROVE \E i \in DOMAIN Jobs(d, S) : Jobs(d, S)[i] = Job(d, x, None)
  <2>1. PICK i \in 1..n : s[i] = x
    BY <1>6 DEF Surjection
  <2> QED
    BY <1>7, <2>1
<1> QED
  BY <1>8, <1>9

\* What is on a job.
LEMMA JobFields ==
  ASSUME NEW j \in AJob
  PROVE  /\ j.do \in PlayerJob => j.on \in Player
         /\ j.do \in {"mob", "pierce"} => j.on \in Body
         /\ j.do = "hit" => j.arg \in {None, 1}
         /\ j.do = "give" => j.arg \in Thing
         /\ j.do = "baby" => j.on \in Tame
         /\ j.do = "store" => j.arg \in Nat
         /\ j.do = "rain" => j.arg \in BOOLEAN
  BY DEF AJob, PlayerJob

\* The first of the loop's jobs, and the rest.
LEMMA FirstJob ==
  ASSUME todo \in Seq(AJob), todo # <<>>
  PROVE  /\ Head(todo) \in AJob /\ Head(todo) = todo[1]
         /\ Tail(todo) \in Seq(AJob)
         /\ Len(todo) \in Nat /\ 1 \in DOMAIN todo /\ DOMAIN todo = 1..Len(todo)
  OBVIOUS

\* Once the first job is done, its place is taken by what it brings; the others are
\* as they were, and no other is there.
LEMMA DoneJobs ==
  ASSUME todo \in Seq(AJob), todo # <<>>, NEW more \in Seq(AJob), Done(more)
  PROVE  /\ todo' \in Seq(AJob)
         /\ Len(todo') = Len(more) + Len(todo) - 1
         /\ \A i \in DOMAIN todo' :
              \/ i \in DOMAIN more /\ todo'[i] = more[i]
              \/ \E k \in DOMAIN todo : k > 1 /\ i = Len(more) + k - 1 /\ todo'[i] = todo[k]
         /\ \A k \in DOMAIN todo :
              k > 1 => Len(more) + k - 1 \in DOMAIN todo' /\ todo'[Len(more) + k - 1] = todo[k]
         /\ \A i \in DOMAIN more : i \in DOMAIN todo' /\ todo'[i] = more[i]
<1>1. todo' = more \o Tail(todo)
  BY DEF Done
<1>2. Tail(todo) \in Seq(AJob) /\ Len(Tail(todo)) = Len(todo) - 1 /\ Len(todo) \in Nat /\ Len(todo) >= 1
  OBVIOUS
<1>3. \A k \in DOMAIN todo : k > 1 => k - 1 \in 1..Len(Tail(todo)) /\ Tail(todo)[k - 1] = todo[k]
  BY <1>2
<1>4. \A k \in 1..Len(Tail(todo)) : k + 1 \in DOMAIN todo /\ Tail(todo)[k] = todo[k + 1]
  BY <1>2
<1>5. todo' \in Seq(AJob) /\ Len(todo') = Len(more) + Len(todo) - 1
  BY <1>1, <1>2
<1>6. \A i \in 1..Len(todo') : todo'[i] = IF i <= Len(more) THEN more[i]
                                          ELSE Tail(todo)[i - Len(more)]
  BY <1>1, <1>2
<1>7. ASSUME NEW i \in DOMAIN todo'
      PROVE  \/ i \in DOMAIN more /\ todo'[i] = more[i]
             \/ \E k \in DOMAIN todo : k > 1 /\ i = Len(more) + k - 1 /\ todo'[i] = todo[k]
  <2>1. CASE i <= Len(more)
    BY <2>1, <1>5, <1>6
  <2>2. CASE ~(i <= Len(more))
    <3>1. i - Len(more) \in 1..Len(Tail(todo))
      BY <2>2, <1>2, <1>5
    <3>2. i - Len(more) + 1 \in DOMAIN todo /\ todo'[i] = todo[i - Len(more) + 1]
      BY <3>1, <2>2, <1>4, <1>5, <1>6
    <3>3. i - Len(more) + 1 > 1 /\ i = Len(more) + (i - Len(more) + 1) - 1
      BY <3>1, <1>2, <1>5
    <3> QED
      BY <3>2, <3>3
  <2> QED
    BY <2>1, <2>2
<1>8. ASSUME NEW k \in DOMAIN todo, k > 1
      PROVE  Len(more) + k - 1 \in DOMAIN todo' /\ todo'[Len(more) + k - 1] = todo[k]
  <2>1. Len(more) + k - 1 \in 1..Len(todo') /\ ~(Len(more) + k - 1 <= Len(more))
    BY <1>2, <1>5, <1>8
  <2>2. Len(more) + k - 1 - Len(more) = k - 1
    BY <1>2
  <2>3. todo'[Len(more) + k - 1] = Tail(todo)[k - 1]
    BY <2>1, <2>2, <1>6
  <2> QED
    BY <2>1, <2>3, <1>3, <1>5, <1>8
<1>9. \A i \in DOMAIN more : i \in DOMAIN todo' /\ todo'[i] = more[i]
  <2>1. Len(more) \in Nat /\ DOMAIN more = 1..Len(more) /\ DOMAIN todo' = 1..Len(todo')
    BY <1>5
  <2> QED
    BY <2>1, <1>2, <1>5, <1>6
<1> QED
  BY <1>5, <1>7, <1>8, <1>9

(***************************************************************************)
(* The history.                                                            *)
(***************************************************************************)

\* Things that move leave the marks of a history alone.
LEMMA MovedKeeps ==
  ASSUME NEW h, Proper(h), NEW S
  PROVE  Proper(Moved(h, S)) /\ \A x \in Marks : Moved(h, S)[x] = h[x]
  BY DEF Proper, Moved, Marks, PastFields

\* Things written down leave the marks of a history alone.
LEMMA WrittenKeeps ==
  ASSUME NEW h, Proper(h), NEW S
  PROVE  Proper(Written(h, S)) /\ \A x \in Marks : Written(h, S)[x] = h[x]
<1>1. Proper(Moved(h, S)) /\ \A x \in Marks : Moved(h, S)[x] = h[x]
  BY MovedKeeps
<1> QED
  BY <1>1 DEF Proper, Written, Marks, PastFields

\* Things cut off leave the marks of a history alone.
LEMMA CutKeeps ==
  ASSUME NEW h, Proper(h), NEW S
  PROVE  Proper(Cut(h, S)) /\ \A x \in Marks : Cut(h, S)[x] = h[x]
<1>1. Proper(Moved(h, S)) /\ \A x \in Marks : Moved(h, S)[x] = h[x]
  BY MovedKeeps
<1> QED
  BY <1>1 DEF Proper, Cut, Marks, PastFields

\* Things that come into a pack leave the marks of a history alone.
LEMMA IntoKeeps ==
  ASSUME NEW h, Proper(h), NEW p, NEW S
  PROVE  Proper(Into(h, p, S)) /\ \A x \in Marks : Into(h, p, S)[x] = h[x]
  BY MovedKeeps, CutKeeps DEF Into

\* What is noted of one who is told, healed or slowed.
LEMMA HeardNotes ==
  ASSUME NEW h, Proper(h), NEW u
  PROVE  /\ Proper(Heard(h, u)) /\ \A x \in Marks \ {"crossed"} : Heard(h, u)[x] = h[x]
         /\ \A x \in Fates : Heard(h, u)[x] = h[x]
         /\ step[u].old => Heard(h, u).crossed = h.crossed \cup {step[u].on}
         /\ ~step[u].old => Heard(h, u).crossed = h.crossed \ {step[u].on}
  BY DEF Proper, Heard, Marks, Fates, PastFields

\* A history notes that somebody without health has some again.
LEMMA RisenNotes ==
  ASSUME NEW h, Proper(h), NEW p, NEW t
  PROVE  /\ Proper(Risen(h, p, t)) /\ \A x \in Marks \ {"undead"} : Risen(h, p, t)[x] = h[x]
         /\ \A x \in Fates : Risen(h, p, t)[x] = h[x]
         /\ Risen(h, p, t).undead \in {h.undead, h.undead \ {p}}
         /\ t.health > 0 => Risen(h, p, t).undead = h.undead \ {p}
         /\ t.health = 0 => Risen(h, p, t).undead = h.undead
  BY DEF Proper, Risen, Marks, Fates, PastFields

\* A history notes that somebody walks slowly again.
LEMMA SlowedNotes ==
  ASSUME NEW h, Proper(h), NEW p
  PROVE  /\ Proper(Slowed(h, p)) /\ \A x \in Marks \ {"milked"} : Slowed(h, p)[x] = h[x]
         /\ \A x \in Fates : Slowed(h, p)[x] = h[x]
         /\ Slowed(h, p).milked = h.milked \ {p}
  BY DEF Proper, Slowed, Marks, Fates, PastFields

\* New jobs are for players who are known, and only functions of their own begin some.
New(more) ==
  \A i \in DOMAIN more :
    /\ more[i].do \notin {"mob", "pair", "rain", "store", "give"}
    /\ more[i].do = "forget" => Head(todo).do = "pair"
    /\ more[i].do \in PlayerJob => Known(more[i].on)

\* Where the jobs of two lists are in both together.
LEMMA Joined ==
  ASSUME NEW a \in Seq(AJob), NEW b \in Seq(AJob)
  PROVE  /\ a \o b \in Seq(AJob) /\ Len(a \o b) = Len(a) + Len(b)
         /\ \A i \in DOMAIN (a \o b) :
              \/ i \in DOMAIN a /\ (a \o b)[i] = a[i]
              \/ i - Len(a) \in DOMAIN b /\ (a \o b)[i] = b[i - Len(a)]
  OBVIOUS

\* A job of the first list keeps its place.
LEMMA JobBefore ==
  ASSUME NEW a \in Seq(AJob), NEW b \in Seq(AJob), NEW i \in DOMAIN a
  PROVE  i \in DOMAIN (a \o b) /\ (a \o b)[i] = a[i]
  OBVIOUS

\* A single job comes right after the list it is appended to.
LEMMA JobAfter ==
  ASSUME NEW a \in Seq(AJob), NEW b \in Seq(AJob), Len(b) = 1
  PROVE  /\ Len(a) + 1 \in DOMAIN (a \o b)
         /\ (a \o b)[Len(a) + 1] = b[1]
<1>1. Len(a) \in Nat /\ DOMAIN a = 1..Len(a)
  OBVIOUS
<1>2. DOMAIN (a \o b) = 1..(Len(a) + 1)
  BY Joined
<1>3. Len(a) + 1 \notin DOMAIN a /\ Len(a) + 1 \in 1..(Len(a) + 1) /\ Len(a) + 1 - Len(a) = 1
  BY <1>1
<1> QED
  BY <1>2, <1>3, Joined

\* Two lists of jobs that may come up make one.
LEMMA NewJobs ==
  ASSUME NEW a \in Seq(AJob), NEW b \in Seq(AJob), New(a), New(b)
  PROVE  a \o b \in Seq(AJob) /\ New(a \o b)
  BY Joined DEF New

\* A job that may come up is a list of such.
LEMMA OneNewJob ==
  ASSUME NEW j \in AJob, j.do \notin {"mob", "pair", "rain", "store", "give"},
         j.do = "forget" => Head(todo).do = "pair", j.do \in PlayerJob => Known(j.on)
  PROVE  <<j>> \in Seq(AJob) /\ New(<<j>>)
  BY DEF New

\* So is no job.
LEMMA NoNewJob == <<>> \in Seq(AJob) /\ New(<<>>)
  BY DEF New

\* A job for each known player.
LEMMA JobsForPlayers ==
  ASSUME LivesAssumption, NEW d \in PlayerJob \ {"give"}, NEW S \in SUBSET Player,
         \A p \in S : Known(p)
  PROVE  Jobs(d, S) \in Seq(AJob) /\ New(Jobs(d, S))
<1>1. IsFiniteSet(S)
  BY LivesAssumption, FS_Subset DEF LivesAssumption
<1>2. /\ Jobs(d, S) \in Seq({Job(d, x, None) : x \in S})
  BY <1>1, JobsOfSet
<1>3. \A x \in S : Job(d, x, None) \in AJob
  BY DEF Job, AJob, PlayerJob
<1>4. {Job(d, x, None) : x \in S} \subseteq AJob
  BY <1>3
<1>5. Jobs(d, S) \in Seq(AJob)
  BY <1>2, <1>4
<1>6. ASSUME NEW i \in DOMAIN Jobs(d, S)
      PROVE  Jobs(d, S)[i].do = d /\ Jobs(d, S)[i].on \in S
  <2>1. Jobs(d, S)[i] \in {Job(d, x, None) : x \in S}
    BY <1>2
  <2> QED
    BY <2>1 DEF Job
<1> QED
  BY <1>5, <1>6 DEF New, PlayerJob

\* What a function of the game loop begins with, and goes on with.
Starting ==
  /\ LoopFree /\ todo' \in Seq(AJob)
  /\ \A i \in DOMAIN todo' :
       /\ todo'[i].do \in PlayerJob => Known(todo'[i].on)
       /\ todo'[i].do = "pair" => i = Len(todo')
       /\ todo'[i].do = "mob" => Len(todo') \in DOMAIN todo' /\ todo'[Len(todo')].do = "pair"
       /\ todo'[i].do = "mob" => todo'[i].on \in Here
       /\ todo'[i].do \in {"mob", "pair"} => UNCHANGED mob /\ tick'.remove = {} /\ tick'.lovers = {}
       /\ todo'[i].do # "forget"
       /\ todo'[i].do = "rain" => todo'[i].arg = sky'.raining
       /\ todo'[i].do = "give" => ItemsTick
       /\ todo'[i].do = "store" => Clock /\ i = 1
GoingOn == /\ todo # <<>> /\ step[Loop].at = "idle"
           /\ \E more \in Seq(AJob) : New(more) /\ Done(more)
           /\ Head(todo).do = "pair" => Pair
           /\ Head(todo).do = "forget" => Forget
           /\ Head(todo).do = "slow" => Slow
           /\ Head(todo).do = "rain" => TellWeather
           /\ Head(todo).do = "give" => Give
           /\ Head(todo).do = "store" => Store

\* A tick that goes through players begins with a job for each.
LEMMA StartsForPlayers ==
  ASSUME LivesAssumption, LoopFree, NEW d \in PlayerJob \ {"give"}, NEW S \in SUBSET Player,
         \A p \in S : Known(p), todo' = Jobs(d, S)
  PROVE  Starting
<1>1. todo' \in Seq(AJob) /\ New(todo')
  BY JobsForPlayers
<1>2. IsFiniteSet(S)
  BY LivesAssumption, FS_Subset DEF LivesAssumption
<1>3. todo' \in Seq({Job(d, x, None) : x \in S})
  BY <1>2, JobsOfSet
<1>4. \A i \in DOMAIN todo' : todo'[i].do = d
  <2> TAKE i \in DOMAIN todo'
  <2>1. todo'[i] \in {Job(d, x, None) : x \in S}
    BY <1>3
  <2> QED
    BY <2>1 DEF Job
<1> QED
  BY <1>1, <1>4 DEF Starting, New, PlayerJob

\* The members of a finite set in some order.
LEMMA InSomeOrder ==
  ASSUME NEW S, IsFiniteSet(S)
  PROVE  Cardinality(S) \in Nat /\ SetToSeq(S) \in [1..Cardinality(S) -> S]
<1>1. Cardinality(S) \in Nat /\ ExistsBijection(1..Cardinality(S), S)
  BY FS_CardinalityType
<1>2. PICK f \in [1..Cardinality(S) -> S] : IsInjective(f)
  BY <1>1 DEF ExistsBijection, Bijection, Injection, IsInjective
<1> QED
  BY <1>1, <1>2 DEF SetToSeq

\* A tick of the mobs begins with a job for each, or sweeps them away.
LEMMA MobsTickStarts ==
  ASSUME LivesAssumption, Types, MobsTick
  PROVE  UNCHANGED todo \/ Starting
<1>1. CASE UNCHANGED todo
  BY <1>1
<1>2. CASE /\ LoopFree /\ todo' = Append(Jobs("mob", Here), Job("pair", None, None))
           /\ UNCHANGED mob /\ tick'.remove = {} /\ tick'.lovers = {}
  <2>1. IsFiniteSet(Here)
    BY LivesAssumption, FS_Subset DEF LivesAssumption, Here
  <2>2. Jobs("mob", Here) \in Seq({Job("mob", x, None) : x \in Here})
    BY <2>1, JobsOfSet
  <2>3. /\ {Job("mob", x, None) : x \in Here} \subseteq AJob /\ Job("pair", None, None) \in AJob
        /\ \A j \in {Job("mob", x, None) : x \in Here} : j.do = "mob" /\ j.on \in Here
    BY DEF Job, AJob, Here
  <2>4. Jobs("mob", Here) \in Seq(AJob) /\ \A i \in DOMAIN Jobs("mob", Here) : Jobs("mob", Here)[i].do = "mob" /\ Jobs("mob", Here)[i].on \in Here
    BY <2>2, <2>3
  <2>5. /\ todo' \in Seq(AJob) /\ Len(todo') \in DOMAIN todo'
        /\ \A i \in DOMAIN todo' : i # Len(todo') => todo'[i].do = "mob" /\ todo'[i].on \in Here
        /\ todo'[Len(todo')] = Job("pair", None, None)
    BY <1>2, <2>3, <2>4
  <2>6. Job("pair", None, None).do = "pair"
    BY DEF Job
  <2> QED
    BY <1>2, <2>5, <2>6 DEF Starting, PlayerJob
<1>3. \A t, n : tick' = [NoTick EXCEPT !.crowd = t, !.night = n] => tick'.remove = {} /\ tick'.lovers = {}
  BY DEF NoTick
<1> QED
  BY <1>1, <1>2, <1>3, Zenon DEF MobsTick, course

\* A tick of the item entities begins with what each player picks up.
LEMMA ItemsTickStarts ==
  ASSUME LivesAssumption, Types, OldHands, ItemsTick
  PROVE  Starting
<1>1. PICK S \in SUBSET ground : \E f \in [S -> Living(table)] :
        todo' = [i \in DOMAIN SetToSeq(S) |-> Job("give", f[SetToSeq(S)[i]], SetToSeq(S)[i])]
  BY DEF ItemsTick
<1>0. PICK f \in [S -> Living(table)] :
        todo' = [i \in DOMAIN SetToSeq(S) |-> Job("give", f[SetToSeq(S)[i]], SetToSeq(S)[i])]
  BY <1>1
<1>2. S \subseteq Thing /\ IsFiniteSet(S)
  BY LivesAssumption, FS_Subset DEF LivesAssumption, Types, FileTypes
<1>3. Cardinality(S) \in Nat /\ SetToSeq(S) \in [1..Cardinality(S) -> S]
  BY <1>2, InSomeOrder
<1>4. \A p \in Living(table) : p \in Player /\ Known(p)
  BY DEF Living, Types, PeopleTypes, OldHands
<1>5. \A x \in S : /\ Job("give", f[x], x) \in AJob /\ Job("give", f[x], x).do = "give"
                   /\ Known(Job("give", f[x], x).on)
  BY <1>2, <1>4 DEF Job, AJob
<1> DEFINE s == SetToSeq(S)
<1> HIDE DEF s
<1>6. /\ todo' \in Seq(AJob)
      /\ \A i \in DOMAIN todo' : todo'[i].do = "give" /\ Known(todo'[i].on)
  <2>1. s \in [1..Cardinality(S) -> S] /\ Cardinality(S) \in Nat
    BY <1>3 DEF s
  <2>2. todo' = [i \in 1..Cardinality(S) |-> Job("give", f[s[i]], s[i])]
    BY <1>0, <2>1 DEF s
  <2>3. \A i \in 1..Cardinality(S) : /\ todo'[i] = Job("give", f[s[i]], s[i])
                                     /\ todo'[i] \in AJob
                                     /\ todo'[i].do = "give" /\ Known(todo'[i].on)
    BY <2>1, <2>2, <1>5
  <2>4. todo' \in Seq(AJob)
    BY <2>1, <2>2, <2>3
  <2> QED
    BY <2>2, <2>3, <2>4
<1>7. LoopFree
  BY DEF ItemsTick
<1> QED
  BY <1>6, <1>7 DEF Starting

\* A tick of the arrows begins with whom they strike, players before mobs.
LEMMA ArrowsTickDoes ==
  ASSUME ArrowsTick
  PROVE  \E S \in SUBSET {o \in Player \cup Body : arrow[o] > 0} :
           \E f \in [S -> Living(table) \cup {b \in Here : Alive(b)} \cup {None}] :
             todo' = Jobs("hit", {f[o] : o \in S} \cap Player)
                     \o Jobs("pierce", {f[o] : o \in S} \cap Body)
  BY Zenon DEF ArrowsTick

\* That is a beginning: who is struck is known, and a mob is a body.
LEMMA ArrowsTickStarts ==
  ASSUME LivesAssumption, Types, OldHands, ArrowsTick
  PROVE  Starting
<1>0. PICK S \in SUBSET {o \in Player \cup Body : arrow[o] > 0} :
        \E f \in [S -> Living(table) \cup {b \in Here : Alive(b)} \cup {None}] :
          todo' = Jobs("hit", {f[o] : o \in S} \cap Player) \o Jobs("pierce", {f[o] : o \in S} \cap Body)
  BY ArrowsTickDoes
<1>1. PICK f \in [S -> Living(table) \cup {b \in Here : Alive(b)} \cup {None}] :
        todo' = Jobs("hit", {f[o] : o \in S} \cap Player) \o Jobs("pierce", {f[o] : o \in S} \cap Body)
  BY <1>0
<1> DEFINE hit == {f[o] : o \in S} \cap Player
           pierced == {f[o] : o \in S} \cap Body
<1>2. \A p \in hit : Known(p)
  BY LivesAssumption DEF LivesAssumption, Living, Here, Types, PeopleTypes, OldHands
<1>3. hit \subseteq Player /\ pierced \subseteq Body
  OBVIOUS
<1> HIDE DEF hit, pierced
<1>4. Jobs("hit", hit) \in Seq(AJob) /\ New(Jobs("hit", hit))
  BY LivesAssumption, <1>2, <1>3, JobsForPlayers DEF PlayerJob
<1>5. IsFiniteSet(pierced) /\ IsFiniteSet(hit)
  BY LivesAssumption, <1>3, FS_Subset DEF LivesAssumption
<1>6. /\ Jobs("pierce", pierced) \in Seq({Job("pierce", x, None) : x \in pierced})
      /\ Jobs("hit", hit) \in Seq({Job("hit", x, None) : x \in hit})
  BY <1>5, JobsOfSet
<1>7. /\ \A j \in {Job("pierce", x, None) : x \in pierced} : j \in AJob /\ j.do = "pierce"
      /\ \A j \in {Job("hit", x, None) : x \in hit} : j.do = "hit"
  BY <1>3 DEF Job, AJob
<1>8. /\ Jobs("pierce", pierced) \in Seq(AJob)
      /\ \A i \in DOMAIN Jobs("pierce", pierced) : Jobs("pierce", pierced)[i].do = "pierce"
      /\ \A i \in DOMAIN Jobs("hit", hit) : Jobs("hit", hit)[i].do = "hit"
  BY <1>6, <1>7
<1>9. New(Jobs("pierce", pierced))
  BY <1>8 DEF New, PlayerJob
<1>10. todo' = Jobs("hit", hit) \o Jobs("pierce", pierced)
  BY <1>1 DEF hit, pierced
<1>11. todo' \in Seq(AJob) /\ New(todo')
  BY <1>4, <1>8, <1>9, <1>10, NewJobs
<1>12. \A i \in DOMAIN todo' : todo'[i].do \in {"hit", "pierce"}
  BY <1>4, <1>8, <1>10
<1>13. LoopFree
  BY DEF ArrowsTick
<1> QED
  BY <1>11, <1>12, <1>13 DEF Starting, New

\* Pairing brings the young, and then the forgetting of those that are to go.
LEMMA PairGoesOn ==
  ASSUME LivesAssumption, Types, LoversTame, Pair
  PROVE  GoingOn /\ ToCome("forget")'
<1>1. todo # <<>> /\ step[Loop].at = "idle" /\ Head(todo).do = "pair"
  BY Zenon DEF Pair, Do
<1>2. PICK S \in SUBSET tick.lovers, more \in BOOLEAN :
        /\ \A a, c \in S : mob[a].kind = mob[c].kind
        /\ Done(Jobs("baby", {mob[a].kind : a \in S}) \o <<Job("forget", None, None)>>
                \o (IF more THEN <<Job("spawn", None, None)>> ELSE <<>>))
  BY Zenon DEF Pair
<1> DEFINE kinds == {mob[a].kind : a \in S}
           baby  == Jobs("baby", kinds)
           mid   == <<Job("forget", None, None)>>
           last  == IF more THEN <<Job("spawn", None, None)>> ELSE <<>>
<1>3. kinds \subseteq Tame
  BY <1>1, FirstJob DEF LoversTame, ToCome, InWorldTame, Types, LoopTypes
<1>4. IsFiniteSet(kinds)
  <2>1. CASE S = {}
    <3>1. kinds = {}
      BY <2>1
    <3> QED
      BY <3>1, FS_EmptySet, Zenon
  <2>2. ASSUME NEW a \in S PROVE IsFiniteSet(kinds)
    <3>1. kinds = {mob[a].kind}
      BY <1>2
    <3>2. IsFiniteSet({mob[a].kind})
      BY FS_Singleton, Zenon
    <3> QED
      BY <3>1, <3>2, Zenon
  <2> QED
    BY <2>1, <2>2
<1> HIDE DEF kinds
<1>5. baby \in Seq({Job("baby", x, None) : x \in kinds})
  BY <1>4, JobsOfSet
<1>6. \A j \in {Job("baby", x, None) : x \in kinds} : j \in AJob /\ j.do = "baby"
  BY <1>3 DEF Job, AJob
<1> HIDE DEF baby
<1>7. baby \in Seq(AJob) /\ \A i \in DOMAIN baby : baby[i].do = "baby"
  BY <1>5, <1>6
<1>8. New(baby)
  BY <1>7 DEF New, PlayerJob
<1>9. /\ Job("forget", None, None) \in AJob /\ Job("forget", None, None).do = "forget"
      /\ Job("spawn", None, None) \in AJob /\ Job("spawn", None, None).do = "spawn"
  BY DEF Job, AJob
<1>10. mid \in Seq(AJob) /\ New(mid)
  BY <1>1, <1>9, OneNewJob DEF PlayerJob
<1>11. last \in Seq(AJob) /\ New(last)
  BY <1>9, OneNewJob, NoNewJob DEF PlayerJob
<1>12. Done(baby \o mid \o last)
  BY <1>2 DEF kinds, baby
<1> HIDE DEF mid, last
<1>13. baby \o mid \in Seq(AJob) /\ New(baby \o mid)
  BY <1>7, <1>8, <1>10, NewJobs
<1>14. baby \o mid \o last \in Seq(AJob) /\ New(baby \o mid \o last)
  BY <1>11, <1>13, NewJobs
<1>15. ToCome("forget")'
  <2>1. todo' = baby \o mid \o last \o Tail(todo) /\ Tail(todo) \in Seq(AJob)
    BY <1>1, <1>12, FirstJob DEF Done, Types, LoopTypes
  <2>2. Len(baby) + 1 \in DOMAIN todo' /\ todo'[Len(baby) + 1] = Job("forget", None, None)
    <3>1. /\ Len(baby) \in Nat /\ Len(mid) = 1 /\ mid[1] = Job("forget", None, None)
      BY <1>7 DEF mid
    <3>2. baby \o mid \o last \in Seq(AJob)
      BY <1>14
    <3>3. /\ Len(baby) + 1 \in DOMAIN (baby \o mid)
          /\ (baby \o mid)[Len(baby) + 1] = Job("forget", None, None)
      BY <1>7, <1>10, <3>1, JobAfter
    <3>4. /\ Len(baby) + 1 \in DOMAIN (baby \o mid \o last)
          /\ (baby \o mid \o last)[Len(baby) + 1] = Job("forget", None, None)
      BY <1>13, <1>11, <3>3, JobBefore
    <3>5. todo' \in Seq(AJob) /\ todo' = (baby \o mid \o last) \o Tail(todo)
      BY <2>1, <3>2
    <3> HIDE DEF baby, mid, last
    <3>6. /\ Len(baby) + 1 \in DOMAIN ((baby \o mid \o last) \o Tail(todo))
          /\ ((baby \o mid \o last) \o Tail(todo))[Len(baby) + 1] = Job("forget", None, None)
      BY <2>1, <3>2, <3>4, JobBefore
    <3> QED
      BY <3>5, <3>6
  <2> QED
    BY <1>9, <2>2 DEF ToCome
<1> QED
  BY <1>1, <1>12, <1>14, <1>15 DEF GoingOn

\* The jobs a player's turn brings are for that player.
LEMMA JobsForOne ==
  ASSUME LivesAssumption, NEW d \in PlayerJob \ {"give"}, NEW p \in Player, Known(p), NEW C
  PROVE  Jobs(d, {q \in {p} : C}) \in Seq(AJob) /\ New(Jobs(d, {q \in {p} : C}))
  BY LivesAssumption, JobsForPlayers

\* The player a job is for is known.
LEMMA JobIsForKnown ==
  ASSUME Types, OldHands, todo # <<>>, Head(todo).do \in PlayerJob
  PROVE  Head(todo).on \in Player /\ Known(Head(todo).on)
<1>1. todo \in Seq(AJob)
  BY DEF Types, LoopTypes
<1>2. Head(todo) \in AJob /\ Head(todo) = todo[1] /\ 1 \in DOMAIN todo
  BY <1>1, FirstJob
<1> QED
  BY <1>2, JobFields DEF OldHands

\* Hunger may bring a blow and nothing else.
LEMMA HungerGoesOn ==
  ASSUME LivesAssumption, Types, OldHands, Hunger
  PROVE  GoingOn
<1>1. /\ todo # <<>> /\ step[Loop].at = "idle"
      /\ Head(todo).do = "hunger" /\ Head(todo).do \in PlayerJob
  BY DEF Hunger, Do, PlayerJob
<1>2. Head(todo).on \in Player /\ Known(Head(todo).on)
  BY <1>1, JobIsForKnown
<1>3. Job("hit", Head(todo).on, 1) \in AJob
  BY <1>2 DEF Job, AJob
<1>4. Job("hit", Head(todo).on, 1).do = "hit" /\ Job("hit", Head(todo).on, 1).on = Head(todo).on
  BY DEF Job
<1>5. <<Job("hit", Head(todo).on, 1)>> \in Seq(AJob) /\ New(<<Job("hit", Head(todo).on, 1)>>)
  BY <1>2, <1>3, <1>4, OneNewJob
<1>6. Done(<<>>) \/ Done(<<Job("hit", Head(todo).on, 1)>>)
  BY DEF Hunger
<1> QED
  BY <1>1, <1>5, <1>6, NoNewJob DEF GoingOn

\* An effect brings what it does to its player, and its own end.
LEMMA AffectGoesOn ==
  ASSUME LivesAssumption, Types, OldHands, Affect
  PROVE  GoingOn
<1>1. /\ todo # <<>> /\ step[Loop].at = "idle"
      /\ Head(todo).do = "affect" /\ Head(todo).do \in PlayerJob
  BY DEF Affect, Do, PlayerJob
<1> DEFINE p == Head(todo).on
           has == {e \in Effect : self[p].effect[e] > 0}
           a == Jobs("mend", {q \in {p} : "regeneration" \in has})
           b == Jobs("poison", {q \in {p} : "poison" \in has})
           c == Jobs("wane", {q \in {p} : has # {}})
<1>2. p \in Player /\ Known(p)
  BY <1>1, JobIsForKnown
<1>3. Done(a \o b \o c)
  BY DEF Affect
<1> HIDE DEF has, p
<1>4. a \in Seq(AJob) /\ New(a)
  BY LivesAssumption, <1>2, JobsForPlayers DEF PlayerJob
<1>5. b \in Seq(AJob) /\ New(b)
  BY LivesAssumption, <1>2, JobsForPlayers DEF PlayerJob
<1>6. c \in Seq(AJob) /\ New(c)
  BY LivesAssumption, <1>2, JobsForPlayers DEF PlayerJob
<1> HIDE DEF a, b, c
<1>7. a \o b \o c \in Seq(AJob) /\ New(a \o b \o c)
  BY <1>4, <1>5, <1>6, NewJobs
<1> QED
  BY <1>1, <1>3, <1>7 DEF GoingOn

\* An effect that ends may bring that its player walks slowly.
LEMMA WaneGoesOn ==
  ASSUME LivesAssumption, Types, OldHands, Wane
  PROVE  GoingOn
<1>1. /\ todo # <<>> /\ step[Loop].at = "idle"
      /\ Head(todo).do = "wane" /\ Head(todo).do \in PlayerJob
  BY DEF Wane, Do, PlayerJob
<1> DEFINE p == Head(todo).on
           a == Jobs("slow", {q \in {p} : self[p].effect["speed"] = 1})
<1>2. p \in Player /\ Known(p)
  BY <1>1, JobIsForKnown
<1>3. Done(a)
  BY DEF Wane
<1> HIDE DEF p
<1>4. a \in Seq(AJob) /\ New(a)
  BY LivesAssumption, <1>2, JobsForPlayers DEF PlayerJob
<1> QED
  BY <1>1, <1>3, <1>4 DEF GoingOn

\* A living mob may bring blows, for those it strikes or that stand near.
LEMMA MobLivesGoesOn ==
  ASSUME LivesAssumption, Types, OldHands, MobLives
  PROVE  GoingOn
<1>1. todo # <<>> /\ step[Loop].at = "idle" /\ Head(todo).do = "mob"
  BY Zenon DEF MobLives, Do
<1>2. \/ Done(<<>>)
      \/ \E S \in SUBSET Living(table) : Done(Jobs("hit", S))
      \/ \E p \in Living(tick.crowd) : Done(<<Job("hit", p, None)>>)
  BY DEF MobLives, explode
<1>3. \A p \in Living(table) \cup Living(tick.crowd) : p \in Player /\ Known(p)
  BY DEF Living, Types, PeopleTypes, LoopTypes, Tick, OldHands
<1>4. ASSUME NEW S \in SUBSET Living(table), Done(Jobs("hit", S))
      PROVE  GoingOn
  <2>1. S \subseteq Player /\ \A p \in S : Known(p)
    BY <1>3
  <2>2. Jobs("hit", S) \in Seq(AJob) /\ New(Jobs("hit", S))
    BY LivesAssumption, <2>1, JobsForPlayers DEF PlayerJob
  <2> QED
    BY <1>1, <1>4, <2>2 DEF GoingOn
<1>5. ASSUME NEW p \in Living(tick.crowd), Done(<<Job("hit", p, None)>>)
      PROVE  GoingOn
  <2>1. /\ Job("hit", p, None) \in AJob
        /\ Job("hit", p, None).do = "hit" /\ Job("hit", p, None).on = p
    BY <1>3 DEF Job, AJob
  <2>2. <<Job("hit", p, None)>> \in Seq(AJob) /\ New(<<Job("hit", p, None)>>)
    BY <1>3, <2>1, OneNewJob
  <2> QED
    BY <1>1, <1>5, <2>2 DEF GoingOn
<1> QED
  BY <1>1, <1>2, <1>4, <1>5, NoNewJob DEF GoingOn

\* Whoever is in the table is known.
LEMMA TableKnown ==
  ASSUME Types, OldHands
  PROVE  table \in SUBSET Player /\ \A p \in table : Known(p)
  BY DEF Types, PeopleTypes, OldHands

\* The loop's jobs are as they were, or it begins a function, or does a job.
LoopGoes == UNCHANGED todo \/ Starting \/ GoingOn \/ (Restart /\ todo' = <<>>)

\* Every step leaves the jobs alone, begins a tick, or does the first job of one.
LEMMA LoopStep ==
  ASSUME LivesAssumption, Types, OldHands, LoversTame, [Next]_vars
  PROVE  LoopGoes
<1> USE DEF LoopGoes
<1>1. CASE MobsTick
  BY <1>1, LivesAssumption, MobsTickStarts
<1>2. CASE MobDying
  BY <1>2, NoNewJob DEF MobDying, Do, GoingOn
<1>3. CASE MobDies
  BY <1>3, NoNewJob DEF MobDies, Do, GoingOn
<1>4. CASE MobStrays
  BY <1>4, NoNewJob DEF MobStrays, Do, GoingOn
<1>5. CASE MobLives
  BY <1>5, LivesAssumption, MobLivesGoesOn
<1>6. CASE Hit
  BY <1>6, NoNewJob DEF Hit, Do, GoingOn
<1>7. CASE Pair
  BY <1>7, LivesAssumption, PairGoesOn
<1>8. CASE Baby
  BY <1>8, NoNewJob DEF Baby, Do, GoingOn
<1>9. CASE Forget
  BY <1>9, NoNewJob DEF Forget, Do, GoingOn
<1>10. CASE Spawn
  BY <1>10, NoNewJob DEF Spawn, Do, GoingOn
<1>11. CASE ItemsTick
  BY <1>11, LivesAssumption, ItemsTickStarts
<1>12. CASE Give
  BY <1>12, NoNewJob DEF Give, Do, GoingOn
<1>13. CASE ArrowsTick
  BY <1>13, LivesAssumption, ArrowsTickStarts
<1>14. CASE Pierce
  BY <1>14, NoNewJob DEF Pierce, Do, GoingOn
<1>15. CASE Regenerate
  BY <1>15, LivesAssumption, TableKnown, StartsForPlayers DEF Regenerate, Round, PlayerJob
<1>16. CASE Regen
  BY <1>16, NoNewJob DEF Regen, Do, GoingOn
<1>17. CASE HungerTick
  BY <1>17, LivesAssumption, TableKnown, StartsForPlayers DEF HungerTick, Round, PlayerJob
<1>18. CASE Hunger
  BY <1>18, LivesAssumption, HungerGoesOn
<1>19. CASE EffectsTick
  BY <1>19, LivesAssumption, TableKnown, StartsForPlayers DEF EffectsTick, Round, PlayerJob
<1>20. CASE Affect
  BY <1>20, LivesAssumption, AffectGoesOn
<1>21. CASE MendEffect
  BY <1>21, NoNewJob DEF MendEffect, Do, GoingOn
<1>22. CASE Poison
  BY <1>22, NoNewJob DEF Poison, Do, GoingOn
<1>23. CASE Wane
  BY <1>23, LivesAssumption, WaneGoesOn
<1>24. CASE Slow
  BY <1>24, NoNewJob DEF Slow, Do, GoingOn
<1>25. CASE Clock
  <2>1. todo' = <<Job("store", None, (sky.time + 1) % Day)>> /\ LoopFree
    BY <1>25 DEF Clock
  <2>2. (sky.time + 1) % Day \in Nat
    BY LivesAssumption DEF LivesAssumption, Types, LoopTypes
  <2>3. /\ Job("store", None, (sky.time + 1) % Day) \in AJob
        /\ Job("store", None, (sky.time + 1) % Day).do = "store"
    BY <2>2 DEF Job, AJob
  <2> QED
    BY <1>25, <2>1, <2>3 DEF Starting, PlayerJob
<1>26. CASE Store
  BY <1>26, NoNewJob DEF Store, Do, GoingOn
<1>27. CASE Flip
  <2>1. /\ todo' = <<Job("rain", None, ~sky.raining)>> /\ LoopFree
        /\ sky'.raining = ~sky.raining
    BY <1>27 DEF Flip, Types, LoopTypes
  <2>2. /\ Job("rain", None, ~sky.raining) \in AJob
        /\ Job("rain", None, ~sky.raining).do = "rain"
        /\ Job("rain", None, ~sky.raining).arg = ~sky.raining
    BY DEF Job, AJob
  <2> QED
    BY <2>1, <2>2 DEF Starting, PlayerJob
<1>28. CASE TellWeather
  BY <1>28, NoNewJob DEF TellWeather, Do, GoingOn
<1>29. CASE Restart
  BY <1>29 DEF Restart
<1>30. ASSUME NEW u \in Thread,
            Flinch(u) \/ DropAll(u) \/ Spill(u) \/ SendHealth(u)
            \/ register_villager(u)
     PROVE  LoopGoes
  BY <1>30, Zenon DEF Flinch, DropAll, Spill, SendHealth, register_villager, elsewhere, course,
         saving
<1>31. ASSUME NEW p \in Player,
            Fall(p) \/ Kill(p) \/ Heal(p) \/ Respawn(p) \/ SetGamemode(p)
            \/ SwitchDimension(p) \/ Eat(p) \/ ApplyInstant(p) \/ ApplyLasting(p)
            \/ AddSpeed(p) \/ DrinkMilk(p) \/ Shoot(p) \/ Summon(p) \/ Seat(p)
            \/ Dismount(p) \/ Rise(p) \/ Sleep(p) \/ Weather(p) \/ Load(p) \/ Enter(p)
            \/ Leave(p) \/ WriteFile(p) \/ remove_player(p) \/ Clear(p)
            \/ SavePlayer(p)
     PROVE  LoopGoes
  BY <1>31, Zenon DEF Fall, Kill, Heal, Respawn, SetGamemode, SwitchDimension, Eat,
         ApplyInstant, ApplyLasting, AddSpeed, DrinkMilk, Shoot, Summon, Seat, Dismount,
         Rise, Sleep, Weather, Load, Enter, Leave, WriteFile, remove_player, Clear,
         SavePlayer, elsewhere, course, saving
<1>32. ASSUME NEW p \in Player, NEW b \in Body, Attack(p, b) \/ Feed(p, b)
      PROVE  LoopGoes
  BY <1>32 DEF Attack, Feed, elsewhere, course, saving
<1>33. ASSUME NEW p \in Player, NEW v \in Boat, Mount(p, v) PROVE LoopGoes
  BY <1>33 DEF Mount, elsewhere, course, saving
<1>34. ASSUME NEW p \in Player, NEW t \in Thing, Stow(p, t) \/ Fetch(p, t) PROVE LoopGoes
  BY <1>34 DEF Stow, Fetch, elsewhere, course, saving
<1>35. CASE Rot \/ SaveContainers \/ SavePut \/ SavePlayers \/ SaveMobs \/ SaveItems
            \/ SaveMeta \/ Saved
  BY <1>35 DEF Rot, SaveContainers, SavePut, SavePlayers, SaveMobs, SaveItems, SaveMeta,
         Saved, elsewhere, course, saving
<1>36. CASE UNCHANGED vars
  BY <1>36 DEF vars, people, beasts, stores, course
<1> QED
  BY <1>1, <1>2, <1>3, <1>4, <1>5, <1>6, <1>7, <1>8, <1>9, <1>10, <1>11, <1>12, <1>13,
     <1>14, <1>15, <1>16, <1>17, <1>18, <1>19, <1>20, <1>21, <1>22, <1>23, <1>24, <1>25,
     <1>26, <1>27, <1>28, <1>29, <1>30, <1>31, <1>32, <1>33, <1>34, <1>35, <1>36
  DEF Next

(***************************************************************************)
(* What a step keeps: types.                                               *)
(***************************************************************************)

\* What the jobs that are not for players are about.
LEMMA JobOnBody ==
  ASSUME Types, todo # <<>>
  PROVE  /\ Head(todo).do \in {"mob", "pierce"} => Head(todo).on \in Body
         /\ Head(todo).do = "store" => Head(todo).arg \in Nat
         /\ Head(todo).do = "baby" => Head(todo).on \in Tame
         /\ Head(todo).do = "rain" => Head(todo).arg \in BOOLEAN
  BY FirstJob, JobFields DEF Types, LoopTypes

\* The times of day are numbers.
LEMMA Clock0 ==
  ASSUME LivesAssumption
  PROVE  Morning \in Nat /\ \A t \in 0..(Day - 1) : t \in Nat
  BY DEF LivesAssumption

\* Every step leaves a sequence of jobs.
LEMMA TodoTyped ==
  ASSUME LivesAssumption, Types, OldHands, LoversTame, [Next]_vars
  PROVE  todo' \in Seq(AJob)
<1>1. LoopGoes
  BY LoopStep, LivesAssumption
<1>2. ASSUME NEW more \in Seq(AJob), todo # <<>>, Done(more)
      PROVE  todo' \in Seq(AJob)
  BY <1>2, DoneJobs DEF Types, LoopTypes
<1> QED
  BY <1>1, <1>2, NoNewJob DEF LoopGoes, Starting, GoingOn, Types, LoopTypes

\* What a tick of mobs notes.
LEMMA TickTyped ==
  ASSUME LivesAssumption, Types, [Next]_vars
  PROVE  tick' \in Tick
<1> USE DEF Types, PeopleTypes, LoopTypes, Tick
<1>1. CASE MobsTick
  <2> DEFINE n == sky.time \in Night
  <2>1. n \in BOOLEAN
    OBVIOUS
  <2>2. tick' = tick \/ tick' = [NoTick EXCEPT !.crowd = table, !.night = n]
    BY <1>1 DEF MobsTick, course
  <2> HIDE DEF n
  <2>3. [NoTick EXCEPT !.crowd = table, !.night = n] \in Tick
    BY <2>1 DEF NoTick
  <2> QED
    BY <2>2, <2>3
<1>2. CASE MobDying
  BY <1>2, JobOnBody DEF MobDying, Do
<1>3. CASE MobStrays
  BY <1>3, JobOnBody DEF MobStrays, Do
<1>4. CASE MobLives
  BY <1>4, JobOnBody, Zenon DEF MobLives, Do
<1>5. CASE Forget
  BY <1>5 DEF Forget
<1>6. CASE Restart
  BY <1>6 DEF Restart, NoTick
<1>7. ASSUME NEW u \in Thread,
            Flinch(u) \/ DropAll(u) \/ Spill(u) \/ SendHealth(u)
            \/ register_villager(u)
     PROVE  tick' \in Tick
  BY <1>7, Zenon
  DEF Flinch, DropAll, Spill, SendHealth, register_villager, elsewhere, course, beasts,
      saving
<1>8. ASSUME NEW p \in Player,
            Fall(p) \/ Kill(p) \/ Heal(p) \/ Respawn(p) \/ SetGamemode(p)
            \/ SwitchDimension(p) \/ Eat(p) \/ ApplyInstant(p) \/ ApplyLasting(p)
            \/ AddSpeed(p) \/ DrinkMilk(p) \/ Shoot(p) \/ Summon(p) \/ Seat(p)
            \/ Dismount(p) \/ Rise(p) \/ Sleep(p) \/ Weather(p) \/ Load(p) \/ Enter(p)
            \/ Leave(p) \/ WriteFile(p) \/ remove_player(p) \/ Clear(p)
            \/ SavePlayer(p)
     PROVE  tick' \in Tick
  BY <1>8, Zenon
  DEF Fall, Kill, Heal, Respawn, SetGamemode, SwitchDimension, Eat, ApplyInstant,
      ApplyLasting, AddSpeed, DrinkMilk, Shoot, Summon, Seat, Dismount, Rise, Sleep,
      Weather, Load, Enter, Leave, WriteFile, remove_player, Clear, SavePlayer,
      elsewhere, course, beasts, saving
<1>9. ASSUME NEW p \in Player, NEW b \in Body, Attack(p, b) \/ Feed(p, b)
     PROVE  tick' \in Tick
  BY <1>9 DEF Attack, Feed, elsewhere, course, beasts, saving
<1>10. ASSUME NEW p \in Player, NEW v \in Boat, Mount(p, v) PROVE tick' \in Tick
  BY <1>10 DEF Mount, elsewhere, course, beasts, saving
<1>11. ASSUME NEW p \in Player, NEW t \in Thing, Stow(p, t) \/ Fetch(p, t)
     PROVE  tick' \in Tick
  BY <1>11, Zenon DEF Stow, Fetch, elsewhere, course, beasts, saving
<1>12. CASE MobDies \/ Hit \/ Pair \/ Baby \/ Spawn \/ ItemsTick \/ Give \/ Rot
            \/ ArrowsTick \/ Pierce \/ Regenerate \/ Regen \/ HungerTick \/ Hunger
            \/ EffectsTick \/ Affect \/ MendEffect \/ Poison \/ Wane \/ Slow \/ Clock
            \/ Store \/ Flip \/ TellWeather \/ SaveContainers \/ SavePut \/ SavePlayers
            \/ SaveMobs \/ SaveItems \/ SaveMeta \/ Saved
  BY <1>12, Zenon
  DEF MobDies, Hit, Pair, Baby, Spawn, ItemsTick, Give, Rot, ArrowsTick, Pierce, Regenerate,
      Regen, HungerTick, Hunger, EffectsTick, Affect, MendEffect, Poison, Wane, Slow,
      Clock, Store, Flip, TellWeather, SaveContainers, SavePut, SavePlayers, SaveMobs,
      SaveItems, SaveMeta, Saved, Round, elsewhere, course, beasts, saving
<1>13. CASE UNCHANGED vars
  BY <1>13 DEF vars, people, beasts, stores, course
<1> QED
  BY <1>1, <1>2, <1>3, <1>4, <1>5, <1>6, <1>7, <1>8, <1>9, <1>10, <1>11, <1>12, <1>13
  DEF Next

\* The clock and the weather.
LEMMA SkyTyped ==
  ASSUME LivesAssumption, Types, [Next]_vars
  PROVE  sky' \in [time : Nat, raining : BOOLEAN]
<1> USE DEF Types, LoopTypes
<1>1. ASSUME NEW p \in Player, Sleep(p) PROVE sky' \in [time : Nat, raining : BOOLEAN]
  BY <1>1, Clock0, Zenon DEF Sleep, set_time
<1>2. CASE MobsTick
  BY <1>2 DEF MobsTick, course
<1>3. CASE Store
  BY <1>3, JobOnBody DEF Store, Do
<1>4. CASE Flip
  BY <1>4 DEF Flip
<1>5. CASE Restart
  <2>1. Read("meta", Morning) \in Nat
    BY Clock0 DEF Read, FileTypes, Right, File
  <2> QED
    BY <1>5, <2>1, Clock0 DEF Restart
<1>6. ASSUME NEW u \in Thread,
            Flinch(u) \/ DropAll(u) \/ Spill(u) \/ SendHealth(u)
            \/ register_villager(u)
     PROVE  sky' \in [time : Nat, raining : BOOLEAN]
  BY <1>6, Zenon
  DEF Flinch, DropAll, Spill, SendHealth, register_villager, elsewhere, course, beasts,
      saving
<1>7. ASSUME NEW p \in Player,
            Fall(p) \/ Kill(p) \/ Heal(p) \/ Respawn(p) \/ SetGamemode(p)
            \/ SwitchDimension(p) \/ Eat(p) \/ ApplyInstant(p) \/ ApplyLasting(p)
            \/ AddSpeed(p) \/ DrinkMilk(p) \/ Shoot(p) \/ Summon(p) \/ Seat(p)
            \/ Dismount(p) \/ Rise(p) \/ Weather(p) \/ Load(p) \/ Enter(p) \/ Leave(p)
            \/ WriteFile(p) \/ remove_player(p) \/ Clear(p) \/ SavePlayer(p)
     PROVE  sky' \in [time : Nat, raining : BOOLEAN]
  BY <1>7, Zenon
  DEF Fall, Kill, Heal, Respawn, SetGamemode, SwitchDimension, Eat, ApplyInstant,
      ApplyLasting, AddSpeed, DrinkMilk, Shoot, Summon, Seat, Dismount, Rise, Weather,
      Load, Enter, Leave, WriteFile, remove_player, Clear, SavePlayer, elsewhere,
      course, beasts, saving
<1>8. ASSUME NEW p \in Player, NEW b \in Body, Attack(p, b) \/ Feed(p, b)
     PROVE  sky' \in [time : Nat, raining : BOOLEAN]
  BY <1>8 DEF Attack, Feed, elsewhere, course, beasts, saving
<1>9. ASSUME NEW p \in Player, NEW v \in Boat, Mount(p, v)
     PROVE  sky' \in [time : Nat, raining : BOOLEAN]
  BY <1>9 DEF Mount, elsewhere, course, beasts, saving
<1>10. ASSUME NEW p \in Player, NEW t \in Thing, Stow(p, t) \/ Fetch(p, t)
     PROVE  sky' \in [time : Nat, raining : BOOLEAN]
  BY <1>10, Zenon DEF Stow, Fetch, elsewhere, course, beasts, saving
<1>11. CASE MobDying \/ MobDies \/ MobStrays \/ MobLives \/ Hit \/ Pair \/ Baby
            \/ Forget \/ Spawn \/ ItemsTick \/ Give \/ Rot \/ ArrowsTick \/ Pierce
            \/ Regenerate \/ Regen \/ HungerTick \/ Hunger \/ EffectsTick \/ Affect
            \/ MendEffect \/ Poison \/ Wane \/ Slow \/ Clock \/ TellWeather
            \/ SaveContainers \/ SavePut \/ SavePlayers \/ SaveMobs \/ SaveItems
            \/ SaveMeta \/ Saved
  BY <1>11, Zenon
  DEF MobDying, MobDies, MobStrays, MobLives, Hit, Pair, Baby, Forget, Spawn, ItemsTick,
      Give, Rot, ArrowsTick, Pierce, Regenerate, Regen, HungerTick, Hunger, EffectsTick,
      Affect, MendEffect, Poison, Wane, Slow, Clock, TellWeather, SaveContainers,
      SavePut, SavePlayers, SaveMobs, SaveItems, SaveMeta, Saved, Round, elsewhere,
      course, beasts, saving
<1>12. CASE UNCHANGED vars
  BY <1>12 DEF vars, people, beasts, stores, course
<1> QED
  BY <1>1, <1>2, <1>3, <1>4, <1>5, <1>6, <1>7, <1>8, <1>9, <1>10, <1>11, <1>12
  DEF Next

\* A mob just born is a creature ...
LEMMA BornTyped ==
  ASSUME LivesAssumption, NEW k \in Kind, NEW loot \in Thing \cup {None}
  PROVE  Born(k, loot) \in Creature
  BY DEF Born, Unborn, Gone, Creature, Mob, LivesAssumption

\* ... whatever its health ...
LEMMA BornHurt ==
  ASSUME LivesAssumption, NEW k \in Kind, NEW loot \in Thing \cup {None}, NEW n \in Nat
  PROVE  [Born(k, loot) EXCEPT !.health = n] \in Creature
  BY DEF Born, Unborn, Gone, Creature, Mob, LivesAssumption

\* ... and if it is a baby.
LEMMA BornYoung ==
  ASSUME LivesAssumption, NEW k \in Kind, NEW loot \in Thing \cup {None}, NEW n \in Nat
  PROVE  [Born(k, loot) EXCEPT !.baby = TRUE, !.age = n] \in Creature
  BY DEF Born, Unborn, Gone, Creature, Mob, LivesAssumption

\* So are one not born yet and one that is gone.
LEMMA NobodyTyped ==
  /\ Unborn \in Creature /\ Unborn.at = "unborn" /\ Unborn.love = 0 /\ Unborn.dying = None
  /\ Gone \in Creature /\ Gone.at = "gone" /\ Gone.love = 0
  BY DEF Unborn, Gone, Creature, Mob

\* Ageing counts down and changes nothing else, but that a baby grows up.
LEMMA AgedTyped ==
  ASSUME NEW m \in Creature
  PROVE  /\ Aged(m) \in Creature
         /\ Aged(m).at = m.at /\ Aged(m).kind = m.kind /\ Aged(m).health = m.health
         /\ Aged(m).dying = m.dying /\ Aged(m).loot = m.loot
         /\ Aged(m).love > 0 => m.love > 0
         /\ Aged(m).baby => m.baby /\ Aged(m).age = MaxOf(0, m.age - 1) /\ m.age # 1
<1>1. /\ m \in Mob /\ {m.age, m.love, m.rest, m.ready} \subseteq Nat /\ m.baby \in BOOLEAN
  BY DEF Creature, Mob
<1>2. /\ {MaxOf(0, m.rest - 1), MaxOf(0, m.ready - 1), MaxOf(0, m.love - 1), MaxOf(0, m.age - 1)} \subseteq Nat
      /\ MaxOf(0, m.love - 1) > 0 => m.love > 0
      /\ (m.baby /\ m.age # 1) \in BOOLEAN
  BY <1>1 DEF MaxOf
<1>3. /\ Aged(m).at = m.at /\ Aged(m).kind = m.kind /\ Aged(m).health = m.health
      /\ Aged(m).dying = m.dying /\ Aged(m).loot = m.loot
      /\ Aged(m).love = MaxOf(0, m.love - 1) /\ Aged(m).rest = MaxOf(0, m.rest - 1)
      /\ Aged(m).ready = MaxOf(0, m.ready - 1)
      /\ Aged(m).age = (IF m.baby THEN MaxOf(0, m.age - 1) ELSE m.age)
      /\ Aged(m).baby = (m.baby /\ m.age # 1)
  BY <1>1 DEF Aged, Mob
<1>4. \A a, b, c, d \in Nat, e \in BOOLEAN :
        [m EXCEPT !.rest = a, !.ready = b, !.love = c, !.age = d, !.baby = e] \in Mob
  BY <1>1 DEF Mob
<1>5. Aged(m) \in Mob
  <2> DEFINE a == MaxOf(0, m.rest - 1)
             b == MaxOf(0, m.ready - 1)
             c == MaxOf(0, m.love - 1)
             d == IF m.baby THEN MaxOf(0, m.age - 1) ELSE m.age
             e == m.baby /\ m.age # 1
  <2>1. a \in Nat /\ b \in Nat /\ c \in Nat /\ d \in Nat /\ e \in BOOLEAN
    BY <1>1, <1>2
  <2>2. Aged(m) = [m EXCEPT !.rest = a, !.ready = b, !.love = c, !.age = d, !.baby = e]
    BY DEF Aged
  <2> HIDE DEF a, b, c, d, e
  <2>3. [m EXCEPT !.rest = a, !.ready = b, !.love = c, !.age = d, !.baby = e] \in Mob
    BY <1>4, <2>1, Zenon
  <2> QED
    BY <2>2, <2>3
<1> QED
  BY <1>1, <1>2, <1>3, <1>5 DEF Creature

\* What a restart reads.
LEMMA SavedEntities ==
  ASSUME LivesAssumption, Types
  PROVE  /\ Read("entities", [mobs |-> {}, items |-> {}]) \in Entities
         /\ Read("containers", {}) \subseteq Thing /\ Read("meta", Morning) \in Nat
         /\ Read("entities", [mobs |-> {}, items |-> {}]).mobs \subseteq SavedMob
         /\ Read("entities", [mobs |-> {}, items |-> {}]).items \subseteq Thing
<1>1. /\ Read("entities", [mobs |-> {}, items |-> {}]) \in Entities
      /\ Read("containers", {}) \subseteq Thing /\ Read("meta", Morning) \in Nat
  BY Clock0 DEF Read, Types, FileTypes, Right, File, Entities
<1> QED
  BY <1>1 DEF Entities

\* Every step leaves mobs that are creatures.
LEMMA MobsTyped ==
  ASSUME LivesAssumption, Types, [Next]_vars
  PROVE  mob' \in [Body -> Creature]
<1> USE DEF Types, BeastTypes
<1>0. None \in Thing \cup {None}
  OBVIOUS
<1>1. ASSUME NEW p \in Player, Summon(p) PROVE mob' \in [Body -> Creature]
  <2>1. PICK c \in Body, k \in Kind : mob' = [mob EXCEPT ![c] = Born(k, None)]
    BY <1>1 DEF Summon, Enlist
  <2>2. Born(k, None) \in Creature
    BY <1>0, BornTyped, Zenon
  <2> QED
    BY <2>1, <2>2
<1>2. ASSUME NEW p \in Player, NEW b \in Body, Attack(p, b)
     PROVE  mob' \in [Body -> Creature]
  <2>1. PICK n \in Blow : mob' = [mob EXCEPT ![b].health = MaxOf(0, @ - n)]
    BY <1>2 DEF Attack
  <2>2. n \in Nat /\ mob[b] \in Creature
    BY DEF LivesAssumption
  <2>3. [mob[b] EXCEPT !.health = MaxOf(0, @ - n)] \in Creature
    BY <2>2 DEF Creature, Mob, MaxOf
  <2> QED
    BY <2>1, <2>3
<1>3. ASSUME NEW p \in Player, NEW b \in Body, Feed(p, b)
     PROVE  mob' \in [Body -> Creature]
  <2> DEFINE age == MaxOf(0, mob[b].age - (mob[b].age \div 10 + FeedGrow))
  <2>1. \/ mob' = [mob EXCEPT ![b].age = age] \/ mob' = [mob EXCEPT ![b].love = LoveTicks]
    BY <1>3 DEF Feed
  <2>2. mob[b] \in Creature
    OBVIOUS
  <2>3. age \in Nat
    BY <2>2 DEF Creature, Mob, MaxOf, LivesAssumption
  <2> HIDE DEF age
  <2>4. [mob[b] EXCEPT !.age = age] \in Creature /\ [mob[b] EXCEPT !.love = LoveTicks] \in Creature
    BY <2>2, <2>3 DEF Creature, Mob, LivesAssumption
  <2> QED
    BY <2>1, <2>4
<1>4. CASE MobsTick
  <2>1. UNCHANGED mob \/ mob' = [b \in Body |-> IF b \in Here THEN Gone ELSE mob[b]]
    BY <1>4 DEF MobsTick
  <2> QED
    BY <2>1, NobodyTyped
<1>5. CASE MobDying
  <2>1. Head(todo).on \in Body
    BY <1>5, JobOnBody DEF MobDying, Do
  <2> DEFINE c == Head(todo).on
  <2>2. mob[c] \in Creature /\ mob[c].dying # None
    BY <1>5, <2>1 DEF MobDying
  <2>3. [mob[c] EXCEPT !.dying = MaxOf(0, @ - 1)] \in Creature
    BY <2>2 DEF Creature, Mob, MaxOf
  <2>4. mob' = [mob EXCEPT ![c].dying = MaxOf(0, @ - 1)]
    BY <1>5 DEF MobDying
  <2> QED
    BY <2>1, <2>3, <2>4
<1>6. CASE MobDies
  <2>1. Head(todo).on \in Body
    BY <1>6, JobOnBody DEF MobDies, Do
  <2> DEFINE c == Head(todo).on
  <2>0. mob[c] \in Creature
    BY <2>1
  <2>2. [mob[c] EXCEPT !.dying = DyingTicks, !.loot = None] \in Creature
    BY <2>0 DEF Creature, Mob, LivesAssumption
  <2>3. mob' = [mob EXCEPT ![c] = [mob[c] EXCEPT !.dying = DyingTicks, !.loot = None]]
    BY <1>6, <2>1 DEF MobDies
  <2> QED
    BY <2>1, <2>2, <2>3
<1>7. CASE MobLives
  <2>1. Head(todo).on \in Body
    BY <1>7, JobOnBody, Zenon DEF MobLives, Do
  <2> DEFINE c == Head(todo).on
             m == Aged(mob[c])
  <2>2. m \in Creature
    BY <2>1, AgedTyped, Zenon
  <2>3. \/ mob' = [mob EXCEPT ![c] = m]
        \/ mob' = [mob EXCEPT ![c] = [m EXCEPT !.health = 0]]
        \/ mob' = [mob EXCEPT ![c] = [m EXCEPT !.ready = AttackRest]]
    BY <1>7, Zenon DEF MobLives
  <2> HIDE DEF m
  <2>4. [m EXCEPT !.health = 0] \in Creature /\ [m EXCEPT !.ready = AttackRest] \in Creature
    BY <2>2 DEF Creature, Mob, LivesAssumption
  <2> QED
    BY <2>1, <2>2, <2>3, <2>4
<1>8. CASE Pair
  <2>1. PICK S \in SUBSET tick.lovers :
         mob' = [b \in Body |-> IF b \in tick.remove THEN Gone
                                ELSE IF b \in S THEN [mob[b] EXCEPT !.love = 0, !.rest = BreedRest]
                                ELSE mob[b]]
    BY <1>8, Zenon DEF Pair
  <2>2. \A b \in Body : mob'[b] \in {Gone, [mob[b] EXCEPT !.love = 0, !.rest = BreedRest], mob[b]}
    BY <2>1, Zenon
  <2>3. ASSUME NEW b \in Body PROVE [mob[b] EXCEPT !.love = 0, !.rest = BreedRest] \in Creature
    <3>1. mob[b] \in Creature
      OBVIOUS
    <3> QED
      BY <3>1 DEF Creature, Mob, LivesAssumption
  <2> QED
    BY <2>1, <2>2, <2>3, NobodyTyped, Zenon
<1>9. CASE Baby
  <2>1. UNCHANGED mob \/ \E b \in Body :
          mob' = [mob EXCEPT ![b] = [Born(Head(todo).on, None) EXCEPT !.baby = TRUE, !.age = GrowTicks]]
    BY <1>9 DEF Baby
  <2>2. Head(todo).on \in Kind /\ GrowTicks \in Nat
    BY <1>9, JobOnBody DEF Baby, Do, LivesAssumption
  <2>3. [Born(Head(todo).on, None) EXCEPT !.baby = TRUE, !.age = GrowTicks] \in Creature
    BY <1>0, <2>2, BornYoung, Zenon
  <2> QED
    BY <2>1, <2>3
<1>10. CASE Spawn
  <2>1. UNCHANGED mob \/ \E c \in Body, k \in Kind : mob' = [mob EXCEPT ![c] = Born(k, None)]
    BY <1>10, Zenon DEF Spawn, Enlist
  <2>2. \A k \in Kind : Born(k, None) \in Creature
    BY <1>0, BornTyped, Zenon
  <2> QED
    BY <2>1, <2>2
<1>11. CASE Pierce
  <2> DEFINE c == Head(todo).on
  <2>1. PICK n \in Blow : mob' = IF c \in Here THEN [mob EXCEPT ![c].health = MaxOf(0, @ - n)] ELSE mob
    BY <1>11 DEF Pierce
  <2>2. c \in Here => c \in Body /\ mob[c] \in Creature
    BY DEF Here
  <2>3. c \in Here => [mob[c] EXCEPT !.health = MaxOf(0, @ - n)] \in Creature
    BY <2>2 DEF Here, Creature, Mob, MaxOf, LivesAssumption
  <2> QED
    BY <2>1, <2>2, <2>3
<1>12. CASE Restart
  <2> DEFINE saved == Read("entities", [mobs |-> {}, items |-> {}])
             back(b) == {m \in saved.mobs : m.body = b}
             new(b) == LET m == CHOOSE m \in back(b) : TRUE
                       IN  [Born(m.kind, m.loot) EXCEPT !.health = m.health]
  <2>1. saved.mobs \subseteq SavedMob
    BY SavedEntities
  <2>2. \A b \in Body : back(b) # {} => (CHOOSE m \in back(b) : TRUE) \in SavedMob
    BY <2>1
  <2>3. ASSUME NEW m \in SavedMob
        PROVE  [Born(m.kind, m.loot) EXCEPT !.health = m.health] \in Creature
    <3>1. m.kind \in Kind /\ m.loot \in Thing \cup {None} /\ m.health \in Nat
      BY DEF SavedMob
    <3> QED
      BY <3>1, BornHurt, Zenon
  <2>4. \A b \in Body : back(b) # {} => new(b) \in Creature
    BY <2>2, <2>3
  <2>5. mob' = [b \in Body |-> IF back(b) # {} THEN new(b)
                               ELSE IF mob[b] = Unborn THEN Unborn ELSE Gone]
    BY <1>12 DEF Restart
  <2> HIDE DEF new, back
  <2> QED
    BY <2>4, <2>5, NobodyTyped
<1>13. ASSUME NEW u \in Thread,
            Flinch(u) \/ DropAll(u) \/ Spill(u) \/ SendHealth(u)
            \/ register_villager(u)
     PROVE  mob' \in [Body -> Creature]
  BY <1>13, Zenon
  DEF Flinch, DropAll, Spill, SendHealth, register_villager, elsewhere, course, beasts,
      saving
<1>14. ASSUME NEW p \in Player,
            Fall(p) \/ Kill(p) \/ Heal(p) \/ Respawn(p) \/ SetGamemode(p)
            \/ SwitchDimension(p) \/ Eat(p) \/ ApplyInstant(p) \/ ApplyLasting(p)
            \/ AddSpeed(p) \/ DrinkMilk(p) \/ Shoot(p) \/ Seat(p) \/ Dismount(p)
            \/ Rise(p) \/ Sleep(p) \/ Weather(p) \/ Load(p) \/ Enter(p) \/ Leave(p)
            \/ WriteFile(p) \/ remove_player(p) \/ Clear(p) \/ SavePlayer(p)
     PROVE  mob' \in [Body -> Creature]
  BY <1>14, Zenon
  DEF Fall, Kill, Heal, Respawn, SetGamemode, SwitchDimension, Eat, ApplyInstant,
      ApplyLasting, AddSpeed, DrinkMilk, Shoot, Seat, Dismount, Rise, Sleep, Weather,
      Load, Enter, Leave, WriteFile, remove_player, Clear, SavePlayer, elsewhere,
      course, beasts, saving
<1>15. ASSUME NEW p \in Player, NEW v \in Boat, Mount(p, v)
     PROVE  mob' \in [Body -> Creature]
  BY <1>15 DEF Mount, elsewhere, course, beasts, saving
<1>16. ASSUME NEW p \in Player, NEW t \in Thing, Stow(p, t) \/ Fetch(p, t)
     PROVE  mob' \in [Body -> Creature]
  BY <1>16, Zenon DEF Stow, Fetch, elsewhere, course, beasts, saving
<1>17. CASE MobStrays \/ Hit \/ Forget \/ ItemsTick \/ Give \/ Rot \/ ArrowsTick
            \/ Regenerate \/ Regen \/ HungerTick \/ Hunger \/ EffectsTick \/ Affect
            \/ MendEffect \/ Poison \/ Wane \/ Slow \/ Clock \/ Store \/ Flip
            \/ TellWeather \/ SaveContainers \/ SavePut \/ SavePlayers \/ SaveMobs
            \/ SaveItems \/ SaveMeta \/ Saved
  BY <1>17, Zenon
  DEF MobStrays, Hit, Forget, ItemsTick, Give, Rot, ArrowsTick, Regenerate, Regen,
      HungerTick, Hunger, EffectsTick, Affect, MendEffect, Poison, Wane, Slow, Clock,
      Store, Flip, TellWeather, SaveContainers, SavePut, SavePlayers, SaveMobs,
      SaveItems, SaveMeta, Saved, Round, elsewhere, course, beasts, saving
<1>18. CASE UNCHANGED vars
  BY <1>18 DEF vars, people, beasts, stores, course
<1> QED
  BY <1>1, <1>2, <1>3, <1>4, <1>5, <1>6, <1>7, <1>8, <1>9, <1>10, <1>11, <1>12, <1>13,
     <1>14, <1>15, <1>16, <1>17, <1>18
  DEF Next

\* Every step leaves players in vehicles, or nobody.
LEMMA RidersTyped ==
  ASSUME LivesAssumption, Types, [Next]_vars
  PROVE  rider' \in [Boat -> Player \cup {None}]
<1> USE DEF Types, BeastTypes
<1>1. ASSUME NEW p \in Player, Rise(p) PROVE rider' \in [Boat -> Player \cup {None}]
  BY <1>1 DEF Rise
<1>2. ASSUME NEW p \in Player, NEW v \in Boat, Mount(p, v)
     PROVE  rider' \in [Boat -> Player \cup {None}]
  BY <1>2 DEF Mount
<1>3. CASE Restart
  BY <1>3 DEF Restart
<1>4. ASSUME NEW u \in Thread,
            Flinch(u) \/ DropAll(u) \/ Spill(u) \/ SendHealth(u)
            \/ register_villager(u)
     PROVE  rider' \in [Boat -> Player \cup {None}]
  BY <1>4, Zenon
  DEF Flinch, DropAll, Spill, SendHealth, register_villager, elsewhere, course, beasts,
      saving
<1>5. ASSUME NEW p \in Player,
            Fall(p) \/ Kill(p) \/ Heal(p) \/ Respawn(p) \/ SetGamemode(p)
            \/ SwitchDimension(p) \/ Eat(p) \/ ApplyInstant(p) \/ ApplyLasting(p)
            \/ AddSpeed(p) \/ DrinkMilk(p) \/ Shoot(p) \/ Summon(p) \/ Seat(p)
            \/ Dismount(p) \/ Sleep(p) \/ Weather(p) \/ Load(p) \/ Enter(p) \/ Leave(p)
            \/ WriteFile(p) \/ remove_player(p) \/ Clear(p) \/ SavePlayer(p)
     PROVE  rider' \in [Boat -> Player \cup {None}]
  BY <1>5, Zenon
  DEF Fall, Kill, Heal, Respawn, SetGamemode, SwitchDimension, Eat, ApplyInstant,
      ApplyLasting, AddSpeed, DrinkMilk, Shoot, Summon, Seat, Dismount, Sleep, Weather,
      Load, Enter, Leave, WriteFile, remove_player, Clear, SavePlayer, elsewhere,
      course, beasts, saving
<1>6. ASSUME NEW p \in Player, NEW b \in Body, Attack(p, b) \/ Feed(p, b)
     PROVE  rider' \in [Boat -> Player \cup {None}]
  BY <1>6 DEF Attack, Feed, elsewhere, course, beasts, saving
<1>7. ASSUME NEW p \in Player, NEW t \in Thing, Stow(p, t) \/ Fetch(p, t)
     PROVE  rider' \in [Boat -> Player \cup {None}]
  BY <1>7, Zenon DEF Stow, Fetch, elsewhere, course, beasts, saving
<1>8. CASE MobsTick \/ MobDying \/ MobDies \/ MobStrays \/ MobLives \/ Hit \/ Pair
            \/ Baby \/ Forget \/ Spawn \/ ItemsTick \/ Give \/ Rot \/ ArrowsTick
            \/ Pierce \/ Regenerate \/ Regen \/ HungerTick \/ Hunger \/ EffectsTick
            \/ Affect \/ MendEffect \/ Poison \/ Wane \/ Slow \/ Clock \/ Store \/ Flip
            \/ TellWeather \/ SaveContainers \/ SavePut \/ SavePlayers \/ SaveMobs
            \/ SaveItems \/ SaveMeta \/ Saved
  BY <1>8, Zenon
  DEF MobsTick, MobDying, MobDies, MobStrays, MobLives, Hit, Pair, Baby, Forget, Spawn,
      ItemsTick, Give, Rot, ArrowsTick, Pierce, Regenerate, Regen, HungerTick, Hunger,
      EffectsTick, Affect, MendEffect, Poison, Wane, Slow, Clock, Store, Flip,
      TellWeather, SaveContainers, SavePut, SavePlayers, SaveMobs, SaveItems, SaveMeta,
      Saved, Round, elsewhere, course, beasts, saving
<1>9. CASE UNCHANGED vars
  BY <1>9 DEF vars, people, beasts, stores, course
<1> QED
  BY <1>1, <1>2, <1>3, <1>4, <1>5, <1>6, <1>7, <1>8, <1>9, Zenon DEF Next

(***************************************************************************)
(* A change of vitals.                                                     *)
(***************************************************************************)

\* Only vitals differ.
SameElse(s, t) ==
  /\ t \in Self
  /\ t.creative = s.creative /\ t.pack = s.pack /\ t.effect = s.effect
  /\ t.riding = s.riding /\ t.at = s.at /\ t.file = s.file

\* Changing health, food and saturation changes nothing else of a player.
LEMMA Filled ==
  ASSUME NEW s \in Self, NEW n \in Nat
  PROVE  /\ SameElse(s, [s EXCEPT !.health = n]) /\ SameElse(s, [s EXCEPT !.sat = n])
         /\ \A d \in BOOLEAN : SameElse(s, [s EXCEPT !.health = n, !.dead = d])
         /\ \A f \in Nat : SameElse(s, [s EXCEPT !.food = f, !.sat = n])
         /\ \A h, f \in Nat, d \in BOOLEAN :
              SameElse(s, [s EXCEPT !.health = h, !.food = f, !.sat = n, !.dead = d])
         /\ SameElse(s, [s EXCEPT !.food = n]) /\ SameElse(s, s)
<1>1. \A h, f \in Nat, d \in BOOLEAN :
        SameElse(s, [s EXCEPT !.health = h, !.food = f, !.sat = n, !.dead = d])
  <2> TAKE h, f \in Nat, d \in BOOLEAN
  <2>1. [s EXCEPT !.health = h, !.food = f, !.sat = n, !.dead = d] \in Self
    BY DEF Self
  <2> QED
    BY <2>1 DEF SameElse, Self
<1>2. \A d \in BOOLEAN : SameElse(s, [s EXCEPT !.health = n, !.dead = d])
  BY DEF SameElse, Self
<1>3. SameElse(s, [s EXCEPT !.health = n]) /\ SameElse(s, [s EXCEPT !.sat = n])
  BY DEF SameElse, Self
<1>4. SameElse(s, [s EXCEPT !.food = n]) /\ SameElse(s, s)
  BY DEF SameElse, Self
<1>5. \A f \in Nat : SameElse(s, [s EXCEPT !.food = f, !.sat = n])
  BY DEF SameElse, Self
<1> QED
  BY <1>1, <1>2, <1>3, <1>4, <1>5, Zenon

\* One who is struck dies with no health left, and one who is dead stays as it is.
LEMMA StruckIs ==
  ASSUME NEW s \in Self, NEW n \in Nat, s.dead => s.health = 0
  PROVE  /\ SameElse(s, Struck(s, n))
         /\ Struck(s, n).dead => Struck(s, n).health = 0
         /\ Struck(s, n).health = 0 => Struck(s, n).dead \/ s.health = 0
         /\ s.dead => Struck(s, n) = s
<1>1. s.health \in Nat /\ s.dead \in BOOLEAN
  BY DEF Self
<1>2. CASE s.dead
  BY <1>2, <1>1 DEF Struck, SameElse
<1>3. CASE ~s.dead
  <2> DEFINE h == MaxOf(0, s.health - n)
             d == s.health <= n /\ s.health > 0
  <2>1. h \in Nat /\ d \in BOOLEAN /\ (d => h = 0) /\ (h = 0 => d \/ s.health = 0)
    BY <1>1 DEF MaxOf
  <2>2. Struck(s, n) = [s EXCEPT !.health = h, !.dead = d]
    BY <1>3 DEF Struck
  <2> HIDE DEF h, d
  <2>3. SameElse(s, Struck(s, n))
    BY <2>1, <2>2 DEF SameElse, Self
  <2>4. Struck(s, n).health = h /\ Struck(s, n).dead = d
    BY <2>2 DEF Self
  <2> QED
    BY <1>3, <2>1, <2>3, <2>4
<1> QED
  BY <1>2, <1>3

\* Healing changes health, and brings nobody back from the dead.
LEMMA HealedIs ==
  ASSUME LivesAssumption, NEW s \in Self, s.dead => s.health = 0
  PROVE  /\ SameElse(s, Healed(s, 1))
         /\ Healed(s, 1).dead => Healed(s, 1).health = 0
         /\ Healed(s, 1).health = 0 => Healed(s, 1).dead
<1>1. s.health \in Nat /\ s.dead \in BOOLEAN /\ MaxHealth \in Nat /\ MaxHealth > 0
  BY DEF Self, LivesAssumption
<1>2. CASE s.dead
  BY <1>2, <1>1 DEF Healed, SameElse
<1>3. CASE ~s.dead
  <2>1. MinOf(MaxHealth, s.health + 1) \in Nat /\ MinOf(MaxHealth, s.health + 1) > 0
    BY <1>1 DEF MinOf
  <2>2. Healed(s, 1) = [s EXCEPT !.health = MinOf(MaxHealth, s.health + 1)]
    BY <1>3 DEF Healed
  <2>3. SameElse(s, Healed(s, 1))
    BY <2>1, <2>2 DEF SameElse, Self
  <2>4. Healed(s, 1).dead = s.dead /\ Healed(s, 1).health = MinOf(MaxHealth, s.health + 1)
    BY <2>2 DEF Self
  <2> QED
    BY <1>3, <2>1, <2>3, <2>4
<1> QED
  BY <1>2, <1>3

\* Reviving gives full health, and life.
LEMMA RevivedIs ==
  ASSUME LivesAssumption, NEW s \in Self
  PROVE  /\ SameElse(s, Revived(s))
         /\ Revived(s).health = MaxHealth /\ MaxHealth > 0 /\ Revived(s).dead = FALSE
<1>1. MaxHealth \in Nat /\ MaxHealth > 0 /\ MaxFood \in Nat /\ MaxSat \in Nat
  BY DEF LivesAssumption
<1> QED
  BY <1>1, Filled, Zenon DEF Revived, Self

\* The vitals of p are made into t by a thread that was idle; the others who were about
\* to tell p are overtaken.
Altered(u, p, t, at, died) ==
  /\ Known(p) /\ step[u].at = "idle" /\ (u # Loop => u = p /\ self[p].at = "play")
  /\ Change(u, p, t, at, died)
  /\ at \in {"hurt", "telling"} /\ died \in BOOLEAN
  /\ SameElse(self[p], t)
  /\ t.dead => t.health = 0
  /\ t.health = 0 => t.dead \/ p \in past'.undead
  /\ at = "hurt" => died \/ ~t.dead \/ t = self[p]
  /\ \/ shown' = shown /\ past'.milked = past.milked
     \/ /\ shown' = [shown EXCEPT ![p].fast = FALSE]
        /\ past'.milked = past.milked \ {p}
  /\ past.undead \ {p} \subseteq past'.undead
  /\ Proper(past') /\ \A x \in Marks \ {"undead", "milked"} : past'[x] = past[x]
  /\ \A x \in Fates : past'[x] = past[x]
  /\ UNCHANGED <<table, records, beasts, stores, sky, tick>>
Alteration ==
  \E u \in Thread, p \in Player, t \in Self, at \in {"hurt", "telling"}, died \in BOOLEAN :
    Altered(u, p, t, at, died)

\* A blow alters its victim's vitals, and its thread will tell it.
LEMMA BlowAlters ==
  ASSUME LivesAssumption, Types, DeadOrAlive, NEW u \in Thread, NEW p \in Player, NEW n \in Nat,
         Known(p), step[u].at = "idle", u # Loop => u = p /\ self[p].at = "play",
         damage_player(u, p, n), UNCHANGED <<table, records, beasts, stores, sky, tick, shown, past>>
  PROVE  Alteration
<1> DEFINE t == Struck(self[p], n)
           died == t.dead /\ ~self[p].dead
<1>1. self[p] \in Self /\ (self[p].dead => self[p].health = 0)
  BY DEF Types, PeopleTypes, DeadOrAlive
<1>2. self[p].health = 0 => self[p].dead \/ p \in past.undead
  BY DEF DeadOrAlive
<1>3. /\ SameElse(self[p], t)
      /\ t.dead => t.health = 0
      /\ t.health = 0 => t.dead \/ self[p].health = 0
      /\ self[p].dead => t = self[p]
  BY <1>1, StruckIs
<1>5. Change(u, p, t, "hurt", died)
  BY DEF damage_player
<1> HIDE DEF t
<1>4. t \in Self
  BY <1>3 DEF SameElse
<1>6. PICK d \in BOOLEAN : /\ Change(u, p, t, "hurt", d)
                           /\ d \/ ~t.dead \/ t = self[p]
  BY <1>3, <1>5
<1>7. t.health = 0 => t.dead \/ p \in past'.undead
  BY <1>1, <1>2, <1>3, <1>4 DEF Self
<1>8. Proper(past)
  BY DEF Types, PeopleTypes
<1>9. /\ past'.undead = past.undead /\ past'.milked = past.milked /\ Proper(past')
      /\ \A x \in Marks \cup Fates : past'[x] = past[x]
  BY <1>8 DEF Proper
<1>10. Altered(u, p, t, "hurt", d)
  BY <1>3, <1>4, <1>6, <1>7, <1>9 DEF Altered
<1> QED
  BY <1>4, <1>10 DEF Alteration

\* So does anything that changes vitals without a blow.
LEMMA MendingAlters ==
  ASSUME LivesAssumption, Types, DeadOrAlive, NEW u \in Thread, NEW p \in Player, NEW t \in Self,
         Known(p), step[u].at = "idle", u # Loop => u = p /\ self[p].at = "play",
         Change(u, p, t, "telling", FALSE), SameElse(self[p], t),
         t.dead => t.health = 0, t.health = 0 => t.dead \/ (self[p].health = 0 /\ ~self[p].dead),
         past' = Risen(past, p, t),
         UNCHANGED <<table, records, beasts, stores, sky, tick, shown>>
  PROVE  Alteration
<1>1. /\ Proper(past') /\ \A x \in Marks \ {"undead"} : past'[x] = past[x]
      /\ \A x \in Fates : past'[x] = past[x]
      /\ past'.undead \in {past.undead, past.undead \ {p}}
      /\ t.health = 0 => past'.undead = past.undead
  <2>1. Proper(past)
    BY DEF Types, PeopleTypes
  <2> QED
    BY <2>1, RisenNotes
<1>2. past'.milked = past.milked
  BY <1>1 DEF Marks
<1>3. t.health = 0 => t.dead \/ p \in past'.undead
  BY <1>1 DEF DeadOrAlive, Self
<1>4. Altered(u, p, t, "telling", FALSE)
  BY <1>1, <1>2, <1>3 DEF Altered
<1> QED
  BY <1>4 DEF Alteration

\* What players do to their own vitals alters them.
LEMMA TakingAlters ==
  ASSUME LivesAssumption, Types, DeadOrAlive, NEW p \in Player,
         Fall(p) \/ Kill(p) \/ Heal(p) \/ Eat(p) \/ ApplyInstant(p) \/ Respawn(p)
  PROVE  Alteration
<1>1. /\ Free(p) /\ Known(p) /\ step[p].at = "idle" /\ self[p].at = "play" /\ p \in Thread
      /\ self[p] \in Self /\ (self[p].dead => self[p].health = 0)
  BY Zenon DEF Fall, Kill, Heal, Eat, ApplyInstant, Respawn, Free, Known, Thread, Types,
     PeopleTypes,
         DeadOrAlive
<1>2. CASE Fall(p)
  <2>1. PICK n \in Blow : damage_player(p, p, n)
    BY <1>2 DEF Fall
  <2>2. n \in Nat
    BY DEF LivesAssumption
  <2> QED
    BY <1>1, <1>2, <2>1, <2>2, BlowAlters DEF Fall, elsewhere, course
<1>3. CASE Kill(p)
  <2>1. MaxHealth \in Nat
    BY DEF LivesAssumption
  <2> QED
    BY <1>1, <1>3, <2>1, BlowAlters DEF Kill, elsewhere, course
<1>4. CASE Heal(p)
  BY <1>1, <1>4, RevivedIs, MendingAlters DEF Heal, Mend, elsewhere, course, SameElse
<1>5. CASE Eat(p)
  <2>1. PICK n \in 1..MaxFood : LET food == MinOf(MaxFood, self[p].food + n)
        IN  Change(p, p, [self[p] EXCEPT !.food = food, !.sat = MinOf(food, MinOf(MaxSat, @ + n))],
                   "telling", FALSE)
    BY <1>5, Zenon DEF Eat
  <2> DEFINE food == MinOf(MaxFood, self[p].food + n)
             sat  == MinOf(food, MinOf(MaxSat, self[p].sat + n))
             t    == [self[p] EXCEPT !.food = food, !.sat = sat]
  <2>2. food \in Nat /\ sat \in Nat
    BY <1>1 DEF Self, MinOf, LivesAssumption
  <2>3. Change(p, p, t, "telling", FALSE)
    BY <2>1
  <2> HIDE DEF food, sat
  <2>4. SameElse(self[p], t) /\ t.health = self[p].health /\ t.dead = self[p].dead /\ t \in Self
    BY <1>1, <2>2 DEF SameElse, Self
  <2> HIDE DEF t
  <2>5. t.health = 0 => t.dead \/ p \in past.undead
    BY <2>4 DEF DeadOrAlive
  <2>6. past' = past /\ UNCHANGED <<table, records, beasts, stores, sky, tick, shown>>
    BY <1>5, Zenon DEF Eat, elsewhere, course
  <2>7. /\ Proper(past') /\ past'.undead = past.undead /\ past'.milked = past.milked
        /\ \A x \in Marks \cup Fates : past'[x] = past[x]
    BY <2>6 DEF Types, PeopleTypes
  <2>8. Altered(p, p, t, "telling", FALSE)
    BY <1>1, <2>3, <2>4, <2>5, <2>6, <2>7 DEF Altered
  <2> QED
    BY <1>1, <2>4, <2>8 DEF Alteration
<1>6. CASE ApplyInstant(p)
  <2>1. CASE Mend(p, Healed(self[p], 1))
    <3> DEFINE t == Healed(self[p], 1)
    <3>1. /\ SameElse(self[p], t) /\ t \in Self
          /\ t.dead => t.health = 0
          /\ t.health = 0 => t.dead
      BY <1>1, HealedIs DEF SameElse
    <3>2. Change(p, p, t, "telling", FALSE) /\ past' = Risen(past, p, t)
      BY <2>1 DEF Mend
    <3>3. UNCHANGED <<table, records, beasts, stores, sky, tick, shown>>
      BY <1>6 DEF ApplyInstant, elsewhere, course
    <3> HIDE DEF t
    <3> QED
      BY <1>1, <3>1, <3>2, <3>3, MendingAlters
  <2>2. CASE (\E n \in Blow : damage_player(p, p, n)) /\ UNCHANGED past
    <3>1. PICK n \in Blow : damage_player(p, p, n)
      BY <2>2
    <3>2. n \in Nat
      BY DEF LivesAssumption
    <3> QED
      BY <1>1, <1>6, <2>2, <3>1, <3>2, BlowAlters DEF ApplyInstant, elsewhere, course
  <2> QED
    BY <1>6, <2>1, <2>2 DEF ApplyInstant
<1>7. CASE Respawn(p)
  <2> DEFINE t == Revived(self[p])
  <2>1. SameElse(self[p], t) /\ t.health > 0 /\ t.dead = FALSE /\ t \in Self
    BY <1>1, RevivedIs DEF SameElse
  <2>2. /\ Change(p, p, t, "telling", FALSE)
        /\ shown' = [shown EXCEPT ![p].fast = FALSE] /\ past' = Slowed(Risen(past, p, t), p)
        /\ UNCHANGED <<table, records, beasts, stores, sky, tick>>
    BY <1>7 DEF Respawn, Walk, elsewhere, course
  <2> HIDE DEF t
  <2>3. /\ Proper(Risen(past, p, t)) /\ Risen(past, p, t).undead = past.undead \ {p}
        /\ \A x \in Marks \ {"undead"} : Risen(past, p, t)[x] = past[x]
        /\ \A x \in Fates : Risen(past, p, t)[x] = past[x]
    <3>1. Proper(past)
      BY DEF Types, PeopleTypes
    <3> QED
      BY <2>1, <3>1, RisenNotes
  <2>4. /\ Proper(past') /\ past'.milked = Risen(past, p, t).milked \ {p}
        /\ \A x \in Marks \ {"milked"} : past'[x] = Risen(past, p, t)[x]
        /\ \A x \in Fates : past'[x] = Risen(past, p, t)[x]
    BY <2>2, <2>3, SlowedNotes
  <2>5. /\ past'.undead = past.undead \ {p} /\ past'.milked = past.milked \ {p}
        /\ \A x \in Marks \ {"undead", "milked"} : past'[x] = past[x]
        /\ \A x \in Fates : past'[x] = past[x]
    BY <2>3, <2>4 DEF Marks
  <2>6. t.health # 0
    BY <2>1
  <2>7. Altered(p, p, t, "telling", FALSE)
    BY <1>1, <2>1, <2>2, <2>4, <2>5, <2>6 DEF Altered
  <2> QED
    BY <1>1, <2>1, <2>7 DEF Alteration
<1> QED
  BY <1>2, <1>3, <1>4, <1>5, <1>6, <1>7

AtRest == UNCHANGED <<people, step, past, beasts, stores, sky, tick>>

\* What the loop does to players' vitals alters them, or it finds the player gone.
LEMMA GivingAlters ==
  ASSUME LivesAssumption, Types, DeadOrAlive, OldHands,
         Hit \/ Regen \/ Hunger \/ MendEffect \/ Poison
  PROVE  Alteration \/ AtRest
<1> DEFINE p == Head(todo).on
           s == self[p]
<1>1. /\ todo # <<>> /\ step[Loop].at = "idle" /\ Loop \in Thread
      /\ Head(todo).do \in {"hit", "regen", "hunger", "mend", "poison"}
  BY DEF Hit, Regen, Hunger, MendEffect, Poison, Do, Thread
<1>2. p \in Player /\ Known(p)
  BY <1>1, JobIsForKnown DEF PlayerJob
<1>3. /\ s \in Self /\ s.health \in Nat /\ s.food \in Nat /\ s.sat \in Nat /\ s.dead \in BOOLEAN
      /\ s.dead => s.health = 0
      /\ s.health = 0 => s.dead \/ p \in past.undead
  BY <1>2 DEF Types, PeopleTypes, Self, DeadOrAlive
<1>4. CASE Hit
  <2>1. UNCHANGED <<table, records, beasts, stores, sky, tick, shown, past>>
    BY <1>4 DEF Hit
  <2>2. PICK n \in IF Head(todo).arg = None THEN Blow ELSE {Head(todo).arg} : damage_player(Loop, p, n)
    BY <1>4 DEF Hit
  <2>3. Head(todo).arg \in {None, 1}
    BY <1>4, FirstJob, JobFields DEF Hit, Do, Types, LoopTypes
  <2>4. n \in Nat
    <3>1. CASE Head(todo).arg = None
      BY <2>2, <3>1 DEF LivesAssumption
    <3>2. CASE Head(todo).arg # None
      BY <2>2, <2>3, <3>2
    <3> QED
      BY <3>1, <3>2
  <2> HIDE DEF p
  <2> QED
    BY <1>1, <1>2, <2>1, <2>2, <2>4, BlowAlters
<1>5. CASE Poison
  <2>1. UNCHANGED <<table, records, beasts, stores, sky, tick, shown, past>>
    BY <1>5 DEF Poison
  <2>2. damage_player(Loop, p, 1) \/ UNCHANGED <<self, step>>
    BY <1>5 DEF Poison
  <2> HIDE DEF p
  <2> QED
    BY <1>1, <1>2, <2>1, <2>2, BlowAlters DEF AtRest, people
<1>6. ASSUME NEW t \in Self, SameElse(s, t), Alter(p, t),
             t.dead => t.health = 0, t.health = 0 => t.dead \/ (s.health = 0 /\ ~s.dead),
             UNCHANGED <<table, records, beasts, stores, sky, tick, shown>>
      PROVE  Alteration
  <2>1. Change(Loop, p, t, "telling", FALSE) /\ past' = Risen(past, p, t)
    BY <1>6 DEF Alter
  <2> HIDE DEF p
  <2> QED
    BY <1>1, <1>2, <1>6, <2>1, MendingAlters
<1>7. CASE Regen
  <2>1. UNCHANGED <<table, records, beasts, stores, sky, tick, shown>>
    BY <1>7 DEF Regen
  <2>2. (Alter(p, [s EXCEPT !.health = s.health + 1]) /\ ~s.dead) \/ UNCHANGED <<self, step, past>>
    BY <1>7 DEF Regen
  <2> DEFINE t == [s EXCEPT !.health = s.health + 1]
  <2>3. SameElse(s, t) /\ t.health = s.health + 1 /\ t.dead = s.dead /\ t \in Self
    BY <1>3 DEF SameElse, Self
  <2> HIDE DEF t, s, p
  <2>4. t.health # 0
    BY <1>3, <2>3
  <2> QED
    BY <1>3, <1>6, <2>1, <2>2, <2>3, <2>4 DEF AtRest, people, t
<1>8. CASE Hunger
  <2>1. UNCHANGED <<table, records, beasts, stores, sky, tick, shown>>
    BY <1>8 DEF Hunger
  <2> DEFINE a == [s EXCEPT !.sat = s.sat - 1]
             b == [s EXCEPT !.food = MaxOf(0, s.food - 1)]
             t == IF s.sat > 0 THEN a ELSE b
  <2>2. (Alter(p, t) /\ ~s.dead) \/ UNCHANGED <<self, step, past>>
    BY <1>8 DEF Hunger
  <2>3. s.sat > 0 => SameElse(s, a) /\ a.health = s.health /\ a.dead = s.dead /\ a \in Self
    BY <1>3 DEF SameElse, Self
  <2>4. SameElse(s, b) /\ b.health = s.health /\ b.dead = s.dead /\ b \in Self
    BY <1>3 DEF SameElse, Self, MaxOf
  <2> HIDE DEF a, b
  <2>5. SameElse(s, t) /\ t.health = s.health /\ t.dead = s.dead /\ t \in Self
    BY <2>3, <2>4
  <2> HIDE DEF t, s, p
  <2> QED
    BY <1>3, <1>6, <2>1, <2>2, <2>5 DEF AtRest, people
<1>9. CASE MendEffect
  <2>1. UNCHANGED <<table, records, beasts, stores, sky, tick, shown>>
    BY <1>9 DEF MendEffect
  <2> DEFINE t == Healed(s, 1)
  <2>2. Alter(p, t)
    BY <1>9 DEF MendEffect
  <2>3. /\ SameElse(s, t) /\ t \in Self
        /\ t.dead => t.health = 0
        /\ t.health = 0 => t.dead
    BY <1>3, HealedIs DEF SameElse
  <2> HIDE DEF t, s, p
  <2> QED
    BY <1>6, <2>1, <2>2, <2>3
<1> QED
  BY <1>4, <1>5, <1>7, <1>8, <1>9

\* What a change of vitals makes of players and threads.
Changed(u, p, t, at, died) ==
  /\ self' \in [Player -> Self] /\ self'[p] = t
  /\ \A q \in Player \ {p} : self'[q] = self[q]
  /\ step' \in [Thread -> Step]
  /\ step'[u].at = at /\ step'[u].on = p /\ step'[u].told = Vitals(t)
  /\ step'[u].died = died /\ step'[u].old = FALSE /\ step'[u].bag = {}
  /\ \A v \in Thread \ {u} :
       /\ step'[v].at = step[v].at /\ step'[v].on = step[v].on
       /\ step'[v].told = step[v].told /\ step'[v].died = step[v].died
       /\ step'[v].bag = step[v].bag
       /\ step'[v].old = (step[v].old \/ Telling(v, p))

\* A change of vitals: of one player, who is told by one thread, overtaking others.
LEMMA ChangeIs ==
  ASSUME Types, NEW u \in Thread, NEW p \in Player, NEW t \in Self, NEW at \in {"hurt", "telling"},
         NEW died \in BOOLEAN, Change(u, p, t, at, died)
  PROVE  Changed(u, p, t, at, died)
<1> DEFINE new == [Still EXCEPT !.at = at, !.on = p, !.told = Vitals(t), !.died = died]
           old == Outrun(u, p)
<1>1. /\ self \in [Player -> Self] /\ step \in [Thread -> Step]
      /\ self' = [self EXCEPT ![p] = t] /\ step' = [old EXCEPT ![u] = new]
  BY DEF Types, PeopleTypes, Change
<1>2. self' \in [Player -> Self] /\ self'[p] = t /\ \A q \in Player \ {p} : self'[q] = self[q]
  BY <1>1
<1>3. Vitals(t) \in Nat \X Nat
  BY DEF Vitals, Self
<1>4. /\ new \in Step
      /\ new.at = at /\ new.on = p /\ new.told = Vitals(t) /\ new.died = died /\ new.old = FALSE
      /\ new.bag = {}
  BY <1>3 DEF Still, Step
<1>5. \A v \in Thread : step[v] \in Step /\ [step[v] EXCEPT !.old = TRUE] \in Step
  <2> TAKE v \in Thread
  <2>1. step[v] \in Step
    BY <1>1
  <2> QED
    BY <2>1 DEF Step
<1>6. old \in [Thread -> Step]
  BY <1>5 DEF Outrun
<1>7. ASSUME NEW v \in Thread \ {u}
      PROVE  /\ old[v].at = step[v].at /\ old[v].on = step[v].on
             /\ old[v].told = step[v].told /\ old[v].died = step[v].died
             /\ old[v].bag = step[v].bag
             /\ old[v].old = (step[v].old \/ Telling(v, p))
  <2>1. /\ old[v] = IF Telling(v, p) THEN [step[v] EXCEPT !.old = TRUE] ELSE step[v]
        /\ step[v] \in Step
    BY <1>5 DEF Outrun, Telling
  <2>2. CASE Telling(v, p)
    BY <2>1, <2>2 DEF Step
  <2>3. CASE ~Telling(v, p)
    BY <2>1, <2>3 DEF Step
  <2> QED
    BY <2>2, <2>3
<1> HIDE DEF new, old
<1>8. step'[u] = new /\ step' \in [Thread -> Step] /\ \A v \in Thread \ {u} : step'[v] = old[v]
  BY <1>1, <1>4, <1>6
<1> QED
  BY <1>2, <1>4, <1>7, <1>8 DEF Changed

\* It leaves the rest of a player alone, and whatever a thread is in the middle of.
LEMMA AlterationKeeps ==
  ASSUME Types, Alteration
  PROVE  /\ \A q \in Player :
              /\ self'[q].at = self[q].at /\ self'[q].riding = self[q].riding
              /\ self'[q].effect = self[q].effect /\ self'[q].file = self[q].file
              /\ self'[q].pack = self[q].pack
         /\ \A v \in Thread :
              /\ step'[v].bag = step[v].bag \/ (step[v].at = "idle" /\ step'[v].bag = {})
              /\ step[v].at # "idle" => step'[v].at = step[v].at /\ step'[v].on = step[v].on
              /\ step[v].at = "idle" /\ step'[v].at # "idle" =>
                   /\ step'[v].at \in {"hurt", "telling"}
                   /\ step'[v].on \in Player /\ Known(step'[v].on)
                   /\ v \in Player => self[v].at = "play"
         /\ Proper(past') /\ \A x \in Marks \ {"undead", "milked"} : past'[x] = past[x]
         /\ \A x \in Fates : past'[x] = past[x]
         /\ UNCHANGED <<table, records, beasts, stores, sky, tick>>
<1>1. PICK u \in Thread, p \in Player, t \in Self, at \in {"hurt", "telling"}, died \in BOOLEAN :
        Altered(u, p, t, at, died)
  BY DEF Alteration
<1>2. /\ Known(p) /\ step[u].at = "idle" /\ (u # Loop => u = p /\ self[p].at = "play")
      /\ SameElse(self[p], t)
      /\ Proper(past') /\ \A x \in Marks \ {"undead", "milked"} : past'[x] = past[x]
      /\ \A x \in Fates : past'[x] = past[x]
      /\ UNCHANGED <<table, records, beasts, stores, sky, tick>>
  BY <1>1 DEF Altered
<1>3. Change(u, p, t, at, died)
  BY <1>1 DEF Altered
<1>4. /\ self'[p] = t /\ \A q \in Player \ {p} : self'[q] = self[q]
      /\ step'[u].at = at /\ step'[u].on = p
      /\ step'[u].bag = {}
      /\ \A v \in Thread \ {u} : /\ step'[v].at = step[v].at /\ step'[v].on = step[v].on
                                /\ step'[v].bag = step[v].bag
  <2>1. Changed(u, p, t, at, died)
    BY <1>3, ChangeIs
  <2> QED
    BY <2>1 DEF Changed
<1>5. \A q \in Player :
        /\ self'[q].at = self[q].at /\ self'[q].riding = self[q].riding
        /\ self'[q].effect = self[q].effect /\ self'[q].file = self[q].file
        /\ self'[q].pack = self[q].pack
  BY <1>2, <1>4 DEF SameElse
<1>6. u \in Player => self[u].at = "play"
  BY <1>2, LivesAssumption DEF LivesAssumption
<1> QED
  BY <1>2, <1>4, <1>5, <1>6

(***************************************************************************)
(* What a step keeps: the types of people.                                 *)
(***************************************************************************)

\* The fields of a player that change one by one keep their types.
LEMMA SelfParts ==
  ASSUME NEW s \in Self
  PROVE  /\ \A c \in BOOLEAN : [s EXCEPT !.creative = c] \in Self
         /\ \A S \in SUBSET Thing : [s EXCEPT !.pack = S] \in Self
         /\ \A f \in [Effect -> Nat] : [s EXCEPT !.effect = f] \in Self
         /\ \A v \in Boat \cup {None} : [s EXCEPT !.riding = v] \in Self
         /\ \A a \in {"joining", "play", "saved", "left"} : [s EXCEPT !.at = a] \in Self
<1>1. \A c \in BOOLEAN : [s EXCEPT !.creative = c] \in Self
  BY DEF Self
<1>2. \A S \in SUBSET Thing : [s EXCEPT !.pack = S] \in Self
  BY DEF Self
<1>3. \A f \in [Effect -> Nat] : [s EXCEPT !.effect = f] \in Self
  BY DEF Self
<1>4. \A v \in Boat \cup {None} : [s EXCEPT !.riding = v] \in Self
  BY DEF Self
<1>5. \A a \in {"joining", "play", "saved", "left"} : [s EXCEPT !.at = a] \in Self
  BY DEF Self
<1> QED
  BY <1>1, <1>2, <1>3, <1>4, <1>5

\* A player who is new, and one who is gone, have their types.
LEMMA FreshTyped ==
  ASSUME LivesAssumption
  PROVE  /\ Fresh \in Self /\ [Fresh EXCEPT !.at = "gone"] \in Self
         /\ Calm \in [Effect -> Nat]
         /\ Fresh.health = MaxHealth /\ MaxHealth > 0 /\ Fresh.dead = FALSE /\ Fresh.riding = None
         /\ Fresh.at = "new"
         /\ [Fresh EXCEPT !.at = "gone"].health = MaxHealth
         /\ [Fresh EXCEPT !.at = "gone"].dead = FALSE
         /\ [Fresh EXCEPT !.at = "gone"].at = "gone"
<1>1. MaxHealth \in Nat /\ MaxHealth > 0 /\ MaxFood \in Nat /\ MaxSat \in Nat
  BY DEF LivesAssumption
<1>2. Calm \in [Effect -> Nat]
  BY DEF Calm
<1> HIDE DEF Calm
<1>3. Fresh \in Self
  BY <1>1, <1>2 DEF Fresh, Self
<1>4. [Fresh EXCEPT !.at = "gone"] \in Self
  BY <1>3 DEF Self
<1> QED
  BY <1>1, <1>2, <1>3, <1>4 DEF Fresh

\* What a file holds is what a newcomer is.
LEMMA Loaded ==
  ASSUME LivesAssumption, Types, NEW v \in User
  PROVE  /\ apply_data(disk[v]) \in Self
         /\ [apply_data(disk[v]) EXCEPT !.at = "joining"] \in Self
         /\ apply_data(disk[v]).dead = FALSE /\ apply_data(disk[v]).riding = None
<1>1. v \in File /\ (disk[v] \notin {None, Torn} => disk[v] \in Snapshot)
  BY DEF Types, FileTypes, Right, File
<1>2. CASE disk[v] \in {None, Torn}
  <2>1. apply_data(disk[v]) = Fresh
    BY <1>2 DEF apply_data
  <2>2. [Fresh EXCEPT !.at = "joining"] \in Self
    BY FreshTyped, SelfParts
  <2> QED
    BY <2>1, <2>2, FreshTyped
<1>3. CASE disk[v] \notin {None, Torn}
  <2> DEFINE d == disk[v]
  <2>1. d \in Snapshot /\ Fresh \in Self /\ Fresh.dead = FALSE /\ Fresh.riding = None
    BY <1>1, <1>3, FreshTyped
  <2>2. apply_data(d) = [Fresh EXCEPT !.health = d.health, !.food = d.food, !.sat = d.sat, !.pack = d.pack]
    BY <1>3 DEF apply_data
  <2> HIDE DEF d
  <2>3. d.health \in Nat /\ d.food \in Nat /\ d.sat \in Nat /\ d.pack \in SUBSET Thing
    BY <2>1 DEF Snapshot
  <2>4. apply_data(d) \in Self /\ apply_data(d).dead = FALSE /\ apply_data(d).riding = None
    BY <2>1, <2>2, <2>3 DEF Self
  <2>5. [apply_data(d) EXCEPT !.at = "joining"] \in Self
    BY <2>4, SelfParts
  <2> QED
    BY <2>4, <2>5 DEF d
<1> QED
  BY <1>2, <1>3

\* A change of vitals keeps the types.
LEMMA Alters ==
  ASSUME Types, Alteration
  PROVE  /\ self' \in [Player -> Self] /\ step' \in [Thread -> Step]
         /\ shown' \in [Player -> Shown] /\ Proper(past')
<1>1. PICK u \in Thread, p \in Player, t \in Self, at \in {"hurt", "telling"}, died \in BOOLEAN :
        Altered(u, p, t, at, died)
  BY DEF Alteration
<1>2. self' \in [Player -> Self] /\ step' \in [Thread -> Step]
  <2>1. Change(u, p, t, at, died)
    BY <1>1 DEF Altered
  <2>2. Changed(u, p, t, at, died)
    BY <2>1, ChangeIs
  <2> QED
    BY <2>2 DEF Changed
<1>3. shown \in [Player -> Shown] /\ [shown[p] EXCEPT !.fast = FALSE] \in Shown
  <2>1. shown \in [Player -> Shown] /\ shown[p] \in Shown
    BY DEF Types, PeopleTypes
  <2> QED
    BY <2>1 DEF Shown
<1>4. shown' \in {shown, [shown EXCEPT ![p].fast = FALSE]}
  BY <1>1 DEF Altered
<1> QED
  BY <1>1, <1>2, <1>3, <1>4 DEF Altered

\* Every step leaves players of their type.
LEMMA SelfTyped ==
  ASSUME LivesAssumption, Types, DeadOrAlive, OldHands, Boarding, [Next]_vars
  PROVE  self' \in [Player -> Self]
<1> USE DEF Types, PeopleTypes
<1>1. ASSUME NEW u \in Thread, DropAll(u) PROVE self' \in [Player -> Self]
  <2>1. UNCHANGED self \/ \E p \in Player : self' = [self EXCEPT ![p] = [self[p] EXCEPT !.pack = {}]]
    BY <1>1 DEF DropAll
  <2>2. \A p \in Player : [self[p] EXCEPT !.pack = {}] \in Self
    BY SelfParts
  <2> QED
    BY <2>1, <2>2
<1>2. ASSUME NEW p \in Player, SetGamemode(p) PROVE self' \in [Player -> Self]
  <2>1. self' = [self EXCEPT ![p] = [self[p] EXCEPT !.creative = ~self[p].creative]]
    BY <1>2 DEF SetGamemode
  <2>2. /\ self[p] \in Self /\ self[p].pack \in SUBSET Thing
        /\ (~self[p].creative) \in BOOLEAN
    BY DEF Self
  <2>3. [self[p] EXCEPT !.creative = ~self[p].creative] \in Self
    BY <2>2, SelfParts
  <2> QED
    BY <2>1, <2>3
<1>3. ASSUME NEW p \in Player, ApplyLasting(p) PROVE self' \in [Player -> Self]
  <2>1. UNCHANGED self \/ \E e \in Effect : self' = [self EXCEPT ![p].effect[e] = EffectTime]
    BY <1>3 DEF ApplyLasting
  <2>2. self[p] \in Self /\ self[p].effect \in [Effect -> Nat] /\ EffectTime \in Nat
    BY DEF Self, LivesAssumption
  <2>3. \A e \in Effect : [self[p].effect EXCEPT ![e] = EffectTime] \in [Effect -> Nat]
    BY <2>2
  <2>4. \A e \in Effect : [self[p] EXCEPT !.effect = [self[p].effect EXCEPT ![e] = EffectTime]] \in Self
    BY <2>2, <2>3, SelfParts
  <2> QED
    BY <2>1, <2>4
<1>4. ASSUME NEW p \in Player, AddSpeed(p) PROVE self' \in [Player -> Self]
  <2>1. self' = [self EXCEPT ![p].effect["speed"] = EffectTime]
    BY <1>4 DEF AddSpeed
  <2>2. self[p] \in Self /\ self[p].effect \in [Effect -> Nat] /\ EffectTime \in Nat
    BY DEF Self, LivesAssumption
  <2>3. [self[p].effect EXCEPT !["speed"] = EffectTime] \in [Effect -> Nat]
    BY <2>2
  <2>4. [self[p] EXCEPT !.effect = [self[p].effect EXCEPT !["speed"] = EffectTime]] \in Self
    BY <2>2, <2>3, SelfParts
  <2> QED
    BY <2>1, <2>4
<1>5. ASSUME NEW p \in Player, DrinkMilk(p) PROVE self' \in [Player -> Self]
  <2>1. self' = [self EXCEPT ![p] = [self[p] EXCEPT !.effect = Calm]]
    BY <1>5 DEF DrinkMilk
  <2>2. [self[p] EXCEPT !.effect = Calm] \in Self
    BY SelfParts, FreshTyped
  <2> QED
    BY <2>1, <2>2
<1>6. ASSUME NEW p \in Player, Seat(p) PROVE self' \in [Player -> Self]
  <2>1. self' = [self EXCEPT ![p] = [self[p] EXCEPT !.riding = step[p].on]]
    BY <1>6 DEF Seat
  <2>2. [self[p] EXCEPT !.riding = step[p].on] \in Self
    BY <1>6, SelfParts DEF Seat, Boarding
  <2> QED
    BY <2>1, <2>2
<1>7. ASSUME NEW p \in Player, Dismount(p) PROVE self' \in [Player -> Self]
  <2>1. self' = [self EXCEPT ![p] = [self[p] EXCEPT !.riding = None]]
    BY <1>7 DEF Dismount
  <2>2. [self[p] EXCEPT !.riding = None] \in Self
    BY SelfParts
  <2> QED
    BY <2>1, <2>2
<1>8. ASSUME NEW p \in Player, NEW t \in Thing, Stow(p, t)
     PROVE  self' \in [Player -> Self]
  <2>1. self' = [self EXCEPT ![p] = [self[p] EXCEPT !.pack = self[p].pack \ {t}]]
    BY <1>8 DEF Stow
  <2>2. /\ self[p] \in Self /\ self[p].pack \in SUBSET Thing
        /\ (~self[p].creative) \in BOOLEAN
    BY DEF Self
  <2>3. [self[p] EXCEPT !.pack = self[p].pack \ {t}] \in Self
    BY <2>2, SelfParts
  <2> QED
    BY <2>1, <2>3
<1>9. ASSUME NEW p \in Player, NEW t \in Thing, Fetch(p, t)
     PROVE  self' \in [Player -> Self]
  <2>1. self' = [self EXCEPT ![p] = [self[p] EXCEPT !.pack = self[p].pack \cup {t}]]
    BY <1>9 DEF Fetch
  <2>2. /\ self[p] \in Self /\ self[p].pack \in SUBSET Thing
        /\ (~self[p].creative) \in BOOLEAN
    BY DEF Self
  <2>3. [self[p] EXCEPT !.pack = self[p].pack \cup {t}] \in Self
    BY <2>2, SelfParts
  <2> QED
    BY <2>1, <2>3
<1>10. ASSUME NEW p \in Player, Load(p) PROVE self' \in [Player -> Self]
  <2>1. self' = [self EXCEPT ![p] = [apply_data(disk[user[p]]) EXCEPT !.at = "joining"]]
    BY <1>10 DEF Load
  <2>2. user[p] \in User
    BY DEF LivesAssumption
  <2> QED
    BY <2>1, <2>2, Loaded
<1>11. ASSUME NEW p \in Player, Enter(p) PROVE self' \in [Player -> Self]
  <2>1. self' = [self EXCEPT ![p] = [self[p] EXCEPT !.at = "play"]]
    BY <1>11 DEF Enter
  <2>2. [self[p] EXCEPT !.at = "play"] \in Self
    BY SelfParts
  <2> QED
    BY <2>1, <2>2
<1>12. ASSUME NEW p \in Player, Leave(p) PROVE self' \in [Player -> Self]
  <2>1. self' = [self EXCEPT ![p] = [self[p] EXCEPT !.at = "saving", !.file = snapshot_data(self[p])]]
    BY <1>12 DEF Leave
  <2>2. snapshot_data(self[p]) \in Snapshot
    BY DEF snapshot_data, Snapshot, Self
  <2> DEFINE f == snapshot_data(self[p])
  <2> HIDE DEF f
  <2>3. [self[p] EXCEPT !.at = "saving", !.file = f] \in Self
    <3>1. f \in Snapshot /\ self[p] \in Self
      BY <2>2 DEF f
    <3> QED
      BY <3>1 DEF Self
  <2> QED
    BY <2>1, <2>3 DEF f
<1>13. ASSUME NEW p \in Player, WriteFile(p) PROVE self' \in [Player -> Self]
  <2>1. self' = [self EXCEPT ![p] = [self[p] EXCEPT !.at = "saved"]]
    BY <1>13 DEF WriteFile
  <2>2. [self[p] EXCEPT !.at = "saved"] \in Self
    BY SelfParts
  <2> QED
    BY <2>1, <2>2
<1>14. ASSUME NEW p \in Player, remove_player(p) PROVE self' \in [Player -> Self]
  <2>1. self' = [self EXCEPT ![p] = [self[p] EXCEPT !.at = "left"]]
    BY <1>14 DEF remove_player
  <2>2. [self[p] EXCEPT !.at = "left"] \in Self
    BY SelfParts
  <2> QED
    BY <2>1, <2>2
<1>15. ASSUME NEW p \in Player, Clear(p) PROVE self' \in [Player -> Self]
  <2>1. self' = [self EXCEPT ![p] = [self[p] EXCEPT !.at = "gone", !.effect = Calm, !.file = None]]
    BY <1>15 DEF Clear
  <2>2. [self[p] EXCEPT !.at = "gone", !.effect = Calm, !.file = None] \in Self
    BY FreshTyped DEF Self
  <2> QED
    BY <2>1, <2>2
<1>16. CASE Give
  <2> DEFINE p == Head(todo).on
             t == Head(todo).arg
  <2>1. self' = [self EXCEPT ![p] = [self[p] EXCEPT !.pack = self[p].pack \cup {t}]]
    BY <1>16 DEF Give
  <2>2. p \in Player /\ t \in Thing
    BY <1>16, FirstJob, JobFields DEF Give, Do, LoopTypes, PlayerJob
  <2> HIDE DEF p, t
  <2>4. self[p] \in Self /\ self[p].pack \cup {t} \in SUBSET Thing
    BY <2>2 DEF Self
  <2>3. [self[p] EXCEPT !.pack = self[p].pack \cup {t}] \in Self
    BY <2>4, SelfParts
  <2> QED
    BY <2>1, <2>3
<1>17. CASE Wane
  <2> DEFINE p == Head(todo).on
             less == [e \in Effect |-> MaxOf(0, self[p].effect[e] - 1)]
  <2>1. self' = [self EXCEPT ![p] = [self[p] EXCEPT !.effect = less]]
    BY <1>17 DEF Wane
  <2>2. p \in Player
    BY <1>17, FirstJob, JobFields DEF Wane, Do, LoopTypes, PlayerJob
  <2>3. self[p] \in Self /\ self[p].effect \in [Effect -> Nat]
    BY <2>2 DEF Self
  <2>4. less \in [Effect -> Nat]
    BY <2>3 DEF MaxOf
  <2> HIDE DEF less
  <2>5. [self[p] EXCEPT !.effect = less] \in Self
    BY <2>3, <2>4, SelfParts
  <2> QED
    BY <2>1, <2>5
<1>18. CASE Restart
  BY <1>18, FreshTyped DEF Restart
<1>19. ASSUME NEW p \in Player,
            Fall(p) \/ Kill(p) \/ Heal(p) \/ Respawn(p) \/ Eat(p) \/ ApplyInstant(p)
     PROVE  self' \in [Player -> Self]
  BY <1>19, TakingAlters, Alters
<1>20. CASE Hit \/ Regen \/ Hunger \/ MendEffect \/ Poison
  BY <1>20, GivingAlters, Alters DEF AtRest, people
<1>21. ASSUME NEW u \in Thread,
            Flinch(u) \/ Spill(u) \/ SendHealth(u) \/ register_villager(u)
     PROVE  self' \in [Player -> Self]
  BY <1>21
  DEF Flinch, Spill, SendHealth, register_villager, elsewhere, course, beasts, saving, people
<1>22. ASSUME NEW p \in Player,
            SwitchDimension(p) \/ Shoot(p) \/ Summon(p) \/ Rise(p) \/ Sleep(p)
            \/ Weather(p) \/ SavePlayer(p)
     PROVE  self' \in [Player -> Self]
  BY <1>22
  DEF SwitchDimension, Shoot, Summon, Rise, Sleep, Weather, SavePlayer, elsewhere, course,
      beasts, saving, people
<1>23. ASSUME NEW p \in Player, NEW b \in Body, Attack(p, b) \/ Feed(p, b)
     PROVE  self' \in [Player -> Self]
  BY <1>23 DEF Attack, Feed, elsewhere, course, beasts, saving, people
<1>24. ASSUME NEW p \in Player, NEW v \in Boat, Mount(p, v)
     PROVE  self' \in [Player -> Self]
  BY <1>24 DEF Mount, elsewhere, course, beasts, saving, people
<1>25. CASE MobsTick \/ MobDying \/ MobDies \/ MobStrays \/ MobLives \/ Pair \/ Baby
            \/ Forget \/ Spawn \/ ItemsTick \/ Rot \/ ArrowsTick \/ Pierce
            \/ Regenerate \/ HungerTick \/ EffectsTick \/ Affect \/ Slow \/ Clock
            \/ Store \/ Flip \/ TellWeather \/ SaveContainers \/ SavePut \/ SavePlayers
            \/ SaveMobs \/ SaveItems \/ SaveMeta \/ Saved
  BY <1>25, Zenon
  DEF MobsTick, MobDying, MobDies, MobStrays, MobLives, Pair, Baby, Forget, Spawn, ItemsTick,
      Rot, ArrowsTick, Pierce, Regenerate, HungerTick, EffectsTick, Affect, Slow, Clock,
      Store, Flip, TellWeather, SaveContainers, SavePut, SavePlayers, SaveMobs,
      SaveItems, SaveMeta, Saved, Round, elsewhere, course, beasts, saving, people
<1>26. CASE UNCHANGED vars
  BY <1>26 DEF vars, people, beasts, stores, course
<1> QED
  BY <1>1, <1>2, <1>3, <1>4, <1>5, <1>6, <1>7, <1>8, <1>9, <1>10, <1>11, <1>12, <1>13,
     <1>14, <1>15, <1>16, <1>17, <1>18, <1>19, <1>20, <1>21, <1>22, <1>23, <1>24, <1>25,
     <1>26
  DEF Next

\* What a thread can be in the middle of has its type.
LEMMA StepParts ==
  /\ Still \in Step /\ Still.at = "idle"
  BY DEF Still, Step

\* Whom a thread is about to tell is a player.
LEMMA ToldIsPlayer ==
  ASSUME OldHands, NEW u \in Thread, step[u].at \in {"hurt", "telling"}
  PROVE  step[u].on \in Player /\ Known(step[u].on)
  BY DEF OldHands

\* Every step leaves threads in the middle of something, or idle.
LEMMA StepTyped ==
  ASSUME LivesAssumption, Types, DeadOrAlive, OldHands, Droppers, [Next]_vars
  PROVE  step' \in [Thread -> Step]
<1> USE DEF Types, PeopleTypes
<1>1. ASSUME NEW u \in Thread, Flinch(u) PROVE step' \in [Thread -> Step]
  <2>1. \/ step' = [step EXCEPT ![u] = Still]
        \/ step' = [step EXCEPT ![u] = [Still EXCEPT !.at = "dropping", !.on = step[u].on]]
    BY <1>1 DEF Flinch
  <2>2. step[u].on \in Player
    BY <1>1, ToldIsPlayer DEF Flinch
  <2>3. [Still EXCEPT !.at = "dropping", !.on = step[u].on] \in Step
    BY <2>2 DEF Still, Step
  <2> QED
    BY <2>1, <2>3, StepParts
<1>2. ASSUME NEW u \in Thread, DropAll(u) PROVE step' \in [Thread -> Step]
  <2> DEFINE S == self[step[u].on].pack
  <2>1. step' = [step EXCEPT ![u] = [Still EXCEPT !.at = "spilling", !.bag = S]]
    BY <1>2 DEF DropAll
  <2>2. step[u].on \in Player
    BY <1>2 DEF DropAll, Droppers
  <2>3. S \in SUBSET Thing
    BY <2>2 DEF Self
  <2> HIDE DEF S
  <2>4. [Still EXCEPT !.at = "spilling", !.bag = S] \in Step
    BY <2>3 DEF Still, Step
  <2> QED
    BY <2>1, <2>4
<1>3. ASSUME NEW u \in Thread, Spill(u) PROVE step' \in [Thread -> Step]
  BY <1>3, StepParts DEF Spill
<1>4. ASSUME NEW u \in Thread, SendHealth(u) PROVE step' \in [Thread -> Step]
  BY <1>4, StepParts DEF SendHealth
<1>5. ASSUME NEW u \in Thread, register_villager(u) PROVE step' \in [Thread -> Step]
  BY <1>5, StepParts DEF register_villager
<1>6. ASSUME NEW p \in Player, ApplyLasting(p) PROVE step' \in [Thread -> Step]
  <2>1. UNCHANGED step \/ step' = [step EXCEPT ![p] = [Still EXCEPT !.at = "hastening", !.on = p]]
    BY <1>6 DEF ApplyLasting
  <2>2. [Still EXCEPT !.at = "hastening", !.on = p] \in Step
    BY DEF Still, Step
  <2> QED
    BY <2>1, <2>2
<1>7. ASSUME NEW p \in Player, AddSpeed(p) PROVE step' \in [Thread -> Step]
  BY <1>7, StepParts DEF AddSpeed
<1>8. ASSUME NEW p \in Player, Summon(p) PROVE step' \in [Thread -> Step]
  <2>1. PICK b \in Body : UNCHANGED step \/ step' = [step EXCEPT ![p] = [Still EXCEPT !.at = "naming", !.on = b]]
    BY <1>8, Zenon DEF Summon, Enlist
  <2>2. [Still EXCEPT !.at = "naming", !.on = b] \in Step
    BY DEF Still, Step
  <2> QED
    BY <2>1, <2>2
<1>9. ASSUME NEW p \in Player, Seat(p) PROVE step' \in [Thread -> Step]
  BY <1>9, StepParts DEF Seat
<1>10. ASSUME NEW p \in Player, Dismount(p) PROVE step' \in [Thread -> Step]
  <2>1. step' = [step EXCEPT ![p] = [Still EXCEPT !.at = "rising", !.on = self[p].riding]]
    BY <1>10 DEF Dismount
  <2>2. self[p].riding \in Boat \cup {None}
    BY DEF Self
  <2>3. [Still EXCEPT !.at = "rising", !.on = self[p].riding] \in Step
    BY <2>2 DEF Still, Step
  <2> QED
    BY <2>1, <2>3
<1>11. ASSUME NEW p \in Player, Rise(p) PROVE step' \in [Thread -> Step]
  BY <1>11, StepParts DEF Rise
<1>12. ASSUME NEW p \in Player, NEW v \in Boat, Mount(p, v)
     PROVE  step' \in [Thread -> Step]
  <2>1. step' = [step EXCEPT ![p] = [Still EXCEPT !.at = "mounting", !.on = v]]
    BY <1>12 DEF Mount
  <2>2. [Still EXCEPT !.at = "mounting", !.on = v] \in Step
    BY DEF Still, Step
  <2> QED
    BY <2>1, <2>2
<1>13. CASE Spawn
  <2>1. CASE UNCHANGED step
    BY <2>1
  <2>2. ASSUME NEW b \in Body, step' = [step EXCEPT ![Loop] = [Still EXCEPT !.at = "naming", !.on = b]]
        PROVE  step' \in [Thread -> Step]
    <3>1. [Still EXCEPT !.at = "naming", !.on = b] \in Step
      BY DEF Still, Step
    <3> QED
      BY <2>2, <3>1
  <2> QED
    BY <1>13, <2>1, <2>2, Zenon DEF Spawn, Enlist
<1>14. CASE Restart
  BY <1>14, StepParts DEF Restart
<1>15. ASSUME NEW p \in Player,
            Fall(p) \/ Kill(p) \/ Heal(p) \/ Respawn(p) \/ Eat(p) \/ ApplyInstant(p)
     PROVE  step' \in [Thread -> Step]
  BY <1>15, TakingAlters, Alters
<1>16. CASE Hit \/ Regen \/ Hunger \/ MendEffect \/ Poison
  BY <1>16, GivingAlters, Alters DEF AtRest, people
<1>17. ASSUME NEW p \in Player,
            SetGamemode(p) \/ SwitchDimension(p) \/ DrinkMilk(p) \/ Shoot(p)
            \/ Sleep(p) \/ Weather(p) \/ Load(p) \/ Enter(p) \/ Leave(p)
            \/ WriteFile(p) \/ remove_player(p) \/ Clear(p) \/ SavePlayer(p)
     PROVE  step' \in [Thread -> Step]
  BY <1>17
  DEF SetGamemode, SwitchDimension, DrinkMilk, Shoot, Sleep, Weather, Load, Enter, Leave,
      WriteFile, remove_player, Clear, SavePlayer, elsewhere, course, beasts, saving,
      people
<1>18. ASSUME NEW p \in Player, NEW b \in Body, Attack(p, b) \/ Feed(p, b)
     PROVE  step' \in [Thread -> Step]
  BY <1>18 DEF Attack, Feed, elsewhere, course, beasts, saving, people
<1>19. ASSUME NEW p \in Player, NEW t \in Thing, Stow(p, t) \/ Fetch(p, t)
     PROVE  step' \in [Thread -> Step]
  BY <1>19, Zenon DEF Stow, Fetch, elsewhere, course, beasts, saving, people
<1>20. CASE MobsTick \/ MobDying \/ MobDies \/ MobStrays \/ MobLives \/ Pair \/ Baby
            \/ Forget \/ ItemsTick \/ Give \/ Rot \/ ArrowsTick \/ Pierce \/ Regenerate
            \/ HungerTick \/ EffectsTick \/ Affect \/ Wane \/ Slow \/ Clock \/ Store
            \/ Flip \/ TellWeather \/ SaveContainers \/ SavePut \/ SavePlayers
            \/ SaveMobs \/ SaveItems \/ SaveMeta \/ Saved
  BY <1>20, Zenon
  DEF MobsTick, MobDying, MobDies, MobStrays, MobLives, Pair, Baby, Forget, ItemsTick, Give,
      Rot, ArrowsTick, Pierce, Regenerate, HungerTick, EffectsTick, Affect, Wane, Slow,
      Clock, Store, Flip, TellWeather, SaveContainers, SavePut, SavePlayers, SaveMobs,
      SaveItems, SaveMeta, Saved, Round, elsewhere, course, beasts, saving, people
<1>21. CASE UNCHANGED vars
  BY <1>21 DEF vars, people, beasts, stores, course
<1> QED
  BY <1>1, <1>2, <1>3, <1>4, <1>5, <1>6, <1>7, <1>8, <1>9, <1>10, <1>11, <1>12, <1>13,
     <1>14, <1>15, <1>16, <1>17, <1>18, <1>19, <1>20, <1>21
  DEF Next

\* Changing what a client shows keeps its type.
LEMMA WalkTyped ==
  ASSUME Types, NEW p \in Player, NEW f \in BOOLEAN
  PROVE  /\ [shown[p] EXCEPT !.fast = f] \in Shown
         /\ [shown EXCEPT ![p].fast = f] \in [Player -> Shown]
         /\ [q \in Player |-> IF q \in table THEN [shown[q] EXCEPT !.rain = f] ELSE shown[q]] \in [Player -> Shown]
<1>1. shown \in [Player -> Shown] /\ shown[p] \in Shown
  BY DEF Types, PeopleTypes
<1>2. [shown[p] EXCEPT !.fast = f] \in Shown
  BY <1>1 DEF Shown
<1>3. \A q \in Player : [shown[q] EXCEPT !.rain = f] \in Shown
  <2> TAKE q \in Player
  <2>1. shown[q] \in Shown
    BY <1>1
  <2> QED
    BY <2>1 DEF Shown
<1> QED
  BY <1>1, <1>2, <1>3

\* Every step leaves what clients show of its type.
LEMMA ShownTyped ==
  ASSUME LivesAssumption, Types, DeadOrAlive, OldHands, [Next]_vars
  PROVE  shown' \in [Player -> Shown]
<1> USE DEF Types, PeopleTypes
<1>1. ASSUME NEW u \in Thread, Flinch(u) PROVE shown' \in [Player -> Shown]
  <2>1. shown' = [shown EXCEPT ![step[u].on].vitals = step[u].told] \/ UNCHANGED shown
    BY <1>1 DEF Flinch, Tell
  <2>2. step[u].on \in Player /\ step[u].told \in Nat \X Nat
    BY <1>1, ToldIsPlayer DEF Flinch, Step
  <2>3. shown[step[u].on] \in Shown
    BY <2>2
  <2>4. [shown[step[u].on] EXCEPT !.vitals = step[u].told] \in Shown
    BY <2>2, <2>3 DEF Shown
  <2> QED
    BY <2>1, <2>2, <2>4
<1>2. ASSUME NEW u \in Thread, SendHealth(u) PROVE shown' \in [Player -> Shown]
  <2>1. shown' = [shown EXCEPT ![step[u].on].vitals = step[u].told] \/ UNCHANGED shown
    BY <1>2 DEF SendHealth, Tell
  <2>2. step[u].on \in Player /\ step[u].told \in Nat \X Nat
    BY <1>2, ToldIsPlayer DEF SendHealth, Step
  <2>3. shown[step[u].on] \in Shown
    BY <2>2
  <2>4. [shown[step[u].on] EXCEPT !.vitals = step[u].told] \in Shown
    BY <2>2, <2>3 DEF Shown
  <2> QED
    BY <2>1, <2>2, <2>4
<1>3. ASSUME NEW p \in Player, SetGamemode(p) PROVE shown' \in [Player -> Shown]
  <2>1. shown' = [shown EXCEPT ![p].fast = FALSE]
    BY <1>3 DEF SetGamemode, Walk
  <2> QED
    BY <2>1, WalkTyped
<1>4. ASSUME NEW p \in Player, SwitchDimension(p) PROVE shown' \in [Player -> Shown]
  <2>1. shown' = [shown EXCEPT ![p].fast = FALSE]
    BY <1>4 DEF SwitchDimension, Walk
  <2> QED
    BY <2>1, WalkTyped
<1>5. ASSUME NEW p \in Player, ApplyLasting(p) PROVE shown' \in [Player -> Shown]
  <2>1. UNCHANGED shown \/ shown' = [shown EXCEPT ![p].fast = TRUE]
    BY <1>5 DEF ApplyLasting, Walk
  <2>2. shown[p] \in Shown
    OBVIOUS
  <2>3. [shown[p] EXCEPT !.fast = TRUE] \in Shown
    BY <2>2 DEF Shown
  <2> QED
    BY <2>1, <2>3
<1>6. ASSUME NEW p \in Player, Weather(p) PROVE shown' \in [Player -> Shown]
  <2>1. PICK r \in BOOLEAN :
          shown' = [q \in Player |-> IF q \in table THEN [shown[q] EXCEPT !.rain = r] ELSE shown[q]]
    BY <1>6 DEF Weather
  <2> QED
    BY <2>1, WalkTyped
<1>7. ASSUME NEW p \in Player, Load(p) PROVE shown' \in [Player -> Shown]
  <2> DEFINE d == apply_data(disk[user[p]])
  <2>1. shown' = [shown EXCEPT ![p] = [vitals |-> Vitals(d), fast |-> FALSE, rain |-> sky.raining]]
    BY <1>7 DEF Load
  <2>2. user[p] \in User /\ sky.raining \in BOOLEAN
    BY DEF LivesAssumption, LoopTypes
  <2>3. d \in Self
    BY <2>2, Loaded
  <2> HIDE DEF d
  <2>4. Vitals(d) \in Nat \X Nat
    BY <2>3 DEF Vitals, Self
  <2> HIDE DEF Vitals
  <2>5. [vitals |-> Vitals(d), fast |-> FALSE, rain |-> sky.raining] \in Shown
    BY <2>2, <2>4 DEF Shown
  <2> QED
    BY <2>1, <2>5
<1>8. CASE Slow
  <2>1. shown' = [shown EXCEPT ![Head(todo).on].fast = FALSE]
    BY <1>8 DEF Slow, Walk
  <2>2. Head(todo).on \in Player
    BY <1>8, JobIsForKnown DEF Slow, Do, PlayerJob
  <2> QED
    BY <2>1, <2>2, WalkTyped
<1>9. CASE TellWeather
  <2>1. shown' = [q \in Player |-> IF q \in table THEN [shown[q] EXCEPT !.rain = Head(todo).arg] ELSE shown[q]]
    BY <1>9 DEF TellWeather
  <2>2. Head(todo).arg \in BOOLEAN
    BY <1>9, JobOnBody DEF TellWeather, Do
  <2>3. CASE Player = {}
    BY <2>1, <2>3
  <2>4. CASE Player # {}
    BY <2>1, <2>2, <2>4, WalkTyped
  <2> QED
    BY <2>3, <2>4
<1>10. ASSUME NEW p \in Player,
            Fall(p) \/ Kill(p) \/ Heal(p) \/ Respawn(p) \/ Eat(p) \/ ApplyInstant(p)
     PROVE  shown' \in [Player -> Shown]
  BY <1>10, TakingAlters, Alters
<1>11. CASE Hit \/ Regen \/ Hunger \/ MendEffect \/ Poison
  BY <1>11, GivingAlters, Alters DEF AtRest, people
<1>12. ASSUME NEW u \in Thread, DropAll(u) \/ Spill(u) \/ register_villager(u)
     PROVE  shown' \in [Player -> Shown]
  BY <1>12
  DEF DropAll, Spill, register_villager, elsewhere, course, beasts, saving, people
<1>13. ASSUME NEW p \in Player,
            AddSpeed(p) \/ DrinkMilk(p) \/ Shoot(p) \/ Summon(p) \/ Seat(p)
            \/ Dismount(p) \/ Rise(p) \/ Sleep(p) \/ Enter(p) \/ Leave(p)
            \/ WriteFile(p) \/ remove_player(p) \/ Clear(p) \/ SavePlayer(p)
     PROVE  shown' \in [Player -> Shown]
  BY <1>13
  DEF AddSpeed, DrinkMilk, Shoot, Summon, Seat, Dismount, Rise, Sleep, Enter, Leave,
      WriteFile, remove_player, Clear, SavePlayer, elsewhere, course, beasts, saving,
      people
<1>14. ASSUME NEW p \in Player, NEW b \in Body, Attack(p, b) \/ Feed(p, b)
     PROVE  shown' \in [Player -> Shown]
  BY <1>14 DEF Attack, Feed, elsewhere, course, beasts, saving, people
<1>15. ASSUME NEW p \in Player, NEW v \in Boat, Mount(p, v)
     PROVE  shown' \in [Player -> Shown]
  BY <1>15 DEF Mount, elsewhere, course, beasts, saving, people
<1>16. ASSUME NEW p \in Player, NEW t \in Thing, Stow(p, t) \/ Fetch(p, t)
     PROVE  shown' \in [Player -> Shown]
  BY <1>16, Zenon DEF Stow, Fetch, elsewhere, course, beasts, saving, people
<1>17. CASE MobsTick \/ MobDying \/ MobDies \/ MobStrays \/ MobLives \/ Pair \/ Baby
            \/ Forget \/ Spawn \/ ItemsTick \/ Give \/ Rot \/ ArrowsTick \/ Pierce
            \/ Regenerate \/ HungerTick \/ EffectsTick \/ Affect \/ Wane \/ Clock
            \/ Store \/ Flip \/ SaveContainers \/ SavePut \/ SavePlayers \/ SaveMobs
            \/ SaveItems \/ SaveMeta \/ Saved \/ Restart
  BY <1>17, Zenon
  DEF MobsTick, MobDying, MobDies, MobStrays, MobLives, Pair, Baby, Forget, Spawn, ItemsTick,
      Give, Rot, ArrowsTick, Pierce, Regenerate, HungerTick, EffectsTick, Affect, Wane,
      Clock, Store, Flip, SaveContainers, SavePut, SavePlayers, SaveMobs, SaveItems,
      SaveMeta, Saved, Restart, Round, elsewhere, course, beasts, saving, people
<1>18. CASE UNCHANGED vars
  BY <1>18 DEF vars, people, beasts, stores, course
<1> QED
  BY <1>1, <1>2, <1>3, <1>4, <1>5, <1>6, <1>7, <1>8, <1>9, <1>10, <1>11, <1>12, <1>13,
     <1>14, <1>15, <1>16, <1>17, <1>18
  DEF Next

\* Every step leaves tables of players.
LEMMA TablesTyped ==
  ASSUME LivesAssumption, Types, DeadOrAlive, OldHands, [Next]_vars
  PROVE  table' \subseteq Player /\ records' \subseteq Player
<1> USE DEF Types, PeopleTypes
<1>1. ASSUME NEW p \in Player, Enter(p)
     PROVE  table' \subseteq Player /\ records' \subseteq Player
  BY <1>1 DEF Enter
<1>2. ASSUME NEW p \in Player, remove_player(p)
     PROVE  table' \subseteq Player /\ records' \subseteq Player
  BY <1>2 DEF remove_player
<1>3. ASSUME NEW p \in Player, Clear(p)
     PROVE  table' \subseteq Player /\ records' \subseteq Player
  BY <1>3 DEF Clear
<1>4. CASE MobDies
  BY <1>4 DEF MobDies, Living, LoopTypes, Tick
<1>5. CASE Restart
  BY <1>5 DEF Restart
<1>6. ASSUME NEW u \in Thread,
            Flinch(u) \/ DropAll(u) \/ Spill(u) \/ SendHealth(u)
            \/ register_villager(u)
     PROVE  table' \subseteq Player /\ records' \subseteq Player
  BY <1>6, Zenon
  DEF Flinch, DropAll, Spill, SendHealth, register_villager, elsewhere, course, beasts,
      saving, people
<1>7. ASSUME NEW p \in Player,
            Fall(p) \/ Kill(p) \/ Heal(p) \/ Respawn(p) \/ SetGamemode(p)
            \/ SwitchDimension(p) \/ Eat(p) \/ ApplyInstant(p) \/ ApplyLasting(p)
            \/ AddSpeed(p) \/ DrinkMilk(p) \/ Shoot(p) \/ Summon(p) \/ Seat(p)
            \/ Dismount(p) \/ Rise(p) \/ Sleep(p) \/ Weather(p) \/ Load(p) \/ Leave(p)
            \/ WriteFile(p) \/ SavePlayer(p)
     PROVE  table' \subseteq Player /\ records' \subseteq Player
  BY <1>7, Zenon
  DEF Fall, Kill, Heal, Respawn, SetGamemode, SwitchDimension, Eat, ApplyInstant,
      ApplyLasting, AddSpeed, DrinkMilk, Shoot, Summon, Seat, Dismount, Rise, Sleep,
      Weather, Load, Leave, WriteFile, SavePlayer, elsewhere, course, beasts, saving,
      people
<1>8. ASSUME NEW p \in Player, NEW b \in Body, Attack(p, b) \/ Feed(p, b)
     PROVE  table' \subseteq Player /\ records' \subseteq Player
  BY <1>8 DEF Attack, Feed, elsewhere, course, beasts, saving, people
<1>9. ASSUME NEW p \in Player, NEW v \in Boat, Mount(p, v)
     PROVE  table' \subseteq Player /\ records' \subseteq Player
  BY <1>9 DEF Mount, elsewhere, course, beasts, saving, people
<1>10. ASSUME NEW p \in Player, NEW t \in Thing, Stow(p, t) \/ Fetch(p, t)
     PROVE  table' \subseteq Player /\ records' \subseteq Player
  BY <1>10, Zenon DEF Stow, Fetch, elsewhere, course, beasts, saving, people
<1>11. CASE MobsTick \/ MobDying \/ MobStrays \/ MobLives \/ Hit \/ Pair \/ Baby
            \/ Forget \/ Spawn \/ ItemsTick \/ Give \/ Rot \/ ArrowsTick \/ Pierce
            \/ Regenerate \/ Regen \/ HungerTick \/ Hunger \/ EffectsTick \/ Affect
            \/ MendEffect \/ Poison \/ Wane \/ Slow \/ Clock \/ Store \/ Flip
            \/ TellWeather \/ SaveContainers \/ SavePut \/ SavePlayers \/ SaveMobs
            \/ SaveItems \/ SaveMeta \/ Saved
  BY <1>11, Zenon
  DEF MobsTick, MobDying, MobStrays, MobLives, Hit, Pair, Baby, Forget, Spawn, ItemsTick,
      Give, Rot, ArrowsTick, Pierce, Regenerate, Regen, HungerTick, Hunger, EffectsTick,
      Affect, MendEffect, Poison, Wane, Slow, Clock, Store, Flip, TellWeather,
      SaveContainers, SavePut, SavePlayers, SaveMobs, SaveItems, SaveMeta, Saved, Round,
      elsewhere, course, beasts, saving, people
<1>12. CASE UNCHANGED vars
  BY <1>12 DEF vars, people, beasts, stores, course
<1> QED
  BY <1>1, <1>2, <1>3, <1>4, <1>5, <1>6, <1>7, <1>8, <1>9, <1>10, <1>11, <1>12
  DEF Next

\* A restart forgets who was where.
LEMMA RestartForgets ==
  ASSUME Restart
  PROVE  \E a, b, t, m :
           past' = [past EXCEPT !.cut = a, !.safe = b, !.clock = t, !.missed = m, !.stirred = {},
                      !.ghosts = {}, !.ousted = {}, !.strayed = {}, !.overfed = {}, !.leaked = {}]
  BY Zenon DEF Restart

\* Every step leaves a history with all its fields.
LEMMA HistoryProper ==
  ASSUME LivesAssumption, Types, DeadOrAlive, OldHands, [Next]_vars
  PROVE  Proper(past')
<1>0. Proper(past)
  BY DEF Types, PeopleTypes
<1>1. ASSUME NEW u \in Thread, Flinch(u) PROVE Proper(past')
  <2>1. past' = past \/ past' = Heard(past, u)
    BY <1>1 DEF Flinch
  <2> QED
    BY <1>0, <2>1, HeardNotes
<1>2. ASSUME NEW u \in Thread, DropAll(u) PROVE Proper(past')
  BY <1>2, <1>0, MovedKeeps, CutKeeps DEF DropAll
<1>3. ASSUME NEW u \in Thread, Spill(u) PROVE Proper(past')
  BY <1>3, <1>0, MovedKeeps DEF Spill
<1>4. ASSUME NEW u \in Thread, SendHealth(u) PROVE Proper(past')
  BY <1>4, <1>0, HeardNotes DEF SendHealth
<1>5. ASSUME NEW u \in Thread, register_villager(u) PROVE Proper(past')
  BY <1>5, <1>0 DEF register_villager, Proper, PastFields
<1>6. ASSUME NEW p \in Player, SetGamemode(p) PROVE Proper(past')
  BY <1>6, <1>0, SlowedNotes DEF SetGamemode
<1>7. ASSUME NEW p \in Player, SwitchDimension(p) PROVE Proper(past')
  BY <1>7, <1>0, SlowedNotes DEF SwitchDimension
<1>8. ASSUME NEW p \in Player, DrinkMilk(p) PROVE Proper(past')
  BY <1>8, <1>0 DEF DrinkMilk, Proper, PastFields
<1>9. ASSUME NEW p \in Player, Seat(p) PROVE Proper(past')
  BY <1>9, <1>0 DEF Seat, Proper, PastFields
<1>10. ASSUME NEW p \in Player, Rise(p) PROVE Proper(past')
  BY <1>10, <1>0 DEF Rise, Proper, PastFields
<1>11. ASSUME NEW p \in Player, Sleep(p) PROVE Proper(past')
  BY <1>11, <1>0, Zenon DEF Sleep, set_time, Proper, PastFields
<1>12. ASSUME NEW p \in Player, Weather(p) PROVE Proper(past')
  BY <1>12, <1>0 DEF Weather, Proper, PastFields
<1>13. ASSUME NEW p \in Player, NEW b \in Body, Feed(p, b) PROVE Proper(past')
  BY <1>13, <1>0 DEF Feed, Proper, PastFields
<1>14. ASSUME NEW p \in Player, NEW v \in Boat, Mount(p, v) PROVE Proper(past')
  BY <1>14, <1>0 DEF Mount, Proper, PastFields
<1>15. ASSUME NEW p \in Player, NEW t \in Thing, Stow(p, t) PROVE Proper(past')
  BY <1>15, <1>0, MovedKeeps DEF Stow
<1>16. ASSUME NEW p \in Player, NEW t \in Thing, Fetch(p, t) PROVE Proper(past')
  BY <1>16, <1>0, IntoKeeps DEF Fetch
<1>17. ASSUME NEW p \in Player, Load(p) PROVE Proper(past')
  <2>1. PICK raw \in {past, [past EXCEPT !.undead = @ \cup {p}]} :
          \/ past' = raw
          \/ \E S : past' = Cut(raw, S)
          \/ \E S : past' = Cut([raw EXCEPT !.twice = @ \cup {user[p]}], S)
    BY <1>17 DEF Load
  <2>2. Proper(raw)
    BY <1>0 DEF Proper, PastFields
  <2>3. Proper([raw EXCEPT !.twice = @ \cup {user[p]}])
    BY <2>2 DEF Proper, PastFields
  <2> QED
    BY <2>1, <2>2, <2>3, CutKeeps
<1>18. ASSUME NEW p \in Player, Leave(p) PROVE Proper(past')
  <2> DEFINE h == [past EXCEPT !.strayed = @ \cup {<<p, v>> : v \in {w \in Boat : rider[w] = p}}]
  <2>1. Proper(h)
    BY <1>0 DEF Proper, PastFields
  <2> HIDE DEF h
  <2>2. PICK S : past' = h \/ past' = Cut(h, S)
    BY <1>18 DEF Leave, h
  <2> QED
    BY <2>1, <2>2, CutKeeps
<1>19. ASSUME NEW p \in Player, SavePlayer(p) PROVE Proper(past')
  BY <1>19, <1>0, CutKeeps DEF SavePlayer
<1>20. CASE MobsTick
  <2>1. past' = past \/ \E S, T : past' = [Written(past, S) EXCEPT !.ghosts = @ \cup T]
    BY <1>20 DEF MobsTick
  <2>2. \A S : Proper(Written(past, S))
    BY <1>0, WrittenKeeps
  <2> QED
    BY <1>0, <2>1, <2>2 DEF Proper, PastFields
<1>21. CASE MobDies
  <2>1. \E S : past' = Moved(past, S) \/ \E p : past' = [Moved(past, S) EXCEPT !.leaked = @ \cup {p}]
    BY <1>21 DEF MobDies
  <2>2. \A S : Proper(Moved(past, S))
    BY <1>0, MovedKeeps
  <2> QED
    BY <2>1, <2>2 DEF Proper, PastFields
<1>22. CASE Pair
  BY <1>22, <1>0, WrittenKeeps, Zenon DEF Pair
<1>23. CASE ItemsTick
  BY <1>23, <1>0, MovedKeeps DEF ItemsTick
<1>24. CASE Give
  BY <1>24, <1>0, IntoKeeps, CutKeeps DEF Give
<1>25. CASE Rot
  BY <1>25, <1>0, WrittenKeeps DEF Rot
<1>26. CASE Slow
  BY <1>26, <1>0, SlowedNotes DEF Slow
<1>27. CASE Clock
  BY <1>27, <1>0 DEF Clock, Proper, PastFields
<1>28. CASE TellWeather
  BY <1>28, <1>0 DEF TellWeather, Proper, PastFields
<1>29. CASE SaveContainers
  BY <1>29, <1>0 DEF SaveContainers, Proper, PastFields
<1>30. CASE Saved
  <2>1. PICK a, b : past' = [past EXCEPT !.safe = a, !.home = b]
    BY <1>30, Zenon DEF Saved
  <2> QED
    BY <1>0, <2>1 DEF Proper, PastFields
<1>31. CASE Restart
  <2>1. PICK a, b, t, m :
          past' = [past EXCEPT !.cut = a, !.safe = b, !.clock = t, !.missed = m, !.stirred = {},
                     !.ghosts = {}, !.ousted = {}, !.strayed = {}, !.overfed = {}, !.leaked = {}]
    BY <1>31, RestartForgets
  <2> QED
    BY <1>0, <2>1 DEF Proper, PastFields
<1>32. ASSUME NEW p \in Player,
            Fall(p) \/ Kill(p) \/ Heal(p) \/ Respawn(p) \/ Eat(p) \/ ApplyInstant(p)
     PROVE  Proper(past')
  BY <1>32, TakingAlters, Alters, <1>0
<1>33. CASE Hit \/ Regen \/ Hunger \/ MendEffect \/ Poison
  BY <1>33, GivingAlters, Alters, <1>0 DEF AtRest, people
<1>34. ASSUME NEW p \in Player,
            ApplyLasting(p) \/ AddSpeed(p) \/ Shoot(p) \/ Summon(p) \/ Dismount(p)
            \/ Enter(p) \/ WriteFile(p) \/ remove_player(p) \/ Clear(p)
     PROVE  Proper(past')
  BY <1>34, <1>0
  DEF ApplyLasting, AddSpeed, Shoot, Summon, Dismount, Enter, WriteFile, remove_player,
      Clear, elsewhere, course, beasts, saving
<1>35. ASSUME NEW p \in Player, NEW b \in Body, Attack(p, b) PROVE Proper(past')
  BY <1>35, <1>0 DEF Attack, elsewhere, course, beasts, saving
<1>36. CASE MobDying \/ MobStrays \/ MobLives \/ Baby \/ Forget \/ Spawn \/ ArrowsTick
            \/ Pierce \/ Regenerate \/ HungerTick \/ EffectsTick \/ Affect \/ Wane
            \/ Store \/ Flip \/ SavePut \/ SavePlayers \/ SaveMobs \/ SaveItems
            \/ SaveMeta
  BY <1>36, <1>0, Zenon
  DEF MobDying, MobStrays, MobLives, Baby, Forget, Spawn, ArrowsTick, Pierce, Regenerate,
      HungerTick, EffectsTick, Affect, Wane, Store, Flip, SavePut, SavePlayers,
      SaveMobs, SaveItems, SaveMeta, Round, elsewhere, course, beasts, saving
<1>37. CASE UNCHANGED vars
  BY <1>37, <1>0 DEF vars, people, beasts, stores, course
<1> QED
  BY <1>1, <1>2, <1>3, <1>4, <1>5, <1>6, <1>7, <1>8, <1>9, <1>10, <1>11, <1>12, <1>13,
     <1>14, <1>15, <1>16, <1>17, <1>18, <1>19, <1>20, <1>21, <1>22, <1>23, <1>24, <1>25,
     <1>26, <1>27, <1>28, <1>29, <1>30, <1>31, <1>32, <1>33, <1>34, <1>35, <1>36, <1>37
  DEF Next

(***************************************************************************)
(* What a step keeps: the types of what is saved.                          *)
(***************************************************************************)

\* Every step leaves things on the ground and in the chest.
LEMMA GoodsTyped ==
  ASSUME LivesAssumption, Types, [Next]_vars
  PROVE  ground' \subseteq Thing /\ chest' \subseteq Thing
<1> USE DEF Types, FileTypes
<1>1. ASSUME NEW u \in Thread, Spill(u)
     PROVE  ground' \subseteq Thing /\ chest' \subseteq Thing
  BY <1>1 DEF Spill, spawn_item, PeopleTypes, Step
<1>2. ASSUME NEW p \in Player, NEW t \in Thing, Stow(p, t)
     PROVE  ground' \subseteq Thing /\ chest' \subseteq Thing
  BY <1>2 DEF Stow
<1>3. ASSUME NEW p \in Player, NEW t \in Thing, Fetch(p, t)
     PROVE  ground' \subseteq Thing /\ chest' \subseteq Thing
  BY <1>3 DEF Fetch
<1>4. CASE MobDies
  <2>1. Head(todo).on \in Body
    BY <1>4, JobOnBody DEF MobDies, Do
  <2>2. mob[Head(todo).on].loot \in Thing \cup {None}
    BY <2>1 DEF BeastTypes, Creature, Mob
  <2>3. ground' = ground \cup ({mob[Head(todo).on].loot} \ {None}) /\ chest' = chest
    BY <1>4, Zenon DEF MobDies, drop_loot
  <2> QED
    BY <2>2, <2>3
<1>5. CASE ItemsTick
  BY <1>5 DEF ItemsTick
<1>6. CASE Rot
  BY <1>6 DEF Rot
<1>7. CASE Restart
  BY <1>7, SavedEntities DEF Restart
<1>8. ASSUME NEW u \in Thread,
            Flinch(u) \/ DropAll(u) \/ SendHealth(u) \/ register_villager(u)
     PROVE  ground' \subseteq Thing /\ chest' \subseteq Thing
  BY <1>8
  DEF Flinch, DropAll, SendHealth, register_villager, elsewhere, stores, course, saving
<1>9. ASSUME NEW p \in Player,
            Fall(p) \/ Kill(p) \/ Heal(p) \/ Respawn(p) \/ SetGamemode(p)
            \/ SwitchDimension(p) \/ Eat(p) \/ ApplyInstant(p) \/ ApplyLasting(p)
            \/ AddSpeed(p) \/ DrinkMilk(p) \/ Shoot(p) \/ Summon(p) \/ Seat(p)
            \/ Dismount(p) \/ Rise(p) \/ Sleep(p) \/ Weather(p) \/ Load(p) \/ Enter(p)
            \/ Leave(p) \/ WriteFile(p) \/ remove_player(p) \/ Clear(p)
            \/ SavePlayer(p)
     PROVE  ground' \subseteq Thing /\ chest' \subseteq Thing
  BY <1>9, Zenon
  DEF Fall, Kill, Heal, Respawn, SetGamemode, SwitchDimension, Eat, ApplyInstant,
      ApplyLasting, AddSpeed, DrinkMilk, Shoot, Summon, Seat, Dismount, Rise, Sleep,
      Weather, Load, Enter, Leave, WriteFile, remove_player, Clear, SavePlayer,
      elsewhere, stores, course, saving
<1>10. ASSUME NEW p \in Player, NEW b \in Body, Attack(p, b) \/ Feed(p, b)
     PROVE  ground' \subseteq Thing /\ chest' \subseteq Thing
  BY <1>10 DEF Attack, Feed, elsewhere, stores, course, saving
<1>11. ASSUME NEW p \in Player, NEW v \in Boat, Mount(p, v)
     PROVE  ground' \subseteq Thing /\ chest' \subseteq Thing
  BY <1>11, Zenon DEF Mount, elsewhere, stores, course, saving
<1>12. CASE MobsTick \/ MobDying \/ MobStrays \/ MobLives \/ Hit \/ Pair \/ Baby
            \/ Forget \/ Spawn \/ Give \/ ArrowsTick \/ Pierce \/ Regenerate \/ Regen
            \/ HungerTick \/ Hunger \/ EffectsTick \/ Affect \/ MendEffect \/ Poison
            \/ Wane \/ Slow \/ Clock \/ Store \/ Flip \/ TellWeather \/ SaveContainers
            \/ SavePut \/ SavePlayers \/ SaveMobs \/ SaveItems \/ SaveMeta \/ Saved
  BY <1>12, Zenon
  DEF MobsTick, MobDying, MobStrays, MobLives, Hit, Pair, Baby, Forget, Spawn, Give,
      ArrowsTick, Pierce, Regenerate, Regen, HungerTick, Hunger, EffectsTick, Affect,
      MendEffect, Poison, Wane, Slow, Clock, Store, Flip, TellWeather, SaveContainers,
      SavePut, SavePlayers, SaveMobs, SaveItems, SaveMeta, Saved, Round, elsewhere,
      stores, course, saving
<1>13. CASE UNCHANGED vars
  BY <1>13 DEF vars, people, beasts, stores, course
<1> QED
  BY <1>1, <1>2, <1>3, <1>4, <1>5, <1>6, <1>7, <1>8, <1>9, <1>10, <1>11, <1>12, <1>13
  DEF Next


\* Every step leaves those that are being saved with what is to be written.
LEMMA FilesHeld ==
  ASSUME LivesAssumption, Types, DeadOrAlive, OldHands, [Next]_vars
  PROVE  \A q \in Player : self'[q].at = "saving" => self'[q].file \in Snapshot
<1> USE DEF Types, PeopleTypes, FileTypes, Self
<1>1. ASSUME NEW u \in Thread, DropAll(u)
     PROVE  \A q \in Player : self'[q].at = "saving" => self'[q].file \in Snapshot
  BY <1>1 DEF DropAll
<1>2. ASSUME NEW p \in Player, SetGamemode(p)
     PROVE  \A q \in Player : self'[q].at = "saving" => self'[q].file \in Snapshot
  BY <1>2 DEF SetGamemode
<1>3. ASSUME NEW p \in Player, ApplyLasting(p)
     PROVE  \A q \in Player : self'[q].at = "saving" => self'[q].file \in Snapshot
  <2>1. PICK f : UNCHANGED self \/ self' = [self EXCEPT ![p].effect = f]
    BY <1>3 DEF ApplyLasting
  <2>2. \A q \in Player : self'[q].at = self[q].at /\ self'[q].file = self[q].file
    BY <2>1
  <2> QED
    BY <2>2
<1>4. ASSUME NEW p \in Player, AddSpeed(p)
     PROVE  \A q \in Player : self'[q].at = "saving" => self'[q].file \in Snapshot
  BY <1>4 DEF AddSpeed
<1>5. ASSUME NEW p \in Player, DrinkMilk(p)
     PROVE  \A q \in Player : self'[q].at = "saving" => self'[q].file \in Snapshot
  BY <1>5 DEF DrinkMilk
<1>6. ASSUME NEW p \in Player, Seat(p)
     PROVE  \A q \in Player : self'[q].at = "saving" => self'[q].file \in Snapshot
  BY <1>6 DEF Seat
<1>7. ASSUME NEW p \in Player, Dismount(p)
     PROVE  \A q \in Player : self'[q].at = "saving" => self'[q].file \in Snapshot
  BY <1>7 DEF Dismount
<1>8. ASSUME NEW p \in Player, NEW t \in Thing, Stow(p, t)
     PROVE  \A q \in Player : self'[q].at = "saving" => self'[q].file \in Snapshot
  BY <1>8 DEF Stow
<1>9. ASSUME NEW p \in Player, NEW t \in Thing, Fetch(p, t)
     PROVE  \A q \in Player : self'[q].at = "saving" => self'[q].file \in Snapshot
  BY <1>9 DEF Fetch
<1>10. ASSUME NEW p \in Player, Load(p)
     PROVE  \A q \in Player : self'[q].at = "saving" => self'[q].file \in Snapshot
  <2>1. self' = [self EXCEPT ![p] = [apply_data(disk[user[p]]) EXCEPT !.at = "joining"]]
    BY <1>10 DEF Load
  <2>2. user[p] \in User
    BY DEF LivesAssumption
  <2>3. apply_data(disk[user[p]]) \in Self
    BY <2>2, Loaded
  <2> QED
    BY <2>1, <2>3
<1>11. ASSUME NEW p \in Player, Enter(p)
     PROVE  \A q \in Player : self'[q].at = "saving" => self'[q].file \in Snapshot
  BY <1>11 DEF Enter
<1>12. ASSUME NEW p \in Player, Leave(p)
     PROVE  \A q \in Player : self'[q].at = "saving" => self'[q].file \in Snapshot
  <2>1. self' = [self EXCEPT ![p] = [self[p] EXCEPT !.at = "saving", !.file = snapshot_data(self[p])]]
    BY <1>12 DEF Leave
  <2>2. snapshot_data(self[p]) \in Snapshot
    BY DEF snapshot_data, Snapshot
  <2> QED
    BY <2>1, <2>2
<1>13. ASSUME NEW p \in Player, WriteFile(p)
     PROVE  \A q \in Player : self'[q].at = "saving" => self'[q].file \in Snapshot
  BY <1>13 DEF WriteFile
<1>14. ASSUME NEW p \in Player, remove_player(p)
     PROVE  \A q \in Player : self'[q].at = "saving" => self'[q].file \in Snapshot
  BY <1>14 DEF remove_player
<1>15. ASSUME NEW p \in Player, Clear(p)
     PROVE  \A q \in Player : self'[q].at = "saving" => self'[q].file \in Snapshot
  BY <1>15 DEF Clear
<1>16. CASE Give
  <2>1. PICK p, S : self' = [self EXCEPT ![p].pack = S]
    BY <1>16 DEF Give
  <2>2. \A q \in Player : self'[q].at = self[q].at /\ self'[q].file = self[q].file
    BY <2>1
  <2> QED
    BY <2>2
<1>17. CASE Wane
  BY <1>17 DEF Wane
<1>18. CASE Restart
  <2>1. \A p \in Player : self'[p] = self[p] \/ self'[p] = [Fresh EXCEPT !.at = "gone"]
    BY <1>18 DEF Restart
  <2> QED
    BY <2>1, FreshTyped
<1>19. ASSUME NEW p \in Player,
            Fall(p) \/ Kill(p) \/ Heal(p) \/ Respawn(p) \/ Eat(p) \/ ApplyInstant(p)
     PROVE  \A q \in Player : self'[q].at = "saving" => self'[q].file \in Snapshot
  BY <1>19, TakingAlters, AlterationKeeps
<1>20. CASE Hit \/ Regen \/ Hunger \/ MendEffect \/ Poison
  BY <1>20, GivingAlters, AlterationKeeps DEF AtRest, people
<1>21. ASSUME NEW u \in Thread,
            Flinch(u) \/ Spill(u) \/ SendHealth(u) \/ register_villager(u)
     PROVE  \A q \in Player : self'[q].at = "saving" => self'[q].file \in Snapshot
  BY <1>21
  DEF Flinch, Spill, SendHealth, register_villager, elsewhere, course, beasts, saving, people
<1>22. ASSUME NEW p \in Player,
            SwitchDimension(p) \/ Shoot(p) \/ Summon(p) \/ Rise(p) \/ Sleep(p)
            \/ Weather(p) \/ SavePlayer(p)
     PROVE  \A q \in Player : self'[q].at = "saving" => self'[q].file \in Snapshot
  BY <1>22
  DEF SwitchDimension, Shoot, Summon, Rise, Sleep, Weather, SavePlayer, elsewhere, course,
      beasts, saving, people
<1>23. ASSUME NEW p \in Player, NEW b \in Body, Attack(p, b) \/ Feed(p, b)
     PROVE  \A q \in Player : self'[q].at = "saving" => self'[q].file \in Snapshot
  BY <1>23 DEF Attack, Feed, elsewhere, course, beasts, saving, people
<1>24. ASSUME NEW p \in Player, NEW v \in Boat, Mount(p, v)
     PROVE  \A q \in Player : self'[q].at = "saving" => self'[q].file \in Snapshot
  BY <1>24, Zenon DEF Mount, elsewhere, course, beasts, saving, people
<1>25. CASE MobsTick \/ MobDying \/ MobDies \/ MobStrays \/ MobLives \/ Pair \/ Baby
            \/ Forget \/ Spawn \/ ItemsTick \/ Rot \/ ArrowsTick \/ Pierce
            \/ Regenerate \/ HungerTick \/ EffectsTick \/ Affect \/ Slow \/ Clock
            \/ Store \/ Flip \/ TellWeather \/ SaveContainers \/ SavePut \/ SavePlayers
            \/ SaveMobs \/ SaveItems \/ SaveMeta \/ Saved
  BY <1>25, Zenon
  DEF MobsTick, MobDying, MobDies, MobStrays, MobLives, Pair, Baby, Forget, Spawn, ItemsTick,
      Rot, ArrowsTick, Pierce, Regenerate, HungerTick, EffectsTick, Affect, Slow, Clock,
      Store, Flip, TellWeather, SaveContainers, SavePut, SavePlayers, SaveMobs,
      SaveItems, SaveMeta, Saved, Round, elsewhere, course, beasts, saving, people
<1>26. CASE UNCHANGED vars
  BY <1>26 DEF vars, people, beasts, stores, course
<1> QED
  BY <1>1, <1>2, <1>3, <1>4, <1>5, <1>6, <1>7, <1>8, <1>9, <1>10, <1>11, <1>12, <1>13,
     <1>14, <1>15, <1>16, <1>17, <1>18, <1>19, <1>20, <1>21, <1>22, <1>23, <1>24, <1>25,
     <1>26
  DEF Next

\* What is written is right for its file.
DiskTyped(d) == d = [f \in File |-> d[f]] /\ \A f \in File : d[f] \notin {None, Torn} => Right(f, d[f])
SaverTyped(s) ==
  /\ s = [x \in {"at", "left", "file", "data"} |-> s[x]]
  /\ s.left \subseteq Player
  /\ s.file \in File \cup {None} /\ (s.file # None => Right(s.file, s.data))
  /\ s.at = "mobs" => s.data \subseteq SavedMob /\ s.file = None
  /\ s.at = "meta" => s.data \in Nat

\* A file written leaves the files typed.
LEMMA Written1 ==
  ASSUME NEW d, DiskTyped(d), NEW f \in File, NEW x, x \in {None, Torn} \/ Right(f, x)
  PROVE  DiskTyped([d EXCEPT ![f] = x])
  BY DEF DiskTyped

\* What the files are called, and what each can hold.
LEMMA FileNames ==
  ASSUME LivesAssumption
  PROVE  /\ "containers" \in File /\ "entities" \in File /\ "meta" \in File
         /\ \A p \in Player : user[p] \in User /\ user[p] \in File
         /\ \A d : d \subseteq Thing => Right("containers", d)
         /\ \A d \in Entities : Right("entities", d)
         /\ \A d \in Nat : Right("meta", d)
         /\ \A p \in Player, d \in Snapshot : Right(user[p], d)
<1>1. "containers" \in File /\ "entities" \in File /\ "meta" \in File
  BY DEF File
<1>2. \A p \in Player : user[p] \in User /\ user[p] \in File
  BY DEF LivesAssumption, File
<1>3. \A d : d \subseteq Thing => Right("containers", d)
  BY DEF LivesAssumption, Right
<1>4. \A d \in Entities : Right("entities", d)
  BY DEF LivesAssumption, Right
<1>5. \A d \in Nat : Right("meta", d)
  BY DEF LivesAssumption, Right
<1>6. \A p \in Player, d \in Snapshot : Right(user[p], d)
  BY <1>2 DEF LivesAssumption, Right
<1> QED
  BY <1>1, <1>2, <1>3, <1>4, <1>5, <1>6

\* What is saved of a player is a snapshot.
LEMMA Snapshots ==
  ASSUME NEW s \in Self
  PROVE  snapshot_data(s) \in Snapshot
  BY DEF snapshot_data, Snapshot, Self

\* Every step leaves the files typed.
LEMMA DiskStaysTyped ==
  ASSUME LivesAssumption, Types, [Next]_vars
  PROVE  DiskTyped(disk')
<1>0. DiskTyped(disk)
  BY DEF Types, FileTypes, DiskTyped
<1>1. ASSUME NEW p \in Player, Leave(p) PROVE DiskTyped(disk')
  <2>1. disk' = [disk EXCEPT ![user[p]] = Torn]
    BY <1>1 DEF Leave
  <2> QED
    BY <1>0, <2>1, FileNames, Written1
<1>2. ASSUME NEW p \in Player, WriteFile(p) PROVE DiskTyped(disk')
  <2>1. disk' = [disk EXCEPT ![user[p]] = self[p].file]
    BY <1>2 DEF WriteFile
  <2>2. self[p].file \in Snapshot
    BY <1>2 DEF WriteFile, Types, FileTypes
  <2>3. user[p] \in File /\ Right(user[p], self[p].file)
    BY <2>2, FileNames
  <2> QED
    BY <1>0, <2>1, <2>3, Written1
<1>3. ASSUME NEW p \in Player, SavePlayer(p) PROVE DiskTyped(disk')
  <2>1. disk' = [disk EXCEPT ![user[p]] = Torn]
    BY <1>3 DEF SavePlayer
  <2> QED
    BY <1>0, <2>1, FileNames, Written1
<1>4. CASE SaveContainers
  <2>1. disk' = [disk EXCEPT !["containers"] = Torn]
    BY <1>4 DEF SaveContainers, Truncate
  <2> QED
    BY <1>0, <2>1, FileNames, Written1
<1>5. CASE SavePut
  <2>1. disk' = [disk EXCEPT ![saver.file] = saver.data] /\ saver.file # None
    BY <1>5 DEF SavePut
  <2>2. saver.file \in File /\ Right(saver.file, saver.data)
    BY <2>1 DEF Types, FileTypes
  <2> QED
    BY <1>0, <2>1, <2>2, Written1
<1>6. CASE SaveItems
  <2>1. disk' = [disk EXCEPT !["entities"] = Torn]
    BY <1>6 DEF SaveItems, Truncate
  <2> QED
    BY <1>0, <2>1, FileNames, Written1
<1>7. CASE SaveMeta
  <2>1. disk' = [disk EXCEPT !["meta"] = Torn]
    BY <1>7 DEF SaveMeta, Truncate
  <2> QED
    BY <1>0, <2>1, FileNames, Written1
<1>8. CASE Saved
  <2>1. disk' = [disk EXCEPT !["meta"] = saver.data] /\ saver.at = "meta"
    BY <1>8 DEF Saved
  <2>2. Right("meta", saver.data) /\ "meta" \in File
    BY <2>1, FileNames DEF Types, FileTypes
  <2> QED
    BY <1>0, <2>1, <2>2, Written1
<1>9. ASSUME NEW u \in Thread,
            Flinch(u) \/ DropAll(u) \/ Spill(u) \/ SendHealth(u)
            \/ register_villager(u)
     PROVE  DiskTyped(disk')
  BY <1>9, <1>0, Zenon
  DEF Flinch, DropAll, Spill, SendHealth, register_villager, elsewhere, course, beasts,
      saving, stores
<1>10. ASSUME NEW p \in Player,
            Fall(p) \/ Kill(p) \/ Heal(p) \/ Respawn(p) \/ SetGamemode(p)
            \/ SwitchDimension(p) \/ Eat(p) \/ ApplyInstant(p) \/ ApplyLasting(p)
            \/ AddSpeed(p) \/ DrinkMilk(p) \/ Shoot(p) \/ Summon(p) \/ Seat(p)
            \/ Dismount(p) \/ Rise(p) \/ Sleep(p) \/ Weather(p) \/ Load(p) \/ Enter(p)
            \/ remove_player(p) \/ Clear(p)
     PROVE  DiskTyped(disk')
  BY <1>10, <1>0, Zenon
  DEF Fall, Kill, Heal, Respawn, SetGamemode, SwitchDimension, Eat, ApplyInstant,
      ApplyLasting, AddSpeed, DrinkMilk, Shoot, Summon, Seat, Dismount, Rise, Sleep,
      Weather, Load, Enter, remove_player, Clear, elsewhere, course, beasts, saving,
      stores
<1>11. ASSUME NEW p \in Player, NEW b \in Body, Attack(p, b) \/ Feed(p, b)
     PROVE  DiskTyped(disk')
  BY <1>11, <1>0 DEF Attack, Feed, elsewhere, course, beasts, saving, stores
<1>12. ASSUME NEW p \in Player, NEW v \in Boat, Mount(p, v) PROVE DiskTyped(disk')
  BY <1>12, <1>0 DEF Mount, elsewhere, course, beasts, saving, stores
<1>13. ASSUME NEW p \in Player, NEW t \in Thing, Stow(p, t) \/ Fetch(p, t)
     PROVE  DiskTyped(disk')
  BY <1>13, <1>0, Zenon DEF Stow, Fetch, elsewhere, course, beasts, saving, stores
<1>14. CASE MobsTick \/ MobDying \/ MobDies \/ MobStrays \/ MobLives \/ Hit \/ Pair
            \/ Baby \/ Forget \/ Spawn \/ ItemsTick \/ Give \/ Rot \/ ArrowsTick
            \/ Pierce \/ Regenerate \/ Regen \/ HungerTick \/ Hunger \/ EffectsTick
            \/ Affect \/ MendEffect \/ Poison \/ Wane \/ Slow \/ Clock \/ Store \/ Flip
            \/ TellWeather \/ SavePlayers \/ SaveMobs \/ Restart
  BY <1>14, <1>0, Zenon
  DEF MobsTick, MobDying, MobDies, MobStrays, MobLives, Hit, Pair, Baby, Forget, Spawn,
      ItemsTick, Give, Rot, ArrowsTick, Pierce, Regenerate, Regen, HungerTick, Hunger,
      EffectsTick, Affect, MendEffect, Poison, Wane, Slow, Clock, Store, Flip,
      TellWeather, SavePlayers, SaveMobs, Restart, Round, elsewhere, course, beasts,
      saving, stores
<1>15. CASE UNCHANGED vars
  BY <1>15, <1>0 DEF vars, people, beasts, stores, course
<1> QED
  BY <1>1, <1>2, <1>3, <1>4, <1>5, <1>6, <1>7, <1>8, <1>9, <1>10, <1>11, <1>12, <1>13,
     <1>14, <1>15
  DEF Next

\* Every step leaves the saver typed.
LEMMA SaverStaysTyped ==
  ASSUME LivesAssumption, Types, [Next]_vars
  PROVE  SaverTyped(saver')
<1>0. SaverTyped(saver)
  BY DEF Types, FileTypes, SaverTyped
<1>1. ASSUME NEW p \in Player, SavePlayer(p) PROVE SaverTyped(saver')
  <2>1. /\ saver' = [saver EXCEPT !.left = @ \ {p}, !.file = user[p], !.data = snapshot_data(self[p])]
        /\ saver.at = "players"
    BY <1>1 DEF SavePlayer
  <2>2. user[p] \in File /\ Right(user[p], snapshot_data(self[p]))
    BY FileNames, Snapshots DEF Types, PeopleTypes
  <2> QED
    BY <1>0, <2>1, <2>2 DEF SaverTyped
<1>2. CASE SaveContainers
  <2>1. saver' = [saver EXCEPT !.at = "containers", !.file = "containers", !.data = chest]
    BY <1>2 DEF SaveContainers, Truncate
  <2>2. "containers" \in File /\ Right("containers", chest)
    BY <1>2, FileNames DEF SaveContainers, Types, FileTypes
  <2> QED
    BY <1>0, <2>1, <2>2 DEF SaverTyped
<1>3. CASE SavePut
  <2>1. saver' = [saver EXCEPT !.file = None, !.data = None] /\ saver.at # "meta"
    BY <1>3 DEF SavePut
  <2>2. saver.at # "mobs"
    BY <1>3 DEF SavePut, Types, FileTypes
  <2> QED
    BY <1>0, <2>1, <2>2 DEF SaverTyped
<1>4. CASE SavePlayers
  <2>1. saver' = [saver EXCEPT !.at = "players", !.left = table]
    BY <1>4 DEF SavePlayers
  <2> QED
    BY <1>0, <2>1 DEF SaverTyped, Types, PeopleTypes
<1>5. CASE SaveMobs
  <2> DEFINE d == {[body |-> b, kind |-> mob[b].kind, health |-> mob[b].health, loot |-> mob[b].loot] :
                   b \in {c \in Here : Alive(c)}}
  <2>1. saver' = [saver EXCEPT !.at = "mobs", !.data = d] /\ saver.file = None
    BY <1>5 DEF SaveMobs
  <2>2. d \subseteq SavedMob
    BY DEF SavedMob, Here, Types, BeastTypes, Creature, Mob
  <2> HIDE DEF d
  <2> QED
    BY <1>0, <2>1, <2>2 DEF SaverTyped
<1>6. CASE SaveItems
  <2> DEFINE d == [mobs |-> saver.data, items |-> ground]
  <2>1. saver' = [saver EXCEPT !.at = "entities", !.file = "entities", !.data = d] /\ saver.at = "mobs"
    BY <1>6 DEF SaveItems, Truncate
  <2>2. d \in Entities
    BY <2>1 DEF Types, FileTypes, Entities
  <2> HIDE DEF d
  <2>3. "entities" \in File /\ Right("entities", d)
    BY <2>2, FileNames
  <2> QED
    BY <1>0, <2>1, <2>3 DEF SaverTyped
<1>7. CASE SaveMeta
  <2>1. saver' = [saver EXCEPT !.at = "meta", !.file = "meta", !.data = sky.time]
    BY <1>7 DEF SaveMeta, Truncate
  <2>2. sky.time \in Nat
    BY DEF Types, LoopTypes
  <2>3. "meta" \in File /\ Right("meta", sky.time)
    BY <2>2, FileNames
  <2> QED
    BY <1>0, <2>1, <2>2, <2>3 DEF SaverTyped
<1>8. CASE Saved
  BY <1>8 DEF Saved, Resting, SaverTyped
<1>9. CASE Restart
  BY <1>9 DEF Restart, Resting, SaverTyped
<1>10. ASSUME NEW u \in Thread,
            Flinch(u) \/ DropAll(u) \/ Spill(u) \/ SendHealth(u)
            \/ register_villager(u)
     PROVE  SaverTyped(saver')
  BY <1>10, <1>0
  DEF Flinch, DropAll, Spill, SendHealth, register_villager, elsewhere, course, beasts,
      saving, stores
<1>11. ASSUME NEW p \in Player,
            Fall(p) \/ Kill(p) \/ Heal(p) \/ Respawn(p) \/ SetGamemode(p)
            \/ SwitchDimension(p) \/ Eat(p) \/ ApplyInstant(p) \/ ApplyLasting(p)
            \/ AddSpeed(p) \/ DrinkMilk(p) \/ Shoot(p) \/ Summon(p) \/ Seat(p)
            \/ Dismount(p) \/ Rise(p) \/ Sleep(p) \/ Weather(p) \/ Load(p) \/ Enter(p)
            \/ Leave(p) \/ WriteFile(p) \/ remove_player(p) \/ Clear(p)
     PROVE  SaverTyped(saver')
  BY <1>11, <1>0, Zenon
  DEF Fall, Kill, Heal, Respawn, SetGamemode, SwitchDimension, Eat, ApplyInstant,
      ApplyLasting, AddSpeed, DrinkMilk, Shoot, Summon, Seat, Dismount, Rise, Sleep,
      Weather, Load, Enter, Leave, WriteFile, remove_player, Clear, elsewhere, course,
      beasts, saving, stores
<1>12. ASSUME NEW p \in Player, NEW b \in Body, Attack(p, b) \/ Feed(p, b)
     PROVE  SaverTyped(saver')
  BY <1>12, <1>0 DEF Attack, Feed, elsewhere, course, beasts, saving, stores
<1>13. ASSUME NEW p \in Player, NEW v \in Boat, Mount(p, v) PROVE SaverTyped(saver')
  BY <1>13, <1>0 DEF Mount, elsewhere, course, beasts, saving, stores
<1>14. ASSUME NEW p \in Player, NEW t \in Thing, Stow(p, t) \/ Fetch(p, t)
     PROVE  SaverTyped(saver')
  BY <1>14, <1>0, Zenon DEF Stow, Fetch, elsewhere, course, beasts, saving, stores
<1>15. CASE MobsTick \/ MobDying \/ MobDies \/ MobStrays \/ MobLives \/ Hit \/ Pair
            \/ Baby \/ Forget \/ Spawn \/ ItemsTick \/ Give \/ Rot \/ ArrowsTick
            \/ Pierce \/ Regenerate \/ Regen \/ HungerTick \/ Hunger \/ EffectsTick
            \/ Affect \/ MendEffect \/ Poison \/ Wane \/ Slow \/ Clock \/ Store \/ Flip
            \/ TellWeather
  BY <1>15, <1>0, Zenon
  DEF MobsTick, MobDying, MobDies, MobStrays, MobLives, Hit, Pair, Baby, Forget, Spawn,
      ItemsTick, Give, Rot, ArrowsTick, Pierce, Regenerate, Regen, HungerTick, Hunger,
      EffectsTick, Affect, MendEffect, Poison, Wane, Slow, Clock, Store, Flip,
      TellWeather, Round, elsewhere, course, beasts, saving, stores
<1>16. CASE UNCHANGED vars
  BY <1>16, <1>0 DEF vars, people, beasts, stores, course
<1> QED
  BY <1>1, <1>2, <1>3, <1>4, <1>5, <1>6, <1>7, <1>8, <1>9, <1>10, <1>11, <1>12, <1>13,
     <1>14, <1>15, <1>16
  DEF Next

\* Every step keeps the types.
LEMMA TypesStep ==
  ASSUME LivesAssumption, Types, DeadOrAlive, Whereabouts, Boarding, LoversTame, [Next]_vars
  PROVE  Types'
<1> USE DEF Whereabouts
<1>1. PeopleTypes'
  BY SelfTyped, TablesTyped, ShownTyped, StepTyped, HistoryProper DEF PeopleTypes
<1>2. BeastTypes'
  BY MobsTyped, RidersTyped DEF BeastTypes
<1>3. LoopTypes'
  BY TodoTyped, TickTyped, SkyTyped DEF LoopTypes
<1>4. FileTypes'
  BY GoodsTyped, FilesHeld, DiskStaysTyped, SaverStaysTyped DEF FileTypes, DiskTyped, SaverTyped
<1> QED
  BY <1>1, <1>2, <1>3, <1>4 DEF Types

(***************************************************************************)
(* The steps by what they are about.                                       *)
(***************************************************************************)

\* Steps that change somebody's vitals ...
Altering ==
  \/ \E p \in Player : Fall(p) \/ Kill(p) \/ Heal(p) \/ Respawn(p) \/ Eat(p) \/ ApplyInstant(p)
  \/ Hit \/ Regen \/ Hunger \/ MendEffect \/ Poison

\* Those steps alter vitals, or do nothing.
LEMMA AlteringAlters ==
  ASSUME LivesAssumption, Types, DeadOrAlive, OldHands, Altering
  PROVE  Alteration \/ AtRest
  BY TakingAlters, GivingAlters DEF Altering

\* ... and steps that leave players, and what they are in the middle of, alone.
Aside ==
  \/ \E p \in Player : \/ Shoot(p) \/ Sleep(p) \/ SavePlayer(p)
                       \/ \E b \in Body : Attack(p, b) \/ Feed(p, b)
  \/ MobsTick \/ MobDying \/ MobDies \/ MobStrays \/ MobLives \/ Pair \/ Baby \/ Forget
  \/ ItemsTick \/ Rot \/ ArrowsTick \/ Pierce
  \/ Regenerate \/ HungerTick \/ EffectsTick \/ Affect \/ Clock \/ Store \/ Flip
  \/ SaveContainers \/ SavePut \/ SavePlayers \/ SaveMobs \/ SaveItems \/ SaveMeta \/ Saved
  \/ UNCHANGED vars

PersonalMarks == {"crossed", "milked", "undead", "misled", "ousted", "strayed"}

\* What is noted of players is noted.
LEMMA PersonalMarksAreMarks == PersonalMarks \subseteq Marks
  BY DEF PersonalMarks, Marks

Left == /\ UNCHANGED <<self, table, step, shown, rider>>
        /\ \A x \in PersonalMarks : past'[x] = past[x]

\* The other steps leave what is said of players alone.
LEMMA AsideLeaves ==
  ASSUME Types, Aside
  PROVE  Left
<1>0. Proper(past) /\ PersonalMarks \subseteq Marks
  BY PersonalMarksAreMarks DEF Types, PeopleTypes
<1>1. ASSUME NEW p \in Player, Sleep(p) PROVE Left
  <2>1. UNCHANGED <<self, table, step, shown, rider>>
    BY <1>1 DEF Sleep, people, beasts
  <2>2. PICK t : set_time(t)
    BY <1>1 DEF Sleep
  <2>3. past' = [past EXCEPT !.clock = t, !.missed = Storing]
    BY <2>2 DEF set_time
  <2> QED
    BY <1>0, <2>1, <2>3 DEF Left, Proper, PastFields, PersonalMarks
<1>2. ASSUME NEW p \in Player, SavePlayer(p) PROVE Left
  <2>1. UNCHANGED <<self, table, step, shown, rider>>
    BY <1>2 DEF SavePlayer, people, beasts, stores, course, elsewhere, saving
  <2>2. UNCHANGED past \/ \E S : past' = Cut(past, S)
    BY <1>2 DEF SavePlayer
  <2> QED
    BY <1>0, <2>1, <2>2, CutKeeps DEF Left
<1>3. ASSUME NEW p \in Player, NEW b \in Body, Feed(p, b) PROVE Left
  <2>1. UNCHANGED <<self, table, step, shown, rider>>
    BY <1>3 DEF Feed, people, beasts, stores, course, elsewhere, saving
  <2>2. UNCHANGED past \/ \E S : past' = [past EXCEPT !.overfed = S]
    BY <1>3 DEF Feed
  <2> QED
    BY <1>0, <2>1, <2>2 DEF Left, Proper, PastFields, PersonalMarks
<1>4. CASE MobsTick
  <2>1. UNCHANGED <<self, table, step, shown, rider>>
    BY <1>4 DEF MobsTick, people, beasts, stores, course, elsewhere, saving
  <2>2. UNCHANGED past \/ \E S, T : past' = [Written(past, S) EXCEPT !.ghosts = T]
    BY <1>4 DEF MobsTick
  <2>3. ASSUME NEW S, NEW T, NEW x \in PersonalMarks
        PROVE  [Written(past, S) EXCEPT !.ghosts = T][x] = past[x]
    <3>1. Proper(Written(past, S)) /\ Written(past, S)[x] = past[x]
      BY <1>0, WrittenKeeps
    <3> QED
      BY <3>1 DEF Proper, PastFields, PersonalMarks
  <2>4. CASE UNCHANGED past
    BY <2>1, <2>4 DEF Left
  <2>5. CASE ~UNCHANGED past
    <3>1. PICK S, T : past' = [Written(past, S) EXCEPT !.ghosts = T]
      BY <2>2, <2>5
    <3>2. \A x \in PersonalMarks : past'[x] = past[x]
      BY <2>3, <3>1
    <3> QED
      BY <2>1, <3>2 DEF Left
  <2> QED
    BY <2>4, <2>5
<1>5. CASE MobDies
  <2>1. UNCHANGED <<self, table, step, shown, rider>>
    BY <1>5 DEF MobDies, people, beasts, stores, course, elsewhere, saving
  <2>2. \E S, T : past' = Moved(past, S) \/ past' = [Moved(past, S) EXCEPT !.leaked = T]
    BY <1>5 DEF MobDies
  <2>3. ASSUME NEW S, NEW T, NEW x \in PersonalMarks
        PROVE  Moved(past, S)[x] = past[x] /\ [Moved(past, S) EXCEPT !.leaked = T][x] = past[x]
    <3>1. Proper(Moved(past, S)) /\ Moved(past, S)[x] = past[x]
      BY <1>0, MovedKeeps
    <3> QED
      BY <3>1 DEF Proper, PastFields, PersonalMarks
  <2>4. PICK S, T : past' = Moved(past, S) \/ past' = [Moved(past, S) EXCEPT !.leaked = T]
    BY <2>2
  <2>5. ASSUME NEW x \in PersonalMarks PROVE past'[x] = past[x]
    <3>1. Moved(past, S)[x] = past[x] /\ [Moved(past, S) EXCEPT !.leaked = T][x] = past[x]
      BY <2>3
    <3> QED
      BY <2>4, <3>1
  <2> QED
    BY <2>1, <2>5 DEF Left
<1>6. CASE MobLives
  <2>1. UNCHANGED <<people, rider, step, past>>
    BY <1>6, Zenon DEF MobLives
  <2> QED
    BY <2>1 DEF Left, people
<1>7. CASE Pair
  <2>1. UNCHANGED <<people, rider, step>> /\ \E S : past' = Written(past, S)
    BY <1>7, Zenon DEF Pair
  <2> QED
    BY <1>0, <2>1, WrittenKeeps DEF Left, people
<1>8. CASE ItemsTick
  <2>1. UNCHANGED <<self, table, step, shown, rider>>
    BY <1>8 DEF ItemsTick, people, beasts, stores, course, elsewhere, saving
  <2>2. \E S : past' = Moved(past, S)
    BY <1>8 DEF ItemsTick
  <2> QED
    BY <1>0, <2>1, <2>2, MovedKeeps DEF Left
<1>9. CASE Rot
  <2>1. UNCHANGED <<self, table, step, shown, rider>>
    BY <1>9 DEF Rot, people, beasts, stores, course, elsewhere, saving
  <2>2. \E S : past' = Written(past, S)
    BY <1>9 DEF Rot
  <2> QED
    BY <1>0, <2>1, <2>2, WrittenKeeps DEF Left
<1>10. CASE Clock
  <2>1. UNCHANGED <<self, table, step, shown, rider>>
    BY <1>10 DEF Clock, people, beasts, stores, course, elsewhere, saving
  <2>2. \A x \in PersonalMarks : past'[x] = past[x]
    BY <1>10, <1>0 DEF Clock, Proper, PastFields, PersonalMarks
  <2> QED
    BY <2>1, <2>2 DEF Left
<1>11. CASE SaveContainers
  <2>1. UNCHANGED <<self, table, step, shown, rider>>
    BY <1>11 DEF SaveContainers, people, beasts, stores, course, elsewhere, saving
  <2>2. past' = [past EXCEPT !.stirred = {}]
    BY <1>11 DEF SaveContainers
  <2> QED
    BY <1>0, <2>1, <2>2 DEF Left, Proper, PastFields, PersonalMarks
<1>12. CASE Saved
  <2>1. UNCHANGED <<self, table, step, shown, rider>>
    BY <1>12 DEF Saved, people, beasts, stores, course, elsewhere, saving
  <2>2. PICK S, T : past' = [past EXCEPT !.safe = S, !.home = T]
    BY <1>12, Zenon DEF Saved
  <2> QED
    BY <1>0, <2>1, <2>2 DEF Left, Proper, PastFields, PersonalMarks
<1>13. ASSUME NEW p \in Player, Shoot(p) PROVE Left
  BY <1>13 DEF Shoot, elsewhere, course, beasts, saving, people, stores, Left
<1>14. ASSUME NEW p \in Player, NEW b \in Body, Attack(p, b) PROVE Left
  BY <1>14 DEF Attack, elsewhere, course, beasts, saving, people, stores, Left
<1>15. CASE MobDying \/ MobStrays \/ Baby \/ Forget
  BY <1>15 DEF MobDying, MobStrays, Baby, Forget, elsewhere, course, beasts, saving,
      people, stores, Left
<1>16. CASE ArrowsTick \/ Pierce \/ Regenerate \/ HungerTick \/ EffectsTick \/ Affect
  BY <1>16 DEF ArrowsTick, Pierce, Regenerate, HungerTick, EffectsTick, Affect, Round,
      elsewhere, course, beasts, saving, people, stores, Left
<1>17. CASE Store \/ Flip
  BY <1>17 DEF Store, Flip, elsewhere, course, beasts, saving, people, stores, Left
<1>18. CASE SavePut \/ SavePlayers \/ SaveMobs \/ SaveItems \/ SaveMeta
  BY <1>18 DEF SavePut, SavePlayers, SaveMobs, SaveItems, SaveMeta, Truncate, elsewhere,
      course, beasts, saving, people, stores, Left
<1>19. CASE UNCHANGED vars
  BY <1>19 DEF vars, people, beasts, Left
<1> QED
  BY <1>1, <1>2, <1>3, <1>4, <1>5, <1>6, <1>7, <1>8, <1>9, <1>10, <1>11, <1>12, <1>13,
     <1>14, <1>15, <1>16, <1>17, <1>18, <1>19
  DEF Aside

(***************************************************************************)
(* What a step keeps: who is where.                                        *)
(***************************************************************************)

\* The steps that summon or spawn a mob, and the lasting effects, one by one.
Enlisting(u) ==
  \E b \in Body, k \in Kind :
    /\ mob[b] = Unborn /\ mob' = [mob EXCEPT ![b] = Born(k, None)]
    /\ \/ k # "villager" /\ UNCHANGED step
       \/ k = "villager" /\ step' = [step EXCEPT ![u] = [Still EXCEPT !.at = "naming", !.on = b]]

\* A mob that comes is named by its thread if it is a villager.
LEMMA EnlistIs ==
  ASSUME NEW u, NEW b \in Body, NEW k \in Kind, mob[b] = Unborn, Enlist(u, b, k)
  PROVE  Enlisting(u)
<1>1. CASE k = "villager"
  <2>1. step' = [step EXCEPT ![u] = [Still EXCEPT !.at = "naming", !.on = b]]
    BY <1>1, Zenon DEF Enlist
  <2>2. mob' = [mob EXCEPT ![b] = Born(k, None)]
    BY Zenon DEF Enlist
  <2> QED
    BY <1>1, <2>1, <2>2, Zenon DEF Enlisting
<1>2. CASE k # "villager"
  <2>1. UNCHANGED step /\ mob' = [mob EXCEPT ![b] = Born(k, None)]
    BY <1>2, Zenon DEF Enlist
  <2> QED
    BY <1>2, <2>1, Zenon DEF Enlisting
<1> QED
  BY <1>1, <1>2

\* No other thread is concerned.
LEMMA EnlistingStep ==
  ASSUME Types, NEW u \in Thread, Enlisting(u)
  PROVE  /\ \A v \in Thread \ {u} : step'[v] = step[v]
         /\ step'[u] = step[u] \/ (step'[u].at = "naming" /\ step'[u].on \in Body)
<1>1. PICK b \in Body : UNCHANGED step \/ step' = [step EXCEPT ![u] = [Still EXCEPT !.at = "naming", !.on = b]]
  BY Zenon DEF Enlisting
<1>2. [Still EXCEPT !.at = "naming", !.on = b].at = "naming" /\ [Still EXCEPT !.at = "naming", !.on = b].on = b
  BY DEF Still
<1> QED
  BY <1>1, <1>2 DEF Types, PeopleTypes

\* Summoning enlists a mob ...
LEMMA SummonEnlists ==
  ASSUME NEW p \in Player, Summon(p)
  PROVE  Enlisting(p) /\ self[p].at = "play" /\ UNCHANGED <<people, known, rider, past, tick, todo>>
<1>1. PICK b \in Body, k \in Kind : mob[b] = Unborn /\ Enlist(p, b, k)
  BY DEF Summon
<1>2. Enlisting(p)
  BY <1>1, EnlistIs
<1> QED
  BY <1>2 DEF Summon, Free, course

\* ... and so does spawning, if anything spawns.
LEMMA SpawnEnlists ==
  ASSUME Spawn
  PROVE  /\ Enlisting(Loop) \/ UNCHANGED <<mob, step>>
         /\ UNCHANGED <<people, known, rider, past, tick>>
<1>1. CASE UNCHANGED <<mob, step>>
  BY <1>1 DEF Spawn
<1>2. CASE ~UNCHANGED <<mob, step>>
  <2>1. PICK b \in Body, k \in Kind : mob[b] = Unborn /\ Enlist(Loop, b, k)
    BY <1>2 DEF Spawn
  <2>2. Enlisting(Loop)
    BY <2>1, EnlistIs
  <2> QED
    BY <2>2 DEF Spawn
<1> QED
  BY <1>1, <1>2

Hastening(p) ==
  /\ shown' = [shown EXCEPT ![p].fast = TRUE] /\ UNCHANGED self
  /\ step' = [step EXCEPT ![p] = [Still EXCEPT !.at = "hastening", !.on = p]]
Lasting(p) ==
  /\ \E f : self' = [self EXCEPT ![p].effect = f] /\ f["speed"] = self[p].effect["speed"]
  /\ UNCHANGED <<shown, step>>

\* A lasting effect hastens its player first, or only lasts.
LEMMA ApplyLastingIs ==
  ASSUME Types, NEW p \in Player, ApplyLasting(p)
  PROVE  /\ Hastening(p) \/ Lasting(p)
         /\ Free(p) /\ UNCHANGED <<elsewhere, past>>
<1>1. PICK e \in Effect :
        IF e = "speed"
        THEN /\ Walk(p, TRUE)
             /\ step' = [step EXCEPT ![p] = [Still EXCEPT !.at = "hastening", !.on = p]]
             /\ UNCHANGED self
        ELSE /\ self' = [self EXCEPT ![p].effect[e] = EffectTime]
             /\ UNCHANGED <<shown, step>>
  BY DEF ApplyLasting
<1>2. CASE e = "speed"
  BY <1>1, <1>2 DEF ApplyLasting, Walk, Hastening
<1>3. CASE e # "speed"
  <2> DEFINE f == [self[p].effect EXCEPT ![e] = EffectTime]
  <2>1. self' = [self EXCEPT ![p].effect = f] /\ UNCHANGED <<shown, step>>
    BY <1>1, <1>3
  <2>2. self[p].effect \in [Effect -> Nat] /\ "speed" \in Effect
    BY DEF Types, PeopleTypes, Self, Effect
  <2>3. f["speed"] = self[p].effect["speed"]
    BY <1>3, <2>2
  <2> HIDE DEF f
  <2> QED
    BY <2>1, <2>3 DEF ApplyLasting, Lasting
<1> QED
  BY <1>2, <1>3

\* A thread that is done, or goes on to something else.
LEMMA OneStep ==
  ASSUME Types, NEW u \in Thread, NEW x, step' = [step EXCEPT ![u] = x]
  PROVE  step'[u] = x /\ \A v \in Thread \ {u} : step'[v] = step[v]
  BY DEF Types, PeopleTypes

\* Every step keeps it that only a player in the game is in the middle of anything.
LEMMA BusyPlaysStep ==
  ASSUME LivesAssumption, Types, DeadOrAlive, OldHands, BusyPlays, [Next]_vars
  PROVE  BusyPlays'
<1>1. CASE Altering
  <2>1. CASE Alteration
    BY <2>1, AlterationKeeps DEF BusyPlays, Thread
  <2>2. CASE AtRest
    BY <2>2 DEF AtRest, people, BusyPlays
  <2> QED
    BY <1>1, <2>1, <2>2, AlteringAlters
<1>2. CASE Aside
  BY <1>2, AsideLeaves DEF Left, BusyPlays
<1>3. ASSUME NEW u \in Thread, Flinch(u) PROVE BusyPlays'
  <2>1. UNCHANGED self /\ (\A v \in Thread \ {u} : step'[v] = step[v]) /\ step[u].at # "idle"
    BY <1>3 DEF Flinch, Types, PeopleTypes
  <2> QED
    BY <2>1 DEF BusyPlays, Thread
<1>4. ASSUME NEW u \in Thread, DropAll(u) PROVE BusyPlays'
  BY <1>4 DEF DropAll, people, elsewhere, Types, PeopleTypes, BusyPlays, Still, Free
<1>5. ASSUME NEW u \in Thread, Spill(u) PROVE BusyPlays'
  BY <1>5 DEF Spill, people, elsewhere, Types, PeopleTypes, BusyPlays, Still, Free
<1>6. ASSUME NEW u \in Thread, SendHealth(u) PROVE BusyPlays'
  BY <1>6
  DEF SendHealth, people, elsewhere, Types, PeopleTypes, BusyPlays, Still, Free
<1>7. ASSUME NEW u \in Thread, register_villager(u) PROVE BusyPlays'
  BY <1>7
  DEF register_villager, people, elsewhere, Types, PeopleTypes, BusyPlays, Still, Free
<1>8. ASSUME NEW p \in Player, SetGamemode(p) PROVE BusyPlays'
  BY <1>8
  DEF SetGamemode, people, elsewhere, Types, PeopleTypes, BusyPlays, Still, Free
<1>9. ASSUME NEW p \in Player, SwitchDimension(p) PROVE BusyPlays'
  BY <1>9
  DEF SwitchDimension, people, elsewhere, Types, PeopleTypes, BusyPlays, Still, Free
<1>10. ASSUME NEW p \in Player, ApplyLasting(p) PROVE BusyPlays'
  <2>1. CASE Hastening(p)
    <3>1. step' = [step EXCEPT ![p] = [Still EXCEPT !.at = "hastening", !.on = p]] /\ UNCHANGED self
      BY <2>1 DEF Hastening
    <3>2. \A v \in Thread \ {p} : step'[v] = step[v]
      BY <3>1 DEF Types, PeopleTypes
    <3>3. self[p].at = "play"
      BY <1>10, ApplyLastingIs DEF Free
    <3> QED
      BY <3>1, <3>2, <3>3 DEF BusyPlays, Thread
  <2>2. CASE Lasting(p)
    BY <1>10, <2>2, ApplyLastingIs DEF Lasting, BusyPlays, Types, PeopleTypes
  <2> QED
    BY <1>10, <2>1, <2>2, ApplyLastingIs
<1>11. ASSUME NEW p \in Player, AddSpeed(p) PROVE BusyPlays'
  BY <1>11 DEF AddSpeed, people, elsewhere, Types, PeopleTypes, BusyPlays, Still, Free
<1>12. ASSUME NEW p \in Player, DrinkMilk(p) PROVE BusyPlays'
  BY <1>12
  DEF DrinkMilk, people, elsewhere, Types, PeopleTypes, BusyPlays, Still, Free
<1>13. ASSUME NEW p \in Player, Summon(p) PROVE BusyPlays'
  <2>1. UNCHANGED self /\ \A u \in Thread \ {p} : step'[u] = step[u]
    BY <1>13, SummonEnlists, EnlistingStep DEF people, Thread
  <2>2. self[p].at = "play"
    BY <1>13, SummonEnlists
  <2> QED
    BY <2>1, <2>2 DEF BusyPlays, Thread
<1>14. ASSUME NEW p \in Player, Seat(p) PROVE BusyPlays'
  BY <1>14 DEF Seat, people, elsewhere, Types, PeopleTypes, BusyPlays, Still, Free
<1>15. ASSUME NEW p \in Player, Dismount(p) PROVE BusyPlays'
  BY <1>15 DEF Dismount, people, elsewhere, Types, PeopleTypes, BusyPlays, Still, Free
<1>16. ASSUME NEW p \in Player, Rise(p) PROVE BusyPlays'
  BY <1>16 DEF Rise, people, elsewhere, Types, PeopleTypes, BusyPlays, Still, Free
<1>17. ASSUME NEW p \in Player, Weather(p) PROVE BusyPlays'
  BY <1>17 DEF Weather, people, elsewhere, Types, PeopleTypes, BusyPlays, Still, Free
<1>18. ASSUME NEW p \in Player, NEW v \in Boat, Mount(p, v) PROVE BusyPlays'
  BY <1>18 DEF Mount, people, elsewhere, Types, PeopleTypes, BusyPlays, Still, Free
<1>19. ASSUME NEW p \in Player, NEW t \in Thing, Stow(p, t) PROVE BusyPlays'
  BY <1>19 DEF Stow, people, elsewhere, Types, PeopleTypes, BusyPlays, Still, Free
<1>20. ASSUME NEW p \in Player, NEW t \in Thing, Fetch(p, t) PROVE BusyPlays'
  BY <1>20 DEF Fetch, people, elsewhere, Types, PeopleTypes, BusyPlays, Still, Free
<1>21. ASSUME NEW p \in Player, Load(p) PROVE BusyPlays'
  BY <1>21 DEF Load, people, elsewhere, Types, PeopleTypes, BusyPlays, Still, Free
<1>22. ASSUME NEW p \in Player, Enter(p) PROVE BusyPlays'
  BY <1>22 DEF Enter, people, elsewhere, Types, PeopleTypes, BusyPlays, Still, Free
<1>23. ASSUME NEW p \in Player, Leave(p) PROVE BusyPlays'
  BY <1>23 DEF Leave, people, elsewhere, Types, PeopleTypes, BusyPlays, Still, Free
<1>24. ASSUME NEW p \in Player, WriteFile(p) PROVE BusyPlays'
  BY <1>24
  DEF WriteFile, people, elsewhere, Types, PeopleTypes, BusyPlays, Still, Free
<1>25. ASSUME NEW p \in Player, remove_player(p) PROVE BusyPlays'
  BY <1>25
  DEF remove_player, people, elsewhere, Types, PeopleTypes, BusyPlays, Still, Free
<1>26. ASSUME NEW p \in Player, Clear(p) PROVE BusyPlays'
  BY <1>26 DEF Clear, people, elsewhere, Types, PeopleTypes, BusyPlays, Still, Free
<1>27. CASE Spawn
  <2>1. UNCHANGED self /\ (Enlisting(Loop) \/ UNCHANGED step) /\ Loop \in Thread
    BY <1>27, SpawnEnlists DEF people, Thread
  <2>3. \A u \in Thread \ {Loop} : step'[u] = step[u]
    BY <2>1, EnlistingStep
  <2>2. Loop \notin Player
    BY DEF LivesAssumption
  <2> QED
    BY <2>1, <2>2, <2>3 DEF BusyPlays, Thread
<1>28. CASE Give
  BY <1>28 DEF Give, people, elsewhere, Types, PeopleTypes, BusyPlays, Still, Free
<1>29. CASE Wane
  BY <1>29 DEF Wane, people, elsewhere, Types, PeopleTypes, BusyPlays, Still, Free
<1>30. CASE Slow
  BY <1>30 DEF Slow, people, elsewhere, Types, PeopleTypes, BusyPlays, Still, Free
<1>31. CASE TellWeather
  BY <1>31
  DEF TellWeather, people, elsewhere, Types, PeopleTypes, BusyPlays, Still, Free
<1>32. CASE Restart
  <2>1. step' = [u \in Thread |-> Still]
    BY <1>32 DEF Restart
  <2> QED
    BY <2>1 DEF BusyPlays, Thread, Still
<1> QED
  BY <1>1, <1>2, <1>3, <1>4, <1>5, <1>6, <1>7, <1>8, <1>9, <1>10, <1>11, <1>12, <1>13,
     <1>14, <1>15, <1>16, <1>17, <1>18, <1>19, <1>20, <1>21, <1>22, <1>23, <1>24, <1>25,
     <1>26, <1>27, <1>28, <1>29, <1>30, <1>31, <1>32
  DEF Next, Altering, Aside

\* Every step keeps it that nobody rides before being in the game.
LEMMA NotYetRidingStep ==
  ASSUME LivesAssumption, Types, DeadOrAlive, OldHands, BusyPlays, NotYetRiding,
         Boarding, [Next]_vars
  PROVE  NotYetRiding'
<1>1. CASE Altering
  <2>1. CASE Alteration
    BY <2>1, AlterationKeeps DEF NotYetRiding
  <2>2. CASE AtRest
    BY <2>2 DEF AtRest, people, NotYetRiding
  <2> QED
    BY <1>1, <2>1, <2>2, AlteringAlters
<1>2. CASE Aside
  BY <1>2, AsideLeaves DEF Left, NotYetRiding
<1>3. ASSUME NEW u \in Thread, Flinch(u) PROVE NotYetRiding'
  BY <1>3
  DEF Flinch, people, elsewhere, Types, PeopleTypes, NotYetRiding, Free, BusyPlays
<1>4. ASSUME NEW u \in Thread, DropAll(u) PROVE NotYetRiding'
  BY <1>4
  DEF DropAll, people, elsewhere, Types, PeopleTypes, NotYetRiding, Free, BusyPlays
<1>5. ASSUME NEW u \in Thread, Spill(u) PROVE NotYetRiding'
  BY <1>5
  DEF Spill, people, elsewhere, Types, PeopleTypes, NotYetRiding, Free, BusyPlays
<1>6. ASSUME NEW u \in Thread, SendHealth(u) PROVE NotYetRiding'
  BY <1>6
  DEF SendHealth, people, elsewhere, Types, PeopleTypes, NotYetRiding, Free, BusyPlays
<1>7. ASSUME NEW u \in Thread, register_villager(u) PROVE NotYetRiding'
  BY <1>7
  DEF register_villager, people, elsewhere, Types, PeopleTypes, NotYetRiding, Free, BusyPlays
<1>8. ASSUME NEW p \in Player, SetGamemode(p) PROVE NotYetRiding'
  BY <1>8
  DEF SetGamemode, people, elsewhere, Types, PeopleTypes, NotYetRiding, Free, BusyPlays
<1>9. ASSUME NEW p \in Player, SwitchDimension(p) PROVE NotYetRiding'
  BY <1>9
  DEF SwitchDimension, people, elsewhere, Types, PeopleTypes, NotYetRiding, Free, BusyPlays
<1>10. ASSUME NEW p \in Player, ApplyLasting(p) PROVE NotYetRiding'
  <2>1. CASE Hastening(p)
    BY <2>1 DEF Hastening, NotYetRiding
  <2>2. CASE Lasting(p)
    BY <2>2 DEF Lasting, NotYetRiding, Types, PeopleTypes
  <2> QED
    BY <1>10, <2>1, <2>2, ApplyLastingIs
<1>11. ASSUME NEW p \in Player, AddSpeed(p) PROVE NotYetRiding'
  BY <1>11
  DEF AddSpeed, people, elsewhere, Types, PeopleTypes, NotYetRiding, Free, BusyPlays
<1>12. ASSUME NEW p \in Player, DrinkMilk(p) PROVE NotYetRiding'
  BY <1>12
  DEF DrinkMilk, people, elsewhere, Types, PeopleTypes, NotYetRiding, Free, BusyPlays
<1>13. ASSUME NEW p \in Player, Summon(p) PROVE NotYetRiding'
  BY <1>13 DEF Summon, people, NotYetRiding
<1>14. ASSUME NEW p \in Player, Seat(p) PROVE NotYetRiding'
  BY <1>14
  DEF Seat, people, elsewhere, Types, PeopleTypes, NotYetRiding, Free, BusyPlays
<1>15. ASSUME NEW p \in Player, Dismount(p) PROVE NotYetRiding'
  BY <1>15
  DEF Dismount, people, elsewhere, Types, PeopleTypes, NotYetRiding, Free, BusyPlays
<1>16. ASSUME NEW p \in Player, Rise(p) PROVE NotYetRiding'
  BY <1>16
  DEF Rise, people, elsewhere, Types, PeopleTypes, NotYetRiding, Free, BusyPlays
<1>17. ASSUME NEW p \in Player, Weather(p) PROVE NotYetRiding'
  BY <1>17
  DEF Weather, people, elsewhere, Types, PeopleTypes, NotYetRiding, Free, BusyPlays
<1>18. ASSUME NEW p \in Player, NEW v \in Boat, Mount(p, v) PROVE NotYetRiding'
  BY <1>18
  DEF Mount, people, elsewhere, Types, PeopleTypes, NotYetRiding, Free, BusyPlays
<1>19. ASSUME NEW p \in Player, NEW t \in Thing, Stow(p, t) PROVE NotYetRiding'
  BY <1>19
  DEF Stow, people, elsewhere, Types, PeopleTypes, NotYetRiding, Free, BusyPlays
<1>20. ASSUME NEW p \in Player, NEW t \in Thing, Fetch(p, t) PROVE NotYetRiding'
  BY <1>20
  DEF Fetch, people, elsewhere, Types, PeopleTypes, NotYetRiding, Free, BusyPlays
<1>21. ASSUME NEW p \in Player, Load(p) PROVE NotYetRiding'
  <2>1. self' = [self EXCEPT ![p] = [apply_data(disk[user[p]]) EXCEPT !.at = "joining"]]
    BY <1>21 DEF Load
  <2>2. user[p] \in User
    BY DEF LivesAssumption
  <2>3. apply_data(disk[user[p]]) \in Self /\ apply_data(disk[user[p]]).riding = None
    BY <2>2, Loaded
  <2> QED
    BY <2>1, <2>3 DEF NotYetRiding, Types, PeopleTypes, Self
<1>22. ASSUME NEW p \in Player, Enter(p) PROVE NotYetRiding'
  BY <1>22
  DEF Enter, people, elsewhere, Types, PeopleTypes, NotYetRiding, Free, BusyPlays
<1>23. ASSUME NEW p \in Player, Leave(p) PROVE NotYetRiding'
  BY <1>23
  DEF Leave, people, elsewhere, Types, PeopleTypes, NotYetRiding, Free, BusyPlays
<1>24. ASSUME NEW p \in Player, WriteFile(p) PROVE NotYetRiding'
  BY <1>24
  DEF WriteFile, people, elsewhere, Types, PeopleTypes, NotYetRiding, Free, BusyPlays
<1>25. ASSUME NEW p \in Player, remove_player(p) PROVE NotYetRiding'
  BY <1>25
  DEF remove_player, people, elsewhere, Types, PeopleTypes, NotYetRiding, Free, BusyPlays
<1>26. ASSUME NEW p \in Player, Clear(p) PROVE NotYetRiding'
  BY <1>26
  DEF Clear, people, elsewhere, Types, PeopleTypes, NotYetRiding, Free, BusyPlays
<1>27. CASE Spawn
  BY <1>27 DEF Spawn, people, NotYetRiding
<1>28. CASE Give
  BY <1>28
  DEF Give, people, elsewhere, Types, PeopleTypes, NotYetRiding, Free, BusyPlays
<1>29. CASE Wane
  BY <1>29
  DEF Wane, people, elsewhere, Types, PeopleTypes, NotYetRiding, Free, BusyPlays
<1>30. CASE Slow
  BY <1>30
  DEF Slow, people, elsewhere, Types, PeopleTypes, NotYetRiding, Free, BusyPlays
<1>31. CASE TellWeather
  BY <1>31
  DEF TellWeather, people, elsewhere, Types, PeopleTypes, NotYetRiding, Free, BusyPlays
<1>32. CASE Restart
  BY <1>32
  DEF Restart, people, elsewhere, Types, PeopleTypes, NotYetRiding, Free, BusyPlays
<1> QED
  BY <1>1, <1>2, <1>3, <1>4, <1>5, <1>6, <1>7, <1>8, <1>9, <1>10, <1>11, <1>12, <1>13,
     <1>14, <1>15, <1>16, <1>17, <1>18, <1>19, <1>20, <1>21, <1>22, <1>23, <1>24, <1>25,
     <1>26, <1>27, <1>28, <1>29, <1>30, <1>31, <1>32
  DEF Next, Altering, Aside

\* Who is in the game, or was, is not new again.
LEMMA KnownStays ==
  ASSUME LivesAssumption, Types, DeadOrAlive, OldHands, [Next]_vars
  PROVE  \A q \in Player : Known(q) => Known(q)'
<1> USE DEF Known, Types, PeopleTypes, Self
<1>1. CASE Altering
  <2>1. CASE Alteration
    BY <2>1, AlterationKeeps
  <2>2. CASE AtRest
    BY <2>2 DEF AtRest, people
  <2> QED
    BY <1>1, <2>1, <2>2, AlteringAlters
<1>2. CASE Aside
  BY <1>2, AsideLeaves DEF Left
<1>3. ASSUME NEW u \in Thread, Flinch(u) PROVE \A q \in Player : Known(q) => Known(q)'
  BY <1>3 DEF Flinch, people, elsewhere, saving
<1>4. ASSUME NEW u \in Thread, DropAll(u) PROVE \A q \in Player : Known(q) => Known(q)'
  <2>1. PICK p, S : self' = [self EXCEPT ![p].pack = S]
    BY <1>4 DEF DropAll
  <2> QED
    BY <2>1
<1>5. ASSUME NEW u \in Thread, Spill(u) PROVE \A q \in Player : Known(q) => Known(q)'
  BY <1>5 DEF Spill, people, elsewhere, saving
<1>6. ASSUME NEW u \in Thread, SendHealth(u)
     PROVE  \A q \in Player : Known(q) => Known(q)'
  BY <1>6 DEF SendHealth, people, elsewhere, saving
<1>7. ASSUME NEW u \in Thread, register_villager(u)
     PROVE  \A q \in Player : Known(q) => Known(q)'
  BY <1>7 DEF register_villager, people, elsewhere, saving
<1>8. ASSUME NEW p \in Player, SetGamemode(p)
     PROVE  \A q \in Player : Known(q) => Known(q)'
  BY <1>8 DEF SetGamemode, people, elsewhere, saving
<1>9. ASSUME NEW p \in Player, SwitchDimension(p)
     PROVE  \A q \in Player : Known(q) => Known(q)'
  BY <1>9 DEF SwitchDimension, people, elsewhere, saving
<1>10. ASSUME NEW p \in Player, ApplyLasting(p)
     PROVE  \A q \in Player : Known(q) => Known(q)'
  <2>1. CASE Hastening(p)
    BY <2>1 DEF Hastening
  <2>2. CASE Lasting(p)
    <3>1. PICK f : self' = [self EXCEPT ![p].effect = f]
      BY <2>2 DEF Lasting
    <3>2. \A q \in Player : self'[q].at = self[q].at
      BY <3>1
    <3> QED
      BY <3>2
  <2> QED
    BY <1>10, <2>1, <2>2, ApplyLastingIs
<1>11. ASSUME NEW p \in Player, AddSpeed(p)
     PROVE  \A q \in Player : Known(q) => Known(q)'
  BY <1>11 DEF AddSpeed, people, elsewhere, saving
<1>12. ASSUME NEW p \in Player, DrinkMilk(p)
     PROVE  \A q \in Player : Known(q) => Known(q)'
  BY <1>12 DEF DrinkMilk, people, elsewhere, saving
<1>13. ASSUME NEW p \in Player, Summon(p) PROVE \A q \in Player : Known(q) => Known(q)'
  BY <1>13, SummonEnlists DEF Summon, people
<1>14. ASSUME NEW p \in Player, Seat(p) PROVE \A q \in Player : Known(q) => Known(q)'
  BY <1>14 DEF Seat, people, elsewhere, saving
<1>15. ASSUME NEW p \in Player, Dismount(p)
     PROVE  \A q \in Player : Known(q) => Known(q)'
  BY <1>15 DEF Dismount, people, elsewhere, saving
<1>16. ASSUME NEW p \in Player, Rise(p) PROVE \A q \in Player : Known(q) => Known(q)'
  BY <1>16 DEF Rise, people, elsewhere, saving
<1>17. ASSUME NEW p \in Player, Weather(p) PROVE \A q \in Player : Known(q) => Known(q)'
  BY <1>17 DEF Weather, people, elsewhere, saving
<1>18. ASSUME NEW p \in Player, NEW v \in Boat, Mount(p, v)
     PROVE  \A q \in Player : Known(q) => Known(q)'
  BY <1>18 DEF Mount, people, elsewhere, saving
<1>19. ASSUME NEW p \in Player, NEW t \in Thing, Stow(p, t)
     PROVE  \A q \in Player : Known(q) => Known(q)'
  BY <1>19 DEF Stow, people, elsewhere, saving
<1>20. ASSUME NEW p \in Player, NEW t \in Thing, Fetch(p, t)
     PROVE  \A q \in Player : Known(q) => Known(q)'
  BY <1>20 DEF Fetch, people, elsewhere, saving
<1>21. ASSUME NEW p \in Player, Load(p) PROVE \A q \in Player : Known(q) => Known(q)'
  <2>1. self' = [self EXCEPT ![p] = [apply_data(disk[user[p]]) EXCEPT !.at = "joining"]]
    BY <1>21 DEF Load
  <2>2. self[p].at = "new"
    BY <1>21 DEF Load
  <2> QED
    BY <2>1, <2>2
<1>22. ASSUME NEW p \in Player, Enter(p) PROVE \A q \in Player : Known(q) => Known(q)'
  BY <1>22 DEF Enter, people, elsewhere, saving
<1>23. ASSUME NEW p \in Player, Leave(p) PROVE \A q \in Player : Known(q) => Known(q)'
  BY <1>23 DEF Leave, people, elsewhere, saving
<1>24. ASSUME NEW p \in Player, WriteFile(p)
     PROVE  \A q \in Player : Known(q) => Known(q)'
  BY <1>24 DEF WriteFile, people, elsewhere, saving
<1>25. ASSUME NEW p \in Player, remove_player(p)
     PROVE  \A q \in Player : Known(q) => Known(q)'
  BY <1>25 DEF remove_player, people, elsewhere, saving
<1>26. ASSUME NEW p \in Player, Clear(p) PROVE \A q \in Player : Known(q) => Known(q)'
  BY <1>26 DEF Clear, people, elsewhere, saving
<1>27. CASE Spawn
  BY <1>27, SpawnEnlists DEF Spawn, people
<1>28. CASE Give
  <2>1. PICK p, S : self' = [self EXCEPT ![p].pack = S]
    BY <1>28 DEF Give
  <2> QED
    BY <2>1
<1>29. CASE Wane
  BY <1>29 DEF Wane, people, elsewhere, saving
<1>30. CASE Slow
  BY <1>30 DEF Slow, people, elsewhere, saving
<1>31. CASE TellWeather
  BY <1>31 DEF TellWeather, people, elsewhere, saving
<1>32. CASE Restart
  <2>1. self' = [p \in Player |-> IF self[p].at = "new" THEN self[p] ELSE [Fresh EXCEPT !.at = "gone"]]
    BY <1>32 DEF Restart
  <2> QED
    BY <2>1, FreshTyped
<1> QED
  BY <1>1, <1>2, <1>3, <1>4, <1>5, <1>6, <1>7, <1>8, <1>9, <1>10, <1>11, <1>12, <1>13,
     <1>14, <1>15, <1>16, <1>17, <1>18, <1>19, <1>20, <1>21, <1>22, <1>23, <1>24, <1>25,
     <1>26, <1>27, <1>28, <1>29, <1>30, <1>31, <1>32
  DEF Next, Altering, Aside

\* The other steps read the players of a tick from the table.
LEMMA AsideTick ==
  ASSUME Types, Aside
  PROVE  tick'.crowd \in {table, tick.crowd}
<1>1. ASSUME NEW p \in Player, Shoot(p) \/ Sleep(p) \/ SavePlayer(p)
      PROVE  tick'.crowd \in {table, tick.crowd}
  BY <1>1 DEF Shoot, Sleep, SavePlayer, Types, LoopTypes, Tick, elsewhere, course,
      saving
<1>2. ASSUME NEW p \in Player, NEW b \in Body, Attack(p, b) \/ Feed(p, b)
      PROVE  tick'.crowd \in {table, tick.crowd}
  BY <1>2 DEF Attack, Feed, Types, LoopTypes, Tick, elsewhere, course, saving
<1>3. CASE MobsTick
  BY <1>3 DEF MobsTick, Types, LoopTypes, Tick, elsewhere, course, saving, NoTick
<1>4. CASE MobDying
  BY <1>4 DEF MobDying, Types, LoopTypes, Tick, elsewhere, course, saving
<1>5. CASE MobStrays
  BY <1>5 DEF MobStrays, Types, LoopTypes, Tick, elsewhere, course, saving
<1>6. CASE Forget
  BY <1>6 DEF Forget, Types, LoopTypes, Tick, elsewhere, course, saving
<1>7. CASE MobDies
  BY <1>7 DEF MobDies, Types, LoopTypes, Tick, elsewhere, course, saving
<1>8. CASE ItemsTick
  BY <1>8 DEF ItemsTick, Types, LoopTypes, Tick, elsewhere, course, saving
<1>9. CASE ArrowsTick
  BY <1>9 DEF ArrowsTick, Types, LoopTypes, Tick, elsewhere, course, saving
<1>10. CASE Baby \/ Rot \/ Pierce
  BY <1>10 DEF Baby, Rot, Pierce, Types, LoopTypes, Tick, elsewhere, course, saving
<1>11. CASE SaveContainers \/ SavePut \/ SavePlayers \/ SaveMobs \/ SaveItems \/ SaveMeta \/ Saved
  BY <1>11 DEF SaveContainers, SavePut, SavePlayers, SaveMobs, SaveItems, SaveMeta,
      Saved, Types, LoopTypes, Tick, elsewhere, course, saving
<1>12. CASE Regenerate \/ HungerTick \/ EffectsTick \/ Affect \/ Clock \/ Store \/ Flip
  BY <1>12 DEF Regenerate, HungerTick, EffectsTick, Affect, Clock, Store, Flip, Types,
      LoopTypes, Tick, elsewhere, course, saving, Round
<1>13. CASE MobLives
  <2>1. PICK S : tick' = [tick EXCEPT !.lovers = S]
    BY <1>13, Zenon DEF MobLives
  <2> QED
    BY <2>1 DEF Types, LoopTypes, Tick
<1>14. CASE Pair
  <2>1. UNCHANGED tick
    BY <1>14, Zenon DEF Pair
  <2> QED
    BY <2>1
<1>15. CASE UNCHANGED vars
  BY <1>15 DEF vars, course
<1> QED
  BY <1>1, <1>2, <1>3, <1>4, <1>5, <1>6, <1>7, <1>8, <1>9, <1>10, <1>11, <1>12, <1>13,
     <1>14, <1>15 DEF Aside

\* Those in the table, and those a tick is for, are no newcomers.
LEMMA CrowdStays ==
  ASSUME LivesAssumption, Types, DeadOrAlive, OldHands, [Next]_vars
  PROVE  \A q \in table' \cup tick'.crowd : Known(q)'
<1>0. /\ \A q \in Player : Known(q) => Known(q)'
      /\ \A q \in table \cup tick.crowd : q \in Player /\ Known(q)
  BY KnownStays DEF OldHands, Types, PeopleTypes, LoopTypes, Tick
<1> USE DEF Types, PeopleTypes, LoopTypes, Tick
<1>1. CASE Altering
  <2>1. CASE Alteration
    BY <1>0, <2>1, AlterationKeeps
  <2>2. CASE AtRest
    BY <1>0, <2>2 DEF AtRest, people
  <2> QED
    BY <1>1, <2>1, <2>2, AlteringAlters
<1>2. CASE Aside
  <2>1. table' = table /\ tick'.crowd \in {table, tick.crowd}
    BY <1>2, AsideLeaves, AsideTick DEF Left
  <2> QED
    BY <1>0, <2>1
<1>3. ASSUME NEW u \in Thread, Flinch(u)
     PROVE  \A q \in table' \cup tick'.crowd : Known(q)'
  BY <1>3, <1>0 DEF Flinch, people, elsewhere, saving, course
<1>4. ASSUME NEW u \in Thread, DropAll(u)
     PROVE  \A q \in table' \cup tick'.crowd : Known(q)'
  BY <1>4, <1>0 DEF DropAll, people, elsewhere, saving, course
<1>5. ASSUME NEW u \in Thread, Spill(u)
     PROVE  \A q \in table' \cup tick'.crowd : Known(q)'
  BY <1>5, <1>0 DEF Spill, people, elsewhere, saving, course
<1>6. ASSUME NEW u \in Thread, SendHealth(u)
     PROVE  \A q \in table' \cup tick'.crowd : Known(q)'
  BY <1>6, <1>0 DEF SendHealth, people, elsewhere, saving, course
<1>7. ASSUME NEW u \in Thread, register_villager(u)
     PROVE  \A q \in table' \cup tick'.crowd : Known(q)'
  BY <1>7, <1>0 DEF register_villager, people, elsewhere, saving, course
<1>8. ASSUME NEW p \in Player, SetGamemode(p)
     PROVE  \A q \in table' \cup tick'.crowd : Known(q)'
  BY <1>8, <1>0 DEF SetGamemode, people, elsewhere, saving, course
<1>9. ASSUME NEW p \in Player, SwitchDimension(p)
     PROVE  \A q \in table' \cup tick'.crowd : Known(q)'
  BY <1>9, <1>0 DEF SwitchDimension, people, elsewhere, saving, course
<1>10. ASSUME NEW p \in Player, ApplyLasting(p)
     PROVE  \A q \in table' \cup tick'.crowd : Known(q)'
  <2>1. UNCHANGED <<table, tick>>
    BY <1>10, ApplyLastingIs DEF elsewhere, course
  <2> QED
    BY <1>0, <2>1
<1>11. ASSUME NEW p \in Player, AddSpeed(p)
     PROVE  \A q \in table' \cup tick'.crowd : Known(q)'
  BY <1>11, <1>0 DEF AddSpeed, people, elsewhere, saving, course
<1>12. ASSUME NEW p \in Player, DrinkMilk(p)
     PROVE  \A q \in table' \cup tick'.crowd : Known(q)'
  BY <1>12, <1>0 DEF DrinkMilk, people, elsewhere, saving, course
<1>13. ASSUME NEW p \in Player, Summon(p)
     PROVE  \A q \in table' \cup tick'.crowd : Known(q)'
  BY <1>13, SummonEnlists, <1>0 DEF Summon, people, course
<1>14. ASSUME NEW p \in Player, Seat(p)
     PROVE  \A q \in table' \cup tick'.crowd : Known(q)'
  BY <1>14, <1>0 DEF Seat, people, elsewhere, saving, course
<1>15. ASSUME NEW p \in Player, Dismount(p)
     PROVE  \A q \in table' \cup tick'.crowd : Known(q)'
  BY <1>15, <1>0 DEF Dismount, people, elsewhere, saving, course
<1>16. ASSUME NEW p \in Player, Rise(p)
     PROVE  \A q \in table' \cup tick'.crowd : Known(q)'
  BY <1>16, <1>0 DEF Rise, people, elsewhere, saving, course
<1>17. ASSUME NEW p \in Player, Weather(p)
     PROVE  \A q \in table' \cup tick'.crowd : Known(q)'
  BY <1>17, <1>0 DEF Weather, people, elsewhere, saving, course
<1>18. ASSUME NEW p \in Player, NEW v \in Boat, Mount(p, v)
     PROVE  \A q \in table' \cup tick'.crowd : Known(q)'
  BY <1>18, <1>0 DEF Mount, people, elsewhere, saving, course
<1>19. ASSUME NEW p \in Player, NEW t \in Thing, Stow(p, t)
     PROVE  \A q \in table' \cup tick'.crowd : Known(q)'
  BY <1>19, <1>0 DEF Stow, people, elsewhere, saving, course
<1>20. ASSUME NEW p \in Player, NEW t \in Thing, Fetch(p, t)
     PROVE  \A q \in table' \cup tick'.crowd : Known(q)'
  BY <1>20, <1>0 DEF Fetch, people, elsewhere, saving, course
<1>21. ASSUME NEW p \in Player, Load(p)
     PROVE  \A q \in table' \cup tick'.crowd : Known(q)'
  BY <1>21, <1>0 DEF Load, people, elsewhere, saving, course
<1>22. ASSUME NEW p \in Player, Enter(p)
     PROVE  \A q \in table' \cup tick'.crowd : Known(q)'
  <2>1. table' = table \cup {p} /\ UNCHANGED tick /\ self'[p].at = "play"
    BY <1>22 DEF Enter, course
  <2> QED
    BY <2>1, <1>0 DEF Known
<1>23. ASSUME NEW p \in Player, Leave(p)
     PROVE  \A q \in table' \cup tick'.crowd : Known(q)'
  BY <1>23, <1>0 DEF Leave, people, elsewhere, saving, course
<1>24. ASSUME NEW p \in Player, WriteFile(p)
     PROVE  \A q \in table' \cup tick'.crowd : Known(q)'
  BY <1>24, <1>0 DEF WriteFile, people, elsewhere, saving, course
<1>25. ASSUME NEW p \in Player, remove_player(p)
     PROVE  \A q \in table' \cup tick'.crowd : Known(q)'
  BY <1>25, <1>0 DEF remove_player, people, elsewhere, saving, course
<1>26. ASSUME NEW p \in Player, Clear(p)
     PROVE  \A q \in table' \cup tick'.crowd : Known(q)'
  BY <1>26, <1>0 DEF Clear, people, elsewhere, saving, course
<1>27. CASE Spawn
  BY <1>27, SpawnEnlists, <1>0 DEF Spawn, people, course
<1>28. CASE Give
  BY <1>28, <1>0 DEF Give, people, elsewhere, saving, course
<1>29. CASE Wane
  BY <1>29, <1>0 DEF Wane, people, elsewhere, saving, course
<1>30. CASE Slow
  BY <1>30, <1>0 DEF Slow, people, elsewhere, saving, course
<1>31. CASE TellWeather
  BY <1>31, <1>0 DEF TellWeather, people, elsewhere, saving, course
<1>32. CASE Restart
  BY <1>32, <1>0 DEF Restart, NoTick
<1> QED
  BY <1>1, <1>2, <1>3, <1>4, <1>5, <1>6, <1>7, <1>8, <1>9, <1>10, <1>11, <1>12, <1>13,
     <1>14, <1>15, <1>16, <1>17, <1>18, <1>19, <1>20, <1>21, <1>22, <1>23, <1>24, <1>25,
     <1>26, <1>27, <1>28, <1>29, <1>30, <1>31, <1>32
  DEF Next, Altering, Aside

Told == \A u \in Thread : step[u].at \in {"hurt", "telling"} => step[u].on \in Player /\ Known(step[u].on)
Apart(u) == /\ step'[u].at \notin {"hurt", "telling"}
            /\ step'[u].at = "dropping" => step'[u].on \in Player
Steady == \A u \in Thread : step'[u] = step[u] \/ Apart(u)

\* Threads tell, and drop the things of, players.
LEMMA OwnSteps ==
  ASSUME LivesAssumption, Types, Told, ~Altering, [Next]_vars
  PROVE  Steady
<1> USE DEF Types, PeopleTypes
<1>1. CASE Altering
  BY <1>1
<1>2. CASE Aside
  BY <1>2, AsideLeaves DEF Left, Steady
<1>3. ASSUME NEW u \in Thread, Flinch(u) PROVE Steady
  <2>1. \A v \in Thread \ {u} : step'[v] = step[v]
    BY <1>3 DEF Flinch
  <2>2. step[u].on \in Player
    BY <1>3 DEF Flinch, Told
  <2>3. step'[u] = Still \/ step'[u] = [Still EXCEPT !.at = "dropping", !.on = step[u].on]
    BY <1>3 DEF Flinch
  <2>4. /\ step'[u].at \in {"idle", "dropping"}
        /\ step'[u].at = "dropping" => step'[u].on = step[u].on
    <3> DEFINE x == [Still EXCEPT !.at = "dropping", !.on = step[u].on]
    <3>1. Still.at = "idle" /\ x.at = "dropping" /\ x.on = step[u].on
      BY DEF Still
    <3> HIDE DEF x
    <3>2. step'[u] = Still \/ step'[u] = x
      BY <2>3 DEF x
    <3> QED
      BY <3>1, <3>2
  <2>5. Apart(u)
    BY <2>2, <2>4 DEF Apart
  <2> QED
    BY <2>1, <2>5 DEF Steady
<1>4. ASSUME NEW u \in Thread, DropAll(u) PROVE Steady
  BY <1>4 DEF DropAll, people, elsewhere, Still, Steady, Apart
<1>5. ASSUME NEW u \in Thread, Spill(u) PROVE Steady
  BY <1>5 DEF Spill, people, elsewhere, Still, Steady, Apart
<1>6. ASSUME NEW u \in Thread, SendHealth(u) PROVE Steady
  BY <1>6 DEF SendHealth, people, elsewhere, Still, Steady, Apart
<1>7. ASSUME NEW u \in Thread, register_villager(u) PROVE Steady
  BY <1>7 DEF register_villager, people, elsewhere, Still, Steady, Apart
<1>8. ASSUME NEW p \in Player, SetGamemode(p) PROVE Steady
  BY <1>8 DEF SetGamemode, people, elsewhere, Still, Steady, Apart
<1>9. ASSUME NEW p \in Player, SwitchDimension(p) PROVE Steady
  BY <1>9 DEF SwitchDimension, people, elsewhere, Still, Steady, Apart
<1>10. ASSUME NEW p \in Player, ApplyLasting(p) PROVE Steady
  <2>1. CASE Hastening(p)
    BY <2>1 DEF Hastening, Still, Steady, Apart
  <2>2. CASE Lasting(p)
    BY <2>2 DEF Lasting, Steady
  <2> QED
    BY <1>10, <2>1, <2>2, ApplyLastingIs
<1>11. ASSUME NEW p \in Player, AddSpeed(p) PROVE Steady
  BY <1>11 DEF AddSpeed, people, elsewhere, Still, Steady, Apart
<1>12. ASSUME NEW p \in Player, DrinkMilk(p) PROVE Steady
  BY <1>12 DEF DrinkMilk, people, elsewhere, Still, Steady, Apart
<1>13. ASSUME NEW p \in Player, Summon(p) PROVE Steady
  <2>1. Enlisting(p) /\ p \in Thread
    BY <1>13, SummonEnlists DEF Thread
  <2> QED
    BY <2>1, EnlistingStep DEF Steady, Apart
<1>14. ASSUME NEW p \in Player, Seat(p) PROVE Steady
  BY <1>14 DEF Seat, people, elsewhere, Still, Steady, Apart
<1>15. ASSUME NEW p \in Player, Dismount(p) PROVE Steady
  BY <1>15 DEF Dismount, people, elsewhere, Still, Steady, Apart
<1>16. ASSUME NEW p \in Player, Rise(p) PROVE Steady
  BY <1>16 DEF Rise, people, elsewhere, Still, Steady, Apart
<1>17. ASSUME NEW p \in Player, Weather(p) PROVE Steady
  BY <1>17 DEF Weather, people, elsewhere, Still, Steady, Apart
<1>18. ASSUME NEW p \in Player, NEW v \in Boat, Mount(p, v) PROVE Steady
  BY <1>18 DEF Mount, people, elsewhere, Still, Steady, Apart
<1>19. ASSUME NEW p \in Player, NEW t \in Thing, Stow(p, t) PROVE Steady
  BY <1>19 DEF Stow, people, elsewhere, Still, Steady, Apart
<1>20. ASSUME NEW p \in Player, NEW t \in Thing, Fetch(p, t) PROVE Steady
  BY <1>20 DEF Fetch, people, elsewhere, Still, Steady, Apart
<1>21. ASSUME NEW p \in Player, Load(p) PROVE Steady
  BY <1>21 DEF Load, people, elsewhere, Still, Steady, Apart
<1>22. ASSUME NEW p \in Player, Enter(p) PROVE Steady
  BY <1>22 DEF Enter, people, elsewhere, Still, Steady, Apart
<1>23. ASSUME NEW p \in Player, Leave(p) PROVE Steady
  BY <1>23 DEF Leave, people, elsewhere, Still, Steady, Apart
<1>24. ASSUME NEW p \in Player, WriteFile(p) PROVE Steady
  BY <1>24 DEF WriteFile, people, elsewhere, Still, Steady, Apart
<1>25. ASSUME NEW p \in Player, remove_player(p) PROVE Steady
  BY <1>25 DEF remove_player, people, elsewhere, Still, Steady, Apart
<1>26. ASSUME NEW p \in Player, Clear(p) PROVE Steady
  BY <1>26 DEF Clear, people, elsewhere, Still, Steady, Apart
<1>27. CASE Spawn
  <2>1. (Enlisting(Loop) \/ UNCHANGED step) /\ Loop \in Thread
    BY <1>27, SpawnEnlists DEF Thread
  <2> QED
    BY <2>1, EnlistingStep DEF Steady, Apart
<1>28. CASE Give
  BY <1>28 DEF Give, people, elsewhere, Still, Steady, Apart
<1>29. CASE Wane
  BY <1>29 DEF Wane, people, elsewhere, Still, Steady, Apart
<1>30. CASE Slow
  BY <1>30 DEF Slow, people, elsewhere, Still, Steady, Apart
<1>31. CASE TellWeather
  BY <1>31 DEF TellWeather, people, elsewhere, Still, Steady, Apart
<1>32. CASE Restart
  BY <1>32 DEF Restart, people, elsewhere, Still, Steady, Apart
<1> QED
  BY <1>1, <1>2, <1>3, <1>4, <1>5, <1>6, <1>7, <1>8, <1>9, <1>10, <1>11, <1>12, <1>13,
     <1>14, <1>15, <1>16, <1>17, <1>18, <1>19, <1>20, <1>21, <1>22, <1>23, <1>24, <1>25,
     <1>26, <1>27, <1>28, <1>29, <1>30, <1>31, <1>32
  DEF Next, Altering, Aside

\* Every step keeps it that threads tell, and drop the things of, players that are known.
LEMMA ToldStays ==
  ASSUME LivesAssumption, Types, DeadOrAlive, OldHands, Droppers, [Next]_vars
  PROVE  Told' /\ Droppers'
<1>1. Told /\ \A q \in Player : Known(q) => Known(q)'
  BY KnownStays DEF OldHands, Told
<1>2. CASE Steady
  BY <1>1, <1>2 DEF Steady, Apart, Told, Droppers
<1>3. CASE Alteration
  <2>1. \A v \in Thread :
          \/ step'[v].at = step[v].at /\ step'[v].on = step[v].on
          \/ step'[v].at \in {"hurt", "telling"} /\ step'[v].on \in Player /\ Known(step'[v].on)
          \/ step'[v].at = "idle"
    BY <1>3, AlterationKeeps
  <2>2. \A v \in Thread : step'[v].at = "dropping" => step'[v].on \in Player
    BY <2>1 DEF Droppers
  <2>3. ASSUME NEW v \in Thread, step'[v].at \in {"hurt", "telling"}
        PROVE  step'[v].on \in Player /\ Known(step'[v].on)
    BY <1>1, <2>1, <2>3 DEF Told
  <2>4. \A q \in Player : Known(q) => self'[q].at \notin {"new", "joining"}
    BY <1>1 DEF Known
  <2> QED
    BY <2>2, <2>3, <2>4 DEF Told, Known, Droppers
<1>4. CASE AtRest
  BY <1>4 DEF AtRest, people, Told, Droppers, OldHands, Known
<1>5. CASE Altering
  BY <1>3, <1>4, <1>5, AlteringAlters
<1> QED
  BY <1>1, <1>2, <1>5, OwnSteps

\* Every step keeps it that the loop's jobs are for players that are known.
LEMMA JobsKnown ==
  ASSUME LivesAssumption, Types, DeadOrAlive, OldHands, LoversTame, [Next]_vars
  PROVE  \A i \in DOMAIN todo' : todo'[i].do \in PlayerJob => self'[todo'[i].on].at \notin {"new", "joining"}
<1>1. \A q \in Player : Known(q) => self'[q].at \notin {"new", "joining"}
  BY KnownStays DEF Known
<1>2. todo \in Seq(AJob) /\ todo' \in Seq(AJob)
  BY TodoTyped DEF Types, LoopTypes
<1>3. \A i \in DOMAIN todo' : todo'[i].do \in PlayerJob => todo'[i].on \in Player
  BY <1>2, JobFields
<1>4. SUFFICES \A i \in DOMAIN todo' : todo'[i].do \in PlayerJob => Known(todo'[i].on)
  BY <1>1, <1>3 DEF Known
<1>5. \A i \in DOMAIN todo : todo[i].do \in PlayerJob => Known(todo[i].on)
  BY DEF OldHands
<1>6. CASE UNCHANGED todo
  BY <1>5, <1>6
<1>7. CASE Starting
  BY <1>7 DEF Starting
<1>8. CASE GoingOn
  <2>1. PICK more \in Seq(AJob) : New(more) /\ Done(more)
    BY <1>8 DEF GoingOn
  <2>2. todo # <<>>
    BY <1>8 DEF GoingOn
  <2>3. \A i \in DOMAIN todo' :
          \/ i \in DOMAIN more /\ todo'[i] = more[i]
          \/ \E k \in DOMAIN todo : todo'[i] = todo[k]
    BY <1>2, <2>1, <2>2, DoneJobs
  <2>4. \A i \in DOMAIN more : more[i].do \in PlayerJob => Known(more[i].on)
    BY <2>1 DEF New
  <2> QED
    BY <1>5, <2>3, <2>4
<1>9. CASE todo' = <<>>
  BY <1>9
<1> QED
  BY <1>6, <1>7, <1>8, <1>9, LoopStep DEF LoopGoes

\* Every step keeps who is where.
LEMMA WhereaboutsStep ==
  ASSUME LivesAssumption, Types, DeadOrAlive, Whereabouts, Boarding, LoversTame, [Next]_vars
  PROVE  Whereabouts'
<1>1. BusyPlays /\ NotYetRiding /\ OldHands /\ Droppers
  BY DEF Whereabouts
<1>2. BusyPlays' /\ NotYetRiding'
  BY <1>1, BusyPlaysStep, NotYetRidingStep
<1>3. Told' /\ Droppers'
  BY <1>1, ToldStays
<1>4. \A q \in table' \cup tick'.crowd : Known(q)'
  BY <1>1, CrowdStays
<1>5. \A i \in DOMAIN todo' : todo'[i].do \in PlayerJob => self'[todo'[i].on].at \notin {"new", "joining"}
  BY <1>1, JobsKnown
<1>6. OldHands'
  BY <1>3, <1>4, <1>5 DEF OldHands, Told, Known, Thread
<1> QED
  BY <1>2, <1>3, <1>6 DEF Whereabouts

(***************************************************************************)
(* What each step touches.                                                 *)
(***************************************************************************)

Attacking     == \E p \in Player, b \in Body : Attack(p, b)
Feeding       == \E p \in Player, b \in Body : Feed(p, b)
Summoning     == \E p \in Player : Summon(p)
Registering   == \E u \in Thread : register_villager(u)
Hearing       == \E u \in Thread : Flinch(u) \/ SendHealth(u)
Slowing       == \E p \in Player : SetGamemode(p) \/ SwitchDimension(p)
Milking       == \E p \in Player : DrinkMilk(p)
Forecasting   == \E p \in Player : Weather(p)
Mounting      == \E p \in Player, v \in Boat : Mount(p, v)
Seating       == \E p \in Player : Seat(p)
Dismounting   == \E p \in Player : Dismount(p)
Rising        == \E p \in Player : Rise(p)
Loading       == \E p \in Player : Load(p)
Entering      == \E p \in Player : Enter(p)
Leaving       == \E p \in Player : Leave(p)
Departing     == \E p \in Player : WriteFile(p) \/ remove_player(p)
Clearing      == \E p \in Player : Clear(p)

MarksGo ==
  /\ past'.crossed = past.crossed \/ Hearing
  /\ past'.milked = past.milked \/ Altering \/ Slowing \/ Milking \/ Slow
  /\ past'.undead = past.undead \/ Altering \/ Loading
  /\ past'.misled = past.misled \/ Forecasting \/ TellWeather
  /\ past'.overfed = past.overfed \/ Feeding \/ Restart
  /\ past'.ghosts = past.ghosts \/ Registering \/ MobsTick \/ Restart
  /\ past'.leaked = past.leaked \/ MobDies \/ Restart
  /\ past'.ousted = past.ousted \/ Mounting \/ Rising \/ Restart
  /\ past'.strayed = past.strayed \/ Mounting \/ Seating \/ Rising \/ Leaving \/ Restart

\* A kill may be put down to one who is gone; nothing else is noted.
LEMMA MobDiesNotes ==
  ASSUME Types, MobDies
  PROVE  \A x \in Marks \ {"leaked"} : past'[x] = past[x]
<1>1. PICK S, T : past' = Moved(past, S) \/ past' = [Moved(past, S) EXCEPT !.leaked = T]
  BY DEF MobDies
<1>2. Proper(Moved(past, S)) /\ \A x \in Marks : Moved(past, S)[x] = past[x]
  BY MovedKeeps DEF Types, PeopleTypes
<1>3. \A x \in Marks \ {"leaked"} : [Moved(past, S) EXCEPT !.leaked = T][x] = past[x]
  BY <1>2 DEF Proper, PastFields, Marks
<1> QED
  BY <1>1, <1>2, <1>3

\* No step changes a mark of the history, but for those it is about.
LEMMA MarksKept ==
  ASSUME LivesAssumption, Types, DeadOrAlive, OldHands, [Next]_vars
  PROVE  MarksGo
<1>0. Proper(past)
  BY DEF Types, PeopleTypes
<1>1. CASE Altering
  <2>1. CASE Alteration
    BY <1>1, <2>1, AlterationKeeps DEF MarksGo, Marks
  <2>2. CASE AtRest
    BY <2>2 DEF AtRest, MarksGo
  <2> QED
    BY <1>1, <2>1, <2>2, AlteringAlters
<1>2. ASSUME NEW u \in Thread, Flinch(u) PROVE MarksGo
  <2>1. UNCHANGED past \/ past' = Heard(past, u)
    BY <1>2 DEF Flinch
  <2>2. \A x \in Marks \ {"crossed"} : past'[x] = past[x]
    BY <1>0, <2>1, HeardNotes
  <2> QED
    BY <1>2, <2>2 DEF MarksGo, Marks, Hearing
<1>3. ASSUME NEW u \in Thread, DropAll(u) PROVE MarksGo
  <2>1. \A x \in Marks : past'[x] = past[x]
    BY <1>3, <1>0, MovedKeeps, CutKeeps DEF DropAll
  <2> QED
    BY <1>3, <2>1 DEF MarksGo, Marks
<1>4. ASSUME NEW u \in Thread, Spill(u) PROVE MarksGo
  <2>1. \A x \in Marks : past'[x] = past[x]
    BY <1>4, <1>0, MovedKeeps DEF Spill
  <2> QED
    BY <1>4, <2>1 DEF MarksGo, Marks
<1>5. ASSUME NEW u \in Thread, SendHealth(u) PROVE MarksGo
  <2>1. \A x \in Marks \ {"crossed"} : past'[x] = past[x]
    BY <1>5, <1>0, HeardNotes DEF SendHealth
  <2> QED
    BY <1>5, <2>1 DEF MarksGo, Marks, Hearing
<1>6. ASSUME NEW u \in Thread, register_villager(u) PROVE MarksGo
  <2>1. \A x \in Marks \ {"ghosts"} : past'[x] = past[x]
    BY <1>6, <1>0 DEF register_villager, Marks, Proper, PastFields
  <2> QED
    BY <1>6, <2>1 DEF MarksGo, Marks, Registering
<1>7. ASSUME NEW p \in Player, SetGamemode(p) PROVE MarksGo
  <2>1. \A x \in Marks \ {"milked"} : past'[x] = past[x]
    BY <1>7, <1>0, SlowedNotes DEF SetGamemode
  <2> QED
    BY <1>7, <2>1 DEF MarksGo, Marks, Slowing
<1>8. ASSUME NEW p \in Player, SwitchDimension(p) PROVE MarksGo
  <2>1. \A x \in Marks \ {"milked"} : past'[x] = past[x]
    BY <1>8, <1>0, SlowedNotes DEF SwitchDimension
  <2> QED
    BY <1>8, <2>1 DEF MarksGo, Marks, Slowing
<1>9. ASSUME NEW p \in Player, ApplyLasting(p) PROVE MarksGo
  <2>1. UNCHANGED past
    BY <1>9, ApplyLastingIs
  <2> QED
    BY <2>1 DEF MarksGo
<1>10. ASSUME NEW p \in Player, DrinkMilk(p) PROVE MarksGo
  <2>1. \A x \in Marks \ {"milked"} : past'[x] = past[x]
    BY <1>10, <1>0 DEF DrinkMilk, Marks, Proper, PastFields
  <2> QED
    BY <1>10, <2>1 DEF MarksGo, Marks, Milking
<1>11. ASSUME NEW p \in Player, Summon(p) PROVE MarksGo
  BY <1>11, SummonEnlists DEF Summon, MarksGo
<1>12. ASSUME NEW p \in Player, Seat(p) PROVE MarksGo
  <2>1. \A x \in Marks \ {"strayed"} : past'[x] = past[x]
    BY <1>12, <1>0 DEF Seat, Marks, Proper, PastFields
  <2> QED
    BY <1>12, <2>1 DEF MarksGo, Marks, Seating
<1>13. ASSUME NEW p \in Player, Rise(p) PROVE MarksGo
  <2>1. \A x \in Marks \ {"ousted", "strayed"} : past'[x] = past[x]
    BY <1>13, <1>0 DEF Rise, Marks, Proper, PastFields
  <2> QED
    BY <1>13, <2>1 DEF MarksGo, Marks, Rising
<1>14. ASSUME NEW p \in Player, Sleep(p) PROVE MarksGo
  <2>1. PICK t : set_time(t)
    BY <1>14 DEF Sleep
  <2>2. past' = [past EXCEPT !.clock = t, !.missed = Storing]
    BY <2>1 DEF set_time
  <2>3. \A x \in Marks : past'[x] = past[x]
    BY <1>0, <2>2 DEF Marks, Proper, PastFields
  <2> QED
    BY <2>3 DEF MarksGo, Marks
<1>15. ASSUME NEW p \in Player, Weather(p) PROVE MarksGo
  <2>1. \A x \in Marks \ {"misled"} : past'[x] = past[x]
    BY <1>15, <1>0 DEF Weather, Marks, Proper, PastFields
  <2> QED
    BY <1>15, <2>1 DEF MarksGo, Marks, Forecasting
<1>16. ASSUME NEW p \in Player, NEW b \in Body, Feed(p, b) PROVE MarksGo
  <2>1. \A x \in Marks \ {"overfed"} : past'[x] = past[x]
    BY <1>16, <1>0 DEF Feed, Marks, Proper, PastFields
  <2> QED
    BY <1>16, <2>1 DEF MarksGo, Marks, Feeding
<1>17. ASSUME NEW p \in Player, NEW v \in Boat, Mount(p, v) PROVE MarksGo
  <2>1. \A x \in Marks \ {"ousted", "strayed"} : past'[x] = past[x]
    BY <1>17, <1>0 DEF Mount, Marks, Proper, PastFields
  <2> QED
    BY <1>17, <2>1 DEF MarksGo, Marks, Mounting
<1>18. ASSUME NEW p \in Player, NEW t \in Thing, Stow(p, t) PROVE MarksGo
  <2>1. \A x \in Marks : past'[x] = past[x]
    BY <1>18, <1>0, MovedKeeps DEF Stow
  <2> QED
    BY <1>18, <2>1 DEF MarksGo, Marks
<1>19. ASSUME NEW p \in Player, NEW t \in Thing, Fetch(p, t) PROVE MarksGo
  <2>1. \A x \in Marks : past'[x] = past[x]
    BY <1>19, <1>0, IntoKeeps DEF Fetch
  <2> QED
    BY <1>19, <2>1 DEF MarksGo, Marks
<1>20. ASSUME NEW p \in Player, Load(p) PROVE MarksGo
  <2> DEFINE raw == IF apply_data(disk[user[p]]).health = 0 THEN [past EXCEPT !.undead = @ \cup {p}] ELSE past
  <2>1. \/ \E S : past' = Cut([raw EXCEPT !.twice = @ \cup {user[p]}], S)
        \/ \E S : past' = Cut(raw, S)
        \/ past' = raw
    BY <1>20 DEF Load
  <2>2. Proper(raw) /\ \A x \in Marks \ {"undead"} : raw[x] = past[x]
    BY <1>0 DEF Proper, PastFields, Marks
  <2> HIDE DEF raw
  <2>3. /\ Proper([raw EXCEPT !.twice = @ \cup {user[p]}])
        /\ \A x \in Marks \ {"undead"} : [raw EXCEPT !.twice = @ \cup {user[p]}][x] = past[x]
    BY <2>2 DEF Proper, PastFields, Marks
  <2> DEFINE again == [raw EXCEPT !.twice = @ \cup {user[p]}]
  <2> HIDE DEF again
  <2>4. PICK S : past' = Cut(again, S) \/ past' = Cut(raw, S) \/ past' = raw
    BY <2>1, Zenon DEF again
  <2>5. /\ Proper(again)
        /\ \A x \in Marks \ {"undead"} : again[x] = past[x]
    BY <2>3, Zenon DEF again
  <2>6. \A x \in Marks \ {"undead"} : past'[x] = past[x]
    <3>1. CASE past' = Cut(again, S)
      BY <2>5, <3>1, CutKeeps
    <3>2. CASE past' = Cut(raw, S)
      BY <2>2, <3>2, CutKeeps
    <3> QED
      BY <2>2, <2>4, <3>1, <3>2
  <2> QED
    BY <1>20, <2>6 DEF MarksGo, Marks, Loading
<1>21. ASSUME NEW p \in Player, Leave(p) PROVE MarksGo
  <2>1. PICK S, T : past' = [past EXCEPT !.strayed = S] \/ past' = Cut([past EXCEPT !.strayed = S], T)
    BY <1>21 DEF Leave
  <2>2. /\ Proper([past EXCEPT !.strayed = S])
        /\ \A x \in Marks \ {"strayed"} : [past EXCEPT !.strayed = S][x] = past[x]
    BY <1>0 DEF Proper, PastFields, Marks
  <2>3. \A x \in Marks \ {"strayed"} : past'[x] = past[x]
    BY <2>1, <2>2, CutKeeps
  <2> QED
    BY <1>21, <2>3 DEF MarksGo, Marks, Leaving
<1>22. ASSUME NEW p \in Player, SavePlayer(p) PROVE MarksGo
  <2>1. \A x \in Marks : past'[x] = past[x]
    BY <1>22, <1>0, CutKeeps DEF SavePlayer
  <2> QED
    BY <1>22, <2>1 DEF MarksGo, Marks
<1>23. CASE MobsTick
  <2>1. PICK S, T : UNCHANGED past \/ past' = [Written(past, S) EXCEPT !.ghosts = T]
    BY <1>23 DEF MobsTick
  <2>2. Proper(Written(past, S)) /\ \A x \in Marks : Written(past, S)[x] = past[x]
    BY <1>0, WrittenKeeps
  <2>3. \A x \in Marks \ {"ghosts"} : [Written(past, S) EXCEPT !.ghosts = T][x] = past[x]
    BY <2>2 DEF Proper, PastFields, Marks
  <2>4. \A x \in Marks \ {"ghosts"} : past'[x] = past[x]
    BY <2>1, <2>3
  <2> QED
    BY <1>23, <2>4 DEF MarksGo, Marks
<1>24. CASE MobDies
  <2>1. \A x \in Marks \ {"leaked"} : past'[x] = past[x]
    BY <1>24, MobDiesNotes
  <2> QED
    BY <1>24, <2>1 DEF MarksGo, Marks
<1>25. CASE MobLives
  <2>1. UNCHANGED past
    BY <1>25, Zenon DEF MobLives
  <2> QED
    BY <2>1 DEF MarksGo
<1>26. CASE Pair
  <2>1. PICK S : past' = Written(past, S)
    BY <1>26, Zenon DEF Pair
  <2>2. \A x \in Marks : past'[x] = past[x]
    BY <1>0, <2>1, WrittenKeeps
  <2> QED
    BY <2>2 DEF MarksGo, Marks
<1>27. CASE Spawn
  BY <1>27, SpawnEnlists DEF Spawn, MarksGo
<1>28. CASE ItemsTick
  <2>1. \A x \in Marks : past'[x] = past[x]
    BY <1>28, <1>0, MovedKeeps DEF ItemsTick
  <2> QED
    BY <1>28, <2>1 DEF MarksGo, Marks
<1>29. CASE Give
  <2>1. \A x \in Marks : past'[x] = past[x]
    BY <1>29, <1>0, IntoKeeps, CutKeeps DEF Give
  <2> QED
    BY <1>29, <2>1 DEF MarksGo, Marks
<1>30. CASE Rot
  <2>1. \A x \in Marks : past'[x] = past[x]
    BY <1>30, <1>0, WrittenKeeps DEF Rot
  <2> QED
    BY <1>30, <2>1 DEF MarksGo, Marks
<1>31. CASE Slow
  <2>1. \A x \in Marks \ {"milked"} : past'[x] = past[x]
    BY <1>31, <1>0, SlowedNotes DEF Slow
  <2> QED
    BY <1>31, <2>1 DEF MarksGo, Marks
<1>32. CASE Clock
  <2>1. \A x \in Marks : past'[x] = past[x]
    BY <1>32, <1>0 DEF Clock, Marks, Proper, PastFields
  <2> QED
    BY <1>32, <2>1 DEF MarksGo, Marks
<1>33. CASE TellWeather
  <2>1. \A x \in Marks \ {"misled"} : past'[x] = past[x]
    BY <1>33, <1>0 DEF TellWeather, Marks, Proper, PastFields
  <2> QED
    BY <1>33, <2>1 DEF MarksGo, Marks
<1>34. CASE SaveContainers
  <2>1. \A x \in Marks : past'[x] = past[x]
    BY <1>34, <1>0 DEF SaveContainers, Marks, Proper, PastFields
  <2> QED
    BY <1>34, <2>1 DEF MarksGo, Marks
<1>35. CASE Saved
  <2>1. PICK a, b : past' = [past EXCEPT !.safe = a, !.home = b]
    BY <1>35, Zenon DEF Saved
  <2>2. \A x \in Marks : past'[x] = past[x]
    BY <1>0, <2>1 DEF Marks, Proper, PastFields
  <2> QED
    BY <2>2 DEF MarksGo, Marks
<1>36. CASE Restart
  <2>1. PICK a, b, t, m :
          past' = [past EXCEPT !.cut = a, !.safe = b, !.clock = t, !.missed = m, !.stirred = {},
                     !.ghosts = {}, !.ousted = {}, !.strayed = {}, !.overfed = {}, !.leaked = {}]
    BY <1>36, RestartForgets
  <2>2. /\ past'.crossed = past.crossed /\ past'.milked = past.milked
        /\ past'.undead = past.undead /\ past'.misled = past.misled
    BY <1>0, <2>1 DEF Proper, PastFields
  <2> QED
    BY <1>36, <2>2 DEF MarksGo
<1>37. CASE MobDying \/ MobStrays \/ Baby \/ Forget \/ ArrowsTick \/ Pierce
  BY <1>37
  DEF MobDying, MobStrays, Baby, Forget, ArrowsTick, Pierce, elsewhere, course, beasts,
      saving, MarksGo
<1>38. CASE SavePut \/ SavePlayers \/ SaveMobs \/ SaveItems \/ SaveMeta
  BY <1>38
  DEF SavePut, SavePlayers, SaveMobs, SaveItems, SaveMeta, elsewhere, course, beasts, saving,
      MarksGo
<1>39. ASSUME NEW p \in Player,
            AddSpeed(p) \/ Shoot(p) \/ Dismount(p) \/ Enter(p) \/ WriteFile(p)
            \/ remove_player(p) \/ Clear(p)
     PROVE  MarksGo
  BY <1>39
  DEF AddSpeed, Shoot, Dismount, Enter, WriteFile, remove_player, Clear, elsewhere, course,
      beasts, saving, MarksGo, people, stores
<1>40. ASSUME NEW p \in Player, NEW b \in Body, Attack(p, b) PROVE MarksGo
  BY <1>40 DEF Attack, elsewhere, course, beasts, saving, MarksGo, people, stores
<1>41. CASE Regenerate \/ HungerTick \/ EffectsTick \/ Affect \/ Wane \/ Store \/ Flip
  BY <1>41
  DEF Regenerate, HungerTick, EffectsTick, Affect, Wane, Store, Flip, elsewhere, course,
      beasts, saving, MarksGo, people, stores, Round
<1>42. CASE UNCHANGED vars
  BY <1>42 DEF vars, people, beasts, stores, course, MarksGo
<1> QED
  BY <1>1, <1>2, <1>3, <1>4, <1>5, <1>6, <1>7, <1>8, <1>9, <1>10, <1>11, <1>12, <1>13,
     <1>14, <1>15, <1>16, <1>17, <1>18, <1>19, <1>20, <1>21, <1>22, <1>23, <1>24, <1>25,
     <1>26, <1>27, <1>28, <1>29, <1>30, <1>31, <1>32, <1>33, <1>34, <1>35, <1>36, <1>37,
     <1>38, <1>39, <1>40, <1>41, <1>42
  DEF Next, Altering

Dropping  == \E u \in Thread : DropAll(u)
Spilling  == \E u \in Thread : Spill(u)
Stowing   == \E p \in Player, t \in Thing : Stow(p, t)
Fetching  == \E p \in Player, t \in Thing : Fetch(p, t)
Affecting == \E p \in Player : ApplyLasting(p) \/ AddSpeed(p)
Same(f) == \A q \in Player : self'[q][f] = self[q][f]

\* Of a player ...
SelfGoes ==
  /\ (Same("health") /\ Same("food") /\ Same("dead")) \/ Altering \/ Loading \/ Restart
  /\ Same("riding") \/ Seating \/ Dismounting \/ Loading \/ Restart
  /\ Same("effect") \/ Affecting \/ Milking \/ Wane \/ Clearing \/ Loading \/ Restart
  /\ Same("pack") \/ Dropping \/ Stowing \/ Fetching \/ Give \/ Loading \/ Restart
  /\ Same("file") \/ Leaving \/ Clearing \/ Loading \/ Restart
  /\ Same("at") \/ Loading \/ Entering \/ Leaving \/ Departing \/ Clearing \/ Restart

\* No step changes a field of a player, but for those it is about.
LEMMA WhatBecomesOfPlayers ==
  ASSUME LivesAssumption, Types, DeadOrAlive, OldHands, [Next]_vars
  PROVE  SelfGoes
<1>0. self \in [Player -> Self] /\ \A q \in Player : self[q] \in Self
  BY DEF Types, PeopleTypes
<1>1. CASE Altering
  <2>1. CASE Alteration
    BY <1>1, <2>1, AlterationKeeps DEF SelfGoes, Same
  <2>2. CASE AtRest
    BY <2>2 DEF AtRest, people, SelfGoes, Same
  <2> QED
    BY <1>1, <2>1, <2>2, AlteringAlters
<1>2. CASE Aside
  BY <1>2, AsideLeaves DEF Left, SelfGoes, Same
<1>3. ASSUME NEW u \in Thread, DropAll(u) PROVE SelfGoes
  <2>1. PICK p, S : self' = [self EXCEPT ![p].pack = S]
    BY <1>3 DEF DropAll
  <2>2. /\ Same("health") /\ Same("food") /\ Same("dead")
        /\ Same("riding") /\ Same("effect") /\ Same("at")
        /\ Same("file")
    BY <1>0, <2>1 DEF Same
  <2> QED
    BY <1>3, <2>2 DEF SelfGoes, Dropping
<1>4. ASSUME NEW p \in Player, SetGamemode(p) PROVE SelfGoes
  <2>1. PICK S : self' = [self EXCEPT ![p].creative = S]
    BY <1>4 DEF SetGamemode
  <2>2. /\ Same("health") /\ Same("food") /\ Same("dead")
        /\ Same("riding") /\ Same("effect") /\ Same("at")
        /\ Same("pack") /\ Same("file")
    BY <1>0, <2>1 DEF Same
  <2> QED
    BY <1>4, <2>2 DEF SelfGoes
<1>5. ASSUME NEW p \in Player, ApplyLasting(p) PROVE SelfGoes
  <2>1. CASE Hastening(p)
    BY <2>1 DEF Hastening, SelfGoes, Same
  <2>2. CASE Lasting(p)
    <3>1. PICK f : self' = [self EXCEPT ![p].effect = f]
      BY <2>2 DEF Lasting
    <3>2. /\ Same("health") /\ Same("food") /\ Same("dead")
          /\ Same("riding") /\ Same("at")
          /\ Same("pack") /\ Same("file")
      BY <1>0, <3>1 DEF Same
    <3> QED
      BY <1>5, <3>2 DEF SelfGoes, Affecting
  <2> QED
    BY <1>5, <2>1, <2>2, ApplyLastingIs
<1>6. ASSUME NEW p \in Player, AddSpeed(p) PROVE SelfGoes
  <2>1. PICK S : self' = [self EXCEPT ![p].effect = S]
    BY <1>6 DEF AddSpeed
  <2>2. /\ Same("health") /\ Same("food") /\ Same("dead")
        /\ Same("riding") /\ Same("at")
        /\ Same("pack") /\ Same("file")
    BY <1>0, <2>1 DEF Same
  <2> QED
    BY <1>6, <2>2 DEF SelfGoes, Affecting
<1>7. ASSUME NEW p \in Player, DrinkMilk(p) PROVE SelfGoes
  <2>1. self' = [self EXCEPT ![p].effect = Calm]
    BY <1>7 DEF DrinkMilk
  <2>2. /\ Same("health") /\ Same("food") /\ Same("dead")
        /\ Same("riding") /\ Same("at")
        /\ Same("pack") /\ Same("file")
    BY <1>0, <2>1 DEF Same
  <2> QED
    BY <1>7, <2>2 DEF SelfGoes, Milking
<1>8. ASSUME NEW p \in Player, Summon(p) PROVE SelfGoes
  BY <1>8, SummonEnlists DEF Summon, people, SelfGoes, Same
<1>9. ASSUME NEW p \in Player, Seat(p) PROVE SelfGoes
  <2>1. PICK v : self' = [self EXCEPT ![p].riding = v]
    BY <1>9 DEF Seat
  <2>2. /\ Same("health") /\ Same("food") /\ Same("dead")
        /\ Same("effect") /\ Same("at")
        /\ Same("pack") /\ Same("file")
    BY <1>0, <2>1 DEF Same
  <2> QED
    BY <1>9, <2>2 DEF SelfGoes, Seating
<1>10. ASSUME NEW p \in Player, Dismount(p) PROVE SelfGoes
  <2>1. self' = [self EXCEPT ![p].riding = None]
    BY <1>10 DEF Dismount
  <2>2. /\ Same("health") /\ Same("food") /\ Same("dead")
        /\ Same("effect") /\ Same("at")
        /\ Same("pack") /\ Same("file")
    BY <1>0, <2>1 DEF Same
  <2> QED
    BY <1>10, <2>2 DEF SelfGoes, Dismounting
<1>11. ASSUME NEW p \in Player, NEW t \in Thing, Stow(p, t) PROVE SelfGoes
  <2>1. PICK S : self' = [self EXCEPT ![p].pack = S]
    BY <1>11 DEF Stow
  <2>2. /\ Same("health") /\ Same("food") /\ Same("dead")
        /\ Same("riding") /\ Same("effect") /\ Same("at")
        /\ Same("file")
    BY <1>0, <2>1 DEF Same
  <2> QED
    BY <1>11, <2>2 DEF SelfGoes, Stowing
<1>12. ASSUME NEW p \in Player, NEW t \in Thing, Fetch(p, t) PROVE SelfGoes
  <2>1. PICK S : self' = [self EXCEPT ![p].pack = S]
    BY <1>12 DEF Fetch
  <2>2. /\ Same("health") /\ Same("food") /\ Same("dead")
        /\ Same("riding") /\ Same("effect") /\ Same("at")
        /\ Same("file")
    BY <1>0, <2>1 DEF Same
  <2> QED
    BY <1>12, <2>2 DEF SelfGoes, Fetching
<1>13. ASSUME NEW p \in Player, Load(p) PROVE SelfGoes
  BY <1>13 DEF SelfGoes, Loading
<1>14. ASSUME NEW p \in Player, Enter(p) PROVE SelfGoes
  <2>1. self' = [self EXCEPT ![p].at = "play"]
    BY <1>14 DEF Enter
  <2>2. /\ Same("health") /\ Same("food") /\ Same("dead")
        /\ Same("riding") /\ Same("effect")
        /\ Same("pack") /\ Same("file")
    BY <1>0, <2>1 DEF Same
  <2> QED
    BY <1>14, <2>2 DEF SelfGoes, Entering
<1>15. ASSUME NEW p \in Player, Leave(p) PROVE SelfGoes
  <2>1. self' = [self EXCEPT ![p].at = "saving", ![p].file = snapshot_data(self[p])]
    BY <1>15 DEF Leave
  <2>2. /\ Same("health") /\ Same("food") /\ Same("dead")
        /\ Same("riding") /\ Same("effect")
        /\ Same("pack")
    BY <1>0, <2>1 DEF Same
  <2> QED
    BY <1>15, <2>2 DEF SelfGoes, Leaving
<1>16. ASSUME NEW p \in Player, WriteFile(p) PROVE SelfGoes
  <2>1. self' = [self EXCEPT ![p].at = "saved"]
    BY <1>16 DEF WriteFile
  <2>2. /\ Same("health") /\ Same("food") /\ Same("dead")
        /\ Same("riding") /\ Same("effect")
        /\ Same("pack") /\ Same("file")
    BY <1>0, <2>1 DEF Same
  <2> QED
    BY <1>16, <2>2 DEF SelfGoes, Departing
<1>17. ASSUME NEW p \in Player, remove_player(p) PROVE SelfGoes
  <2>1. self' = [self EXCEPT ![p].at = "left"]
    BY <1>17 DEF remove_player
  <2>2. /\ Same("health") /\ Same("food") /\ Same("dead")
        /\ Same("riding") /\ Same("effect")
        /\ Same("pack") /\ Same("file")
    BY <1>0, <2>1 DEF Same
  <2> QED
    BY <1>17, <2>2 DEF SelfGoes, Departing
<1>18. ASSUME NEW p \in Player, Clear(p) PROVE SelfGoes
  <2>1. self' = [self EXCEPT ![p].at = "gone", ![p].effect = Calm, ![p].file = None]
    BY <1>18 DEF Clear
  <2>2. /\ Same("health") /\ Same("food") /\ Same("dead")
        /\ Same("riding")
        /\ Same("pack")
    BY <1>0, <2>1 DEF Same
  <2> QED
    BY <1>18, <2>2 DEF SelfGoes, Clearing
<1>19. CASE Spawn
  BY <1>19, SpawnEnlists DEF Spawn, people, SelfGoes, Same
<1>20. CASE Give
  <2>1. PICK p, S : self' = [self EXCEPT ![p].pack = S]
    BY <1>20 DEF Give
  <2>2. /\ Same("health") /\ Same("food") /\ Same("dead")
        /\ Same("riding") /\ Same("effect") /\ Same("at")
        /\ Same("file")
    BY <1>0, <2>1 DEF Same
  <2> QED
    BY <1>20, <2>2 DEF SelfGoes
<1>21. CASE Wane
  <2>1. PICK p, S : self' = [self EXCEPT ![p].effect = S]
    BY <1>21 DEF Wane
  <2>2. /\ Same("health") /\ Same("food") /\ Same("dead")
        /\ Same("riding") /\ Same("at")
        /\ Same("pack") /\ Same("file")
    BY <1>0, <2>1 DEF Same
  <2> QED
    BY <1>21, <2>2 DEF SelfGoes
<1>22. CASE Restart
  BY <1>22 DEF SelfGoes
<1>23. ASSUME NEW u \in Thread,
            Flinch(u) \/ Spill(u) \/ SendHealth(u) \/ register_villager(u)
     PROVE  SelfGoes
  BY <1>23
  DEF Flinch, Spill, SendHealth, register_villager, elsewhere, course, beasts, saving,
      SelfGoes, Same, people
<1>24. ASSUME NEW p \in Player, SwitchDimension(p) \/ Rise(p) \/ Weather(p)
     PROVE  SelfGoes
  BY <1>24
  DEF SwitchDimension, Rise, Weather, elsewhere, course, beasts, saving, SelfGoes, Same,
      people
<1>25. ASSUME NEW p \in Player, NEW v \in Boat, Mount(p, v) PROVE SelfGoes
  BY <1>25 DEF Mount, elsewhere, course, beasts, saving, SelfGoes, Same, people
<1>26. CASE Slow \/ TellWeather
  BY <1>26
  DEF Slow, TellWeather, elsewhere, course, beasts, saving, SelfGoes, Same, people
<1> QED
  BY <1>1, <1>2, <1>3, <1>4, <1>5, <1>6, <1>7, <1>8, <1>9, <1>10, <1>11, <1>12, <1>13,
     <1>14, <1>15, <1>16, <1>17, <1>18, <1>19, <1>20, <1>21, <1>22, <1>23, <1>24, <1>25,
     <1>26
  DEF Next, Altering, Aside

\* ... and of the tables.
TablesGo ==
  /\ \/ UNCHANGED mob \/ Attacking \/ Feeding \/ Summoning \/ MobsTick \/ MobDying \/ MobDies
     \/ MobLives \/ Pair \/ Baby \/ Spawn \/ Pierce \/ Restart
  /\ UNCHANGED known \/ Registering \/ Forget \/ Restart
  /\ UNCHANGED rider \/ Mounting \/ Rising \/ Restart
  /\ UNCHANGED records \/ MobDies \/ Clearing \/ Restart
  /\ UNCHANGED table \/ Entering \/ Departing \/ Restart
  /\ tick'.remove = tick.remove \/ MobsTick \/ MobDying \/ MobStrays \/ Forget \/ Restart
  /\ tick'.lovers = tick.lovers \/ MobsTick \/ MobLives \/ Restart
  /\ sky'.raining = sky.raining \/ Flip \/ Restart

\* No step changes a table, but for those it is about.
LEMMA WhatBecomesOfTables ==
  ASSUME LivesAssumption, Types, DeadOrAlive, OldHands, [Next]_vars
  PROVE  TablesGo
<1>0. tick \in Tick /\ sky \in [time : Nat, raining : BOOLEAN]
  BY DEF Types, LoopTypes
<1> USE DEF Tick
<1>1. CASE Altering
  <2>1. CASE Alteration
    BY <2>1, AlterationKeeps DEF TablesGo, beasts
  <2>2. CASE AtRest
    BY <2>2 DEF AtRest, people, beasts, TablesGo
  <2> QED
    BY <1>1, <2>1, <2>2, AlteringAlters
<1>2. ASSUME NEW u \in Thread, register_villager(u) PROVE TablesGo
  BY <1>2, <1>0
  DEF register_villager, elsewhere, beasts, course, people, TablesGo, Registering
<1>3. ASSUME NEW p \in Player, ApplyLasting(p) PROVE TablesGo
  <2>1. UNCHANGED elsewhere
    BY <1>3, ApplyLastingIs
  <2> QED
    BY <2>1 DEF elsewhere, TablesGo, beasts, course
<1>4. ASSUME NEW p \in Player, Summon(p) PROVE TablesGo
  <2>1. UNCHANGED <<people, known, rider, tick, sky>>
    BY <1>4 DEF Summon, course
  <2> QED
    BY <1>4, <2>1 DEF TablesGo, Summoning, people
<1>5. ASSUME NEW p \in Player, Rise(p) PROVE TablesGo
  <2>1. UNCHANGED <<people, mob, known, course>>
    BY <1>5 DEF Rise
  <2> QED
    BY <1>5, <2>1 DEF TablesGo, people, beasts, course, Rising
<1>6. ASSUME NEW p \in Player, Sleep(p) PROVE TablesGo
  <2>1. PICK t : set_time(t)
    BY <1>6 DEF Sleep
  <2>2. sky'.raining = sky.raining
    BY <1>0, <2>1 DEF set_time
  <2>3. UNCHANGED <<people, beasts, tick>>
    BY <1>6 DEF Sleep
  <2> QED
    BY <2>2, <2>3 DEF TablesGo, people, beasts
<1>7. ASSUME NEW p \in Player, NEW b \in Body, Attack(p, b) PROVE TablesGo
  BY <1>7, <1>0 DEF Attack, elsewhere, beasts, course, people, TablesGo, Attacking
<1>8. ASSUME NEW p \in Player, NEW b \in Body, Feed(p, b) PROVE TablesGo
  BY <1>8, <1>0 DEF Feed, elsewhere, beasts, course, people, TablesGo, Feeding
<1>9. ASSUME NEW p \in Player, NEW v \in Boat, Mount(p, v) PROVE TablesGo
  <2>1. UNCHANGED <<people, mob, known, course>>
    BY <1>9 DEF Mount
  <2> QED
    BY <1>9, <2>1 DEF TablesGo, people, beasts, course, Mounting
<1>10. ASSUME NEW p \in Player, Enter(p) PROVE TablesGo
  BY <1>10, <1>0 DEF Enter, elsewhere, beasts, course, people, TablesGo, Entering
<1>11. ASSUME NEW p \in Player, WriteFile(p) PROVE TablesGo
  BY <1>11, <1>0 DEF WriteFile, elsewhere, beasts, course, people, TablesGo, Departing
<1>12. ASSUME NEW p \in Player, remove_player(p) PROVE TablesGo
  BY <1>12, <1>0
  DEF remove_player, elsewhere, beasts, course, people, TablesGo, Departing
<1>13. ASSUME NEW p \in Player, Clear(p) PROVE TablesGo
  <2>1. UNCHANGED <<table, beasts, course>>
    BY <1>13 DEF Clear
  <2> QED
    BY <1>13, <2>1 DEF TablesGo, people, beasts, course, Clearing
<1>14. CASE MobsTick
  BY <1>14, <1>0 DEF MobsTick, people, beasts, course, TablesGo
<1>15. CASE MobDying
  BY <1>15, <1>0 DEF MobDying, people, beasts, course, TablesGo
<1>16. CASE MobDies
  <2>1. UNCHANGED <<table, known, rider, sky, tick>>
    BY <1>16 DEF MobDies
  <2> QED
    BY <1>16, <2>1 DEF TablesGo, people, beasts, course
<1>17. CASE MobStrays
  BY <1>17, <1>0 DEF MobStrays, people, beasts, course, TablesGo
<1>18. CASE MobLives
  <2>1. UNCHANGED <<people, known, rider, sky>>
    BY <1>18, Zenon DEF MobLives
  <2>2. PICK S : tick' = [tick EXCEPT !.lovers = S]
    BY <1>18, Zenon DEF MobLives
  <2>3. tick'.remove = tick.remove
    BY <1>0, <2>2
  <2> QED
    BY <1>18, <2>1, <2>3 DEF TablesGo, people
<1>19. CASE Pair
  <2>1. UNCHANGED <<people, known, rider, tick, sky>>
    BY <1>19, Zenon DEF Pair
  <2> QED
    BY <1>19, <2>1 DEF TablesGo, people
<1>20. CASE Baby
  BY <1>20, <1>0 DEF Baby, people, beasts, course, TablesGo
<1>21. CASE Forget
  BY <1>21, <1>0 DEF Forget, people, beasts, course, TablesGo
<1>22. CASE Spawn
  <2>1. UNCHANGED <<people, known, rider, tick, sky>>
    BY <1>22 DEF Spawn, course
  <2> QED
    BY <1>22, <2>1 DEF TablesGo, people
<1>23. CASE Pierce
  BY <1>23, <1>0 DEF Pierce, people, beasts, course, TablesGo
<1>24. CASE Store
  BY <1>24, <1>0 DEF Store, people, beasts, course, TablesGo
<1>25. CASE Flip
  BY <1>25, <1>0 DEF Flip, people, beasts, course, TablesGo
<1>26. CASE Restart
  BY <1>26 DEF TablesGo
<1>27. ASSUME NEW u \in Thread, Flinch(u) \/ DropAll(u) \/ Spill(u) \/ SendHealth(u)
     PROVE  TablesGo
  BY <1>27
  DEF Flinch, DropAll, Spill, SendHealth, elsewhere, course, beasts, saving, TablesGo, people
<1>28. ASSUME NEW p \in Player, Load(p) \/ Leave(p) PROVE TablesGo
  BY <1>28 DEF Leave, Load, elsewhere, course, beasts, saving, TablesGo, people
<1>29. CASE ItemsTick \/ Rot \/ ArrowsTick
  BY <1>29
  DEF ItemsTick, ArrowsTick, Rot, elsewhere, course, beasts, saving, TablesGo, people
<1>30. CASE SaveContainers \/ SavePut \/ SavePlayers \/ SaveMobs \/ SaveItems
            \/ SaveMeta \/ Saved
  BY <1>30
  DEF SavePut, SavePlayers, SaveMobs, SaveItems, SaveMeta, SaveContainers, Saved, elsewhere,
      course, beasts, saving, TablesGo, people
<1>31. ASSUME NEW p \in Player,
            SetGamemode(p) \/ SwitchDimension(p) \/ AddSpeed(p) \/ DrinkMilk(p)
            \/ Shoot(p) \/ Seat(p) \/ Dismount(p) \/ Weather(p) \/ SavePlayer(p)
     PROVE  TablesGo
  BY <1>31
  DEF SetGamemode, SwitchDimension, AddSpeed, DrinkMilk, Shoot, Seat, Dismount, Weather,
      SavePlayer, elsewhere, course, beasts, saving, TablesGo, people
<1>32. ASSUME NEW p \in Player, NEW t \in Thing, Stow(p, t) \/ Fetch(p, t)
     PROVE  TablesGo
  BY <1>32 DEF Stow, Fetch, elsewhere, course, beasts, saving, TablesGo, people
<1>33. CASE Give \/ Regenerate \/ HungerTick \/ EffectsTick \/ Affect \/ Wane \/ Slow
            \/ Clock \/ TellWeather
  BY <1>33
  DEF Give, Regenerate, HungerTick, EffectsTick, Affect, Wane, Slow, Clock, TellWeather,
      elsewhere, course, beasts, saving, TablesGo, people, Round
<1>34. CASE UNCHANGED vars
  BY <1>34 DEF vars, people, beasts, stores, course, TablesGo
<1> QED
  BY <1>1, <1>2, <1>3, <1>4, <1>5, <1>6, <1>7, <1>8, <1>9, <1>10, <1>11, <1>12, <1>13,
     <1>14, <1>15, <1>16, <1>17, <1>18, <1>19, <1>20, <1>21, <1>22, <1>23, <1>24, <1>25,
     <1>26, <1>27, <1>28, <1>29, <1>30, <1>31, <1>32, <1>33, <1>34
  DEF Next, Altering

\* What a living mob becomes in a tick.
LEMMA MobLivesDoes ==
  ASSUME MobLives
  PROVE  LET c == Head(todo).on
             m == Aged(mob[c])
         IN  /\ m.dying = None /\ UNCHANGED past
             /\ \/ mob' = [mob EXCEPT ![c] = m]
                \/ mob' = [mob EXCEPT ![c] = [m EXCEPT !.health = 0]]
                \/ mob' = [mob EXCEPT ![c] = [m EXCEPT !.ready = AttackRest]]
  BY Zenon DEF MobLives

(***************************************************************************)
(* Where things are.                                                       *)
(***************************************************************************)

\* Thing t is accounted for no more.
Given(t) == t \in past.cut \cup past.lost

\* A user's pack, with those of its connections that count or else in its file; a mob
\* that has the thing; and the loop that is to give it.
Packed(t, v) == \/ \E p \in Player : user[p] = v /\ Holds(p) /\ t \in self[p].pack
                \/ (\A p \in Player : user[p] = v => ~Holds(p)) /\ t \in Filed(v)
Has(b, t) == mob[b].at = "here" /\ mob[b].loot = t
Due(t)    == \E i \in DOMAIN todo : todo[i].do = "give" /\ todo[i].arg = t

\* Thing t is in spot x of kind k, and in no other.
At(t, k, x) ==
  \/ k = "pack" /\ x \in User /\ Packed(t, x)
  \/ k = "mob" /\ x \in Body /\ Has(x, t)
  \/ k = "bag" /\ x \in Thread /\ t \in step[x].bag
  \/ k = "ground" /\ x = None /\ t \in ground
  \/ k = "chest" /\ x = None /\ t \in chest
  \/ k = "due" /\ x = None /\ Due(t)
Sole(t) == \E k, x : \A j, y : At(t, j, y) <=> j = k /\ y = x

\* A thing that still counts is in a pack as in what was or is to be saved of it: two
\* connections of one user, and their file, have none.
Stored(v) == IF disk[v] \in {None, Torn} THEN {} ELSE disk[v].pack
FilesAgree(t) ==
  \A v \in User : saver.file = v /\ disk[v] \notin {None, Torn} => (t \in disk[v].pack <=> t \in saver.data.pack)
PackAgrees(t, p) ==
  /\ self[p].at \in {"joining", "saved"} => (t \in self[p].pack <=> t \in Filed(user[p]))
  /\ self[p].at = "saving" => /\ t \in self[p].pack <=> t \in self[p].file.pack
                              /\ saver.file = user[p] => (t \in self[p].pack <=> t \in saver.data.pack)
  /\ user[p] \in past.twice /\ Holds(p) => t \notin self[p].pack
TwiceBare(t) == \A v \in User : v \in past.twice => t \notin Filed(v) /\ t \notin Stored(v)
Alike(t) == FilesAgree(t) /\ (\A p \in Player : PackAgrees(t, p)) /\ TwiceBare(t)

\* A thing that has lain still since the save began, and still counts.
Quiet(t) == t \notin past.stirred \cup past.cut \cup past.lost

\* The save has come to file f, and done with it or begun it.
Covered(f) ==
  \/ f = "containers" /\ saver.at # "idle"
  \/ f = "entities" /\ saver.at \in {"entities", "meta"}
  \/ f \in User /\ \/ saver.at \in {"mobs", "entities", "meta"}
                   \/ saver.at = "players" /\ \A p \in saver.left : user[p] # f

\* The spots that are saved, the file of each, and what data d in it says of thing t.
Lying(k, x) == (k = "pack" /\ x \in User) \/ (k = "mob" /\ x \in Body) \/ (k \in {"ground", "chest"} /\ x = None)
FileFor(k, x) == IF k = "pack" THEN x ELSE IF k = "chest" THEN "containers" ELSE "entities"
Says(d, t, k, x) ==
  \/ k = "pack" /\ t \in d.pack
  \/ k = "mob" /\ \E m \in d.mobs : m.body = x /\ m.loot = t
  \/ k = "ground" /\ t \in d.items
  \/ k = "chest" /\ t \in d
OnDisk(t, k, x) == disk[FileFor(k, x)] # None /\ Says(disk[FileFor(k, x)], t, k, x)

\* What is saved of such a thing is where it is.
RestsAt(t, k, x) ==
  /\ disk[FileFor(k, x)] # Torn => (OnDisk(t, k, x) <=> At(t, k, x))
  /\ saver.file = FileFor(k, x) => (Says(saver.data, t, k, x) <=> At(t, k, x))
RestsMobs(t) == saver.at = "mobs" => \A b \in Body : Has(b, t) <=> \E m \in saver.data : m.body = b /\ m.loot = t
RestsLeft(t) == \A p \in saver.left : t \in self[p].pack <=> Packed(t, user[p])
Rests(t) ==
  /\ \A k, x : Lying(k, x) /\ (t \in past.safe \/ Covered(FileFor(k, x))) => RestsAt(t, k, x)
  /\ RestsMobs(t) /\ RestsLeft(t)
Homed(t) == past.home[t] = Places(t) /\ Places(t) # {}

\* How thing t fares.
Fares(t) ==
  /\ ~Given(t) => Sole(t) /\ Alike(t)
  /\ Quiet(t) => Rests(t)
  /\ t \in past.safe => Quiet(t) /\ Homed(t)

\* Two connections of a user at once are noted; the table has those in the game, or
\* leaving; the saver goes through the files in order; a thing is given once; and only a
\* thread that is to spill something has something.
TwiceNoted == \A p, q \in Player : p # q /\ user[p] = user[q] /\ Holds(p) /\ Holds(q) => user[p] \in past.twice
TableTrue  == \A p \in Player : p \in table <=> self[p].at \in {"play", "saving", "saved"}
SaverInOrder ==
  /\ saver.left # {} => saver.at = "players"
  /\ \A p \in saver.left : Known(p)
  /\ saver.at \in {"idle", "mobs"} => saver.file = None
  /\ saver.file # None => disk[saver.file] # None
  /\ saver.file \in User => saver.at = "players"
  /\ saver.file = "containers" => saver.at = "containers"
  /\ saver.file = "entities" => saver.at = "entities"
  /\ saver.file = "meta" <=> saver.at = "meta"
GivenOnce ==
  \A i, j \in DOMAIN todo : todo[i].do = "give" /\ todo[j].do = "give" /\ todo[i].arg = todo[j].arg => i = j
EmptyHanded == \A u \in Thread : step[u].at # "spilling" => step[u].bag = {}
SafeThings  == past.safe \subseteq Thing
Order == TwiceNoted /\ TableTrue /\ SaverInOrder /\ GivenOnce /\ EmptyHanded /\ SafeThings

\* The clock is stored, as noted, before the loop does anything else.
ClockNoted ==
  \A i \in DOMAIN todo : todo[i].do = "store" => i = 1 /\ (past.missed \/ todo[i].arg = past.clock)

ThingsInv == Order /\ (\A t \in Thing : Fares(t)) /\ ClockNoted /\ ClockIsKept

(***************************************************************************)
(* What each step does to where things are.                                *)
(***************************************************************************)

Sleeping == \E p \in Player : Sleep(p)
Saving == \/ \E p \in Player : SavePlayer(p)
          \/ SaveContainers \/ SavePut \/ SavePlayers \/ SaveMobs \/ SaveItems \/ SaveMeta \/ Saved
Handling == \/ Dropping \/ Spilling \/ Stowing \/ Fetching
            \/ MobsTick \/ MobDies \/ Pair \/ ItemsTick \/ Give \/ Rot

\* What lies about, and what is saved, is moved by the steps it is about.
StoresGo ==
  /\ UNCHANGED ground \/ Spilling \/ MobDies \/ ItemsTick \/ Rot \/ Restart
  /\ UNCHANGED chest \/ Stowing \/ Fetching \/ Restart
  /\ UNCHANGED disk \/ Leaving \/ Departing \/ Saving
  /\ UNCHANGED saver \/ Saving \/ Restart
  /\ sky'.time = sky.time \/ Sleeping \/ Store \/ Restart

\* No step moves anything there but those.
LEMMA WhatBecomesOfStores ==
  ASSUME LivesAssumption, Types, DeadOrAlive, OldHands, [Next]_vars
  PROVE  StoresGo
<1>0. sky \in [time : Nat, raining : BOOLEAN]
  BY DEF Types, LoopTypes
<1>1. CASE Altering
  <2>1. CASE Alteration
    BY <2>1, AlterationKeeps DEF StoresGo, stores
  <2>2. CASE AtRest
    BY <2>2 DEF AtRest, stores, StoresGo
  <2> QED
    BY <1>1, <2>1, <2>2, AlteringAlters
<1>2. ASSUME NEW u \in Thread, Flinch(u) \/ SendHealth(u) \/ register_villager(u)
      PROVE  StoresGo
  BY <1>2, Zenon DEF Flinch, SendHealth, register_villager, elsewhere, course, stores, StoresGo
<1>3. ASSUME NEW u \in Thread, DropAll(u) PROVE StoresGo
  BY <1>3, Zenon DEF DropAll, elsewhere, course, stores, StoresGo
<1>4. ASSUME NEW u \in Thread, Spill(u) PROVE StoresGo
  BY <1>4, Zenon DEF Spill, course, StoresGo, Spilling
<1>5. ASSUME NEW p \in Player,
             SetGamemode(p) \/ SwitchDimension(p) \/ ApplyLasting(p) \/ AddSpeed(p) \/ DrinkMilk(p)
             \/ Shoot(p) \/ Summon(p) \/ Seat(p) \/ Dismount(p) \/ Rise(p) \/ Weather(p)
      PROVE  StoresGo
  BY <1>5, Zenon
  DEF SetGamemode, SwitchDimension, ApplyLasting, AddSpeed, DrinkMilk, Shoot, Summon, Seat, Dismount,
      Rise, Weather, elsewhere, course, stores, StoresGo
<1>6. ASSUME NEW p \in Player, Load(p) \/ Enter(p) \/ Clear(p) PROVE StoresGo
  BY <1>6, Zenon DEF Load, Enter, Clear, elsewhere, course, stores, StoresGo
<1>7. ASSUME NEW p \in Player, Leave(p) PROVE StoresGo
  BY <1>7, Zenon DEF Leave, course, StoresGo, Leaving
<1>8. ASSUME NEW p \in Player, WriteFile(p) PROVE StoresGo
  BY <1>8, Zenon DEF WriteFile, course, StoresGo, Departing
<1>9. ASSUME NEW p \in Player, remove_player(p) PROVE StoresGo
  BY <1>9, Zenon DEF remove_player, course, stores, StoresGo
<1>10. ASSUME NEW p \in Player, NEW b \in Body, Attack(p, b) \/ Feed(p, b) PROVE StoresGo
  BY <1>10, Zenon DEF Attack, Feed, course, stores, StoresGo
<1>11. ASSUME NEW p \in Player, NEW v \in Boat, Mount(p, v) PROVE StoresGo
  BY <1>11, Zenon DEF Mount, course, stores, StoresGo
<1>12. ASSUME NEW p \in Player, NEW t \in Thing, Stow(p, t) PROVE StoresGo
  BY <1>12, Zenon DEF Stow, course, StoresGo, Stowing
<1>13. ASSUME NEW p \in Player, NEW t \in Thing, Fetch(p, t) PROVE StoresGo
  BY <1>13, Zenon DEF Fetch, course, StoresGo, Fetching
<1>14. ASSUME NEW p \in Player, Sleep(p) PROVE StoresGo
  BY <1>14, Zenon DEF Sleep, stores, StoresGo, Sleeping
<1>15. CASE MobsTick \/ MobDying \/ MobStrays \/ MobLives \/ Pair \/ Baby \/ Forget \/ Spawn
            \/ Give \/ ArrowsTick \/ Pierce \/ Regenerate \/ HungerTick \/ EffectsTick
            \/ Affect \/ Wane \/ Slow \/ TellWeather \/ Clock
  BY <1>15, Zenon
  DEF MobsTick, MobDying, MobStrays, MobLives, Pair, Baby, Forget, Spawn, Give, ArrowsTick, Pierce,
      Regenerate, HungerTick, EffectsTick, Round, Affect, Wane, Slow, TellWeather, Clock, course,
      stores, StoresGo
<1>16. CASE Store
  BY <1>16, Zenon DEF Store, stores, StoresGo
<1>17. CASE Flip
  BY <1>0, <1>17 DEF Flip, stores, StoresGo
<1>18. CASE MobDies
  BY <1>18, Zenon DEF MobDies, StoresGo
<1>19. CASE ItemsTick
  BY <1>19, Zenon DEF ItemsTick, StoresGo
<1>20. CASE Rot
  BY <1>20, Zenon DEF Rot, course, StoresGo
<1>21. CASE Restart
  BY <1>21, Zenon DEF Restart, StoresGo
<1>22. CASE Saving
  <2>1. UNCHANGED <<ground, chest, sky>>
    BY <1>22, Zenon DEF Saving, SavePlayer, SaveContainers, SavePut, SavePlayers, SaveMobs, SaveItems,
                        SaveMeta, Saved, saving, course
  <2> QED
    BY <1>22, <2>1 DEF StoresGo
<1>23. CASE UNCHANGED vars
  BY <1>23 DEF vars, stores, course, StoresGo
<1> QED
  BY <1>1, <1>2, <1>3, <1>4, <1>5, <1>6, <1>7, <1>8, <1>9, <1>10, <1>11, <1>12, <1>13,
     <1>14, <1>15, <1>16, <1>17, <1>18, <1>19, <1>20, <1>21, <1>22, <1>23
  DEF Next, Altering, Saving

\* What mobs have is moved by the steps it is about; those that come have nothing.
LootStays(b) == \/ mob'[b].at = mob[b].at /\ mob'[b].loot = mob[b].loot
                \/ mob[b].at # "here" /\ mob'[b].loot = None
LootsGo == \/ MobsTick \/ MobDies \/ Pair \/ Restart
           \/ \A b \in Body : LootStays(b)

\* A mob that is enlisted has nothing.
LEMMA EnlistedHasNothing ==
  ASSUME LivesAssumption, Types, NEW u \in Thread, Enlisting(u)
  PROVE  \A b \in Body : LootStays(b)
<1>1. PICK c \in Body, k \in Kind : mob[c] = Unborn /\ mob' = [mob EXCEPT ![c] = Born(k, None)]
  BY DEF Enlisting
<1>2. Unborn.at = "unborn" /\ Born(k, None).loot = None
  BY DEF Unborn, Born
<1> QED
  BY <1>1, <1>2 DEF LootStays, Types, BeastTypes

\* One mob is changed, and keeps what it has.
LEMMA OneMobKeeps ==
  ASSUME Types, NEW c, NEW m, mob' = [mob EXCEPT ![c] = m],
         c \in Body => m.at = mob[c].at /\ m.loot = mob[c].loot
  PROVE  \A b \in Body : LootStays(b)
  BY DEF LootStays, Types, BeastTypes

\* No other step moves what mobs have.
LEMMA WhatBecomesOfLoot ==
  ASSUME LivesAssumption, Types, DeadOrAlive, OldHands, [Next]_vars
  PROVE  LootsGo
<1>0. mob \in [Body -> Creature] /\ Creature \subseteq Mob
  BY DEF Types, BeastTypes, Creature
<1>1. UNCHANGED mob => LootsGo
  BY DEF LootsGo, LootStays
<1>2. ASSUME NEW p \in Player, NEW c \in Body, Attack(p, c) PROVE LootsGo
  <2>1. PICK n \in Blow : mob' = [mob EXCEPT ![c].health = MaxOf(0, @ - n)]
    BY <1>2, Zenon DEF Attack
  <2>2. mob' = [mob EXCEPT ![c] = [mob[c] EXCEPT !.health = MaxOf(0, mob[c].health - n)]]
    BY <1>0, <2>1
  <2>3. [mob[c] EXCEPT !.health = MaxOf(0, mob[c].health - n)].at = mob[c].at
        /\ [mob[c] EXCEPT !.health = MaxOf(0, mob[c].health - n)].loot = mob[c].loot
    BY <1>0 DEF Mob
  <2>4. \A b \in Body : LootStays(b)
    BY <2>2, <2>3, OneMobKeeps
  <2> QED
    BY <2>4 DEF LootsGo
<1>3. ASSUME NEW p \in Player, NEW c \in Body, Feed(p, c) PROVE LootsGo
  <2>1. \E n : mob' = [mob EXCEPT ![c].age = n] \/ mob' = [mob EXCEPT ![c].love = n]
    BY <1>3, Zenon DEF Feed
  <2>2. PICK n : mob' = [mob EXCEPT ![c].age = n] \/ mob' = [mob EXCEPT ![c].love = n]
    BY <2>1
  <2>3. \A b \in Body : LootStays(b)
    BY <1>0, <2>2 DEF LootStays, Mob
  <2> QED
    BY <2>3 DEF LootsGo
<1>4. ASSUME NEW p \in Player, Summon(p) PROVE LootsGo
  BY <1>4, SummonEnlists, EnlistedHasNothing DEF LootsGo, Thread
<1>5. CASE Spawn
  BY <1>1, <1>5, SpawnEnlists, EnlistedHasNothing DEF LootsGo, Thread
<1>6. CASE MobDying
  <2>1. PICK c, n : mob' = [mob EXCEPT ![c].dying = n]
    BY <1>6, Zenon DEF MobDying
  <2>2. \A b \in Body : LootStays(b)
    BY <1>0, <2>1 DEF LootStays, Mob
  <2> QED
    BY <2>2 DEF LootsGo
<1>7. CASE MobLives
  <2> DEFINE c == Head(todo).on
             m == Aged(mob[c])
  <2>1. \/ mob' = [mob EXCEPT ![c] = m]
        \/ mob' = [mob EXCEPT ![c] = [m EXCEPT !.health = 0]]
        \/ mob' = [mob EXCEPT ![c] = [m EXCEPT !.ready = AttackRest]]
    BY <1>7, MobLivesDoes
  <2>2. ASSUME c \in Body PROVE m \in Mob /\ m.at = mob[c].at /\ m.loot = mob[c].loot
    BY <1>0, <2>2, AgedTyped
  <2> HIDE DEF m, c
  <2>3. PICK n : /\ mob' = [mob EXCEPT ![c] = n]
                 /\ c \in Body => n.at = mob[c].at /\ n.loot = mob[c].loot
    BY <2>1, <2>2 DEF Mob
  <2> QED
    BY <2>3, OneMobKeeps DEF LootsGo
<1>8. CASE Baby
  <2>1. \/ UNCHANGED mob
        \/ \E c \in Body :
             /\ mob[c] = Unborn
             /\ mob' = [mob EXCEPT ![c] = [Born(Head(todo).on, None) EXCEPT !.baby = TRUE, !.age = GrowTicks]]
    BY <1>8, Zenon DEF Baby
  <2>2. ASSUME NEW c \in Body, mob[c] = Unborn,
               mob' = [mob EXCEPT ![c] = [Born(Head(todo).on, None) EXCEPT !.baby = TRUE, !.age = GrowTicks]]
        PROVE  LootsGo
    <3>1. /\ Unborn.at = "unborn"
          /\ [Born(Head(todo).on, None) EXCEPT !.baby = TRUE, !.age = GrowTicks].loot = None
      BY DEF Unborn, Born
    <3>2. \A b \in Body : LootStays(b)
      BY <1>0, <2>2, <3>1 DEF LootStays
    <3> QED
      BY <3>2 DEF LootsGo
  <2> QED
    BY <1>1, <2>1, <2>2
<1>9. CASE Pierce
  <2>1. UNCHANGED mob \/ \E c, n : mob' = [mob EXCEPT ![c].health = n]
    BY <1>9, Zenon DEF Pierce
  <2>2. ASSUME NEW c, NEW n, mob' = [mob EXCEPT ![c].health = n] PROVE LootsGo
    <3>1. \A b \in Body : LootStays(b)
      BY <1>0, <2>2 DEF LootStays, Mob
    <3> QED
      BY <3>1 DEF LootsGo
  <2> QED
    BY <1>1, <2>1, <2>2
<1>10. TablesGo
  BY WhatBecomesOfTables
<1>11. UNCHANGED mob \/ Attacking \/ Feeding \/ Summoning \/ MobDying \/ MobLives \/ Baby \/ Spawn \/ Pierce
       \/ MobsTick \/ MobDies \/ Pair \/ Restart
  BY <1>10 DEF TablesGo
<1>12. MobsTick \/ MobDies \/ Pair \/ Restart => LootsGo
  BY DEF LootsGo
<1> QED
  BY <1>1, <1>2, <1>3, <1>4, <1>5, <1>6, <1>7, <1>8, <1>9, <1>11, <1>12
  DEF Attacking, Feeding, Summoning

(***************************************************************************)
(* What each step notes of the things and of the clock.                    *)
(***************************************************************************)

Hours == {"clock", "missed"}

\* Things that move are noted as stirred, and safe no more.
LEMMA MovedFates ==
  ASSUME NEW h, Proper(h), NEW S
  PROVE  /\ \A x \in Fates \ {"stirred", "safe"} : Moved(h, S)[x] = h[x]
         /\ Moved(h, S).stirred = h.stirred \cup S /\ Moved(h, S).safe = h.safe \ S
  BY DEF Moved, Proper, PastFields, Fates

\* So are things gone for good, which are lost ...
LEMMA WrittenFates ==
  ASSUME NEW h, Proper(h), NEW S
  PROVE  /\ \A x \in Fates \ {"stirred", "safe", "lost"} : Written(h, S)[x] = h[x]
         /\ Written(h, S).stirred = h.stirred \cup S /\ Written(h, S).safe = h.safe \ S
         /\ Written(h, S).lost = h.lost \cup S
  BY DEF Written, Moved, Proper, PastFields, Fates

\* ... and things saved in two places or in none, which are cut off.
LEMMA CutFates ==
  ASSUME NEW h, Proper(h), NEW S
  PROVE  /\ \A x \in Fates \ {"stirred", "safe", "cut"} : Cut(h, S)[x] = h[x]
         /\ Cut(h, S).stirred = h.stirred \cup S /\ Cut(h, S).safe = h.safe \ S
         /\ Cut(h, S).cut = h.cut \cup S
  BY DEF Cut, Moved, Proper, PastFields, Fates

\* Things that come into a pack move, and are cut off if there are two packs.
LEMMA IntoFates ==
  ASSUME NEW h, Proper(h), NEW p, NEW S
  PROVE  /\ \A x \in Fates \ {"stirred", "safe", "cut"} : Into(h, p, S)[x] = h[x]
         /\ Into(h, p, S).stirred = h.stirred \cup S /\ Into(h, p, S).safe = h.safe \ S
         /\ user[p] \in h.twice => Into(h, p, S).cut = h.cut \cup S
         /\ user[p] \notin h.twice => Into(h, p, S).cut = h.cut
<1>1. CASE user[p] \in h.twice
  <2>1. Into(h, p, S) = Cut(h, S)
    BY <1>1 DEF Into
  <2> QED
    BY <1>1, <2>1, CutFates
<1>2. CASE user[p] \notin h.twice
  <2>1. Into(h, p, S) = Moved(h, S)
    BY <1>2 DEF Into
  <2>2. Moved(h, S).cut = h.cut
    BY MovedFates DEF Fates
  <2> QED
    BY <1>2, <2>1, <2>2, MovedFates
<1> QED
  BY <1>1, <1>2

\* They leave the hours alone.
LEMMA IntoHours ==
  ASSUME NEW h, Proper(h), NEW p, NEW S
  PROVE  \A x \in Hours : Into(h, p, S)[x] = h[x]
<1>1. \A x \in Hours : x \in Fates \ {"stirred", "safe", "cut"}
  BY DEF Hours, Fates
<1> QED
  BY <1>1, IntoFates

FatesGo ==
  /\ (\A x \in Fates \ Hours : past'[x] = past[x]) \/ Handling \/ Loading \/ Leaving \/ Saving \/ Restart
  /\ (\A x \in Hours : past'[x] = past[x]) \/ Sleeping \/ Clock \/ Restart

\* A history whose fates are all the same.
LEMMA AllFatesSame ==
  ASSUME \A x \in Fates : past'[x] = past[x]
  PROVE  FatesGo
  BY DEF FatesGo, Fates, Hours

\* One whose hours are, after a step that handles things.
LEMMA HoursSame ==
  ASSUME Handling \/ Loading \/ Leaving \/ Saving, \A x \in Hours : past'[x] = past[x]
  PROVE  FatesGo
  BY DEF FatesGo

\* What a newcomer's history notes.
LEMMA LoadFates ==
  ASSUME Types, NEW p \in Player, Load(p)
  PROVE  /\ \A x \in Fates \ {"stirred", "safe", "cut", "twice"} : past'[x] = past[x]
         /\ Siblings(p) # {} =>
              LET S == apply_data(disk[user[p]]).pack \cup Filed(user[p]) \cup Packs(Siblings(p))
              IN  /\ past'.twice = past.twice \cup {user[p]}
                  /\ past'.stirred = past.stirred \cup S /\ past'.safe = past.safe \ S
                  /\ past'.cut = past.cut \cup S
         /\ Siblings(p) = {} =>
              LET S == IF disk[user[p]] = Torn THEN Filed(user[p]) ELSE {}
              IN  /\ past'.twice = past.twice
                  /\ past'.stirred = past.stirred \cup S /\ past'.safe = past.safe \ S
                  /\ past'.cut = past.cut \cup S
<1>0. Proper(past)
  BY DEF Types, PeopleTypes
<1> DEFINE raw   == IF apply_data(disk[user[p]]).health = 0 THEN [past EXCEPT !.undead = @ \cup {p}] ELSE past
           again == [raw EXCEPT !.twice = @ \cup {user[p]}]
           pack  == apply_data(disk[user[p]]).pack
           S     == pack \cup Filed(user[p]) \cup Packs(Siblings(p))
<1>1. past' = IF Siblings(p) # {} THEN Cut(again, S)
              ELSE IF disk[user[p]] = Torn THEN Cut(raw, Filed(user[p])) ELSE raw
  BY Zenon DEF Load
<1>2. Proper(raw) /\ \A x \in Fates : raw[x] = past[x]
  BY <1>0 DEF Proper, PastFields, Fates
<1> HIDE DEF raw
<1>3. /\ Proper(again) /\ \A x \in Fates \ {"twice"} : again[x] = past[x]
      /\ again.twice = past.twice \cup {user[p]}
  BY <1>2 DEF Proper, PastFields, Fates
<1> HIDE DEF again, S
<1>4. CASE Siblings(p) # {}
  <2>1. past' = Cut(again, S)
    BY <1>1, <1>4
  <2> QED
    BY <1>3, <1>4, <2>1, CutFates DEF S, Fates
<1>5. CASE Siblings(p) = {} /\ disk[user[p]] = Torn
  BY <1>1, <1>2, <1>5, CutFates DEF Fates
<1>6. CASE Siblings(p) = {} /\ disk[user[p]] # Torn
  BY <1>1, <1>2, <1>6 DEF Fates
<1> QED
  BY <1>4, <1>5, <1>6

\* What is noted when a player leaves.
LEMMA LeaveFates ==
  ASSUME Types, NEW p \in Player, Leave(p)
  PROVE  LET S == IF saver.file = user[p] THEN Differ(saver.data.pack, self[p].pack) ELSE {}
         IN  /\ \A x \in Fates \ {"stirred", "safe", "cut"} : past'[x] = past[x]
             /\ past'.stirred = past.stirred \cup S /\ past'.safe = past.safe \ S
             /\ past'.cut = past.cut \cup S
<1>0. Proper(past)
  BY DEF Types, PeopleTypes
<1> DEFINE h == [past EXCEPT !.strayed = @ \cup {<<p, v>> : v \in {w \in Boat : rider[w] = p}}]
<1>1. past' = IF saver.file = user[p] THEN Cut(h, Differ(saver.data.pack, self[p].pack)) ELSE h
  BY Zenon DEF Leave
<1>2. Proper(h) /\ \A x \in Fates : h[x] = past[x]
  BY <1>0 DEF Proper, PastFields, Fates
<1> HIDE DEF h
<1>3. CASE saver.file = user[p]
  BY <1>1, <1>2, <1>3, CutFates DEF Fates
<1>4. CASE saver.file # user[p]
  BY <1>1, <1>2, <1>4 DEF Fates
<1> QED
  BY <1>3, <1>4

\* A kill moves loot, at most.
LEMMA MobDiesFates ==
  ASSUME Types, MobDies
  PROVE  LET loot == {mob[Head(todo).on].loot} \ {None}
         IN  /\ \A x \in Fates \ {"stirred", "safe"} : past'[x] = past[x]
             /\ past'.stirred = past.stirred \cup loot /\ past'.safe = past.safe \ loot
<1> DEFINE loot == {mob[Head(todo).on].loot} \ {None}
<1>1. PICK T : past' = Moved(past, loot) \/ past' = [Moved(past, loot) EXCEPT !.leaked = T]
  BY DEF MobDies
<1>2. /\ \A x \in Fates \ {"stirred", "safe"} : Moved(past, loot)[x] = past[x]
      /\ Moved(past, loot).stirred = past.stirred \cup loot /\ Moved(past, loot).safe = past.safe \ loot
      /\ Proper(Moved(past, loot))
  BY MovedFates, MovedKeeps DEF Types, PeopleTypes
<1> HIDE DEF loot
<1>3. \A x \in Fates : [Moved(past, loot) EXCEPT !.leaked = T][x] = Moved(past, loot)[x]
  BY <1>2 DEF Proper, PastFields, Fates
<1>4. \A x \in Fates : past'[x] = Moved(past, loot)[x]
  BY <1>1, <1>3
<1>5. \A x \in Fates \ {"stirred", "safe"} : past'[x] = past[x]
  BY <1>2, <1>4
<1>6. past'.stirred = past.stirred \cup loot /\ past'.safe = past.safe \ loot
  BY <1>2, <1>4 DEF Fates
<1> QED
  BY <1>5, <1>6 DEF loot

\* No step notes anything of things or of the clock, but for those it is about.
LEMMA FatesKept ==
  ASSUME LivesAssumption, Types, DeadOrAlive, OldHands, [Next]_vars
  PROVE  FatesGo
<1>0. Proper(past)
  BY DEF Types, PeopleTypes
<1>1. CASE Altering
  <2>1. CASE Alteration
    BY <1>1, <2>1, AlterationKeeps, AllFatesSame
  <2>2. CASE AtRest
    BY <2>2, AllFatesSame DEF AtRest
  <2> QED
    BY <1>1, <2>1, <2>2, AlteringAlters
<1>2. ASSUME NEW u \in Thread, Flinch(u) PROVE FatesGo
  <2>1. \A x \in Fates : past'[x] = past[x]
    BY <1>2, <1>0, HeardNotes DEF Flinch
  <2> QED
    BY <2>1, AllFatesSame
<1>3. ASSUME NEW u \in Thread, SendHealth(u) PROVE FatesGo
  <2>1. \A x \in Fates : past'[x] = past[x]
    BY <1>3, <1>0, HeardNotes DEF SendHealth
  <2> QED
    BY <2>1, AllFatesSame
<1>4. ASSUME NEW u \in Thread, DropAll(u) PROVE FatesGo
  <2>1. \A x \in Hours : past'[x] = past[x]
    BY <1>4, <1>0, MovedFates, CutFates DEF DropAll, Fates, Hours
  <2> QED
    BY <1>4, <2>1, HoursSame DEF Handling, Dropping
<1>5. ASSUME NEW u \in Thread, Spill(u) PROVE FatesGo
  <2>1. \A x \in Hours : past'[x] = past[x]
    BY <1>5, <1>0, MovedFates DEF Spill, Fates, Hours
  <2> QED
    BY <1>5, <2>1, HoursSame DEF Handling, Spilling
<1>6. ASSUME NEW u \in Thread, register_villager(u) PROVE FatesGo
  <2>1. \A x \in Fates : past'[x] = past[x]
    BY <1>6, <1>0 DEF register_villager, Fates, Proper, PastFields
  <2> QED
    BY <2>1, AllFatesSame
<1>7. ASSUME NEW p \in Player, SetGamemode(p) PROVE FatesGo
  <2>1. \A x \in Fates : past'[x] = past[x]
    BY <1>7, <1>0, SlowedNotes DEF SetGamemode
  <2> QED
    BY <2>1, AllFatesSame
<1>8. ASSUME NEW p \in Player, SwitchDimension(p) PROVE FatesGo
  <2>1. \A x \in Fates : past'[x] = past[x]
    BY <1>8, <1>0, SlowedNotes DEF SwitchDimension
  <2> QED
    BY <2>1, AllFatesSame
<1>9. ASSUME NEW p \in Player, ApplyLasting(p) PROVE FatesGo
  <2>1. \A x \in Fates : past'[x] = past[x]
    BY <1>9, <1>0, ApplyLastingIs
  <2> QED
    BY <2>1, AllFatesSame
<1>10. ASSUME NEW p \in Player, DrinkMilk(p) PROVE FatesGo
  <2>1. \A x \in Fates : past'[x] = past[x]
    BY <1>10, <1>0 DEF DrinkMilk, Fates, Proper, PastFields
  <2> QED
    BY <2>1, AllFatesSame
<1>11. ASSUME NEW p \in Player, Summon(p) PROVE FatesGo
  <2>1. \A x \in Fates : past'[x] = past[x]
    BY <1>11, <1>0, SummonEnlists DEF Summon
  <2> QED
    BY <2>1, AllFatesSame
<1>12. ASSUME NEW p \in Player, Seat(p) PROVE FatesGo
  <2>1. \A x \in Fates : past'[x] = past[x]
    BY <1>12, <1>0 DEF Seat, Fates, Proper, PastFields
  <2> QED
    BY <2>1, AllFatesSame
<1>13. ASSUME NEW p \in Player, Rise(p) PROVE FatesGo
  <2>1. \A x \in Fates : past'[x] = past[x]
    BY <1>13, <1>0 DEF Rise, Fates, Proper, PastFields
  <2> QED
    BY <2>1, AllFatesSame
<1>14. ASSUME NEW p \in Player, Sleep(p) PROVE FatesGo
  <2>1. PICK t : set_time(t)
    BY <1>14 DEF Sleep
  <2>2. past' = [past EXCEPT !.clock = t, !.missed = Storing]
    BY <2>1 DEF set_time
  <2>3. \A x \in Fates \ Hours : past'[x] = past[x]
    BY <1>0, <2>2 DEF Fates, Hours, Proper, PastFields
  <2> QED
    BY <1>14, <2>3 DEF FatesGo, Sleeping
<1>15. ASSUME NEW p \in Player, Weather(p) PROVE FatesGo
  <2>1. \A x \in Fates : past'[x] = past[x]
    BY <1>15, <1>0 DEF Weather, Fates, Proper, PastFields
  <2> QED
    BY <2>1, AllFatesSame
<1>16. ASSUME NEW p \in Player, NEW b \in Body, Feed(p, b) PROVE FatesGo
  <2>1. \A x \in Fates : past'[x] = past[x]
    BY <1>16, <1>0 DEF Feed, Fates, Proper, PastFields
  <2> QED
    BY <2>1, AllFatesSame
<1>17. ASSUME NEW p \in Player, NEW v \in Boat, Mount(p, v) PROVE FatesGo
  <2>1. \A x \in Fates : past'[x] = past[x]
    BY <1>17, <1>0 DEF Mount, Fates, Proper, PastFields
  <2> QED
    BY <2>1, AllFatesSame
<1>18. ASSUME NEW p \in Player, NEW t \in Thing, Stow(p, t) PROVE FatesGo
  <2>1. \A x \in Hours : past'[x] = past[x]
    BY <1>18, <1>0, MovedFates DEF Stow, Fates, Hours
  <2> QED
    BY <1>18, <2>1, HoursSame DEF Handling, Stowing
<1>19. ASSUME NEW p \in Player, NEW t \in Thing, Fetch(p, t) PROVE FatesGo
  <2>1. \A x \in Hours : past'[x] = past[x]
    <3>1. past' = Into(past, p, {t})
      BY <1>19 DEF Fetch
    <3> QED
      BY <1>0, <3>1, IntoHours
  <2> QED
    BY <1>19, <2>1, HoursSame DEF Handling, Fetching
<1>20. ASSUME NEW p \in Player, Load(p) PROVE FatesGo
  <2>1. \A x \in Hours : past'[x] = past[x]
    BY <1>20, <1>0, LoadFates DEF Fates, Hours
  <2> QED
    BY <1>20, <2>1, HoursSame DEF Loading
<1>21. ASSUME NEW p \in Player, Leave(p) PROVE FatesGo
  <2>1. \A x \in Hours : past'[x] = past[x]
    BY <1>21, <1>0, LeaveFates DEF Fates, Hours
  <2> QED
    BY <1>21, <2>1, HoursSame DEF Leaving
<1>22. ASSUME NEW p \in Player, SavePlayer(p) PROVE FatesGo
  <2>1. \E S : past' = Cut(past, S) \/ past' = past
    BY <1>22, Zenon DEF SavePlayer
  <2>2. \A x \in Hours : past'[x] = past[x]
    BY <1>0, <2>1, CutFates DEF Fates, Hours
  <2> QED
    BY <1>22, <2>2, HoursSame DEF Saving
<1>23. CASE MobsTick
  <2>1. PICK S, T : UNCHANGED past \/ past' = [Written(past, S) EXCEPT !.ghosts = T]
    BY <1>23 DEF MobsTick
  <2>2. Proper(Written(past, S)) /\ \A x \in Hours : Written(past, S)[x] = past[x]
    BY <1>0, WrittenKeeps, WrittenFates DEF Fates, Hours
  <2>3. \A x \in Hours : [Written(past, S) EXCEPT !.ghosts = T][x] = past[x]
    BY <2>2 DEF Proper, PastFields, Hours
  <2> QED
    BY <1>23, <2>1, <2>3, HoursSame DEF Handling
<1>24. CASE MobDies
  <2>1. \A x \in Hours : past'[x] = past[x]
    BY <1>24, MobDiesFates DEF Fates, Hours
  <2> QED
    BY <1>24, <2>1, HoursSame DEF Handling
<1>25. CASE MobLives
  <2>1. UNCHANGED past
    BY <1>25, Zenon DEF MobLives
  <2> QED
    BY <2>1, AllFatesSame
<1>26. CASE Pair
  <2>1. PICK S : past' = Written(past, S)
    BY <1>26, Zenon DEF Pair
  <2>2. \A x \in Hours : past'[x] = past[x]
    BY <1>0, <2>1, WrittenFates DEF Fates, Hours
  <2> QED
    BY <1>26, <2>2, HoursSame DEF Handling
<1>27. CASE Spawn
  <2>1. \A x \in Fates : past'[x] = past[x]
    BY <1>27, <1>0, SpawnEnlists DEF Spawn
  <2> QED
    BY <2>1, AllFatesSame
<1>28. CASE ItemsTick
  <2>1. \A x \in Hours : past'[x] = past[x]
    BY <1>28, <1>0, MovedFates DEF ItemsTick, Fates, Hours
  <2> QED
    BY <1>28, <2>1, HoursSame DEF Handling
<1>29. CASE Give
  <2>1. \A x \in Hours : past'[x] = past[x]
    <3>1. \E p, S : past' = Into(past, p, S) \/ past' = Cut(past, S)
      BY <1>29 DEF Give
    <3> QED
      BY <1>0, <3>1, IntoHours, CutFates DEF Fates, Hours
  <2> QED
    BY <1>29, <2>1, HoursSame DEF Handling
<1>30. CASE Rot
  <2>1. \A x \in Hours : past'[x] = past[x]
    BY <1>30, <1>0, WrittenFates DEF Rot, Fates, Hours
  <2> QED
    BY <1>30, <2>1, HoursSame DEF Handling
<1>31. CASE Slow
  <2>1. \A x \in Fates : past'[x] = past[x]
    BY <1>31, <1>0, SlowedNotes DEF Slow
  <2> QED
    BY <2>1, AllFatesSame
<1>32. CASE Clock
  <2>1. \A x \in Fates \ Hours : past'[x] = past[x]
    BY <1>32, <1>0 DEF Clock, Fates, Hours, Proper, PastFields
  <2> QED
    BY <1>32, <2>1 DEF FatesGo
<1>33. CASE TellWeather
  <2>1. \A x \in Fates : past'[x] = past[x]
    BY <1>33, <1>0 DEF TellWeather, Fates, Proper, PastFields
  <2> QED
    BY <2>1, AllFatesSame
<1>34. CASE SaveContainers
  <2>1. \A x \in Hours : past'[x] = past[x]
    BY <1>34, <1>0 DEF SaveContainers, Hours, Proper, PastFields
  <2> QED
    BY <1>34, <2>1, HoursSame DEF Saving
<1>35. CASE Saved
  <2>1. PICK a, b : past' = [past EXCEPT !.safe = a, !.home = b]
    BY <1>35, Zenon DEF Saved
  <2>2. \A x \in Hours : past'[x] = past[x]
    BY <1>0, <2>1 DEF Hours, Proper, PastFields
  <2> QED
    BY <1>35, <2>2, HoursSame DEF Saving
<1>36. CASE Restart
  BY <1>36 DEF FatesGo
<1>37. CASE MobDying \/ MobStrays \/ Baby \/ Forget \/ ArrowsTick \/ Pierce \/ SavePut \/ SavePlayers
           \/ SaveMobs \/ SaveItems \/ SaveMeta \/ UNCHANGED vars
  <2>1. UNCHANGED past
    BY <1>37, Zenon DEF MobDying, MobStrays, Baby, Forget, ArrowsTick, Pierce, SavePut, SavePlayers,
      SaveMobs, SaveItems, SaveMeta, elsewhere, course, saving, vars
  <2> QED
    BY <2>1, AllFatesSame
<1>38. ASSUME NEW p \in Player,
             AddSpeed(p) \/ Shoot(p) \/ Dismount(p) \/ Enter(p) \/ WriteFile(p)
             \/ remove_player(p) \/ Clear(p)
      PROVE  FatesGo
  <2>1. UNCHANGED past
    BY <1>38, Zenon DEF AddSpeed, Shoot, Dismount, Enter, WriteFile, remove_player, Clear,
       elsewhere, course, saving, vars
  <2> QED
    BY <2>1, AllFatesSame
<1>39. ASSUME NEW p \in Player, NEW b \in Body, Attack(p, b) PROVE FatesGo
  <2>1. UNCHANGED past
    BY <1>39, Zenon DEF Attack, elsewhere, course, saving, vars
  <2> QED
    BY <2>1, AllFatesSame
<1>40. CASE Regenerate \/ HungerTick \/ EffectsTick \/ Affect \/ Wane \/ Store \/ Flip
  <2>1. UNCHANGED past
    BY <1>40, Zenon DEF Regenerate, HungerTick, EffectsTick, Affect, Wane, Store, Flip, Round,
       elsewhere, course, saving, vars
  <2> QED
    BY <2>1, AllFatesSame
<1> QED
  BY <1>1, <1>2, <1>3, <1>4, <1>5, <1>6, <1>7, <1>8, <1>9, <1>10, <1>11, <1>12, <1>13, <1>14,
     <1>15, <1>16, <1>17, <1>18, <1>19, <1>20, <1>21, <1>22, <1>23, <1>24, <1>25, <1>26, <1>27,
     <1>28, <1>29, <1>30, <1>31, <1>32, <1>33, <1>34, <1>35, <1>36, <1>37, <1>38, <1>39, <1>40
  DEF Next, Altering

(***************************************************************************)
(* What threads carry.                                                     *)
(***************************************************************************)

BagsGo == /\ \A u \in Thread : step'[u].at # "spilling" => step'[u].bag = {}
          /\ Dropping \/ Spilling \/ Restart \/ \A u \in Thread : step'[u].bag = step[u].bag

\* A thread that carries nothing goes on to something with nothing.
LEMMA OneEmptyHanded ==
  ASSUME Types, EmptyHanded, NEW u, NEW s, step' = [step EXCEPT ![u] = s],
         u \in Thread => s.bag = {} /\ step[u].at # "spilling"
  PROVE  BagsGo
  BY DEF BagsGo, EmptyHanded, Types, PeopleTypes

\* No step changes what a thread carries, but a drop and a spill.
LEMMA WhatIsCarried ==
  ASSUME LivesAssumption, Types, DeadOrAlive, OldHands, EmptyHanded, [Next]_vars
  PROVE  BagsGo
<1>0. step \in [Thread -> Step] /\ Player \subseteq Thread /\ Loop \in Thread
  BY DEF Types, PeopleTypes, Thread
<1>a. UNCHANGED step => BagsGo
  BY DEF BagsGo, EmptyHanded
<1>b. Still.bag = {} /\ \A x, v : [Still EXCEPT !.at = x, !.on = v].bag = {}
  BY DEF Still
<1>1. CASE Altering
  <2>1. CASE Alteration
    <3>1. \A v \in Thread :
            /\ step'[v].bag = step[v].bag \/ (step[v].at = "idle" /\ step'[v].bag = {})
            /\ step[v].at # "idle" => step'[v].at = step[v].at
            /\ step[v].at = "idle" /\ step'[v].at # "idle" => step'[v].at \in {"hurt", "telling"}
      BY <1>1, <2>1, AlterationKeeps
    <3>2. \A v \in Thread : step'[v].bag = step[v].bag
      BY <3>1 DEF EmptyHanded
    <3> QED
      BY <3>1, <3>2 DEF BagsGo, EmptyHanded
  <2>2. CASE AtRest
    BY <1>a, <2>2 DEF AtRest
  <2> QED
    BY <1>1, <2>1, <2>2, AlteringAlters
<1>2. ASSUME NEW u \in Thread, Flinch(u) PROVE BagsGo
  <2>1. /\ step[u].at # "spilling"
        /\ \/ step' = [step EXCEPT ![u] = Still]
           \/ step' = [step EXCEPT ![u] = IF @.died /\ ~KeepInventory
                                          THEN [Still EXCEPT !.at = "dropping", !.on = step[u].on] ELSE Still]
    BY <1>2 DEF Flinch
  <2>2. \/ step' = [step EXCEPT ![u] = Still]
        \/ step' = [step EXCEPT ![u] = [Still EXCEPT !.at = "dropping", !.on = step[u].on]]
    BY <2>1
  <2> QED
    BY <1>b, <2>1, <2>2, OneEmptyHanded
<1>3. ASSUME NEW u \in Thread, DropAll(u) PROVE BagsGo
  <2>1. PICK S : step' = [step EXCEPT ![u] = [Still EXCEPT !.at = "spilling", !.bag = S]]
    BY <1>3 DEF DropAll
  <2>2. [Still EXCEPT !.at = "spilling", !.bag = S].at = "spilling"
    BY DEF Still
  <2> QED
    BY <1>0, <1>3, <2>1, <2>2 DEF BagsGo, EmptyHanded, Dropping
<1>4. ASSUME NEW u \in Thread, Spill(u) PROVE BagsGo
  <2>1. step' = [step EXCEPT ![u] = Still]
    BY <1>4 DEF Spill
  <2> QED
    BY <1>0, <1>b, <1>4, <2>1 DEF BagsGo, EmptyHanded, Spilling
<1>5. ASSUME NEW u \in Thread, SendHealth(u) PROVE BagsGo
  <2>1. step' = [step EXCEPT ![u] = Still] /\ step[u].at # "spilling"
    BY <1>5 DEF SendHealth
  <2> QED
    BY <1>0, <1>b, <2>1, OneEmptyHanded
<1>6. ASSUME NEW u \in Thread, register_villager(u) PROVE BagsGo
  <2>1. step' = [step EXCEPT ![u] = Still] /\ step[u].at # "spilling"
    BY <1>6 DEF register_villager
  <2> QED
    BY <1>0, <1>b, <2>1, OneEmptyHanded
<1>7. ASSUME NEW p \in Player, ApplyLasting(p) PROVE BagsGo
  <2>1. CASE Hastening(p)
    <3>1. step' = [step EXCEPT ![p] = [Still EXCEPT !.at = "hastening", !.on = p]]
      BY <2>1 DEF Hastening
    <3>2. step[p].at = "idle"
      BY <1>7, Zenon DEF ApplyLasting, Free
    <3> QED
      BY <1>b, <3>1, <3>2, OneEmptyHanded
  <2>2. CASE Lasting(p)
    BY <1>a, <2>2 DEF Lasting
  <2> QED
    BY <1>7, <2>1, <2>2, ApplyLastingIs
<1>8. ASSUME NEW p \in Player, AddSpeed(p) PROVE BagsGo
  <2>1. step' = [step EXCEPT ![p] = Still] /\ step[p].at # "spilling"
    BY <1>8 DEF AddSpeed
  <2> QED
    BY <1>0, <1>b, <2>1, OneEmptyHanded
<1>9. ASSUME NEW p \in Player, Seat(p) PROVE BagsGo
  <2>1. step' = [step EXCEPT ![p] = Still] /\ step[p].at # "spilling"
    BY <1>9 DEF Seat
  <2> QED
    BY <1>0, <1>b, <2>1, OneEmptyHanded
<1>10. ASSUME NEW p \in Player, Rise(p) PROVE BagsGo
  <2>1. step' = [step EXCEPT ![p] = Still] /\ step[p].at # "spilling"
    BY <1>10 DEF Rise
  <2> QED
    BY <1>0, <1>b, <2>1, OneEmptyHanded
<1>11. ASSUME NEW p \in Player, Dismount(p) PROVE BagsGo
  <2>1. step' = [step EXCEPT ![p] = [Still EXCEPT !.at = "rising", !.on = self[p].riding]] /\ step[p].at = "idle"
    BY <1>11 DEF Dismount, Free
  <2> QED
    BY <1>b, <2>1, OneEmptyHanded
<1>12. ASSUME NEW p \in Player, NEW v \in Boat, Mount(p, v) PROVE BagsGo
  <2>1. step' = [step EXCEPT ![p] = [Still EXCEPT !.at = "mounting", !.on = v]] /\ step[p].at = "idle"
    BY <1>12 DEF Mount, Free
  <2> QED
    BY <1>b, <2>1, OneEmptyHanded
<1>13. ASSUME NEW u \in Thread, Enlisting(u), step[u].at = "idle" PROVE BagsGo
  <2>1. UNCHANGED step \/ \E b : step' = [step EXCEPT ![u] = [Still EXCEPT !.at = "naming", !.on = b]]
    BY <1>13 DEF Enlisting
  <2> QED
    BY <1>a, <1>b, <1>13, <2>1, OneEmptyHanded
<1>14. ASSUME NEW p \in Player, Summon(p) PROVE BagsGo
  <2>1. Enlisting(p) /\ step[p].at = "idle"
    BY <1>14, SummonEnlists DEF Summon, Free
  <2> QED
    BY <1>0, <1>13, <2>1
<1>15. CASE Spawn
  <2>1. (Enlisting(Loop) \/ UNCHANGED step) /\ step[Loop].at = "idle"
    BY <1>15, SpawnEnlists DEF Spawn, Do
  <2> QED
    BY <1>0, <1>a, <1>13, <2>1
<1>16. CASE Restart
  <2>1. step' = [u \in Thread |-> Still]
    BY <1>16, Zenon DEF Restart
  <2> QED
    BY <1>b, <1>16, <2>1 DEF BagsGo
<1>17. ASSUME NEW p \in Player,
             \/ SetGamemode(p) \/ SwitchDimension(p) \/ DrinkMilk(p) \/ Weather(p) \/ Load(p)
             \/ Enter(p) \/ Leave(p) \/ WriteFile(p) \/ remove_player(p) \/ Clear(p)
      PROVE  BagsGo
  <2>1. UNCHANGED step
    BY <1>17, Zenon DEF SetGamemode, SwitchDimension, DrinkMilk, Weather, Load, Enter, Leave, WriteFile,
      remove_player, Clear, elsewhere, course, saving, vars
  <2> QED
    BY <1>a, <2>1
<1>18. ASSUME NEW p \in Player, NEW t \in Thing, Stow(p, t) \/ Fetch(p, t) PROVE BagsGo
  <2>1. UNCHANGED step
    BY <1>18, Zenon DEF Stow, Fetch, elsewhere, course, saving, vars
  <2> QED
    BY <1>a, <2>1
<1>19. CASE Give \/ Wane \/ Slow \/ TellWeather
  <2>1. UNCHANGED step
    BY <1>19, Zenon DEF Give, Wane, Slow, TellWeather, elsewhere, course, saving, vars
  <2> QED
    BY <1>a, <2>1
<1>20. CASE Aside
  BY <1>a, <1>20, AsideLeaves DEF Left
<1> QED
  BY <1>1, <1>2, <1>3, <1>4, <1>5, <1>6, <1>7, <1>8, <1>9, <1>10, <1>11, <1>12, <1>13, <1>14,
     <1>15, <1>16, <1>17, <1>18, <1>19, <1>20
  DEF Next, Altering, Aside

(***************************************************************************)
(* What the loop is to give.                                               *)
(***************************************************************************)

\* Once the first job is done, what the others are to give is still to be given.
LEMMA DoneDue ==
  ASSUME todo \in Seq(AJob), todo # <<>>, NEW more \in Seq(AJob), New(more), Done(more), GivenOnce
  PROVE  /\ \A t : Due(t)' <=> \E k \in DOMAIN todo : k > 1 /\ todo[k].do = "give" /\ todo[k].arg = t
         /\ GivenOnce'
<1>1. /\ \A i \in DOMAIN todo' :
           \/ i \in DOMAIN more /\ todo'[i] = more[i]
           \/ \E k \in DOMAIN todo : k > 1 /\ i = Len(more) + k - 1 /\ todo'[i] = todo[k]
      /\ \A k \in DOMAIN todo :
           k > 1 => Len(more) + k - 1 \in DOMAIN todo' /\ todo'[Len(more) + k - 1] = todo[k]
  BY DoneJobs
<1>2. \A i \in DOMAIN more : more[i].do # "give"
  BY DEF New
<1>3. \A i \in DOMAIN todo' : todo'[i].do = "give" =>
        \E k \in DOMAIN todo : k > 1 /\ i = Len(more) + k - 1 /\ todo'[i] = todo[k]
  BY <1>1, <1>2
<1>4. ASSUME NEW t
      PROVE  Due(t)' <=> \E k \in DOMAIN todo : k > 1 /\ todo[k].do = "give" /\ todo[k].arg = t
  BY <1>1, <1>3 DEF Due
<1>5. GivenOnce'
  BY <1>3 DEF GivenOnce
<1> QED
  BY <1>4, <1>5

\* A tick of the items takes some from the ground, to give each once.
LEMMA ItemsTickTakes ==
  ASSUME LivesAssumption, Types, ItemsTick
  PROVE  /\ \E S \in SUBSET ground :
              /\ ground' = ground \ S /\ past' = Moved(past, S)
              /\ \A t : Due(t)' <=> t \in S
         /\ GivenOnce' /\ \A t : ~Due(t)
<1>0. PICK S \in SUBSET ground :
        /\ ground' = ground \ S /\ past' = Moved(past, S)
        /\ \E f : todo' = [i \in DOMAIN SetToSeq(S) |-> Job("give", f[SetToSeq(S)[i]], SetToSeq(S)[i])]
  BY DEF ItemsTick
<1>1. PICK f : todo' = [i \in DOMAIN SetToSeq(S) |-> Job("give", f[SetToSeq(S)[i]], SetToSeq(S)[i])]
  BY <1>0
<1>2. S \subseteq Thing /\ IsFiniteSet(S)
  BY LivesAssumption, FS_Subset DEF LivesAssumption, Types, FileTypes
<1> DEFINE n == Cardinality(S)
           s == SetToSeq(S)
<1>3. n \in Nat /\ ExistsBijection(1..n, S)
  BY <1>2, FS_CardinalityType
<1>4. PICK g \in [1..n -> S] : IsInjective(g)
  BY <1>3 DEF ExistsBijection, Bijection, Injection, IsInjective
<1>5. s \in [1..n -> S] /\ IsInjective(s)
  BY <1>4 DEF SetToSeq
<1>6. s \in Injection(1..n, S)
  BY <1>5 DEF Injection, IsInjective
<1> HIDE DEF n
<1>7. Cardinality(1..n) = n /\ IsFiniteSet(1..n)
  BY <1>3, FS_Interval
<1>8. s \in Surjection(1..n, S)
  BY <1>2, <1>6, <1>7, FS_Injection DEF n
<1>9. /\ todo' = [i \in 1..n |-> Job("give", f[s[i]], s[i])]
      /\ \A a, b \in 1..n : s[a] = s[b] => a = b
      /\ \A t \in S : \E a \in 1..n : s[a] = t
      /\ \A a \in 1..n : s[a] \in S
  <2>1. DOMAIN s = 1..n /\ \A a \in 1..n : s[a] \in S
    BY <1>5
  <2>2. todo' = [i \in 1..n |-> Job("give", f[s[i]], s[i])]
    BY <1>1, <2>1
  <2> QED
    BY <1>5, <1>8, <2>1, <2>2 DEF IsInjective, Surjection
<1> HIDE DEF s
<1>10. DOMAIN todo' = 1..n /\ \A i \in 1..n : todo'[i].do = "give" /\ todo'[i].arg = s[i]
  BY <1>9 DEF Job
<1>11. ASSUME NEW t PROVE Due(t)' <=> t \in S
  BY <1>9, <1>10 DEF Due
<1>12. GivenOnce'
  BY <1>9, <1>10 DEF GivenOnce
<1>13. todo = <<>>
  BY DEF ItemsTick, LoopFree
<1>14. ASSUME NEW t PROVE ~Due(t)
  BY <1>13 DEF Due
<1> QED
  BY <1>0, <1>11, <1>12, <1>14

\* What is given is due no more.
LEMMA GiveTakes ==
  ASSUME Types, GivenOnce, Give
  PROVE  LET t == Head(todo).arg
         IN  /\ t \in Thing /\ Head(todo).on \in Player
             /\ Due(t) /\ \A x : Due(x)' <=> Due(x) /\ x # t
<1> DEFINE t == Head(todo).arg
<1>1. todo \in Seq(AJob) /\ todo # <<>> /\ Head(todo).do = "give" /\ Done(<<>>)
  BY DEF Types, LoopTypes, Give, Do
<1>2. <<>> \in Seq(AJob) /\ New(<<>>)
  BY NoNewJob
<1>3. /\ Head(todo) \in AJob /\ Head(todo) = todo[1]
      /\ 1 \in DOMAIN todo /\ DOMAIN todo = 1..Len(todo) /\ Len(todo) \in Nat
  BY <1>1, FirstJob
<1>4. t \in Thing /\ Head(todo).on \in Player
  BY <1>1, <1>3, JobFields DEF PlayerJob
<1>5. Due(t)
  BY <1>1, <1>3 DEF Due
<1>6. ASSUME NEW x PROVE Due(x)' <=> Due(x) /\ x # t
  <2>1. Due(x)' <=> \E k \in DOMAIN todo : k > 1 /\ todo[k].do = "give" /\ todo[k].arg = x
    BY <1>1, <1>2, DoneDue
  <2>2. \A k \in DOMAIN todo : k > 1 <=> k # 1
    BY <1>3
  <2>3. \A k \in DOMAIN todo : todo[k].do = "give" => (todo[k].arg = t <=> k = 1)
    BY <1>1, <1>3 DEF GivenOnce
  <2> QED
    BY <2>1, <2>2, <2>3 DEF Due
<1> QED
  BY <1>4, <1>5, <1>6

DuesGo == /\ GivenOnce'
          /\ ItemsTick \/ Give \/ Restart \/ \A t : Due(t)' <=> Due(t)

\* No other step changes what is due.
LEMMA WhatIsDue ==
  ASSUME LivesAssumption, Types, OldHands, LoversTame, GivenOnce, [Next]_vars
  PROVE  DuesGo
<1>0. LoopGoes /\ todo \in Seq(AJob)
  BY LoopStep DEF Types, LoopTypes
<1>1. CASE UNCHANGED todo
  <2>1. ASSUME NEW t PROVE Due(t)' <=> Due(t)
    BY <1>1 DEF Due
  <2>2. GivenOnce'
    BY <1>1 DEF GivenOnce
  <2> QED
    BY <2>1, <2>2 DEF DuesGo
<1>2. CASE Starting
  <2>1. CASE ItemsTick
    BY <2>1, ItemsTickTakes DEF DuesGo
  <2>2. CASE ~ItemsTick
    <3>1. todo = <<>> /\ \A i \in DOMAIN todo' : todo'[i].do # "give"
      BY <1>2, <2>2 DEF Starting, LoopFree
    <3>2. ASSUME NEW t PROVE Due(t)' <=> Due(t)
      BY <3>1 DEF Due
    <3>3. GivenOnce'
      BY <3>1 DEF GivenOnce
    <3> QED
      BY <3>2, <3>3 DEF DuesGo
  <2> QED
    BY <2>1, <2>2
<1>3. CASE GoingOn
  <2>1. PICK more \in Seq(AJob) : New(more) /\ Done(more)
    BY <1>3 DEF GoingOn
  <2>2. todo # <<>> /\ (Head(todo).do = "give" => Give)
    BY <1>3 DEF GoingOn
  <2>3. GivenOnce' /\ \A t : Due(t)' <=> \E k \in DOMAIN todo : k > 1 /\ todo[k].do = "give" /\ todo[k].arg = t
    BY <1>0, <2>1, <2>2, DoneDue
  <2>4. Head(todo) = todo[1] /\ DOMAIN todo = 1..Len(todo) /\ Len(todo) \in Nat
    BY <1>0, <2>2, FirstJob
  <2>5. CASE Give
    BY <2>3, <2>5 DEF DuesGo
  <2>6. ASSUME ~Give, NEW t PROVE Due(t)' <=> Due(t)
    <3>1. \A k \in DOMAIN todo : todo[k].do = "give" => k > 1
      BY <2>2, <2>4, <2>6
    <3>2. Due(t)' <=> \E k \in DOMAIN todo : k > 1 /\ todo[k].do = "give" /\ todo[k].arg = t
      BY <2>3
    <3> QED
      BY <3>1, <3>2 DEF Due
  <2> QED
    BY <2>3, <2>5, <2>6 DEF DuesGo
<1>4. CASE Restart /\ todo' = <<>>
  <2>1. GivenOnce'
    BY <1>4 DEF GivenOnce
  <2> QED
    BY <1>4, <2>1 DEF DuesGo
<1> QED
  BY <1>0, <1>1, <1>2, <1>3, <1>4 DEF LoopGoes

(***************************************************************************)
(* What is noted of things only grows, but for what is safe.               *)
(***************************************************************************)

\* Things S, and no others, are noted as stirred, and may be as cut off or lost.
Stirs(S) ==
  /\ past'.stirred = past.stirred \cup S /\ past'.safe = past.safe \ S
  /\ past.cut \subseteq past'.cut /\ past'.cut \subseteq past.cut \cup S
  /\ past.lost \subseteq past'.lost /\ past'.lost \subseteq past.lost \cup S
  /\ past'.home = past.home

Grows ==
  /\ past.cut \subseteq past'.cut /\ past.lost \subseteq past'.lost /\ past.twice \subseteq past'.twice
  /\ past'.twice = past.twice \/ Loading
  /\ (past'.home = past.home /\ past'.safe \subseteq past.safe) \/ Saved
  /\ past.stirred \subseteq past'.stirred \/ SaveContainers \/ Restart
  /\ \A t \in past'.safe : t \notin past'.stirred \cup past'.cut \cup past'.lost

\* The history h that is to come notes things S.
LEMMA HistoryStirs ==
  ASSUME NEW h, Proper(h), \A x \in Fates \ {"twice"} : h[x] = past[x], NEW S,
         past' \in {Moved(h, S), Written(h, S), Cut(h, S)}
  PROVE  Stirs(S) /\ past'.twice = h.twice
<1>1. CASE past' = Moved(h, S)
  BY <1>1, MovedFates DEF Stirs, Fates
<1>2. CASE past' = Written(h, S)
  BY <1>2, WrittenFates DEF Stirs, Fates
<1>3. CASE past' = Cut(h, S)
  BY <1>3, CutFates DEF Stirs, Fates
<1> QED
  BY <1>1, <1>2, <1>3

\* So do those that are handled.
LEMMA HandlingStirs ==
  ASSUME LivesAssumption, Types, Handling
  PROVE  (\E S : Stirs(S)) /\ past'.twice = past.twice
<1>0. Proper(past) /\ \A x \in Fates \ {"twice"} : past[x] = past[x]
  BY DEF Types, PeopleTypes
<1>1. CASE \E S : past' \in {Moved(past, S), Written(past, S), Cut(past, S)}
  BY <1>0, <1>1, HistoryStirs
<1>2. ASSUME NEW u \in Thread, DropAll(u) \/ Spill(u)
      PROVE  \E S : past' \in {Moved(past, S), Written(past, S), Cut(past, S)}
  BY <1>2 DEF DropAll, Spill
<1>3. ASSUME NEW p \in Player, NEW t \in Thing, Stow(p, t) \/ Fetch(p, t)
      PROVE  \E S : past' \in {Moved(past, S), Written(past, S), Cut(past, S)}
  BY <1>3 DEF Stow, Fetch, Into
<1>4. CASE MobsTick
  <2>1. PICK S, T : UNCHANGED past \/ past' = [Written(past, S) EXCEPT !.ghosts = T]
    BY <1>4 DEF MobsTick
  <2>2. CASE UNCHANGED past
    BY <2>2 DEF Stirs
  <2>3. CASE past' = [Written(past, S) EXCEPT !.ghosts = T]
    <3>1. Proper(Written(past, S)) /\ \A x \in Fates : [Written(past, S) EXCEPT !.ghosts = T][x] = Written(past, S)[x]
      BY <1>0, WrittenKeeps DEF Proper, PastFields, Fates
    <3>2. \A x \in Fates : past'[x] = Written(past, S)[x]
      BY <2>3, <3>1
    <3> QED
      BY <1>0, <3>2, WrittenFates DEF Stirs, Fates
  <2> QED
    BY <2>1, <2>2, <2>3
<1>5. CASE MobDies
  <2>1. Stirs({mob[Head(todo).on].loot} \ {None}) /\ past'.twice = past.twice
    BY <1>5, MobDiesFates DEF Stirs, Fates
  <2> QED
    BY <2>1
<1>6. CASE Pair
  <2>1. \E S : past' \in {Moved(past, S), Written(past, S), Cut(past, S)}
    BY <1>6, Zenon DEF Pair
  <2> QED
    BY <1>1, <2>1
<1>7. CASE ItemsTick \/ Rot
  <2>1. \E S : past' \in {Moved(past, S), Written(past, S), Cut(past, S)}
    BY <1>7 DEF ItemsTick, Rot
  <2> QED
    BY <1>1, <2>1
<1>8. CASE Give
  <2>1. \E S : past' \in {Moved(past, S), Written(past, S), Cut(past, S)}
    BY <1>8 DEF Give, Into
  <2> QED
    BY <1>1, <2>1
<1> QED
  BY <1>1, <1>2, <1>3, <1>4, <1>5, <1>6, <1>7, <1>8 DEF Handling, Dropping, Spilling, Stowing, Fetching

\* Then the notes grow.
LEMMA StirsGrow ==
  ASSUME NEW S, Stirs(S), past.twice \subseteq past'.twice, past'.twice = past.twice \/ Loading,
         \A t \in past.safe : Quiet(t)
  PROVE  Grows
  BY DEF Stirs, Grows, Quiet

\* A restart cuts off all but what is safe in files that are whole.
TornThings == {t \in past.safe : \E w \in past.home[t] : disk[FileOf(w)] = Torn}

\* It notes that, and forgets the races.
LEMMA RestartCuts ==
  ASSUME Restart
  PROVE  past' = [past EXCEPT !.cut = @ \cup (Thing \ past.safe) \cup TornThings, !.safe = @ \ TornThings,
                    !.clock = Read("meta", Morning), !.missed = (Read("meta", Morning) = 0), !.stirred = {},
                    !.ghosts = {}, !.ousted = {}, !.strayed = {}, !.overfed = {}, !.leaked = {}]
  BY Zenon DEF Restart, TornThings

\* That is what a restart notes.
LEMMA RestartFates ==
  ASSUME Types, Restart
  PROVE  /\ past'.stirred = {} /\ past'.safe = past.safe \ TornThings
         /\ past'.cut = past.cut \cup (Thing \ past.safe) \cup TornThings
         /\ past'.clock = Read("meta", Morning) /\ past'.missed = (Read("meta", Morning) = 0)
         /\ \A x \in {"twice", "home", "lost"} : past'[x] = past[x]
<1> DEFINE safe == past.safe \ TornThings
           cut  == past.cut \cup (Thing \ past.safe) \cup TornThings
           late == Read("meta", Morning) = 0
           time == Read("meta", Morning)
<1>1. past' = [past EXCEPT !.cut = cut, !.safe = safe, !.clock = time, !.missed = late, !.stirred = {},
                 !.ghosts = {}, !.ousted = {}, !.strayed = {}, !.overfed = {}, !.leaked = {}]
  BY Zenon, RestartCuts
<1> HIDE DEF safe, cut, late, time
<1>2. Proper(past)
  BY DEF Types, PeopleTypes
<1>3. /\ past'.stirred = {} /\ past'.safe = safe /\ past'.cut = cut /\ past'.clock = time
      /\ \A x \in {"twice", "home", "lost"} : past'[x] = past[x]
  BY <1>1, <1>2 DEF Proper, PastFields
<1>4. past'.missed = late
  BY <1>1, <1>2, Zenon DEF Proper, PastFields
<1> QED
  BY <1>3, <1>4 DEF safe, cut, late, time

\* Every step makes the notes grow.
LEMMA NotesGrow ==
  ASSUME LivesAssumption, Types, DeadOrAlive, OldHands, \A t \in past.safe : Quiet(t), [Next]_vars
  PROVE  Grows
<1>0. Proper(past) /\ FatesGo
  BY FatesKept DEF Types, PeopleTypes
<1>1. CASE \A x \in Fates \ Hours : past'[x] = past[x]
  BY <1>1 DEF Fates, Hours, Grows, Quiet
<1>2. CASE Handling
  BY <1>2, HandlingStirs, StirsGrow
<1>3. ASSUME NEW p \in Player, Load(p) PROVE Grows
  <2>1. \E S : Stirs(S)
    <3>1. CASE Siblings(p) # {}
      BY <1>3, <3>1, LoadFates DEF Stirs, Fates
    <3>2. CASE Siblings(p) = {}
      BY <1>3, <3>2, LoadFates DEF Stirs, Fates
    <3> QED
      BY <3>1, <3>2
  <2>2. past.twice \subseteq past'.twice /\ Loading
    BY <1>3, LoadFates DEF Loading
  <2> QED
    BY <2>1, <2>2, StirsGrow
<1>4. ASSUME NEW p \in Player, Leave(p) PROVE Grows
  <2>1. (\E S : Stirs(S)) /\ past'.twice = past.twice
    BY <1>4, LeaveFates DEF Stirs, Fates
  <2> QED
    BY <2>1, StirsGrow
<1>5. ASSUME NEW p \in Player, SavePlayer(p) PROVE Grows
  <2>1. UNCHANGED past \/ \E S : past' = Cut(past, S)
    BY <1>5, Zenon DEF SavePlayer
  <2>2. CASE UNCHANGED past
    BY <2>2 DEF Grows, Quiet
  <2>3. CASE \E S : past' = Cut(past, S)
    <3>1. PICK S : past' = Cut(past, S)
      BY <2>3
    <3>2. Stirs(S) /\ past'.twice = past.twice
      BY <1>0, <3>1, HistoryStirs
    <3> QED
      BY <3>2, StirsGrow
  <2> QED
    BY <2>1, <2>2, <2>3
<1>6. CASE SaveContainers
  <2>1. past'.stirred = {} /\ \A x \in Fates \ {"stirred"} : past'[x] = past[x]
    BY <1>0, <1>6 DEF SaveContainers, Proper, PastFields, Fates
  <2> QED
    BY <1>6, <2>1 DEF Grows, Quiet, Fates
<1>7. CASE Saved
  <2>1. PICK b : past' = [past EXCEPT !.safe = {t \in Thing \ (past.stirred \cup past.cut \cup past.lost) : Places(t) # {}},
                                      !.home = b]
    BY <1>7, Zenon DEF Saved
  <2>2. /\ past'.safe = {t \in Thing \ (past.stirred \cup past.cut \cup past.lost) : Places(t) # {}}
        /\ \A x \in Fates \ {"safe", "home"} : past'[x] = past[x]
    BY <1>0, <2>1 DEF Proper, PastFields, Fates
  <2> QED
    BY <1>7, <2>2 DEF Grows, Fates
<1>8. CASE SavePut \/ SavePlayers \/ SaveMobs \/ SaveItems \/ SaveMeta
  <2>1. UNCHANGED past
    BY <1>8, Zenon DEF SavePut, SavePlayers, SaveMobs, SaveItems, SaveMeta
  <2> QED
    BY <2>1 DEF Grows, Quiet
<1>9. CASE Restart
  BY <1>9, RestartFates DEF Grows, Quiet, TornThings
<1> QED
  BY <1>0, <1>1, <1>2, <1>3, <1>4, <1>5, <1>6, <1>7, <1>8, <1>9 DEF FatesGo, Loading, Leaving, Saving

(***************************************************************************)
(* What a step keeps: who is in the table, and the order of a save.        *)
(***************************************************************************)

\* Where one player is now, and what has become of the table.
GoesFrom(p, x, y, T) == /\ self[p].at = x /\ self'[p].at = y /\ table' = T
                        /\ \A q \in Player \ {p} : self'[q].at = self[q].at
AtGoes ==
  \/ Same("at") /\ UNCHANGED table
  \/ \E p \in Player : \/ Load(p) /\ GoesFrom(p, "new", "joining", table)
                       \/ Enter(p) /\ GoesFrom(p, "joining", "play", table \cup {p})
                       \/ Leave(p) /\ GoesFrom(p, "play", "saving", table)
                       \/ WriteFile(p) /\ GoesFrom(p, "saving", "saved", table)
                       \/ remove_player(p) /\ GoesFrom(p, "saved", "left", table \ {p})
                       \/ Clear(p) /\ GoesFrom(p, "left", "gone", table)
  \/ Restart /\ table' = {} /\ \A p \in Player : self'[p].at \in {"new", "gone"}

\* Each step takes at most one player on, or is a restart.
LEMMA WhereTheyGo ==
  ASSUME LivesAssumption, Types, DeadOrAlive, OldHands, [Next]_vars
  PROVE  AtGoes
<1>0. SelfGoes /\ TablesGo /\ self \in [Player -> Self] /\ \A q \in Player : self[q] \in Self
  BY WhatBecomesOfPlayers, WhatBecomesOfTables DEF Types, PeopleTypes
<1>1. ASSUME NEW p \in Player, Load(p) PROVE AtGoes
  <2>1. self' = [self EXCEPT ![p] = [apply_data(disk[user[p]]) EXCEPT !.at = "joining"]]
        /\ self[p].at = "new" /\ UNCHANGED table
    BY <1>1, Zenon DEF Load, elsewhere
  <2>2. [apply_data(disk[user[p]]) EXCEPT !.at = "joining"].at = "joining"
    BY DEF apply_data, Fresh
  <2>3. GoesFrom(p, "new", "joining", table)
    BY <1>0, <2>1, <2>2 DEF GoesFrom
  <2> QED
    BY <1>1, <2>3 DEF AtGoes
<1>2. ASSUME NEW p \in Player, Enter(p) PROVE AtGoes
  <2>1. GoesFrom(p, "joining", "play", table \cup {p})
    BY <1>0, <1>2 DEF Enter, GoesFrom, Self
  <2> QED
    BY <1>2, <2>1 DEF AtGoes
<1>3. ASSUME NEW p \in Player, Leave(p) PROVE AtGoes
  <2>1. self' = [self EXCEPT ![p].at = "saving", ![p].file = snapshot_data(self[p])]
        /\ self[p].at = "play" /\ UNCHANGED table
    BY <1>3, Zenon DEF Leave, Free
  <2>2. GoesFrom(p, "play", "saving", table)
    BY <1>0, <2>1 DEF GoesFrom, Self
  <2> QED
    BY <1>3, <2>2 DEF AtGoes
<1>4. ASSUME NEW p \in Player, WriteFile(p) PROVE AtGoes
  <2>1. GoesFrom(p, "saving", "saved", table)
    BY <1>0, <1>4 DEF WriteFile, GoesFrom, Self
  <2> QED
    BY <1>4, <2>1 DEF AtGoes
<1>5. ASSUME NEW p \in Player, remove_player(p) PROVE AtGoes
  <2>1. GoesFrom(p, "saved", "left", table \ {p})
    BY <1>0, <1>5 DEF remove_player, GoesFrom, Self
  <2> QED
    BY <1>5, <2>1 DEF AtGoes
<1>6. ASSUME NEW p \in Player, Clear(p) PROVE AtGoes
  <2>1. self' = [self EXCEPT ![p].at = "gone", ![p].effect = Calm, ![p].file = None]
        /\ self[p].at = "left" /\ UNCHANGED table
    BY <1>6, Zenon DEF Clear
  <2>2. GoesFrom(p, "left", "gone", table)
    BY <1>0, <2>1 DEF GoesFrom, Self
  <2> QED
    BY <1>6, <2>2 DEF AtGoes
<1>7. CASE Restart
  <2>1. table' = {} /\ self' = [p \in Player |-> IF self[p].at = "new" THEN self[p] ELSE [Fresh EXCEPT !.at = "gone"]]
    BY <1>7, Zenon DEF Restart
  <2>2. [Fresh EXCEPT !.at = "gone"].at = "gone"
    BY DEF Fresh
  <2> QED
    BY <1>7, <2>1, <2>2 DEF AtGoes
<1> QED
  BY <1>0, <1>1, <1>2, <1>3, <1>4, <1>5, <1>6, <1>7
  DEF SelfGoes, TablesGo, AtGoes, Loading, Entering, Leaving, Departing, Clearing

\* Every step keeps it that the table has those in the game or leaving it.
LEMMA TableTrueStep ==
  ASSUME TableTrue, AtGoes
  PROVE  TableTrue'
<1>1. CASE Same("at") /\ UNCHANGED table
  BY <1>1 DEF Same, TableTrue
<1>2. ASSUME NEW p \in Player, GoesFrom(p, "new", "joining", table) \/ GoesFrom(p, "left", "gone", table)
                               \/ GoesFrom(p, "play", "saving", table) \/ GoesFrom(p, "saving", "saved", table)
                               \/ GoesFrom(p, "joining", "play", table \cup {p})
                               \/ GoesFrom(p, "saved", "left", table \ {p})
      PROVE  TableTrue'
  BY <1>2 DEF GoesFrom, TableTrue
<1>3. CASE table' = {} /\ \A p \in Player : self'[p].at \in {"new", "gone"}
  BY <1>3 DEF TableTrue
<1> QED
  BY <1>1, <1>2, <1>3 DEF AtGoes

\* Who holds a pack still does, but for one who leaves; and only a newcomer begins to.
LEMMA HoldersGo ==
  ASSUME AtGoes
  PROVE  \/ \A q \in Player : self'[q].at \in {"joining", "play", "saving", "saved"} => Holds(q)
         \/ \E p \in Player : /\ Load(p) /\ self'[p].at = "joining"
                              /\ \A q \in Player \ {p} : self'[q].at = self[q].at
<1>1. CASE Same("at")
  BY <1>1 DEF Same, Holds
<1>2. ASSUME NEW p \in Player, GoesFrom(p, "left", "gone", table)
                               \/ GoesFrom(p, "play", "saving", table) \/ GoesFrom(p, "saving", "saved", table)
                               \/ GoesFrom(p, "joining", "play", table \cup {p})
                               \/ GoesFrom(p, "saved", "left", table \ {p})
      PROVE  \A q \in Player : self'[q].at \in {"joining", "play", "saving", "saved"} => Holds(q)
  BY <1>2 DEF GoesFrom, Holds
<1> QED
  BY <1>1, <1>2 DEF AtGoes, GoesFrom

\* Every step keeps it that two connections of one user at once are noted.
LEMMA TwiceNotedStep ==
  ASSUME Types, TwiceNoted, Grows, AtGoes
  PROVE  TwiceNoted'
<1>1. CASE \A q \in Player : self'[q].at \in {"joining", "play", "saving", "saved"} => Holds(q)
  BY <1>1 DEF TwiceNoted, Holds, Grows
<1>2. ASSUME NEW p \in Player, Load(p), \A q \in Player \ {p} : self'[q].at = self[q].at
      PROVE  TwiceNoted'
  <2>1. Siblings(p) # {} => user[p] \in past'.twice
    BY <1>2, LoadFates
  <2>2. ASSUME NEW q \in Player, NEW r \in Player, q # r, user[q] = user[r],
               self'[q].at \in {"joining", "play", "saving", "saved"},
               self'[r].at \in {"joining", "play", "saving", "saved"}
        PROVE  user[q] \in past'.twice
    <3>1. CASE q = p
      BY <1>2, <2>1, <2>2, <3>1 DEF Siblings, Holds
    <3>2. CASE r = p
      BY <1>2, <2>1, <2>2, <3>2 DEF Siblings, Holds
    <3>3. CASE q # p /\ r # p
      BY <1>2, <2>2, <3>3 DEF TwiceNoted, Holds, Grows
    <3> QED
      BY <3>1, <3>2, <3>3
  <2> QED
    BY <2>2 DEF TwiceNoted, Holds
<1> QED
  BY <1>1, <1>2, HoldersGo

(***************************************************************************)
(* What each step of the saver does.                                       *)
(***************************************************************************)

SaverIs(at, left, file, data) ==
  saver'.at = at /\ saver'.left = left /\ saver'.file = file /\ saver'.data = data
DiskGets(f, d) == disk'[f] = d /\ \A g \in File \ {f} : disk'[g] = disk[g]

\* A file is changed, and no other.
LEMMA OneFile ==
  ASSUME Types, NEW f \in File, NEW d, disk' = [disk EXCEPT ![f] = d]
  PROVE  DiskGets(f, d)
<1>1. disk = [g \in File |-> disk[g]]
  BY DEF Types, FileTypes
<1> QED
  BY <1>1 DEF DiskGets

\* The steps of the saver, each by what it does.
LEMMA SaverDoes ==
  ASSUME LivesAssumption, Types
  PROVE  /\ SaveContainers => /\ saver.at = "idle" /\ DiskGets("containers", Torn)
                              /\ SaverIs("containers", saver.left, "containers", chest)
         /\ SavePut => /\ saver.file # None /\ saver.at # "meta" /\ DiskGets(saver.file, saver.data)
                       /\ SaverIs(saver.at, saver.left, None, None)
         /\ SavePlayers => /\ saver.at = "containers" /\ saver.file = None /\ UNCHANGED disk
                           /\ SaverIs("players", table, None, saver.data)
         /\ \A p \in Player : SavePlayer(p) =>
              /\ saver.at = "players" /\ saver.file = None /\ p \in saver.left
              /\ DiskGets(user[p], Torn)
              /\ SaverIs("players", saver.left \ {p}, user[p], snapshot_data(self[p]))
         /\ SaveMobs => /\ saver.at = "players" /\ saver.file = None /\ saver.left = {} /\ UNCHANGED disk
                        /\ saver'.at = "mobs" /\ saver'.left = {} /\ saver'.file = None
                        /\ saver'.data = {[body |-> b, kind |-> mob[b].kind, health |-> mob[b].health,
                                           loot |-> mob[b].loot] : b \in {c \in Here : Alive(c)}}
         /\ SaveItems => /\ saver.at = "mobs" /\ DiskGets("entities", Torn)
                         /\ SaverIs("entities", saver.left, "entities", [mobs |-> saver.data, items |-> ground])
         /\ SaveMeta => /\ saver.at = "entities" /\ saver.file = None /\ DiskGets("meta", Torn)
                        /\ SaverIs("meta", saver.left, "meta", sky.time)
         /\ Saved => /\ saver.at = "meta" /\ DiskGets("meta", saver.data)
                     /\ SaverIs("idle", {}, None, None)
<1>0. /\ saver = [x \in {"at", "left", "file", "data"} |-> saver[x]]
      /\ saver.file # None => saver.file \in File
      /\ {"containers", "entities", "meta"} \subseteq File
      /\ \A p \in Player : user[p] \in File
  BY DEF Types, FileTypes, File, LivesAssumption
<1>1. ASSUME SaveContainers
      PROVE  /\ saver.at = "idle" /\ DiskGets("containers", Torn)
             /\ SaverIs("containers", saver.left, "containers", chest)
  <2>1. /\ saver.at = "idle" /\ disk' = [disk EXCEPT !["containers"] = Torn]
        /\ saver' = [saver EXCEPT !.at = "containers", !.file = "containers", !.data = chest]
    BY <1>1, Zenon DEF SaveContainers, Truncate
  <2> QED
    BY <1>0, <2>1, OneFile DEF SaverIs
<1>2. ASSUME SavePut
      PROVE  /\ saver.file # None /\ saver.at # "meta" /\ DiskGets(saver.file, saver.data)
             /\ SaverIs(saver.at, saver.left, None, None)
  <2>1. /\ saver.file # None /\ saver.at # "meta" /\ disk' = [disk EXCEPT ![saver.file] = saver.data]
        /\ saver' = [saver EXCEPT !.file = None, !.data = None]
    BY <1>2, Zenon DEF SavePut
  <2> QED
    BY <1>0, <2>1, OneFile DEF SaverIs
<1>3. ASSUME SavePlayers
      PROVE  /\ saver.at = "containers" /\ saver.file = None /\ UNCHANGED disk
             /\ SaverIs("players", table, None, saver.data)
  <2>1. /\ saver.at = "containers" /\ saver.file = None /\ UNCHANGED disk
        /\ saver' = [saver EXCEPT !.at = "players", !.left = table]
    BY <1>3, Zenon DEF SavePlayers
  <2> QED
    BY <1>0, <2>1 DEF SaverIs
<1>4. ASSUME NEW p \in Player, SavePlayer(p)
      PROVE  /\ saver.at = "players" /\ saver.file = None /\ p \in saver.left
             /\ DiskGets(user[p], Torn)
             /\ SaverIs("players", saver.left \ {p}, user[p], snapshot_data(self[p]))
  <2>1. /\ saver.at = "players" /\ saver.file = None /\ p \in saver.left
        /\ disk' = [disk EXCEPT ![user[p]] = Torn]
        /\ saver' = [saver EXCEPT !.left = @ \ {p}, !.file = user[p], !.data = snapshot_data(self[p])]
    BY <1>4, Zenon DEF SavePlayer
  <2> QED
    BY <1>0, <2>1, OneFile DEF SaverIs
<1>5. ASSUME SaveMobs
      PROVE  /\ saver.at = "players" /\ saver.file = None /\ saver.left = {} /\ UNCHANGED disk
             /\ saver'.at = "mobs" /\ saver'.left = {} /\ saver'.file = None
             /\ saver'.data = {[body |-> b, kind |-> mob[b].kind, health |-> mob[b].health,
                                loot |-> mob[b].loot] : b \in {c \in Here : Alive(c)}}
  <2> DEFINE S == {[body |-> b, kind |-> mob[b].kind, health |-> mob[b].health, loot |-> mob[b].loot] :
                   b \in {c \in Here : Alive(c)}}
  <2>1. /\ saver.at = "players" /\ saver.file = None /\ saver.left = {} /\ UNCHANGED disk
        /\ saver' = [saver EXCEPT !.at = "mobs", !.data = S]
    BY <1>5, Zenon DEF SaveMobs
  <2> HIDE DEF S
  <2>2. saver'.at = "mobs" /\ saver'.left = {} /\ saver'.file = None /\ saver'.data = S
    BY <1>0, <2>1
  <2> QED
    BY <2>1, <2>2 DEF S
<1>6. ASSUME SaveItems
      PROVE  /\ saver.at = "mobs" /\ DiskGets("entities", Torn)
             /\ SaverIs("entities", saver.left, "entities", [mobs |-> saver.data, items |-> ground])
  <2> DEFINE d == [mobs |-> saver.data, items |-> ground]
  <2>1. /\ saver.at = "mobs" /\ disk' = [disk EXCEPT !["entities"] = Torn]
        /\ saver' = [saver EXCEPT !.at = "entities", !.file = "entities", !.data = d]
    BY <1>6, Zenon DEF SaveItems, Truncate
  <2> HIDE DEF d
  <2>2. DiskGets("entities", Torn) /\ SaverIs("entities", saver.left, "entities", d)
    BY <1>0, <2>1, OneFile DEF SaverIs
  <2> QED
    BY <2>1, <2>2 DEF d
<1>7. ASSUME SaveMeta
      PROVE  /\ saver.at = "entities" /\ saver.file = None /\ DiskGets("meta", Torn)
             /\ SaverIs("meta", saver.left, "meta", sky.time)
  <2>1. /\ saver.at = "entities" /\ saver.file = None /\ disk' = [disk EXCEPT !["meta"] = Torn]
        /\ saver' = [saver EXCEPT !.at = "meta", !.file = "meta", !.data = sky.time]
    BY <1>7, Zenon DEF SaveMeta, Truncate
  <2> QED
    BY <1>0, <2>1, OneFile DEF SaverIs
<1>8. ASSUME Saved
      PROVE  saver.at = "meta" /\ DiskGets("meta", saver.data) /\ SaverIs("idle", {}, None, None)
  <2>1. saver.at = "meta" /\ disk' = [disk EXCEPT !["meta"] = saver.data] /\ saver' = Resting
    BY <1>8, Zenon DEF Saved
  <2> QED
    BY <1>0, <2>1, OneFile DEF SaverIs, Resting
<1> QED
  BY <1>1, <1>2, <1>3, <1>4, <1>5, <1>6, <1>7, <1>8

\* Who leaves empties its file, and then fills it.
LEMMA LeaverDoes ==
  ASSUME LivesAssumption, Types, NEW p \in Player
  PROVE  /\ Leave(p) => DiskGets(user[p], Torn) /\ UNCHANGED saver
         /\ WriteFile(p) => DiskGets(user[p], self[p].file) /\ UNCHANGED saver
  BY OneFile DEF Leave, WriteFile, LivesAssumption, File

\* What stands for no file is in none.
LEMMA DataIsSomething ==
  ASSUME LivesAssumption, NothingAssumption, Types
  PROVE  /\ saver.file \in {"containers", "entities"} \cup User => saver.data \notin {None, Torn}
         /\ \A p \in Player : self[p].at = "saving" => self[p].file \notin {None, Torn}
         /\ \A p \in Player : snapshot_data(self[p]) \notin {None, Torn}
<1>1. \A x \in {None, Torn} : (\A S \in SUBSET Thing : x # S) /\ x \notin Snapshot /\ x \notin Entities
  BY DEF NothingAssumption, Snapshot, Entities, SavedMob
<1>2. \A p \in Player : snapshot_data(self[p]) \in Snapshot
  BY DEF Types, PeopleTypes, Self, Snapshot, snapshot_data
<1>3. \A p \in Player : self[p].at = "saving" => self[p].file \in Snapshot
  BY DEF Types, FileTypes
<1>4. saver.file # None => Right(saver.file, saver.data)
  BY DEF Types, FileTypes
<1>5. None \notin User /\ "containers" # None /\ "entities" # None
  BY DEF LivesAssumption, NothingAssumption
<1> QED
  BY <1>1, <1>2, <1>3, <1>4, <1>5 DEF Right

\* The order of a save, after a step of the saver.
LEMMA SavingKeepsOrder ==
  ASSUME LivesAssumption, NothingAssumption, Types, OldHands, SaverInOrder, Saving,
         \A p \in Player : Known(p) => self'[p].at \notin {"new", "joining"}
  PROVE  SaverInOrder'
<1>0. /\ saver.file \in File \cup {None} /\ saver.left \subseteq Player
      /\ None # Torn /\ None \notin File /\ {"containers", "entities", "meta"} \cap User = {}
      /\ "containers" # "entities" /\ "containers" # "meta" /\ "entities" # "meta"
      /\ {"containers", "entities", "meta"} \subseteq File
      /\ \A p \in Player : user[p] \in User /\ user[p] \in File
  BY DEF Types, FileTypes, File, LivesAssumption, NothingAssumption
<1>1. /\ saver.left # {} => saver.at = "players"
      /\ \A p \in saver.left : Known(p)
      /\ saver.at \in {"idle", "mobs"} => saver.file = None
      /\ saver.file # None => disk[saver.file] # None
      /\ saver.file \in User => saver.at = "players"
      /\ saver.file = "containers" => saver.at = "containers"
      /\ saver.file = "entities" => saver.at = "entities"
      /\ saver.file = "meta" <=> saver.at = "meta"
  BY DEF SaverInOrder
<1> DEFINE InOrder ==
  /\ saver'.left # {} => saver'.at = "players"
  /\ \A p \in saver'.left : p \in Player /\ Known(p)
  /\ saver'.at \in {"idle", "mobs"} => saver'.file = None
  /\ saver'.file # None => disk'[saver'.file] # None
  /\ saver'.file \in User => saver'.at = "players"
  /\ saver'.file = "containers" => saver'.at = "containers"
  /\ saver'.file = "entities" => saver'.at = "entities"
  /\ saver'.file = "meta" <=> saver'.at = "meta"
<1>2. SUFFICES InOrder
  BY DEF SaverInOrder, Known
<1>3. CASE SaveContainers
  BY <1>0, <1>1, <1>3, SaverDoes DEF SaverIs, DiskGets
<1>4. CASE SavePut
  BY <1>0, <1>1, <1>4, SaverDoes DEF SaverIs
<1>5. CASE SavePlayers
  BY <1>0, <1>1, <1>5, SaverDoes, TableKnown DEF SaverIs
<1>6. ASSUME NEW p \in Player, SavePlayer(p) PROVE InOrder
  BY <1>0, <1>1, <1>6, SaverDoes DEF SaverIs, DiskGets
<1>7. CASE SaveMobs
  BY <1>0, <1>1, <1>7, SaverDoes
<1>8. CASE SaveItems
  BY <1>0, <1>1, <1>8, SaverDoes DEF SaverIs, DiskGets
<1>9. CASE SaveMeta
  BY <1>0, <1>1, <1>9, SaverDoes DEF SaverIs, DiskGets
<1>10. CASE Saved
  BY <1>0, <1>1, <1>10, SaverDoes DEF SaverIs
<1> QED
  BY <1>3, <1>4, <1>5, <1>6, <1>7, <1>8, <1>9, <1>10 DEF Saving

\* Every step keeps the order of a save.
LEMMA SaverInOrderStep ==
  ASSUME LivesAssumption, NothingAssumption, Types, DeadOrAlive, OldHands, SaverInOrder, [Next]_vars
  PROVE  SaverInOrder'
<1>0. StoresGo /\ \A p \in Player : Known(p) => self'[p].at \notin {"new", "joining"}
  BY WhatBecomesOfStores, KnownStays DEF Known
<1>1. CASE Saving
  BY <1>0, <1>1, SavingKeepsOrder
<1>2. CASE Restart
  <2>1. saver' = Resting
    BY <1>2, Zenon DEF Restart
  <2> QED
    BY <2>1 DEF Resting, SaverInOrder, LivesAssumption, NothingAssumption
<1>3. CASE UNCHANGED saver /\ ~Saving
  <2>1. saver.left \subseteq Player /\ saver.file \in File \cup {None}
    BY DEF Types, FileTypes
  <2>2. \A p \in saver.left : Known(p) => Known(p)'
    BY <1>0, <2>1 DEF Known
  <2>3. ASSUME saver.file # None PROVE disk'[saver.file] # None
    <3>0. disk[saver.file] # None /\ saver.file \in File /\ Torn # None
      BY <2>1, <2>3 DEF SaverInOrder, NothingAssumption
    <3>1. CASE UNCHANGED disk
      BY <3>0, <3>1
    <3>2. ASSUME NEW p \in Player, Leave(p) \/ WriteFile(p) PROVE disk'[saver.file] # None
      <4>1. self[p].at = "saving" => self[p].file # None
        BY DataIsSomething
      <4> QED
        BY <3>0, <3>2, <4>1, LeaverDoes DEF DiskGets, WriteFile
    <3>3. ASSUME NEW p \in Player, remove_player(p) PROVE UNCHANGED disk
      BY <3>3, Zenon DEF remove_player, stores
    <3> QED
      BY <1>0, <1>3, <3>1, <3>2, <3>3 DEF StoresGo, Leaving, Departing
  <2> QED
    BY <1>3, <2>2, <2>3 DEF SaverInOrder
<1> QED
  BY <1>0, <1>1, <1>2, <1>3 DEF StoresGo

\* What a step does, in all.
WorldGoes == Grows /\ AtGoes /\ StoresGo /\ LootsGo /\ FatesGo /\ BagsGo /\ DuesGo /\ SelfGoes /\ TablesGo

\* That is what each step does.
LEMMA EachStepGoes ==
  ASSUME LivesAssumption, LivesInv, Order, \A t \in Thing : Fares(t), [Next]_vars
  PROVE  WorldGoes
<1>1. Types /\ DeadOrAlive /\ OldHands /\ LoversTame
  BY DEF LivesInv, Whereabouts, Villages
<1>2. \A t \in past.safe : Quiet(t)
  BY DEF Order, SafeThings, Fares
<1>3. EmptyHanded /\ GivenOnce
  BY DEF Order
<1> QED
  BY <1>1, <1>2, <1>3, NotesGrow, WhereTheyGo, WhatBecomesOfStores, WhatBecomesOfLoot, FatesKept,
     WhatIsCarried, WhatIsDue, WhatBecomesOfPlayers, WhatBecomesOfTables DEF WorldGoes

\* Every step keeps the order.
LEMMA OrderKept ==
  ASSUME LivesAssumption, NothingAssumption, LivesInv, Order, WorldGoes, [Next]_vars
  PROVE  Order'
<1>1. Types /\ DeadOrAlive /\ OldHands
  BY DEF LivesInv, Whereabouts
<1>2. TwiceNoted' /\ TableTrue' /\ SaverInOrder'
  BY <1>1, TwiceNotedStep, TableTrueStep, SaverInOrderStep DEF Order, WorldGoes
<1>3. EmptyHanded' /\ GivenOnce'
  BY DEF WorldGoes, BagsGo, DuesGo, EmptyHanded
<1>4. SafeThings'
  <2>1. CASE past'.safe \subseteq past.safe
    BY <2>1 DEF Order, SafeThings
  <2>2. CASE Saved
    <3>1. \E b : past' = [past EXCEPT !.safe = {t \in Thing \ (past.stirred \cup past.cut \cup past.lost) : Places(t) # {}},
                                      !.home = b]
      BY <2>2, Zenon DEF Saved
    <3>2. past'.safe = {t \in Thing \ (past.stirred \cup past.cut \cup past.lost) : Places(t) # {}}
      BY <1>1, <3>1 DEF Types, PeopleTypes, Proper, PastFields
    <3> QED
      BY <3>2 DEF SafeThings
  <2> QED
    BY <2>1, <2>2 DEF WorldGoes, Grows
<1> QED
  BY <1>2, <1>3, <1>4 DEF Order

(***************************************************************************)
(* Things that stay where they are.                                        *)
(***************************************************************************)

\* Thing t is where it was.
Fixed(t) ==
  /\ \A v \in User : Packed(t, v)' <=> Packed(t, v)
  /\ \A b \in Body : Has(b, t)' <=> Has(b, t)
  /\ \A u \in Thread : t \in step'[u].bag <=> t \in step[u].bag
  /\ t \in ground' <=> t \in ground
  /\ t \in chest' <=> t \in chest
  /\ Due(t)' <=> Due(t)

\* No spot gets it, or loses it.
LEMMA FixedAt ==
  ASSUME NEW t, Fixed(t)
  PROVE  /\ \A k, x : At(t, k, x)' <=> At(t, k, x)
         /\ Sole(t) => Sole(t)'
<1>1. ASSUME NEW k, NEW x PROVE At(t, k, x)' <=> At(t, k, x)
  BY DEF Fixed, At
<1>2. ASSUME Sole(t) PROVE Sole(t)'
  <2>1. PICK k, x : \A j, y : At(t, j, y) <=> j = k /\ y = x
    BY <1>2 DEF Sole
  <2>2. \A j, y : At(t, j, y)' <=> j = k /\ y = x
    BY <1>1, <2>1
  <2> QED
    BY <2>2 DEF Sole
<1> QED
  BY <1>1, <1>2

\* The places of a thing are the spots it is in, but for those on their way.
LEMMA PlacesAre ==
  ASSUME LivesAssumption, NEW t, NEW w
  PROVE  w \in Places(t) <=> \/ \E v \in User : Packed(t, v) /\ w = <<"pack", v>>
                             \/ t \in ground /\ w = <<"ground", None>>
                             \/ t \in chest /\ w = <<"chest", None>>
                             \/ \E b \in Body : Has(b, t) /\ w = <<"mob", None>>
<1>1. \A p \in Player : user[p] \in User
  BY DEF LivesAssumption
<1> QED
  BY <1>1 DEF Places, Packed, Has, Here

\* So they stay as they are.
LEMMA FixedPlaces ==
  ASSUME LivesAssumption, NEW t, Fixed(t)
  PROVE  Places(t)' = Places(t)
<1>1. \A p \in Player : user[p] \in User
  BY DEF LivesAssumption
<1>2. ASSUME NEW w
      PROVE  w \in Places(t)' <=> \/ \E v \in User : Packed(t, v)' /\ w = <<"pack", v>>
                                  \/ t \in ground' /\ w = <<"ground", None>>
                                  \/ t \in chest' /\ w = <<"chest", None>>
                                  \/ \E b \in Body : Has(b, t)' /\ w = <<"mob", None>>
  BY <1>1 DEF Places, Packed, Has, Here
<1>3. ASSUME NEW w PROVE w \in Places(t)' <=> w \in Places(t)
  BY <1>2, PlacesAre DEF Fixed
<1> QED
  BY <1>3

\* A thing that counts is in the pack of one who holds it.
LEMMA HolderPacks ==
  ASSUME TwiceNoted, NEW t, NEW p \in Player, Holds(p),
         \A q \in Player : user[q] \in past.twice /\ Holds(q) => t \notin self[q].pack
  PROVE  Packed(t, user[p]) <=> t \in self[p].pack
  BY DEF Packed, TwiceNoted

\* A pack that nobody holds is the one in its file.
LEMMA FilePacks ==
  ASSUME NEW t, NEW v, \A p \in Player : user[p] = v => ~Holds(p)
  PROVE  Packed(t, v) <=> t \in Filed(v)
  BY DEF Packed

\* What a file has, or is to have.
LEMMA FiledIs ==
  ASSUME LivesAssumption, NothingAssumption, Types, NEW v \in User
  PROVE  /\ saver.file = v => Filed(v) = saver.data.pack
         /\ saver.file # v => Filed(v) = Stored(v)
<1>1. saver.file = v => saver.data \notin {None, Torn}
  BY DataIsSomething
<1> QED
  BY <1>1 DEF Filed, Stored

(***************************************************************************)
(* Steps that leave files, and who holds what, alone.                      *)
(***************************************************************************)

\* A thing fares well again if its parts do.
LEMMA FaresWith ==
  ASSUME NEW t \in Thing, Fares(t), Grows,
         ~Given(t)' => Sole(t)' /\ Alike(t)',
         Quiet(t)' => Rests(t)',
         t \in past'.safe => Homed(t)'
  PROVE  Fares(t)'
<1>1. t \in past'.safe => Quiet(t)'
  BY DEF Grows, Quiet
<1> QED
  BY <1>1 DEF Fares

\* What counts in the end counted before.
LEMMA GivenGrows ==
  ASSUME NEW t, Grows, ~Given(t)'
  PROVE  ~Given(t)
  BY DEF Grows, Given

\* What is safe after a step that does not end a save was so before, with the same home.
LEMMA FixedIsHome ==
  ASSUME LivesAssumption, NEW t \in Thing, Fares(t), Fixed(t), t \in past'.safe,
         past'.safe \subseteq past.safe, past'.home = past.home
  PROVE  Homed(t)'
<1>1. t \in past.safe /\ past'.home = past.home
  OBVIOUS
<1>2. Places(t)' = Places(t) /\ Homed(t)
  BY <1>1, FixedPlaces DEF Fares
<1> QED
  BY <1>1, <1>2 DEF Homed

\* A thing that stays, with what is saved of it.
LEMMA FixedFares ==
  ASSUME LivesAssumption, NEW t \in Thing, Fares(t), Grows,
         past'.safe \subseteq past.safe, past'.home = past.home,
         ~Given(t)' => Fixed(t) /\ Alike(t)',
         Quiet(t)' => Rests(t)'
  PROVE  Fares(t)'
<1>1. ~Given(t)' => Sole(t)' /\ Alike(t)'
  BY GivenGrows, FixedAt DEF Fares
<1>2. t \in past'.safe => Homed(t)'
  <2>1. t \in past'.safe => ~Given(t)'
    BY DEF Grows, Given
  <2> QED
    BY <2>1, FixedIsHome
<1> QED
  BY <1>1, <1>2, FaresWith

Local ==
  /\ UNCHANGED <<disk, saver>> /\ past'.twice = past.twice
  /\ \A p \in Player :
       /\ self'[p].at \in {"joining", "play", "saving", "saved"} => Holds(p)
       /\ self'[p].at \in {"joining", "saving", "saved"} => /\ self'[p].at = self[p].at
                                                            /\ self'[p].file = self[p].file
  /\ past.stirred \subseteq past'.stirred /\ past'.safe \subseteq past.safe /\ past'.home = past.home

\* A pack has thing t as before, or is one in the game and the only one of its user.
PackFits(p, t) ==
  \/ t \in self'[p].pack <=> t \in self[p].pack
  \/ self'[p].at = "play" /\ (t \in self'[p].pack => user[p] \notin past.twice)

\* Such steps keep it that packs are as what is saved of them.
LEMMA AlikeLocal ==
  ASSUME NEW t, Alike(t), Local, \A p \in Player : PackFits(p, t)
  PROVE  Alike(t)'
<1>1. ASSUME NEW v PROVE (t \in Filed(v))' <=> t \in Filed(v)
  BY DEF Local, Filed
<1>2. ASSUME NEW v PROVE (t \in Stored(v))' <=> t \in Stored(v)
  BY DEF Local, Stored
<1>3. /\ \A v \in User : saver.file = v /\ disk[v] \notin {None, Torn} =>
           (t \in disk[v].pack <=> t \in saver.data.pack)
      /\ \A v \in User : v \in past.twice => t \notin Filed(v) /\ t \notin Stored(v)
  BY DEF Alike, FilesAgree, PackAgrees, TwiceBare
<1>4. ASSUME NEW p \in Player
      PROVE  /\ self'[p].at \in {"joining", "saved"} => (t \in self'[p].pack <=> t \in Filed(user[p]))
             /\ self'[p].at = "saving" => /\ t \in self'[p].pack <=> t \in self'[p].file.pack
                                          /\ saver.file = user[p] => (t \in self'[p].pack <=> t \in saver.data.pack)
             /\ user[p] \in past.twice /\ self'[p].at \in {"joining", "play", "saving", "saved"} =>
                  t \notin self'[p].pack
  <2>1. /\ self[p].at \in {"joining", "saved"} => (t \in self[p].pack <=> t \in Filed(user[p]))
        /\ self[p].at = "saving" => /\ t \in self[p].pack <=> t \in self[p].file.pack
                                    /\ saver.file = user[p] => (t \in self[p].pack <=> t \in saver.data.pack)
        /\ user[p] \in past.twice /\ Holds(p) => t \notin self[p].pack
    BY DEF Alike, FilesAgree, PackAgrees, TwiceBare
  <2> QED
    BY <2>1 DEF Local, PackFits
<1>5. past'.twice = past.twice /\ UNCHANGED <<disk, saver>>
  BY DEF Local
<1> QED
  BY <1>1, <1>2, <1>3, <1>4, <1>5 DEF Alike, FilesAgree, PackAgrees, TwiceBare, Holds

\* A thing that stays, with the files and the packs the saver is to come to, rests as before.
LEMMA RestsSame ==
  ASSUME LivesAssumption, Types, NEW t, Rests(t), UNCHANGED <<disk, saver>>, past'.safe \subseteq past.safe, Fixed(t),
         \A p \in saver.left : t \in self'[p].pack <=> t \in self[p].pack
  PROVE  Rests(t)'
<1>1. t \in past'.safe => t \in past.safe
  OBVIOUS
<1>2. ASSUME NEW k, NEW x, Lying(k, x), t \in past'.safe \/ Covered(FileFor(k, x))
      PROVE  /\ disk[FileFor(k, x)] # Torn => (OnDisk(t, k, x) <=> At(t, k, x)')
             /\ saver.file = FileFor(k, x) => (Says(saver.data, t, k, x) <=> At(t, k, x)')
  <2>1. At(t, k, x)' <=> At(t, k, x)
    BY FixedAt
  <2> QED
    BY <1>1, <1>2, <2>1 DEF Rests, RestsAt
<1>3. ASSUME NEW k, NEW x
      PROVE  /\ Covered(FileFor(k, x))' <=> Covered(FileFor(k, x))
             /\ OnDisk(t, k, x)' <=> OnDisk(t, k, x)
  BY DEF Covered, OnDisk
<1>4. saver.at = "mobs" => \A b \in Body : Has(b, t)' <=> \E m \in saver.data : m.body = b /\ m.loot = t
  BY DEF Rests, RestsMobs, Fixed
<1>5. \A p \in saver.left : t \in self'[p].pack <=> Packed(t, user[p])'
  <2>1. saver.left \subseteq Player /\ \A p \in Player : user[p] \in User
    BY DEF LivesAssumption, Types, FileTypes
  <2> QED
    BY <2>1 DEF Rests, RestsLeft, Fixed
<1> QED
  BY <1>1, <1>2, <1>3, <1>4, <1>5 DEF Rests, RestsAt, RestsMobs, RestsLeft

\* A thing that is moved, as noted, in such a step, and is then in one spot.
LEMMA TouchedFares ==
  ASSUME NEW t \in Thing, Fares(t), Grows, Local, t \in past'.stirred,
         ~Given(t)' => Sole(t)' /\ \A p \in Player : PackFits(p, t)
  PROVE  Fares(t)'
<1>1. t \notin past'.safe /\ ~Quiet(t)'
  BY DEF Grows, Quiet
<1>2. ~Given(t)' => Alike(t)'
  BY GivenGrows, AlikeLocal DEF Fares
<1> QED
  BY <1>1, <1>2, FaresWith

\* One that stays in such a step.
LEMMA UntouchedFares ==
  ASSUME LivesAssumption, Types, NEW t \in Thing, Fares(t), Grows, Local,
         ~Given(t)' => /\ Fixed(t)
                       /\ \A p \in Player : t \in self'[p].pack <=> t \in self[p].pack
  PROVE  Fares(t)'
<1>1. ~Given(t)' => Alike(t)'
  BY GivenGrows, AlikeLocal DEF Fares, PackFits
<1>2. Quiet(t)' => ~Given(t)' /\ Quiet(t)
  BY DEF Quiet, Given, Grows, Local
<1>3. Quiet(t)' => Rests(t)'
  <2>1. saver.left \subseteq Player
    BY DEF Types, FileTypes
  <2> QED
    BY <1>2, <2>1, RestsSame DEF Fares, Local
<1> QED
  BY <1>1, <1>3, FixedFares DEF Local

(***************************************************************************)
(* Steps that move nothing.                                                *)
(***************************************************************************)

\* A step of none of those who come and go, nor of the saver, is local.
LEMMA LocalGoes ==
  ASSUME LivesAssumption, Types, WorldGoes, ~Loading, ~Leaving, ~Departing, ~Saving, ~Restart
  PROVE  Local
<1>1. /\ UNCHANGED <<disk, saver>> /\ past'.twice = past.twice
      /\ past.stirred \subseteq past'.stirred /\ past'.safe \subseteq past.safe /\ past'.home = past.home
  BY DEF WorldGoes, StoresGo, Grows, Saving
<1>2. (Same("at") /\ UNCHANGED table)
      \/ \E p \in Player : \/ Enter(p) /\ GoesFrom(p, "joining", "play", table \cup {p})
                           \/ Clear(p) /\ GoesFrom(p, "left", "gone", table)
  BY DEF WorldGoes, AtGoes, Loading, Leaving, Departing
<1>3. Same("file") \/ \E p \in Player : Clear(p)
  BY DEF WorldGoes, SelfGoes, Clearing
<1>4. ASSUME NEW p \in Player, Clear(p) PROVE \A q \in Player \ {p} : self'[q] = self[q]
  BY <1>4 DEF Clear, Types, PeopleTypes
<1>5. CASE \E p \in Player : Clear(p)
  <2>1. PICK p \in Player : Clear(p)
    BY <1>5
  <2>2. self[p].at = "left" /\ self'[p].at = "gone" /\ \A q \in Player \ {p} : self'[q] = self[q]
    <3>1. \E s : self' = [self EXCEPT ![p] = s] /\ s.at = "gone"
      <4>1. self[p] \in Self
        BY DEF Types, PeopleTypes
      <4>2. [self[p] EXCEPT !.at = "gone", !.effect = Calm, !.file = None].at = "gone"
        BY <4>1 DEF Self
      <4>3. self' = [self EXCEPT ![p] = [self[p] EXCEPT !.at = "gone", !.effect = Calm, !.file = None]]
        BY <2>1 DEF Clear, Types, PeopleTypes
      <4> QED
        BY <4>2, <4>3
    <3> QED
      BY <2>1, <3>1, <1>4 DEF Clear, Types, PeopleTypes
  <2> QED
    BY <1>1, <2>2 DEF Local, Holds
<1>6. CASE Same("file") /\ ~\E p \in Player : Clear(p)
  BY <1>1, <1>2, <1>6 DEF Local, Holds, Same, GoesFrom
<1> QED
  BY <1>3, <1>5, <1>6

\* What each step leaves of a thing: the spots that lie in no pack.
LEMMA OthersFixed ==
  ASSUME LivesAssumption, WorldGoes, ~Handling, ~Restart, NEW t \in Thing
  PROVE  /\ \A b \in Body : Has(b, t)' <=> Has(b, t)
         /\ \A u \in Thread : t \in step'[u].bag <=> t \in step[u].bag
         /\ t \in ground' <=> t \in ground
         /\ t \in chest' <=> t \in chest
         /\ Due(t)' <=> Due(t)
<1>1. \A b \in Body : Has(b, t)' <=> Has(b, t)
  BY DEF WorldGoes, LootsGo, Handling, LootStays, Has, LivesAssumption
<1>2. \A u \in Thread : t \in step'[u].bag <=> t \in step[u].bag
  BY DEF WorldGoes, BagsGo, Handling
<1>3. (t \in ground' <=> t \in ground) /\ (t \in chest' <=> t \in chest)
  BY DEF WorldGoes, StoresGo, Handling
<1>4. Due(t)' <=> Due(t)
  BY DEF WorldGoes, DuesGo, Handling
<1> QED
  BY <1>1, <1>2, <1>3, <1>4

\* Packs are the same where holders, their packs and the files are.
LEMMA SamePacks ==
  ASSUME NEW t, NEW v, UNCHANGED <<disk, saver>>,
         \A p \in Player : user[p] = v => (Holds(p)' <=> Holds(p)),
         \A p \in Player : user[p] = v => (t \in self'[p].pack <=> t \in self[p].pack)
  PROVE  Packed(t, v)' <=> Packed(t, v)
<1>1. (t \in Filed(v))' <=> t \in Filed(v)
  BY DEF Filed
<1> QED
  BY <1>1 DEF Packed

\* A step that is local does not stop anyone holding its pack.
LEMMA LocalHolds ==
  ASSUME WorldGoes, Local, ~Leaving, ~Loading, ~Departing, ~Restart, NEW p \in Player
  PROVE  Holds(p)' <=> Holds(p)
<1>1. \/ Same("at") /\ UNCHANGED table
      \/ \E q \in Player : \/ GoesFrom(q, "joining", "play", table \cup {q})
                           \/ GoesFrom(q, "left", "gone", table)
  BY DEF WorldGoes, AtGoes, Loading, Leaving, Departing, Local
<1> QED
  BY <1>1 DEF Same, GoesFrom, Holds

\* A step that handles nothing, and in which nobody comes or goes, moves nothing.
LEMMA QuietFares ==
  ASSUME LivesAssumption, Types, WorldGoes, NEW t \in Thing, Fares(t),
         ~Handling, ~Loading, ~Leaving, ~Departing, ~Saving, ~Restart
  PROVE  Fares(t)'
<1>1. Local
  BY LocalGoes
<1>2. Same("pack")
  BY DEF WorldGoes, SelfGoes, Handling
<1>3. \A p \in Player : t \in self'[p].pack <=> t \in self[p].pack
  BY <1>2 DEF Same
<1>4. \A v \in User : Packed(t, v)' <=> Packed(t, v)
  BY <1>1, <1>3, SamePacks, LocalHolds DEF Local
<1>5. Fixed(t)
  BY <1>4, OthersFixed DEF Fixed
<1> QED
  BY <1>1, <1>3, <1>5, UntouchedFares DEF WorldGoes

(***************************************************************************)
(* Steps that handle things.                                               *)
(***************************************************************************)

\* One pack is changed, or none.
PackOf(p, S) == self' = [self EXCEPT ![p].pack = S]

\* A pack that is changed leaves all else of the players alone.
LEMMA OnePack ==
  ASSUME Types, NEW p \in Player, NEW S, PackOf(p, S)
  PROVE  /\ \A q \in Player : self'[q].at = self[q].at /\ self'[q].file = self[q].file
         /\ \A q \in Player : Holds(q)' <=> Holds(q)
         /\ self'[p].pack = S /\ \A q \in Player \ {p} : self'[q].pack = self[q].pack
<1>1. self \in [Player -> Self] /\ \A q \in Player : self[q] \in Self
  BY DEF Types, PeopleTypes
<1>2. \A q \in Player : self'[q].at = self[q].at /\ self'[q].file = self[q].file
  BY <1>1 DEF PackOf, Self
<1>3. self'[p].pack = S /\ \A q \in Player \ {p} : self'[q].pack = self[q].pack
  BY <1>1 DEF PackOf, Self
<1> QED
  BY <1>2, <1>3 DEF Holds

\* Nobody comes or goes.
Staying == \/ UNCHANGED self
           \/ \E p \in Player : \E S : PackOf(p, S)

\* So it is when something is handled, and no file is touched.
LEMMA HandlingStays ==
  ASSUME LivesAssumption, Types, Whereabouts, Handling
  PROVE  Staying /\ UNCHANGED <<disk, saver>>
<1>1. ASSUME NEW u \in Thread, DropAll(u) PROVE Staying /\ UNCHANGED <<disk, saver>>
  <2>1. step[u].on \in Player
    BY <1>1 DEF Whereabouts, Droppers, DropAll
  <2> QED
    BY <1>1, <2>1 DEF DropAll, Staying, PackOf, elsewhere, stores
<1>2. ASSUME NEW u \in Thread, Spill(u) PROVE Staying /\ UNCHANGED <<disk, saver>>
  BY <1>2 DEF Spill, Staying, people
<1>3. ASSUME NEW p \in Player, NEW t \in Thing, Stow(p, t) \/ Fetch(p, t)
      PROVE  Staying /\ UNCHANGED <<disk, saver>>
  <2>1. \E S : PackOf(p, S)
    BY <1>3 DEF Stow, Fetch, PackOf
  <2> QED
    BY <1>3, <2>1 DEF Stow, Fetch, Staying
<1>4. CASE MobsTick \/ ItemsTick \/ Rot
  BY <1>4 DEF MobsTick, ItemsTick, Rot, Staying, people, stores
<1>5. CASE MobDies
  BY <1>5, Zenon DEF MobDies, Staying
<1>6. CASE Pair
  BY <1>6, Zenon DEF Pair, Staying, people, stores
<1>7. CASE Give
  <2>1. Head(todo).on \in Player
    BY <1>7, GiveTakes, JobIsForKnown DEF Give, Do, Whereabouts, PlayerJob
  <2>2. \E S : PackOf(Head(todo).on, S)
    BY <1>7 DEF Give, PackOf
  <2> QED
    BY <1>7, <2>1, <2>2 DEF Give, Staying, stores
<1> QED
  BY <1>1, <1>2, <1>3, <1>4, <1>5, <1>6, <1>7 DEF Handling, Dropping, Spilling, Stowing, Fetching

\* Such a step is local, and everyone holds on.
LEMMA HandlingLocal ==
  ASSUME LivesAssumption, Types, Whereabouts, Handling
  PROVE  Local /\ \A p \in Player : Holds(p)' <=> Holds(p)
<1>1. Staying /\ UNCHANGED <<disk, saver>>
  BY HandlingStays
<1>2. /\ \A p \in Player : self'[p].at = self[p].at /\ self'[p].file = self[p].file
      /\ \A p \in Player : Holds(p)' <=> Holds(p)
  <2>1. CASE UNCHANGED self
    BY <2>1 DEF Holds
  <2>2. ASSUME NEW p \in Player, NEW S, PackOf(p, S)
        PROVE  /\ \A q \in Player : self'[q].at = self[q].at /\ self'[q].file = self[q].file
               /\ \A q \in Player : Holds(q)' <=> Holds(q)
    BY <2>2, OnePack
  <2> QED
    BY <1>1, <2>1, <2>2 DEF Staying
<1>3. (\E S : Stirs(S)) /\ past'.twice = past.twice
  BY HandlingStirs
<1>4. /\ past.stirred \subseteq past'.stirred /\ past'.safe \subseteq past.safe
      /\ past'.home = past.home
  BY <1>3 DEF Stirs
<1> QED
  BY <1>1, <1>2, <1>3, <1>4 DEF Local, Holds

\* Thing t goes from spot x of kind k to spot w of kind l.
Spot(k, x) == \/ k = "pack" /\ x \in User
              \/ k = "mob" /\ x \in Body
              \/ k = "bag" /\ x \in Thread
              \/ k \in {"ground", "chest", "due"} /\ x = None
Shifts(t, k, x, l, w) ==
  /\ Spot(k, x) /\ Spot(l, w) /\ k # l
  /\ \A v \in User : Packed(t, v)' <=> (Packed(t, v) /\ ~(k = "pack" /\ x = v)) \/ (l = "pack" /\ w = v)
  /\ \A b \in Body : Has(b, t)' <=> (Has(b, t) /\ ~(k = "mob" /\ x = b)) \/ (l = "mob" /\ w = b)
  /\ \A u \in Thread : t \in step'[u].bag <=>
       (t \in step[u].bag /\ ~(k = "bag" /\ x = u)) \/ (l = "bag" /\ w = u)
  /\ t \in ground' <=> (t \in ground /\ k # "ground") \/ l = "ground"
  /\ t \in chest' <=> (t \in chest /\ k # "chest") \/ l = "chest"
  /\ Due(t)' <=> (Due(t) /\ k # "due") \/ l = "due"

\* Then it is there, and nowhere else.
LEMMA ShiftsSole ==
  ASSUME NEW t, NEW k, NEW x, NEW l, NEW w, Shifts(t, k, x, l, w), Sole(t), At(t, k, x)
  PROVE  Sole(t)'
<1>1. ASSUME NEW j, NEW y PROVE At(t, j, y) <=> j = k /\ y = x
  <2>1. PICK i, z : \A m, y1 : At(t, m, y1) <=> m = i /\ y1 = z
    BY DEF Sole
  <2> QED
    BY <2>1
<1>2. ASSUME NEW j, NEW y PROVE At(t, j, y)' <=> (At(t, j, y) /\ ~(j = k /\ y = x)) \/ (j = l /\ y = w)
  <2>1. CASE j = "pack"
    BY <2>1 DEF At, Shifts, Spot
  <2>2. CASE j = "mob"
    BY <2>2 DEF At, Shifts, Spot
  <2>3. CASE j = "bag"
    BY <2>3 DEF At, Shifts, Spot
  <2>4. CASE j \in {"ground", "chest", "due"}
    BY <2>4 DEF At, Shifts, Spot
  <2>5. CASE j \notin {"pack", "mob", "bag", "ground", "chest", "due"}
    BY <2>5 DEF At, Shifts, Spot
  <2> QED
    BY <2>1, <2>2, <2>3, <2>4, <2>5
<1>3. \A j, y : At(t, j, y)' <=> j = l /\ y = w
  BY <1>1, <1>2
<1> QED
  BY <1>3 DEF Sole

\* A thing that is handed over, if it counts in the end, is still in one spot.
LEMMA HandOver ==
  ASSUME NEW t \in Thing, Fares(t), Grows, Local, t \in past'.stirred,
         NEW k, NEW x, NEW l, NEW w,
         ~Given(t)' => /\ At(t, k, x) /\ Shifts(t, k, x, l, w)
                       /\ \A p \in Player : PackFits(p, t)
  PROVE  Fares(t)'
<1>1. ~Given(t)' => Sole(t)
  BY GivenGrows DEF Fares
<1>2. ~Given(t)' => Sole(t)'
  BY <1>1, ShiftsSole
<1> QED
  BY <1>2, TouchedFares

\* Who plays, and has no other connection, has what its user has.
LEMMA PlayerPacks ==
  ASSUME TwiceNoted, NEW t, Alike(t), NEW p \in Player, Holds(p)
  PROVE  /\ Packed(t, user[p]) <=> t \in self[p].pack
         /\ t \in self[p].pack => user[p] \notin past.twice
<1>1. \A q \in Player : user[q] \in past.twice /\ Holds(q) => t \notin self[q].pack
  BY DEF Alike, PackAgrees
<1> QED
  BY <1>1, HolderPacks

\* One's pack is changed, and it is the only one of its user: the user has what is in it.
LEMMA PackChanges ==
  ASSUME LivesAssumption, Types, TwiceNoted, NEW t, NEW p \in Player, NEW S, PackOf(p, S), UNCHANGED <<disk, saver>>
  PROVE  /\ Holds(p) /\ user[p] \notin past.twice => (Packed(t, user[p])' <=> t \in S)
         /\ \A v \in User \ {user[p]} : Packed(t, v)' <=> Packed(t, v)
         /\ (t \in S <=> t \in self[p].pack) =>
              /\ \A v \in User : Packed(t, v)' <=> Packed(t, v)
              /\ \A q \in Player : t \in self'[q].pack <=> t \in self[q].pack
<1>1. /\ \A q \in Player : Holds(q)' <=> Holds(q)
      /\ self'[p].pack = S /\ \A q \in Player \ {p} : self'[q].pack = self[q].pack
  BY OnePack
<1>2. ASSUME Holds(p), user[p] \notin past.twice PROVE Packed(t, user[p])' <=> t \in S
  <2>1. \A q \in Player : user[q] = user[p] /\ Holds(q)' => q = p
    BY <1>1, <1>2 DEF TwiceNoted
  <2>2. Holds(p)'
    BY <1>1, <1>2
  <2> QED
    BY <1>1, <2>1, <2>2 DEF Packed
<1>3. ASSUME NEW v \in User \ {user[p]} PROVE Packed(t, v)' <=> Packed(t, v)
  BY <1>1, SamePacks
<1>4. ASSUME t \in S <=> t \in self[p].pack
      PROVE  /\ \A v \in User : Packed(t, v)' <=> Packed(t, v)
             /\ \A q \in Player : t \in self'[q].pack <=> t \in self[q].pack
  <2>1. \A q \in Player : t \in self'[q].pack <=> t \in self[q].pack
    BY <1>1, <1>4
  <2> QED
    BY <1>1, <2>1, SamePacks
<1> QED
  BY <1>2, <1>3, <1>4

\* One who dies drops what it has, into the hands of who saw to it.
LEMMA DropAllFares ==
  ASSUME LivesAssumption, Types, TwiceNoted, EmptyHanded, NEW t \in Thing, Fares(t), Grows, Local,
         NEW u \in Thread, DropAll(u), step[u].on \in Player
  PROVE  Fares(t)'
<1>0. PICK p \in Player : p = step[u].on
  OBVIOUS
<1> DEFINE S == self[p].pack
<1>1. /\ step[u].at = "dropping" /\ PackOf(p, {})
      /\ step' = [step EXCEPT ![u] = [Still EXCEPT !.at = "spilling", !.bag = S]]
      /\ past' = IF self[p].at = "play" THEN Moved(past, S) ELSE Cut(past, S)
      /\ UNCHANGED <<ground, chest, disk, saver, mob, todo>>
  BY <1>0 DEF DropAll, PackOf, elsewhere, stores, beasts, course
<1>2. user[p] \in User /\ Proper(past)
  BY DEF LivesAssumption, Types, PeopleTypes
<1>3. [Still EXCEPT !.at = "spilling", !.bag = S].bag = S
  BY DEF Still
<1> HIDE DEF S
<1>4. /\ step[u].bag = {} /\ step'[u].bag = S
      /\ \A w \in Thread \ {u} : step'[w].bag = step[w].bag
  BY <1>1, <1>3 DEF EmptyHanded, Types, PeopleTypes, LoopTypes
<1>5. /\ \A b \in Body : Has(b, t)' <=> Has(b, t)
      /\ Due(t)' <=> Due(t)
      /\ t \in ground' <=> t \in ground
      /\ t \in chest' <=> t \in chest
  BY <1>1 DEF Has, Due
<1>6. S \subseteq past'.stirred /\ (self[p].at # "play" => S \subseteq past'.cut)
  BY <1>1, <1>2, MovedFates, CutFates
<1>7. CASE t \in S
  <2>1. t \in past'.stirred
    BY <1>6, <1>7
  <2>2. ASSUME ~Given(t)'
        PROVE  /\ At(t, "pack", user[p]) /\ Shifts(t, "pack", user[p], "bag", u)
               /\ \A q \in Player : PackFits(q, t)
    <3>1. self[p].at = "play" /\ Holds(p)
      BY <1>6, <1>7, <2>2 DEF Given, Holds
    <3>2. Alike(t)
      BY <2>2, GivenGrows DEF Fares
    <3>3. Packed(t, user[p]) /\ user[p] \notin past.twice
      BY <1>2, <1>7, <3>1, <3>2, PlayerPacks DEF S
    <3>4. /\ ~Packed(t, user[p])'
          /\ \A v \in User \ {user[p]} : Packed(t, v)' <=> Packed(t, v)
      <4>1. PackOf(p, {}) /\ UNCHANGED <<disk, saver>>
        BY <1>1
      <4> QED
        BY <4>1, <1>2, <3>1, <3>3, PackChanges
    <3>5. Shifts(t, "pack", user[p], "bag", u)
      <4>1. \A v \in User : Packed(t, v)' <=> Packed(t, v) /\ v # user[p]
        BY <3>4
      <4>2. \A w \in Thread : t \in step'[w].bag <=> t \in step[w].bag \/ w = u
        BY <1>4, <1>7
      <4> QED
        BY <1>2, <1>5, <4>1, <4>2 DEF Shifts, Spot
    <3>6. /\ self'[p].at = "play" /\ t \notin self'[p].pack
          /\ \A q \in Player \ {p} : self'[q].pack = self[q].pack
      BY <1>1, <1>2, <3>1, OnePack
    <3> QED
      BY <1>2, <3>3, <3>5, <3>6 DEF At, PackFits
  <2> QED
    BY <2>1, <2>2, HandOver
<1>8. CASE t \notin S
  <2>1. /\ \A v \in User : Packed(t, v)' <=> Packed(t, v)
        /\ \A q \in Player : t \in self'[q].pack <=> t \in self[q].pack
    BY <1>1, <1>2, <1>8, PackChanges DEF S
  <2>2. \A w \in Thread : t \in step'[w].bag <=> t \in step[w].bag
    BY <1>4, <1>8
  <2>3. Fixed(t)
    BY <1>5, <2>1, <2>2 DEF Fixed
  <2> QED
    BY <2>1, <2>3, UntouchedFares
<1> QED
  BY <1>7, <1>8

\* What a thread has in its hands it lets fall.
LEMMA SpillFares ==
  ASSUME LivesAssumption, Types, NEW t \in Thing, Fares(t), Grows, Local, NEW u \in Thread, Spill(u)
  PROVE  Fares(t)'
<1> DEFINE S == step[u].bag
<1>1. /\ ground' = ground \cup S /\ step' = [step EXCEPT ![u] = Still] /\ past' = Moved(past, S)
      /\ UNCHANGED <<self, chest, disk, saver, mob, todo>>
  BY DEF Spill, spawn_item, people, beasts, course
<1>2. Still.bag = {}
  BY DEF Still
<1> HIDE DEF S
<1>3. step'[u].bag = {} /\ \A w \in Thread \ {u} : step'[w].bag = step[w].bag
  BY <1>1, <1>2 DEF Types, PeopleTypes, LoopTypes
<1>4. /\ \A b \in Body : Has(b, t)' <=> Has(b, t)
      /\ Due(t)' <=> Due(t)
      /\ t \in chest' <=> t \in chest
      /\ t \in ground' <=> t \in ground \/ t \in S
      /\ \A q \in Player : t \in self'[q].pack <=> t \in self[q].pack
  BY <1>1 DEF Has, Due
<1>5. \A v \in User : Packed(t, v)' <=> Packed(t, v)
  BY <1>1, SamePacks DEF Holds
<1>6. S \subseteq past'.stirred
  BY <1>1, MovedFates DEF Types, PeopleTypes
<1>7. CASE t \in S
  <2>1. At(t, "bag", u)
    BY <1>7 DEF At, S
  <2>2. Shifts(t, "bag", u, "ground", None)
    BY <1>3, <1>4, <1>5, <1>7 DEF Shifts, Spot
  <2>3. \A q \in Player : PackFits(q, t)
    BY <1>4 DEF PackFits
  <2> QED
    BY <1>6, <1>7, <2>1, <2>2, <2>3, HandOver
<1>8. CASE t \notin S
  <2>1. \A w \in Thread : t \in step'[w].bag <=> t \in step[w].bag
    BY <1>3, <1>8 DEF S
  <2>2. Fixed(t)
    BY <1>4, <1>5, <1>8, <2>1 DEF Fixed
  <2> QED
    BY <1>4, <2>2, UntouchedFares
<1> QED
  BY <1>7, <1>8

\* What is stowed goes from a pack to a chest.
LEMMA StowFares ==
  ASSUME LivesAssumption, Types, TwiceNoted, NEW t \in Thing, Fares(t), Grows, Local,
         NEW p \in Player, NEW x \in Thing, Stow(p, x)
  PROVE  Fares(t)'
<1> DEFINE S == self[p].pack \ {x}
<1>1. /\ self[p].at = "play" /\ x \in self[p].pack /\ PackOf(p, S)
      /\ chest' = chest \cup {x} /\ past' = Moved(past, {x})
      /\ UNCHANGED <<step, ground, disk, saver, mob, todo>>
  BY DEF Stow, PackOf, Free, beasts, course
<1>2. user[p] \in User /\ Holds(p) /\ PackOf(p, S) /\ UNCHANGED <<disk, saver>>
  BY <1>1 DEF LivesAssumption, Holds
<1>3. /\ \A b \in Body : Has(b, t)' <=> Has(b, t)
      /\ \A w \in Thread : t \in step'[w].bag <=> t \in step[w].bag
      /\ Due(t)' <=> Due(t)
      /\ t \in ground' <=> t \in ground
      /\ t \in chest' <=> t \in chest \/ t = x
  BY <1>1 DEF Has, Due
<1>4. x \in past'.stirred
  BY <1>1, MovedFates DEF Types, PeopleTypes
<1>5. CASE t = x
  <2>1. ASSUME ~Given(t)'
        PROVE  /\ At(t, "pack", user[p]) /\ Shifts(t, "pack", user[p], "chest", None)
               /\ \A q \in Player : PackFits(q, t)
    <3>1. Packed(t, user[p]) /\ user[p] \notin past.twice
      BY <1>1, <1>2, <1>5, <2>1, GivenGrows, PlayerPacks DEF Fares
    <3>2. \A v \in User : Packed(t, v)' <=> Packed(t, v) /\ v # user[p]
      <4>1. t \notin S
        BY <1>5
      <4> QED
        BY <1>2, <3>1, <4>1, PackChanges
    <3>3. Shifts(t, "pack", user[p], "chest", None)
      BY <1>2, <1>3, <1>5, <3>2 DEF Shifts, Spot
    <3>4. \A q \in Player : PackFits(q, t)
      BY <1>1, <1>2, <1>5, OnePack DEF PackFits
    <3> QED
      BY <1>2, <3>1, <3>3, <3>4 DEF At
  <2> QED
    BY <1>4, <1>5, <2>1, HandOver
<1>6. CASE t # x
  <2>1. t \in S <=> t \in self[p].pack
    BY <1>6
  <2>2. /\ \A v \in User : Packed(t, v)' <=> Packed(t, v)
        /\ \A q \in Player : t \in self'[q].pack <=> t \in self[q].pack
    BY <1>2, <2>1, PackChanges
  <2> QED
    BY <1>3, <1>6, <2>2, UntouchedFares DEF Fixed
<1> QED
  BY <1>5, <1>6

\* A pack gets a thing: so does its user.
LEMMA PackGets ==
  ASSUME LivesAssumption, Types, TwiceNoted, NEW t, NEW p \in Player, NEW S, PackOf(p, S),
         UNCHANGED <<disk, saver>>, Holds(p), user[p] \notin past.twice, t \in S
  PROVE  \A v \in User : Packed(t, v)' <=> Packed(t, v) \/ v = user[p]
<1>1. Packed(t, user[p])'
  BY PackChanges
<1>2. \A v \in User \ {user[p]} : Packed(t, v)' <=> Packed(t, v)
  BY PackChanges
<1> QED
  BY <1>1, <1>2

\* One thing comes into the pack of one who plays, from a spot that is in no pack.
LEMMA ComingFares ==
  ASSUME LivesAssumption, Types, TwiceNoted, NEW t \in Thing, Fares(t), Grows, Local,
         NEW p \in Player, PackOf(p, self[p].pack \cup {t}), UNCHANGED <<disk, saver>>,
         past' = IF self[p].at = "play" THEN Into(past, p, {t}) ELSE Cut(past, {t}),
         NEW k \in {"chest", "due"}, At(t, k, None),
         \A b \in Body : Has(b, t)' <=> Has(b, t),
         \A w \in Thread : t \in step'[w].bag <=> t \in step[w].bag,
         t \in ground' <=> t \in ground,
         t \in chest' <=> t \in chest /\ k # "chest",
         Due(t)' <=> Due(t) /\ k # "due"
  PROVE  Fares(t)'
<1>0. PICK S : S = self[p].pack \cup {t} /\ PackOf(p, S)
  OBVIOUS
<1>1. user[p] \in User /\ Proper(past)
  BY DEF LivesAssumption, Types, PeopleTypes
<1>2. /\ t \in past'.stirred
      /\ self[p].at # "play" \/ user[p] \in past.twice => t \in past'.cut
  BY <1>1, IntoFates, CutFates
<1>3. ASSUME ~Given(t)'
      PROVE  /\ Shifts(t, k, None, "pack", user[p])
             /\ \A q \in Player : PackFits(q, t)
  <2>1. self[p].at = "play" /\ user[p] \notin past.twice
    BY <1>2, <1>3 DEF Given
  <2>2. Holds(p) /\ t \in S
    BY <1>0, <2>1 DEF Holds
  <2>3. \A v \in User : Packed(t, v)' <=> Packed(t, v) \/ v = user[p]
    BY <1>0, <2>1, <2>2, PackGets
  <2>4. Shifts(t, k, None, "pack", user[p])
    BY <1>1, <2>3 DEF Shifts, Spot
  <2>5. \A q \in Player : PackFits(q, t)
    BY <2>1, OnePack DEF PackFits
  <2> QED
    BY <2>4, <2>5
<1> QED
  BY <1>2, <1>3, HandOver

\* What is fetched goes from a chest to a pack.
LEMMA FetchFares ==
  ASSUME LivesAssumption, Types, TwiceNoted, NEW t \in Thing, Fares(t), Grows, Local,
         NEW p \in Player, NEW x \in Thing, Fetch(p, x)
  PROVE  Fares(t)'
<1>1. /\ self[p].at = "play" /\ x \in chest /\ PackOf(p, self[p].pack \cup {x})
      /\ chest' = chest \ {x} /\ past' = Into(past, p, {x})
      /\ UNCHANGED <<step, ground, disk, saver, mob, todo>>
  BY DEF Fetch, PackOf, Free, beasts, course
<1>2. PackOf(p, self[p].pack \cup {x}) /\ UNCHANGED <<disk, saver>>
  BY <1>1
<1>3. /\ \A b \in Body : Has(b, t)' <=> Has(b, t)
      /\ \A w \in Thread : t \in step'[w].bag <=> t \in step[w].bag
      /\ Due(t)' <=> Due(t)
      /\ t \in ground' <=> t \in ground
      /\ t \in chest' <=> t \in chest /\ t # x
  BY <1>1 DEF Has, Due
<1>4. CASE t = x
  <2>1. /\ At(t, "chest", None)
        /\ past' = IF self[p].at = "play" THEN Into(past, p, {t}) ELSE Cut(past, {t})
    BY <1>1, <1>4 DEF At
  <2> QED
    BY <1>2, <1>3, <1>4, <2>1, ComingFares
<1>5. CASE t # x
  <2>1. t \in self[p].pack \cup {x} <=> t \in self[p].pack
    BY <1>5
  <2>2. /\ \A v \in User : Packed(t, v)' <=> Packed(t, v)
        /\ \A q \in Player : t \in self'[q].pack <=> t \in self[q].pack
    BY <1>2, <2>1, PackChanges
  <2> QED
    BY <1>3, <1>5, <2>2, UntouchedFares DEF Fixed
<1> QED
  BY <1>4, <1>5

\* What is due is given.
LEMMA GiveFares ==
  ASSUME LivesAssumption, Types, TwiceNoted, GivenOnce, NEW t \in Thing, Fares(t), Grows, Local, Give
  PROVE  Fares(t)'
<1>0. /\ Head(todo).arg \in Thing /\ Head(todo).on \in Player
      /\ Due(Head(todo).arg) /\ \A y : Due(y)' <=> Due(y) /\ y # Head(todo).arg
  BY GiveTakes
<1>1. PICK p \in Player, x \in Thing : p = Head(todo).on /\ x = Head(todo).arg
  BY <1>0
<1>2. /\ PackOf(p, self[p].pack \cup {x})
      /\ past' = IF self[p].at = "play" THEN Into(past, p, {x}) ELSE Cut(past, {x})
      /\ UNCHANGED <<step, ground, chest, mob>>
  BY <1>1 DEF Give, PackOf, beasts, stores
<1>3. UNCHANGED <<disk, saver>>
  BY DEF Local
<1>4. /\ \A b \in Body : Has(b, t)' <=> Has(b, t)
      /\ \A w \in Thread : t \in step'[w].bag <=> t \in step[w].bag
      /\ Due(t)' <=> Due(t) /\ t # x
      /\ t \in ground' <=> t \in ground
      /\ t \in chest' <=> t \in chest
  BY <1>0, <1>1, <1>2 DEF Has
<1>5. PackOf(p, self[p].pack \cup {x})
  BY <1>2
<1>6. CASE t = x
  <2>1. /\ At(t, "due", None) /\ PackOf(p, self[p].pack \cup {t})
        /\ past' = IF self[p].at = "play" THEN Into(past, p, {t}) ELSE Cut(past, {t})
    BY <1>0, <1>1, <1>2, <1>6 DEF At
  <2> QED
    BY <1>3, <1>4, <1>6, <2>1, ComingFares
<1>7. CASE t # x
  <2>1. t \in self[p].pack \cup {x} <=> t \in self[p].pack
    BY <1>7
  <2>2. /\ \A v \in User : Packed(t, v)' <=> Packed(t, v)
        /\ \A q \in Player : t \in self'[q].pack <=> t \in self[q].pack
    BY <1>3, <1>5, <2>1, PackChanges
  <2> QED
    BY <1>4, <1>7, <2>2, UntouchedFares DEF Fixed
<1> QED
  BY <1>6, <1>7
=============================================================================
