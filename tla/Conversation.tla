---------------------------- MODULE Conversation ----------------------------
(***************************************************************************)
(* Talking to villagers: start_conversation and talk_to_villager of        *)
(* crates/server/src/connection.rs, the villager table of state.rs, and    *)
(* the game loop's removal of dead mobs (mobs.rs).                         *)
(*                                                                         *)
(* A player's words are handled by the player's own task, one message at a *)
(* time; a request to the model is a task of its own, which holds no lock  *)
(* while it waits.  Every access to a table is one lock section, and one   *)
(* step here.                                                              *)
(***************************************************************************)
EXTENDS FiniteSets, Naturals, Sequences

CONSTANTS Player, Villager,
          Request,       \* bound: requests that can be in flight at once
          HistoryLimit,  \* config.ai.history_limit
          None

VARIABLES
  online,    \* players in Shared.players
  mobs,      \* villagers in Shared.mobs
  dying,     \* villagers the game loop took out of it and not yet out of brain
  brain,     \* Shared.villagers
  enabled,   \* AiConfig.enabled
  talking,   \* talking_to of each player
  pc,        \* what each player's task is doing
  flying,    \* the requests to the model
  rushed,    \* history: villagers asked twice by players who had both seen
             \* them free, until every answer is in
  haunted    \* history: villagers that are gone and that nothing will forget

vars == <<online, mobs, dying, brain, enabled, talking, pc, flying, rushed, haunted>>

Turn  == [role : {"user", "assistant"}, of : Player]
Brain == [busy : BOOLEAN, history : Seq(Turn)]
Query == [villager : Villager, player : Player]

ASSUME ConversationAssumption == /\ HistoryLimit \in Nat
                                 /\ None \notin Villager \cup Brain \cup Query

Idle  == [at |-> "idle", to |-> None]
Free  == [busy |-> FALSE, history |-> <<>>]
Limit == 2 * (IF HistoryLimit > 1 THEN HistoryLimit ELSE 1)

Flights(v) == {r \in Request : flying[r] # None /\ flying[r].villager = v}
Asking(v)  == {p \in Player : pc[p] = [at |-> "asking", to |-> v]}

TypeOK ==
  /\ online \subseteq Player
  /\ \A p \in Player \ online : pc[p] = Idle /\ talking[p] = None
  /\ mobs \subseteq Villager
  /\ dying \subseteq Villager \ mobs
  /\ brain \in [Villager -> Brain \cup {None}]
  /\ enabled \in BOOLEAN
  /\ talking \in [Player -> Villager \cup {None}]
  /\ pc \in [Player -> {Idle} \cup [at : {"greeting", "asking"}, to : Villager]]
  /\ flying \in [Request -> Query \cup {None}]
  /\ rushed \subseteq Villager
  /\ haunted \subseteq Villager

(***************************************************************************)
(* The player's task.                                                      *)
(***************************************************************************)

Goto(p, phase, v) == pc' = [pc EXCEPT ![p] = [at |-> phase, to |-> v]]

Join(p) ==
  /\ p \notin online
  /\ online' = online \cup {p}
  /\ UNCHANGED <<mobs, dying, brain, enabled, talking, pc, flying, rushed, haunted>>

\* A session ends, and with it its conversation; its requests fly on.
Leave(p) ==
  /\ p \in online
  /\ pc[p] = Idle
  /\ online' = online \ {p}
  /\ talking' = [talking EXCEPT ![p] = None]
  /\ UNCHANGED <<mobs, dying, brain, enabled, pc, flying, rushed, haunted>>

\* interact_entity: the villager is there and villagers talk.
Interact(p, v) ==
  /\ p \in online
  /\ pc[p] = Idle
  /\ v \in mobs
  /\ enabled
  /\ Goto(p, "greeting", v)
  /\ UNCHANGED <<online, mobs, dying, brain, enabled, talking, flying, rushed, haunted>>

\* start_conversation registers a villager that is not known: one that died
\* after it was found alive.
StartConversation(p, v) ==
  /\ pc[p] = [at |-> "greeting", to |-> v]
  /\ pc' = [pc EXCEPT ![p] = Idle]
  /\ talking' = [talking EXCEPT ![p] = v]
  /\ brain' = [brain EXCEPT ![v] = IF @ = None THEN Free ELSE @]
  /\ haunted' = IF brain[v] = None THEN haunted \cup {v} ELSE haunted
  /\ UNCHANGED <<online, mobs, dying, enabled, flying, rushed>>

\* Saying bye, to a villager that is gone or when villagers do not talk, ends
\* the conversation; so does every word to the last two.
PartWays(p) ==
  /\ pc[p] = Idle
  /\ talking[p] # None
  /\ talking' = [talking EXCEPT ![p] = None]
  /\ UNCHANGED <<online, mobs, dying, brain, enabled, pc, flying, rushed, haunted>>

\* Mutant: the flag is not looked at.
SpeakUp(p) ==
  LET v == talking[p] IN
  /\ pc[p] = Idle
  /\ v # None
  /\ brain[v] # None
  /\ enabled
  /\ Goto(p, "asking", v)
  /\ rushed' = IF Asking(v) # {} THEN rushed \cup {v} ELSE rushed
  /\ UNCHANGED <<online, mobs, dying, brain, enabled, talking, flying, haunted>>

\* talk_to_villager: the villager is known, villagers talk, and the villager
\* is not busy.  (A busy one has the player told so.)
Speak(p) ==
  LET v == talking[p] IN
  /\ pc[p] = Idle
  /\ v # None
  /\ brain[v] # None /\ ~brain[v].busy
  /\ enabled
  /\ Goto(p, "asking", v)
  /\ rushed' = IF Asking(v) # {} THEN rushed \cup {v} ELSE rushed
  /\ UNCHANGED <<online, mobs, dying, brain, enabled, talking, flying, haunted>>

\* The villager is marked busy, if it is still known, and a task is started
\* that sends the request.
Ask(p, v, r) ==
  /\ pc[p] = [at |-> "asking", to |-> v]
  /\ flying[r] = None
  /\ pc' = [pc EXCEPT ![p] = Idle]
  /\ brain' = [brain EXCEPT ![v] = IF @ = None THEN None ELSE [@ EXCEPT !.busy = TRUE]]
  /\ flying' = [flying EXCEPT ![r] = [villager |-> v, player |-> p]]
  /\ UNCHANGED <<online, mobs, dying, enabled, talking, rushed, haunted>>

(***************************************************************************)
(* The answer.                                                             *)
(***************************************************************************)

Landed(r) ==
  LET v == flying[r].villager IN
  /\ flying' = [flying EXCEPT ![r] = None]
  /\ rushed' = IF Flights(v) = {r} /\ Asking(v) = {} THEN rushed \ {v} ELSE rushed
  /\ UNCHANGED <<online, mobs, dying, enabled, talking, pc, haunted>>

\* One exchange.
Said(p) == <<[role |-> "user", of |-> p], [role |-> "assistant", of |-> p]>>

\* Mutant: room is made before the turns are added, for one of them.
RememberingOneMore(h, p) ==
  LET drop == IF Len(h) >= Limit THEN Len(h) - Limit + 1 ELSE 0
  IN  SubSeq(h, drop + 1, Len(h)) \o Said(p)

\* What the villager remembers with it: the last turns.
Remembering(h, p) ==
  LET turns == h \o Said(p)
      drop  == IF Len(turns) > Limit THEN Len(turns) - Limit ELSE 0
  IN  SubSeq(turns, drop + 1, Len(turns))

\* Mutant: the flag is cleared on errors only.
AnswerBusy(r) ==
  /\ flying[r] # None
  /\ LET v == flying[r].villager IN
     brain' = [brain EXCEPT ![v] =
                 IF @ = None THEN None
                 ELSE [@ EXCEPT !.history = Remembering(@, flying[r].player)]]
  /\ Landed(r)

Answer(r) ==
  /\ flying[r] # None
  /\ LET v == flying[r].villager IN
     brain' = [brain EXCEPT ![v] =
                 IF @ = None THEN None
                 ELSE [busy |-> FALSE, history |-> Remembering(@.history, flying[r].player)]]
  /\ Landed(r)

\* Mutant: an error leaves the villager busy.
FailBusy(r) ==
  /\ flying[r] # None
  /\ brain' = brain
  /\ Landed(r)

\* An error, or no answer for 30 seconds.
Fail(r) ==
  /\ flying[r] # None
  /\ LET v == flying[r].villager IN
     brain' = [brain EXCEPT ![v] = IF @ = None THEN None ELSE [@ EXCEPT !.busy = FALSE]]
  /\ Landed(r)

(***************************************************************************)
(* The game loop and the administrator.                                    *)
(***************************************************************************)

\* Mutant: the mob stays in its table.
DieAndStay(v) ==
  /\ v \in mobs
  /\ dying' = dying \cup {v}
  /\ UNCHANGED <<online, mobs, brain, enabled, talking, pc, flying, rushed, haunted>>

\* mobs::tick takes a dead mob out of the mob table ...
Die(v) ==
  /\ v \in mobs
  /\ mobs' = mobs \ {v}
  /\ dying' = dying \cup {v}
  /\ UNCHANGED <<online, brain, enabled, talking, pc, flying, rushed, haunted>>

\* Mutant: the game loop does not forget the villager.
RemoveNothing(v) ==
  /\ v \in dying
  /\ dying' = dying \ {v}
  /\ brain' = brain
  /\ UNCHANGED <<online, mobs, enabled, talking, pc, flying, rushed, haunted>>

\* ... and then out of the villager table.
RemoveVillager(v) ==
  /\ v \in dying
  /\ dying' = dying \ {v}
  /\ brain' = [brain EXCEPT ![v] = None]
  /\ UNCHANGED <<online, mobs, enabled, talking, pc, flying, rushed, haunted>>

\* With nobody online mobs::tick clears the mob table, and no other.
ClearMobs ==
  /\ online = {}
  /\ mobs # {}
  /\ mobs' = {}
  /\ haunted' = haunted \cup mobs
  /\ UNCHANGED <<online, dying, brain, enabled, talking, pc, flying, rushed>>

SetAiConfig ==
  /\ enabled' = ~enabled
  /\ UNCHANGED <<online, mobs, dying, brain, talking, pc, flying, rushed, haunted>>

\* Villagers are registered when they are spawned.
Init ==
  /\ online = {}
  /\ mobs = Villager
  /\ dying = {}
  /\ brain = [v \in Villager |-> Free]
  /\ enabled \in BOOLEAN
  /\ talking = [p \in Player |-> None]
  /\ pc = [p \in Player |-> Idle]
  /\ flying = [r \in Request |-> None]
  /\ rushed = {}
  /\ haunted = {}

Next ==
  \/ \E p \in Player, v \in Villager :
       \/ Interact(p, v)
       \/ StartConversation(p, v)
       \/ \E r \in Request : Ask(p, v, r)
  \/ \E p \in Player : Join(p) \/ Leave(p) \/ PartWays(p) \/ Speak(p)
  \/ \E r \in Request : Answer(r) \/ Fail(r)
  \/ \E v \in Villager : Die(v) \/ RemoveVillager(v)
  \/ ClearMobs
  \/ SetAiConfig

Spec == Init /\ [][Next]_vars

\* The HTTP client gives up after 30 seconds.
FairSpec == Spec /\ \A r \in Request : WF_vars(Answer(r) \/ Fail(r))

-----------------------------------------------------------------------------

\* Whole exchanges: a user's turn and the answer to it, and so on.
IsDialogue(h) ==
  /\ \A i \in 1 .. Len(h) : h[i].role = (IF i % 2 = 1 THEN "user" ELSE "assistant")
  /\ Len(h) % 2 = 0
  /\ \A i \in 1 .. Len(h) \div 2 : h[2 * i - 1].of = h[2 * i].of

\* What a villager remembers is bounded and made of whole exchanges, however
\* the answers come in.
HistoryIsDialogue ==
  \A v \in Villager : brain[v] # None =>
    /\ Len(brain[v].history) <= Limit
    /\ IsDialogue(brain[v].history)

\* A villager is never left thinking: while it is busy, a request to the model
\* is in flight for it.
BusyIsAnswered ==
  \A v \in Villager : brain[v] # None /\ brain[v].busy => Flights(v) # {}

\* "True while a request to the model is in flight (single-flight)"
\* (state.rs:79): a villager has a second request in flight only when two
\* players had seen it free, or it was registered anew after its death.
SecondFlightByRush ==
  \A v \in Villager : Cardinality(Flights(v)) > 1 => v \in rushed \cup haunted

\* A villager that is gone is remembered only if a player who had found it
\* alive registered it too late, or if it went when nobody was online.
GhostsByRace ==
  \A v \in Villager \ (mobs \cup dying) : brain[v] # None => v \in haunted

\* A busy villager is one day free again.
ComesRound ==
  \A v \in Villager :
    (brain[v] # None /\ brain[v].busy) ~> (brain[v] = None \/ ~brain[v].busy)
=============================================================================
