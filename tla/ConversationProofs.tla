-------------------------- MODULE ConversationProofs --------------------------
(***************************************************************************)
(* Theorems about Conversation, for any number of players, villagers and   *)
(* requests and every limit on the history: its types, that no villager is *)
(* left thinking, how it comes to have two requests in flight, and who is  *)
(* remembered that is gone.                                                *)
(***************************************************************************)
EXTENDS Conversation, FiniteSetTheorems, SequenceTheorems, TLAPS

\* The bound on the history is an even number of turns, and at least one
\* exchange.
LEMMA LimitType == Limit \in Nat /\ Limit >= 2 /\ Limit % 2 = 0
  BY ConversationAssumption DEF Limit

\* What is remembered after an exchange is a sequence of turns.
LEMMA RememberingType ==
  ASSUME NEW h \in Seq(Turn), NEW p \in Player
  PROVE  Remembering(h, p) \in Seq(Turn)
<1> DEFINE turns == h \o Said(p)
           drop  == IF Len(turns) > Limit THEN Len(turns) - Limit ELSE 0
<1>1. Said(p) \in Seq(Turn)
  BY DEF Said, Turn
<1>2. turns \in Seq(Turn)
  BY <1>1
<1>3. drop \in Nat
  BY <1>2, LimitType
<1> HIDE DEF turns, drop
<1>4. SubSeq(turns, drop + 1, Len(turns)) \in Seq(Turn)
  BY <1>2, <1>3
<1> QED
  BY <1>4 DEF Remembering, turns, drop

\* Every variable keeps its type through every step of players, requests, game
\* loop and administrator; whoever is not online talks to nobody.
THEOREM TypeCorrect == Spec => []TypeOK
<1> USE ConversationAssumption
<1>1. Init => TypeOK
  BY DEF Init, TypeOK, Brain, Free
<1>2. TypeOK /\ [Next]_vars => TypeOK'
  <2> SUFFICES ASSUME TypeOK, [Next]_vars PROVE TypeOK'
    OBVIOUS
  <2>1. ASSUME NEW p \in Player, NEW v \in Villager, Interact(p, v) PROVE TypeOK'
    BY <2>1 DEF Interact, Goto, TypeOK
  <2>2. ASSUME NEW p \in Player, NEW v \in Villager, StartConversation(p, v) PROVE TypeOK'
    <3>1. brain' \in [Villager -> Brain \cup {None}]
      BY <2>2 DEF StartConversation, TypeOK, Brain, Free
    <3>2. p \in online
      BY <2>2 DEF StartConversation, TypeOK, Idle
    <3> QED
      BY <2>2, <3>1, <3>2 DEF StartConversation, TypeOK
  <2>3. ASSUME NEW p \in Player, NEW v \in Villager, NEW r \in Request, Ask(p, v, r)
        PROVE  TypeOK'
    <3>a. ASSUME NEW b \in Brain PROVE [b EXCEPT !.busy = TRUE] \in Brain
      BY DEF Brain
    <3>1. brain' \in [Villager -> Brain \cup {None}]
      BY <2>3, <3>a DEF Ask, TypeOK
    <3>2. flying' \in [Request -> Query \cup {None}]
      BY <2>3 DEF Ask, TypeOK, Query
    <3>3. p \in online
      BY <2>3 DEF Ask, TypeOK, Idle
    <3> QED
      BY <2>3, <3>1, <3>2, <3>3 DEF Ask, TypeOK
  <2>4. ASSUME NEW p \in Player, Join(p) PROVE TypeOK'
    BY <2>4 DEF Join, TypeOK
  <2>5. ASSUME NEW p \in Player, Leave(p) PROVE TypeOK'
    BY <2>5 DEF Leave, TypeOK
  <2>6. ASSUME NEW p \in Player, PartWays(p) PROVE TypeOK'
    BY <2>6 DEF PartWays, TypeOK
  <2>7. ASSUME NEW p \in Player, Speak(p) PROVE TypeOK'
    <3>1. talking[p] \in Villager /\ p \in online
      BY <2>7 DEF Speak, TypeOK
    <3> QED
      BY <2>7, <3>1 DEF Speak, Goto, TypeOK
  <2>8. ASSUME NEW r \in Request, Answer(r) PROVE TypeOK'
    <3>1. flying[r] \in Query
      BY <2>8 DEF Answer, TypeOK
    <3>2. flying[r].villager \in Villager /\ flying[r].player \in Player
      BY <3>1 DEF Query
    <3>3. ASSUME NEW b \in Brain PROVE Remembering(b.history, flying[r].player) \in Seq(Turn)
      BY <3>2, RememberingType DEF Brain
    <3>4. brain' \in [Villager -> Brain \cup {None}]
      BY <2>8, <3>2, <3>3 DEF Answer, TypeOK, Brain
    <3> QED
      BY <2>8, <3>4 DEF Answer, Landed, TypeOK
  <2>9. ASSUME NEW r \in Request, Fail(r) PROVE TypeOK'
    <3>a. ASSUME NEW b \in Brain PROVE [b EXCEPT !.busy = FALSE] \in Brain
      BY DEF Brain
    <3>b. flying[r].villager \in Villager
      BY <2>9 DEF Fail, TypeOK, Query
    <3>1. brain' \in [Villager -> Brain \cup {None}]
      BY <2>9, <3>a, <3>b DEF Fail, TypeOK
    <3> QED
      BY <2>9, <3>1 DEF Fail, Landed, TypeOK
  <2>10. ASSUME NEW v \in Villager, Die(v) PROVE TypeOK'
    BY <2>10 DEF Die, TypeOK
  <2>11. ASSUME NEW v \in Villager, RemoveVillager(v) PROVE TypeOK'
    BY <2>11 DEF RemoveVillager, TypeOK
  <2>12. CASE ClearMobs
    BY <2>12 DEF ClearMobs, TypeOK
  <2>13. CASE SetAiConfig
    BY <2>13 DEF SetAiConfig, TypeOK
  <2>14. CASE UNCHANGED vars
    BY <2>14 DEF vars, TypeOK
  <2> QED
    BY <2>1, <2>2, <2>3, <2>4, <2>5, <2>6, <2>7, <2>8, <2>9, <2>10, <2>11,
       <2>12, <2>13, <2>14 DEF Next
<1> QED
  BY <1>1, <1>2, PTL DEF Spec

-----------------------------------------------------------------------------

\* Sending a request adds it to those in flight for its villager.
LEMMA AskFlights ==
  ASSUME TypeOK, NEW p \in Player, NEW v \in Villager, NEW r \in Request, Ask(p, v, r)
  PROVE  /\ Flights(v)' = Flights(v) \cup {r}
         /\ \A u \in Villager \ {v} : Flights(u)' = Flights(u)
<1>1. [villager |-> v, player |-> p] # None
  BY ConversationAssumption DEF Query
<1> QED
  BY <1>1 DEF Ask, Flights, TypeOK

\* The end of a request takes it from those in flight for its villager.
LEMMA LandedFlights ==
  ASSUME TypeOK, NEW r \in Request, flying[r] # None, Landed(r)
  PROVE  /\ flying[r].villager \in Villager
         /\ r \in Flights(flying[r].villager)
         /\ \A u \in Villager : Flights(u)' = Flights(u) \ {r}
         /\ \A u \in Villager \ {flying[r].villager} : Flights(u)' = Flights(u)
  BY DEF Landed, Flights, TypeOK, Query

\* While a villager is busy, a request is in flight for it: the flag is set
\* with a request and cleared with one, and no request of another villager
\* counts.
THEOREM NoneLeftThinking == Spec => []BusyIsAnswered
<1>1. Init => BusyIsAnswered
  BY DEF Init, BusyIsAnswered, Free
<1>2. TypeOK /\ BusyIsAnswered /\ [Next]_vars => BusyIsAnswered'
  <2> SUFFICES ASSUME TypeOK, BusyIsAnswered, [Next]_vars,
                      NEW u \in Villager, brain'[u] # None, brain'[u].busy
               PROVE  Flights(u)' # {}
    BY DEF BusyIsAnswered
  <2>1. CASE UNCHANGED <<brain, flying>>
    BY <2>1 DEF BusyIsAnswered, Flights
  <2>2. ASSUME NEW p \in Player, NEW v \in Villager, StartConversation(p, v)
        PROVE  Flights(u)' # {}
    BY <2>2 DEF StartConversation, BusyIsAnswered, Flights, Free, TypeOK
  <2>3. ASSUME NEW p \in Player, NEW v \in Villager, NEW r \in Request, Ask(p, v, r)
        PROVE  Flights(u)' # {}
    <3>1. CASE u = v
      BY <2>3, <3>1, AskFlights
    <3>2. CASE u # v
      BY <2>3, <3>2, AskFlights DEF Ask, BusyIsAnswered, TypeOK
    <3> QED
      BY <3>1, <3>2
  <2>4. ASSUME NEW r \in Request, Answer(r) \/ Fail(r) PROVE Flights(u)' # {}
    <3>1. flying[r] # None /\ Landed(r)
      BY <2>4 DEF Answer, Fail
    <3>2. u # flying[r].villager
      BY <2>4, <3>1, LandedFlights DEF Answer, Fail, TypeOK, Brain
    <3>3. brain'[u] = brain[u]
      BY <2>4, <3>2 DEF Answer, Fail, TypeOK
    <3> QED
      BY <3>1, <3>2, <3>3, LandedFlights DEF BusyIsAnswered
  <2>5. ASSUME NEW v \in Villager, RemoveVillager(v) PROVE Flights(u)' # {}
    BY <2>5 DEF RemoveVillager, BusyIsAnswered, Flights, TypeOK
  <2> QED
    BY <2>1, <2>2, <2>3, <2>4, <2>5
    DEF Next, vars, Interact, Join, Leave, PartWays, Speak, Die, ClearMobs, SetAiConfig
<1> QED
  BY <1>1, <1>2, TypeCorrect, PTL DEF Spec

\* A villager that is gone and still remembered was registered too late, or
\* cleared away with all mobs.
THEOREM GhostsExplained == Spec => []GhostsByRace
<1>1. Init => GhostsByRace
  BY DEF Init, GhostsByRace
<1>2. TypeOK /\ GhostsByRace /\ [Next]_vars => GhostsByRace'
  <2> SUFFICES ASSUME TypeOK, GhostsByRace, [Next]_vars,
                      NEW u \in Villager, u \notin mobs' \cup dying', brain'[u] # None
               PROVE  u \in haunted'
    BY DEF GhostsByRace
  <2>1. CASE UNCHANGED <<mobs, dying, brain, haunted>>
    BY <2>1 DEF GhostsByRace
  <2>2. ASSUME NEW p \in Player, NEW v \in Villager, StartConversation(p, v)
        PROVE  u \in haunted'
    BY <2>2 DEF StartConversation, GhostsByRace, TypeOK
  <2>3. ASSUME NEW p \in Player, NEW v \in Villager, NEW r \in Request, Ask(p, v, r)
        PROVE  u \in haunted'
    BY <2>3 DEF Ask, GhostsByRace, TypeOK
  <2>4. ASSUME NEW r \in Request, Answer(r) \/ Fail(r) PROVE u \in haunted'
    <3>1. brain[u] # None
      BY <2>4 DEF Answer, Fail, TypeOK
    <3> QED
      BY <2>4, <3>1 DEF Answer, Fail, Landed, GhostsByRace
  <2>5. ASSUME NEW v \in Villager, RemoveVillager(v) PROVE u \in haunted'
    BY <2>5 DEF RemoveVillager, GhostsByRace, TypeOK
  <2>6. ASSUME NEW v \in Villager, Die(v) PROVE u \in haunted'
    BY <2>6 DEF Die, GhostsByRace, TypeOK
  <2>7. CASE ClearMobs
    BY <2>7 DEF ClearMobs, GhostsByRace
  <2> QED
    BY <2>1, <2>2, <2>3, <2>4, <2>5, <2>6, <2>7
    DEF Next, vars, Interact, Join, Leave, PartWays, Speak, SetAiConfig
<1> QED
  BY <1>1, <1>2, TypeCorrect, PTL DEF Spec

-----------------------------------------------------------------------------

\* The inductive strengthening of SecondFlightByRush: a villager that nobody
\* rushed and that is not a ghost has one request at most, in flight or about
\* to be sent, and is busy while it is in flight.
SoloInv ==
  \A v \in Villager \ (rushed \cup haunted) :
    /\ \A r, s \in Flights(v) : r = s
    /\ \A p, q \in Asking(v) : p = q
    /\ Flights(v) = {} \/ Asking(v) = {}
    /\ Flights(v) # {} => brain[v] = None \/ brain[v].busy

\* The steps of a player's task that neither take up nor finish a question.
LEMMA AskingUnchanged ==
  ASSUME TypeOK, NEW p \in Player, NEW v \in Villager, NEW u \in Villager,
         Interact(p, v) \/ StartConversation(p, v)
  PROVE  Asking(u)' = Asking(u)
  BY DEF Interact, Goto, StartConversation, Asking, TypeOK, Idle

LEMMA SoloStep == TypeOK /\ SoloInv /\ [Next]_vars => SoloInv'
<1> SUFFICES ASSUME TypeOK, SoloInv, [Next]_vars,
                    NEW u \in Villager, u \notin rushed' \cup haunted'
             PROVE  /\ \A r, s \in Flights(u)' : r = s
                    /\ \A p, q \in Asking(u)' : p = q
                    /\ Flights(u)' = {} \/ Asking(u)' = {}
                    /\ Flights(u)' # {} => brain'[u] = None \/ brain'[u].busy
  BY DEF SoloInv
<1> DEFINE Goal == /\ \A r, s \in Flights(u)' : r = s
                   /\ \A p, q \in Asking(u)' : p = q
                   /\ Flights(u)' = {} \/ Asking(u)' = {}
                   /\ Flights(u)' # {} => brain'[u] = None \/ brain'[u].busy
<1>1. CASE UNCHANGED <<brain, pc, flying, rushed>> /\ haunted \subseteq haunted'
  BY <1>1 DEF SoloInv, Flights, Asking
<1>2. ASSUME NEW p \in Player, NEW v \in Villager, Interact(p, v) PROVE Goal
  <2>1. Asking(u)' = Asking(u)
    BY <1>2, AskingUnchanged
  <2>2. Flights(u)' = Flights(u) /\ brain' = brain /\ u \notin rushed \cup haunted
    BY <1>2 DEF Interact, Flights
  <2> QED
    BY <2>1, <2>2 DEF SoloInv
<1>3. ASSUME NEW p \in Player, NEW v \in Villager, StartConversation(p, v) PROVE Goal
  <2>1. Asking(u)' = Asking(u)
    BY <1>3, AskingUnchanged
  <2>2. Flights(u)' = Flights(u) /\ brain'[u] = brain[u] /\ u \notin rushed \cup haunted
    BY <1>3 DEF StartConversation, Flights, TypeOK
  <2> QED
    BY <2>1, <2>2 DEF SoloInv
<1>4. ASSUME NEW p \in Player, Speak(p) PROVE Goal
  <2> DEFINE v == talking[p]
  <2>1. v \in Villager /\ brain[v] # None /\ ~brain[v].busy
    BY <1>4 DEF Speak, TypeOK
  <2>2. Flights(u)' = Flights(u) /\ brain' = brain /\ u \notin rushed \cup haunted
    BY <1>4 DEF Speak, Flights
  <2>3. CASE u = v
    <3>1. Asking(u) = {}
      BY <1>4, <2>3 DEF Speak
    <3>2. Asking(u)' \subseteq {p}
      BY <1>4, <2>3, <3>1 DEF Speak, Goto, Asking, TypeOK
    <3>3. Flights(u) = {}
      BY <2>1, <2>2, <2>3 DEF SoloInv
    <3> QED
      BY <2>2, <3>2, <3>3
  <2>4. CASE u # v
    <3>1. Asking(u)' = Asking(u)
      BY <1>4, <2>4, <2>1 DEF Speak, Goto, Asking, TypeOK, Idle
    <3> QED
      BY <2>2, <3>1 DEF SoloInv
  <2> QED
    BY <2>3, <2>4
<1>5. ASSUME NEW p \in Player, NEW v \in Villager, NEW r \in Request, Ask(p, v, r)
      PROVE  Goal
  <2>1. u \notin rushed \cup haunted
    BY <1>5 DEF Ask
  <2>2. Asking(u)' = Asking(u) \ {p} /\ p \in Asking(v)
    BY <1>5 DEF Ask, Asking, TypeOK, Idle
  <2>3. CASE u = v
    <3>1. Asking(u) = {p} /\ Flights(u) = {}
      BY <2>1, <2>2, <2>3 DEF SoloInv
    <3>2. Flights(u)' = {r}
      BY <1>5, <2>3, <3>1, AskFlights
    <3>3. brain'[u] = None \/ brain'[u].busy
      BY <1>5, <2>3 DEF Ask, TypeOK, Brain
    <3> QED
      BY <2>2, <3>1, <3>2, <3>3
  <2>4. CASE u # v
    <3>1. Flights(u)' = Flights(u) /\ brain'[u] = brain[u]
      BY <1>5, <2>4, AskFlights DEF Ask, TypeOK
    <3> QED
      BY <2>1, <2>2, <3>1 DEF SoloInv
  <2> QED
    BY <2>3, <2>4
<1>6. ASSUME NEW r \in Request, Answer(r) \/ Fail(r) PROVE Goal
  <2> DEFINE v == flying[r].villager
  <2>1. flying[r] # None /\ Landed(r)
    BY <1>6 DEF Answer, Fail
  <2>2. Asking(u)' = Asking(u) /\ haunted' = haunted
    BY <2>1 DEF Landed, Asking
  <2>3. CASE u = v
    <3>1. \/ u \notin rushed \cup haunted
          \/ Flights(u) = {r} /\ Asking(u) = {}
      BY <2>1, <2>2, <2>3 DEF Landed
    <3>2. Flights(u) = {r} /\ Asking(u) = {}
      BY <2>1, <2>3, <3>1, LandedFlights DEF SoloInv
    <3>3. Flights(u)' = {}
      BY <2>1, <3>2, LandedFlights
    <3> QED
      BY <2>2, <3>2, <3>3
  <2>4. CASE u # v
    <3>1. Flights(u)' = Flights(u) /\ brain'[u] = brain[u]
      BY <1>6, <2>1, <2>4, LandedFlights DEF Answer, Fail, TypeOK
    <3>2. u \notin rushed \cup haunted
      BY <2>1, <2>2, <2>4 DEF Landed
    <3> QED
      BY <2>2, <3>1, <3>2 DEF SoloInv
  <2> QED
    BY <2>3, <2>4
<1>7. ASSUME NEW v \in Villager, RemoveVillager(v) PROVE Goal
  <2>1. Flights(u)' = Flights(u) /\ Asking(u)' = Asking(u) /\ u \notin rushed \cup haunted
    BY <1>7 DEF RemoveVillager, Flights, Asking
  <2>2. brain'[u] = None \/ brain'[u] = brain[u]
    BY <1>7 DEF RemoveVillager, TypeOK
  <2> QED
    BY <2>1, <2>2 DEF SoloInv
<1> QED
  BY <1>1, <1>2, <1>3, <1>4, <1>5, <1>6, <1>7
  DEF Next, vars, Join, Leave, PartWays, Die, ClearMobs, SetAiConfig

\* Two requests are in flight for a villager only after two players had both
\* seen it free, or after it was registered anew when it was gone.
THEOREM SecondFlightExplained == Spec => []SecondFlightByRush
<1>1. Init => SoloInv
  BY DEF Init, SoloInv, Flights, Asking, Idle
<1>2. SoloInv => SecondFlightByRush
  <2> SUFFICES ASSUME SoloInv, NEW v \in Villager \ (rushed \cup haunted)
               PROVE  ~(Cardinality(Flights(v)) > 1)
    BY DEF SecondFlightByRush
  <2>1. CASE Flights(v) = {}
    BY <2>1, FS_EmptySet
  <2>2. ASSUME NEW r \in Flights(v) PROVE ~(Cardinality(Flights(v)) > 1)
    <3>1. Flights(v) = {r}
      BY <2>2 DEF SoloInv
    <3>2. Cardinality({r}) = 1
      BY FS_Singleton, Zenon
    <3> QED
      BY <3>1, <3>2
  <2> QED
    BY <2>1, <2>2
<1> QED
  BY <1>1, <1>2, SoloStep, TypeCorrect, PTL DEF Spec

-----------------------------------------------------------------------------

\* An exchange appended to a dialogue makes a dialogue.
LEMMA ExchangeAppended ==
  ASSUME NEW h \in Seq(Turn), IsDialogue(h), NEW p \in Player
  PROVE  /\ h \o Said(p) \in Seq(Turn)
         /\ Len(h \o Said(p)) = Len(h) + 2
         /\ IsDialogue(h \o Said(p))
<1> DEFINE turns == h \o Said(p)
           n == Len(h)
<1>1. Said(p) \in Seq(Turn) /\ Len(Said(p)) = 2
  BY DEF Said, Turn
<1>2. turns \in Seq(Turn) /\ Len(turns) = n + 2 /\ n \in Nat
  <2>1. turns \in Seq(Turn) /\ Len(turns) = Len(h) + Len(Said(p))
    BY <1>1, ConcatProperties, Zenon
  <2> QED
    BY <1>1, <2>1, LenProperties
<1>3. /\ \A i \in 1 .. n : turns[i] = h[i]
      /\ turns[n + 1] = [role |-> "user", of |-> p]
      /\ turns[n + 2] = [role |-> "assistant", of |-> p]
  BY <1>1 DEF Said
<1>4. n % 2 = 0
  BY DEF IsDialogue
<1> HIDE DEF turns
<1>5. ASSUME NEW i \in 1 .. n + 2
      PROVE  turns[i].role = (IF i % 2 = 1 THEN "user" ELSE "assistant")
  <2>1. CASE i \in 1 .. n
    BY <1>3, <2>1 DEF IsDialogue
  <2>2. CASE i = n + 1
    <3>1. i % 2 = 1
      BY <1>2, <1>4, <2>2
    <3> QED
      BY <1>3, <2>2, <3>1
  <2>3. CASE i = n + 2
    <3>1. i % 2 = 0
      BY <1>2, <1>4, <2>3
    <3> QED
      BY <1>3, <2>3, <3>1
  <2> QED
    BY <1>2, <2>1, <2>2, <2>3
<1>6. ASSUME NEW i \in 1 .. (n + 2) \div 2 PROVE turns[2 * i - 1].of = turns[2 * i].of
  <2>1. CASE i \in 1 .. n \div 2
    <3>1. 2 * i - 1 \in 1 .. n /\ 2 * i \in 1 .. n
      BY <1>2, <2>1
    <3>2. h[2 * i - 1].of = h[2 * i].of
      BY <2>1 DEF IsDialogue
    <3> QED
      BY <1>3, <3>1, <3>2
  <2>2. CASE i \notin 1 .. n \div 2
    <3>1. 2 * i - 1 = n + 1 /\ 2 * i = n + 2
      BY <1>2, <1>4, <2>2
    <3> QED
      BY <1>3, <3>1
  <2> QED
    BY <2>1, <2>2
<1>7. (n + 2) % 2 = 0
  BY <1>2, <1>4
<1>8. IsDialogue(turns)
  BY <1>2, <1>5, <1>6, <1>7 DEF IsDialogue
<1> QED
  BY <1>2, <1>8 DEF turns

\* A dialogue without its first exchange is a dialogue.
LEMMA ExchangeDropped ==
  ASSUME NEW t \in Seq(Turn), IsDialogue(t), Len(t) >= 2
  PROVE  IsDialogue(SubSeq(t, 3, Len(t))) /\ Len(SubSeq(t, 3, Len(t))) = Len(t) - 2
<1> DEFINE s == SubSeq(t, 3, Len(t))
           n == Len(t)
<1>1. n \in Nat /\ n >= 2 /\ n % 2 = 0
  BY LenProperties DEF IsDialogue
<1>2. Len(s) = n - 2 /\ \A i \in 1 .. n - 2 : s[i] = t[i + 2]
  <2>1. \A i \in 3 .. n : t[i] \in Turn
    BY <1>1, ElementOfSeq
  <2>2. /\ Len(s) = IF 3 <= n THEN n - 3 + 1 ELSE 0
        /\ \A i \in 1 .. n - 3 + 1 : s[i] = t[3 + i - 1]
    BY <1>1, <2>1, SubSeqProperties
  <2> HIDE DEF n, s
  <2> QED
    BY <1>1, <2>2
<1> HIDE DEF s
<1>3. ASSUME NEW i \in 1 .. n - 2
      PROVE  s[i].role = (IF i % 2 = 1 THEN "user" ELSE "assistant")
  <2>1. i + 2 \in 1 .. n /\ (i + 2) % 2 = i % 2
    BY <1>1
  <2>2. t[i + 2].role = (IF (i + 2) % 2 = 1 THEN "user" ELSE "assistant")
    BY <2>1 DEF IsDialogue
  <2> QED
    BY <1>2, <2>1, <2>2
<1>4. ASSUME NEW i \in 1 .. (n - 2) \div 2 PROVE s[2 * i - 1].of = s[2 * i].of
  <2>1. i + 1 \in 1 .. n \div 2
    BY <1>1
  <2>2. t[2 * (i + 1) - 1].of = t[2 * (i + 1)].of
    BY <2>1 DEF IsDialogue
  <2>3. /\ 2 * i - 1 \in 1 .. n - 2 /\ (2 * i - 1) + 2 = 2 * (i + 1) - 1
        /\ 2 * i \in 1 .. n - 2 /\ 2 * i + 2 = 2 * (i + 1)
    BY <1>1
  <2>4. s[2 * i - 1] = t[2 * (i + 1) - 1] /\ s[2 * i] = t[2 * (i + 1)]
    BY <1>2, <2>3
  <2> QED
    BY <2>2, <2>4
<1>5. (n - 2) % 2 = 0
  BY <1>1
<1>6. IsDialogue(s)
  BY <1>2, <1>3, <1>4, <1>5 DEF IsDialogue
<1> QED
  BY <1>2, <1>6 DEF s

\* What a villager remembers of an exchange is a dialogue again, and no longer
\* than the limit: as both are even, it is one exchange that is dropped.
LEMMA RememberingDialogue ==
  ASSUME NEW h \in Seq(Turn), IsDialogue(h), Len(h) <= Limit, NEW p \in Player
  PROVE  IsDialogue(Remembering(h, p)) /\ Len(Remembering(h, p)) <= Limit
<1> DEFINE turns == h \o Said(p)
           drop  == IF Len(turns) > Limit THEN Len(turns) - Limit ELSE 0
<1>1. turns \in Seq(Turn) /\ Len(turns) = Len(h) + 2 /\ IsDialogue(turns)
  BY ExchangeAppended
<1>2. Len(h) \in Nat /\ Len(h) % 2 = 0
  BY LenProperties DEF IsDialogue
<1>3. Remembering(h, p) = SubSeq(turns, drop + 1, Len(turns))
  BY DEF Remembering
<1> HIDE DEF turns
<1>4. CASE Len(turns) > Limit
  <2>1. drop + 1 = 3 /\ Len(turns) - 2 <= Limit
    BY <1>1, <1>2, <1>4, LimitType
  <2>2. Remembering(h, p) = SubSeq(turns, 3, Len(turns))
    BY <1>3, <2>1
  <2> QED
    BY <1>1, <1>2, <2>1, <2>2, ExchangeDropped
<1>5. CASE ~(Len(turns) > Limit)
  <2>1. Remembering(h, p) = SubSeq(turns, 1, Len(turns))
    BY <1>3, <1>5
  <2>2. SubSeq(turns, 1, Len(turns)) = turns
    BY <1>1, SubSeqFull
  <2>3. Len(turns) <= Limit
    BY <1>1, <1>2, <1>5, LimitType
  <2> QED
    BY <1>1, <2>1, <2>2, <2>3
<1> QED
  BY <1>4, <1>5

\* Whatever order the answers come in, from whomever, a villager remembers
\* whole exchanges, and no more of them than the limit.
THEOREM HistoryCorrect == Spec => []HistoryIsDialogue
<1>1. Init => HistoryIsDialogue
  BY LimitType DEF Init, HistoryIsDialogue, IsDialogue, Free
<1>2. TypeOK /\ HistoryIsDialogue /\ [Next]_vars => HistoryIsDialogue'
  <2> DEFINE Good(b) == b # None => Len(b.history) <= Limit /\ IsDialogue(b.history)
  <2> SUFFICES ASSUME TypeOK, HistoryIsDialogue, [Next]_vars, NEW u \in Villager
               PROVE  Good(brain'[u])
    BY DEF HistoryIsDialogue
  <2>1. Good(brain[u])
    BY DEF HistoryIsDialogue
  <2> HIDE DEF Good
  <2>2. CASE brain' = brain
    BY <2>1, <2>2
  <2>3. ASSUME NEW p \in Player, NEW v \in Villager, StartConversation(p, v)
        PROVE  Good(brain'[u])
    <3>1. Good(Free)
      BY LimitType DEF Good, Free, IsDialogue
    <3>2. brain'[u] = brain[u] \/ brain'[u] = Free
      BY <2>3 DEF StartConversation, TypeOK
    <3> QED
      BY <2>1, <3>1, <3>2
  <2>4. ASSUME NEW p \in Player, NEW v \in Villager, NEW r \in Request, Ask(p, v, r)
        PROVE  Good(brain'[u])
    <3>1. \/ brain'[u] = brain[u]
          \/ brain[u] # None /\ brain'[u] = [brain[u] EXCEPT !.busy = TRUE]
      BY <2>4 DEF Ask, TypeOK
    <3>2. ASSUME brain[u] # None
          PROVE  [brain[u] EXCEPT !.busy = TRUE].history = brain[u].history
      BY <3>2 DEF TypeOK, Brain
    <3> QED
      BY <2>1, <3>1, <3>2 DEF Good
  <2>5. ASSUME NEW r \in Request, Fail(r) PROVE Good(brain'[u])
    <3>1. \/ brain'[u] = brain[u]
          \/ brain[u] # None /\ brain'[u] = [brain[u] EXCEPT !.busy = FALSE]
      BY <2>5 DEF Fail, TypeOK
    <3>2. ASSUME brain[u] # None
          PROVE  [brain[u] EXCEPT !.busy = FALSE].history = brain[u].history
      BY <3>2 DEF TypeOK, Brain
    <3> QED
      BY <2>1, <3>1, <3>2 DEF Good
  <2>6. ASSUME NEW r \in Request, Answer(r) PROVE Good(brain'[u])
    <3>1. flying[r].player \in Player
      BY <2>6 DEF Answer, TypeOK, Query
    <3>2. \/ brain'[u] = brain[u]
          \/ /\ brain[u] # None
             /\ brain'[u].history = Remembering(brain[u].history, flying[r].player)
      BY <2>6 DEF Answer, TypeOK
    <3>3. brain[u] # None => brain[u].history \in Seq(Turn)
      BY DEF TypeOK, Brain
    <3> QED
      BY <2>1, <3>1, <3>2, <3>3, RememberingDialogue DEF Good
  <2>7. ASSUME NEW v \in Villager, RemoveVillager(v) PROVE Good(brain'[u])
    <3>1. brain'[u] = brain[u] \/ brain'[u] = None
      BY <2>7 DEF RemoveVillager, TypeOK
    <3> QED
      BY <2>1, <3>1 DEF Good
  <2> QED
    BY <2>2, <2>3, <2>4, <2>5, <2>6, <2>7
    DEF Next, vars, Interact, Join, Leave, PartWays, Speak, Die, ClearMobs, SetAiConfig
<1> QED
  BY <1>1, <1>2, TypeCorrect, PTL DEF Spec
=============================================================================
