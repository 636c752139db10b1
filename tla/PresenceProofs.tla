--------------------------- MODULE PresenceProofs ---------------------------
(***************************************************************************)
(* Theorems about Presence, for any connections, users and number of       *)
(* places: who is shown to whom, who is forgotten, and when the server is  *)
(* overfull.                                                               *)
(***************************************************************************)
EXTENDS Presence, FiniteSetTheorems, TLAPS

Phase   == {"away", "login", "gone"} \cup Joining \cup Leaving
                                     \cup {"playing", "cleared", "respawning"}
\* Those whose entity has been announced.
Present == {"playing", "cleared", "respawning"}

(***************************************************************************)
(* The inductive invariant, in layers: each is preserved by a step from a  *)
(* state that satisfies it and those above it.                             *)
(***************************************************************************)

\* What each task holds in each phase.
Types ==
  /\ pc \in [Conn -> Phase]
  /\ table \subseteq Conn
  /\ existing \in [Conn -> SUBSET Conn]
  /\ shown \in [Conn -> SUBSET Conn]
  /\ listed \in [Conn -> SUBSET User]
  /\ travelled \subseteq Conn
  /\ raced \subseteq Conn \X Conn

\* Whoever is in the table has entered it and not yet left; whoever is not shows
\* nothing; nothing is left of a copy that has been used; and nobody has one that
\* is not in the table yet.
Placed    == table = In(InTable)
Unseen    == \A c \in Conn : pc[c] \notin InTable => shown[c] = {} /\ listed[c] = {}
CopyUsed  == \A c \in Conn : pc[c] \notin Joining \cup {"respawning"} => existing[c] = {}
Travels   == \A c \in travelled : pc[c] = "playing"
NotBefore == \A c, d \in Conn :
               pc[d] \in {"away", "login", "joining"} => d \notin existing[c] \cup shown[c]

Places == Placed /\ Unseen /\ CopyUsed /\ Travels

Structure == Types /\ Places /\ NotBefore

\* Whoever joins while another joins, or is told who is there while another
\* leaves, is noted.
Overlap == \A c, d \in In(Joining) : c # d => <<c, d>> \in raced
Parting == \A c \in In(Reading), d \in In(Leaving) : <<c, d>> \in raced

Races == Overlap /\ Parting

\* A client that did not change dimension shows everyone, or will when its task
\* is through with its copy; a copy not yet used holds everyone.
SeesPresent ==
  \A c \in In(Joining \cup {"playing", "respawning"}), d \in In(Present) :
    c # d /\ <<c, d>> \notin raced /\ c \notin travelled => d \in shown[c] \cup existing[c]
KeepsCopy ==
  \A c \in In({"joining", "added"}), d \in In(Present) :
    c # d /\ <<c, d>> \notin raced => d \in existing[c]
ListsPresent ==
  \A c \in In(InTable \ {"added"}), d \in In(Present \cup {"announced"}) :
    c # d /\ <<c, d>> \notin raced /\ Single(d) => UserOf[d] \in listed[c]

Sees == SeesPresent /\ KeepsCopy /\ ListsPresent

\* Nobody has one who left, on the screen or in a copy, or in the list; nor one
\* who is not yet there.
ForgetsEntity ==
  \A c \in Conn, d \in In({"gone"}) :
    <<c, d>> \notin raced => d \notin shown[c] \cup existing[c]
ForgetsEntry ==
  \A c \in Conn, d \in In({"unlisted", "gone"}) :
    <<c, d>> \notin raced /\ Single(d) => UserOf[d] \notin listed[c]
NotYetListed ==
  \A c \in Conn, d \in In({"away", "login"}) : Single(d) => UserOf[d] \notin listed[c]

Forgets == ForgetsEntity /\ ForgetsEntry /\ NotYetListed

PresenceInv == Structure /\ Races /\ Sees /\ Forgets

\* Those who came in one at a time, and those on their way in who did, never
\* exceed the places.
Guests == In(AtDoor \cup InTable)
PlacesInv ==
  /\ IsFiniteSet(Guests)
  /\ Cardinality(Guests \ rushed) <= MaxPlayers

(***************************************************************************)
(* What each step does to each part of it.                                 *)
(***************************************************************************)

\* What a task holds stays of its kind.
LEMMA TypesStep ==
  ASSUME Types, [Next]_vars
  PROVE  Types'
<1> USE DEF Types, In, Phase, Joining, Reading, Leaving
<1>1. ASSUME NEW c \in Conn, CopyTable(c) PROVE Types'
  BY <1>1 DEF CopyTable, Goto, told, history
<1>2. ASSUME NEW c \in Conn, ListExisting(c) PROVE Types'
  <2>1. {UserOf[d] : d \in existing[c] \cup {c}} \in SUBSET User
    BY PresenceAssumption
  <2> QED
    BY <1>2, <2>1 DEF ListExisting, Goto, told, history
<1>3. ASSUME NEW c \in Conn, AnnounceEntry(c) PROVE Types'
  <2>1. UserOf[c] \in User
    BY PresenceAssumption
  <2> QED
    BY <1>3, <2>1 DEF AnnounceEntry, Goto, List, told, history
<1>4. ASSUME NEW c \in Conn, NEW d \in Conn, SpawnExisting(c, d) PROVE Types'
  BY <1>4 DEF SpawnExisting, told, history
<1>5. ASSUME NEW c \in Conn, AnnounceSpawn(c) PROVE Types'
  BY <1>5 DEF AnnounceSpawn, Goto, Show, told, history
<1>6. ASSUME NEW c \in Conn, CopyTableAgain(c) PROVE Types'
  BY <1>6 DEF CopyTableAgain, Goto, told, history
<1>7. ASSUME NEW c \in Conn, AnnounceExit(c) PROVE Types'
  BY <1>7 DEF AnnounceExit, Goto, Delist, told, history
<1>8. ASSUME NEW c \in Conn, RemoveEntity(c) PROVE Types'
  BY <1>8 DEF RemoveEntity, Goto, Hide, told, history
<1>9. ASSUME NEW c \in Conn, SwitchDimension(c) PROVE Types'
  BY <1>9 DEF SwitchDimension, told, history
<1>10. ASSUME NEW c \in Conn, ClearEntities(c) PROVE Types'
  BY <1>10 DEF ClearEntities, Goto, told, history
<1>11. ASSUME NEW c \in Conn, Leave(c) PROVE Types'
  BY <1>11 DEF Leave, Goto, Close, told, history
<1>12. ASSUME NEW c \in Conn,
            Admit(c) \/ GiveUp(c) \/ AddPlayer(c) \/ EndRespawn(c) \/ FallSilent(c)
     PROVE  Types'
  BY <1>12 DEF Admit, Goto, GiveUp, AddPlayer, EndRespawn, FallSilent, told, history
<1>13. CASE UNCHANGED vars
  BY <1>13 DEF vars, told, history
<1> QED
  BY <1>1, <1>2, <1>3, <1>4, <1>5, <1>6, <1>7, <1>8, <1>9, <1>10, <1>11, <1>12, <1>13
  DEF Next, Work

\* The table is entered and left with the phase; a client is told things only
\* while its task is in the table; a task leaves each loop with its copy used up.
LEMMA PlacesStep ==
  ASSUME Types, Places, [Next]_vars
  PROVE  Places'
<1> USE DEF Types, Places, Placed, Unseen, CopyUsed, Travels, In, Joining, InTable
<1>1. ASSUME NEW c \in Conn, CopyTable(c) PROVE Places'
  BY <1>1 DEF CopyTable, Goto, told, history
<1>2. ASSUME NEW c \in Conn, AddPlayer(c) PROVE Places'
  BY <1>2 DEF AddPlayer, Goto, told, history
<1>3. ASSUME NEW c \in Conn, ListExisting(c) PROVE Places'
  BY <1>3 DEF ListExisting, Goto, told, history
<1>4. ASSUME NEW c \in Conn, AnnounceEntry(c) PROVE Places'
  BY <1>4 DEF AnnounceEntry, Goto, List, told, history
<1>5. ASSUME NEW c \in Conn, NEW d \in Conn, SpawnExisting(c, d) PROVE Places'
  BY <1>5 DEF SpawnExisting, told, history
<1>6. ASSUME NEW c \in Conn, AnnounceSpawn(c) PROVE Places'
  BY <1>6 DEF AnnounceSpawn, Goto, Show, told, history
<1>7. ASSUME NEW c \in Conn, CopyTableAgain(c) PROVE Places'
  BY <1>7 DEF CopyTableAgain, Goto, told, history
<1>8. ASSUME NEW c \in Conn, EndRespawn(c) PROVE Places'
  BY <1>8 DEF EndRespawn, Goto, told, history
<1>9. ASSUME NEW c \in Conn, SwitchDimension(c) PROVE Places'
  BY <1>9 DEF SwitchDimension, told, history
<1>10. ASSUME NEW c \in Conn, ClearEntities(c) PROVE Places'
  BY <1>10 DEF ClearEntities, Goto, told, history
<1>11. ASSUME NEW c \in Conn, Leave(c) PROVE Places'
  BY <1>11 DEF Leave, Goto, Close, told, history
<1>12. ASSUME NEW c \in Conn,
            Admit(c) \/ GiveUp(c) \/ AnnounceExit(c) \/ RemoveEntity(c)
            \/ FallSilent(c)
     PROVE  Places'
  BY <1>12 DEF Admit, Goto, GiveUp, AnnounceExit, Delist, RemoveEntity, Hide,
            FallSilent, told, history
<1>13. CASE UNCHANGED vars
  BY <1>13 DEF vars, told, history
<1> QED
  BY <1>1, <1>2, <1>3, <1>4, <1>5, <1>6, <1>7, <1>8, <1>9, <1>10, <1>11, <1>12, <1>13
  DEF Next, Work

\* Copies are taken of the table, and only they and an announcement show anyone.
LEMMA NotBeforeStep ==
  ASSUME Types, Places, NotBefore, [Next]_vars
  PROVE  NotBefore'
<1> USE DEF Types, Places, Placed, NotBefore, In, InTable
<1>1. ASSUME NEW c \in Conn, CopyTable(c) PROVE NotBefore'
  BY <1>1 DEF CopyTable, Goto, told, history
<1>2. ASSUME NEW c \in Conn, AddPlayer(c) PROVE NotBefore'
  BY <1>2 DEF AddPlayer, Goto, told, history
<1>3. ASSUME NEW c \in Conn, NEW d \in Conn, SpawnExisting(c, d) PROVE NotBefore'
  BY <1>3 DEF SpawnExisting, told, history
<1>4. ASSUME NEW c \in Conn, AnnounceSpawn(c) PROVE NotBefore'
  BY <1>4 DEF AnnounceSpawn, Goto, Show, told, history
<1>5. ASSUME NEW c \in Conn, CopyTableAgain(c) PROVE NotBefore'
  BY <1>5 DEF CopyTableAgain, Goto, told, history
<1>6. ASSUME NEW c \in Conn,
            Admit(c) \/ GiveUp(c) \/ ListExisting(c) \/ AnnounceEntry(c)
            \/ EndRespawn(c) \/ AnnounceExit(c) \/ RemoveEntity(c)
            \/ SwitchDimension(c) \/ ClearEntities(c) \/ FallSilent(c) \/ Leave(c)
     PROVE  NotBefore'
  BY <1>6 DEF Admit, Goto, GiveUp, ListExisting, AnnounceEntry, List, EndRespawn,
            AnnounceExit, Delist, RemoveEntity, Hide, SwitchDimension, ClearEntities,
            FallSilent, Leave, Close, told, history
<1>7. CASE UNCHANGED vars
  BY <1>7 DEF vars, told, history
<1> QED
  BY <1>1, <1>2, <1>3, <1>4, <1>5, <1>6, <1>7 DEF Next, Work

\* Who meets another on the way in or out is noted by the one that comes second;
\* a leaver takes back only what was noted of its own client.
LEMMA RacesStep ==
  ASSUME Types, Races, [Next]_vars
  PROVE  Races'
<1> USE DEF Types, Races, Overlap, Parting, In, Joining, Reading, Leaving
<1>1. ASSUME NEW c \in Conn, CopyTable(c) PROVE Races'
  BY <1>1 DEF CopyTable, Goto, told, history
<1>2. ASSUME NEW c \in Conn, ClearEntities(c) PROVE Races'
  BY <1>2 DEF ClearEntities, Goto, told, history
<1>3. ASSUME NEW c \in Conn, Leave(c) PROVE Races'
  BY <1>3 DEF Leave, Goto, Close, told, history
<1>4. ASSUME NEW c \in Conn,
            Admit(c) \/ GiveUp(c) \/ AddPlayer(c) \/ ListExisting(c)
            \/ AnnounceEntry(c) \/ (\E d \in Conn : SpawnExisting(c, d))
            \/ AnnounceSpawn(c) \/ CopyTableAgain(c) \/ EndRespawn(c)
            \/ AnnounceExit(c) \/ RemoveEntity(c) \/ SwitchDimension(c)
            \/ FallSilent(c)
     PROVE  Races'
  BY <1>4 DEF Admit, Goto, GiveUp, AddPlayer, ListExisting, AnnounceEntry, List,
            SpawnExisting, AnnounceSpawn, Show, CopyTableAgain, EndRespawn,
            AnnounceExit, Delist, RemoveEntity, Hide, SwitchDimension, FallSilent, told,
            history
<1>5. CASE UNCHANGED vars
  BY <1>5 DEF vars, told, history
<1> QED
  BY <1>1, <1>2, <1>3, <1>4, <1>5 DEF Next, Work

\* A task takes everyone from the table into its copy and from there to the screen;
\* one that comes later tells all in the table itself.
LEMMA SeesPresentStep ==
  ASSUME Types, Places, Races, SeesPresent, [Next]_vars
  PROVE  SeesPresent'
<1> USE DEF Types, Places, Placed, CopyUsed, Races, Overlap, SeesPresent, Present, In, Joining,
           InTable
<1>1. ASSUME NEW c \in Conn, CopyTable(c) PROVE SeesPresent'
  BY <1>1 DEF CopyTable, Goto, told, history
<1>2. ASSUME NEW c \in Conn, NEW d \in Conn, SpawnExisting(c, d) PROVE SeesPresent'
  BY <1>2 DEF SpawnExisting, told, history
<1>3. ASSUME NEW c \in Conn, AnnounceSpawn(c) PROVE SeesPresent'
  BY <1>3 DEF AnnounceSpawn, Goto, Show, told, history
<1>4. ASSUME NEW c \in Conn, CopyTableAgain(c) PROVE SeesPresent'
  BY <1>4 DEF CopyTableAgain, Goto, told, history
<1>5. ASSUME NEW c \in Conn, RemoveEntity(c) PROVE SeesPresent'
  BY <1>5 DEF RemoveEntity, Goto, Hide, told, history
<1>6. ASSUME NEW c \in Conn, SwitchDimension(c) PROVE SeesPresent'
  BY <1>6 DEF SwitchDimension, told, history
<1>7. ASSUME NEW c \in Conn, ClearEntities(c) PROVE SeesPresent'
  BY <1>7 DEF ClearEntities, Goto, told, history
<1>8. ASSUME NEW c \in Conn, Leave(c) PROVE SeesPresent'
  BY <1>8 DEF Leave, Goto, Close, told, history
<1>9. ASSUME NEW c \in Conn,
            Admit(c) \/ GiveUp(c) \/ AddPlayer(c) \/ ListExisting(c)
            \/ AnnounceEntry(c) \/ EndRespawn(c) \/ AnnounceExit(c) \/ FallSilent(c)
     PROVE  SeesPresent'
  BY <1>9 DEF Admit, Goto, GiveUp, AddPlayer, ListExisting, AnnounceEntry, List,
            EndRespawn, AnnounceExit, Delist, FallSilent, told, history
<1>10. CASE UNCHANGED vars
  BY <1>10 DEF vars, told, history
<1> QED
  BY <1>1, <1>2, <1>3, <1>4, <1>5, <1>6, <1>7, <1>8, <1>9, <1>10 DEF Next, Work

\* A copy still unused holds all who were playing when it was taken; whoever has
\* begun to since was joining at the same time.
LEMMA KeepsCopyStep ==
  ASSUME Types, Places, Races, KeepsCopy, [Next]_vars
  PROVE  KeepsCopy'
<1> USE DEF Types, Places, Placed, Races, Overlap, KeepsCopy, Present, In, Joining, InTable
<1>1. ASSUME NEW c \in Conn, CopyTable(c) PROVE KeepsCopy'
  BY <1>1 DEF CopyTable, Goto, told, history
<1>2. ASSUME NEW c \in Conn, NEW d \in Conn, SpawnExisting(c, d) PROVE KeepsCopy'
  BY <1>2 DEF SpawnExisting, told, history
<1>3. ASSUME NEW c \in Conn, AnnounceSpawn(c) PROVE KeepsCopy'
  BY <1>3 DEF AnnounceSpawn, Goto, Show, told, history
<1>4. ASSUME NEW c \in Conn, CopyTableAgain(c) PROVE KeepsCopy'
  BY <1>4 DEF CopyTableAgain, Goto, told, history
<1>5. ASSUME NEW c \in Conn, Leave(c) PROVE KeepsCopy'
  BY <1>5 DEF Leave, Goto, Close, told, history
<1>6. ASSUME NEW c \in Conn,
            Admit(c) \/ GiveUp(c) \/ AddPlayer(c) \/ ListExisting(c)
            \/ AnnounceEntry(c) \/ EndRespawn(c) \/ AnnounceExit(c) \/ RemoveEntity(c)
            \/ SwitchDimension(c) \/ ClearEntities(c) \/ FallSilent(c)
     PROVE  KeepsCopy'
  BY <1>6 DEF Admit, Goto, GiveUp, AddPlayer, ListExisting, AnnounceEntry, List,
            EndRespawn, AnnounceExit, Delist, RemoveEntity, Hide, SwitchDimension,
            ClearEntities, FallSilent, told, history
<1>7. CASE UNCHANGED vars
  BY <1>7 DEF vars, told, history
<1> QED
  BY <1>1, <1>2, <1>3, <1>4, <1>5, <1>6, <1>7 DEF Next, Work

\* The newcomer lists its copy, and is listed by all in the table.  Nobody else's exit
\* takes the entry of one who is alone under its uuid.
LEMMA ListsPresentStep ==
  ASSUME Types, Places, Races, KeepsCopy, ListsPresent, [Next]_vars
  PROVE  ListsPresent'
<1> USE DEF Types, Places, Placed, Races, Overlap, KeepsCopy, ListsPresent, Single, Present, In,
           Joining, Leaving, InTable
<1>1. ASSUME NEW c \in Conn, CopyTable(c) PROVE ListsPresent'
  BY <1>1 DEF CopyTable, Goto, told, history
<1>2. ASSUME NEW c \in Conn, ListExisting(c) PROVE ListsPresent'
  BY <1>2 DEF ListExisting, Goto, told, history
<1>3. ASSUME NEW c \in Conn, AnnounceEntry(c) PROVE ListsPresent'
  BY <1>3 DEF AnnounceEntry, Goto, List, told, history
<1>4. ASSUME NEW c \in Conn, AnnounceExit(c) PROVE ListsPresent'
  BY <1>4 DEF AnnounceExit, Goto, Delist, told, history
<1>5. ASSUME NEW c \in Conn, ClearEntities(c) PROVE ListsPresent'
  BY <1>5 DEF ClearEntities, Goto, told, history
<1>6. ASSUME NEW c \in Conn, Leave(c) PROVE ListsPresent'
  BY <1>6 DEF Leave, Goto, Close, told, history
<1>7. ASSUME NEW c \in Conn,
            Admit(c) \/ GiveUp(c) \/ AddPlayer(c)
            \/ (\E d \in Conn : SpawnExisting(c, d)) \/ AnnounceSpawn(c)
            \/ CopyTableAgain(c) \/ EndRespawn(c) \/ RemoveEntity(c)
            \/ SwitchDimension(c) \/ FallSilent(c)
     PROVE  ListsPresent'
  BY <1>7 DEF Admit, Goto, GiveUp, AddPlayer, SpawnExisting, AnnounceSpawn, Show,
            CopyTableAgain, EndRespawn, RemoveEntity, Hide, SwitchDimension, FallSilent,
            told, history
<1>8. CASE UNCHANGED vars
  BY <1>8 DEF vars, told, history
<1> QED
  BY <1>1, <1>2, <1>3, <1>4, <1>5, <1>6, <1>7, <1>8 DEF Next, Work

\* An entity is removed from all in the table.  One not in the table shows nobody, and
\* whoever could still have the leaver in its copy was noted when it left.
LEMMA ForgetsEntityStep ==
  ASSUME Types, Places, NotBefore, Races, ForgetsEntity, [Next]_vars
  PROVE  ForgetsEntity'
<1> USE DEF Types, Places, Placed, Unseen, CopyUsed, NotBefore, Races, Parting, ForgetsEntity, In,
           Joining, Reading, Leaving, InTable
<1>1. ASSUME NEW c \in Conn, Admit(c) PROVE ForgetsEntity'
  BY <1>1 DEF Admit, Goto, told, history
<1>2. ASSUME NEW c \in Conn, GiveUp(c) PROVE ForgetsEntity'
  BY <1>2 DEF GiveUp, Goto, told, history
<1>3. ASSUME NEW c \in Conn, CopyTable(c) PROVE ForgetsEntity'
  BY <1>3 DEF CopyTable, Goto, told, history
<1>4. ASSUME NEW c \in Conn, NEW d \in Conn, SpawnExisting(c, d) PROVE ForgetsEntity'
  BY <1>4 DEF SpawnExisting, told, history
<1>5. ASSUME NEW c \in Conn, AnnounceSpawn(c) PROVE ForgetsEntity'
  BY <1>5 DEF AnnounceSpawn, Goto, Show, told, history
<1>6. ASSUME NEW c \in Conn, CopyTableAgain(c) PROVE ForgetsEntity'
  BY <1>6 DEF CopyTableAgain, Goto, told, history
<1>7. ASSUME NEW c \in Conn, RemoveEntity(c) PROVE ForgetsEntity'
  BY <1>7 DEF RemoveEntity, Goto, Hide, told, history
<1>8. ASSUME NEW c \in Conn, Leave(c) PROVE ForgetsEntity'
  BY <1>8 DEF Leave, Goto, Close, told, history
<1>9. ASSUME NEW c \in Conn,
            AddPlayer(c) \/ ListExisting(c) \/ AnnounceEntry(c) \/ EndRespawn(c)
            \/ AnnounceExit(c) \/ SwitchDimension(c) \/ ClearEntities(c)
            \/ FallSilent(c)
     PROVE  ForgetsEntity'
  BY <1>9 DEF AddPlayer, Goto, ListExisting, AnnounceEntry, List, EndRespawn,
            AnnounceExit, Delist, SwitchDimension, ClearEntities, FallSilent, told,
            history
<1>10. CASE UNCHANGED vars
  BY <1>10 DEF vars, told, history
<1> QED
  BY <1>1, <1>2, <1>3, <1>4, <1>5, <1>6, <1>7, <1>8, <1>9, <1>10 DEF Next, Work

\* Nobody lists a user before its only connection is in a copy or announces itself.
LEMMA NotYetListedStep ==
  ASSUME Types, Places, NotBefore, NotYetListed, [Next]_vars
  PROVE  NotYetListed'
<1> USE DEF Types, Places, Placed, NotBefore, NotYetListed, Single, In, InTable
<1>1. ASSUME NEW c \in Conn, Admit(c) PROVE NotYetListed'
  BY <1>1 DEF Admit, Goto, told, history
<1>2. ASSUME NEW c \in Conn, ListExisting(c) PROVE NotYetListed'
  BY <1>2 DEF ListExisting, Goto, told, history
<1>3. ASSUME NEW c \in Conn, AnnounceEntry(c) PROVE NotYetListed'
  BY <1>3 DEF AnnounceEntry, Goto, List, told, history
<1>4. ASSUME NEW c \in Conn, AnnounceExit(c) PROVE NotYetListed'
  BY <1>4 DEF AnnounceExit, Goto, Delist, told, history
<1>5. ASSUME NEW c \in Conn, Leave(c) PROVE NotYetListed'
  BY <1>5 DEF Leave, Goto, Close, told, history
<1>6. ASSUME NEW c \in Conn,
            GiveUp(c) \/ CopyTable(c) \/ AddPlayer(c)
            \/ (\E d \in Conn : SpawnExisting(c, d)) \/ AnnounceSpawn(c)
            \/ CopyTableAgain(c) \/ EndRespawn(c) \/ RemoveEntity(c)
            \/ SwitchDimension(c) \/ ClearEntities(c) \/ FallSilent(c)
     PROVE  NotYetListed'
  BY <1>6 DEF GiveUp, Goto, CopyTable, AddPlayer, SpawnExisting, AnnounceSpawn, Show,
            CopyTableAgain, EndRespawn, RemoveEntity, Hide, SwitchDimension,
            ClearEntities, FallSilent, told, history
<1>7. CASE UNCHANGED vars
  BY <1>7 DEF vars, told, history
<1> QED
  BY <1>1, <1>2, <1>3, <1>4, <1>5, <1>6, <1>7 DEF Next, Work

\* An entry is taken from all in the table, and written again only by one who has the
\* leaver in its copy or by another connection of the user.
LEMMA ForgetsEntryStep ==
  ASSUME Types, Places, NotBefore, Races, ForgetsEntity, NotYetListed, ForgetsEntry, [Next]_vars
  PROVE  ForgetsEntry'
<1> USE DEF Types, Places, Placed, Unseen, NotBefore, Races, Parting, ForgetsEntity, NotYetListed,
           ForgetsEntry, Single, In, Joining, Reading, Leaving, InTable
<1>1. ASSUME NEW c \in Conn, Admit(c) PROVE ForgetsEntry'
  BY <1>1 DEF Admit, Goto, told, history
<1>2. ASSUME NEW c \in Conn, GiveUp(c) PROVE ForgetsEntry'
  BY <1>2 DEF GiveUp, Goto, told, history
<1>3. ASSUME NEW c \in Conn, CopyTable(c) PROVE ForgetsEntry'
  BY <1>3 DEF CopyTable, Goto, told, history
<1>4. ASSUME NEW c \in Conn, ListExisting(c) PROVE ForgetsEntry'
  BY <1>4 DEF ListExisting, Goto, told, history
<1>5. ASSUME NEW c \in Conn, AnnounceEntry(c) PROVE ForgetsEntry'
  BY <1>5 DEF AnnounceEntry, Goto, List, told, history
<1>6. ASSUME NEW c \in Conn, AnnounceExit(c) PROVE ForgetsEntry'
  BY <1>6 DEF AnnounceExit, Goto, Delist, told, history
<1>7. ASSUME NEW c \in Conn, RemoveEntity(c) PROVE ForgetsEntry'
  BY <1>7 DEF RemoveEntity, Goto, Hide, told, history
<1>8. ASSUME NEW c \in Conn, ClearEntities(c) PROVE ForgetsEntry'
  BY <1>8 DEF ClearEntities, Goto, told, history
<1>9. ASSUME NEW c \in Conn, Leave(c) PROVE ForgetsEntry'
  BY <1>9 DEF Leave, Goto, Close, told, history
<1>10. ASSUME NEW c \in Conn,
            AddPlayer(c) \/ (\E d \in Conn : SpawnExisting(c, d)) \/ AnnounceSpawn(c)
            \/ CopyTableAgain(c) \/ EndRespawn(c) \/ SwitchDimension(c)
            \/ FallSilent(c)
     PROVE  ForgetsEntry'
  BY <1>10 DEF AddPlayer, Goto, SpawnExisting, AnnounceSpawn, Show, CopyTableAgain,
            EndRespawn, SwitchDimension, FallSilent, told, history
<1>11. CASE UNCHANGED vars
  BY <1>11 DEF vars, told, history
<1> QED
  BY <1>1, <1>2, <1>3, <1>4, <1>5, <1>6, <1>7, <1>8, <1>9, <1>10, <1>11 DEF Next, Work

(***************************************************************************)
(* The theorems.                                                           *)
(***************************************************************************)

\* The invariant holds at first ...
LEMMA PresenceInit == Init => PresenceInv
<1> SUFFICES ASSUME Init PROVE PresenceInv
  OBVIOUS
<1> USE DEF Init, In, Joining, Leaving, InTable
<1>1. Types
  BY DEF Types, Phase
<1>2. Places /\ NotBefore
  BY DEF Places, Placed, Unseen, CopyUsed, Travels, NotBefore
<1>3. Races
  BY DEF Races, Overlap, Parting, Reading
<1>4. Sees
  BY DEF Sees, SeesPresent, KeepsCopy, ListsPresent, Present
<1>5. Forgets
  BY DEF Forgets, ForgetsEntity, ForgetsEntry, NotYetListed
<1> QED
  BY <1>1, <1>2, <1>3, <1>4, <1>5 DEF PresenceInv, Structure

\* ... and every step keeps it.
LEMMA PresenceStep == PresenceInv /\ [Next]_vars => PresenceInv'
<1> SUFFICES ASSUME PresenceInv, [Next]_vars PROVE PresenceInv'
  OBVIOUS
<1> USE DEF PresenceInv, Structure, Sees, Forgets
<1>1. Structure'
  BY TypesStep, PlacesStep, NotBeforeStep
<1>2. Races'
  BY RacesStep
<1>3. Sees'
  BY SeesPresentStep, KeepsCopyStep, ListsPresentStep
<1>4. Forgets'
  BY ForgetsEntityStep, ForgetsEntryStep, NotYetListedStep
<1> QED
  BY <1>1, <1>2, <1>3, <1>4

\* Of any number of players who did not join at once, each shows every other that is
\* in its dimension, and lists it if it has not logged in twice. (connection.rs, play,
\* joining and respawning; state.rs, players)
THEOREM PlayersSeeEachOther == Spec => []ShowsWhoIsThere
<1>1. PresenceInv => ShowsWhoIsThere
  <2> SUFFICES ASSUME PresenceInv,
                      NEW c \in In({"playing"}), NEW d \in In({"playing"}),
                      c # d, <<c, d>> \notin raced
               PROVE  /\ c \notin travelled => d \in shown[c]
                      /\ Single(d) => UserOf[d] \in listed[c]
    BY DEF ShowsWhoIsThere
  <2> USE DEF PresenceInv, In
  <2>1. existing[c] = {}
    BY DEF Structure, Places, CopyUsed, Joining
  <2>2. c \notin travelled => d \in shown[c]
    BY <2>1 DEF Sees, SeesPresent, Present
  <2>3. Single(d) => UserOf[d] \in listed[c]
    BY DEF Sees, ListsPresent, Present, InTable
  <2> QED
    BY <2>2, <2>3
<1> QED
  BY <1>1, PresenceInit, PresenceStep, PTL DEF Spec

\* A player who has left is shown by nobody, and listed by nobody if it has no other
\* connection, except by those who were being told who is there when it left.
\* (connection.rs, the end of play)
THEOREM LeaversAreForgotten == Spec => []ForgetsWhoLeft
<1>1. PresenceInv => ForgetsWhoLeft
  BY DEF PresenceInv, Forgets, ForgetsEntity, ForgetsEntry, ForgetsWhoLeft, In
<1> QED
  BY <1>1, PresenceInit, PresenceStep, PTL DEF Spec

(***************************************************************************)
(* The places.                                                             *)
(***************************************************************************)

\* Of finitely many guests, those who did not rush can be counted.
LEMMA GuestsCounted ==
  ASSUME IsFiniteSet(Guests)
  PROVE  /\ IsFiniteSet(Guests \ rushed)
         /\ Cardinality(Guests \ rushed) \in Nat
<1>1. IsFiniteSet(Guests \ rushed)
  BY FS_Difference
<1> QED
  BY <1>1, FS_CardinalityType

\* Whoever leaves, or is noted as rushed, makes the guests who were not fewer.
LEMMA FewerGuests ==
  ASSUME IsFiniteSet(Guests), Cardinality(Guests \ rushed) <= MaxPlayers,
         IsFiniteSet(Guests'), Guests' \ rushed' \subseteq Guests \ rushed
  PROVE  Cardinality(Guests' \ rushed') <= MaxPlayers
<1>1. /\ IsFiniteSet(Guests \ rushed)
      /\ Cardinality(Guests \ rushed) \in Nat
  BY GuestsCounted
<1>2. /\ IsFiniteSet(Guests' \ rushed')
      /\ Cardinality(Guests' \ rushed') <= Cardinality(Guests \ rushed)
  BY <1>1, FS_Subset
<1>3. Cardinality(Guests' \ rushed') \in Nat
  BY <1>2, FS_CardinalityType
<1> QED
  BY <1>1, <1>2, <1>3, PresenceAssumption

\* The one step that lets anyone in.  If others are on their way they are all noted,
\* the newcomer with them; if none is, the guests are those in the table, and there is
\* a place.
LEMMA AdmitKeeps ==
  ASSUME Types, Placed, PlacesInv, NEW c \in Conn, Admit(c)
  PROVE  IsFiniteSet(Guests') /\ Cardinality(Guests' \ rushed') <= MaxPlayers
<1> USE DEF Types, PlacesInv, Guests, In, AtDoor, InTable
<1>1. Guests' \subseteq Guests \cup {c}
  BY DEF Admit, Goto
<1>2. IsFiniteSet(Guests \cup {c})
  BY FS_AddElement
<1>3. IsFiniteSet(Guests')
  BY <1>1, <1>2, FS_Subset
<1>4. CASE In(AtDoor) # {}
  <2>1. Guests' \ rushed' \subseteq Guests \ rushed
    BY <1>4 DEF Admit, Goto
  <2> QED
    BY <2>1, <1>3, FewerGuests
<1>5. CASE In(AtDoor) = {} /\ Cardinality(table) >= MaxPlayers
  <2>1. IsFiniteSet(table)
    BY FS_Subset DEF Placed
  <2>2. ~(Cardinality(table) < MaxPlayers)
    BY <1>5, <2>1, FS_CardinalityType, PresenceAssumption
  <2>3. Guests' \ rushed' \subseteq Guests \ rushed
    BY <1>5, <2>2 DEF Admit, Goto
  <2> QED
    BY <2>3, <1>3, FewerGuests
<1>6. CASE In(AtDoor) = {} /\ ~(Cardinality(table) >= MaxPlayers)
  <2>1. Guests' \ rushed' \subseteq table \cup {c}
    BY <1>6 DEF Admit, Goto, Placed
  <2>2. IsFiniteSet(table) /\ Cardinality(table) \in Nat
    BY FS_Subset, FS_CardinalityType DEF Placed
  <2>3. c \notin table
    BY DEF Admit, Placed
  <2>4. /\ IsFiniteSet(table \cup {c})
        /\ Cardinality(table \cup {c}) \in Nat
        /\ Cardinality(table \cup {c}) <= Cardinality(table) + 1
    <3>1. /\ IsFiniteSet(table \cup {c})
          /\ Cardinality(table \cup {c}) = Cardinality(table) + 1
      BY <2>2, <2>3, FS_AddElement
    <3> QED
      BY <2>2, <3>1
  <2>5. /\ Cardinality(Guests' \ rushed') \in Nat
        /\ Cardinality(Guests' \ rushed') <= Cardinality(table \cup {c})
    BY <2>1, <2>4, FS_Subset, FS_CardinalityType
  <2> QED
    BY <1>3, <1>6, <2>2, <2>4, <2>5, PresenceAssumption
<1> QED
  BY <1>4, <1>5, <1>6

\* Every other step leaves the guests as they are, or lets one of them go.
LEMMA OthersLetNobodyIn ==
  ASSUME Types, [Next]_vars, ~ \E c \in Conn : Admit(c)
  PROVE  Guests' \subseteq Guests /\ Guests' \ rushed' \subseteq Guests \ rushed
<1> USE DEF Types, Guests, In, AtDoor, InTable
<1>1. ASSUME NEW c \in Conn, GiveUp(c) \/ Leave(c)
      PROVE  Guests' \subseteq Guests /\ Guests' \ rushed' \subseteq Guests \ rushed
  BY <1>1 DEF GiveUp, Leave, Close, Goto
<1>2. ASSUME NEW c \in Conn, CopyTable(c) \/ AddPlayer(c) \/ ListExisting(c)
                             \/ AnnounceEntry(c) \/ AnnounceSpawn(c) \/ ClearEntities(c)
                             \/ CopyTableAgain(c) \/ EndRespawn(c) \/ AnnounceExit(c)
                             \/ RemoveEntity(c)
      PROVE  Guests' \subseteq Guests /\ rushed' = rushed
  BY <1>2 DEF CopyTable, AddPlayer, ListExisting, AnnounceEntry, AnnounceSpawn,
              ClearEntities, CopyTableAgain, EndRespawn, AnnounceExit, RemoveEntity,
              Goto, history
<1>3. ASSUME NEW c \in Conn, (\E d \in Conn : SpawnExisting(c, d)) \/ SwitchDimension(c)
                             \/ FallSilent(c)
      PROVE  UNCHANGED <<pc, rushed>>
  BY <1>3 DEF SpawnExisting, SwitchDimension, FallSilent, history
<1>4. CASE UNCHANGED vars
  BY <1>4 DEF vars, history
<1> QED
  BY <1>1, <1>2, <1>3, <1>4 DEF Next, Work

\* At first nobody is a guest ...
LEMMA PlacesInit == Init => PlacesInv
<1> SUFFICES ASSUME Init PROVE PlacesInv
  OBVIOUS
<1>1. Guests = {}
  BY DEF Init, Guests, In, AtDoor, InTable
<1>2. Guests \ rushed = {}
  BY <1>1
<1>3. IsFiniteSet({}) /\ Cardinality({}) = 0
  BY FS_EmptySet
<1>4. IsFiniteSet(Guests) /\ Cardinality(Guests \ rushed) <= MaxPlayers
  BY <1>1, <1>2, <1>3, PresenceAssumption
<1> QED
  BY <1>4 DEF PlacesInv

\* ... and no step lets in more without a rush than there are places for.
LEMMA PlacesStays == PlacesInv /\ PresenceInv /\ [Next]_vars => PlacesInv'
<1> SUFFICES ASSUME PlacesInv, PresenceInv, [Next]_vars PROVE PlacesInv'
  OBVIOUS
<1>2. CASE \E c \in Conn : Admit(c)
  BY <1>2, AdmitKeeps DEF PlacesInv, PresenceInv, Structure, Places
<1>1. CASE ~ \E c \in Conn : Admit(c)
  <2>1. Guests' \subseteq Guests /\ Guests' \ rushed' \subseteq Guests \ rushed
    BY <1>1, OthersLetNobodyIn DEF PresenceInv, Structure
  <2>2. IsFiniteSet(Guests')
    BY <2>1, FS_Subset DEF PlacesInv
  <2>3. Cardinality(Guests' \ rushed') <= MaxPlayers
    BY <2>1, <2>2, FewerGuests DEF PlacesInv
  <2> QED
    BY <2>2, <2>3 DEF PlacesInv
<1> QED
  BY <1>1, <1>2

\* However many clients connect, and in whatever order: if the table holds more players
\* than max_players then one of them was let in while another was past the check and
\* not yet in the table. (connection.rs, login and play)
THEOREM OverfullTakesARush == Spec => []OverfullOnlyByRush
<1>1. PlacesInv /\ PresenceInv => OverfullOnlyByRush
  <2> SUFFICES ASSUME PlacesInv, PresenceInv, table \cap rushed = {}
               PROVE  ~(Cardinality(table) > MaxPlayers)
    BY DEF OverfullOnlyByRush
  <2>1. table \subseteq Guests \ rushed
    BY DEF PresenceInv, Structure, Places, Placed, Guests, In
  <2>2. IsFiniteSet(Guests \ rushed) /\ Cardinality(Guests \ rushed) \in Nat
    BY GuestsCounted DEF PlacesInv
  <2>3. IsFiniteSet(table) /\ Cardinality(table) <= Cardinality(Guests \ rushed)
    BY <2>1, <2>2, FS_Subset
  <2>4. Cardinality(table) \in Nat
    BY <2>3, FS_CardinalityType
  <2> QED
    BY <2>2, <2>3, <2>4, PresenceAssumption DEF PlacesInv
<1> QED
  BY <1>1, PresenceInit, PresenceStep, PlacesInit, PlacesStays, PTL DEF Spec
=============================================================================
