------------------------------ MODULE Presence ------------------------------
(***************************************************************************)
(* Who is connected and whom each client shows: the connection tasks of    *)
(* crates/server/src/connection.rs and the player table of state.rs.       *)
(*                                                                         *)
(* A connection is one run of handle(), with an entity id of its own; two  *)
(* of them may belong to one user.  Every access to the table is a lock    *)
(* section and so is every broadcast, and the tasks interleave between     *)
(* them.  Packets to one client pass through one channel in order, so that *)
(* what a client will show once its channel is drained is known when they  *)
(* are queued: shown and listed change when a packet is sent.              *)
(***************************************************************************)
EXTENDS FiniteSets, Naturals

CONSTANTS Conn,        \* connections
          User,        \* uuids
          UserOf,      \* [Conn -> User]
          MaxPlayers,  \* config.server.max_players
  Restless,    \* bound: connections that change dimension and respawn
  Frail        \* bound: connections whose client may fall silent

ASSUME PresenceAssumption == /\ UserOf \in [Conn -> User]
                             /\ MaxPlayers \in Nat
                             /\ Restless \subseteq Conn
                             /\ Frail \subseteq Conn

VARIABLES
  pc,         \* where the task of each connection is
  table,      \* Shared.players
  existing,   \* the copy of the table a task is working through
  listed,     \* the users in each client's player list
  shown,      \* the players each client shows in the world
  silent,     \* connections whose client sends nothing any more
  travelled,  \* clients that changed dimension and have not respawned since
  raced,      \* history: <<c, d>>, what c was told of d may be out of date
  rushed      \* history: let in while another was on its way in

told    == <<listed, shown>>
history == <<raced, rushed>>
vars    == <<pc, table, existing, told, silent, travelled, history>>

\* From the copy of the table to the spawn packet for everyone.
Joining  == {"joining", "added", "told", "announced"}
\* While a client is told who is there.
Reading  == Joining \cup {"cleared", "respawning"}
Leaving  == {"left", "unlisted"}
\* From the check for a free place to the entry in the table.
AtDoor   == {"login", "joining"}
InTable  == {"added", "told", "announced", "playing", "cleared", "respawning"}

In(phases) == {c \in Conn : pc[c] \in phases}

\* Broadcasts: what is told to the players ds.
List(u, ds)   == listed' = [c \in Conn |-> IF c \in ds THEN listed[c] \cup {u} ELSE listed[c]]
Delist(u, ds) == listed' = [c \in Conn |-> IF c \in ds THEN listed[c] \ {u} ELSE listed[c]]
Show(d, ds)   == shown' = [c \in Conn |-> IF c \in ds THEN shown[c] \cup {d} ELSE shown[c]]
Hide(d, ds)   == shown' = [c \in Conn |-> IF c \in ds THEN shown[c] \ {d} ELSE shown[c]]

Goto(c, phase) == pc' = [pc EXCEPT ![c] = phase]

(***************************************************************************)
(* Logging in and joining.                                                 *)
(***************************************************************************)

\* Mutant: one player too many is let in.
AdmitOneMore(c) ==
  /\ pc[c] = "away"
  /\ IF Cardinality(table) <= MaxPlayers THEN Goto(c, "login") ELSE Goto(c, "gone")
  /\ rushed' = IF In(AtDoor) = {} THEN rushed ELSE rushed \cup In(AtDoor) \cup {c}
  /\ UNCHANGED <<table, existing, told, silent, travelled, raced>>

\* login: the place is checked here and taken in AddPlayer.
Admit(c) ==
  /\ pc[c] = "away"
  /\ IF Cardinality(table) < MaxPlayers THEN Goto(c, "login") ELSE Goto(c, "gone")
  /\ rushed' = IF In(AtDoor) = {} THEN rushed ELSE rushed \cup In(AtDoor) \cup {c}
  /\ UNCHANGED <<table, existing, told, silent, travelled, raced>>

\* The client hangs up, or the handshake fails, before play() has begun.
GiveUp(c) ==
  /\ pc[c] = "login"
  /\ Goto(c, "gone")
  /\ silent' = silent \ {c}
  /\ rushed' = rushed \ {c}
  /\ UNCHANGED <<table, existing, told, travelled, raced>>

\* play: `existing = shared.players()`.
CopyTable(c) ==
  /\ pc[c] = "login"
  /\ Goto(c, "joining")
  /\ existing' = [existing EXCEPT ![c] = table]
  /\ raced' = raced \cup {<<c, d>> : d \in In(Joining \cup Leaving)}
                    \cup {<<d, c>> : d \in In(Joining)}
  /\ UNCHANGED <<table, told, silent, travelled, rushed>>

AddPlayer(c) ==
  /\ pc[c] = "joining"
  /\ Goto(c, "added")
  /\ table' = table \cup {c}
  /\ UNCHANGED <<existing, told, silent, travelled, history>>

\* The newcomer's list: everyone in its copy, and itself.
ListExisting(c) ==
  /\ pc[c] = "added"
  /\ Goto(c, "told")
  /\ listed' = [listed EXCEPT ![c] = @ \cup {UserOf[d] : d \in existing[c] \cup {c}}]
  /\ UNCHANGED <<table, existing, shown, silent, travelled, history>>

AnnounceEntry(c) ==
  /\ pc[c] = "told"
  /\ Goto(c, "announced")
  /\ List(UserOf[c], table \ {c})
  /\ UNCHANGED <<table, existing, shown, silent, travelled, history>>

\* One spawn packet of the loop over the copy, in joining and respawning.
SpawnExisting(c, d) ==
  /\ pc[c] \in {"announced", "respawning"}
  /\ d \in existing[c]
  /\ shown' = [shown EXCEPT ![c] = @ \cup {d}]
  /\ existing' = [existing EXCEPT ![c] = @ \ {d}]
  /\ UNCHANGED <<pc, table, listed, silent, travelled, history>>

AnnounceSpawn(c) ==
  /\ pc[c] = "announced"
  /\ existing[c] = {}
  /\ Goto(c, "playing")
  /\ Show(c, table \ {c})
  /\ UNCHANGED <<table, existing, listed, silent, travelled, history>>

(***************************************************************************)
(* Playing: changing dimension and respawning, after either of which the   *)
(* client has forgotten every entity.                                      *)
(***************************************************************************)

\* switch_dimension sends Respawn, and no entity after it.
SwitchDimension(c) ==
  /\ pc[c] = "playing"
  /\ c \in Restless \ silent
  /\ shown' = [shown EXCEPT ![c] = {}]
  /\ travelled' = travelled \cup {c}
  /\ UNCHANGED <<pc, table, existing, listed, silent, history>>

\* respawn_player sends Respawn, ...
ClearEntities(c) ==
  /\ pc[c] = "playing"
  /\ c \in Restless \ silent
  /\ Goto(c, "cleared")
  /\ shown' = [shown EXCEPT ![c] = {}]
  /\ travelled' = travelled \ {c}
  /\ raced' = raced \cup {<<c, d>> : d \in In(Leaving)}
  /\ UNCHANGED <<table, existing, listed, silent, rushed>>

\* Mutant: nobody is sent again, as in switch_dimension.
CopyNobody(c) ==
  /\ pc[c] = "cleared"
  /\ Goto(c, "respawning")
  /\ existing' = [existing EXCEPT ![c] = {}]
  /\ UNCHANGED <<table, told, silent, travelled, history>>

\* ... and goes through the table once more.
CopyTableAgain(c) ==
  /\ pc[c] = "cleared"
  /\ Goto(c, "respawning")
  /\ existing' = [existing EXCEPT ![c] = table \ {c}]
  /\ UNCHANGED <<table, told, silent, travelled, history>>

EndRespawn(c) ==
  /\ pc[c] = "respawning"
  /\ existing[c] = {}
  /\ Goto(c, "playing")
  /\ UNCHANGED <<table, existing, told, silent, travelled, history>>

(***************************************************************************)
(* Leaving.                                                                *)
(***************************************************************************)

\* The client is dead or unplugged; the server is not told.  (One that falls
\* silent earlier is a login that takes no further step.)
FallSilent(c) ==
  /\ pc[c] \in InTable
  /\ c \in Frail \ silent
  /\ silent' = silent \cup {c}
  /\ UNCHANGED <<pc, table, existing, told, travelled, history>>

\* What c's client was told, and what was noted of it, no longer matters;
\* those who are being told who is there may have c in their copy.
Close(c) ==
  /\ listed' = [listed EXCEPT ![c] = {}]
  /\ shown' = [shown EXCEPT ![c] = {}]
  /\ silent' = silent \ {c}
  /\ travelled' = travelled \ {c}
  /\ rushed' = rushed \ {c}
  /\ raced' = {p \in raced : p[1] # c} \cup {<<d, c>> : d \in In(Reading)}

\* Mutant: without the read timeout, only a client that hangs up leaves.
LeaveIfHeard(c) ==
  /\ pc[c] = "playing"
  /\ c \notin silent
  /\ Goto(c, "left")
  /\ table' = table \ {c}
  /\ Close(c)
  /\ UNCHANGED existing

\* play_loop ends: the client hangs up, or nothing was read for 30 seconds.
Leave(c) ==
  /\ pc[c] = "playing"
  /\ Goto(c, "left")
  /\ table' = table \ {c}
  /\ Close(c)
  /\ UNCHANGED existing

AnnounceExit(c) ==
  /\ pc[c] = "left"
  /\ Goto(c, "unlisted")
  /\ Delist(UserOf[c], table)
  /\ UNCHANGED <<table, existing, shown, silent, travelled, history>>

\* Mutant: the entity is not removed from the clients.
LeaveEntity(c) ==
  /\ pc[c] = "unlisted"
  /\ Goto(c, "gone")
  /\ UNCHANGED <<table, existing, told, silent, travelled, history>>

RemoveEntity(c) ==
  /\ pc[c] = "unlisted"
  /\ Goto(c, "gone")
  /\ Hide(c, table)
  /\ UNCHANGED <<table, existing, listed, silent, travelled, history>>

Init ==
  /\ pc = [c \in Conn |-> "away"]
  /\ table = {}
  /\ existing = [c \in Conn |-> {}]
  /\ listed = [c \in Conn |-> {}]
  /\ shown = [c \in Conn |-> {}]
  /\ silent = {}
  /\ travelled = {}
  /\ raced = {}
  /\ rushed = {}

\* The steps of a task that wait for nobody.
Work(c) ==
  \/ AddPlayer(c)
  \/ ListExisting(c)
  \/ AnnounceEntry(c)
  \/ \E d \in Conn : SpawnExisting(c, d)
  \/ AnnounceSpawn(c)
  \/ CopyTableAgain(c)
  \/ EndRespawn(c)
  \/ AnnounceExit(c)
  \/ RemoveEntity(c)

Next ==
  \E c \in Conn :
    \/ Admit(c)
    \/ GiveUp(c)
    \/ CopyTable(c)
    \/ Work(c)
    \/ SwitchDimension(c)
    \/ ClearEntities(c)
    \/ FallSilent(c)
    \/ Leave(c)

Spec == Init /\ [][Next]_vars

\* The tasks run on, and the read timeout of play_loop ends those that hear
\* nothing.  Logging in has no timeout, so nothing is assumed of it; nor is
\* anything of the connections that stay alive.
FairSpec == Spec /\ \A c \in Frail : /\ WF_vars(Work(c))
                                     /\ WF_vars(c \in silent /\ Leave(c))

-----------------------------------------------------------------------------

\* d is the only connection that its user ever made.
Single(d) == \A e \in Conn \ {d} : UserOf[e] = UserOf[d] => pc[e] = "away"

\* "players see each other" (README.md:44): two players show each other and
\* list each other, unless they joined at the same time, or the client came
\* from another dimension, or the one to be listed has logged in twice.
ShowsWhoIsThere ==
  \A c, d \in In({"playing"}) :
    c # d /\ <<c, d>> \notin raced =>
      /\ c \notin travelled => d \in shown[c]
      /\ Single(d) => UserOf[d] \in listed[c]

\* A player who has left is shown by none and listed by none, unless it left
\* while the client was being told who is there.
ForgetsWhoLeft ==
  \A c \in In({"playing"}), d \in In({"gone"}) :
    <<c, d>> \notin raced =>
      /\ d \notin shown[c]
      /\ Single(d) => UserOf[d] \notin listed[c]

\* The server holds more players than it may only if some were let in while
\* others were on their way.
OverfullOnlyByRush == Cardinality(table) > MaxPlayers => table \cap rushed # {}

\* "dead connections time out" (README.md:85): once a player's client is
\* silent, the others are told that the player is gone.
SilenceIsNoticed ==
  \A c \in Frail, d \in Conn :
    c \in silent \cap table ~> /\ c \notin table
                               /\ \/ d \notin table
                                  \/ c \notin shown[d]
                                  \/ <<d, c>> \in raced
=============================================================================
