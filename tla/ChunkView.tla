----------------------------- MODULE ChunkView ------------------------------
(***************************************************************************)
(* What each client shows of the worlds: stream_chunks of                  *)
(* crates/server/src/connection.rs, the light a chunk caches               *)
(* (crates/world/src/chunk.rs), and the tasks that set blocks and tell the *)
(* players about it.                                                       *)
(*                                                                         *)
(* A chunk is copied under the mutex of its world, lit and sent outside    *)
(* it; a block is set under the mutex and broadcast outside it.  Packets   *)
(* to a client keep their order, so that shown changes when they are       *)
(* queued.  The contents of a chunk are one value, and its light is what   *)
(* the contents were when it was computed.  (Leaving is in Presence, and    *)
(* what becomes of an evicted chunk's edits in World.)                     *)
(***************************************************************************)
EXTENDS Naturals

CONSTANTS Player,     \* connections
          Engine,     \* other tasks that set blocks: game loop, mods, control
          Dim,        \* dimensions
          Overworld,  \* the one that Engine tasks set blocks in
          Chunk,      \* chunk coordinates, the same in every dimension
          Contents,   \* what can be in a chunk
          Generated,  \* [Dim -> [Chunk -> Contents]]
          View,       \* [Chunk -> SUBSET Chunk]: what is seen from a chunk
          Changing,   \* bound: the dimensions in which blocks are set
          Nowhere     \* no chunk, no contents, no packet

ASSUME ChunkViewAssumption ==
         /\ Overworld \in Dim
         /\ Generated \in [Dim -> [Chunk -> Contents]]
         /\ View \in [Chunk -> SUBSET Chunk]
         /\ Changing \subseteq Dim
         /\ Player \cap Engine = {}
         /\ Nowhere \notin Chunk \cup Contents
         /\ Nowhere \notin [dim : Dim, chunk : Chunk, contents : Contents]

Task == Player \cup Engine

VARIABLES
  world,    \* the contents of every chunk of every dimension
  light,    \* Chunk.light of the chunks in memory
  kept,     \* the chunks in memory: World.chunks
  table,    \* Shared.players
  pc,       \* where each connection is
  dim,      \* its player's dimension
  centre,   \* last_center
  loaded,   \* what the connection believes its client has
  copy,     \* the chunk it is about to send
  shown,    \* what the client shows of each chunk, Nowhere if it has none
  telling,  \* the block a task has set and not yet broadcast
  overtaken,  \* history: <<p, c>>, p may show something else of c
  outdated    \* history: <<d, c>>, the light of c may be an older one's

worlds  == <<world, light, kept>>
history == <<overtaken, outdated>>
vars == <<worlds, table, pc, dim, centre, loaded, copy, shown, telling, history>>

Nothing == [c \in Chunk |-> Nowhere]

NoCopy == [chunk |-> Nowhere, contents |-> Nowhere]

Goto(p, phase) == pc' = [pc EXCEPT ![p] = phase]

(***************************************************************************)
(* Streaming.                                                              *)
(***************************************************************************)

\* A connection starts streaming the chunks around where its player is.
Start(p, d, c) ==
  /\ Goto(p, "streaming")
  /\ dim' = [dim EXCEPT ![p] = d]
  /\ centre' = [centre EXCEPT ![p] = c]

\* play: the spawn area is streamed before the player is in the table.
Join(p, c) ==
  /\ pc[p] = "away"
  /\ Start(p, Overworld, c)
  /\ UNCHANGED <<worlds, table, loaded, copy, shown, telling, history>>

\* maybe_stream, when the player has crossed a chunk boundary.
CrossBoundary(p, c) ==
  /\ pc[p] = "playing"
  /\ telling[p] = Nowhere
  /\ c # centre[p]
  /\ Start(p, dim[p], c)
  /\ UNCHANGED <<worlds, table, loaded, copy, shown, telling, history>>

\* Mutant: the connection goes on believing that the client has its chunks.
RespawnForgetful(p, d, c) ==
  /\ pc[p] = "playing"
  /\ telling[p] = Nowhere
  /\ Start(p, d, c)
  /\ shown' = [shown EXCEPT ![p] = Nothing]
  /\ UNCHANGED <<worlds, table, loaded, copy, telling, history>>

\* switch_dimension, and respawn_player for the overworld: the Respawn packet
\* makes the client drop its chunks.
Respawn(p, d, c) ==
  /\ pc[p] = "playing"
  /\ telling[p] = Nowhere
  /\ Start(p, d, c)
  /\ loaded' = [loaded EXCEPT ![p] = {}]
  /\ shown' = [shown EXCEPT ![p] = Nothing]
  /\ UNCHANGED <<worlds, table, copy, telling, history>>

\* Some task is about to tell of another block than c holds in dimension d.
InFlux(d, c) == \E t \in Task : /\ telling[t] # Nowhere
                                /\ telling[t].chunk = c
                                /\ telling[t].dim = d
                                /\ telling[t].contents # world[d][c]

\* One of the chunks the client lacks is copied under the mutex.  (The code
\* takes the nearest first; any will do here.)
CopyChunk(p, c) ==
  LET d == dim[p] IN
  /\ pc[p] = "streaming"
  /\ c \in View[centre[p]] \ loaded[p]
  /\ kept' = kept \cup {<<d, c>>}
  /\ copy' = [copy EXCEPT ![p] = [chunk |-> c, contents |-> world[d][c]]]
  /\ Goto(p, IF light[d][c] = Nowhere THEN "lighting" ELSE "sending")
  /\ overtaken' = IF InFlux(d, c) THEN overtaken \cup {<<p, c>>} ELSE overtaken \ {<<p, c>>}
  /\ UNCHANGED <<world, light, table, dim, centre, loaded, shown, telling, outdated>>

\* The copy is lit, and the light stored in the chunk if it is still there.
StoreLight(p) ==
  LET d == dim[p] c == copy[p].chunk IN
  /\ pc[p] = "lighting"
  /\ Goto(p, "sending")
  /\ light' = IF <<d, c>> \in kept THEN [light EXCEPT ![d][c] = copy[p].contents]
                                   ELSE light
  /\ UNCHANGED <<world, kept, table, dim, centre, loaded, copy, shown, telling, history>>

SendChunk(p) ==
  LET c == copy[p].chunk IN
  /\ pc[p] = "sending"
  /\ Goto(p, "streaming")
  /\ shown' = [shown EXCEPT ![p][c] = copy[p].contents]
  /\ loaded' = [loaded EXCEPT ![p] = @ \cup {c}]
  /\ copy' = [copy EXCEPT ![p] = NoCopy]
  /\ UNCHANGED <<worlds, table, dim, centre, telling, history>>

UnloadChunk(p, c) ==
  /\ pc[p] = "streaming"
  /\ View[centre[p]] \subseteq loaded[p]
  /\ c \in loaded[p] \ View[centre[p]]
  /\ shown' = [shown EXCEPT ![p][c] = Nowhere]
  /\ loaded' = [loaded EXCEPT ![p] = @ \ {c}]
  /\ UNCHANGED <<worlds, table, pc, dim, centre, copy, telling, history>>

\* The stream is complete; a newcomer's play() now adds it to the table.
EndStream(p) ==
  /\ pc[p] = "streaming"
  /\ loaded[p] = View[centre[p]]
  /\ Goto(p, "playing")
  /\ table' = table \cup {p}
  /\ UNCHANGED <<worlds, dim, centre, loaded, copy, shown, telling, history>>

(***************************************************************************)
(* Setting blocks.                                                         *)
(***************************************************************************)

\* A player's task sets blocks where the player is, between two streams.
MayEdit(t, d) == /\ telling[t] = Nowhere
                 /\ d \in Changing
                 /\ IF t \in Player THEN pc[t] = "playing" /\ d = dim[t]
                                    ELSE d = Overworld

\* Clients that a change of chunk c in dimension d may miss: those whose copy
\* was made and not sent, those not in the table yet, and, when someone else
\* is telling of c, all.
MayMiss(t, d, c) ==
  {p \in Player :
     \/ dim[p] = d /\ copy[p].chunk = c
     \/ dim[p] = d /\ p \notin table /\ c \in loaded[p]
     \/ \E u \in Task \ {t} : /\ telling[u] # Nowhere
                              /\ telling[u].dim = d /\ telling[u].chunk = c}

\* Mutant: the cached light is left alone.
SetBlockKeepLight(t, d, c, s) ==
  /\ MayEdit(t, d)
  /\ world' = [world EXCEPT ![d][c] = s]
  /\ kept' = kept \cup {<<d, c>>}
  /\ telling' = [telling EXCEPT ![t] = [dim |-> d, chunk |-> c, contents |-> s]]
  /\ overtaken' = overtaken \cup (MayMiss(t, d, c) \X {c})
  /\ outdated' = IF \E p \in Player : dim[p] = d /\ copy[p].chunk = c /\ pc[p] = "lighting"
                 THEN outdated \cup {<<d, c>>} ELSE outdated \ {<<d, c>>}
  /\ UNCHANGED <<light, table, pc, dim, centre, loaded, copy, shown>>

\* World::set_block, which drops the light.
SetBlock(t, d, c, s) ==
  /\ MayEdit(t, d)
  /\ world' = [world EXCEPT ![d][c] = s]
  /\ light' = [light EXCEPT ![d][c] = Nowhere]
  /\ kept' = kept \cup {<<d, c>>}
  /\ telling' = [telling EXCEPT ![t] = [dim |-> d, chunk |-> c, contents |-> s]]
  /\ overtaken' = overtaken \cup (MayMiss(t, d, c) \X {c})
  /\ outdated' = IF \E p \in Player : dim[p] = d /\ copy[p].chunk = c /\ pc[p] = "lighting"
                 THEN outdated \cup {<<d, c>>} ELSE outdated \ {<<d, c>>}
  /\ UNCHANGED <<table, pc, dim, centre, loaded, copy, shown>>

\* Players who are told of a block and have its chunk.
Hearing(c) == {p \in table : shown[p][c] # Nowhere}

\* Mutant: only a player who is not streaming is told.
TellIdle(t) ==
  LET m == telling[t] IN
  /\ m # Nowhere
  /\ telling' = [telling EXCEPT ![t] = Nowhere]
  /\ shown' = [p \in Player |-> IF p \in Hearing(m.chunk) /\ pc[p] = "playing"
                                THEN [shown[p] EXCEPT ![m.chunk] = m.contents]
                                ELSE shown[p]]
  /\ overtaken' = overtaken \cup ({p \in Hearing(m.chunk) : dim[p] # m.dim} \X {m.chunk})
  /\ UNCHANGED <<worlds, table, pc, dim, centre, loaded, copy, outdated>>

\* Mutant: the task that set the block does not tell its own player.
TellOthers(t) ==
  LET m == telling[t] IN
  /\ m # Nowhere
  /\ telling' = [telling EXCEPT ![t] = Nowhere]
  /\ shown' = [p \in Player |-> IF p \in Hearing(m.chunk) \ {t}
                                THEN [shown[p] EXCEPT ![m.chunk] = m.contents]
                                ELSE shown[p]]
  /\ overtaken' = overtaken \cup ({p \in Hearing(m.chunk) : dim[p] # m.dim} \X {m.chunk})
  /\ UNCHANGED <<worlds, table, pc, dim, centre, loaded, copy, outdated>>

\* broadcast(block_update): to everyone in the table, in whatever dimension;
\* a client without the chunk ignores it.
Tell(t) ==
  LET m == telling[t] IN
  /\ m # Nowhere
  /\ telling' = [telling EXCEPT ![t] = Nowhere]
  /\ shown' = [p \in Player |-> IF p \in Hearing(m.chunk)
                                THEN [shown[p] EXCEPT ![m.chunk] = m.contents]
                                ELSE shown[p]]
  /\ overtaken' = overtaken \cup ({p \in Hearing(m.chunk) : dim[p] # m.dim} \X {m.chunk})
  /\ UNCHANGED <<worlds, table, pc, dim, centre, loaded, copy, outdated>>

\* evict_chunks: an overworld chunk that no player in the table is near, in
\* whatever dimension that player is.  (It keeps two chunks more on each side
\* than a player sees.)
Evict(c) ==
  /\ <<Overworld, c>> \in kept
  /\ \A p \in table : c \notin View[centre[p]]
  /\ kept' = kept \ {<<Overworld, c>>}
  /\ light' = [light EXCEPT ![Overworld][c] = Nowhere]
  /\ UNCHANGED <<world, table, pc, dim, centre, loaded, copy, shown, telling, history>>

Init ==
  /\ world = Generated
  /\ light = [d \in Dim |-> Nothing]
  /\ kept = {}
  /\ table = {}
  /\ pc = [p \in Player |-> "away"]
  /\ dim = [p \in Player |-> Overworld]
  /\ centre \in {[p \in Player |-> c] : c \in Chunk}
  /\ loaded = [p \in Player |-> {}]
  /\ copy = [p \in Player |-> NoCopy]
  /\ shown = [p \in Player |-> Nothing]
  /\ telling = [t \in Task |-> Nowhere]
  /\ overtaken = {}
  /\ outdated = {}

\* The steps of a stream, which waits for nobody.
Stream(p) == \/ \E c \in Chunk : CopyChunk(p, c) \/ UnloadChunk(p, c)
             \/ StoreLight(p)
             \/ SendChunk(p)
             \/ EndStream(p)

Next ==
  \/ \E p \in Player :
       \/ \E c \in Chunk : \/ Join(p, c)
                           \/ CrossBoundary(p, c)
                           \/ \E d \in Dim : Respawn(p, d, c)
       \/ Stream(p)
  \/ \E t \in Task :
       \/ \E d \in Dim, c \in Chunk, s \in Contents : SetBlock(t, d, c, s)
       \/ Tell(t)
  \/ \E c \in Chunk : Evict(c)

Spec == Init /\ [][Next]_vars

\* A task broadcasts what it has set without waiting for anyone.
FairSpec == Spec /\ \A t \in Task : WF_vars(Tell(t))

-----------------------------------------------------------------------------

\* A task is about to broadcast what chunk c of p's world holds now.
ToBeTold(p, c) == \E t \in Task : telling[t] = [dim |-> dim[p], chunk |-> c,
                                              contents |-> world[dim[p]][c]]

\* A client shows what is in the world, or is about to be told, unless a change
\* overtook the chunk on its way to the client, or came before the client was
\* in the table, or two tasks changed the place at once, or the change was one
\* in another dimension.
ClientsShowTheWorld ==
  \A p \in Player, c \in Chunk :
    shown[p][c] # Nowhere /\ <<p, c>> \notin overtaken =>
      shown[p][c] = world[dim[p]][c] \/ ToBeTold(p, c)

\* What a connection believes its client has is what the client has, so that
\* no chunk is withheld from it and none is left with it.
LoadedIsShown ==
  \A p \in Player : loaded[p] = {c \in Chunk : shown[p][c] # Nowhere}

\* "Cached lighting, if computed since the last edit." (chunk.rs:186): the
\* light of a chunk is that of what it holds, unless it was changed while
\* a copy of it was being lit.
LightIsCurrent ==
  \A d \in Dim, c \in Chunk :
    light[d][c] = Nowhere \/ light[d][c] = world[d][c] \/ <<d, c>> \in outdated

\* Nothing that a player in the table is shown stays wrong for ever, but for
\* the same exceptions.
ShowsWrong(p, c) == /\ p \in table
                    /\ <<p, c>> \notin overtaken
                    /\ shown[p][c] \notin {world[dim[p]][c], Nowhere}

ChangeReachesClients ==
  \A p \in Player, c \in Chunk : ShowsWrong(p, c) ~> ~ShowsWrong(p, c)
=============================================================================
