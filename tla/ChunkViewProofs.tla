--------------------------- MODULE ChunkViewProofs ---------------------------
(***************************************************************************)
(* Theorems about ChunkView, for any players, tasks, dimensions, chunks    *)
(* and contents: what a connection believes its client has, what a chunk's *)
(* cached light is worth, and what the clients show.                       *)
(***************************************************************************)
EXTENDS ChunkView, TLAPS

Phase  == {"away", "streaming", "lighting", "sending", "playing"}
Copy   == [chunk : Chunk, contents : Contents]
Packet == [dim : Dim, chunk : Chunk, contents : Contents]

(***************************************************************************)
(* The inductive invariant, in layers.                                     *)
(***************************************************************************)

WorldTypes ==
  /\ world \in [Dim -> [Chunk -> Contents]]
  /\ light \in [Dim -> [Chunk -> Contents \cup {Nowhere}]]

TaskTypes ==
  /\ table \subseteq Player
  /\ pc \in [Player -> Phase]
  /\ dim \in [Player -> Dim]
  /\ loaded \in [Player -> SUBSET Chunk]
  /\ copy \in [Player -> Copy \cup {NoCopy}]
  /\ shown \in [Player -> [Chunk -> Contents \cup {Nowhere}]]
  /\ telling \in [Task -> Packet \cup {Nowhere}]

\* A task holds a copy exactly between making it and sending it, and nothing has
\* been sent before the player joins.
CopyHeld == \A p \in Player : copy[p] # NoCopy <=> pc[p] \in {"lighting", "sending"}
NoneYet  == \A p \in Player : pc[p] = "away" => loaded[p] = {}

Types == WorldTypes /\ TaskTypes /\ CopyHeld /\ NoneYet

\* A copy that is being lit is what the chunk holds, or the change is noted.
LitIsCurrent ==
  \A p \in Player :
    LET d == dim[p]  c == copy[p].chunk IN
    pc[p] = "lighting" => copy[p].contents = world[d][c] \/ <<d, c>> \in outdated

\* A copy on its way is what the chunk holds, or the change is noted; ...
CopyIsCurrent ==
  \A p \in Player :
    copy[p] # NoCopy /\ <<p, copy[p].chunk>> \notin overtaken =>
      copy[p].contents = world[dim[p]][copy[p].chunk]
\* ... and so is what a newcomer shows, who is told nothing.
NewcomerIsCurrent ==
  \A p \in Player \ table, c \in Chunk :
    shown[p][c] # Nowhere /\ <<p, c>> \notin overtaken => shown[p][c] = world[dim[p]][c]

\* What is about to be told is what the world holds, or it is noted for everyone
\* who has the chunk or is about to.
Has(p, c) == shown[p][c] # Nowhere \/ copy[p].chunk = c
TellingIsCurrent ==
  \A t \in Task, p \in Player :
    LET m == telling[t] IN
    (m # Nowhere /\ m.dim = dim[p] /\ Has(p, m.chunk) /\ <<p, m.chunk>> \notin overtaken) =>
      m.contents = world[dim[p]][m.chunk]

Current == CopyIsCurrent /\ NewcomerIsCurrent /\ TellingIsCurrent

ChunkViewInv == /\ Types
                /\ LoadedIsShown
                /\ LitIsCurrent /\ LightIsCurrent
                /\ Current /\ ClientsShowTheWorld

(***************************************************************************)
(* What each step does to each part of it.                                 *)
(***************************************************************************)

\* The worlds hold contents, and light where it is cached.
LEMMA WorldTypesStep ==
  ASSUME Types, [Next]_vars
  PROVE  WorldTypes'
<1> USE DEF Types, WorldTypes, TaskTypes, CopyHeld, NoneYet, Copy, NoCopy
<1>1. ASSUME NEW p \in Player, StoreLight(p) PROVE WorldTypes'
  BY <1>1 DEF StoreLight, Goto, worlds, history
<1>2. ASSUME NEW t \in Task, NEW d \in Dim, NEW c \in Chunk, NEW s \in Contents,
            SetBlock(t, d, c, s)
     PROVE  WorldTypes'
  BY <1>2 DEF SetBlock, worlds, history
<1>3. ASSUME NEW c \in Chunk, Evict(c) PROVE WorldTypes'
  BY <1>3 DEF Evict, Nothing, worlds, history
<1>4. ASSUME NEW p \in Player, NEW c \in Chunk,
            Join(p, c) \/ CrossBoundary(p, c) \/ CopyChunk(p, c) \/ UnloadChunk(p, c)
     PROVE  WorldTypes'
  BY <1>4 DEF Join, Start, Goto, CrossBoundary, CopyChunk, UnloadChunk, worlds, history
<1>5. ASSUME NEW p \in Player, NEW d \in Dim, NEW c \in Chunk,
            Respawn(p, d, c)
     PROVE  WorldTypes'
  BY <1>5 DEF Respawn, Start, Goto, Nothing, worlds, history
<1>6. ASSUME NEW p \in Player, SendChunk(p) \/ EndStream(p) PROVE WorldTypes'
  BY <1>6 DEF SendChunk, Goto, EndStream, worlds, history
<1>7. ASSUME NEW t \in Task, Tell(t) PROVE WorldTypes'
  BY <1>7 DEF Tell, Hearing, worlds, history
<1>8. CASE UNCHANGED vars
  BY <1>8 DEF vars, worlds, history
<1> QED
  BY <1>1, <1>2, <1>3, <1>4, <1>5, <1>6, <1>7, <1>8 DEF Next, Stream

\* What the tasks hold stays of its kind.
LEMMA TaskTypesStep ==
  ASSUME Types, [Next]_vars
  PROVE  TaskTypes'
<1> USE DEF Types, WorldTypes, TaskTypes, CopyHeld, NoneYet, Phase, Copy, Packet,
            NoCopy, Task
<1>1. ASSUME NEW p \in Player, NEW c \in Chunk, Join(p, c) PROVE TaskTypes'
  BY <1>1, ChunkViewAssumption DEF Join, Start, Goto, worlds, history
<1>2. ASSUME NEW p \in Player, NEW c \in Chunk, CrossBoundary(p, c) PROVE TaskTypes'
  BY <1>2, ChunkViewAssumption DEF CrossBoundary, Start, Goto, worlds, history
<1>3. ASSUME NEW p \in Player, NEW d \in Dim, NEW c \in Chunk, Respawn(p, d, c)
     PROVE  TaskTypes'
  BY <1>3, ChunkViewAssumption DEF Respawn, Start, Goto, Nothing, worlds, history
<1>4. ASSUME NEW p \in Player, NEW c \in Chunk, CopyChunk(p, c) PROVE TaskTypes'
  BY <1>4, ChunkViewAssumption DEF CopyChunk, Goto, worlds, history
<1>5. ASSUME NEW p \in Player, SendChunk(p) PROVE TaskTypes'
  BY <1>5, ChunkViewAssumption DEF SendChunk, Goto, worlds, history
<1>6. ASSUME NEW p \in Player, NEW c \in Chunk, UnloadChunk(p, c) PROVE TaskTypes'
  BY <1>6, ChunkViewAssumption DEF UnloadChunk, worlds, history
<1>7. ASSUME NEW p \in Player, EndStream(p) PROVE TaskTypes'
  BY <1>7, ChunkViewAssumption DEF EndStream, Goto, worlds, history
<1>8. ASSUME NEW t \in Task, NEW d \in Dim, NEW c \in Chunk, NEW s \in Contents,
            SetBlock(t, d, c, s)
     PROVE  TaskTypes'
  BY <1>8, ChunkViewAssumption DEF SetBlock, worlds, history
<1>9. ASSUME NEW t \in Task, Tell(t) PROVE TaskTypes'
  BY <1>9, ChunkViewAssumption DEF Tell, Hearing, worlds, history
<1>10. ASSUME NEW p \in Player, StoreLight(p) PROVE TaskTypes'
  BY <1>10 DEF StoreLight, Goto, worlds, history
<1>11. ASSUME NEW c \in Chunk, Evict(c) PROVE TaskTypes'
  BY <1>11 DEF Evict, Nothing, worlds, history
<1>12. CASE UNCHANGED vars
  BY <1>12 DEF vars, worlds, history
<1> QED
  BY <1>1, <1>2, <1>3, <1>4, <1>5, <1>6, <1>7, <1>8, <1>9, <1>10, <1>11, <1>12
  DEF Next, Stream

\* A copy is made on the way into "lighting" or "sending", and dropped when it is sent.
LEMMA PhasesStep ==
  ASSUME Types, [Next]_vars
  PROVE  (CopyHeld /\ NoneYet)'
<1> USE DEF Types, WorldTypes, TaskTypes, CopyHeld, NoneYet, Phase, Copy, NoCopy
<1>1. ASSUME NEW p \in Player, NEW c \in Chunk, Join(p, c) PROVE (CopyHeld /\ NoneYet)'
  BY <1>1, ChunkViewAssumption DEF Join, Start, Goto, worlds, history
<1>2. ASSUME NEW p \in Player, NEW c \in Chunk, CrossBoundary(p, c)
     PROVE  (CopyHeld /\ NoneYet)'
  BY <1>2, ChunkViewAssumption DEF CrossBoundary, Start, Goto, worlds, history
<1>3. ASSUME NEW p \in Player, NEW d \in Dim, NEW c \in Chunk, Respawn(p, d, c)
     PROVE  (CopyHeld /\ NoneYet)'
  BY <1>3, ChunkViewAssumption DEF Respawn, Start, Goto, Nothing, worlds, history
<1>4. ASSUME NEW p \in Player, NEW c \in Chunk, CopyChunk(p, c)
     PROVE  (CopyHeld /\ NoneYet)'
  BY <1>4, ChunkViewAssumption DEF CopyChunk, Goto, worlds, history
<1>5. ASSUME NEW p \in Player, StoreLight(p) PROVE (CopyHeld /\ NoneYet)'
  BY <1>5, ChunkViewAssumption DEF StoreLight, Goto, worlds, history
<1>6. ASSUME NEW p \in Player, SendChunk(p) PROVE (CopyHeld /\ NoneYet)'
  BY <1>6, ChunkViewAssumption DEF SendChunk, Goto, worlds, history
<1>7. ASSUME NEW p \in Player, NEW c \in Chunk, UnloadChunk(p, c)
     PROVE  (CopyHeld /\ NoneYet)'
  BY <1>7, ChunkViewAssumption DEF UnloadChunk, worlds, history
<1>8. ASSUME NEW p \in Player, EndStream(p) PROVE (CopyHeld /\ NoneYet)'
  BY <1>8, ChunkViewAssumption DEF EndStream, Goto, worlds, history
<1>9. ASSUME NEW t \in Task, NEW d \in Dim, NEW c \in Chunk, NEW s \in Contents,
            SetBlock(t, d, c, s)
     PROVE  (CopyHeld /\ NoneYet)'
  BY <1>9 DEF SetBlock, worlds, history
<1>10. ASSUME NEW t \in Task, Tell(t) PROVE (CopyHeld /\ NoneYet)'
  BY <1>10 DEF Tell, Hearing, worlds, history
<1>11. ASSUME NEW c \in Chunk, Evict(c) PROVE (CopyHeld /\ NoneYet)'
  BY <1>11 DEF Evict, Nothing, worlds, history
<1>12. CASE UNCHANGED vars
  BY <1>12 DEF vars, worlds, history
<1> QED
  BY <1>1, <1>2, <1>3, <1>4, <1>5, <1>6, <1>7, <1>8, <1>9, <1>10, <1>11, <1>12
  DEF Next, Stream

\* loaded and shown change together: a chunk is sent and noted, unloaded and taken off,
\* and all are dropped when the client drops them; a broadcast brings no chunk.
LEMMA LoadedStep ==
  ASSUME Types, LoadedIsShown, [Next]_vars
  PROVE  LoadedIsShown'
<1> USE DEF Types, WorldTypes, TaskTypes, CopyHeld, NoneYet, LoadedIsShown, Copy,
            NoCopy, Packet
<1>1. ASSUME NEW p \in Player, NEW d \in Dim, NEW c \in Chunk, Respawn(p, d, c)
     PROVE  LoadedIsShown'
  BY <1>1, ChunkViewAssumption DEF Respawn, Start, Goto, Nothing, worlds, history
<1>2. ASSUME NEW p \in Player, SendChunk(p) PROVE LoadedIsShown'
  BY <1>2, ChunkViewAssumption DEF SendChunk, Goto, worlds, history
<1>3. ASSUME NEW p \in Player, NEW c \in Chunk, UnloadChunk(p, c) PROVE LoadedIsShown'
  BY <1>3, ChunkViewAssumption DEF UnloadChunk, worlds, history
<1>4. ASSUME NEW t \in Task, Tell(t) PROVE LoadedIsShown'
  BY <1>4, ChunkViewAssumption DEF Tell, Hearing, worlds, history
<1>5. ASSUME NEW p \in Player, NEW c \in Chunk,
            Join(p, c) \/ CrossBoundary(p, c) \/ CopyChunk(p, c)
     PROVE  LoadedIsShown'
  BY <1>5 DEF Join, Start, Goto, CrossBoundary, CopyChunk, worlds, history
<1>6. ASSUME NEW p \in Player, StoreLight(p) \/ EndStream(p) PROVE LoadedIsShown'
  BY <1>6 DEF StoreLight, Goto, EndStream, worlds, history
<1>7. ASSUME NEW t \in Task, NEW d \in Dim, NEW c \in Chunk, NEW s \in Contents,
            SetBlock(t, d, c, s)
     PROVE  LoadedIsShown'
  BY <1>7 DEF SetBlock, worlds, history
<1>8. ASSUME NEW c \in Chunk, Evict(c) PROVE LoadedIsShown'
  BY <1>8 DEF Evict, Nothing, worlds, history
<1>9. CASE UNCHANGED vars
  BY <1>9 DEF vars, worlds, history
<1> QED
  BY <1>1, <1>2, <1>3, <1>4, <1>5, <1>6, <1>7, <1>8, <1>9 DEF Next, Stream

\* A change made while a copy is being lit is noted.
LEMMA LitStep ==
  ASSUME Types, LitIsCurrent, [Next]_vars
  PROVE  LitIsCurrent'
<1> USE DEF Types, WorldTypes, TaskTypes, CopyHeld, NoneYet, LitIsCurrent, Copy, NoCopy
<1>1. ASSUME NEW p \in Player, NEW c \in Chunk, Join(p, c) PROVE LitIsCurrent'
  BY <1>1, ChunkViewAssumption DEF Join, Start, Goto, worlds, history
<1>2. ASSUME NEW p \in Player, NEW c \in Chunk, CrossBoundary(p, c) PROVE LitIsCurrent'
  BY <1>2, ChunkViewAssumption DEF CrossBoundary, Start, Goto, worlds, history
<1>3. ASSUME NEW p \in Player, NEW d \in Dim, NEW c \in Chunk, Respawn(p, d, c)
     PROVE  LitIsCurrent'
  BY <1>3, ChunkViewAssumption DEF Respawn, Start, Goto, Nothing, worlds, history
<1>4. ASSUME NEW p \in Player, NEW c \in Chunk, CopyChunk(p, c) PROVE LitIsCurrent'
  BY <1>4, ChunkViewAssumption DEF CopyChunk, Goto, worlds, history
<1>5. ASSUME NEW t \in Task, NEW d \in Dim, NEW c \in Chunk, NEW s \in Contents,
            SetBlock(t, d, c, s)
     PROVE  LitIsCurrent'
  BY <1>5, ChunkViewAssumption DEF SetBlock, worlds, history
<1>6. ASSUME NEW p \in Player,
            StoreLight(p) \/ SendChunk(p) \/ EndStream(p)
     PROVE  LitIsCurrent'
  BY <1>6 DEF StoreLight, Goto, SendChunk, EndStream, worlds, history
<1>7. ASSUME NEW p \in Player, NEW c \in Chunk, UnloadChunk(p, c) PROVE LitIsCurrent'
  BY <1>7 DEF UnloadChunk, worlds, history
<1>8. ASSUME NEW t \in Task, Tell(t) PROVE LitIsCurrent'
  BY <1>8 DEF Tell, Hearing, worlds, history
<1>9. ASSUME NEW c \in Chunk, Evict(c) PROVE LitIsCurrent'
  BY <1>9 DEF Evict, Nothing, worlds, history
<1>10. CASE UNCHANGED vars
  BY <1>10 DEF vars, worlds, history
<1> QED
  BY <1>1, <1>2, <1>3, <1>4, <1>5, <1>6, <1>7, <1>8, <1>9, <1>10 DEF Next, Stream

\* Light is stored from a copy that is current or noted, and dropped with every change.
LEMMA LightStep ==
  ASSUME Types, LitIsCurrent, LightIsCurrent, [Next]_vars
  PROVE  LightIsCurrent'
<1> USE DEF Types, WorldTypes, TaskTypes, CopyHeld, NoneYet, LitIsCurrent,
            LightIsCurrent, Copy, NoCopy
<1>1. ASSUME NEW p \in Player, StoreLight(p) PROVE LightIsCurrent'
  BY <1>1, ChunkViewAssumption DEF StoreLight, Goto, worlds, history
<1>2. ASSUME NEW t \in Task, NEW d \in Dim, NEW c \in Chunk, NEW s \in Contents,
            SetBlock(t, d, c, s)
     PROVE  LightIsCurrent'
  BY <1>2, ChunkViewAssumption DEF SetBlock, worlds, history
<1>3. ASSUME NEW c \in Chunk, Evict(c) PROVE LightIsCurrent'
  BY <1>3, ChunkViewAssumption DEF Evict, Nothing, worlds, history
<1>4. ASSUME NEW p \in Player, NEW c \in Chunk,
            Join(p, c) \/ CrossBoundary(p, c) \/ CopyChunk(p, c) \/ UnloadChunk(p, c)
     PROVE  LightIsCurrent'
  BY <1>4 DEF Join, Start, Goto, CrossBoundary, CopyChunk, UnloadChunk, worlds, history
<1>5. ASSUME NEW p \in Player, NEW d \in Dim, NEW c \in Chunk,
            Respawn(p, d, c)
     PROVE  LightIsCurrent'
  BY <1>5 DEF Respawn, Start, Goto, Nothing, worlds, history
<1>6. ASSUME NEW p \in Player, SendChunk(p) \/ EndStream(p) PROVE LightIsCurrent'
  BY <1>6 DEF SendChunk, Goto, EndStream, worlds, history
<1>7. ASSUME NEW t \in Task, Tell(t) PROVE LightIsCurrent'
  BY <1>7 DEF Tell, Hearing, worlds, history
<1>8. CASE UNCHANGED vars
  BY <1>8 DEF vars, worlds, history
<1> QED
  BY <1>1, <1>2, <1>3, <1>4, <1>5, <1>6, <1>7, <1>8 DEF Next, Stream

\* A copy is made of what is there; whoever changes the place while it is on its way
\* notes its player.
LEMMA CopyStep ==
  ASSUME Types, CopyIsCurrent, [Next]_vars
  PROVE  CopyIsCurrent'
<1> USE DEF Types, WorldTypes, TaskTypes, CopyHeld, NoneYet, CopyIsCurrent, Copy,
            NoCopy, MayMiss
<1>1. ASSUME NEW p \in Player, NEW c \in Chunk, Join(p, c) PROVE CopyIsCurrent'
  BY <1>1, ChunkViewAssumption DEF Join, Start, Goto, worlds, history
<1>2. ASSUME NEW p \in Player, NEW c \in Chunk, CrossBoundary(p, c) PROVE CopyIsCurrent'
  BY <1>2, ChunkViewAssumption DEF CrossBoundary, Start, Goto, worlds, history
<1>3. ASSUME NEW p \in Player, NEW d \in Dim, NEW c \in Chunk, Respawn(p, d, c)
     PROVE  CopyIsCurrent'
  BY <1>3, ChunkViewAssumption DEF Respawn, Start, Goto, Nothing, worlds, history
<1>4. ASSUME NEW p \in Player, NEW c \in Chunk, CopyChunk(p, c) PROVE CopyIsCurrent'
  BY <1>4, ChunkViewAssumption DEF CopyChunk, Goto, worlds, history
<1>5. ASSUME NEW p \in Player, SendChunk(p) PROVE CopyIsCurrent'
  BY <1>5, ChunkViewAssumption DEF SendChunk, Goto, worlds, history
<1>6. ASSUME NEW t \in Task, NEW d \in Dim, NEW c \in Chunk, NEW s \in Contents,
            SetBlock(t, d, c, s)
     PROVE  CopyIsCurrent'
  BY <1>6, ChunkViewAssumption DEF SetBlock, worlds, history
<1>7. ASSUME NEW t \in Task, Tell(t) PROVE CopyIsCurrent'
  BY <1>7, ChunkViewAssumption DEF Tell, Hearing, worlds, history
<1>8. ASSUME NEW p \in Player, StoreLight(p) \/ EndStream(p) PROVE CopyIsCurrent'
  BY <1>8 DEF StoreLight, Goto, EndStream, worlds, history
<1>9. ASSUME NEW p \in Player, NEW c \in Chunk, UnloadChunk(p, c) PROVE CopyIsCurrent'
  BY <1>9 DEF UnloadChunk, worlds, history
<1>10. ASSUME NEW c \in Chunk, Evict(c) PROVE CopyIsCurrent'
  BY <1>10 DEF Evict, Nothing, worlds, history
<1>11. CASE UNCHANGED vars
  BY <1>11 DEF vars, worlds, history
<1> QED
  BY <1>1, <1>2, <1>3, <1>4, <1>5, <1>6, <1>7, <1>8, <1>9, <1>10, <1>11
  DEF Next, Stream

\* Until it is in the table, a client is shown copies only, and whoever changes a chunk
\* it has notes it.
LEMMA NewcomerStep ==
  ASSUME Types, LoadedIsShown, CopyIsCurrent, NewcomerIsCurrent, [Next]_vars
  PROVE  NewcomerIsCurrent'
<1> USE DEF Types, WorldTypes, TaskTypes, CopyHeld, NoneYet, LoadedIsShown,
            CopyIsCurrent, NewcomerIsCurrent, Copy, NoCopy, MayMiss
<1>1. ASSUME NEW p \in Player, NEW c \in Chunk, Join(p, c) PROVE NewcomerIsCurrent'
  BY <1>1, ChunkViewAssumption DEF Join, Start, Goto, worlds, history
<1>2. ASSUME NEW p \in Player, NEW d \in Dim, NEW c \in Chunk, Respawn(p, d, c)
     PROVE  NewcomerIsCurrent'
  BY <1>2, ChunkViewAssumption DEF Respawn, Start, Goto, Nothing, worlds, history
<1>3. ASSUME NEW p \in Player, NEW c \in Chunk, CopyChunk(p, c) PROVE NewcomerIsCurrent'
  BY <1>3, ChunkViewAssumption DEF CopyChunk, Goto, worlds, history
<1>4. ASSUME NEW p \in Player, SendChunk(p) PROVE NewcomerIsCurrent'
  BY <1>4, ChunkViewAssumption DEF SendChunk, Goto, worlds, history
<1>5. ASSUME NEW p \in Player, NEW c \in Chunk, UnloadChunk(p, c)
     PROVE  NewcomerIsCurrent'
  BY <1>5, ChunkViewAssumption DEF UnloadChunk, worlds, history
<1>6. ASSUME NEW p \in Player, EndStream(p) PROVE NewcomerIsCurrent'
  BY <1>6, ChunkViewAssumption DEF EndStream, Goto, worlds, history
<1>7. ASSUME NEW t \in Task, NEW d \in Dim, NEW c \in Chunk, NEW s \in Contents,
            SetBlock(t, d, c, s)
     PROVE  NewcomerIsCurrent'
  BY <1>7, ChunkViewAssumption DEF SetBlock, worlds, history
<1>8. ASSUME NEW t \in Task, Tell(t) PROVE NewcomerIsCurrent'
  BY <1>8, ChunkViewAssumption DEF Tell, Hearing, worlds, history
<1>9. ASSUME NEW p \in Player, NEW c \in Chunk,
            CrossBoundary(p, c)
     PROVE  NewcomerIsCurrent'
  BY <1>9 DEF CrossBoundary, Start, Goto, worlds, history
<1>10. ASSUME NEW p \in Player, StoreLight(p) PROVE NewcomerIsCurrent'
  BY <1>10 DEF StoreLight, Goto, worlds, history
<1>11. ASSUME NEW c \in Chunk, Evict(c) PROVE NewcomerIsCurrent'
  BY <1>11 DEF Evict, Nothing, worlds, history
<1>12. CASE UNCHANGED vars
  BY <1>12 DEF vars, worlds, history
<1> QED
  BY <1>1, <1>2, <1>3, <1>4, <1>5, <1>6, <1>7, <1>8, <1>9, <1>10, <1>11, <1>12
  DEF Next, Stream

\* A task that changes a place another is telling of notes everyone; whoever copies a
\* place that is being told of otherwise notes itself.
LEMMA TellingStep ==
  ASSUME Types, LoadedIsShown, TellingIsCurrent, [Next]_vars
  PROVE  TellingIsCurrent'
<1> USE DEF Types, WorldTypes, TaskTypes, CopyHeld, NoneYet, Has, Copy, NoCopy, Packet,
            Task
<1> SUFFICES ASSUME NEW u \in Task, NEW q \in Player, telling'[u] # Nowhere,
                    telling'[u].dim = dim'[q], Has(q, telling[u].chunk)',
                    <<q, telling'[u].chunk>> \notin overtaken'
             PROVE  telling'[u].contents = world'[dim'[q]][telling'[u].chunk]
  BY DEF TellingIsCurrent
<1> DEFINE Right == telling'[u].contents = world'[dim'[q]][telling'[u].chunk]
<1>0. (telling[u] # Nowhere /\ telling[u].dim = dim[q] /\ Has(q, telling[u].chunk)
       /\ <<q, telling[u].chunk>> \notin overtaken) =>
         telling[u].contents = world[dim[q]][telling[u].chunk]
  BY DEF TellingIsCurrent
<1>1. ASSUME NEW p \in Player, NEW c \in Chunk, Join(p, c) PROVE Right
  <2>1. CASE q = p
    <3>1. telling[u].chunk \in Chunk
      BY <1>1 DEF Join
    <3>2. shown'[q][telling[u].chunk] = Nowhere
      BY <1>1, <2>1, <3>1 DEF Join, LoadedIsShown
    <3>3. copy'[q] = NoCopy
      BY <1>1, <2>1 DEF Join
    <3> QED
      BY <1>1, <3>1, <3>2, <3>3, ChunkViewAssumption DEF Join
  <2>2. CASE q # p
    BY <1>1, <2>2, <1>0 DEF Join, Start, worlds, history
  <2> QED
    BY <2>1, <2>2
<1>2. ASSUME NEW p \in Player, NEW c \in Chunk, CrossBoundary(p, c) PROVE Right
  BY <1>2, <1>0 DEF CrossBoundary, Start, Goto, worlds, history
<1>3. ASSUME NEW p \in Player, NEW d \in Dim, NEW c \in Chunk, Respawn(p, d, c)
     PROVE  Right
  <2>1. CASE q = p
    <3>1. telling[u].chunk \in Chunk
      BY <1>3 DEF Respawn
    <3>2. shown'[q][telling[u].chunk] = Nowhere
      BY <1>3, <2>1, <3>1 DEF Respawn, Nothing
    <3>3. copy'[q] = NoCopy
      BY <1>3, <2>1 DEF Respawn
    <3> QED
      BY <1>3, <3>1, <3>2, <3>3, ChunkViewAssumption DEF Respawn
  <2>2. CASE q # p
    BY <1>3, <2>2, <1>0 DEF Respawn, Start, worlds, history
  <2> QED
    BY <2>1, <2>2
<1>4. ASSUME NEW p \in Player, NEW c \in Chunk, CopyChunk(p, c) PROVE Right
  <2>1. CASE q = p /\ telling[u].chunk = c
    BY <1>4, <2>1 DEF CopyChunk, InFlux, worlds
  <2>2. CASE ~(q = p /\ telling[u].chunk = c)
    BY <1>4, <2>2, <1>0 DEF CopyChunk
  <2> QED
    BY <2>1, <2>2
<1>5. ASSUME NEW p \in Player, StoreLight(p) PROVE Right
  BY <1>5, <1>0 DEF StoreLight, Goto, worlds, history
<1>6. ASSUME NEW p \in Player, SendChunk(p) PROVE Right
  BY <1>6, <1>0, ChunkViewAssumption DEF SendChunk, Goto, worlds, history
<1>7. ASSUME NEW p \in Player, NEW c \in Chunk, UnloadChunk(p, c) PROVE Right
  BY <1>7, <1>0 DEF UnloadChunk, worlds, history
<1>8. ASSUME NEW p \in Player, EndStream(p) PROVE Right
  BY <1>8, <1>0 DEF EndStream, Goto, worlds, history
<1>9. ASSUME NEW t \in Task, NEW d \in Dim, NEW c \in Chunk, NEW s \in Contents,
            SetBlock(t, d, c, s)
     PROVE  Right
  <2>1. CASE u = t
    BY <1>9, <2>1 DEF SetBlock
  <2>2. CASE u # t /\ telling[u].dim = d /\ telling[u].chunk = c
    BY <1>9, <2>2 DEF SetBlock, MayMiss
  <2>3. CASE u # t /\ ~(telling[u].dim = d /\ telling[u].chunk = c)
    BY <1>9, <2>3, <1>0 DEF SetBlock
  <2> QED
    BY <2>1, <2>2, <2>3
<1>10. ASSUME NEW t \in Task, Tell(t) PROVE Right
  BY <1>10, <1>0 DEF Tell, Hearing, worlds, history
<1>11. ASSUME NEW c \in Chunk, Evict(c) PROVE Right
  BY <1>11, <1>0 DEF Evict, Nothing, worlds, history
<1>12. CASE UNCHANGED vars
  BY <1>12, <1>0 DEF vars, worlds, history
<1> QED
  BY <1>1, <1>2, <1>3, <1>4, <1>5, <1>6, <1>7, <1>8, <1>9, <1>10, <1>11, <1>12
  DEF Next, Stream

\* A task goes on being about to tell of a place while nothing is set and none tells.
LEMMA StillToBeTold ==
  ASSUME NEW q \in Player, NEW k \in Chunk, dim'[q] = dim[q], UNCHANGED <<world, telling>>
  PROVE  ToBeTold(q, k) => ToBeTold(q, k)'
  BY DEF ToBeTold

\* A copy that arrives is current; a change is about to be told by the task that made
\* it, to all who have the chunk and are in the table; what is told is current.
LEMMA ShowStep ==
  ASSUME Types, LoadedIsShown, Current, ClientsShowTheWorld, [Next]_vars
  PROVE  ClientsShowTheWorld'
<1> USE DEF Types, WorldTypes, TaskTypes, CopyHeld, NoneYet, Current, Copy, NoCopy,
            Packet, Task
<1> SUFFICES ASSUME NEW q \in Player, NEW k \in Chunk, shown'[q][k] # Nowhere,
                    <<q, k>> \notin overtaken'
             PROVE  shown'[q][k] = world'[dim'[q]][k] \/ ToBeTold(q, k)'
  BY DEF ClientsShowTheWorld
<1> DEFINE Right == shown'[q][k] = world'[dim'[q]][k] \/ ToBeTold(q, k)'
<1>0. shown[q][k] # Nowhere /\ <<q, k>> \notin overtaken =>
        shown[q][k] = world[dim[q]][k] \/ ToBeTold(q, k)
  BY DEF ClientsShowTheWorld
<1>1. ASSUME NEW p \in Player, NEW c \in Chunk, Join(p, c) PROVE Right
  <2>1. CASE q = p
    BY <1>1, <2>1 DEF Join, LoadedIsShown
  <2>2. CASE q # p
    BY <1>1, <2>2, <1>0, StillToBeTold DEF Join, Start, worlds, history
  <2> QED
    BY <2>1, <2>2
<1>2. ASSUME NEW p \in Player, NEW c \in Chunk, CrossBoundary(p, c) PROVE Right
  BY <1>2, <1>0, StillToBeTold DEF CrossBoundary, Start, Goto, worlds, history
<1>3. ASSUME NEW p \in Player, NEW d \in Dim, NEW c \in Chunk, Respawn(p, d, c)
     PROVE  Right
  <2>1. CASE q = p
    BY <1>3, <2>1 DEF Respawn, Nothing
  <2>2. CASE q # p
    BY <1>3, <2>2, <1>0, StillToBeTold DEF Respawn, Start, worlds, history
  <2> QED
    BY <2>1, <2>2
<1>4. ASSUME NEW p \in Player, NEW c \in Chunk, CopyChunk(p, c) PROVE Right
  <2>1. shown[q][k] # Nowhere /\ <<q, k>> \notin overtaken
    BY <1>4 DEF CopyChunk, LoadedIsShown
  <2> QED
    BY <1>4, <2>1, <1>0, StillToBeTold DEF CopyChunk
<1>5. ASSUME NEW p \in Player, StoreLight(p) PROVE Right
  BY <1>5, <1>0, StillToBeTold DEF StoreLight, Goto, worlds, history
<1>6. ASSUME NEW p \in Player, SendChunk(p) PROVE Right
  <2>1. CASE q = p /\ k = copy[p].chunk
    BY <1>6, <2>1 DEF SendChunk, CopyIsCurrent, worlds, history
  <2>2. CASE ~(q = p /\ k = copy[p].chunk)
    BY <1>6, <2>2, <1>0, StillToBeTold DEF SendChunk, worlds, history
  <2> QED
    BY <2>1, <2>2
<1>7. ASSUME NEW p \in Player, NEW c \in Chunk, UnloadChunk(p, c) PROVE Right
  BY <1>7, <1>0, StillToBeTold DEF UnloadChunk, worlds, history
<1>8. ASSUME NEW p \in Player, EndStream(p) PROVE Right
  BY <1>8, <1>0, StillToBeTold DEF EndStream, Goto, worlds, history
<1>9. ASSUME NEW t \in Task, NEW d \in Dim, NEW c \in Chunk, NEW s \in Contents,
            SetBlock(t, d, c, s)
     PROVE  Right
  <2>1. CASE d = dim[q] /\ k = c
    <3>1. world'[dim'[q]][k] = s /\ telling'[t] = [dim |-> dim'[q], chunk |-> k, contents |-> s]
      BY <1>9, <2>1 DEF SetBlock
    <3> QED
      BY <3>1 DEF ToBeTold
  <2>2. CASE ~(d = dim[q] /\ k = c)
    <3>1. world'[dim'[q]][k] = world[dim[q]][k] /\ dim'[q] = dim[q] /\ shown' = shown
      BY <1>9, <2>2 DEF SetBlock
    <3>2. <<q, k>> \notin overtaken
      BY <1>9 DEF SetBlock
    <3>3. ASSUME ToBeTold(q, k) PROVE ToBeTold(q, k)'
      <4>1. PICK u \in Task : telling[u] = [dim |-> dim[q], chunk |-> k,
                                            contents |-> world[dim[q]][k]]
        BY <3>3 DEF ToBeTold
      <4>2. telling[u] # Nowhere
        BY <4>1, ChunkViewAssumption
      <4>3. telling'[u] = telling[u]
        BY <1>9, <4>2 DEF SetBlock, MayEdit
      <4> QED
        BY <3>1, <4>1, <4>3 DEF ToBeTold
    <3> QED
      BY <3>1, <3>2, <3>3, <1>0
  <2> QED
    BY <2>1, <2>2
<1>10. ASSUME NEW t \in Task, Tell(t) PROVE Right
  <2> DEFINE m == telling[t]
  <2>0. UNCHANGED <<world, dim, table, copy>> /\ m \in Packet /\ <<q, k>> \notin overtaken
    BY <1>10 DEF Tell, worlds
  <2>1. CASE q \in table /\ shown[q][k] # Nowhere /\ m.chunk = k
    <3>1. shown'[q][k] = m.contents
      BY <1>10, <2>1 DEF Tell, Hearing
    <3>2. m.dim = dim[q]
      BY <1>10, <2>1 DEF Tell, Hearing
    <3>3. m.contents = world[dim[q]][k]
      BY <1>10, <2>0, <2>1, <3>2 DEF Tell, TellingIsCurrent, Has
    <3> QED
      BY <2>0, <3>1, <3>3
  <2>2. CASE q \notin table
    <3>1. shown'[q][k] = shown[q][k]
      BY <1>10, <2>2 DEF Tell, Hearing
    <3> QED
      BY <2>0, <2>2, <3>1 DEF NewcomerIsCurrent
  <2>3. CASE q \in table /\ shown[q][k] # Nowhere /\ m.chunk # k
    <3>1. shown'[q][k] = shown[q][k]
      BY <1>10, <2>3 DEF Tell, Hearing
    <3>2. ASSUME ToBeTold(q, k) PROVE ToBeTold(q, k)'
      <4>1. PICK u \in Task : telling[u] = [dim |-> dim[q], chunk |-> k,
                                            contents |-> world[dim[q]][k]]
        BY <3>2 DEF ToBeTold
      <4>2. u # t
        BY <4>1, <2>3
      <4>3. telling'[u] = telling[u]
        BY <1>10, <4>2 DEF Tell
      <4> QED
        BY <2>0, <4>1, <4>3 DEF ToBeTold
    <3> QED
      BY <2>0, <3>1, <3>2, <1>0
  <2>4. CASE q \in table /\ shown[q][k] = Nowhere
    BY <1>10, <2>4 DEF Tell, Hearing
  <2> QED
    BY <2>1, <2>2, <2>3, <2>4
<1>11. ASSUME NEW c \in Chunk, Evict(c) PROVE Right
  BY <1>11, <1>0, StillToBeTold DEF Evict, Nothing, worlds, history
<1>12. CASE UNCHANGED vars
  BY <1>12, <1>0, StillToBeTold DEF vars, worlds, history
<1> QED
  BY <1>1, <1>2, <1>3, <1>4, <1>5, <1>6, <1>7, <1>8, <1>9, <1>10, <1>11, <1>12
  DEF Next, Stream

(***************************************************************************)
(* The theorems.                                                           *)
(***************************************************************************)

\* The invariant holds at first ...
LEMMA ChunkViewInit == Init => ChunkViewInv
<1> SUFFICES ASSUME Init PROVE ChunkViewInv
  OBVIOUS
<1> USE ChunkViewAssumption DEF Init, Nothing, NoCopy
<1>1. Types
  BY DEF Types, WorldTypes, TaskTypes, CopyHeld, NoneYet, Phase, Task
<1>2. LoadedIsShown
  BY DEF LoadedIsShown
<1>3. LitIsCurrent /\ LightIsCurrent
  BY DEF LitIsCurrent, LightIsCurrent
<1>4. Current
  BY DEF Current, CopyIsCurrent, NewcomerIsCurrent, TellingIsCurrent, Task
<1>5. ClientsShowTheWorld
  BY DEF ClientsShowTheWorld
<1> QED
  BY <1>1, <1>2, <1>3, <1>4, <1>5 DEF ChunkViewInv

\* ... and every step keeps it.
LEMMA ChunkViewStep == ChunkViewInv /\ [Next]_vars => ChunkViewInv'
<1> SUFFICES ASSUME ChunkViewInv, [Next]_vars PROVE ChunkViewInv'
  OBVIOUS
<1> USE DEF ChunkViewInv
<1>1. Types'
  BY WorldTypesStep, TaskTypesStep, PhasesStep DEF Types
<1>2. LoadedIsShown'
  BY LoadedStep
<1>3. LitIsCurrent' /\ LightIsCurrent'
  BY LitStep, LightStep
<1>4. Current'
  BY CopyStep, NewcomerStep, TellingStep DEF Current
<1>5. ClientsShowTheWorld'
  BY ShowStep
<1> QED
  BY <1>1, <1>2, <1>3, <1>4, <1>5

\* The set a connection keeps of the chunks its client has is right, through every
\* order of streaming, changing dimension, respawning and broadcasts.
\* (connection.rs, stream_chunks, switch_dimension, respawn_player)
THEOREM LoadedCorrect == Spec => []LoadedIsShown
<1>1. ChunkViewInv => LoadedIsShown
  BY DEF ChunkViewInv
<1> QED
  BY <1>1, ChunkViewInit, ChunkViewStep, PTL DEF Spec

\* Cached light is that of what the chunk holds, with any number of connections that
\* light and store copies of it, unless it was changed during that. (chunk.rs, light)
THEOREM CachedLightCorrect == Spec => []LightIsCurrent
<1>1. ChunkViewInv => LightIsCurrent
  BY DEF ChunkViewInv
<1> QED
  BY <1>1, ChunkViewInit, ChunkViewStep, PTL DEF Spec

\* Any number of clients show what any number of tasks make of the worlds, or are about
\* to be told of it, unless the change is one of those noted. (connection.rs,
\* stream_chunks and the handlers that set blocks; state.rs, broadcast)
THEOREM ViewsCorrect == Spec => []ClientsShowTheWorld
<1>1. ChunkViewInv => ClientsShowTheWorld
  BY DEF ChunkViewInv
<1> QED
  BY <1>1, ChunkViewInit, ChunkViewStep, PTL DEF Spec
=============================================================================
