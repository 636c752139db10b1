----------------------------- MODULE WorldProofs -----------------------------
(***************************************************************************)
(* Theorems about World, for every set of blocks, chunks and states and    *)
(* every generator: its types, the overlay invariant, the refinement of    *)
(* BlockMap in the delta format, and the debt invariant of the region      *)
(* format.                                                                 *)
(***************************************************************************)
EXTENDS World, TLAPS

\* An edit recorded at b, or what the generator has there, is a state.
LEMMA OverlayType ==
  ASSUME NEW e \in [Block -> State \cup {None}], NEW b \in Block
  PROVE  Overlay(e, b) \in State
  BY WorldAssumption DEF Overlay

\* The chunks brought into memory are made of states, and of nothing else.
LEMMA WithLoadedType ==
  ASSUME TypeOK, NEW cs \in SUBSET Chunk
  PROVE  /\ WithLoaded(cs) \in [InRange -> State \cup {None}]
         /\ \A b \in InRange :
              WithLoaded(cs)[b] # None <=> ChunkOf[b] \in loaded \cup cs
  BY OverlayType, WorldAssumption DEF TypeOK, WithLoaded, Built

LEMMA ForgetType ==
  ASSUME TypeOK, Forget, phase' \in {"running", "stopping", "stopped"}
  PROVE  TypeOK'
  BY WorldAssumption DEF TypeOK, Forget, NoEdits, NoFiles, disk

\* Every variable keeps its type through every operation of the store, every
\* save and every crash, in both formats.
THEOREM TypeCorrect == Spec => []TypeOK
<1> USE WorldAssumption
<1>1. Init => TypeOK
  BY DEF Init, TypeOK, NoEdits, NoFiles
<1>2. TypeOK /\ [Next]_vars => TypeOK'
  <2> SUFFICES ASSUME TypeOK, [Next]_vars PROVE TypeOK'
    OBVIOUS
  <2> USE DEF memory, disk, saving
  <2>1. ASSUME NEW c \in Chunk, Load(c) PROVE TypeOK'
    BY <2>1, WithLoadedType DEF Load, TypeOK
  <2>2. ASSUME NEW b \in Block, NEW s \in State, SetBlock(b, s) PROVE TypeOK'
    <3> DEFINE cs == {ChunkOf[b]}
    <3>1. cs \in SUBSET Chunk
      OBVIOUS
    <3>2. /\ WithLoaded(cs) \in [InRange -> State \cup {None}]
          /\ \A x \in InRange : WithLoaded(cs)[x] # None <=> ChunkOf[x] \in loaded \cup cs
      BY <3>1, WithLoadedType
    <3>3. /\ grid' = [x \in InRange |-> IF x = b THEN s ELSE WithLoaded(cs)[x]]
          /\ loaded' = loaded \cup cs
      BY <2>2 DEF SetBlock
    <3> HIDE DEF cs
    <3>4. /\ grid' \in [InRange -> State \cup {None}]
          /\ \A x \in InRange : grid'[x] # None <=> ChunkOf[x] \in loaded'
      BY <3>2, <3>3 DEF cs
    <3> QED
      BY <3>3, <3>4, <2>2 DEF SetBlock, TypeOK
  <2>3. ASSUME NEW keep \in SUBSET Chunk, RetainChunks(keep) PROVE TypeOK'
    BY <2>3 DEF RetainChunks, TypeOK
  <2>4. ASSUME NEW s \in Saver, DeltaBegin(s) PROVE TypeOK'
    BY <2>4 DEF DeltaBegin, TypeOK
  <2>5. ASSUME NEW s \in Saver, DeltaPublish(s) PROVE TypeOK'
    BY <2>5 DEF DeltaPublish, Renamed, After, TypeOK, NoEdits
  <2>6. ASSUME NEW s \in Saver, DeltaFail(s) PROVE TypeOK'
    BY <2>6 DEF DeltaFail, After, TypeOK, NoEdits
  <2>7. ASSUME NEW s \in Saver, RegionBegin(s) PROVE TypeOK'
    BY <2>7 DEF RegionBegin, TypeOK
  <2>8. ASSUME NEW s \in Saver, RegionEnd(s) PROVE TypeOK'
    BY <2>8 DEF RegionEnd, After, TypeOK
  <2>9. ASSUME NEW s \in Saver, NEW c \in Chunk, RegionWrite(s, c) PROVE TypeOK'
    BY <2>9 DEF RegionWrite, TypeOK
  <2>10. ASSUME NEW s \in Saver, NEW c \in Chunk, RegionFail(s, c) PROVE TypeOK'
    BY <2>10 DEF RegionFail, TypeOK
  <2>16. ASSUME NEW s \in Saver, DeltaCreate(s) PROVE TypeOK'
    BY <2>16 DEF DeltaCreate, TypeOK, NoEdits
  <2>17. ASSUME NEW s \in Saver, DeltaWrite(s) PROVE TypeOK'
    BY <2>17 DEF DeltaWrite, TypeOK
  <2>11. CASE CtrlC
    BY <2>11 DEF CtrlC, TypeOK
  <2>12. CASE Stop
    BY <2>12, ForgetType DEF Stop
  <2>13. CASE Boot
    BY <2>13 DEF Boot, TypeOK
  <2>14. CASE Crash
    BY <2>14, ForgetType DEF Crash
  <2>15. CASE UNCHANGED vars
    BY <2>15 DEF vars, TypeOK
  <2> QED
    BY <2>1, <2>2, <2>3, <2>4, <2>5, <2>6, <2>7, <2>8, <2>9, <2>10, <2>11,
       <2>12, <2>13, <2>14, <2>15, <2>16, <2>17 DEF Next
<1> QED
  BY <1>1, <1>2, PTL DEF Spec

-----------------------------------------------------------------------------

\* The inductive strengthening of ChunkIsOverlay: without it a chunk could be
\* built from a region file, which carries no edits.
DeltaInv == Format = "delta" => /\ region = NoFiles
                                /\ ChunkIsOverlay

\* In the delta format a chunk brought into memory is the generator's with the
\* recorded edits over it, and so are those that were there.
LEMMA WithLoadedOverlay ==
  ASSUME TypeOK, DeltaInv, Format = "delta",
         NEW cs \in SUBSET Chunk, NEW b \in InRange, ChunkOf[b] \in loaded \cup cs
  PROVE  WithLoaded(cs)[b] = Overlay(edits, b)
  BY WorldAssumption DEF TypeOK, DeltaInv, ChunkIsOverlay, WithLoaded, Built, NoFiles

LEMMA DeltaInvStep == TypeOK /\ DeltaInv /\ [Next]_vars => DeltaInv'
<1> SUFFICES ASSUME TypeOK, DeltaInv, [Next]_vars, Format = "delta"
             PROVE  region' = NoFiles /\ ChunkIsOverlay'
  BY DEF DeltaInv
<1> USE WorldAssumption DEF memory, disk, saving, ChunkIsOverlay
<1>a. region = NoFiles /\ ChunkIsOverlay
  BY DEF DeltaInv
<1>1. ASSUME NEW c \in Chunk, Load(c) PROVE region' = NoFiles /\ ChunkIsOverlay'
  BY <1>1, <1>a, WithLoadedOverlay DEF Load, Overlay
<1>2. ASSUME NEW b \in Block, NEW s \in State, SetBlock(b, s)
      PROVE region' = NoFiles /\ ChunkIsOverlay'
  <2> DEFINE cs == {ChunkOf[b]}
  <2>1. \A x \in InRange : ChunkOf[x] \in loaded \cup cs =>
                             WithLoaded(cs)[x] = Overlay(edits, x)
    BY WithLoadedOverlay
  <2>2. /\ grid' = [x \in InRange |-> IF x = b THEN s ELSE WithLoaded(cs)[x]]
        /\ loaded' = loaded \cup cs
        /\ edits' = [edits EXCEPT ![b] = s]
        /\ region' = region
    BY <1>2 DEF SetBlock
  <2> HIDE DEF cs
  <2>3. \A x \in InRange : ChunkOf[x] \in loaded' => grid'[x] = Overlay(edits', x)
    BY <2>1, <2>2 DEF Overlay, TypeOK
  <2> QED
    BY <2>2, <2>3, <1>a
<1>3. ASSUME NEW keep \in SUBSET Chunk, RetainChunks(keep)
      PROVE region' = NoFiles /\ ChunkIsOverlay'
  BY <1>3, <1>a DEF RetainChunks, Overlay
<1>4. ASSUME NEW s \in Saver, \/ DeltaBegin(s) \/ DeltaCreate(s) \/ DeltaWrite(s)
                               \/ DeltaPublish(s) \/ DeltaFail(s)
      PROVE region' = NoFiles /\ ChunkIsOverlay'
  BY <1>4, <1>a
  DEF DeltaBegin, DeltaCreate, DeltaWrite, DeltaPublish, DeltaFail, Overlay
<1>5. ASSUME NEW s \in Saver, NEW c \in Chunk,
             RegionBegin(s) \/ RegionEnd(s) \/ RegionWrite(s, c) \/ RegionFail(s, c)
      PROVE FALSE
  BY <1>5 DEF RegionBegin, RegionEnd, RegionWrite, RegionFail
<1>6. CASE CtrlC \/ Boot \/ UNCHANGED vars
  BY <1>6, <1>a DEF CtrlC, Boot, vars, Overlay
<1>7. CASE Stop \/ Crash
  BY <1>7, <1>a DEF Stop, Crash, Forget
<1>8. CASE \E s \in Saver : RegionBegin(s) \/ RegionEnd(s)
  BY <1>8 DEF RegionBegin, RegionEnd
<1> QED
  BY <1>1, <1>2, <1>3, <1>4, <1>5, <1>6, <1>7, <1>8 DEF Next

\* In the delta format every chunk in memory is, at all times, what it would
\* be if it were dropped and generated again.
THEOREM OverlayCorrect == Spec => []ChunkIsOverlay
<1>1. Init => DeltaInv
  BY DEF Init, DeltaInv, ChunkIsOverlay
<1>2. DeltaInv => ChunkIsOverlay
  BY DEF DeltaInv, ChunkIsOverlay
<1> QED
  BY <1>1, <1>2, DeltaInvStep, TypeCorrect, PTL DEF Spec

-----------------------------------------------------------------------------

\* c may hold blocks that no file has and no restart brings back.
Owed(c) == c \in dirty \cup orphaned \/ \E s \in Saver : c \in todo[s]

\* The inductive strengthening of NoForgottenDebt.  A chunk that is not owed
\* must also build again as a restart would build it, in case it is dropped;
\* and marks are lost with a chunk unless the history notes it, so a dirty
\* chunk is in memory or orphaned.
DebtInv ==
  Format = "region" =>
    /\ \A b \in InRange : ~Owed(ChunkOf[b]) => /\ View[b] = Durable[b]
                                              /\ Built(b) = Durable[b]
    /\ dirty \subseteq loaded \cup orphaned
    /\ \A s \in Saver : \A c \in todo[s] : c \in loaded /\ pc[s] = "writing"

LEMMA DebtInvInit == Init => DebtInv
  BY WorldAssumption
  DEF Init, DebtInv, View, Durable, Built, Overlay, NoEdits, NoFiles

LEMMA DebtInvStep == TypeOK /\ DebtInv /\ [Next]_vars => DebtInv'
<1> SUFFICES ASSUME TypeOK, DebtInv, [Next]_vars, Format = "region"
             PROVE  DebtInv'
  BY DEF DebtInv
<1> USE WorldAssumption DEF memory, disk, saving
<1>a. /\ \A b \in InRange : ~Owed(ChunkOf[b]) => /\ View[b] = Durable[b]
                                                /\ Built(b) = Durable[b]
      /\ dirty \subseteq loaded \cup orphaned
      /\ \A s \in Saver : \A c \in todo[s] : c \in loaded /\ pc[s] = "writing"
  BY DEF DebtInv
<1>f. Free => \A s \in Saver : \A c \in Chunk : c \notin todo[s]
  BY <1>a DEF Free
<1>1. ASSUME NEW c \in Chunk, Load(c) PROVE DebtInv'
  <2>1. \A b \in InRange : View'[b] = View[b] /\ Built(b)' = Built(b)
    BY <1>1 DEF Load, View, WithLoaded, Built, Overlay, TypeOK
  <2>2. \A b \in InRange : Durable'[b] = Durable[b]
    BY <1>1 DEF Load, Durable
  <2> QED
    BY <2>1, <2>2, <1>1, <1>a DEF Load, DebtInv, Owed, TypeOK
<1>2. ASSUME NEW b \in Block, NEW s \in State, SetBlock(b, s) PROVE DebtInv'
  <2>1. ASSUME NEW x \in InRange, ChunkOf[x] # ChunkOf[b]
        PROVE  View'[x] = View[x] /\ Built(x)' = Built(x) /\ Durable'[x] = Durable[x]
    BY <2>1, <1>2 DEF SetBlock, View, WithLoaded, Built, Overlay, Durable, TypeOK
  <2>2. Owed(ChunkOf[b])'
    BY <1>2 DEF SetBlock, Owed
  <2>3. \A x \in InRange : Owed(ChunkOf[x]) => Owed(ChunkOf[x])'
    BY <1>2 DEF SetBlock, Owed
  <2>4. /\ dirty' \subseteq loaded' \cup orphaned'
        /\ \A t \in Saver : \A c \in todo'[t] : c \in loaded' /\ pc'[t] = "writing"
    BY <1>2, <1>a DEF SetBlock
  <2> QED
    BY <2>1, <2>2, <2>3, <2>4, <1>a DEF DebtInv
<1>3. ASSUME NEW keep \in SUBSET Chunk, RetainChunks(keep) PROVE DebtInv'
  <2>1. \A b \in InRange : /\ Built(b)' = Built(b)
                            /\ Durable'[b] = Durable[b]
                            /\ View'[b] = IF ChunkOf[b] \in keep THEN View[b] ELSE Built(b)
    BY <1>3 DEF RetainChunks, View, Built, Overlay, Durable, TypeOK
  <2>2. \A c \in Chunk : Owed(c) => Owed(c)'
    BY <1>3 DEF RetainChunks, Owed
  <2>3. dirty' \subseteq loaded' \cup orphaned'
    BY <1>3, <1>a DEF RetainChunks
  <2>4. \A t \in Saver : \A d \in todo'[t] : d \in loaded' /\ pc'[t] = "writing"
    BY <1>3, <1>f DEF RetainChunks, TypeOK
  <2> QED
    BY <2>1, <2>2, <2>3, <2>4, <1>a DEF DebtInv
<1>4. ASSUME NEW s \in Saver, RegionBegin(s) PROVE DebtInv'
  <2>1. \A b \in InRange : View'[b] = View[b] /\ Built(b)' = Built(b)
                            /\ Durable'[b] = Durable[b]
    BY <1>4 DEF RegionBegin, View, Built, Overlay, Durable
  <2>2. \A c \in Chunk : Owed(c) => Owed(c)'
    BY <1>4, <1>a, <1>f DEF RegionBegin, Owed, TypeOK
  <2>3. dirty' = {}
    BY <1>4 DEF RegionBegin
  <2>4. \A t \in Saver : \A d \in todo'[t] : d \in loaded' /\ pc'[t] = "writing"
    BY <1>4, <1>a DEF RegionBegin, TypeOK
  <2> QED
    BY <2>1, <2>2, <2>3, <2>4, <1>a DEF DebtInv
<1>5. ASSUME NEW s \in Saver, NEW c \in Chunk, RegionWrite(s, c) PROVE DebtInv'
  <2>1. c \in loaded
    BY <1>5, <1>a DEF RegionWrite
  <2>2. ASSUME NEW b \in InRange, ChunkOf[b] = c
        PROVE  View'[b] = Durable'[b] /\ Built(b)' = Durable'[b]
    <3>1. grid[b] # None /\ region'[b] = grid[b] /\ grid' = grid /\ loaded' = loaded
      BY <2>1, <2>2, <1>5 DEF RegionWrite, TypeOK
    <3> QED
      BY <3>1, <2>1, <2>2 DEF View, Durable, Built
  <2>3. ASSUME NEW b \in InRange, ChunkOf[b] # c
        PROVE  /\ View'[b] = View[b] /\ Built(b)' = Built(b) /\ Durable'[b] = Durable[b]
               /\ Owed(ChunkOf[b]) => Owed(ChunkOf[b])'
    BY <2>3, <1>5 DEF RegionWrite, View, Durable, Built, Overlay, Owed, TypeOK
  <2>4. dirty' \subseteq loaded' \cup orphaned'
    BY <2>1, <1>5, <1>a DEF RegionWrite
  <2>5. \A t \in Saver : \A d \in todo'[t] : d \in loaded' /\ pc'[t] = "writing"
    BY <1>5, <1>a DEF RegionWrite, TypeOK
  <2> QED
    BY <2>2, <2>3, <2>4, <2>5, <1>a DEF DebtInv
<1>6. ASSUME NEW s \in Saver, NEW c \in Chunk, RegionFail(s, c) PROVE DebtInv'
  <2>1. \A b \in InRange : View'[b] = View[b] /\ Built(b)' = Built(b)
                            /\ Durable'[b] = Durable[b]
    BY <1>6 DEF RegionFail, View, Built, Overlay, Durable
  <2>2. \A d \in Chunk : Owed(d) => Owed(d)'
    BY <1>6 DEF RegionFail, Owed, TypeOK
  <2>3. dirty' \subseteq loaded' \cup orphaned'
    BY <1>6, <1>a DEF RegionFail
  <2>4. \A t \in Saver : \A d \in todo'[t] : d \in loaded' /\ pc'[t] = "writing"
    BY <1>6, <1>a DEF RegionFail, TypeOK
  <2> QED
    BY <2>1, <2>2, <2>3, <2>4, <1>a DEF DebtInv
<1>7. ASSUME NEW s \in Saver, RegionEnd(s) PROVE DebtInv'
  BY <1>7, <1>a
  DEF RegionEnd, After, DebtInv, View, Built, Overlay, Durable, Owed, TypeOK
<1>8. CASE CtrlC \/ Boot \/ UNCHANGED vars
  BY <1>8, <1>a
  DEF CtrlC, Boot, vars, DebtInv, View, Built, Overlay, Durable, Owed
<1>9. CASE Stop \/ Crash
  BY <1>9 DEF Stop, Crash, Forget, DebtInv, View, Built, Overlay, Durable, NoEdits
<1>10. ASSUME NEW s \in Saver, \/ DeltaBegin(s) \/ DeltaCreate(s) \/ DeltaWrite(s)
                                \/ DeltaPublish(s) \/ DeltaFail(s)
       PROVE FALSE
  BY <1>10 DEF DeltaBegin, DeltaCreate, DeltaWrite, DeltaPublish, DeltaFail
<1> QED
  BY <1>1, <1>2, <1>3, <1>4, <1>5, <1>6, <1>7, <1>8, <1>9, <1>10 DEF Next

\* In the region format no block goes missing from the books: where memory and
\* disk differ, the chunk is dirty, being written, or one of the orphaned.
THEOREM DebtAccounted == Spec => []NoForgottenDebt
<1>1. DebtInv => NoForgottenDebt
  BY DEF DebtInv, NoForgottenDebt, Owed
<1> QED
  BY <1>1, DebtInvInit, DebtInvStep, TypeCorrect, PTL DEF Spec

\* In the region format, dropping a chunk that is not owed changes nothing for
\* its readers.
THEOREM CleanEvictionCorrect == Format = "region" => (Spec => CleanEvictionIsInvisible)
<1> SUFFICES ASSUME Format = "region" PROVE Spec => CleanEvictionIsInvisible
  OBVIOUS
<1>1. ASSUME TypeOK, DebtInv, NEW keep \in SUBSET Chunk, RetainChunks(keep),
             NEW b \in InRange, ChunkOf[b] \notin dirty \cup orphaned
      PROVE  View'[b] = View[b]
  <2>1. ~Owed(ChunkOf[b])
    BY <1>1 DEF Owed, DebtInv, RetainChunks, Free
  <2>2. View'[b] = IF ChunkOf[b] \in keep THEN View[b] ELSE Built(b)
    BY <1>1, WorldAssumption
    DEF RetainChunks, View, Built, Overlay, TypeOK, disk, saving
  <2> QED
    BY <2>1, <2>2, <1>1 DEF DebtInv
<1>2. TypeOK /\ DebtInv =>
        [(\E keep \in SUBSET Chunk : RetainChunks(keep)) =>
           \A b \in InRange :
             ChunkOf[b] \notin dirty \cup orphaned => View'[b] = View[b]]_vars
  BY <1>1
<1> QED
  BY <1>2, DebtInvInit, DebtInvStep, TypeCorrect, PTL DEF Spec, CleanEvictionIsInvisible

-----------------------------------------------------------------------------

\* With one saver, the file it has open is blocks.tmp, and once it has written
\* that file holds its picture: what it renames is what it took.
SaveInv == /\ \A s \in Saver : pc[s] = "open" => file[s] = "tmp"
           /\ \A s \in Saver : pc[s] = "written" => blocksTmp = {snap[s]}

OneSaver == \A s, t \in Saver : s = t

LEMMA SaveInvStep ==
  ASSUME TypeOK, SaveInv, OneSaver, Format = "delta", [Next]_vars
  PROVE  SaveInv'
<1> USE WorldAssumption DEF SaveInv, memory, disk, saving
<1>1. ASSUME NEW c \in Chunk, Load(c) PROVE SaveInv'
  BY <1>1 DEF Load
<1>2. ASSUME NEW b \in Block, NEW s \in State, SetBlock(b, s) PROVE SaveInv'
  BY <1>2 DEF SetBlock
<1>3. ASSUME NEW keep \in SUBSET Chunk, RetainChunks(keep) PROVE SaveInv'
  BY <1>3 DEF RetainChunks
<1>4. ASSUME NEW s \in Saver, DeltaBegin(s) PROVE SaveInv'
  BY <1>4 DEF DeltaBegin, TypeOK, OneSaver
<1>5. ASSUME NEW s \in Saver, DeltaCreate(s) PROVE SaveInv'
  BY <1>5 DEF DeltaCreate, TypeOK, OneSaver
<1>6. ASSUME NEW s \in Saver, DeltaWrite(s) PROVE SaveInv'
  BY <1>6 DEF DeltaWrite, TypeOK, OneSaver
<1>7. ASSUME NEW s \in Saver, DeltaPublish(s) \/ DeltaFail(s) PROVE SaveInv'
  <2>1. pc' = [pc EXCEPT ![s] = After(s, "saved")]
        \/ pc' = [pc EXCEPT ![s] = After(s, "failed")]
    BY <1>7 DEF DeltaPublish, DeltaFail
  <2>2. \A t \in Saver : pc'[t] \notin {"open", "written"}
    BY <2>1 DEF After, TypeOK, OneSaver
  <2> QED
    BY <2>2
<1>8. ASSUME NEW s \in Saver, NEW c \in Chunk,
             RegionBegin(s) \/ RegionEnd(s) \/ RegionWrite(s, c) \/ RegionFail(s, c)
      PROVE FALSE
  BY <1>8 DEF RegionBegin, RegionEnd, RegionWrite, RegionFail
<1>9. CASE \E s \in Saver : RegionBegin(s) \/ RegionEnd(s)
  BY <1>9 DEF RegionBegin, RegionEnd
<1>10. CASE CtrlC \/ Boot \/ UNCHANGED vars
  BY <1>10 DEF CtrlC, Boot, vars
<1>11. CASE Stop \/ Crash
  BY <1>11 DEF Stop, Crash, Forget
<1> QED
  BY <1>1, <1>2, <1>3, <1>4, <1>5, <1>6, <1>7, <1>8, <1>9, <1>10, <1>11 DEF Next

-----------------------------------------------------------------------------

\* In the delta format a reader sees the generator with the edits over it,
\* whether the chunk is in memory or not.
LEMMA ViewIsOverlay ==
  ASSUME TypeOK, DeltaInv, Format = "delta"
  PROVE  View = [b \in InRange |-> Overlay(edits, b)]
  BY DEF View, Built, DeltaInv, ChunkIsOverlay, NoFiles

\* One step of the store, in the delta format and with one saver, is a step of
\* BlockMap or leaves the abstract map as it is.
LEMMA StepSimulation ==
  ASSUME TypeOK, DeltaInv, SaveInv, DeltaInv', Format = "delta", [Next]_vars
  PROVE  [Store!Next]_(Store!vars)
<1> USE WorldAssumption DEF memory, disk, saving
<1>a. /\ View = [b \in InRange |-> Overlay(edits, b)]
      /\ View' = [b \in InRange |-> Overlay(edits', b)]
  <2>1. View = [b \in InRange |-> Overlay(edits, b)]
    BY ViewIsOverlay
  <2>2. View' = [b \in InRange |-> Overlay(edits', b)]
    BY DEF View, Built, DeltaInv, ChunkIsOverlay, NoFiles
  <2> QED
    BY <2>1, <2>2
<1>b. /\ Durable = [b \in InRange |-> Overlay(blocksBin, b)]
      /\ Durable' = [b \in InRange |-> Overlay(blocksBin', b)]
  BY DEF Durable
<1> DEFINE Same == View' = View /\ Durable' = Durable /\ Pictures' = Pictures
<1>s. Same => [Store!Next]_(Store!vars)
  BY DEF Store!vars
<1>1. ASSUME NEW c \in Chunk, Load(c) PROVE Same
  BY <1>1, <1>a, <1>b DEF Load, Pictures, Overlay
<1>2. ASSUME NEW b \in Block, NEW s \in State, SetBlock(b, s)
      PROVE  [Store!Next]_(Store!vars)
  <2>1. Durable' = Durable /\ Pictures' = Pictures
    BY <1>2, <1>b DEF SetBlock, Pictures, Overlay
  <2>2. CASE b \in InRange
    <3>1. View' = [View EXCEPT ![b] = s]
      BY <1>2, <2>2, <1>a DEF SetBlock, Overlay, TypeOK
    <3>2. Store!Set(b, s)
      BY <2>1, <3>1 DEF Store!Set
    <3> QED
      BY <2>2, <3>2 DEF Store!Next
  <2>3. CASE b \notin InRange
    <3>1. View' = View
      BY <1>2, <2>3, <1>a DEF SetBlock, Overlay, TypeOK
    <3> QED
      BY <2>1, <3>1, <1>s
  <2> QED
    BY <2>2, <2>3
<1>3. ASSUME NEW keep \in SUBSET Chunk, RetainChunks(keep) PROVE Same
  BY <1>3, <1>a, <1>b DEF RetainChunks, Pictures, Overlay
<1>4. ASSUME NEW s \in Saver, DeltaBegin(s) PROVE Store!Take(s)
  <2>1. View' = View /\ Durable' = Durable
    BY <1>4, <1>a, <1>b DEF DeltaBegin, Overlay
  <2>2. Pictures[s] = {}
    BY <1>4 DEF DeltaBegin, MayBegin, Pictures
  <2>3. Pictures' = [Pictures EXCEPT ![s] = {View}]
    BY <1>4, <1>a DEF DeltaBegin, Pictures, TypeOK, Overlay
  <2> QED
    BY <2>1, <2>2, <2>3 DEF Store!Take
<1>5. ASSUME NEW s \in Saver, DeltaCreate(s) \/ DeltaWrite(s) PROVE Same
  <2>1. edits' = edits /\ blocksBin' = blocksBin
    BY <1>5 DEF DeltaCreate, DeltaWrite, SaveInv
  <2>2. Pictures' = Pictures
    <3>1. snap' = snap
      BY <1>5 DEF DeltaCreate, DeltaWrite
    <3>2. \A t \in Saver : pc'[t] \in {"writing", "open", "written"} <=>
                           pc[t] \in {"writing", "open", "written"}
      BY <1>5 DEF DeltaCreate, DeltaWrite, TypeOK
    <3> QED
      BY <3>1, <3>2 DEF Pictures, Overlay
  <2> QED
    BY <2>1, <2>2, <1>a, <1>b
<1>6. ASSUME NEW s \in Saver, DeltaPublish(s) PROVE Store!Publish(s)
  <2>1. View' = View
    BY <1>6, <1>a DEF DeltaPublish
  <2>2. Pictures[s] = {[b \in InRange |-> Overlay(snap[s], b)]}
    BY <1>6 DEF DeltaPublish, Pictures
  <2>3. blocksBin' = snap[s]
    BY <1>6 DEF DeltaPublish, SaveInv
  <2>4. Durable' \in Pictures[s]
    BY <1>b, <2>2, <2>3
  <2>5. Pictures' = [Pictures EXCEPT ![s] = {}]
    <3>1. /\ pc'[s] \notin {"writing", "open", "written"}
          /\ \A t \in Saver \ {s} : pc'[t] = pc[t] /\ snap'[t] = snap[t]
      BY <1>6 DEF DeltaPublish, After, TypeOK
    <3>2. \A t \in Saver : Pictures'[t] = IF t = s THEN {} ELSE Pictures[t]
      BY <3>1 DEF Pictures, Overlay
    <3>3. Pictures' = [t \in Saver |-> Pictures'[t]]
      BY DEF Pictures
    <3>4. Pictures = [t \in Saver |-> Pictures[t]]
      BY DEF Pictures
    <3> HIDE DEF Pictures
    <3> QED
      BY <3>2, <3>3, <3>4
  <2> QED
    BY <2>1, <2>4, <2>5 DEF Store!Publish
<1>7. ASSUME NEW s \in Saver, DeltaFail(s) PROVE Store!Abandon(s)
  <2>1. View' = View /\ Durable' = Durable
    BY <1>7, <1>a, <1>b DEF DeltaFail
  <2>2. Pictures' = [Pictures EXCEPT ![s] = {}]
    <3>1. /\ pc'[s] \notin {"writing", "open", "written"}
          /\ \A t \in Saver \ {s} : pc'[t] = pc[t] /\ snap'[t] = snap[t]
      BY <1>7 DEF DeltaFail, After, TypeOK
    <3>2. \A t \in Saver : Pictures'[t] = IF t = s THEN {} ELSE Pictures[t]
      BY <3>1 DEF Pictures, Overlay
    <3>3. Pictures' = [t \in Saver |-> Pictures'[t]]
      BY DEF Pictures
    <3>4. Pictures = [t \in Saver |-> Pictures[t]]
      BY DEF Pictures
    <3> HIDE DEF Pictures
    <3> QED
      BY <3>2, <3>3, <3>4
  <2> QED
    BY <2>1, <2>2 DEF Store!Abandon
<1>8. CASE CtrlC \/ Boot \/ UNCHANGED vars
  BY <1>8, <1>a, <1>b, <1>s DEF CtrlC, Boot, vars, Pictures, Overlay
<1>9. CASE Stop \/ Crash
  <2>1. edits' = blocksBin /\ blocksBin' = blocksBin
    BY <1>9 DEF Stop, Crash, Forget
  <2>2. View' = Durable /\ Durable' = Durable
    BY <2>1, <1>a, <1>b
  <2>3. Pictures' = [s \in Saver |-> {}]
    BY <1>9 DEF Stop, Crash, Forget, Pictures
  <2> QED
    BY <2>2, <2>3 DEF Store!Restart, Store!Next
<1>10. CASE \E s \in Saver, c \in Chunk :
               RegionBegin(s) \/ RegionEnd(s) \/ RegionWrite(s, c) \/ RegionFail(s, c)
  BY <1>10 DEF RegionBegin, RegionEnd, RegionWrite, RegionFail
<1>11. CASE \E s \in Saver : RegionBegin(s) \/ RegionEnd(s)
  BY <1>11 DEF RegionBegin, RegionEnd
<1>12. \A s \in Saver : Store!Take(s) \/ Store!Publish(s) \/ Store!Abandon(s) => Store!Next
  BY DEF Store!Next
<1> HIDE DEF Same
<1> QED
  BY <1>s, <1>1, <1>2, <1>3, <1>4, <1>5, <1>6, <1>7, <1>8, <1>9, <1>10, <1>11, <1>12
  DEF Next

\* The delta format with one saver implements BlockMap: the chunks, their
\* eviction, the edit map, the temporary file and crashes do not show.
THEOREM DeltaImplementsBlockMap ==
  Format = "delta" /\ OneSaver => (Spec => ImplementsBlockMap)
<1> SUFFICES ASSUME Format = "delta", OneSaver PROVE Spec => ImplementsBlockMap
  OBVIOUS
<1> USE WorldAssumption
<1>1. Init => DeltaInv /\ SaveInv /\ Store!Init
  BY DEF Init, DeltaInv, SaveInv, ChunkIsOverlay, Store!Init, View, Durable, Built,
         Overlay, NoEdits, NoFiles, Pictures
<1>2. TypeOK /\ SaveInv /\ [Next]_vars => SaveInv'
  BY SaveInvStep
<1>3. TypeOK /\ DeltaInv /\ SaveInv /\ DeltaInv' /\ [Next]_vars
        => [Store!Next]_(Store!vars)
  BY StepSimulation
<1> QED
  BY <1>1, <1>2, <1>3, DeltaInvStep, TypeCorrect, PTL
  DEF Spec, ImplementsBlockMap, Store!Spec
=============================================================================
