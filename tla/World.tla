------------------------------- MODULE World --------------------------------
(***************************************************************************)
(* The block store: crates/world/src/lib.rs (struct World), the tasks of   *)
(* crates/server/src/lib.rs that evict its chunks and save it, and the two *)
(* formats of crates/server/src/persistence.rs.                            *)
(*                                                                         *)
(* One step is one section under the world mutex, or one step of a save    *)
(* that runs outside it.  The two formats lock differently:                *)
(*   delta   `let edits = world.lock().edits().clone();` frees the mutex   *)
(*           before blocks.bin is written, so other tasks run in between;  *)
(*   region  `for .. in world.lock().take_dirty_grids() { .. }` keeps the  *)
(*           guard, a temporary of the loop head, until the loop ends, so  *)
(*           only a crash can come between two of its writes.              *)
(* Both write a temporary file and rename it over the old one.  Under the  *)
(* mutex that is one step here: a killed process leaves one of the two.    *)
(* The delta format has one blocks.tmp for all its savers, so its create,  *)
(* write and rename are steps of their own; a write is a single one, and a *)
(* truncated file is read as a file without edits.                         *)
(***************************************************************************)
CONSTANTS Block,      \* world coordinates that are set and read
          InRange,    \* those with MIN_Y <= y < MIN_Y + WORLD_HEIGHT
          Chunk,      \* chunk coordinates
          ChunkOf,    \* [Block -> Chunk], world_to_chunk
          State,      \* block state ids
          Generated,  \* [Block -> State], what the generator puts there
          Format,     \* config.world.format
          Saver,      \* the tasks that save: "loop" is save_loop's, "final"
                      \* the main task after Ctrl-C
          None        \* no edit recorded, no chunk loaded, no file written

ASSUME WorldAssumption ==
         /\ InRange \subseteq Block
         /\ ChunkOf \in [Block -> Chunk]
         /\ Generated \in [Block -> State]
         /\ Format \in {"delta", "region"}
         /\ Saver \subseteq {"loop", "final"}
         /\ None \notin State

VARIABLES
  edits,      \* World.edits: the state recorded at a position, or None
  loaded,     \* the keys of World.chunks
  grid,       \* the blocks of the loaded chunks, None elsewhere
  dirty,      \* World.dirty
  blocksBin,  \* the edits in blocks.bin (delta)
  blocksTmp,  \* those in blocks.tmp: a set, empty when there is no such file
  region,     \* the contents of the files region/c.<cx>.<cz>.bin
  phase,      \* the process: running, stopping (Ctrl-C), stopped
  pc,         \* where each saver is
  file,       \* delta: the name that the file a saver has open goes by now
  snap,       \* delta: the copy of edits each saver is writing
  todo,       \* region: the chunks each saver still has to write
  orphaned    \* history: chunks with a block neither dirty nor on disk

memory == <<edits, loaded, grid, dirty>>
disk   == <<blocksBin, blocksTmp, region>>
saving == <<pc, file, snap, todo>>
vars   == <<memory, disk, phase, saving, orphaned>>

NoEdits == [b \in Block |-> None]
NoFiles == [b \in InRange |-> None]

TypeOK ==
  /\ edits \in [Block -> State \cup {None}]
  /\ loaded \subseteq Chunk
  /\ grid \in [InRange -> State \cup {None}]
  /\ \A b \in InRange : grid[b] # None <=> ChunkOf[b] \in loaded
  /\ dirty \subseteq Chunk
  /\ blocksBin \in [Block -> State \cup {None}]
  /\ blocksTmp \subseteq [Block -> State \cup {None}]
  /\ region \in [InRange -> State \cup {None}]
  /\ phase \in {"running", "stopping", "stopped"}
  /\ pc \in [Saver -> {"idle", "writing", "open", "written", "saved", "failed"}]
  /\ file \in [Saver -> {"none", "tmp", "bin"}]
  /\ snap \in [Saver -> [Block -> State \cup {None}]]
  /\ todo \in [Saver -> SUBSET Chunk]
  /\ orphaned \subseteq Chunk

(***************************************************************************)
(* Chunks.                                                                 *)
(***************************************************************************)

\* The mutex is free: no save holds it, and the process is there.
Free == /\ phase # "stopped"
        /\ ~(Format = "region" /\ \E s \in Saver : pc[s] = "writing")

\* Mutant: a position without an edit is not looked up in the generator.
OverlayWithoutGenerator(e, b) == e[b]

\* What generate_chunk puts at b when the recorded edits are e.
Overlay(e, b) == IF e[b] # None THEN e[b] ELSE Generated[b]

\* What build_chunk puts at b: the chunk's file if there is one, with no edit
\* laid over it, else generator and edits.
Built(b) == IF region[b] # None THEN region[b] ELSE Overlay(edits, b)

\* grid once the chunks cs are in memory, those that were not being built.
WithLoaded(cs) ==
  [b \in InRange |-> IF ChunkOf[b] \in cs \ loaded THEN Built(b) ELSE grid[b]]

\* World::chunk and get_block: a reader brings the chunk into memory.
Load(c) ==
  /\ Free
  /\ c \notin loaded
  /\ grid' = WithLoaded({c})
  /\ loaded' = loaded \cup {c}
  /\ UNCHANGED <<edits, dirty, disk, phase, saving, orphaned>>

\* Mutant: the chunk is changed and the edit is not recorded.
SetBlockUnrecorded(b, s) ==
  /\ Free
  /\ loaded' = loaded \cup {ChunkOf[b]}
  /\ grid' = [x \in InRange |-> IF x = b THEN s ELSE WithLoaded({ChunkOf[b]})[x]]
  /\ dirty' = dirty \cup {ChunkOf[b]}
  /\ UNCHANGED <<edits, disk, phase, saving, orphaned>>

\* Mutant: a chunk that is in memory is changed and not marked dirty.
SetBlockMarkOnLoad(b, s) ==
  /\ Free
  /\ loaded' = loaded \cup {ChunkOf[b]}
  /\ grid' = [x \in InRange |-> IF x = b THEN s ELSE WithLoaded({ChunkOf[b]})[x]]
  /\ edits' = [edits EXCEPT ![b] = s]
  /\ dirty' = dirty \cup ({ChunkOf[b]} \ loaded)
  /\ UNCHANGED <<disk, phase, saving, orphaned>>

\* World::set_block.  A position out of range changes no chunk, and is still
\* recorded as an edit and still marks the chunk.
SetBlock(b, s) ==
  /\ Free
  /\ loaded' = loaded \cup {ChunkOf[b]}
  /\ grid' = [x \in InRange |-> IF x = b THEN s ELSE WithLoaded({ChunkOf[b]})[x]]
  /\ edits' = [edits EXCEPT ![b] = s]
  /\ dirty' = dirty \cup {ChunkOf[b]}
  /\ UNCHANGED <<disk, phase, saving, orphaned>>

\* evict_chunks: retain_chunks with the chunks near some player.
RetainChunks(keep) ==
  /\ Free
  /\ ~(loaded \subseteq keep)
  /\ loaded' = loaded \cap keep
  /\ grid' = [b \in InRange |-> IF ChunkOf[b] \in keep THEN grid[b] ELSE None]
  /\ orphaned' = IF Format = "region"
                   THEN orphaned \cup ((loaded \ keep) \cap dirty) ELSE orphaned
  /\ UNCHANGED <<edits, dirty, disk, phase, saving>>

(***************************************************************************)
(* Saving.  save_loop saves for as long as the process lives; the main     *)
(* task saves once, after Ctrl-C.                                          *)
(***************************************************************************)

MayBegin(s) == /\ pc[s] = "idle"
               /\ s = "loop" => phase # "stopped"
               /\ s = "final" => phase = "stopping"

\* Where a saver goes when its save has worked out, or not.
After(s, outcome) == IF s = "loop" THEN "idle" ELSE outcome

\* Mutant: only the edits of chunks in memory are copied.
DeltaBeginLoadedOnly(s) ==
  /\ Format = "delta"
  /\ MayBegin(s)
  /\ snap' = [snap EXCEPT ![s] = [b \in Block |-> IF ChunkOf[b] \in loaded
                                               THEN edits[b] ELSE None]]
  /\ pc' = [pc EXCEPT ![s] = "writing"]
  /\ UNCHANGED <<memory, disk, phase, file, todo, orphaned>>

\* save_all copies the edits.
DeltaBegin(s) ==
  /\ Format = "delta"
  /\ MayBegin(s)
  /\ snap' = [snap EXCEPT ![s] = edits]
  /\ pc' = [pc EXCEPT ![s] = "writing"]
  /\ UNCHANGED <<memory, disk, phase, file, todo, orphaned>>

\* File::create makes blocks.tmp, or truncates the one that is there.
DeltaCreate(s) ==
  /\ pc[s] = "writing"
  /\ Format = "delta"
  /\ blocksTmp' = {NoEdits}
  /\ file' = [file EXCEPT ![s] = "tmp"]
  /\ pc' = [pc EXCEPT ![s] = "open"]
  /\ UNCHANGED <<memory, blocksBin, region, phase, snap, todo, orphaned>>

\* Mutant: the edits are looked up once more when they are written.
DeltaWriteLate(s) ==
  /\ Format = "delta"
  /\ pc[s] = "open"
  /\ blocksTmp' = IF file[s] = "tmp" THEN {edits} ELSE blocksTmp
  /\ blocksBin' = IF file[s] = "bin" THEN edits ELSE blocksBin
  /\ file' = [file EXCEPT ![s] = "none"]
  /\ pc' = [pc EXCEPT ![s] = "written"]
  /\ UNCHANGED <<memory, region, phase, snap, todo, orphaned>>

\* write_all, into the file that was opened, whatever it is called by now.
DeltaWrite(s) ==
  /\ Format = "delta"
  /\ pc[s] = "open"
  /\ blocksTmp' = IF file[s] = "tmp" THEN {snap[s]} ELSE blocksTmp
  /\ blocksBin' = IF file[s] = "bin" THEN snap[s] ELSE blocksBin
  /\ file' = [file EXCEPT ![s] = "none"]
  /\ pc' = [pc EXCEPT ![s] = "written"]
  /\ UNCHANGED <<memory, region, phase, snap, todo, orphaned>>

\* What renaming blocks.tmp to blocks.bin does to the name of an open file.
Renamed(f) == CASE f = "tmp" -> "bin" [] f = "bin" -> "none" [] OTHER -> f

\* save_blocks renames blocks.tmp over blocks.bin.
DeltaPublish(s) ==
  /\ Format = "delta"
  /\ pc[s] = "written"
  /\ blocksBin' \in blocksTmp
  /\ blocksTmp' = {}
  /\ file' = [t \in Saver |-> Renamed(file[t])]
  /\ snap' = [snap EXCEPT ![s] = NoEdits]
  /\ pc' = [pc EXCEPT ![s] = After(s, "saved")]
  /\ UNCHANGED <<memory, region, phase, todo, orphaned>>

\* One of the three calls returns an error, as the rename does when another
\* saver has renamed the file; save_all drops it.
DeltaFail(s) ==
  /\ Format = "delta"
  /\ pc[s] \in {"writing", "open", "written"}
  /\ file' = [file EXCEPT ![s] = "none"]
  /\ snap' = [snap EXCEPT ![s] = NoEdits]
  /\ pc' = [pc EXCEPT ![s] = After(s, "failed")]
  /\ UNCHANGED <<memory, disk, phase, todo, orphaned>>

\* take_dirty_grids: every mark is taken, and only a chunk still in memory is
\* written.
RegionBegin(s) ==
  /\ Format = "region"
  /\ Free
  /\ MayBegin(s)
  /\ todo' = [todo EXCEPT ![s] = dirty \cap loaded]
  /\ dirty' = {}
  /\ pc' = [pc EXCEPT ![s] = "writing"]
  /\ UNCHANGED <<edits, loaded, grid, disk, phase, file, snap, orphaned>>

\* save_chunk for one chunk of the list.
RegionWrite(s, c) ==
  /\ Format = "region"
  /\ c \in todo[s]
  /\ region' = [b \in InRange |-> IF ChunkOf[b] = c THEN grid[b] ELSE region[b]]
  /\ todo' = [todo EXCEPT ![s] = @ \ {c}]
  /\ orphaned' = orphaned \ {c}
  /\ UNCHANGED <<memory, blocksBin, blocksTmp, phase, pc, file, snap>>

\* Mutant: the first error ends the loop over the drained chunks.
RegionFailAborts(s, c) ==
  /\ Format = "region"
  /\ c \in todo[s]
  /\ todo' = [todo EXCEPT ![s] = {}]
  /\ orphaned' = orphaned \cup {c}
  /\ UNCHANGED <<memory, disk, phase, pc, file, snap>>

\* save_chunk returns an error, which save_all drops: the mark is gone.
RegionFail(s, c) ==
  /\ Format = "region"
  /\ c \in todo[s]
  /\ todo' = [todo EXCEPT ![s] = @ \ {c}]
  /\ orphaned' = orphaned \cup {c}
  /\ UNCHANGED <<memory, disk, phase, pc, file, snap>>

RegionEnd(s) ==
  /\ Format = "region"
  /\ pc[s] = "writing"
  /\ todo[s] = {}
  /\ pc' = [pc EXCEPT ![s] = After(s, "saved")]
  /\ UNCHANGED <<memory, disk, phase, file, snap, todo, orphaned>>

(***************************************************************************)
(* The process.                                                            *)
(***************************************************************************)

\* Memory is lost; what it holds from now on is what run() loads at boot:
\* the recorded edits in the delta format, nothing in the region format.
Forget ==
  /\ edits' = IF Format = "delta" THEN blocksBin ELSE NoEdits
  /\ loaded' = {}
  /\ grid' = NoFiles
  /\ dirty' = {}
  /\ pc' = [s \in Saver |-> "idle"]
  /\ file' = [s \in Saver |-> "none"]
  /\ snap' = [s \in Saver |-> NoEdits]
  /\ todo' = [s \in Saver |-> {}]
  /\ orphaned' = {}
  /\ UNCHANGED disk

CtrlC == /\ "final" \in Saver
         /\ phase = "running"
         /\ phase' = "stopping"
         /\ UNCHANGED <<memory, disk, saving, orphaned>>

\* The process ends when the main task has saved; the runtime waits for the
\* save_loop task, which has no await inside a save.
Stop == /\ phase = "stopping"
        /\ \A s \in Saver : pc[s] \in {After(s, "saved"), After(s, "failed")}
        /\ phase' = "stopped"
        /\ Forget

Boot == /\ phase = "stopped"
        /\ phase' = "running"
        /\ UNCHANGED <<memory, disk, saving, orphaned>>

\* The process is killed, at any point, and started again.
Crash == /\ phase # "stopped"
         /\ phase' = "running"
         /\ Forget

Init ==
  /\ edits = NoEdits
  /\ loaded = {}
  /\ grid = NoFiles
  /\ dirty = {}
  /\ blocksBin = NoEdits
  /\ blocksTmp = {}
  /\ region = NoFiles
  /\ phase = "running"
  /\ pc = [s \in Saver |-> "idle"]
  /\ file = [s \in Saver |-> "none"]
  /\ snap = [s \in Saver |-> NoEdits]
  /\ todo = [s \in Saver |-> {}]
  /\ orphaned = {}

Next ==
  \/ \E c \in Chunk : Load(c)
  \/ \E b \in Block, s \in State : SetBlock(b, s)
  \/ \E keep \in SUBSET Chunk : RetainChunks(keep)
  \/ \E s \in Saver : \/ DeltaBegin(s)
                      \/ DeltaCreate(s)
                      \/ DeltaWrite(s)
                      \/ DeltaPublish(s)
                      \/ DeltaFail(s)
                      \/ RegionBegin(s)
                      \/ RegionEnd(s)
                      \/ \E c \in Chunk : RegionWrite(s, c) \/ RegionFail(s, c)
  \/ CtrlC
  \/ Stop
  \/ Boot
  \/ Crash

Spec == Init /\ [][Next]_vars

\* save_loop's interval fires for ever and a save has no await in it, so the
\* task goes on saving; no call of a save fails every time from some point on.
FairSpec == /\ Spec
            /\ WF_vars(DeltaBegin("loop"))
            /\ SF_vars(DeltaCreate("loop"))
            /\ SF_vars(DeltaWrite("loop"))
            /\ SF_vars(DeltaPublish("loop"))

-----------------------------------------------------------------------------

\* What get_block answers: a chunk in memory, or the one it would build.
View == [b \in InRange |-> IF ChunkOf[b] \in loaded THEN grid[b] ELSE Built(b)]

\* What a reader would find after a restart.
Durable == [b \in InRange |-> IF Format = "delta" THEN Overlay(blocksBin, b)
                             ELSE IF region[b] # None THEN region[b]
                             ELSE Generated[b]]

\* Each chunk in memory is the generator's, with every recorded edit over it:
\* what makes eviction invisible in the delta format.
ChunkIsOverlay ==
  Format = "delta" =>
    \A b \in InRange : ChunkOf[b] \in loaded => grid[b] = Overlay(edits, b)

\* In the region format a block reads differently from what a restart brings
\* back only where a save is still owed, its chunk being dirty or about to be
\* written, or where the debt was forgotten: the chunk is orphaned, evicted
\* while dirty or refused by the disk.
NoForgottenDebt ==
  Format = "region" =>
    \A b \in InRange : \/ View[b] = Durable[b]
                       \/ ChunkOf[b] \in dirty \cup orphaned
                       \/ \E s \in Saver : ChunkOf[b] \in todo[s]

\* In the region format, too, dropping a chunk that is neither dirty nor
\* orphaned does not change what a reader finds there.
CleanEvictionIsInvisible ==
  [][(\E keep \in SUBSET Chunk : RetainChunks(keep)) =>
       \A b \in InRange :
         ChunkOf[b] \notin dirty \cup orphaned => View'[b] = View[b]]_vars

\* "unloaded chunks regenerate identically on demand" (world/src/lib.rs:146):
\* dropping a chunk from memory does not change what a reader finds there.
ReloadsIdentically ==
  [][(\E keep \in SUBSET Chunk : RetainChunks(keep)) => View' = View]_vars

\* "written atomically via a temp file + rename" (persistence.rs:73): the file
\* blocks.bin is only ever replaced by the whole picture that a save took.
SavesAreAtomic ==
  [][blocksBin' # blocksBin => \E s \in Saver : blocksBin' = snap[s]]_vars

\* An edit is overwritten, or lost with the process, or reaches blocks.bin.
EditReachesDisk ==
  \A b \in Block, s \in State :
    (Format = "delta" /\ edits[b] = s) ~> (edits[b] # s \/ blocksBin[b] = s)

\* The pictures of the world that savers are writing.
Pictures == [s \in Saver |-> IF pc[s] \in {"writing", "open", "written"}
                            THEN {[b \in InRange |-> Overlay(snap[s], b)]}
                            ELSE {}]

\* The delta format with one saver keeps the promise of BlockMap: readers see
\* the last write, and a restart brings back one complete picture that some
\* save took.
Store == INSTANCE BlockMap WITH
           Cell <- InRange, Value <- State, Writer <- Saver,
           mem <- View, dur <- Durable, pend <- Pictures

ImplementsBlockMap == Store!Spec
=============================================================================
