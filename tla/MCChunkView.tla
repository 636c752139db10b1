---------------------------- MODULE MCChunkView -----------------------------
(***************************************************************************)
(* Two chunks, of which a player near the first sees both and one near the *)
(* second sees only that; one player and the game loop, which are two      *)
(* tasks that set blocks.  Only in the overworld are blocks set.           *)
(***************************************************************************)
EXTENDS ChunkView

CONSTANTS ann, loop, overworld, nether, near, far, stone, air

OnePlayer   == {ann}
OneEngine   == {loop}
TwoDims     == {overworld, nether}
TwoChunks   == {near, far}
TwoContents == {stone, air}
MCGenerated == [d \in Dim |-> [c \in Chunk |-> IF d = overworld THEN air ELSE stone]]
MCView      == [c \in Chunk |-> IF c = near THEN Chunk ELSE {far}]
=============================================================================
