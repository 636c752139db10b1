------------------------------ MODULE MCWorld -------------------------------
(***************************************************************************)
(* Small worlds of two chunks: one block in each, the second of which the  *)
(* generator fills, and, in the larger world, a position above the build   *)
(* limit.                                                                  *)
(***************************************************************************)
EXTENDS World

CONSTANTS low, far, high, near, away, air, stone

TwoBlocks   == {low, far}
ThreeBlocks == {low, far, high}
BuildLimit  == {low, far}
TwoChunks   == {near, away}
TwoStates   == {air, stone}
MCChunkOf   == [b \in Block |-> IF b = far THEN away ELSE near]
MCGenerated == [b \in Block |-> IF b = far THEN stone ELSE air]
=============================================================================
