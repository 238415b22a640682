---------------------------- MODULE MCPlacement ----------------------------
(* A memory layer that one segment nearly fills, a file layer, the files.   *)
EXTENDS Placement

MCCapacity == <<4, 3>>
MCCounted == {-3, 0, 1}
=============================================================================
