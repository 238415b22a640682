---------------------------- MODULE MCEventLoop ----------------------------
(* EventLoop for TLC. *)
EXTENDS EventLoop, TLC

CONSTANTS c1, c2

ClientSymmetry == Permutations({c1, c2})
=============================================================================
