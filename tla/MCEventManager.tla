--------------------------- MODULE MCEventManager ---------------------------
(* EventManager for TLC: two servers, up to three files. *)
EXTENDS EventManager, TLC

CONSTANTS s1, s2, f1, f2, f3

(* One application per node, each with files of its own. *)
OwnFiles == {<<s1, f1>>, <<s1, f2>>, <<s2, f3>>}

(* The files of s1 differ in their names only. *)
FileSymmetry == Permutations({f1, f2})

(* The ranks of one application on two nodes read the same file. *)
SharedFile == {<<s1, f1>>, <<s2, f1>>}

(* One server, one file. *)
OneFile == {<<s1, f1>>}
=============================================================================
