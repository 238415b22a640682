------------------------ MODULE MCDistributedStore ------------------------
(***************************************************************************)
(* Two servers with a worker each and a client of the first; two keys, one *)
(* on each server.  Every process may write a file through the handler of  *)
(* either server, which then puts a key of the same or the other server.   *)
(***************************************************************************)
EXTENDS DistributedStore, TLC

CONSTANTS w0, w1, c0, k0, k1, v1, v2

MCHome == [p \in Procs |-> IF p = w1 THEN 1 ELSE 0]
MCHash == k0 :> 2 @@ k1 :> 1

MCRequests ==
    [op : {"Put"}, key : {k0}, val : {v1}, via : {Own, 1}]
      \cup [op : {"Put"}, key : {k1}, val : {v2}, via : {0}]
      \cup [op : {"Get", "Erase"}, key : {k0}, val : {v1}, via : {Own}]
      \cup {[op |-> "GetAllData", key |-> k0, val |-> v1, via |-> Own]}
=============================================================================
