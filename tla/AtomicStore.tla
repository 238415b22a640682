---------------------------- MODULE AtomicStore ----------------------------
(***************************************************************************)
(* What the distributed hash map and map promise their callers: one table, *)
(* in which every Put, Get and Erase takes effect at one moment between    *)
(* its call and its return.  GetAllData promises less: every key is read   *)
(* at one moment of the call, but not all keys at the same one.            *)
(***************************************************************************)
CONSTANTS Procs, Keys, Values, Requests, None

VARIABLES
    store,      \* key -> value, or None
    phase,      \* process -> "idle", "pending" or "done"
    req,        \* process -> the request it is making
    reply,      \* process -> what the call will return
    seen,       \* process -> the keys its GetAllData has read
    got         \* process -> the pairs its GetAllData has collected

vars == <<store, phase, req, reply, seen, got>>

Init ==
    /\ store = [k \in Keys |-> None]
    /\ phase = [p \in Procs |-> "idle"]
    /\ req \in [Procs -> Requests]
    /\ reply = [p \in Procs |-> None]
    /\ seen = [p \in Procs |-> {}]
    /\ got = [p \in Procs |-> {}]

Invoke(p, r) ==
    /\ phase[p] = "idle"
    /\ phase' = [phase EXCEPT ![p] = "pending"]
    /\ req' = [req EXCEPT ![p] = r]
    /\ UNCHANGED <<store, reply, seen, got>>

(* What a request on one key returns, and what it leaves under the key. *)
Answer(r, v) ==
    CASE r.op = "Put" -> TRUE [] r.op = "Get" -> v [] OTHER -> v # None

Result(r, v) ==
    CASE r.op = "Put" -> r.val [] r.op = "Get" -> v [] OTHER -> None

TakeEffect(p) ==
    LET k == req[p].key
    IN  /\ phase[p] = "pending" /\ req[p].op # "GetAllData"
        /\ phase' = [phase EXCEPT ![p] = "done"]
        /\ reply' = [reply EXCEPT ![p] = Answer(req[p], store[k])]
        /\ store' = [store EXCEPT ![k] = Result(req[p], store[k])]
        /\ UNCHANGED <<req, seen, got>>

(* GetAllData reads some keys it has not read yet; it is over when it has  *)
(* read them all.                                                          *)
ReadSome(p, K) ==
    /\ phase[p] = "pending" /\ req[p].op = "GetAllData"
    /\ K \cap seen[p] = {}
    /\ seen' = [seen EXCEPT ![p] = @ \cup K]
    /\ got' = [got EXCEPT ![p] = @ \cup {<<k, store[k]>> : k \in {j \in K : store[j] # None}}]
    /\ \/ UNCHANGED phase
       \/ seen'[p] = Keys /\ phase' = [phase EXCEPT ![p] = "done"]
    /\ UNCHANGED <<store, req, reply>>

Return(p) ==
    /\ phase[p] = "done"
    /\ phase' = [phase EXCEPT ![p] = "idle"]
    /\ reply' = [reply EXCEPT ![p] = None]
    /\ seen' = [seen EXCEPT ![p] = {}]
    /\ got' = [got EXCEPT ![p] = {}]
    /\ UNCHANGED <<store, req>>

Next ==
    \E p \in Procs :
        \/ \E r \in Requests : Invoke(p, r)
        \/ TakeEffect(p)
        \/ \E K \in SUBSET Keys : ReadSome(p, K)
        \/ Return(p)

Spec == Init /\ [][Next]_vars
=============================================================================
