-------------------------- MODULE DistributedStore --------------------------
(***************************************************************************)
(* The distributed hash map (DistributedHashMap.h; DistributedMap.h has    *)
(* the same scheme) over several servers.  A key lives on the server its   *)
(* hash names.  A process works in the shared memory of its own server,    *)
(* under the mutex that is in that memory too, and calls the same method   *)
(* on any other server by RPC (rpc_lib.h): the call waits for one of the   *)
(* CommThreads handler threads of that server, which it keeps until the    *)
(* method returns.  LocalFileClient::Write may itself be such a handler    *)
(* and then calls hasChanged.Put, perhaps on a third server, while it      *)
(* keeps its thread.                                                       *)
(*                                                                         *)
(* Put is two steps under the mutex: erase the key, insert the pair.       *)
(***************************************************************************)
EXTENDS Integers, FiniteSets

CONSTANTS
    Procs,          \* threads that call the store: workers and clients
    Keys, Values, None,
    NumServers,
    Home,           \* process -> my_server
    Hash,           \* key -> keyHash(key)
    Requests,       \* [op, key, val, via]: via is the server of the file handler
                    \* that calls the store, Own if there is none
    CommThreads,    \* comm_threads_per_server
    MaxCalls        \* bound: calls of each process

Servers == 0 .. (NumServers - 1)
Own == -1

ASSUME NumServersAssumption == NumServers \in Nat \ {0}
ASSUME HomeAssumption == Home \in [Procs -> Servers]
ASSUME HashAssumption == Hash \in [Keys -> Nat]
ASSUME NoneAssumption == None \notin Values \cup Procs
ASSUME RequestsAssumption ==
    /\ Requests # {}
    /\ Requests \subseteq [op : {"Put", "Get", "Erase", "GetAllData"}, key : Keys,
                           val : Values, via : Servers \cup {Own}]
    /\ \A r \in Requests : r.op = "GetAllData" => r.via = Own

VARIABLES
    shard,      \* server -> key -> value in its shared memory, or None
    mutex,      \* server -> the process in the middle of a Put, or None
    pc, req,    \* process -> its step and its request
    at,         \* process -> the server whose memory its current frame has
    to,         \* process -> the server it is calling
    held,       \* process -> the servers where it keeps a handler thread
    reply,      \* process -> what the method returns
    left,       \* process -> the servers its GetAllData has not read
    got,        \* process -> final_values of its GetAllData
    calls       \* process -> how many calls it has made

vars == <<shard, mutex, pc, req, at, to, held, reply, left, got, calls>>

ServerOf(k) == Hash[k] % NumServers

TypeOK ==
    /\ shard \in [Servers -> [Keys -> Values \cup {None}]]
    /\ mutex \in [Servers -> Procs \cup {None}]
    /\ pc \in [Procs -> {"idle", "queued", "exec", "locked", "erased", "return"}]
    /\ req \in [Procs -> Requests]
    /\ at \in [Procs -> Servers] /\ to \in [Procs -> Servers]
    /\ held \in [Procs -> SUBSET Servers]
    /\ reply \in [Procs -> Values \cup BOOLEAN \cup {None}]
    /\ left \in [Procs -> SUBSET Servers]
    /\ got \in [Procs -> SUBSET (Keys \X Values)]
    /\ calls \in [Procs -> Nat]

Init ==
    /\ shard = [s \in Servers |-> [k \in Keys |-> None]]
    /\ mutex = [s \in Servers |-> None]
    /\ pc = [p \in Procs |-> "idle"]
    /\ req \in [Procs -> {CHOOSE r \in Requests : TRUE}]
    /\ at = Home /\ to = Home
    /\ held = [p \in Procs |-> {}]
    /\ reply = [p \in Procs |-> None]
    /\ left = [p \in Procs |-> {}]
    /\ got = [p \in Procs |-> {}]
    /\ calls = [p \in Procs |-> 0]

----------------------------------------------------------------------------
(* Where the first frame of a request runs: LocalFileClient routes by the  *)
(* hash of the file, the other callers use the store directly.             *)
Via(p, r) == IF r.via = Own THEN Home[p] ELSE r.via

(* A process calls the store, or a file client that does.  The frame runs  *)
(* in the process itself or has to be called.                              *)
Invoke(p, r) ==
    /\ pc[p] = "idle" /\ calls[p] < MaxCalls
    /\ calls' = [calls EXCEPT ![p] = @ + 1]
    /\ req' = [req EXCEPT ![p] = r]
    /\ to' = [to EXCEPT ![p] = Via(p, r)]
    /\ pc' = [pc EXCEPT ![p] = IF Via(p, r) = Home[p] THEN "exec" ELSE "queued"]
    /\ left' = [left EXCEPT ![p] = IF r.op = "GetAllData" THEN Servers ELSE {}]
    /\ UNCHANGED <<shard, mutex, at, held, reply, got>>

(* async_run(workers): a handler thread of server s is waiting for work. *)
HandlerFree(s) == Cardinality({p \in Procs : s \in held[p]}) < CommThreads

(* The server takes a call from its socket: client.call, dispatch. *)
Dispatch(p) ==
    /\ pc[p] = "queued" /\ HandlerFree(to[p])
    /\ held' = [held EXCEPT ![p] = @ \cup {to[p]}]
    /\ at' = [at EXCEPT ![p] = to[p]]
    /\ pc' = [pc EXCEPT ![p] = "exec"]
    /\ UNCHANGED <<shard, mutex, req, to, reply, left, got, calls>>

(* key_int == my_server, or the call of that server; GetAllDataInServer    *)
(* does not look at the key.                                               *)
Route(p) ==
    LET owner == IF req[p].op = "GetAllData" THEN at[p] ELSE ServerOf(req[p].key)
    IN  /\ pc[p] = "exec"
        /\ to' = [to EXCEPT ![p] = owner]
        /\ pc' = [pc EXCEPT ![p] = IF owner = at[p] THEN "locked" ELSE "queued"]
        /\ UNCHANGED <<shard, mutex, req, at, held, reply, left, got, calls>>

----------------------------------------------------------------------------
(* The methods, in the memory of server at[p] and under its mutex.         *)

\* Mutant of LockFree: the scoped_lock is missing.
NoLock(s) == TRUE

LockFree(s) == mutex[s] = None

Methods(p, op) == pc[p] = "locked" /\ req[p].op = op /\ LockFree(at[p])

PutErase(p) ==
    /\ Methods(p, "Put")
    /\ mutex' = [mutex EXCEPT ![at[p]] = p]
    /\ shard' = [shard EXCEPT ![at[p]][req[p].key] = None]
    /\ pc' = [pc EXCEPT ![p] = "erased"]
    /\ UNCHANGED <<req, at, to, held, reply, left, got, calls>>

\* Mutant of PutInsert: the mutex is not released.
PutInsertKeepsLock(p) ==
    /\ pc[p] = "erased"
    /\ shard' = [shard EXCEPT ![at[p]][req[p].key] = req[p].val]
    /\ reply' = [reply EXCEPT ![p] = TRUE]
    /\ pc' = [pc EXCEPT ![p] = "return"]
    /\ UNCHANGED <<mutex, req, at, to, held, left, got, calls>>

PutInsert(p) ==
    /\ pc[p] = "erased"
    /\ shard' = [shard EXCEPT ![at[p]][req[p].key] = req[p].val]
    /\ mutex' = [mutex EXCEPT ![at[p]] = None]
    /\ reply' = [reply EXCEPT ![p] = TRUE]
    /\ pc' = [pc EXCEPT ![p] = "return"]
    /\ UNCHANGED <<req, at, to, held, left, got, calls>>

Get(p) ==
    /\ Methods(p, "Get")
    /\ reply' = [reply EXCEPT ![p] = shard[at[p]][req[p].key]]
    /\ pc' = [pc EXCEPT ![p] = "return"]
    /\ UNCHANGED <<shard, mutex, req, at, to, held, left, got, calls>>

Erase(p) ==
    /\ Methods(p, "Erase")
    /\ reply' = [reply EXCEPT ![p] = shard[at[p]][req[p].key] # None]
    /\ shard' = [shard EXCEPT ![at[p]][req[p].key] = None]
    /\ pc' = [pc EXCEPT ![p] = "return"]
    /\ UNCHANGED <<mutex, req, at, to, held, left, got, calls>>

\* Mutant of Entries: every bucket of the table, the empty ones too.
Buckets(s) == {<<k, shard[s][k]>> : k \in Keys}

Entries(s) == {<<k, shard[s][k]>> : k \in {j \in Keys : shard[s][j] # None}}

GetAllDataInServer(p) ==
    /\ Methods(p, "GetAllData")
    /\ got' = [got EXCEPT ![p] = @ \cup Entries(at[p])]
    /\ left' = [left EXCEPT ![p] = @ \ {at[p]}]
    /\ pc' = [pc EXCEPT ![p] = "return"]
    /\ UNCHANGED <<shard, mutex, req, at, to, held, reply, calls>>

----------------------------------------------------------------------------
(* The method returns: its handler thread is free again and the caller, a  *)
(* handler of the server via or the process itself, goes on.               *)
Unwind(p) ==
    LET rest == held[p] \ {at[p]}
    IN  /\ pc[p] = "return" /\ held[p] # {}
        /\ held' = [held EXCEPT ![p] = rest]
        /\ at' = [at EXCEPT ![p] = IF Via(p, req[p]) \in rest THEN Via(p, req[p])
                                   ELSE Home[p]]
        /\ UNCHANGED <<shard, mutex, pc, req, to, reply, left, got, calls>>

(* GetAllData: for(i = 0; i < num_servers; ++i) if(i != my_server) call(i) *)
CallNextServer(p) ==
    /\ pc[p] = "return" /\ held[p] = {} /\ left[p] # {}
    /\ \E s \in left[p] : /\ \A t \in left[p] : s <= t
                         /\ to' = [to EXCEPT ![p] = s]
    /\ pc' = [pc EXCEPT ![p] = "queued"]
    /\ UNCHANGED <<shard, mutex, req, at, held, reply, left, got, calls>>

Return(p) ==
    /\ pc[p] = "return" /\ held[p] = {} /\ left[p] = {}
    /\ pc' = [pc EXCEPT ![p] = "idle"]
    /\ reply' = [reply EXCEPT ![p] = None]
    /\ got' = [got EXCEPT ![p] = {}]
    /\ UNCHANGED <<shard, mutex, req, at, to, held, left, calls>>

(* What a process does once it has called. *)
Step(p) ==
    \/ Dispatch(p) \/ Route(p)
    \/ PutErase(p) \/ PutInsert(p) \/ Get(p) \/ Erase(p) \/ GetAllDataInServer(p)
    \/ Unwind(p) \/ CallNextServer(p) \/ Return(p)

Next == \E p \in Procs : (\E r \in Requests : Invoke(p, r)) \/ Step(p)

Spec == Init /\ [][Next]_vars

(* Threads are scheduled: a step that stays possible is taken. *)
FairSpec == Spec /\ \A p \in Procs : WF_vars(Step(p))

----------------------------------------------------------------------------
(* The abstract table: a Put has taken effect once it has erased the old   *)
(* pair, which nobody sees because of the mutex.                           *)
Table ==
    [k \in Keys |->
        IF \E p \in Procs : pc[p] = "erased" /\ req[p].key = k
        THEN req[CHOOSE p \in Procs : pc[p] = "erased" /\ req[p].key = k].val
        ELSE shard[ServerOf(k)][k]]

Phase ==
    [p \in Procs |->
        CASE pc[p] = "idle" -> "idle"
          [] pc[p] = "erased" \/ (pc[p] = "return" /\ left[p] = {}) -> "done"
          [] OTHER -> "pending"]

Reply == [p \in Procs |-> IF pc[p] = "erased" THEN TRUE ELSE reply[p]]

Seen ==
    [p \in Procs |->
        IF pc[p] # "idle" /\ req[p].op = "GetAllData"
        THEN {k \in Keys : ServerOf(k) \notin left[p]} ELSE {}]

Abstract == INSTANCE AtomicStore WITH
    store <- Table, phase <- Phase, reply <- Reply, seen <- Seen

(***************************************************************************)
(* The sharded store behaves as the atomic one: an operation is never seen *)
(* half done, by whichever way it was called (Put, Get, Erase under the    *)
(* scoped_lock), and GetAllData misses no key and reads each at a moment   *)
(* of the call (DistributedHashMap.h:205).                                 *)
(***************************************************************************)
ImplementsAtomicStore == Abstract!Spec

(* Every handler thread of the servers in S is kept by a process that waits *)
(* for a handler thread of a server in S: none of them will ever be free.   *)
Jammed(S) ==
    \A s \in S :
        /\ ~HandlerFree(s)
        /\ \A p \in Procs : s \in held[p] => pc[p] = "queued" /\ to[p] \in S

(***************************************************************************)
(* Every call returns, unless it waits for a server whose handlers all     *)
(* wait for each other in a circle (local_file_client.h:67: a handler      *)
(* calls another server and keeps its thread).  Nothing else blocks a      *)
(* call: no lock is kept, no thread is lost.                               *)
(***************************************************************************)
ReturnsUnlessCircular ==
    \A p \in Procs :
        (pc[p] # "idle") ~>
            \/ pc[p] = "idle"
            \/ pc[p] = "queued" /\ \E S \in SUBSET Servers : to[p] \in S /\ Jammed(S)
=============================================================================
