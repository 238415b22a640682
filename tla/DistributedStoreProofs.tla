----------------------- MODULE DistributedStoreProofs -----------------------
(***************************************************************************)
(* Theorems about DistributedStore, for any number of servers, processes,  *)
(* keys, handler threads and requests: the sharded store implements the    *)
(* atomic one.                                                             *)
(***************************************************************************)
EXTENDS DistributedStore, TLAPS

(* A process in a Put has the mutex of the key's server. *)
PutInv ==
    \A p \in Procs :
        pc[p] = "erased" => /\ req[p].op = "Put"
                            /\ at[p] = ServerOf(req[p].key)
                            /\ mutex[at[p]] = p

(* A method on one key runs on the key's server. *)
OwnerInv ==
    \A p \in Procs :
        pc[p] = "locked" /\ req[p].op # "GetAllData" => at[p] = ServerOf(req[p].key)

(* A server holds no key of another. *)
ShardInv ==
    \A s \in Servers, k \in Keys : shard[s][k] # None => ServerOf(k) = s

(* GetAllData visits no server twice, and only GetAllData visits servers. *)
LeftInv ==
    \A p \in Procs :
        /\ pc[p] = "idle" \/ req[p].op # "GetAllData" => left[p] = {}
        /\ req[p].op = "GetAllData" =>
              /\ pc[p] = "queued" => to[p] \in left[p]
              /\ pc[p] \in {"exec", "locked"} => at[p] \in left[p]

(* A process that is not in a handler is at home. *)
HomeInv == \A p \in Procs : pc[p] = "idle" => at[p] = Home[p]

UnwoundInv == \A p \in Procs : held[p] = {} => at[p] = Home[p]

StoreInv ==
    TypeOK /\ PutInv /\ OwnerInv /\ ShardInv /\ LeftInv /\ HomeInv /\ UnwoundInv

LEMMA ServerOfType == \A k \in Keys : ServerOf(k) \in Servers
  BY NumServersAssumption, HashAssumption DEF ServerOf, Servers

LEMMA RequestType ==
  ASSUME NEW r \in Requests
  PROVE  /\ r.op \in {"Put", "Get", "Erase", "GetAllData"}
         /\ r.key \in Keys /\ r.val \in Values /\ r.via \in Servers \cup {Own}
         /\ r.op = "GetAllData" => r.via = Own
  BY RequestsAssumption

LEMMA ViaType ==
  ASSUME NEW p \in Procs, NEW r \in Requests
  PROVE  /\ Via(p, r) \in Servers
         /\ r.op = "GetAllData" => Via(p, r) = Home[p]
  BY HomeAssumption, RequestType DEF Via

(* The initial states satisfy the invariant. *)
LEMMA StoreInvInit == Init => StoreInv
  <1> SUFFICES ASSUME Init PROVE StoreInv
    OBVIOUS
  <1>1. (CHOOSE r \in Requests : TRUE) \in Requests
    BY RequestsAssumption
  <1>2. TypeOK
    BY <1>1, HomeAssumption DEF Init, TypeOK
  <1>3. PutInv /\ OwnerInv /\ ShardInv /\ LeftInv /\ HomeInv /\ UnwoundInv
    BY HomeAssumption DEF Init, PutInv, OwnerInv, ShardInv, LeftInv, HomeInv, UnwoundInv
  <1> QED
    BY <1>2, <1>3 DEF StoreInv

(* Every step keeps it. *)
LEMMA StoreInvStep == StoreInv /\ [Next]_vars => StoreInv'
  <1> SUFFICES ASSUME StoreInv, [Next]_vars PROVE StoreInv'
    OBVIOUS
  <1> USE DEF StoreInv
  <1> USE ServerOfType, RequestType, ViaType, HomeAssumption, NoneAssumption
  <1>1. ASSUME NEW p \in Procs, NEW r \in Requests, Invoke(p, r)
        PROVE  StoreInv'
    <2>1. TypeOK'
      BY <1>1 DEF Invoke, TypeOK
    <2>2. PutInv'
      BY <1>1 DEF Invoke, PutInv, TypeOK
    <2>3. OwnerInv'
      BY <1>1 DEF Invoke, OwnerInv, TypeOK
    <2>4. ShardInv'
      BY <1>1 DEF Invoke, ShardInv, TypeOK
    <2>5. LeftInv'
      BY <1>1 DEF Invoke, LeftInv, TypeOK
    <2>6. HomeInv'
      BY <1>1 DEF Invoke, HomeInv, TypeOK
    <2>7. UnwoundInv'
      BY <1>1 DEF Invoke, UnwoundInv, TypeOK
    <2> QED
      BY <2>1, <2>2, <2>3, <2>4, <2>5, <2>6, <2>7
  <1>2. ASSUME NEW p \in Procs, Dispatch(p)
        PROVE  StoreInv'
    <2>1. TypeOK'
      BY <1>2 DEF Dispatch, TypeOK
    <2>2. PutInv'
      BY <1>2 DEF Dispatch, PutInv, TypeOK
    <2>3. OwnerInv'
      BY <1>2 DEF Dispatch, OwnerInv, TypeOK
    <2>4. ShardInv'
      BY <1>2 DEF Dispatch, ShardInv, TypeOK
    <2>5. LeftInv'
      BY <1>2 DEF Dispatch, LeftInv, TypeOK
    <2>6. HomeInv'
      BY <1>2 DEF Dispatch, HomeInv, TypeOK
    <2>7. UnwoundInv'
      BY <1>2 DEF Dispatch, UnwoundInv, TypeOK
    <2> QED
      BY <2>1, <2>2, <2>3, <2>4, <2>5, <2>6, <2>7
  <1>3. ASSUME NEW p \in Procs, Route(p)
        PROVE  StoreInv'
    <2>1. TypeOK'
      BY <1>3 DEF Route, TypeOK
    <2>2. PutInv'
      BY <1>3 DEF Route, PutInv, TypeOK
    <2>3. OwnerInv'
      BY <1>3 DEF Route, OwnerInv, TypeOK
    <2>4. ShardInv'
      BY <1>3 DEF Route, ShardInv, TypeOK
    <2>5. LeftInv'
      BY <1>3 DEF Route, LeftInv, TypeOK
    <2>6. HomeInv'
      BY <1>3 DEF Route, HomeInv, TypeOK
    <2>7. UnwoundInv'
      BY <1>3 DEF Route, UnwoundInv, TypeOK
    <2> QED
      BY <2>1, <2>2, <2>3, <2>4, <2>5, <2>6, <2>7
  <1>4. ASSUME NEW p \in Procs, PutErase(p)
        PROVE  StoreInv'
    <2>1. TypeOK'
      BY <1>4 DEF PutErase, TypeOK, Methods, LockFree
    <2>2. PutInv'
      BY <1>4 DEF PutErase, PutInv, Methods, LockFree, OwnerInv, TypeOK
    <2>3. OwnerInv'
      BY <1>4 DEF PutErase, OwnerInv, Methods, LockFree, TypeOK
    <2>4. ShardInv'
      BY <1>4 DEF PutErase, ShardInv, Methods, LockFree, TypeOK
    <2>5. LeftInv'
      BY <1>4 DEF PutErase, LeftInv, Methods, LockFree, TypeOK
    <2>6. HomeInv'
      BY <1>4 DEF PutErase, HomeInv, Methods, LockFree, TypeOK
    <2>7. UnwoundInv'
      BY <1>4 DEF PutErase, UnwoundInv, Methods, LockFree, TypeOK
    <2> QED
      BY <2>1, <2>2, <2>3, <2>4, <2>5, <2>6, <2>7
  <1>5. ASSUME NEW p \in Procs, PutInsert(p)
        PROVE  StoreInv'
    <2>1. TypeOK'
      BY <1>5 DEF PutInsert, TypeOK
    <2>2. PutInv'
      BY <1>5 DEF PutInsert, PutInv, TypeOK
    <2>3. OwnerInv'
      BY <1>5 DEF PutInsert, OwnerInv, TypeOK
    <2>4. ShardInv'
      BY <1>5 DEF PutInsert, ShardInv, PutInv, TypeOK
    <2>5. LeftInv'
      BY <1>5 DEF PutInsert, LeftInv, TypeOK
    <2>6. HomeInv'
      BY <1>5 DEF PutInsert, HomeInv, TypeOK
    <2>7. UnwoundInv'
      BY <1>5 DEF PutInsert, UnwoundInv, TypeOK
    <2> QED
      BY <2>1, <2>2, <2>3, <2>4, <2>5, <2>6, <2>7
  <1>6. ASSUME NEW p \in Procs, Get(p)
        PROVE  StoreInv'
    <2>1. TypeOK'
      BY <1>6 DEF Get, TypeOK, Methods, LockFree
    <2>2. PutInv'
      BY <1>6 DEF Get, PutInv, Methods, LockFree, TypeOK
    <2>3. OwnerInv'
      BY <1>6 DEF Get, OwnerInv, Methods, LockFree, TypeOK
    <2>4. ShardInv'
      BY <1>6 DEF Get, ShardInv, Methods, LockFree, TypeOK
    <2>5. LeftInv'
      BY <1>6 DEF Get, LeftInv, Methods, LockFree, TypeOK
    <2>6. HomeInv'
      BY <1>6 DEF Get, HomeInv, Methods, LockFree, TypeOK
    <2>7. UnwoundInv'
      BY <1>6 DEF Get, UnwoundInv, Methods, LockFree, TypeOK
    <2> QED
      BY <2>1, <2>2, <2>3, <2>4, <2>5, <2>6, <2>7
  <1>7. ASSUME NEW p \in Procs, Erase(p)
        PROVE  StoreInv'
    <2>1. TypeOK'
      BY <1>7 DEF Erase, TypeOK, Methods, LockFree
    <2>2. PutInv'
      BY <1>7 DEF Erase, PutInv, Methods, LockFree, TypeOK
    <2>3. OwnerInv'
      BY <1>7 DEF Erase, OwnerInv, Methods, LockFree, TypeOK
    <2>4. ShardInv'
      BY <1>7 DEF Erase, ShardInv, Methods, LockFree, TypeOK
    <2>5. LeftInv'
      BY <1>7 DEF Erase, LeftInv, Methods, LockFree, TypeOK
    <2>6. HomeInv'
      BY <1>7 DEF Erase, HomeInv, Methods, LockFree, TypeOK
    <2>7. UnwoundInv'
      BY <1>7 DEF Erase, UnwoundInv, Methods, LockFree, TypeOK
    <2> QED
      BY <2>1, <2>2, <2>3, <2>4, <2>5, <2>6, <2>7
  <1>8. ASSUME NEW p \in Procs, GetAllDataInServer(p)
        PROVE  StoreInv'
    <2>1. TypeOK'
      BY <1>8 DEF GetAllDataInServer, TypeOK, Methods, LockFree, Entries
    <2>2. PutInv'
      BY <1>8 DEF GetAllDataInServer, PutInv, Methods, LockFree, Entries, TypeOK
    <2>3. OwnerInv'
      BY <1>8 DEF GetAllDataInServer, OwnerInv, Methods, LockFree, Entries, TypeOK
    <2>4. ShardInv'
      BY <1>8 DEF GetAllDataInServer, ShardInv, Methods, LockFree, Entries, TypeOK
    <2>5. LeftInv'
      BY <1>8 DEF GetAllDataInServer, LeftInv, Methods, LockFree, Entries, TypeOK
    <2>6. HomeInv'
      BY <1>8 DEF GetAllDataInServer, HomeInv, Methods, LockFree, Entries, TypeOK
    <2>7. UnwoundInv'
      BY <1>8 DEF GetAllDataInServer, UnwoundInv, Methods, LockFree, Entries, TypeOK
    <2> QED
      BY <2>1, <2>2, <2>3, <2>4, <2>5, <2>6, <2>7
  <1>9. ASSUME NEW p \in Procs, Unwind(p)
        PROVE  StoreInv'
    <2>1. TypeOK'
      BY <1>9 DEF Unwind, TypeOK
    <2>2. PutInv'
      BY <1>9 DEF Unwind, PutInv, TypeOK
    <2>3. OwnerInv'
      BY <1>9 DEF Unwind, OwnerInv, TypeOK
    <2>4. ShardInv'
      BY <1>9 DEF Unwind, ShardInv, TypeOK
    <2>5. LeftInv'
      BY <1>9 DEF Unwind, LeftInv, TypeOK
    <2>6. HomeInv'
      BY <1>9 DEF Unwind, HomeInv, TypeOK
    <2>7. UnwoundInv'
      BY <1>9 DEF Unwind, UnwoundInv, TypeOK
    <2> QED
      BY <2>1, <2>2, <2>3, <2>4, <2>5, <2>6, <2>7
  <1>10. ASSUME NEW p \in Procs, CallNextServer(p)
        PROVE  StoreInv'
    <2>1. TypeOK'
      BY <1>10 DEF CallNextServer, TypeOK
    <2>2. PutInv'
      BY <1>10 DEF CallNextServer, PutInv, TypeOK
    <2>3. OwnerInv'
      BY <1>10 DEF CallNextServer, OwnerInv, TypeOK
    <2>4. ShardInv'
      BY <1>10 DEF CallNextServer, ShardInv, TypeOK
    <2>5. LeftInv'
      BY <1>10 DEF CallNextServer, LeftInv, TypeOK
    <2>6. HomeInv'
      BY <1>10 DEF CallNextServer, HomeInv, TypeOK
    <2>7. UnwoundInv'
      BY <1>10 DEF CallNextServer, UnwoundInv, TypeOK
    <2> QED
      BY <2>1, <2>2, <2>3, <2>4, <2>5, <2>6, <2>7
  <1>11. ASSUME NEW p \in Procs, Return(p)
        PROVE  StoreInv'
    <2>1. TypeOK'
      BY <1>11 DEF Return, TypeOK
    <2>2. PutInv'
      BY <1>11 DEF Return, PutInv, TypeOK
    <2>3. OwnerInv'
      BY <1>11 DEF Return, OwnerInv, TypeOK
    <2>4. ShardInv'
      BY <1>11 DEF Return, ShardInv, TypeOK
    <2>5. LeftInv'
      BY <1>11 DEF Return, LeftInv, TypeOK
    <2>6. HomeInv'
      BY <1>11 DEF Return, HomeInv, UnwoundInv, TypeOK
    <2>7. UnwoundInv'
      BY <1>11 DEF Return, UnwoundInv, TypeOK
    <2> QED
      BY <2>1, <2>2, <2>3, <2>4, <2>5, <2>6, <2>7
  <1>12. ASSUME UNCHANGED vars
         PROVE  StoreInv'
    BY <1>12 DEF vars, TypeOK, PutInv, OwnerInv, ShardInv, LeftInv, HomeInv, UnwoundInv
  <1> QED
    BY <1>1, <1>2, <1>3, <1>4, <1>5, <1>6, <1>7, <1>8, <1>9, <1>10, <1>11, <1>12 DEF Next, Step

(* The types of the state, for every instance (TypeOK). *)
THEOREM StoreTypeCorrect == Spec => []TypeOK
  <1>1. StoreInv => TypeOK
    BY DEF StoreInv
  <1> QED
    BY <1>1, StoreInvInit, StoreInvStep, PTL DEF Spec

----------------------------------------------------------------------------
(* The abstract table, key by key: at most one process is in a Put of it. *)
TableFacts ==
    \A k \in Keys :
        /\ \A p \in Procs : pc[p] = "erased" /\ req[p].key = k => Table[k] = req[p].val
        /\ (\A p \in Procs : ~(pc[p] = "erased" /\ req[p].key = k)) =>
              Table[k] = shard[ServerOf(k)][k]

LEMMA TableIs == StoreInv => TableFacts
  <1> SUFFICES ASSUME StoreInv, NEW k \in Keys
               PROVE  /\ \A p \in Procs : pc[p] = "erased" /\ req[p].key = k =>
                            Table[k] = req[p].val
                      /\ (\A p \in Procs : ~(pc[p] = "erased" /\ req[p].key = k)) =>
                            Table[k] = shard[ServerOf(k)][k]
    BY DEF TableFacts
  <1>1. ASSUME NEW p \in Procs, pc[p] = "erased", req[p].key = k
        PROVE  Table[k] = req[p].val
    <2> DEFINE q == CHOOSE x \in Procs : pc[x] = "erased" /\ req[x].key = k
    <2>1. q \in Procs /\ pc[q] = "erased" /\ req[q].key = k
      BY <1>1
    <2>2. mutex[ServerOf(k)] = q /\ mutex[ServerOf(k)] = p
      BY <1>1, <2>1 DEF StoreInv, PutInv
    <2>3. Table[k] = req[q].val
      BY <1>1 DEF Table
    <2> QED
      BY <2>2, <2>3
  <1>2. ASSUME \A p \in Procs : ~(pc[p] = "erased" /\ req[p].key = k)
        PROVE  Table[k] = shard[ServerOf(k)][k]
    BY <1>2 DEF Table
  <1> QED
    BY <1>1, <1>2

(* With no Put under way on a server, its keys are what it holds. *)
LEMMA TableQuiet ==
  ASSUME StoreInv, NEW s \in Servers, mutex[s] = None, NEW k \in Keys, ServerOf(k) = s
  PROVE  Table[k] = shard[s][k]
  BY TableIs, NoneAssumption DEF StoreInv, PutInv, TableFacts

(* A step that touches neither the shards nor a Put leaves the table. *)
LEMMA TableStable ==
  ASSUME StoreInv, StoreInv', shard' = shard,
         \A p \in Procs : pc[p] = "erased" <=> pc'[p] = "erased",
         \A p \in Procs : pc[p] = "erased" => req'[p] = req[p]
  PROVE  Table' = Table
  <1>1. TableFacts /\ TableFacts'
    BY TableIs, PTL
  <1>2. ASSUME NEW k \in Keys PROVE Table'[k] = Table[k]
    BY <1>1 DEF TableFacts, ServerOf
  <1> QED
    BY <1>2 DEF Table

(* Initial states are mapped to initial states. *)
LEMMA RefinementInit == Init => Abstract!Init
  <1> SUFFICES ASSUME Init PROVE Abstract!Init
    OBVIOUS
  <1>1. (CHOOSE r \in Requests : TRUE) \in Requests
    BY RequestsAssumption
  <1> QED
    BY <1>1, ServerOfType DEF Init, Abstract!Init, Table, Phase, Reply, Seen

(* A step that neither begins, performs nor ends an operation is mapped to *)
(* a stuttering step.                                                      *)
LEMMA SilentStep ==
  ASSUME StoreInv, StoreInv', NEW p \in Procs,
         Dispatch(p) \/ Route(p) \/ Unwind(p) \/ CallNextServer(p)
  PROVE  UNCHANGED Abstract!vars
  <1>1. /\ shard' = shard /\ req' = req /\ reply' = reply /\ left' = left /\ got' = got
        /\ \A q \in Procs :
              \/ pc'[q] = pc[q]
              \/ /\ pc[q] \in {"queued", "exec", "return"}
                 /\ pc'[q] \in {"queued", "exec", "locked"}
                 /\ pc[q] = "return" => left[q] # {}
    BY DEF Dispatch, Route, Unwind, CallNextServer, StoreInv, TypeOK
  <1>2. Table' = Table
    BY <1>1, TableStable
  <1>3. Phase' = Phase
    <2>1. ASSUME NEW q \in Procs PROVE Phase'[q] = Phase[q]
      BY <1>1 DEF Phase
    <2> QED
      BY <2>1 DEF Phase
  <1>4. Reply' = Reply
    <2>1. ASSUME NEW q \in Procs PROVE Reply'[q] = Reply[q]
      BY <1>1 DEF Reply
    <2> QED
      BY <2>1 DEF Reply
  <1>5. Seen' = Seen
    <2>1. ASSUME NEW q \in Procs PROVE Seen'[q] = Seen[q]
      BY <1>1 DEF Seen, ServerOf
    <2> QED
      BY <2>1 DEF Seen
  <1> QED
    BY <1>1, <1>2, <1>3, <1>4, <1>5 DEF Abstract!vars

(* The insertion of the new pair ends a Put that has taken effect. *)
LEMMA InsertStep ==
  ASSUME StoreInv, StoreInv', NEW p \in Procs, PutInsert(p)
  PROVE  UNCHANGED Abstract!vars
  <1> USE DEF StoreInv, TypeOK, PutInsert
  <1>1. /\ req[p] \in Requests /\ req[p].op = "Put" /\ left[p] = {}
        /\ at[p] = ServerOf(req[p].key) /\ mutex[at[p]] = p
    BY DEF PutInv, LeftInv
  <1>2. Table' = Table
    <2>1. TableFacts /\ TableFacts'
      BY TableIs, PTL
    <2>2. ASSUME NEW k \in Keys PROVE Table'[k] = Table[k]
      <3>1. CASE k = req[p].key
        <4>1. Table[k] = req[p].val
          BY <2>1, <3>1 DEF TableFacts
        <4>2. \A q \in Procs : ~(pc'[q] = "erased" /\ req'[q].key = k)
          BY <3>1 DEF PutInv
        <4>3. Table'[k] = shard'[ServerOf(k)][k]
          BY <2>1, <4>2 DEF TableFacts, ServerOf
        <4> QED
          BY <1>1, <4>1, <4>3, <3>1, ServerOfType
      <3>2. CASE k # req[p].key
        <4>1. shard'[ServerOf(k)][k] = shard[ServerOf(k)][k]
          BY <3>2, ServerOfType
        <4>2. \A q \in Procs : /\ req'[q] = req[q]
                               /\ (pc'[q] = "erased" /\ req[q].key = k)
                                    <=> (pc[q] = "erased" /\ req[q].key = k)
          BY <3>2
        <4>3. CASE \E q \in Procs : pc[q] = "erased" /\ req[q].key = k
          BY <2>1, <4>2, <4>3 DEF TableFacts
        <4>4. CASE ~\E q \in Procs : pc[q] = "erased" /\ req[q].key = k
          <5>1. Table'[k] = shard'[ServerOf(k)][k]
            BY <2>1, <4>2, <4>4 DEF TableFacts, ServerOf
          <5>2. Table[k] = shard[ServerOf(k)][k]
            BY <2>1, <4>4 DEF TableFacts
          <5> QED
            BY <4>1, <5>1, <5>2
        <4> QED
          BY <4>3, <4>4
      <3> QED
        BY <3>1, <3>2
    <2> QED
      BY <2>2 DEF Table
  <1>3. Phase' = Phase
    BY <1>1 DEF Phase
  <1>4. Reply' = Reply
    BY DEF Reply
  <1>5. Seen' = Seen
    BY DEF Seen, ServerOf
  <1> QED
    BY <1>2, <1>3, <1>4, <1>5 DEF Abstract!vars

(* The call and the return of an operation. *)
LEMMA InvokeStep ==
  ASSUME StoreInv, StoreInv', NEW p \in Procs, NEW r \in Requests, Invoke(p, r)
  PROVE  Abstract!Invoke(p, r)
  <1> USE DEF StoreInv, TypeOK, Invoke
  <1>1. Table' = Table
    BY TableStable
  <1>2. Phase[p] = "idle" /\ Phase' = [Phase EXCEPT ![p] = "pending"]
    BY DEF Phase
  <1>3. Reply' = Reply
    BY DEF Reply
  <1>4. Seen' = Seen
    <2>1. ASSUME NEW q \in Procs PROVE Seen'[q] = Seen[q]
      <3>1. CASE q = p
        <4>1. Seen[q] = {}
          BY <3>1 DEF Seen
        <4>2. left'[q] = Servers \/ req'[q].op # "GetAllData"
          BY <3>1
        <4>3. Seen'[q] = {}
          BY <4>2, ServerOfType DEF Seen, ServerOf
        <4> QED
          BY <4>1, <4>3
      <3>2. CASE q # p
        <4>1. left'[q] = left[q] /\ req'[q] = req[q] /\ pc'[q] = pc[q]
          BY <3>2
        <4> HIDE DEF StoreInv, TypeOK, Invoke
        <4> QED
          BY <4>1 DEF Seen, ServerOf
      <3> QED
        BY <3>1, <3>2
    <2> QED
      BY <2>1 DEF Seen
  <1> QED
    BY <1>1, <1>2, <1>3, <1>4 DEF Abstract!Invoke

LEMMA ReturnStep ==
  ASSUME StoreInv, StoreInv', NEW p \in Procs, Return(p)
  PROVE  Abstract!Return(p)
  <1> USE DEF StoreInv, TypeOK, Return
  <1>1. Table' = Table
    BY TableStable
  <1>2. Phase[p] = "done" /\ Phase' = [Phase EXCEPT ![p] = "idle"]
    BY DEF Phase
  <1>3. Reply' = [Reply EXCEPT ![p] = None]
    BY DEF Reply
  <1>4. Seen' = [Seen EXCEPT ![p] = {}]
    <2>1. ASSUME NEW q \in Procs
          PROVE  Seen'[q] = IF q = p THEN {} ELSE Seen[q]
      <3>1. left'[q] = left[q] /\ req'[q] = req[q]
        OBVIOUS
      <3>2. IF q = p THEN pc'[q] = "idle" ELSE pc'[q] = pc[q]
        OBVIOUS
      <3> QED
        BY <3>1, <3>2 DEF Seen, ServerOf
    <2> QED
      BY <2>1 DEF Seen
  <1> QED
    BY <1>1, <1>2, <1>3, <1>4 DEF Abstract!Return

(* A method on one key changes the table at that key only. *)
LEMMA TableAfter ==
  ASSUME StoreInv, StoreInv', NEW p \in Procs, NEW k0 \in Keys, NEW v,
         req' = req, req[p].key = k0, pc[p] = "locked", at[p] = ServerOf(k0),
         mutex[at[p]] = None,
         \A q \in Procs : q # p => pc'[q] = pc[q],
         \A s \in Servers, k \in Keys : k # k0 => shard'[s][k] = shard[s][k],
         \/ pc'[p] = "erased" /\ v = req[p].val
         \/ pc'[p] = "return" /\ v = shard'[at[p]][k0]
  PROVE  Table' = [Table EXCEPT ![k0] = v]
  <1>1. TableFacts /\ TableFacts'
    BY TableIs, PTL
  <1>2. \A q \in Procs : ~(pc[q] = "erased" /\ req[q].key = k0)
    BY NoneAssumption DEF StoreInv, PutInv
  <1>3. Table'[k0] = v
    <2>1. CASE pc'[p] = "erased" /\ v = req[p].val
      BY <1>1, <2>1 DEF TableFacts
    <2>2. CASE pc'[p] = "return" /\ v = shard'[at[p]][k0]
      <3>1. \A q \in Procs : ~(pc'[q] = "erased" /\ req'[q].key = k0)
        BY <1>2, <2>2
      <3>2. Table'[k0] = shard'[ServerOf(k0)][k0]
        BY <1>1, <3>1 DEF TableFacts, ServerOf
      <3> QED
        BY <2>2, <3>2
    <2> QED
      BY <2>1, <2>2
  <1>4. ASSUME NEW k \in Keys, k # k0 PROVE Table'[k] = Table[k]
    <2>1. shard'[ServerOf(k)][k] = shard[ServerOf(k)][k]
      BY <1>4, ServerOfType
    <2>2. \A q \in Procs : (pc'[q] = "erased" /\ req'[q].key = k)
                             <=> (pc[q] = "erased" /\ req[q].key = k)
      BY <1>4
    <2>3. CASE \E q \in Procs : pc[q] = "erased" /\ req[q].key = k
      BY <1>1, <2>2, <2>3 DEF TableFacts
    <2>4. CASE ~\E q \in Procs : pc[q] = "erased" /\ req[q].key = k
      <3>1. Table'[k] = shard'[ServerOf(k)][k]
        BY <1>1, <2>2, <2>4 DEF TableFacts, ServerOf
      <3>2. Table[k] = shard[ServerOf(k)][k]
        BY <1>1, <2>4 DEF TableFacts
      <3> QED
        BY <2>1, <3>1, <3>2
    <2> QED
      BY <2>3, <2>4
  <1>5. /\ Table = [k \in Keys |-> Table[k]]
        /\ Table' = [k \in Keys |-> Table'[k]]
    BY DEF Table
  <1> QED
    BY <1>3, <1>4, <1>5

(* The moment an operation on one key takes effect. *)
LEMMA EffectStep ==
  ASSUME StoreInv, StoreInv', NEW p \in Procs, PutErase(p) \/ Get(p) \/ Erase(p)
  PROVE  Abstract!TakeEffect(p)
  <1> DEFINE k0 == req[p].key
             v == Abstract!Result(req[p], Table[k0])
  <1>1. /\ req[p] \in Requests /\ req[p].op # "GetAllData"
        /\ req[p].key \in Keys /\ at[p] \in Servers /\ left[p] = {}
        /\ pc[p] = "locked" /\ mutex[at[p]] = None /\ at[p] = ServerOf(k0)
    BY RequestType DEF StoreInv, TypeOK, PutErase, Get, Erase, Methods, LockFree, OwnerInv, LeftInv
  <1>2. Table[k0] = shard[at[p]][k0]
    BY <1>1, TableQuiet
  <1>3. /\ req' = req /\ left' = left /\ got' = got
        /\ \A q \in Procs : q # p => pc'[q] = pc[q] /\ reply'[q] = reply[q]
        /\ \A s \in Servers, k \in Keys : k # k0 => shard'[s][k] = shard[s][k]
    <2> USE DEF StoreInv, TypeOK
    <2>1. CASE PutErase(p)
      BY <1>1, <2>1 DEF PutErase
    <2>2. CASE Get(p)
      BY <1>1, <2>2 DEF Get
    <2>3. CASE Erase(p)
      BY <1>1, <2>3 DEF Erase
    <2> QED
      BY <2>1, <2>2, <2>3
  <1>4. \/ pc'[p] = "erased" /\ v = req[p].val
        \/ pc'[p] = "return" /\ v = shard'[at[p]][k0]
    BY <1>1, <1>2 DEF PutErase, Get, Erase, Methods, StoreInv, TypeOK, Abstract!Result
  <1>5. Table' = [Table EXCEPT ![k0] = v]
    <2> HIDE DEF v
    <2> QED
      BY <1>1, <1>3, <1>4, TableAfter
  <1>6. Phase[p] = "pending" /\ Phase' = [Phase EXCEPT ![p] = "done"]
    <2>1. Phase[p] = "pending"
      BY <1>1 DEF Phase
    <2>2. ASSUME NEW q \in Procs
          PROVE  Phase'[q] = IF q = p THEN "done" ELSE Phase[q]
      BY <1>1, <1>3, <1>4 DEF Phase
    <2> QED
      BY <2>1, <2>2 DEF Phase
  <1>7. Reply' = [Reply EXCEPT ![p] = Abstract!Answer(req[p], Table[k0])]
    <2>1. Reply'[p] = Abstract!Answer(req[p], Table[k0])
      BY <1>1, <1>2 DEF Reply, PutErase, Get, Erase, Methods, StoreInv, TypeOK, Abstract!Answer
    <2>2. ASSUME NEW q \in Procs, q # p PROVE Reply'[q] = Reply[q]
      BY <2>2, <1>3 DEF Reply
    <2> QED
      BY <2>1, <2>2 DEF Reply
  <1>8. Seen' = Seen
    <2>1. ASSUME NEW q \in Procs PROVE Seen'[q] = Seen[q]
      BY <1>1, <1>3 DEF Seen, ServerOf
    <2> QED
      BY <2>1 DEF Seen
  <1> QED
    BY <1>1, <1>3, <1>5, <1>6, <1>7, <1>8 DEF Abstract!TakeEffect

(* GetAllDataInServer reads the keys of one server at one moment. *)
LEMMA ReadStep ==
  ASSUME StoreInv, StoreInv', NEW p \in Procs, GetAllDataInServer(p)
  PROVE  \E K \in SUBSET Keys : Abstract!ReadSome(p, K)
  <1> DEFINE s == at[p]
             K == {k \in Keys : ServerOf(k) = s}
  <1>1. /\ req[p].op = "GetAllData" /\ pc[p] = "locked" /\ mutex[s] = None
        /\ s \in Servers /\ s \in left[p]
    BY DEF GetAllDataInServer, Methods, LockFree, StoreInv, TypeOK, LeftInv
  <1>2. /\ req' = req /\ reply' = reply /\ shard' = shard
        /\ got' = [got EXCEPT ![p] = @ \cup Entries(s)]
        /\ left' = [left EXCEPT ![p] = @ \ {s}]
        /\ pc' = [pc EXCEPT ![p] = "return"]
    BY DEF GetAllDataInServer
  <1>3. Table' = Table
    BY <1>1, <1>2, TableStable DEF StoreInv, TypeOK
  <1>4. /\ Seen[p] = {k \in Keys : ServerOf(k) \notin left[p]}
        /\ Seen' = [Seen EXCEPT ![p] = @ \cup K]
    <2>1. Seen[p] = {k \in Keys : ServerOf(k) \notin left[p]}
      BY <1>1 DEF Seen
    <2>2. Seen'[p] = {k \in Keys : ServerOf(k) \notin (left[p] \ {s})}
      BY <1>1, <1>2 DEF Seen, ServerOf, StoreInv, TypeOK
    <2>3. Seen'[p] = Seen[p] \cup K
      BY <2>1, <2>2
    <2>4. ASSUME NEW q \in Procs, q # p PROVE Seen'[q] = Seen[q]
      <3>1. left'[q] = left[q] /\ pc'[q] = pc[q]
        BY <1>2, <2>4 DEF StoreInv, TypeOK
      <3> QED
        BY <1>2, <3>1 DEF Seen, ServerOf
    <2>5. /\ Seen = [q \in Procs |-> Seen[q]]
          /\ Seen' = [q \in Procs |-> Seen'[q]]
      BY DEF Seen
    <2> QED
      BY <2>1, <2>3, <2>4, <2>5
  <1>5. K \cap Seen[p] = {}
    BY <1>1, <1>4
  <1>6. Entries(s) = {<<k, Table[k]>> : k \in {j \in K : Table[j] # None}}
    <2>1. \A k \in K : Table[k] = shard[s][k]
      BY <1>1, TableQuiet
    <2>2. \A k \in Keys : shard[s][k] # None => k \in K
      BY <1>1 DEF StoreInv, ShardInv
    <2>3. {j \in Keys : shard[s][j] # None} = {j \in K : Table[j] # None}
      BY <2>1, <2>2
    <2> QED
      BY <2>1, <2>3 DEF Entries
  <1>7. Phase[p] = "pending"
    BY <1>1 DEF Phase
  <1>8. \/ Phase' = Phase
        \/ Seen'[p] = Keys /\ Phase' = [Phase EXCEPT ![p] = "done"]
    <2>1. ASSUME NEW q \in Procs, q # p PROVE Phase'[q] = Phase[q]
      BY <1>2, <2>1 DEF Phase, StoreInv, TypeOK
    <2>2. /\ Phase = [q \in Procs |-> Phase[q]]
          /\ Phase' = [q \in Procs |-> Phase'[q]]
      BY DEF Phase
    <2>3. CASE left'[p] = {}
      <3>1. Phase'[p] = "done"
        BY <1>2, <2>3 DEF Phase, StoreInv, TypeOK
      <3>2. left[p] \ {s} = {}
        BY <1>2, <2>3 DEF StoreInv, TypeOK
      <3>3. Seen'[p] = Keys
        BY <1>4, <3>2 DEF Seen
      <3> QED
        BY <2>1, <2>2, <3>1, <3>3
    <2>4. CASE left'[p] # {}
      <3>1. Phase'[p] = "pending"
        BY <1>2, <2>4 DEF Phase, StoreInv, TypeOK
      <3> QED
        BY <1>7, <2>1, <2>2, <3>1
    <2> QED
      BY <2>3, <2>4
  <1>9. Reply' = Reply
    <2>1. ASSUME NEW q \in Procs PROVE Reply'[q] = Reply[q]
      BY <1>1, <1>2 DEF Reply, StoreInv, TypeOK
    <2> QED
      BY <2>1 DEF Reply
  <1>10. Abstract!ReadSome(p, K)
    BY <1>1, <1>2, <1>3, <1>4, <1>5, <1>6, <1>7, <1>8, <1>9 DEF Abstract!ReadSome
  <1> QED
    BY <1>10

(* Every step is mapped to a step of the atomic store or to stuttering. *)
LEMMA RefinementStep ==
  StoreInv /\ StoreInv' /\ [Next]_vars => [Abstract!Next]_(Abstract!vars)
  <1> SUFFICES ASSUME StoreInv, StoreInv', [Next]_vars
               PROVE  [Abstract!Next]_(Abstract!vars)
    OBVIOUS
  <1>1. ASSUME NEW p \in Procs, NEW r \in Requests, Invoke(p, r)
        PROVE  Abstract!Next
    BY <1>1, InvokeStep DEF Abstract!Next
  <1>2. ASSUME NEW p \in Procs, PutErase(p) \/ Get(p) \/ Erase(p)
        PROVE  Abstract!Next
    BY <1>2, EffectStep DEF Abstract!Next
  <1>3. ASSUME NEW p \in Procs, GetAllDataInServer(p)
        PROVE  Abstract!Next
    BY <1>3, ReadStep DEF Abstract!Next
  <1>4. ASSUME NEW p \in Procs, Return(p)
        PROVE  Abstract!Next
    BY <1>4, ReturnStep DEF Abstract!Next
  <1>5. ASSUME NEW p \in Procs,
               Dispatch(p) \/ Route(p) \/ Unwind(p) \/ CallNextServer(p)
        PROVE  UNCHANGED Abstract!vars
    BY <1>5, SilentStep
  <1>6. ASSUME NEW p \in Procs, PutInsert(p)
        PROVE  UNCHANGED Abstract!vars
    BY <1>6, InsertStep
  <1>7. ASSUME UNCHANGED vars
        PROVE  UNCHANGED Abstract!vars
    BY <1>7 DEF vars, Abstract!vars, Table, Phase, Reply, Seen, ServerOf
  <1> QED
    BY <1>1, <1>2, <1>3, <1>4, <1>5, <1>6, <1>7 DEF Next, Step

(***************************************************************************)
(* The sharded store implements the atomic one for any number of servers,  *)
(* processes, keys and handler threads (DistributedHashMap.h, Put to       *)
(* GetAllData): no operation is seen half done, and GetAllData misses no   *)
(* key (ImplementsAtomicStore).                                            *)
(***************************************************************************)
THEOREM StoreRefinesAtomicStore == Spec => ImplementsAtomicStore
  BY StoreInvInit, StoreInvStep, RefinementInit, RefinementStep, PTL
     DEF Spec, ImplementsAtomicStore, Abstract!Spec
=============================================================================
