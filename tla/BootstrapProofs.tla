-------------------------- MODULE BootstrapProofs --------------------------
(***************************************************************************)
(* Theorems about Bootstrap, for any number of servers, clients, layers    *)
(* and offset maps.                                                        *)
(***************************************************************************)
EXTENDS Bootstrap, SegmentProofs

----------------------------------------------------------------------------
(* The steps of a server's constructors, and what they stand for. *)

Types ==
    {"RPC", "SharedFileClient", "LocalFileClient", "MemoryClient", "IOClientFactory",
     "FileSegmentAuditor", "DPEFactory", "DataManager", "MaxBandwidthDPE",
     "EventManager", "HardwareMonitor", "Server"}

Srv(s) == [server |-> TRUE, rank |-> s]

Servers == {p \in Procs : p.server}

Rng(s) == {s[i] : i \in 1 .. Len(s)}

(* The singletons that the constructor of T may build, itself or through    *)
(* another one.                                                             *)
Clients == {"SharedFileClient", "LocalFileClient", "MemoryClient"}
Upto(T) ==
    CASE T \in {"RPC", "DPEFactory"} -> {}
      [] T \in Clients \cup {"HardwareMonitor"} -> {"RPC"}
      [] T = "IOClientFactory" -> {"RPC"} \cup Clients
      [] T = "FileSegmentAuditor" -> {"RPC", "IOClientFactory"} \cup Clients
      [] T = "DataManager" -> {"RPC", "IOClientFactory", "FileSegmentAuditor"} \cup Clients
      [] T = "MaxBandwidthDPE" ->
            {"RPC", "IOClientFactory", "FileSegmentAuditor", "DataManager"} \cup Clients
      [] T = "EventManager" -> {"RPC", "IOClientFactory", "FileSegmentAuditor", "DataManager",
                                "MaxBandwidthDPE", "DPEFactory"} \cup Clients
      [] T = "Server" -> Types \ {"Server"}

StepOK(p, st) ==
    /\ st.act \in {"GetInstance", "Set"} => st.on \in Types
    /\ st.act = "Create" => p.server /\ st.on \in Names
    /\ st.act = "Open" => ~p.server /\ st.on \in Names
    /\ st.act = "Bind" => p.server /\ st.on \in Bindable
    /\ st.act = "Run" => p.server
    /\ st.act = "Call" => /\ p.server /\ p.rank = 0
                          /\ st.on = "LAYER_SCORE_MAP" /\ st.at \in Ranks
    /\ st.act = "Prompt" => p.server /\ p.rank = 0
    /\ st.act = "Work" => ~p.server
    /\ st.act \in {"Stop", "Exit"} => p.server
    /\ st.act # "Call" => st = Step(st.act, st.on)

Acts == {"Barrier", "GetInstance", "Set", "Create", "Open", "Bind", "Run", "Call", "Work",
         "Prompt", "Stop", "Exit"}

Things == Types \cup Names \cup Bindable \cup {"MPI_COMM_WORLD", "key", "main", "hfetch"}

Steps(p) == {st \in [act : Acts, on : Things, at : Nat] : StepOK(p, st)}

(* What a step has to leave behind. *)
Done(p, st, m, mp, b) ==
    /\ st.act = "GetInstance" => st.on \in m
    /\ st.act = "Create" => st.on \in Names /\ mp[st.on] = p.rank
    /\ st.act = "Bind" => st.on \in b

(* e, still to be taken, takes st with it. *)
Ahead(e, st) ==
    \/ e = st
    \/ /\ st.act = "GetInstance"
       /\ e.act \in {"GetInstance", "Set"} /\ st.on \in Upto(e.on) \cup {e.on}

(* What must come before a step: an instance is set when its constructor    *)
(* has run; some singletons are built before others; main comes after.      *)
Earlier ==
    {<<"EventManager", "HardwareMonitor">>, <<"IOClientFactory", "FileSegmentAuditor">>,
     <<"FileSegmentAuditor", "DataManager">>, <<"IOClientFactory", "MaxBandwidthDPE">>}

Needs(p, st) ==
    (IF st.act = "Set" THEN Rng(Constructor(p, st.on)) ELSE {})
      \cup {Step("GetInstance", e[1]) : e \in {x \in Earlier : st = Step("GetInstance", x[2])}}
      \cup (IF st.act \in {"Prompt", "Stop", "Exit"}
            THEN {Step("GetInstance", "Server")} ELSE {})

Begun(t, m) == m \cup {T \in Types : Step("Set", T) \in Rng(t)}

(* The collectives of a sequence of steps after the j-th, and in all. *)
Follow(t, j) == Cardinality({i \in (j + 1) .. Len(t) : t[i].act = "Barrier"})

NB(t) == Follow(t, 0)

Top == {"Server", "EventManager", "FileSegmentAuditor", "DataManager", "MaxBandwidthDPE",
        "HardwareMonitor"}

(* How many collectives follow a step. *)
SpacedAt(st, n) ==
    /\ st.act \in {"GetInstance", "Set"} => n >= 2 /\ (st.on \in Top => n = 2)
    /\ st.act = "Create" => n >= 3
    /\ st.act = "Bind" /\ st.on \notin {"LOCAL_FILE_CLIENT", "MEMORY_CLIENT"} => n >= 4
    /\ st.act = "Call" => n = 3
    /\ st.act = "Prompt" => n = 2
    /\ st.act = "Stop" => n = 1
    /\ st.act = "Exit" => n = 0

Spaced(t, k) ==
    \A j \in 1 .. Len(t) : SpacedAt(t[j], k + Follow(t, j))

(* The collectives of the constructors of a set of singletons. *)
Weight(T) ==
    CASE T = "RPC" -> 3
      [] T \in {"SharedFileClient", "LocalFileClient", "Server"} -> 4
      [] T \in {"MemoryClient", "DataManager", "HardwareMonitor"} -> 2
      [] T = "FileSegmentAuditor" -> 10 + 2 * Len(OffsetMaps)
      [] OTHER -> 0

W(M) ==
    LET w(T) == IF T \in M THEN Weight(T) ELSE 0
    IN  w("RPC") + w("SharedFileClient") + w("LocalFileClient") + w("MemoryClient")
          + w("FileSegmentAuditor") + w("DataManager") + w("HardwareMonitor") + w("Server")

Passed(t, m) == W(Begun(t, m)) - NB(t)

Low == {"Server", "RPC", "FileSegmentAuditor"} \cup Clients

Nested(t) ==
    \A j \in 1 .. Len(t) : t[j].act = "Set" =>
        \A i \in 1 .. (j - 1) :
            t[i].act \in {"GetInstance", "Set"} => t[i].on \in Upto(t[j].on)

Prepared(p, t, m, mp, b) ==
    \A j \in 1 .. Len(t) : \A st \in Needs(p, t[j]) :
        Done(p, st, m, mp, b) \/ \E i \in 1 .. (j - 1) : Ahead(t[i], st)

Owned(p, t) ==
    \A i \in 1 .. Len(t) : t[i].act \in {"Bind", "Call"} =>
        \E j \in (i + 1) .. Len(t) : t[j].act = "Set" /\ t[i] \in Rng(Constructor(p, t[j].on))

Built(p, m, mp, b) ==
    \A T \in m : \A st \in Rng(Constructor(p, T)) : Done(p, st, m, mp, b)

Rooted(t, m) ==
    /\ Begun(t, m) = {} => \A i \in 1 .. Len(t) : t[i].act = "GetInstance" => t[i].on = "Server"
    /\ Begun(t, m) # {} => "Server" \in Begun(t, m)
    /\ "Server" \in Begun(t, m) \/ Step("GetInstance", "Server") \in Rng(t)

ServerInv(p, t, m, mp, b) ==
    /\ t \in Seq(Steps(p)) /\ m \subseteq Types
    /\ Nested(t)
    /\ Prepared(p, t, m, mp, b)
    /\ Built(p, m, mp, b)
    /\ \A e \in Earlier : e[2] \in Begun(t, m) => e[1] \in m
    /\ \A T \in m : Step("Set", T) \notin Rng(t)
    /\ Owned(p, t)
    /\ Rooted(t, m)
    /\ Spaced(t, 0)
    /\ "FileSegmentAuditor" \in m => Passed(t, m) >= W(Low) - 2
    /\ \A j \in 1 .. Len(t) : t[j].act = "Exit" => j = Len(t)

ServersInv ==
    \A p \in Servers : ServerInv(p, todo[p], made[p], mapped[p], bound[p.rank])

LockStep ==
    \A p, q \in Servers : Passed(todo[p], made[p]) = Passed(todo[q], made[q])

RegionInv ==
    \A p \in Servers, x \in Names : mapped[p][x] # None =>
        /\ mapped[p][x] = p.rank
        /\ todo[p] # <<>> => region[Region(x, p.rank)] = p.rank

ClientInv ==
    /\ ready /\ (\E p \in Procs \ Servers : todo[p] # <<>>) =>
          todo[Srv(0)] # <<>> /\ Head(todo[Srv(0)]).act = "Prompt"
    /\ \A p \in Procs \ Servers :
          /\ todo[p] \in Seq(Steps(p))
          /\ \A x \in Names : mapped[p][x] # None => ready /\ mapped[p][x] = MyServer(p)

CallInv ==
    \A p \in Procs : call[p] # None =>
        \/ At(p, "Call") /\ call[p] = <<Arg(p), Head(todo[p]).at>>
        \/ At(p, "Work") \/ At(p, "Stop")

BootInv ==
    /\ TypeOK /\ failed = {} /\ ServersInv
    /\ LockStep /\ RegionInv /\ ClientInv /\ CallInv

----------------------------------------------------------------------------
(* Collectives in sequences of steps. *)

LEMMA Shift ==
  ASSUME NEW A, IsFiniteSet(A), A \subseteq Int, NEW k \in Int
  PROVE  /\ IsFiniteSet({i + k : i \in A})
         /\ Cardinality({i + k : i \in A}) = Cardinality(A)
  <1> DEFINE B == {i + k : i \in A}
             f == [i \in A |-> i + k]
  <1>1. f \in Bijection(A, B)
    <2>1. f \in [A -> B]
      OBVIOUS
    <2>2. \A x, y \in A : f[x] = f[y] => x = y
      OBVIOUS
    <2>3. \A y \in B : \E x \in A : f[x] = y
      OBVIOUS
    <2> QED
      BY <2>1, <2>2, <2>3 DEF Bijection, Injection, Surjection, IsInjective
  <1>2. ExistsBijection(A, B)
    BY <1>1 DEF ExistsBijection
  <1> QED
    BY <1>2, FS_Bijection

LEMMA FollowNat ==
  ASSUME NEW S, NEW t \in Seq(S), NEW j \in Nat
  PROVE  /\ Follow(t, j) \in Nat
         /\ IsFiniteSet({i \in (j + 1) .. Len(t) : t[i].act = "Barrier"})
  <1>1. IsFiniteSet((j + 1) .. Len(t))
    BY FS_Interval
  <1>2. IsFiniteSet({i \in (j + 1) .. Len(t) : t[i].act = "Barrier"})
    BY <1>1, FS_Subset
  <1> QED
    BY <1>2, FS_CardinalityType DEF Follow

LEMMA FollowCat ==
  ASSUME NEW S, NEW s \in Seq(S), NEW u \in Seq(S), NEW j \in Nat
  PROVE  /\ j <= Len(s) => Follow(s \o u, j) = Follow(s, j) + NB(u)
         /\ j >= Len(s) => Follow(s \o u, j) = Follow(u, j - Len(s))
  <1> DEFINE t == s \o u
             n == Len(s)
             A == {i \in (j + 1) .. n : s[i].act = "Barrier"}
             B(k) == {i \in (k + 1) .. Len(u) : u[i].act = "Barrier"}
             C == {i \in (j + 1) .. Len(t) : t[i].act = "Barrier"}
  <1>1. /\ n \in Nat /\ Len(u) \in Nat /\ Len(t) = n + Len(u)
        /\ \A i \in 1 .. n : t[i] = s[i]
        /\ \A i \in (n + 1) .. (n + Len(u)) : t[i] = u[i - n]
    OBVIOUS
  <1> HIDE DEF t, n
  <1>2. ASSUME j <= n PROVE Follow(t, j) = Follow(s, j) + NB(u)
    <2> DEFINE D == {i + n : i \in B(0)}
    <2>1. IsFiniteSet(A) /\ IsFiniteSet(B(0))
      BY FollowNat DEF n
    <2>2. IsFiniteSet(D) /\ Cardinality(D) = Cardinality(B(0))
      <3>1. B(0) \subseteq Int /\ n \in Int
        BY <1>1
      <3> HIDE DEF B
      <3> QED
        BY <2>1, <3>1, Shift
    <2>3. C = A \cup D /\ A \cap D = {}
      <3>1. ASSUME NEW i \in C PROVE i \in A \cup D
        <4>1. i \in Int /\ j + 1 <= i /\ i <= n + Len(u) /\ t[i].act = "Barrier"
          BY <1>1
        <4>2. CASE i <= n
          BY <1>1, <4>1, <4>2
        <4>3. CASE i > n
          <5>1. i - n \in B(0) /\ i = (i - n) + n
            BY <1>1, <4>1, <4>3
          <5> QED
            BY <5>1
        <4> QED
          BY <4>1, <4>2, <4>3, <1>1
      <3>2. ASSUME NEW i \in A PROVE i \in C /\ i \notin D
        BY <1>1
      <3>3. ASSUME NEW i \in B(0) PROVE i + n \in C
        BY <1>1, <1>2
      <3> QED
        BY <3>1, <3>2, <3>3
    <2>4. Cardinality(C) = Cardinality(A) + Cardinality(D)
      <3> HIDE DEF A, C, D
      <3>1. Cardinality(A \cup D)
              = Cardinality(A) + Cardinality(D) - Cardinality(A \cap D)
        BY <2>1, <2>2, FS_Union
      <3>2. Cardinality(A \cap D) = 0
        BY <2>3, FS_EmptySet
      <3>3. Cardinality(A) \in Nat /\ Cardinality(D) \in Nat
        BY <2>1, <2>2, FS_CardinalityType
      <3> QED
        BY <2>3, <3>1, <3>2, <3>3
    <2> QED
      BY <2>2, <2>4 DEF Follow, NB, n
  <1>3. ASSUME j >= n PROVE Follow(t, j) = Follow(u, j - n)
    <2> DEFINE D == {i + n : i \in B(j - n)}
    <2>0. j - n \in Nat
      BY <1>1, <1>3
    <2>1. IsFiniteSet(B(j - n))
      BY <2>0, FollowNat
    <2>2. Cardinality(D) = Cardinality(B(j - n))
      <3>1. B(j - n) \subseteq Int /\ n \in Int
        BY <1>1
      <3> HIDE DEF B
      <3> QED
        BY <2>1, <3>1, Shift
    <2>3. C = D
      <3>1. ASSUME NEW i \in C PROVE i \in D
        <4>1. i \in Int /\ j + 1 <= i /\ i <= n + Len(u) /\ t[i].act = "Barrier"
          BY <1>1
        <4>2. i - n \in B(j - n) /\ i = (i - n) + n
          BY <1>1, <1>3, <4>1
        <4> QED
          BY <4>2
      <3>2. ASSUME NEW i \in B(j - n) PROVE i + n \in C
        BY <1>1, <1>3
      <3> QED
        BY <3>1, <3>2
    <2> QED
      BY <2>2, <2>3 DEF Follow
  <1> QED
    BY <1>2, <1>3 DEF t, n

LEMMA NBOne ==
  ASSUME NEW st
  PROVE  NB(<<st>>) = (IF st.act = "Barrier" THEN 1 ELSE 0) /\ NB(<<>>) = 0
  <1> DEFINE A == {i \in 1 .. 1 : <<st>>[i].act = "Barrier"}
  <1>1. NB(<<st>>) = Cardinality(A) /\ NB(<<>>) = Cardinality({})
    BY DEF NB, Follow
  <1>2. A = IF st.act = "Barrier" THEN {1} ELSE {}
    OBVIOUS
  <1> QED
    BY <1>1, <1>2, FS_EmptySet, FS_Singleton

LEMMA NBCat ==
  ASSUME NEW S, NEW s \in Seq(S), NEW u \in Seq(S)
  PROVE  NB(s \o u) = NB(s) + NB(u) /\ NB(s) \in Nat
  <1>1. 0 \in Nat /\ 0 <= Len(s)
    OBVIOUS
  <1>2. Follow(s \o u, 0) = Follow(s, 0) + NB(u)
    BY <1>1, FollowCat
  <1>3. Follow(s, 0) \in Nat
    BY <1>1, FollowNat
  <1> QED
    BY <1>2, <1>3 DEF NB

LEMMA RngCat ==
  ASSUME NEW S, NEW s \in Seq(S), NEW u \in Seq(S)
  PROVE  /\ s \o u \in Seq(S) /\ Rng(s \o u) = Rng(s) \cup Rng(u)
         /\ Rng(s) \subseteq S
  <1>1. /\ Len(s) \in Nat /\ Len(u) \in Nat /\ Len(s \o u) = Len(s) + Len(u)
        /\ \A i \in 1 .. Len(s) : (s \o u)[i] = s[i]
        /\ \A i \in 1 .. Len(u) : (s \o u)[i + Len(s)] = u[i]
    OBVIOUS
  <1>2. ASSUME NEW i \in 1 .. Len(s \o u) PROVE (s \o u)[i] \in Rng(s) \cup Rng(u)
    <2>1. CASE i <= Len(s)
      BY <1>1, <2>1 DEF Rng
    <2>2. CASE i > Len(s)
      <3>1. i - Len(s) \in 1 .. Len(u) /\ i = (i - Len(s)) + Len(s)
        BY <1>1, <2>2
      <3>2. (s \o u)[i] = u[i - Len(s)]
        BY <1>1, <3>1
      <3> QED
        BY <3>1, <3>2 DEF Rng
    <2> QED
      BY <1>1, <2>1, <2>2
  <1>3. ASSUME NEW i \in 1 .. Len(s) PROVE s[i] \in Rng(s \o u)
    <2>1. i \in 1 .. Len(s \o u) /\ (s \o u)[i] = s[i]
      BY <1>1
    <2> QED
      BY <2>1 DEF Rng
  <1>4. ASSUME NEW i \in 1 .. Len(u) PROVE u[i] \in Rng(s \o u)
    <2>1. i + Len(s) \in 1 .. Len(s \o u) /\ (s \o u)[i + Len(s)] = u[i]
      BY <1>1
    <2> QED
      BY <2>1 DEF Rng
  <1>5. Rng(s \o u) = Rng(s) \cup Rng(u)
    BY <1>2, <1>3, <1>4 DEF Rng
  <1>6. s \o u \in Seq(S) /\ \A i \in 1 .. Len(s) : s[i] \in S
    OBVIOUS
  <1>7. Rng(s) \subseteq S
    BY <1>6 DEF Rng
  <1> QED
    BY <1>5, <1>6, <1>7

LEMMA RngOne ==
  ASSUME NEW st
  PROVE  Rng(<<st>>) = {st} /\ Rng(<<>>) = {}
  BY DEF Rng

LEMMA SpacedCat ==
  ASSUME NEW S, NEW s \in Seq(S), NEW u \in Seq(S), NEW k \in Nat,
         Spaced(s, k + NB(u)), Spaced(u, k)
  PROVE  Spaced(s \o u, k)
  <1>1. /\ Len(s) \in Nat /\ Len(u) \in Nat /\ Len(s \o u) = Len(s) + Len(u)
        /\ \A i \in 1 .. Len(s) : (s \o u)[i] = s[i]
        /\ \A i \in 1 .. Len(u) : (s \o u)[i + Len(s)] = u[i]
    OBVIOUS
  <1>2. NB(u) \in Nat
    BY NBCat
  <1> SUFFICES ASSUME NEW j \in 1 .. Len(s \o u)
               PROVE  SpacedAt((s \o u)[j], k + Follow(s \o u, j))
    BY DEF Spaced
  <1>3. CASE j <= Len(s)
    <2>1. j \in 1 .. Len(s) /\ j \in Nat
      BY <1>1, <1>3
    <2>2. Follow(s \o u, j) = Follow(s, j) + NB(u) /\ Follow(s, j) \in Nat
      BY <1>3, <2>1, FollowCat, FollowNat
    <2>3. SpacedAt(s[j], (k + NB(u)) + Follow(s, j))
      BY <2>1 DEF Spaced
    <2>4. (k + NB(u)) + Follow(s, j) = k + Follow(s \o u, j)
      BY <1>2, <2>2
    <2> QED
      BY <1>1, <2>1, <2>3, <2>4
  <1>4. CASE j > Len(s)
    <2>1. /\ j - Len(s) \in 1 .. Len(u) /\ j = (j - Len(s)) + Len(s)
          /\ j \in Nat /\ j >= Len(s)
      BY <1>1, <1>4
    <2>2. Follow(s \o u, j) = Follow(u, j - Len(s))
      BY <2>1, FollowCat
    <2>3. (s \o u)[j] = u[j - Len(s)]
      BY <1>1, <2>1
    <2>4. SpacedAt(u[j - Len(s)], k + Follow(u, j - Len(s)))
      BY <2>1 DEF Spaced
    <2> QED
      BY <2>2, <2>3, <2>4
  <1> QED
    BY <1>1, <1>3, <1>4

LEMMA SpacedOne ==
  ASSUME NEW st, NEW k \in Nat, SpacedAt(st, k)
  PROVE  Spaced(<<st>>, k)
  <1>1. Follow(<<st>>, 1) = 0
    <2>1. {i \in 2 .. 1 : <<st>>[i].act = "Barrier"} = {}
      OBVIOUS
    <2> QED
      BY <2>1, FS_EmptySet DEF Follow
  <1>2. \A j \in 1 .. Len(<<st>>) : j = 1 /\ <<st>>[j] = st
    OBVIOUS
  <1>3. k + Follow(<<st>>, 1) = k
    BY <1>1
  <1> QED
    BY <1>2, <1>3 DEF Spaced

LEMMA SpacedNil ==
  ASSUME NEW k \in Nat
  PROVE  Spaced(<<>>, k)
  BY DEF Spaced

LEMMA TailFacts ==
  ASSUME NEW S, NEW t \in Seq(S), t # <<>>
  PROVE  /\ Tail(t) \in Seq(S) /\ Head(t) = t[1] /\ Head(t) \in S
         /\ Len(t) \in Nat \ {0} /\ Len(Tail(t)) = Len(t) - 1
         /\ \A i \in 1 .. (Len(t) - 1) : Tail(t)[i] = t[i + 1]
         /\ Rng(t) = {Head(t)} \cup Rng(Tail(t))
         /\ NB(t) = (IF Head(t).act = "Barrier" THEN 1 ELSE 0) + NB(Tail(t))
         /\ NB(t) \in Nat /\ NB(Tail(t)) \in Nat
         /\ \A k \in Nat : Spaced(t, k) =>
               Spaced(Tail(t), k) /\ SpacedAt(Head(t), k + NB(Tail(t)))
  <1> DEFINE h == Head(t)
             r == Tail(t)
  <1>1. /\ r \in Seq(S) /\ h = t[1] /\ h \in S
        /\ Len(t) \in Nat \ {0} /\ Len(r) = Len(t) - 1
        /\ \A i \in 1 .. (Len(t) - 1) : r[i] = t[i + 1]
    OBVIOUS
  <1>2. <<h>> \in Seq(S) /\ Len(<<h>>) = 1
    BY <1>1
  <1>3. t = <<h>> \o r
    BY <1>1
  <1> HIDE DEF h, r
  <1>4. Rng(t) = Rng(<<h>>) \cup Rng(r)
    <2> DEFINE o == <<h>>
    <2>1. o \in Seq(S) /\ r \in Seq(S)
      BY <1>1, <1>2
    <2> HIDE DEF o
    <2>2. Rng(o \o r) = Rng(o) \cup Rng(r)
      BY <2>1, RngCat
    <2> QED
      BY <1>3, <2>2 DEF o
  <1>5. Rng(<<h>>) = {h}
    BY RngOne
  <1>6. NB(t) = NB(<<h>>) + NB(r)
    BY <1>1, <1>2, <1>3, NBCat
  <1>7. NB(r) \in Nat /\ NB(t) \in Nat
    BY <1>1, NBCat
  <1>8. NB(<<h>>) = IF h.act = "Barrier" THEN 1 ELSE 0
    BY NBOne
  <1>9. ASSUME NEW k \in Nat, Spaced(t, k)
        PROVE  Spaced(r, k) /\ SpacedAt(h, k + NB(r))
    <2>1. \A j \in Nat : Follow(t, j + 1) = Follow(r, j)
      <3> SUFFICES ASSUME NEW j \in Nat PROVE Follow(t, j + 1) = Follow(r, j)
        OBVIOUS
      <3>1. j + 1 \in Nat /\ j + 1 >= Len(<<h>>) /\ (j + 1) - Len(<<h>>) = j
        BY <1>2
      <3>2. Follow(<<h>> \o r, j + 1) = Follow(r, (j + 1) - Len(<<h>>))
        BY <1>1, <1>2, <3>1, FollowCat
      <3> QED
        BY <1>3, <3>1, <3>2
    <2>2. 1 \in 1 .. Len(t)
      BY <1>1
    <2>3. Follow(t, 1) = NB(r)
      <3>1. Follow(t, 0 + 1) = Follow(r, 0)
        BY <2>1
      <3> QED
        BY <3>1 DEF NB
    <2>4. SpacedAt(h, k + NB(r))
      BY <1>1, <1>9, <2>2, <2>3 DEF Spaced
    <2>5. ASSUME NEW j \in 1 .. Len(r) PROVE SpacedAt(r[j], k + Follow(r, j))
      <3>1. j \in Nat /\ j + 1 \in 1 .. Len(t) /\ r[j] = t[j + 1]
        BY <1>1
      <3>2. SpacedAt(t[j + 1], k + Follow(t, j + 1))
        BY <1>9, <3>1 DEF Spaced
      <3> QED
        BY <2>1, <3>1, <3>2
    <2> QED
      BY <2>4, <2>5 DEF Spaced
  <1> QED
    BY <1>1, <1>4, <1>5, <1>6, <1>7, <1>8, <1>9 DEF h, r

----------------------------------------------------------------------------
(* The constructors of a server. *)

Get(T) == Step("GetInstance", T)

Collective == Step("Barrier", "MPI_COMM_WORLD")

(* What the steps of a set build. *)
Cover(R) ==
    {T \in Types : \E st \in R : st.act = "GetInstance" /\ T \in Upto(st.on) \cup {st.on}}

(* Every singleton that another one has to precede is preceded by it, or    *)
(* that one is among A.                                                     *)
Ordered(c, A) ==
    \A j \in 1 .. Len(c) : \A e \in Earlier : c[j] = Get(e[2]) =>
        e[1] \in A \/ \E i \in 1 .. (j - 1) : Ahead(c[i], Get(e[1]))

(* c has n collectives and the steps R; k collectives follow it. *)
Fits(p, c, k, n, A, R) ==
    /\ c \in Seq(Steps(p)) /\ NB(c) = n /\ Rng(c) = R
    /\ Spaced(c, k) /\ Ordered(c, A)

LEMMA OrderedCat ==
  ASSUME NEW S, NEW s \in Seq(S), NEW u \in Seq(S), NEW A, NEW B,
         Ordered(s, A), Ordered(u, B), B \subseteq A \cup Cover(Rng(s))
  PROVE  Ordered(s \o u, A)
  <1>1. /\ Len(s) \in Nat /\ Len(u) \in Nat /\ Len(s \o u) = Len(s) + Len(u)
        /\ \A i \in 1 .. Len(s) : (s \o u)[i] = s[i]
        /\ \A i \in 1 .. Len(u) : (s \o u)[i + Len(s)] = u[i]
    OBVIOUS
  <1> DEFINE t == s \o u
  <1> HIDE DEF t
  <1> SUFFICES ASSUME NEW j \in 1 .. Len(t), NEW e \in Earlier, t[j] = Get(e[2]), e[1] \notin A
               PROVE  \E i \in 1 .. (j - 1) : Ahead(t[i], Get(e[1]))
    BY DEF Ordered, t
  <1>2. CASE j <= Len(s)
    <2>1. j \in 1 .. Len(s) /\ s[j] = Get(e[2])
      BY <1>1, <1>2 DEF t
    <2>2. PICK i \in 1 .. (j - 1) : Ahead(s[i], Get(e[1]))
      BY <2>1 DEF Ordered
    <2>3. t[i] = s[i]
      BY <1>1, <1>2 DEF t
    <2> QED
      BY <2>2, <2>3
  <1>3. CASE j > Len(s)
    <2> DEFINE n == j - Len(s)
    <2>1. n \in 1 .. Len(u) /\ j = n + Len(s)
      BY <1>1, <1>3 DEF t
    <2>2. u[n] = Get(e[2])
      BY <1>1, <2>1 DEF t
    <2>3. CASE e[1] \notin B
      <3>1. PICK i \in 1 .. (n - 1) : Ahead(u[i], Get(e[1]))
        BY <2>1, <2>2, <2>3 DEF Ordered
      <3>2. i \in 1 .. Len(u) /\ i + Len(s) \in 1 .. (j - 1)
        BY <1>1, <2>1
      <3>3. t[i + Len(s)] = u[i]
        BY <1>1, <3>2 DEF t
      <3> QED
        BY <3>1, <3>2, <3>3
    <2>4. CASE e[1] \in B
      <3>1. e[1] \in Cover(Rng(s))
        BY <2>4
      <3>2. PICK i \in 1 .. Len(s) : s[i].act = "GetInstance" /\ e[1] \in Upto(s[i].on) \cup {s[i].on}
        BY <3>1 DEF Cover, Rng
      <3>3. Ahead(s[i], Get(e[1]))
        BY <3>2 DEF Ahead, Get, Step
      <3>4. i \in 1 .. (j - 1) /\ t[i] = s[i]
        BY <1>1, <1>3 DEF t
      <3> QED
        BY <3>3, <3>4
    <2> QED
      BY <2>3, <2>4
  <1> QED
    BY <1>1, <1>2, <1>3 DEF t

LEMMA FitsCat ==
  ASSUME NEW p, NEW s, NEW u, NEW k1 \in Nat, NEW k \in Nat, NEW n1, NEW n2, NEW n,
         NEW A, NEW B, NEW R1, NEW R2,
         Fits(p, s, k1, n1, A, R1), Fits(p, u, k, n2, B, R2),
         k1 = k + n2, n = n1 + n2, B \subseteq A \cup Cover(R1)
  PROVE  Fits(p, s \o u, k, n, A, R1 \cup R2)
  <1>1. s \in Seq(Steps(p)) /\ u \in Seq(Steps(p)) /\ s \o u \in Seq(Steps(p))
    BY DEF Fits
  <1>2. NB(s \o u) = NB(s) + NB(u)
    BY <1>1, NBCat
  <1>3. Rng(s \o u) = Rng(s) \cup Rng(u)
    BY <1>1, RngCat
  <1>4. Spaced(s \o u, k)
    <2>1. Spaced(s, k + NB(u)) /\ Spaced(u, k)
      BY DEF Fits
    <2> QED
      BY <1>1, <2>1, SpacedCat
  <1>5. Ordered(s \o u, A)
    <2>1. Ordered(s, A) /\ Ordered(u, B) /\ B \subseteq A \cup Cover(Rng(s))
      BY DEF Fits
    <2> QED
      BY <1>1, <2>1, OrderedCat
  <1> QED
    BY <1>1, <1>2, <1>3, <1>4, <1>5 DEF Fits

LEMMA FitsJoin ==
  ASSUME NEW p, NEW s, NEW u, NEW k1 \in Nat, NEW k \in Nat, NEW n1, NEW n2, NEW n,
         NEW A, NEW R1, NEW R2, Fits(p, s, k1, n1, A, R1), Fits(p, u, k, n2, A, R2),
         k1 = k + n2, n = n1 + n2
  PROVE  Fits(p, s \o u, k, n, A, R1 \cup R2)
  <1>1. A \subseteq A \cup Cover(R1)
    OBVIOUS
  <1> QED
    BY <1>1, FitsCat

LEMMA FitsOne ==
  ASSUME NEW p, NEW st \in Steps(p), NEW k \in Nat, SpacedAt(st, k),
         NEW A, \A e \in Earlier : st = Get(e[2]) => e[1] \in A
  PROVE  /\ Fits(p, <<st>>, k, IF st.act = "Barrier" THEN 1 ELSE 0, A, {st})
         /\ Fits(p, <<>>, k, 0, A, {})
  <1>1. Ordered(<<st>>, A) /\ Ordered(<<>>, A)
    BY DEF Ordered
  <1>2. Spaced(<<st>>, k) /\ Spaced(<<>>, k)
    BY SpacedOne, SpacedNil
  <1>3. /\ NB(<<st>>) = (IF st.act = "Barrier" THEN 1 ELSE 0) /\ NB(<<>>) = 0
        /\ Rng(<<st>>) = {st} /\ Rng(<<>>) = {}
    BY NBOne, RngOne
  <1> QED
    BY <1>1, <1>2, <1>3 DEF Fits

LEMMA Flat ==
  ASSUME NEW g, NEW N \in Nat \ {0}, Len(g) = N
  PROVE  \E f : /\ f[1] = g[1]
                /\ \A i \in 2 .. N : f[i] = f[i - 1] \o g[i]
                /\ SeqsExt!FlattenSeq(g) = f[N]
  <1> DEFINE P(f, n) == f = [i \in 1 .. n |-> IF i = 1 THEN g[i] ELSE f[i - 1] \o g[i]]
             T == {n \in Nat : ~\E f : P(f, n)}
  <1>1. T = {}
    <2> SUFFICES ASSUME T # {} PROVE FALSE
      OBVIOUS
    <2>1. T \subseteq Nat
      OBVIOUS
    <2>2. PICK n \in T : \A m \in T : n <= m
      BY <2>1, Least
    <2>3. n \in Nat /\ ~\E f : P(f, n)
      OBVIOUS
    <2>4. CASE n = 0
      <3> DEFINE f == [i \in 1 .. 0 |-> 0]
      <3>1. P(f, 0)
        OBVIOUS
      <3> QED
        BY <2>3, <2>4, <3>1
    <2>5. CASE n # 0
      <3>1. n - 1 \in Nat /\ ~(n <= n - 1)
        BY <2>3, <2>5
      <3>2. n - 1 \notin T
        BY <2>2, <3>1
      <3>3. PICK h : P(h, n - 1)
        BY <3>1, <3>2
      <3> DEFINE F(i) == IF i = 1 THEN g[i] ELSE h[i - 1] \o g[i]
                 f == [i \in 1 .. n |-> F(i)]
      <3>4. ASSUME NEW i \in 1 .. n, i # 1 PROVE h[i - 1] = f[i - 1]
        <4>1. i - 1 \in 1 .. (n - 1) /\ i - 1 \in 1 .. n
          BY <2>3, <3>4
        <4> DEFINE m == i - 1
        <4>2. h[m] = F(m)
          BY <3>3, <4>1
        <4>3. f[m] = F(m)
          BY <4>1
        <4> QED
          BY <4>2, <4>3
      <3>5. \A i \in 1 .. n : F(i) = IF i = 1 THEN g[i] ELSE f[i - 1] \o g[i]
        BY <3>4
      <3>6. P(f, n)
        <4>1. f = [i \in 1 .. n |-> F(i)]
          OBVIOUS
        <4> HIDE DEF F, f
        <4> QED
          BY <3>5, <4>1
      <3> QED
        BY <2>3, <3>6
    <2> QED
      BY <2>4, <2>5
  <1> DEFINE f == CHOOSE f : P(f, N)
  <1>2. P(f, N)
    <2>1. N \in Nat /\ N \notin T
      BY <1>1
    <2>2. \E h : P(h, N)
      BY <2>1
    <2> QED
      BY <2>2
  <1>3. SeqsExt!FlattenSeq(g) = f[N]
    BY DEF SeqsExt!FlattenSeq
  <1> HIDE DEF f
  <1>4. f[1] = g[1] /\ \A i \in 2 .. N : f[i] = f[i - 1] \o g[i]
    <2>1. 1 \in 1 .. N /\ \A i \in 2 .. N : i \in 1 .. N /\ i # 1
      OBVIOUS
    <2> QED
      BY <1>2, <2>1
  <1> QED
    BY <1>3, <1>4

LEMMA ServerSteps ==
  ASSUME NEW p \in Servers
  PROVE  /\ Collective \in Steps(p) /\ Step("Run", "RPC") \in Steps(p)
         /\ \A T \in Types : Get(T) \in Steps(p) /\ Step("Set", T) \in Steps(p)
         /\ \A x \in Names : Step("Create", x) \in Steps(p)
         /\ \A x \in Bindable : Step("Bind", x) \in Steps(p)
  <1>1. p.server
    BY DEF Servers
  <1> QED
    BY <1>1 DEF Steps, StepOK, Step, Collective, Get, Acts, Things, Types

(* The pieces that the constructors are made of. *)
LEMMA Pieces ==
  ASSUME NEW p \in Servers, NEW k \in Nat, NEW A
  PROVE  /\ Fits(p, Barrier, k, 1, A, {Collective})
         /\ Fits(p, <<Step("Run", "RPC")>>, k, 0, A, {Step("Run", "RPC")})
         /\ Fits(p, <<>>, k, 0, A, {})
         /\ \A T \in Types :
               k >= 2 /\ (T \in Top => k = 2) /\ (\A e \in Earlier : e[2] = T => e[1] \in A)
               => Fits(p, GetInstance(T), k, 0, A, {Get(T)})
         /\ \A x \in Names : k >= 3 => Fits(p, Create(x), k, 0, A, {Step("Create", x)})
         /\ \A x \in Bindable :
               k >= 4 \/ x \in {"LOCAL_FILE_CLIENT", "MEMORY_CLIENT"}
               => Fits(p, Bind(x), k, 0, A, {Step("Bind", x)})
  <1>1. ASSUME NEW a, NEW x, Step(a, x) \in Steps(p), SpacedAt(Step(a, x), k),
               a # "GetInstance" \/ \A e \in Earlier : e[2] = x => e[1] \in A
        PROVE  /\ Fits(p, <<Step(a, x)>>, k, IF a = "Barrier" THEN 1 ELSE 0, A, {Step(a, x)})
               /\ Fits(p, <<>>, k, 0, A, {})
    <2> DEFINE st == Step(a, x)
    <2>1. st.act = a /\ st.on = x
      BY DEF Step
    <2>2. \A e \in Earlier : st = Get(e[2]) => e[1] \in A
      BY <1>1, <2>1 DEF Get, Step
    <2> HIDE DEF st
    <2>3. st \in Steps(p) /\ SpacedAt(st, k)
      BY <1>1 DEF st
    <2>4. Fits(p, <<st>>, k, IF st.act = "Barrier" THEN 1 ELSE 0, A, {st})
            /\ Fits(p, <<>>, k, 0, A, {})
      BY <2>2, <2>3, FitsOne
    <2> QED
      BY <2>1, <2>4 DEF st
  <1>2. Fits(p, Barrier, k, 1, A, {Collective}) /\ Fits(p, <<>>, k, 0, A, {})
    <2>1. Collective \in Steps(p) /\ SpacedAt(Collective, k)
      BY ServerSteps DEF SpacedAt, Collective, Step
    <2> QED
      BY <1>1, <2>1 DEF Collective, Barrier
  <1>3. Fits(p, <<Step("Run", "RPC")>>, k, 0, A, {Step("Run", "RPC")})
    <2>1. Step("Run", "RPC") \in Steps(p) /\ SpacedAt(Step("Run", "RPC"), k)
      BY ServerSteps DEF SpacedAt, Step
    <2> QED
      BY <1>1, <2>1
  <1>4. ASSUME NEW T \in Types, k >= 2, T \in Top => k = 2,
               \A e \in Earlier : e[2] = T => e[1] \in A
        PROVE  Fits(p, GetInstance(T), k, 0, A, {Get(T)})
    <2>1. Get(T) \in Steps(p) /\ SpacedAt(Get(T), k)
      BY <1>4, ServerSteps DEF SpacedAt, Get, Step
    <2> QED
      BY <1>1, <1>4, <2>1 DEF Get, GetInstance
  <1>5. ASSUME NEW x \in Names, k >= 3
        PROVE  Fits(p, Create(x), k, 0, A, {Step("Create", x)})
    <2>1. Step("Create", x) \in Steps(p) /\ SpacedAt(Step("Create", x), k)
      BY <1>5, ServerSteps DEF SpacedAt, Step
    <2> QED
      BY <1>1, <2>1 DEF Create
  <1>6. ASSUME NEW x \in Bindable, k >= 4 \/ x \in {"LOCAL_FILE_CLIENT", "MEMORY_CLIENT"}
        PROVE  Fits(p, Bind(x), k, 0, A, {Step("Bind", x)})
    <2>1. Step("Bind", x) \in Steps(p) /\ SpacedAt(Step("Bind", x), k)
      BY <1>6, ServerSteps DEF SpacedAt, Step
    <2> QED
      BY <1>1, <2>1 DEF Bind
  <1> QED
    BY <1>2, <1>3, <1>4, <1>5, <1>6

(* What the constructor of shared structures with the names X does. *)
Shared(X) ==
    {Get("RPC"), Collective} \cup {Step("Create", x) : x \in X} \cup {Step("Bind", x) : x \in X}

LEMMA StructureFits ==
  ASSUME NEW p \in Servers, NEW x \in Names \ {"RPC_SERVER_LIST"}, NEW k \in Nat, k >= 2, NEW A
  PROVE  /\ Fits(p, DistributedHashMap(p, x), k, 2, A, Shared({x}))
         /\ Fits(p, GlobalSequence(p, x), k, 2, A, Shared({x}))
  <1> DEFINE k1 == k + 1
             k2 == k + 2
             g == GetInstance("RPC")
             cr == Create(x)
             b == Bind(x)
             C == Step("Create", x)
             B == Step("Bind", x)
  <1>1. /\ k1 \in Nat /\ k2 \in Nat /\ k2 >= 4 /\ k2 >= 3 /\ k2 >= 2
        /\ k2 = k2 + 0 /\ k2 = k1 + 1 /\ k1 = k1 + 0 /\ k1 = k + 1
        /\ 0 = 0 + 0 /\ 1 = 0 + 1 /\ 1 = 1 + 0 /\ 2 = 1 + 1
    OBVIOUS
  <1>2. /\ "RPC" \in Types /\ "RPC" \notin Top /\ \A e \in Earlier : e[2] # "RPC"
        /\ x \in Bindable /\ x \in Names
    BY DEF Types, Top, Earlier, Bindable
  <1> HIDE DEF k1, k2
  <1>3. /\ Fits(p, g, k2, 0, A, {Get("RPC")})
        /\ Fits(p, cr, k2, 0, A, {C}) /\ Fits(p, b, k2, 0, A, {B})
    BY <1>1, <1>2, Pieces
  <1>4. /\ Fits(p, Barrier, k1, 1, A, {Collective}) /\ Fits(p, <<>>, k1, 0, A, {})
        /\ Fits(p, Barrier, k, 1, A, {Collective})
    BY <1>1, Pieces
  <1> DEFINE nil == <<>>
  <1>5. Fits(p, nil, k1, 0, A, {})
    BY <1>4
  <1> HIDE DEF g, cr, b, C, B, nil
  <1>6. ASSUME NEW y, NEW R, Fits(p, y, k2, 0, A, R), R = {C, B}
        PROVE  Fits(p, g \o y \o Barrier \o nil \o Barrier, k, 2, A, Shared({x}))
    <2> DEFINE s1 == g \o y
               s2 == s1 \o Barrier
               s3 == s2 \o nil
    <2>1. Fits(p, s1, k2, 0, A, {Get("RPC")} \cup R)
      BY <1>1, <1>3, <1>6, FitsJoin
    <2> HIDE DEF s1
    <2>2. Fits(p, s2, k1, 1, A, {Get("RPC")} \cup R \cup {Collective})
      BY <1>1, <1>4, <2>1, FitsJoin
    <2> HIDE DEF s2
    <2>3. Fits(p, s3, k1, 1, A, {Get("RPC")} \cup R \cup {Collective} \cup {})
      BY <1>1, <1>5, <2>2, FitsJoin
    <2> HIDE DEF s3
    <2>4. Fits(p, s3 \o Barrier, k, 2, A,
               {Get("RPC")} \cup R \cup {Collective} \cup {} \cup {Collective})
      BY <1>1, <1>4, <2>3, FitsJoin
    <2>5. {Get("RPC")} \cup R \cup {Collective} \cup {} \cup {Collective} = Shared({x})
      BY <1>6 DEF Shared, C, B
    <2> QED
      BY <2>4, <2>5 DEF s1, s2, s3
  <1>7. /\ Fits(p, cr \o b, k2, 0, A, {C} \cup {B})
        /\ Fits(p, b \o cr, k2, 0, A, {B} \cup {C})
    BY <1>1, <1>3, FitsJoin
  <1>8. p.server
    BY DEF Servers
  <1>9. /\ DistributedHashMap(p, x) = g \o (cr \o b) \o Barrier \o nil \o Barrier
        /\ GlobalSequence(p, x) = g \o (b \o cr) \o Barrier \o nil \o Barrier
    BY <1>8 DEF DistributedHashMap, GlobalSequence, If, g, cr, b, nil
  <1> QED
    BY <1>6, <1>7, <1>9

OffsetNames == {OffsetMaps[i] : i \in 1 .. Len(OffsetMaps)}

LEMMA OffsetsFit ==
  ASSUME NEW p \in Servers, NEW k \in Nat, k >= 2, NEW A
  PROVE  \E R : /\ Fits(p, Offsets(p), k, 2 * Len(OffsetMaps), A, R)
                /\ R \cup Shared({}) = Shared(OffsetNames)
  <1> DEFINE N == Len(OffsetMaps)
             g == [i \in DOMAIN OffsetMaps |-> DistributedMap(p, OffsetMaps[i])]
             X(i) == {OffsetMaps[j] : j \in 1 .. i}
  <1>1. N \in Nat /\ DOMAIN OffsetMaps = 1 .. N
    BY CountAssumption
  <1>2. Offsets(p) = SeqsExt!FlattenSeq(g)
    BY DEF Offsets
  <1>3. CASE N = 0
    <2>1. g = <<>>
      BY <1>1, <1>3
    <2>2. SeqsExt!FlattenSeq(g) = <<>>
      BY <2>1 DEF SeqsExt!FlattenSeq
    <2>3. Fits(p, <<>>, k, 0, A, {})
      BY Pieces
    <2>4. {} \cup Shared({}) = Shared(OffsetNames) /\ 2 * N = 0
      BY <1>3 DEF Shared, OffsetNames
    <2> QED
      BY <1>2, <2>2, <2>3, <2>4
  <1>4. CASE N # 0
    <2>1. N \in Nat \ {0} /\ Len(g) = N
      BY <1>1, <1>4
    <2>2. PICK f : /\ f[1] = g[1]
                   /\ \A i \in 2 .. N : f[i] = f[i - 1] \o g[i]
                   /\ SeqsExt!FlattenSeq(g) = f[N]
      <3> HIDE DEF g, N
      <3> QED
        BY <2>1, Flat
    <2> DEFINE Q(i) == \A n \in Nat : n >= 2 => Fits(p, f[i], n, 2 * i, A, Shared(X(i)))
               Bad == {i \in 1 .. N : ~Q(i)}
    <2>3. ASSUME NEW i \in 1 .. N, NEW n \in Nat, n >= 2
          PROVE  Fits(p, g[i], n, 2, A, Shared({OffsetMaps[i]}))
      <3>1. OffsetMaps[i] \in Names \ {"RPC_SERVER_LIST"}
        BY <1>1, CountAssumption DEF Names
      <3>2. Fits(p, DistributedHashMap(p, OffsetMaps[i]), n, 2, A, Shared({OffsetMaps[i]}))
        BY <2>3, <3>1, StructureFits
      <3> QED
        BY <1>1, <3>2 DEF DistributedMap
    <2>4. Bad = {}
      <3> SUFFICES ASSUME Bad # {} PROVE FALSE
        OBVIOUS
      <3>1. Bad \subseteq Nat
        BY <1>1
      <3>2. PICK i \in Bad : \A j \in Bad : i <= j
        <4> HIDE DEF Bad
        <4> QED
          BY <3>1, Least
      <3>3. i \in 1 .. N /\ ~Q(i)
        OBVIOUS
      <3>4. PICK n \in Nat : n >= 2 /\ ~Fits(p, f[i], n, 2 * i, A, Shared(X(i)))
        BY <3>3
      <3>5. CASE i = 1
        <4>1. X(i) = {OffsetMaps[i]} /\ 2 * i = 2
          BY <3>5
        <4> QED
          BY <2>2, <2>3, <3>3, <3>4, <3>5, <4>1
      <3>6. CASE i # 1
        <4> DEFINE j == i - 1
                   a == n + 2
        <4>1. /\ i \in 2 .. N /\ j \in 1 .. N /\ ~(i <= j)
              /\ a \in Nat /\ a >= 2 /\ a = n + 2 /\ 2 * i = 2 * j + 2
          BY <1>1, <3>3, <3>4, <3>6
        <4>2. Q(j)
          <5>1. j \notin Bad
            BY <3>2, <4>1
          <5> QED
            BY <4>1, <5>1
        <4>3. Fits(p, f[j], a, 2 * j, A, Shared(X(j)))
          BY <4>1, <4>2
        <4>4. f[i] = f[j] \o g[i]
          BY <2>2, <4>1
        <4>5. Fits(p, g[i], n, 2, A, Shared({OffsetMaps[i]}))
          BY <2>3, <3>3, <3>4
        <4>6. Shared(X(j)) \cup Shared({OffsetMaps[i]}) = Shared(X(i))
          <5>1. X(i) = X(j) \cup {OffsetMaps[i]}
            BY <1>1, <4>1
          <5> HIDE DEF X
          <5> QED
            BY <5>1 DEF Shared
        <4> HIDE DEF g, j, a, X
        <4>7. Fits(p, f[j] \o g[i], n, 2 * i, A, Shared(X(j)) \cup Shared({OffsetMaps[i]}))
          BY <4>1, <4>3, <4>5, FitsJoin
        <4> QED
          BY <3>4, <4>4, <4>6, <4>7
      <3> QED
        BY <3>5, <3>6
    <2>5. Q(N)
      <3>1. N \in 1 .. N /\ N \notin Bad
        BY <2>1, <2>4
      <3> QED
        BY <3>1
    <2>6. Fits(p, Offsets(p), k, 2 * N, A, Shared(X(N)))
      BY <1>2, <2>2, <2>5
    <2>7. Shared(X(N)) \cup Shared({}) = Shared(OffsetNames)
      BY DEF Shared, OffsetNames
    <2> QED
      BY <2>6, <2>7
  <1> QED
    BY <1>3, <1>4

Calls(p) == {st \in Steps(p) : st.act = "Call"}

LEMMA ScoresFit ==
  ASSUME NEW p \in Servers, p.rank = 0, NEW A
  PROVE  Fits(p, PutScores, 3, 0, A, Rng(PutScores)) /\ Rng(PutScores) \subseteq Calls(p)
  <1> DEFINE N == NumLayers
             g == [l \in 1 .. N |-> PutScore(l)]
  <1>1. N \in Nat \ {0} /\ Len(g) = N /\ NumServers \in Nat \ {0}
    BY CountAssumption
  <1>2. PICK f : /\ f[1] = g[1]
                 /\ \A i \in 2 .. N : f[i] = f[i - 1] \o g[i]
                 /\ SeqsExt!FlattenSeq(g) = f[N]
    <2>1. N \in Nat \ {0} /\ Len(g) = N
      BY <1>1
    <2> HIDE DEF N, g
    <2> QED
      BY ONLY <2>1, Flat
  <1> DEFINE Q(s) == \E R \in SUBSET Calls(p) : Fits(p, s, 3, 0, A, R)
             Bad == {i \in 1 .. N : ~Q(f[i])}
  <1>3. ASSUME NEW i \in 1 .. N PROVE Q(g[i])
    <2> DEFINE st == [Step("Call", "LAYER_SCORE_MAP") EXCEPT !.at = i % NumServers]
    <2>1. i % NumServers \in Nat /\ i % NumServers \in Ranks
      BY <1>1 DEF Ranks
    <2>2. st = [act |-> "Call", on |-> "LAYER_SCORE_MAP", at |-> i % NumServers]
      BY DEF Step
    <2>3. st \in Steps(p) /\ st.act = "Call"
      BY <2>1, <2>2 DEF Steps, StepOK, Acts, Things, Names, Servers
    <2>4. SpacedAt(st, 3) /\ \A e \in Earlier : st # Get(e[2])
      BY <2>2 DEF SpacedAt, Get, Step
    <2>5. g[i] = <<st>> \/ g[i] = <<>>
      BY DEF PutScore, If
    <2> HIDE DEF st, g
    <2>6. Fits(p, <<st>>, 3, 0, A, {st}) /\ Fits(p, <<>>, 3, 0, A, {})
      <3>1. /\ Fits(p, <<st>>, 3, IF st.act = "Barrier" THEN 1 ELSE 0, A, {st})
            /\ Fits(p, <<>>, 3, 0, A, {})
        BY <2>3, <2>4, FitsOne
      <3> QED
        BY <2>3, <3>1
    <2>7. {st} \in SUBSET Calls(p) /\ {} \in SUBSET Calls(p)
      BY <2>3 DEF Calls
    <2> QED
      BY <2>5, <2>6, <2>7
  <1>4. Bad = {}
    <2> SUFFICES ASSUME Bad # {} PROVE FALSE
      OBVIOUS
    <2>1. Bad \subseteq Nat
      BY <1>1
    <2>2. PICK i \in Bad : \A j \in Bad : i <= j
      <3> HIDE DEF Bad
      <3> QED
        BY <2>1, Least
    <2>3. i \in 1 .. N /\ ~Q(f[i])
      OBVIOUS
    <2>4. CASE i = 1
      BY <1>2, <1>3, <2>3, <2>4
    <2>5. CASE i # 1
      <3> DEFINE j == i - 1
      <3>1. /\ i \in 2 .. N /\ j \in 1 .. N /\ ~(i <= j)
        BY <1>1, <2>3, <2>5
      <3>2. Q(f[j]) /\ Q(g[i])
        BY <1>3, <2>2, <3>1
      <3>3. PICK R1 \in SUBSET Calls(p) : Fits(p, f[j], 3, 0, A, R1)
        BY <3>2
      <3>4. PICK R2 \in SUBSET Calls(p) : Fits(p, g[i], 3, 0, A, R2)
        BY <3>2
      <3>5. 3 \in Nat /\ 3 = 3 + 0 /\ 0 = 0 + 0
        OBVIOUS
      <3>6. f[i] = f[j] \o g[i]
        BY <1>2, <3>1
      <3> HIDE DEF g, j
      <3>7. Fits(p, f[j] \o g[i], 3, 0, A, R1 \cup R2)
        BY <3>3, <3>4, <3>5, FitsJoin
      <3>8. R1 \cup R2 \in SUBSET Calls(p)
        OBVIOUS
      <3> QED
        BY <2>3, <3>6, <3>7, <3>8
    <2> QED
      BY <2>4, <2>5
  <1>5. Q(f[N])
    BY <1>1, <1>4
  <1>6. PutScores = f[N]
    BY <1>2 DEF PutScores
  <1> QED
    BY <1>5, <1>6 DEF Fits

LEMMA GetFits ==
  ASSUME NEW p \in Servers, NEW k \in Nat, k >= 2, NEW A
  PROVE  /\ \A T \in {"RPC", "IOClientFactory", "DPEFactory"} \cup Clients :
               Fits(p, GetInstance(T), k, 0, A, {Get(T)})
         /\ k = 2 => Fits(p, GetInstance("EventManager"), k, 0, A, {Get("EventManager")})
         /\ k = 2 /\ "IOClientFactory" \in A =>
               /\ Fits(p, GetInstance("FileSegmentAuditor"), k, 0, A, {Get("FileSegmentAuditor")})
               /\ Fits(p, GetInstance("MaxBandwidthDPE"), k, 0, A, {Get("MaxBandwidthDPE")})
         /\ k = 2 /\ "FileSegmentAuditor" \in A =>
               Fits(p, GetInstance("DataManager"), k, 0, A, {Get("DataManager")})
         /\ k = 2 /\ "EventManager" \in A =>
               Fits(p, GetInstance("HardwareMonitor"), k, 0, A, {Get("HardwareMonitor")})
  <1>1. ASSUME NEW T \in Types, T \in Top => k = 2, \A e \in Earlier : e[2] = T => e[1] \in A
        PROVE  Fits(p, GetInstance(T), k, 0, A, {Get(T)})
    BY <1>1, Pieces
  <1>2. \A e \in Earlier :
          \/ e = <<"EventManager", "HardwareMonitor">>
          \/ e = <<"IOClientFactory", "FileSegmentAuditor">>
          \/ e = <<"FileSegmentAuditor", "DataManager">>
          \/ e = <<"IOClientFactory", "MaxBandwidthDPE">>
    BY DEF Earlier
  <1>3. ASSUME NEW T \in {"RPC", "IOClientFactory", "DPEFactory"} \cup Clients
        PROVE  Fits(p, GetInstance(T), k, 0, A, {Get(T)})
    <2>1. T \in Types /\ T \notin Top /\ \A e \in Earlier : e[2] # T
      BY <1>2 DEF Types, Top, Clients
    <2> QED
      BY <1>1, <2>1
  <1>4. ASSUME k = 2
        PROVE  Fits(p, GetInstance("EventManager"), k, 0, A, {Get("EventManager")})
    <2>1. "EventManager" \in Types /\ \A e \in Earlier : e[2] # "EventManager"
      BY <1>2 DEF Types
    <2> QED
      BY <1>1, <1>4, <2>1
  <1>5. ASSUME k = 2, "IOClientFactory" \in A, NEW T \in {"FileSegmentAuditor", "MaxBandwidthDPE"}
        PROVE  Fits(p, GetInstance(T), k, 0, A, {Get(T)})
    <2>1. T \in Types /\ \A e \in Earlier : e[2] = T => e[1] = "IOClientFactory"
      BY <1>2 DEF Types
    <2> QED
      BY <1>1, <1>5, <2>1
  <1>6. ASSUME k = 2, "FileSegmentAuditor" \in A
        PROVE  Fits(p, GetInstance("DataManager"), k, 0, A, {Get("DataManager")})
    <2>1. "DataManager" \in Types
            /\ \A e \in Earlier : e[2] = "DataManager" => e[1] = "FileSegmentAuditor"
      BY <1>2 DEF Types
    <2> QED
      BY <1>1, <1>6, <2>1
  <1>7. ASSUME k = 2, "EventManager" \in A
        PROVE  Fits(p, GetInstance("HardwareMonitor"), k, 0, A, {Get("HardwareMonitor")})
    <2>1. "HardwareMonitor" \in Types
            /\ \A e \in Earlier : e[2] = "HardwareMonitor" => e[1] = "EventManager"
      BY <1>2 DEF Types
    <2> QED
      BY <1>1, <1>7, <2>1
  <1> QED
    BY <1>3, <1>4, <1>5, <1>6, <1>7

LEMMA CoverHas ==
  ASSUME NEW R, NEW U, Get(U) \in R, NEW V \in Types, V \in Upto(U) \cup {U}
  PROVE  V \in Cover(R)
  BY DEF Cover, Get, Step

LEMMA GroupRPC ==
  ASSUME NEW p \in Servers, NEW k \in Nat, k >= 3, NEW A
  PROVE  Fits(p, Barrier \o Create("RPC_SERVER_LIST"), k, 1, A, {Collective, Step("Create", "RPC_SERVER_LIST")})
  <1> DEFINE a1 == Barrier
             a2 == Create("RPC_SERVER_LIST")
             k1 == k + 0
             k2 == k + 0
             R1 == {Collective}
             R2 == {Step("Create", "RPC_SERVER_LIST")}
             n1 == 1
             n2 == 1
  <1>1. /\ k1 \in Nat /\ k1 >= 2
        /\ k2 \in Nat /\ k2 >= 3
        /\ k1 = k2 + 0
        /\ n2 = n1 + 0
        /\ k1 = k
        /\ k2 = k
        /\ n2 = 1
        /\ n1 = 1
    OBVIOUS
  <1> HIDE DEF k1, k2, n1, n2
  <1>2. Fits(p, a1, k1, 1, A, R1)
    BY <1>1, Pieces
  <1>3. Fits(p, a2, k2, 0, A, R2)
    BY <1>1, Pieces DEF Names
  <1> HIDE DEF a1, a2
  <1> DEFINE t1 == a1
             U1 == R1
  <1>4. Fits(p, t1, k1, n1, A, U1)
    BY <1>1, <1>2
  <1> DEFINE t2 == t1 \o a2
             U2 == U1 \cup R2
  <1> HIDE DEF t1, U1
  <1>5. Fits(p, t2, k2, n2, A, U2)
    BY <1>1, <1>3, <1>4, FitsJoin
  <1> HIDE DEF t2, U2, R1, R2
  <1>6. Barrier \o Create("RPC_SERVER_LIST") = t2
    BY DEF t1, t2, a1, a2
  <1>7. {Collective, Step("Create", "RPC_SERVER_LIST")} = U2
    BY DEF U1, U2, R1, R2
  <1> QED
    BY <1>1, <1>5, <1>6, <1>7

LEMMA RPCFits ==
  ASSUME NEW p \in Servers, NEW k \in Nat, k >= 2, NEW A
  PROVE  Fits(p, RPC(p), k, 3, A, {Collective, Step("Create", "RPC_SERVER_LIST")})
  <1> DEFINE a1 == Barrier
             a2 == Barrier \o Create("RPC_SERVER_LIST")
             a3 == Barrier
             k1 == k + 2
             k2 == k + 1
             k3 == k + 0
             R1 == {Collective}
             R2 == {Collective, Step("Create", "RPC_SERVER_LIST")}
             R3 == {Collective}
             n1 == 1
             n2 == 2
             n3 == 3
  <1>1. /\ k1 \in Nat /\ k1 >= 2
        /\ k2 \in Nat /\ k2 >= 3
        /\ k3 \in Nat /\ k3 >= 2
        /\ k1 = k2 + 1
        /\ k2 = k3 + 1
        /\ n2 = n1 + 1
        /\ n3 = n2 + 1
        /\ k3 = k
        /\ n3 = 3
        /\ n1 = 1
    OBVIOUS
  <1> HIDE DEF k1, k2, k3, n1, n2, n3
  <1>2. Fits(p, a1, k1, 1, A, R1)
    BY <1>1, Pieces
  <1>3. Fits(p, a2, k2, 1, A, R2)
    BY <1>1, GroupRPC
  <1>4. Fits(p, a3, k3, 1, A, R3)
    BY <1>1, Pieces
  <1> HIDE DEF a1, a2, a3
  <1> DEFINE t1 == a1
             U1 == R1
  <1>5. Fits(p, t1, k1, n1, A, U1)
    BY <1>1, <1>2
  <1> DEFINE t2 == t1 \o a2
             U2 == U1 \cup R2
  <1> HIDE DEF t1, U1
  <1>6. Fits(p, t2, k2, n2, A, U2)
    BY <1>1, <1>3, <1>5, FitsJoin
  <1> DEFINE t3 == t2 \o a3
             U3 == U2 \cup R3
  <1> HIDE DEF t2, U2
  <1>7. Fits(p, t3, k3, n3, A, U3)
    BY <1>1, <1>4, <1>6, FitsJoin
  <1> HIDE DEF t3, U3, R1, R2, R3
  <1>8. RPC(p) = t3
    BY DEF RPC, Servers, If, t1, t2, t3, a1, a2, a3
  <1>9. {Collective, Step("Create", "RPC_SERVER_LIST")} = U3
    BY DEF U1, U2, U3, R1, R2, R3
  <1> QED
    BY <1>1, <1>7, <1>8, <1>9

LEMMA PairFits ==
  ASSUME NEW p \in Servers, NEW k \in Nat, k >= 2, NEW A, NEW x \in Names \ {"RPC_SERVER_LIST"},
         NEW y \in Names \ {"RPC_SERVER_LIST"}
  PROVE  Fits(p, DistributedHashMap(p, x) \o DistributedHashMap(p, y), k, 4, A, Shared({x, y}))
  <1> DEFINE a1 == DistributedHashMap(p, x)
             a2 == DistributedHashMap(p, y)
             k1 == k + 2
             k2 == k + 0
             R1 == Shared({x})
             R2 == Shared({y})
             n1 == 2
             n2 == 4
  <1>1. /\ k1 \in Nat /\ k1 >= 2
        /\ k2 \in Nat /\ k2 >= 2
        /\ k1 = k2 + 2
        /\ n2 = n1 + 2
        /\ k2 = k
        /\ n2 = 4
        /\ n1 = 2
    OBVIOUS
  <1> HIDE DEF k1, k2, n1, n2
  <1>2. Fits(p, a1, k1, 2, A, R1)
    BY <1>1, StructureFits
  <1>3. Fits(p, a2, k2, 2, A, R2)
    BY <1>1, StructureFits
  <1> HIDE DEF a1, a2
  <1> DEFINE t1 == a1
             U1 == R1
  <1>4. Fits(p, t1, k1, n1, A, U1)
    BY <1>1, <1>2
  <1> DEFINE t2 == t1 \o a2
             U2 == U1 \cup R2
  <1> HIDE DEF t1, U1
  <1>5. Fits(p, t2, k2, n2, A, U2)
    BY <1>1, <1>3, <1>4, FitsJoin
  <1> HIDE DEF t2, U2, R1, R2
  <1>6. DistributedHashMap(p, x) \o DistributedHashMap(p, y) = t2
    BY DEF t1, t2, a1, a2
  <1>7. Shared({x, y}) = U2
    BY DEF Shared, U1, U2, R1, R2
  <1> QED
    BY <1>1, <1>5, <1>6, <1>7

LEMMA LocalFits ==
  ASSUME NEW p \in Servers, NEW k \in Nat, k >= 2, NEW A
  PROVE  Fits(p, LocalFileClient(p), k, 4, A, Shared({"L_LAYER_CHANGED", "L_LAYER_CAPACITY"}) \cup {Step("Bind", "LOCAL_FILE_CLIENT")})
  <1> DEFINE a1 == DistributedHashMap(p, "L_LAYER_CHANGED") \o DistributedHashMap(p, "L_LAYER_CAPACITY")
             a2 == GetInstance("RPC")
             a3 == Bind("LOCAL_FILE_CLIENT")
             k1 == k + 0
             k2 == k + 0
             k3 == k + 0
             R1 == Shared({"L_LAYER_CHANGED", "L_LAYER_CAPACITY"})
             R2 == {Get("RPC")}
             R3 == {Step("Bind", "LOCAL_FILE_CLIENT")}
             n1 == 4
             n2 == 4
             n3 == 4
  <1>1. /\ k1 \in Nat /\ k1 >= 2
        /\ k2 \in Nat /\ k2 >= 2
        /\ k3 \in Nat /\ k3 >= 2
        /\ k1 = k2 + 0
        /\ k2 = k3 + 0
        /\ n2 = n1 + 0
        /\ n3 = n2 + 0
        /\ k1 = k
        /\ k2 = k
        /\ k3 = k
        /\ n3 = 4
        /\ n1 = 4
    OBVIOUS
  <1> HIDE DEF k1, k2, k3, n1, n2, n3
  <1>2. Fits(p, a1, k1, 4, A, R1)
    BY <1>1, PairFits DEF Names
  <1>3. Fits(p, a2, k2, 0, A, R2)
    BY <1>1, GetFits DEF Clients
  <1>4. Fits(p, a3, k3, 0, A, R3)
    BY <1>1, Pieces DEF Bindable
  <1> HIDE DEF a1, a2, a3
  <1> DEFINE t1 == a1
             U1 == R1
  <1>5. Fits(p, t1, k1, n1, A, U1)
    BY <1>1, <1>2
  <1> DEFINE t2 == t1 \o a2
             U2 == U1 \cup R2
  <1> HIDE DEF t1, U1
  <1>6. Fits(p, t2, k2, n2, A, U2)
    BY <1>1, <1>3, <1>5, FitsJoin
  <1> DEFINE t3 == t2 \o a3
             U3 == U2 \cup R3
  <1> HIDE DEF t2, U2
  <1>7. Fits(p, t3, k3, n3, A, U3)
    BY <1>1, <1>4, <1>6, FitsJoin
  <1> HIDE DEF t3, U3, R1, R2, R3
  <1>8. LocalFileClient(p) = t3
    BY DEF LocalFileClient, SharedFileClient, LocalNames, Servers, If, t1, t2, t3, a1, a2, a3
  <1>9. Shared({"L_LAYER_CHANGED", "L_LAYER_CAPACITY"}) \cup {Step("Bind", "LOCAL_FILE_CLIENT")} = U3
    BY DEF Shared, U1, U2, U3, R1, R2, R3
  <1> QED
    BY <1>1, <1>7, <1>8, <1>9

LEMMA MemoryFits ==
  ASSUME NEW p \in Servers, NEW k \in Nat, k >= 2, NEW A
  PROVE  Fits(p, MemoryClient(p), k, 2, A, Shared({"DATA_MAP"}) \cup {Step("Bind", "MEMORY_CLIENT")})
  <1> DEFINE a1 == DistributedHashMap(p, "DATA_MAP")
             a2 == GetInstance("RPC")
             a3 == Bind("MEMORY_CLIENT")
             k1 == k + 0
             k2 == k + 0
             k3 == k + 0
             R1 == Shared({"DATA_MAP"})
             R2 == {Get("RPC")}
             R3 == {Step("Bind", "MEMORY_CLIENT")}
             n1 == 2
             n2 == 2
             n3 == 2
  <1>1. /\ k1 \in Nat /\ k1 >= 2
        /\ k2 \in Nat /\ k2 >= 2
        /\ k3 \in Nat /\ k3 >= 2
        /\ k1 = k2 + 0
        /\ k2 = k3 + 0
        /\ n2 = n1 + 0
        /\ n3 = n2 + 0
        /\ k1 = k
        /\ k2 = k
        /\ k3 = k
        /\ n3 = 2
        /\ n1 = 2
    OBVIOUS
  <1> HIDE DEF k1, k2, k3, n1, n2, n3
  <1>2. Fits(p, a1, k1, 2, A, R1)
    BY <1>1, StructureFits DEF Names
  <1>3. Fits(p, a2, k2, 0, A, R2)
    BY <1>1, GetFits DEF Clients
  <1>4. Fits(p, a3, k3, 0, A, R3)
    BY <1>1, Pieces DEF Bindable
  <1> HIDE DEF a1, a2, a3
  <1> DEFINE t1 == a1
             U1 == R1
  <1>5. Fits(p, t1, k1, n1, A, U1)
    BY <1>1, <1>2
  <1> DEFINE t2 == t1 \o a2
             U2 == U1 \cup R2
  <1> HIDE DEF t1, U1
  <1>6. Fits(p, t2, k2, n2, A, U2)
    BY <1>1, <1>3, <1>5, FitsJoin
  <1> DEFINE t3 == t2 \o a3
             U3 == U2 \cup R3
  <1> HIDE DEF t2, U2
  <1>7. Fits(p, t3, k3, n3, A, U3)
    BY <1>1, <1>4, <1>6, FitsJoin
  <1> HIDE DEF t3, U3, R1, R2, R3
  <1>8. MemoryClient(p) = t3
    BY DEF MemoryClient, Servers, If, t1, t2, t3, a1, a2, a3
  <1>9. Shared({"DATA_MAP"}) \cup {Step("Bind", "MEMORY_CLIENT")} = U3
    BY DEF Shared, U1, U2, U3, R1, R2, R3
  <1> QED
    BY <1>1, <1>7, <1>8, <1>9

LEMMA FactoryFits ==
  ASSUME NEW p \in Servers, NEW k \in Nat, k >= 2, NEW A
  PROVE  Fits(p, IOClientFactory, k, 0, A, {Get("SharedFileClient"), Get("LocalFileClient"), Get("MemoryClient")})
  <1> DEFINE a1 == GetInstance("SharedFileClient")
             a2 == GetInstance("LocalFileClient")
             a3 == GetInstance("MemoryClient")
             k1 == k + 0
             k2 == k + 0
             k3 == k + 0
             R1 == {Get("SharedFileClient")}
             R2 == {Get("LocalFileClient")}
             R3 == {Get("MemoryClient")}
             n1 == 0
             n2 == 0
             n3 == 0
  <1>1. /\ k1 \in Nat /\ k1 >= 2
        /\ k2 \in Nat /\ k2 >= 2
        /\ k3 \in Nat /\ k3 >= 2
        /\ k1 = k2 + 0
        /\ k2 = k3 + 0
        /\ n2 = n1 + 0
        /\ n3 = n2 + 0
        /\ k1 = k
        /\ k2 = k
        /\ k3 = k
        /\ n3 = 0
        /\ n1 = 0
    OBVIOUS
  <1> HIDE DEF k1, k2, k3, n1, n2, n3
  <1>2. Fits(p, a1, k1, 0, A, R1)
    BY <1>1, GetFits DEF Clients
  <1>3. Fits(p, a2, k2, 0, A, R2)
    BY <1>1, GetFits DEF Clients
  <1>4. Fits(p, a3, k3, 0, A, R3)
    BY <1>1, GetFits DEF Clients
  <1> HIDE DEF a1, a2, a3
  <1> DEFINE t1 == a1
             U1 == R1
  <1>5. Fits(p, t1, k1, n1, A, U1)
    BY <1>1, <1>2
  <1> DEFINE t2 == t1 \o a2
             U2 == U1 \cup R2
  <1> HIDE DEF t1, U1
  <1>6. Fits(p, t2, k2, n2, A, U2)
    BY <1>1, <1>3, <1>5, FitsJoin
  <1> DEFINE t3 == t2 \o a3
             U3 == U2 \cup R3
  <1> HIDE DEF t2, U2
  <1>7. Fits(p, t3, k3, n3, A, U3)
    BY <1>1, <1>4, <1>6, FitsJoin
  <1> HIDE DEF t3, U3, R1, R2, R3
  <1>8. IOClientFactory = t3
    BY DEF IOClientFactory, Servers, If, t1, t2, t3, a1, a2, a3
  <1>9. {Get("SharedFileClient"), Get("LocalFileClient"), Get("MemoryClient")} = U3
    BY DEF U1, U2, U3, R1, R2, R3
  <1> QED
    BY <1>1, <1>7, <1>8, <1>9

LEMMA ManagerFits ==
  ASSUME NEW p \in Servers, NEW k \in Nat, k >= 2, NEW A, k = 2
  PROVE  Fits(p, DataManager(p), k, 2, A, Shared({"FILE_NUM_SEQ"}) \cup {Get("IOClientFactory"), Get("FileSegmentAuditor")})
  <1> DEFINE a1 == GlobalSequence(p, "FILE_NUM_SEQ")
             a2 == GetInstance("IOClientFactory")
             a3 == GetInstance("FileSegmentAuditor")
             k1 == k + 0
             k2 == k + 0
             k3 == k + 0
             R1 == Shared({"FILE_NUM_SEQ"})
             R2 == {Get("IOClientFactory")}
             R3 == {Get("FileSegmentAuditor")}
             n1 == 2
             n2 == 2
             n3 == 2
  <1>1. /\ k1 \in Nat /\ k1 >= 2
        /\ k2 \in Nat /\ k2 >= 2
        /\ k3 \in Nat /\ k3 >= 2
        /\ k1 = k2 + 0
        /\ k2 = k3 + 0
        /\ n2 = n1 + 0
        /\ n3 = n2 + 0
        /\ k1 = k
        /\ k2 = k
        /\ k3 = k
        /\ n3 = 2
        /\ n1 = 2
    OBVIOUS
  <1> HIDE DEF k1, k2, k3, n1, n2, n3
  <1>2. Fits(p, a1, k1, 2, A, R1)
    BY <1>1, StructureFits DEF Names
  <1>3. Fits(p, a2, k2, 0, A, R2)
    BY <1>1, GetFits DEF Clients
  <1>4. Fits(p, a3, k3, 0, (A \cup {"IOClientFactory"}), R3)
    BY <1>1, GetFits
  <1> HIDE DEF a1, a2, a3
  <1> DEFINE t1 == a1
             U1 == R1
  <1>5. Fits(p, t1, k1, n1, A, U1)
    BY <1>1, <1>2
  <1> DEFINE t2 == t1 \o a2
             U2 == U1 \cup R2
  <1> HIDE DEF t1, U1
  <1>6. Fits(p, t2, k2, n2, A, U2)
    BY <1>1, <1>3, <1>5, FitsJoin
  <1> DEFINE t3 == t2 \o a3
             U3 == U2 \cup R3
  <1>7. (A \cup {"IOClientFactory"}) \subseteq A \cup Cover(U2)
    <2>1. Get("IOClientFactory") \in U2
      BY DEF U1, U2, R1, R2
    <2>2. "IOClientFactory" \in Types /\ "IOClientFactory" \in Upto("IOClientFactory") \cup {"IOClientFactory"}
      BY DEF Types, Upto, Clients
    <2> QED
      BY <2>1, <2>2, CoverHas
  <1> HIDE DEF t2, U2
  <1>8. Fits(p, t3, k3, n3, A, U3)
    BY <1>1, <1>4, <1>6, <1>7, FitsCat
  <1> HIDE DEF t3, U3, R1, R2, R3
  <1>9. DataManager(p) = t3
    BY DEF DataManager, Servers, If, t1, t2, t3, a1, a2, a3
  <1>10. Shared({"FILE_NUM_SEQ"}) \cup {Get("IOClientFactory"), Get("FileSegmentAuditor")} = U3
    BY DEF Shared, U1, U2, U3, R1, R2, R3
  <1> QED
    BY <1>1, <1>8, <1>9, <1>10

LEMMA EngineFits ==
  ASSUME NEW p \in Servers, NEW k \in Nat, k >= 2, NEW A, k = 2, "IOClientFactory" \in A
  PROVE  Fits(p, MaxBandwidthDPE, k, 0, A, {Get("FileSegmentAuditor"), Get("IOClientFactory"), Get("DataManager")})
  <1> DEFINE a1 == GetInstance("FileSegmentAuditor")
             a2 == GetInstance("IOClientFactory")
             a3 == GetInstance("DataManager")
             k1 == k + 0
             k2 == k + 0
             k3 == k + 0
             R1 == {Get("FileSegmentAuditor")}
             R2 == {Get("IOClientFactory")}
             R3 == {Get("DataManager")}
             n1 == 0
             n2 == 0
             n3 == 0
  <1>1. /\ k1 \in Nat /\ k1 >= 2
        /\ k2 \in Nat /\ k2 >= 2
        /\ k3 \in Nat /\ k3 >= 2
        /\ k1 = k2 + 0
        /\ k2 = k3 + 0
        /\ n2 = n1 + 0
        /\ n3 = n2 + 0
        /\ k1 = k
        /\ k2 = k
        /\ k3 = k
        /\ n3 = 0
        /\ n1 = 0
    OBVIOUS
  <1> HIDE DEF k1, k2, k3, n1, n2, n3
  <1>2. Fits(p, a1, k1, 0, A, R1)
    BY <1>1, GetFits
  <1>3. Fits(p, a2, k2, 0, A, R2)
    BY <1>1, GetFits DEF Clients
  <1>4. Fits(p, a3, k3, 0, (A \cup {"FileSegmentAuditor"}), R3)
    BY <1>1, GetFits
  <1> HIDE DEF a1, a2, a3
  <1> DEFINE t1 == a1
             U1 == R1
  <1>5. Fits(p, t1, k1, n1, A, U1)
    BY <1>1, <1>2
  <1> DEFINE t2 == t1 \o a2
             U2 == U1 \cup R2
  <1> HIDE DEF t1, U1
  <1>6. Fits(p, t2, k2, n2, A, U2)
    BY <1>1, <1>3, <1>5, FitsJoin
  <1> DEFINE t3 == t2 \o a3
             U3 == U2 \cup R3
  <1>7. (A \cup {"FileSegmentAuditor"}) \subseteq A \cup Cover(U2)
    <2>1. Get("FileSegmentAuditor") \in U2
      BY DEF U1, U2, R1, R2
    <2>2. "FileSegmentAuditor" \in Types /\ "FileSegmentAuditor" \in Upto("FileSegmentAuditor") \cup {"FileSegmentAuditor"}
      BY DEF Types, Upto, Clients
    <2> QED
      BY <2>1, <2>2, CoverHas
  <1> HIDE DEF t2, U2
  <1>8. Fits(p, t3, k3, n3, A, U3)
    BY <1>1, <1>4, <1>6, <1>7, FitsCat
  <1> HIDE DEF t3, U3, R1, R2, R3
  <1>9. MaxBandwidthDPE = t3
    BY DEF MaxBandwidthDPE, Servers, If, t1, t2, t3, a1, a2, a3
  <1>10. {Get("FileSegmentAuditor"), Get("IOClientFactory"), Get("DataManager")} = U3
    BY DEF U1, U2, U3, R1, R2, R3
  <1> QED
    BY <1>1, <1>8, <1>9, <1>10

LEMMA EventsFit ==
  ASSUME NEW p \in Servers, NEW k \in Nat, k >= 2, NEW A, k = 2
  PROVE  Fits(p, EventManager, k, 0, A, {Get("IOClientFactory"), Get("FileSegmentAuditor"), Get("DPEFactory"),
             Get("MaxBandwidthDPE"), Get("DataManager")})
  <1> DEFINE a1 == GetInstance("IOClientFactory")
             a2 == GetInstance("FileSegmentAuditor")
             a3 == GetInstance("DPEFactory")
             a4 == GetInstance("MaxBandwidthDPE")
             a5 == GetInstance("DataManager")
             k1 == k + 0
             k2 == k + 0
             k3 == k + 0
             k4 == k + 0
             k5 == k + 0
             R1 == {Get("IOClientFactory")}
             R2 == {Get("FileSegmentAuditor")}
             R3 == {Get("DPEFactory")}
             R4 == {Get("MaxBandwidthDPE")}
             R5 == {Get("DataManager")}
             n1 == 0
             n2 == 0
             n3 == 0
             n4 == 0
             n5 == 0
  <1>1. /\ k1 \in Nat /\ k1 >= 2
        /\ k2 \in Nat /\ k2 >= 2
        /\ k3 \in Nat /\ k3 >= 2
        /\ k4 \in Nat /\ k4 >= 2
        /\ k5 \in Nat /\ k5 >= 2
        /\ k1 = k2 + 0
        /\ k2 = k3 + 0
        /\ k3 = k4 + 0
        /\ k4 = k5 + 0
        /\ n2 = n1 + 0
        /\ n3 = n2 + 0
        /\ n4 = n3 + 0
        /\ n5 = n4 + 0
        /\ k1 = k
        /\ k2 = k
        /\ k3 = k
        /\ k4 = k
        /\ k5 = k
        /\ n5 = 0
        /\ n1 = 0
    OBVIOUS
  <1> HIDE DEF k1, k2, k3, k4, k5, n1, n2, n3, n4, n5
  <1>2. Fits(p, a1, k1, 0, A, R1)
    BY <1>1, GetFits DEF Clients
  <1>3. Fits(p, a2, k2, 0, (A \cup {"IOClientFactory"}), R2)
    BY <1>1, GetFits
  <1>4. Fits(p, a3, k3, 0, A, R3)
    BY <1>1, GetFits DEF Clients
  <1>5. Fits(p, a4, k4, 0, (A \cup {"IOClientFactory"}), R4)
    BY <1>1, GetFits
  <1>6. Fits(p, a5, k5, 0, (A \cup {"FileSegmentAuditor"}), R5)
    BY <1>1, GetFits
  <1> HIDE DEF a1, a2, a3, a4, a5
  <1> DEFINE t1 == a1
             U1 == R1
  <1>7. Fits(p, t1, k1, n1, A, U1)
    BY <1>1, <1>2
  <1> DEFINE t2 == t1 \o a2
             U2 == U1 \cup R2
  <1>8. (A \cup {"IOClientFactory"}) \subseteq A \cup Cover(U1)
    <2>1. Get("IOClientFactory") \in U1
      BY DEF U1, R1
    <2>2. "IOClientFactory" \in Types /\ "IOClientFactory" \in Upto("IOClientFactory") \cup {"IOClientFactory"}
      BY DEF Types, Upto, Clients
    <2> QED
      BY <2>1, <2>2, CoverHas
  <1> HIDE DEF t1, U1
  <1> HIDE DEF R1, R2, R3, R4, R5
  <1>9. Fits(p, t2, k2, n2, A, U2)
    BY <1>1, <1>3, <1>7, <1>8, FitsCat
  <1> DEFINE t3 == t2 \o a3
             U3 == U2 \cup R3
  <1> HIDE DEF t2, U2
  <1>10. Fits(p, t3, k3, n3, A, U3)
    BY <1>1, <1>4, <1>9, FitsJoin
  <1> DEFINE t4 == t3 \o a4
             U4 == U3 \cup R4
  <1>11. (A \cup {"IOClientFactory"}) \subseteq A \cup Cover(U3)
    <2>1. Get("IOClientFactory") \in U3
      BY DEF U1, U2, U3, R1, R2, R3
    <2>2. "IOClientFactory" \in Types /\ "IOClientFactory" \in Upto("IOClientFactory") \cup {"IOClientFactory"}
      BY DEF Types, Upto, Clients
    <2> QED
      BY <2>1, <2>2, CoverHas
  <1> HIDE DEF t3, U3
  <1>12. Fits(p, t4, k4, n4, A, U4)
    BY <1>1, <1>5, <1>10, <1>11, FitsCat
  <1> DEFINE t5 == t4 \o a5
             U5 == U4 \cup R5
  <1>13. (A \cup {"FileSegmentAuditor"}) \subseteq A \cup Cover(U4)
    <2>1. Get("FileSegmentAuditor") \in U4
      BY DEF U1, U2, U3, U4, R1, R2, R3, R4
    <2>2. "FileSegmentAuditor" \in Types /\ "FileSegmentAuditor" \in Upto("FileSegmentAuditor") \cup {"FileSegmentAuditor"}
      BY DEF Types, Upto, Clients
    <2> QED
      BY <2>1, <2>2, CoverHas
  <1> HIDE DEF t4, U4
  <1>14. Fits(p, t5, k5, n5, A, U5)
    BY <1>1, <1>6, <1>12, <1>13, FitsCat
  <1> HIDE DEF t5, U5, R1, R2, R3, R4, R5
  <1>15. EventManager = t5
    BY DEF EventManager, Servers, If, t1, t2, t3, t4, t5, a1, a2, a3, a4, a5
  <1>16. {Get("IOClientFactory"), Get("FileSegmentAuditor"), Get("DPEFactory"),
             Get("MaxBandwidthDPE"), Get("DataManager")} = U5
    BY DEF U1, U2, U3, U4, U5, R1, R2, R3, R4, R5
  <1> QED
    BY <1>1, <1>14, <1>15, <1>16

LEMMA RunFits ==
  ASSUME NEW p \in Servers, NEW k \in Nat, k >= 2, NEW A, k = 2
  PROVE  Fits(p, <<Step("Run", "RPC")>> \o GetInstance("EventManager") \o GetInstance("HardwareMonitor"), k, 0, A, {Step("Run", "RPC"), Get("EventManager"), Get("HardwareMonitor")})
  <1> DEFINE a1 == <<Step("Run", "RPC")>>
             a2 == GetInstance("EventManager")
             a3 == GetInstance("HardwareMonitor")
             k1 == k + 0
             k2 == k + 0
             k3 == k + 0
             R1 == {Step("Run", "RPC")}
             R2 == {Get("EventManager")}
             R3 == {Get("HardwareMonitor")}
             n1 == 0
             n2 == 0
             n3 == 0
  <1>1. /\ k1 \in Nat /\ k1 >= 2
        /\ k2 \in Nat /\ k2 >= 2
        /\ k3 \in Nat /\ k3 >= 2
        /\ k1 = k2 + 0
        /\ k2 = k3 + 0
        /\ n2 = n1 + 0
        /\ n3 = n2 + 0
        /\ k1 = k
        /\ k2 = k
        /\ k3 = k
        /\ n3 = 0
        /\ n1 = 0
    OBVIOUS
  <1> HIDE DEF k1, k2, k3, n1, n2, n3
  <1>2. Fits(p, a1, k1, 0, A, R1)
    BY <1>1, Pieces
  <1>3. Fits(p, a2, k2, 0, A, R2)
    BY <1>1, GetFits
  <1>4. Fits(p, a3, k3, 0, (A \cup {"EventManager"}), R3)
    BY <1>1, GetFits
  <1> HIDE DEF a1, a2, a3
  <1> DEFINE t1 == a1
             U1 == R1
  <1>5. Fits(p, t1, k1, n1, A, U1)
    BY <1>1, <1>2
  <1> DEFINE t2 == t1 \o a2
             U2 == U1 \cup R2
  <1> HIDE DEF t1, U1
  <1>6. Fits(p, t2, k2, n2, A, U2)
    BY <1>1, <1>3, <1>5, FitsJoin
  <1> DEFINE t3 == t2 \o a3
             U3 == U2 \cup R3
  <1>7. (A \cup {"EventManager"}) \subseteq A \cup Cover(U2)
    <2>1. Get("EventManager") \in U2
      BY DEF U1, U2, R1, R2
    <2>2. "EventManager" \in Types /\ "EventManager" \in Upto("EventManager") \cup {"EventManager"}
      BY DEF Types, Upto, Clients
    <2> QED
      BY <2>1, <2>2, CoverHas
  <1> HIDE DEF t2, U2
  <1>8. Fits(p, t3, k3, n3, A, U3)
    BY <1>1, <1>4, <1>6, <1>7, FitsCat
  <1> HIDE DEF t3, U3, R1, R2, R3
  <1>9. <<Step("Run", "RPC")>> \o GetInstance("EventManager") \o GetInstance("HardwareMonitor") = t3
    BY DEF t1, t2, t3, a1, a2, a3
  <1>10. {Step("Run", "RPC"), Get("EventManager"), Get("HardwareMonitor")} = U3
    BY DEF U1, U2, U3, R1, R2, R3
  <1> QED
    BY <1>1, <1>8, <1>9, <1>10

LEMMA ServerFits ==
  ASSUME NEW p \in Servers, NEW k \in Nat, k >= 2, NEW A, k = 2
  PROVE  Fits(p, Server(p), k, 4, A, Shared({"GLOBAL_CLOCK", "APPLICATION_QUEUE"}) \cup {Step("Run", "RPC"), Get("EventManager"),
             Get("HardwareMonitor"), Get("FileSegmentAuditor")})
  <1> DEFINE a1 == GlobalSequence(p, "GLOBAL_CLOCK")
             a2 == DistributedHashMap(p, "APPLICATION_QUEUE")
             a3 == GetInstance("RPC")
             a4 == <<Step("Run", "RPC")>> \o GetInstance("EventManager") \o GetInstance("HardwareMonitor")
             a5 == GetInstance("FileSegmentAuditor")
             k1 == k + 2
             k2 == k + 0
             k3 == k + 0
             k4 == k + 0
             k5 == k + 0
             R1 == Shared({"GLOBAL_CLOCK"})
             R2 == Shared({"APPLICATION_QUEUE"})
             R3 == {Get("RPC")}
             R4 == {Step("Run", "RPC"), Get("EventManager"), Get("HardwareMonitor")}
             R5 == {Get("FileSegmentAuditor")}
             n1 == 2
             n2 == 4
             n3 == 4
             n4 == 4
             n5 == 4
  <1>1. /\ k1 \in Nat /\ k1 >= 2
        /\ k2 \in Nat /\ k2 >= 2
        /\ k3 \in Nat /\ k3 >= 2
        /\ k4 \in Nat /\ k4 >= 2
        /\ k5 \in Nat /\ k5 >= 2
        /\ k1 = k2 + 2
        /\ k2 = k3 + 0
        /\ k3 = k4 + 0
        /\ k4 = k5 + 0
        /\ n2 = n1 + 2
        /\ n3 = n2 + 0
        /\ n4 = n3 + 0
        /\ n5 = n4 + 0
        /\ k2 = k
        /\ k3 = k
        /\ k4 = k
        /\ k5 = k
        /\ n5 = 4
        /\ n1 = 2
    OBVIOUS
  <1> HIDE DEF k1, k2, k3, k4, k5, n1, n2, n3, n4, n5
  <1>2. Fits(p, a1, k1, 2, A, R1)
    BY <1>1, StructureFits DEF Names
  <1>3. Fits(p, a2, k2, 2, A, R2)
    BY <1>1, StructureFits DEF Names
  <1>4. Fits(p, a3, k3, 0, A, R3)
    BY <1>1, GetFits DEF Clients
  <1>5. Fits(p, a4, k4, 0, A, R4)
    BY <1>1, RunFits
  <1>6. Fits(p, a5, k5, 0, (A \cup {"IOClientFactory"}), R5)
    BY <1>1, GetFits
  <1> HIDE DEF a1, a2, a3, a4, a5
  <1> DEFINE t1 == a1
             U1 == R1
  <1>7. Fits(p, t1, k1, n1, A, U1)
    BY <1>1, <1>2
  <1> DEFINE t2 == t1 \o a2
             U2 == U1 \cup R2
  <1> HIDE DEF t1, U1
  <1>8. Fits(p, t2, k2, n2, A, U2)
    BY <1>1, <1>3, <1>7, FitsJoin
  <1> DEFINE t3 == t2 \o a3
             U3 == U2 \cup R3
  <1> HIDE DEF t2, U2
  <1>9. Fits(p, t3, k3, n3, A, U3)
    BY <1>1, <1>4, <1>8, FitsJoin
  <1> DEFINE t4 == t3 \o a4
             U4 == U3 \cup R4
  <1> HIDE DEF t3, U3
  <1>10. Fits(p, t4, k4, n4, A, U4)
    BY <1>1, <1>5, <1>9, FitsJoin
  <1> DEFINE t5 == t4 \o a5
             U5 == U4 \cup R5
  <1>11. (A \cup {"IOClientFactory"}) \subseteq A \cup Cover(U4)
    <2>1. Get("EventManager") \in U4
      BY DEF U1, U2, U3, U4, R1, R2, R3, R4
    <2>2. "IOClientFactory" \in Types /\ "IOClientFactory" \in Upto("EventManager") \cup {"EventManager"}
      BY DEF Types, Upto, Clients
    <2> QED
      BY <2>1, <2>2, CoverHas
  <1> HIDE DEF t4, U4
  <1>12. Fits(p, t5, k5, n5, A, U5)
    BY <1>1, <1>6, <1>10, <1>11, FitsCat
  <1> HIDE DEF t5, U5, R1, R2, R3, R4, R5
  <1>13. Server(p) = t5
    BY DEF Server, GlobalClock, DistributedMessageQueue, Servers, If, t1, t2, t3, t4, t5, a1, a2, a3, a4, a5
  <1>14. Shared({"GLOBAL_CLOCK", "APPLICATION_QUEUE"}) \cup {Step("Run", "RPC"), Get("EventManager"),
             Get("HardwareMonitor"), Get("FileSegmentAuditor")} = U5
    BY DEF Shared, U1, U2, U3, U4, U5, R1, R2, R3, R4, R5
  <1> QED
    BY <1>1, <1>12, <1>13, <1>14

LEMMA LastFits ==
  ASSUME NEW p \in Servers, NEW k \in Nat, k >= 2, NEW A, k = 2
  PROVE  Fits(p, Barrier \o If(p.rank = 0, PutScores) \o Barrier, k, 2, A, {Collective} \cup (IF p.rank = 0 THEN Rng(PutScores) ELSE {}))
  <1> DEFINE a1 == Barrier
             a2 == If(p.rank = 0, PutScores)
             a3 == Barrier
             k1 == k + 1
             k2 == k + 1
             k3 == k + 0
             R1 == {Collective}
             R2 == (IF p.rank = 0 THEN Rng(PutScores) ELSE {})
             R3 == {Collective}
             n1 == 1
             n2 == 1
             n3 == 2
  <1>1. /\ k1 \in Nat /\ k1 >= 2
        /\ k2 \in Nat /\ k2 >= 3
        /\ k3 \in Nat /\ k3 >= 2
        /\ k1 = k2 + 0
        /\ k2 = k3 + 1
        /\ n2 = n1 + 0
        /\ n3 = n2 + 1
        /\ k3 = k
        /\ n3 = 2
        /\ n1 = 1
    OBVIOUS
  <1> HIDE DEF k1, k2, k3, n1, n2, n3
  <1>2. Fits(p, a1, k1, 1, A, R1)
    BY <1>1, Pieces
  <1>3. Fits(p, a2, k2, 0, A, R2)
    BY <1>1, ScoresFit, Pieces DEF If
  <1>4. Fits(p, a3, k3, 1, A, R3)
    BY <1>1, Pieces
  <1> HIDE DEF a1, a2, a3
  <1> DEFINE t1 == a1
             U1 == R1
  <1>5. Fits(p, t1, k1, n1, A, U1)
    BY <1>1, <1>2
  <1> DEFINE t2 == t1 \o a2
             U2 == U1 \cup R2
  <1> HIDE DEF t1, U1
  <1>6. Fits(p, t2, k2, n2, A, U2)
    BY <1>1, <1>3, <1>5, FitsJoin
  <1> DEFINE t3 == t2 \o a3
             U3 == U2 \cup R3
  <1> HIDE DEF t2, U2
  <1>7. Fits(p, t3, k3, n3, A, U3)
    BY <1>1, <1>4, <1>6, FitsJoin
  <1> HIDE DEF t3, U3, R1, R2, R3
  <1>8. Barrier \o If(p.rank = 0, PutScores) \o Barrier = t3
    BY DEF t1, t2, t3, a1, a2, a3
  <1>9. {Collective} \cup (IF p.rank = 0 THEN Rng(PutScores) ELSE {}) = U3
    BY DEF U1, U2, U3, R1, R2, R3
  <1> QED
    BY <1>1, <1>7, <1>8, <1>9

LEMMA AuditorFits ==
  ASSUME NEW p \in Servers, NEW k \in Nat, k >= 2, NEW A, k = 2
  PROVE  Fits(p, FileSegmentAuditor(p), k, 10 + 2 * Len(OffsetMaps), A,
              Shared({"VALID_SEQ", "FILE_ACTIVE_STATUS", "LAYER_SCORE_MAP", "FILE_INDEX"} \cup OffsetNames)
               \cup {Get("IOClientFactory")} \cup (IF p.rank = 0 THEN Rng(PutScores) ELSE {}))
  <1> DEFINE L == Len(OffsetMaps)
             M == 2 * L
  <1>a. L \in Nat /\ M \in Nat /\ k + 2 \in Nat /\ k + 2 >= 2
    BY CountAssumption
  <1>b. PICK RO : /\ Fits(p, Offsets(p), k + 2, 2 * Len(OffsetMaps), A, RO)
                  /\ RO \cup Shared({}) = Shared(OffsetNames)
    BY <1>a, OffsetsFit
  <1> HIDE DEF L
  <1> DEFINE a1 == DistributedHashMap(p, "VALID_SEQ")
             a2 == DistributedHashMap(p, "FILE_ACTIVE_STATUS")
             a3 == DistributedHashMap(p, "LAYER_SCORE_MAP")
             a4 == GlobalSequence(p, "FILE_INDEX")
             a5 == GetInstance("RPC")
             a6 == GetInstance("IOClientFactory")
             a7 == Offsets(p)
             a8 == Barrier \o If(p.rank = 0, PutScores) \o Barrier
             k1 == k + (8 + 2 * L)
             k2 == k + (6 + 2 * L)
             k3 == k + (4 + 2 * L)
             k4 == k + (2 + 2 * L)
             k5 == k + (2 + 2 * L)
             k6 == k + (2 + 2 * L)
             k7 == k + 2
             k8 == k + 0
             R1 == Shared({"VALID_SEQ"})
             R2 == Shared({"FILE_ACTIVE_STATUS"})
             R3 == Shared({"LAYER_SCORE_MAP"})
             R4 == Shared({"FILE_INDEX"})
             R5 == {Get("RPC")}
             R6 == {Get("IOClientFactory")}
             R7 == RO
             R8 == {Collective} \cup (IF p.rank = 0 THEN Rng(PutScores) ELSE {})
             n1 == 2
             n2 == 4
             n3 == 6
             n4 == 8
             n5 == 8
             n6 == 8
             n7 == 8 + M
             n8 == 10 + M
  <1>1. /\ k1 \in Nat /\ k1 >= 2
        /\ k2 \in Nat /\ k2 >= 2
        /\ k3 \in Nat /\ k3 >= 2
        /\ k4 \in Nat /\ k4 >= 2
        /\ k5 \in Nat /\ k5 >= 2
        /\ k6 \in Nat /\ k6 >= 2
        /\ k7 \in Nat /\ k7 >= 2
        /\ k8 \in Nat /\ k8 >= 2
        /\ k1 = k2 + 2
        /\ k2 = k3 + 2
        /\ k3 = k4 + 2
        /\ k4 = k5 + 0
        /\ k5 = k6 + 0
        /\ k6 = k7 + M
        /\ k7 = k8 + 2
        /\ n2 = n1 + 2
        /\ n3 = n2 + 2
        /\ n4 = n3 + 2
        /\ n5 = n4 + 0
        /\ n6 = n5 + 0
        /\ n7 = n6 + M
        /\ n8 = n7 + 2
        /\ k8 = k
        /\ n8 = 10 + M
        /\ n1 = 2
    BY <1>a DEF M
  <1>c. k7 = k + 2
    OBVIOUS
  <1> HIDE DEF M, k1, k2, k3, k4, k5, k6, k7, k8, n1, n2, n3, n4, n5, n6, n7, n8
  <1>2. Fits(p, a1, k1, 2, A, R1)
    BY <1>1, StructureFits DEF Names
  <1>3. Fits(p, a2, k2, 2, A, R2)
    BY <1>1, StructureFits DEF Names
  <1>4. Fits(p, a3, k3, 2, A, R3)
    BY <1>1, StructureFits DEF Names
  <1>5. Fits(p, a4, k4, 2, A, R4)
    BY <1>1, StructureFits DEF Names
  <1>6. Fits(p, a5, k5, 0, A, R5)
    BY <1>1, GetFits DEF Clients
  <1>7. Fits(p, a6, k6, 0, A, R6)
    BY <1>1, GetFits DEF Clients
  <1>8. Fits(p, a7, k7, M, A, R7)
    BY <1>b, <1>c DEF M, L
  <1>9. Fits(p, a8, k8, 2, A, R8)
    BY <1>1, LastFits
  <1> HIDE DEF a1, a2, a3, a4, a5, a6, a7, a8
  <1> DEFINE t1 == a1
             U1 == R1
  <1>10. Fits(p, t1, k1, n1, A, U1)
    BY <1>1, <1>2
  <1> DEFINE t2 == t1 \o a2
             U2 == U1 \cup R2
  <1> HIDE DEF t1, U1
  <1>11. Fits(p, t2, k2, n2, A, U2)
    BY <1>1, <1>3, <1>10, FitsJoin
  <1> DEFINE t3 == t2 \o a3
             U3 == U2 \cup R3
  <1> HIDE DEF t2, U2
  <1>12. Fits(p, t3, k3, n3, A, U3)
    BY <1>1, <1>4, <1>11, FitsJoin
  <1> DEFINE t4 == t3 \o a4
             U4 == U3 \cup R4
  <1> HIDE DEF t3, U3
  <1>13. Fits(p, t4, k4, n4, A, U4)
    BY <1>1, <1>5, <1>12, FitsJoin
  <1> DEFINE t5 == t4 \o a5
             U5 == U4 \cup R5
  <1> HIDE DEF t4, U4
  <1>14. Fits(p, t5, k5, n5, A, U5)
    BY <1>1, <1>6, <1>13, FitsJoin
  <1> DEFINE t6 == t5 \o a6
             U6 == U5 \cup R6
  <1> HIDE DEF t5, U5
  <1>15. Fits(p, t6, k6, n6, A, U6)
    BY <1>1, <1>7, <1>14, FitsJoin
  <1> DEFINE t7 == t6 \o a7
             U7 == U6 \cup R7
  <1> HIDE DEF t6, U6
  <1>16. Fits(p, t7, k7, n7, A, U7)
    BY <1>1, <1>8, <1>15, FitsJoin
  <1> DEFINE t8 == t7 \o a8
             U8 == U7 \cup R8
  <1> HIDE DEF t7, U7
  <1>17. Fits(p, t8, k8, n8, A, U8)
    BY <1>1, <1>9, <1>16, FitsJoin
  <1> HIDE DEF t8, U8, R1, R2, R3, R4, R5, R6, R7, R8
  <1>18. FileSegmentAuditor(p) = t8
    BY DEF FileSegmentAuditor, Auditor, Servers, If, t1, t2, t3, t4, t5, t6, t7, t8, a1, a2, a3, a4, a5, a6, a7, a8
  <1>19. Shared({"VALID_SEQ", "FILE_ACTIVE_STATUS", "LAYER_SCORE_MAP", "FILE_INDEX"} \cup OffsetNames)
               \cup {Get("IOClientFactory")} \cup (IF p.rank = 0 THEN Rng(PutScores) ELSE {}) = U8
    <2> DEFINE X == {"VALID_SEQ", "FILE_ACTIVE_STATUS", "LAYER_SCORE_MAP", "FILE_INDEX"}
    <2>1. Shared(X) = R1 \cup R2 \cup R3 \cup R4
      BY DEF Shared, R1, R2, R3, R4
    <2> HIDE DEF X
    <2>2. Shared(X \cup OffsetNames) = Shared(X) \cup Shared(OffsetNames)
      BY DEF Shared
    <2>3. Shared({}) \subseteq R1 /\ R5 \subseteq R1 /\ {Collective} \subseteq R1
      BY DEF Shared, R1, R5
    <2>4. Shared(X \cup OffsetNames) = R1 \cup R2 \cup R3 \cup R4 \cup R7 \cup R5 \cup {Collective}
      BY <1>b, <2>1, <2>2, <2>3 DEF R7
    <2> QED
      BY <2>4 DEF X, U1, U2, U3, U4, U5, U6, U7, U8, R6, R8
  <1>d. M = 2 * Len(OffsetMaps)
    BY DEF M, L
  <1> QED
    BY <1>d, <1>1, <1>17, <1>18, <1>19

(* The steps of the constructor of T on a server. *)
Contents(p, T) ==
    CASE T = "RPC" -> {Collective, Step("Create", "RPC_SERVER_LIST")}
      [] T = "SharedFileClient" -> Shared({"LAYER_CHANGED", "LAYER_CAPACITY"})
      [] T = "LocalFileClient" ->
            Shared({"L_LAYER_CHANGED", "L_LAYER_CAPACITY"}) \cup {Step("Bind", "LOCAL_FILE_CLIENT")}
      [] T = "MemoryClient" -> Shared({"DATA_MAP"}) \cup {Step("Bind", "MEMORY_CLIENT")}
      [] T = "IOClientFactory" ->
            {Get("SharedFileClient"), Get("LocalFileClient"), Get("MemoryClient")}
      [] T = "FileSegmentAuditor" ->
            Shared({"VALID_SEQ", "FILE_ACTIVE_STATUS", "LAYER_SCORE_MAP", "FILE_INDEX"} \cup OffsetNames)
              \cup {Get("IOClientFactory")} \cup (IF p.rank = 0 THEN Rng(PutScores) ELSE {})
      [] T = "DPEFactory" -> {}
      [] T = "DataManager" ->
            Shared({"FILE_NUM_SEQ"}) \cup {Get("IOClientFactory"), Get("FileSegmentAuditor")}
      [] T = "MaxBandwidthDPE" ->
            {Get("FileSegmentAuditor"), Get("IOClientFactory"), Get("DataManager")}
      [] T = "EventManager" ->
            {Get("IOClientFactory"), Get("FileSegmentAuditor"), Get("DPEFactory"),
             Get("MaxBandwidthDPE"), Get("DataManager")}
      [] T = "HardwareMonitor" -> Shared({"HARDWARE_QUEUE"})
      [] T = "Server" ->
            Shared({"GLOBAL_CLOCK", "APPLICATION_QUEUE"})
              \cup {Step("Run", "RPC"), Get("EventManager"), Get("HardwareMonitor"),
                    Get("FileSegmentAuditor")}

LEMMA ConstructorFits ==
  ASSUME NEW p \in Servers, NEW T \in Types, NEW k \in Nat, k >= 2, T \in Top => k = 2,
         NEW A, T = "MaxBandwidthDPE" => "IOClientFactory" \in A
  PROVE  Fits(p, Constructor(p, T), k, Weight(T), A, Contents(p, T))
  <1>1. CASE T = "RPC"
    BY <1>1, RPCFits DEF Constructor, Weight, Contents
  <1>2. CASE T = "SharedFileClient"
    <2>1. {"LAYER_CHANGED", "LAYER_CAPACITY"} \subseteq Names \ {"RPC_SERVER_LIST"}
      BY DEF Names
    <2>2. Fits(p, DistributedHashMap(p, "LAYER_CHANGED") \o DistributedHashMap(p, "LAYER_CAPACITY"),
               k, 4, A, Shared({"LAYER_CHANGED", "LAYER_CAPACITY"}))
      BY <2>1, PairFits
    <2>3. SharedFileClient(p, SharedNames)
            = DistributedHashMap(p, "LAYER_CHANGED") \o DistributedHashMap(p, "LAYER_CAPACITY")
      BY DEF SharedFileClient, SharedNames
    <2> QED
      BY <1>2, <2>2, <2>3 DEF Constructor, Weight, Contents
  <1>3. CASE T = "LocalFileClient"
    BY <1>3, LocalFits DEF Constructor, Weight, Contents
  <1>4. CASE T = "MemoryClient"
    BY <1>4, MemoryFits DEF Constructor, Weight, Contents
  <1>5. CASE T = "IOClientFactory"
    BY <1>5, FactoryFits DEF Constructor, Weight, Contents
  <1>6. CASE T = "FileSegmentAuditor"
    <2>1. k = 2
      BY <1>6 DEF Top
    <2> QED
      BY <1>6, <2>1, AuditorFits DEF Constructor, Weight, Contents
  <1>7. CASE T = "DPEFactory"
    <2>1. Fits(p, <<>>, k, 0, A, {})
      BY Pieces
    <2> QED
      BY <1>7, <2>1 DEF Constructor, Weight, Contents
  <1>8. CASE T = "DataManager"
    <2>1. k = 2
      BY <1>8 DEF Top
    <2> QED
      BY <1>8, <2>1, ManagerFits DEF Constructor, Weight, Contents
  <1>9. CASE T = "MaxBandwidthDPE"
    <2>1. k = 2
      BY <1>9 DEF Top
    <2> QED
      BY <1>9, <2>1, EngineFits DEF Constructor, Weight, Contents
  <1>10. CASE T = "EventManager"
    <2>1. k = 2
      BY <1>10 DEF Top
    <2> QED
      BY <1>10, <2>1, EventsFit DEF Constructor, Weight, Contents
  <1>11. CASE T = "HardwareMonitor"
    <2>1. "HARDWARE_QUEUE" \in Names \ {"RPC_SERVER_LIST"}
      BY DEF Names
    <2>2. Fits(p, DistributedHashMap(p, "HARDWARE_QUEUE"), k, 2, A, Shared({"HARDWARE_QUEUE"}))
      BY <2>1, StructureFits
    <2> QED
      BY <1>11, <2>2
         DEF Constructor, Weight, Contents, HardwareMonitor, DistributedMessageQueue
  <1>12. CASE T = "Server"
    <2>1. k = 2
      BY <1>12 DEF Top
    <2> QED
      BY <1>12, <2>1, ServerFits DEF Constructor, Weight, Contents
  <1> QED
    BY <1>1, <1>2, <1>3, <1>4, <1>5, <1>6, <1>7, <1>8, <1>9, <1>10, <1>11, <1>12 DEF Types

LEMMA UptoFacts ==
  ASSUME NEW T \in Types
  PROVE  /\ Upto(T) \subseteq Types /\ T \notin Upto(T)
         /\ \A U \in Upto(T) : Upto(U) \subseteq Upto(T)
  <1>1. Upto(T) \subseteq Types
    BY DEF Types, Upto, Clients
  <1>2. T \notin Upto(T)
    BY DEF Types, Upto, Clients
  <1>3. ASSUME NEW U \in Upto(T) PROVE Upto(U) \subseteq Upto(T)
    BY DEF Types, Upto, Clients
  <1> QED
    BY <1>1, <1>2, <1>3

(* What a constructor may do. *)
Part(T, st) ==
    /\ st.act \in {"Barrier", "GetInstance", "Create", "Bind", "Run", "Call"}
    /\ st.act = "GetInstance" => st.on \in Upto(T)
    /\ st.act = "Bind" /\ st.on = "LOCAL_FILE_CLIENT" => T = "LocalFileClient"
    /\ st.act = "Bind" /\ st.on = "MEMORY_CLIENT" => T = "MemoryClient"
    /\ st.act = "Call" => T = "FileSegmentAuditor"

LEMMA ContentParts ==
  ASSUME NEW p \in Servers, NEW T \in Types
  PROVE  /\ Constructor(p, T) \in Seq(Steps(p)) /\ Rng(Constructor(p, T)) = Contents(p, T)
         /\ \A st \in Contents(p, T) : Part(T, st)
  <1>1. Constructor(p, T) \in Seq(Steps(p)) /\ Rng(Constructor(p, T)) = Contents(p, T)
    <2>1. Fits(p, Constructor(p, T), 2, Weight(T), {"IOClientFactory"}, Contents(p, T))
      BY ConstructorFits
    <2> QED
      BY <2>1 DEF Fits
  <1>2. ASSUME NEW X, "LOCAL_FILE_CLIENT" \notin X, "MEMORY_CLIENT" \notin X,
               NEW st \in Shared(X), T \notin {"RPC", "DPEFactory", "IOClientFactory"}
        PROVE  Part(T, st)
    <2>1. "RPC" \in Upto(T)
      BY <1>2 DEF Types, Upto, Clients
    <2> QED
      BY <1>2, <2>1 DEF Part, Shared, Get, Collective, Step
  <1>3. ASSUME NEW U \in Upto(T) PROVE Part(T, Get(U))
    BY DEF Part, Get, Step
  <1> SUFFICES ASSUME NEW st \in Contents(p, T) PROVE Part(T, st)
    BY <1>1
  <1>4. CASE T = "RPC"
    BY <1>4 DEF Contents, Part, Collective, Step
  <1>5. CASE T = "SharedFileClient"
    BY <1>2, <1>5 DEF Contents
  <1>6. CASE T = "LocalFileClient"
    <2>1. Part(T, Step("Bind", "LOCAL_FILE_CLIENT"))
      BY <1>6 DEF Part, Step
    <2> QED
      BY <1>2, <1>6, <2>1 DEF Contents
  <1>7. CASE T = "MemoryClient"
    <2>1. Part(T, Step("Bind", "MEMORY_CLIENT"))
      BY <1>7 DEF Part, Step
    <2> QED
      BY <1>2, <1>7, <2>1 DEF Contents
  <1>8. CASE T = "IOClientFactory"
    BY <1>3, <1>8 DEF Contents, Upto, Clients
  <1>9. CASE T = "FileSegmentAuditor"
    <2> DEFINE X == {"VALID_SEQ", "FILE_ACTIVE_STATUS", "LAYER_SCORE_MAP", "FILE_INDEX"} \cup OffsetNames
    <2>1. st \in Shared(X) \/ st = Get("IOClientFactory") \/ (p.rank = 0 /\ st \in Rng(PutScores))
      BY <1>9 DEF Contents
    <2>2. CASE st \in Shared(X)
      <3>1. "LOCAL_FILE_CLIENT" \notin X /\ "MEMORY_CLIENT" \notin X
        BY CountAssumption DEF OffsetNames
      <3> HIDE DEF X
      <3> QED
        BY <1>2, <1>9, <2>2, <3>1
    <2>3. CASE st = Get("IOClientFactory")
      <3>1. "IOClientFactory" \in Upto(T)
        BY <1>9 DEF Upto, Clients
      <3> QED
        BY <1>3, <2>3, <3>1
    <2>4. CASE p.rank = 0 /\ st \in Rng(PutScores)
      <3>1. st \in Calls(p)
        BY <2>4, ScoresFit
      <3>2. st.act = "Call"
        BY <3>1 DEF Calls
      <3> QED
        BY <1>9, <3>2 DEF Part
    <2> QED
      BY <2>1, <2>2, <2>3, <2>4
  <1>10. CASE T = "DPEFactory"
    BY <1>10 DEF Contents
  <1>11. CASE T = "DataManager"
    <2>1. {"IOClientFactory", "FileSegmentAuditor"} \subseteq Upto(T)
      BY <1>11 DEF Upto, Clients
    <2> QED
      BY <1>2, <1>3, <1>11, <2>1 DEF Contents
  <1>12. CASE T = "MaxBandwidthDPE"
    <2>1. {"IOClientFactory", "FileSegmentAuditor", "DataManager"} \subseteq Upto(T)
      BY <1>12 DEF Upto, Clients
    <2> QED
      BY <1>3, <1>12, <2>1 DEF Contents
  <1>13. CASE T = "EventManager"
    <2>1. {"IOClientFactory", "FileSegmentAuditor", "DPEFactory", "MaxBandwidthDPE", "DataManager"}
            \subseteq Upto(T)
      BY <1>13 DEF Upto, Clients
    <2> QED
      BY <1>3, <1>13, <2>1 DEF Contents
  <1>14. CASE T = "HardwareMonitor"
    BY <1>2, <1>14 DEF Contents
  <1>15. CASE T = "Server"
    <2>1. {"EventManager", "HardwareMonitor", "FileSegmentAuditor"} \subseteq Upto(T)
      BY <1>15 DEF Upto, Types
    <2>2. Part(T, Step("Run", "RPC"))
      BY DEF Part, Step
    <2> QED
      BY <1>2, <1>3, <1>15, <2>1, <2>2 DEF Contents
  <1> QED
    BY <1>4, <1>5, <1>6, <1>7, <1>8, <1>9, <1>10, <1>11, <1>12, <1>13, <1>14, <1>15 DEF Types

LEMMA Closed ==
  ASSUME NEW p \in Servers, NEW m, m \subseteq Types,
         \A T \in m : \A st \in Rng(Constructor(p, T)) : st.act = "GetInstance" => st.on \in m,
         NEW T \in m
  PROVE  Upto(T) \subseteq m
  <1>1. ASSUME NEW U \in m, NEW V, Get(V) \in Contents(p, U)
        PROVE  V \in m
    <2>1. Get(V) \in Rng(Constructor(p, U))
      BY <1>1, ContentParts
    <2> QED
      BY <2>1 DEF Get, Step
  <1>2. \A U \in m \cap (Clients \cup {"HardwareMonitor"}) : "RPC" \in m
    BY <1>1 DEF Contents, Shared, Clients
  <1>3. "IOClientFactory" \in m => Clients \subseteq m /\ "RPC" \in m
    BY <1>1, <1>2 DEF Contents, Clients
  <1>4. "FileSegmentAuditor" \in m => "IOClientFactory" \in m
    BY <1>1 DEF Contents
  <1>5. "DataManager" \in m => "FileSegmentAuditor" \in m
    BY <1>1 DEF Contents
  <1>6. "MaxBandwidthDPE" \in m => "DataManager" \in m
    BY <1>1 DEF Contents
  <1>7. "EventManager" \in m => "DPEFactory" \in m /\ "MaxBandwidthDPE" \in m
    BY <1>1 DEF Contents
  <1>8. "Server" \in m => "EventManager" \in m /\ "HardwareMonitor" \in m
    BY <1>1 DEF Contents
  <1> QED
    BY <1>2, <1>3, <1>4, <1>5, <1>6, <1>7, <1>8 DEF Upto, Clients, Types

LEMMA Everything ==
  ASSUME NEW p \in Servers
  PROVE  /\ \A x \in Names : \E T \in Types : Step("Create", x) \in Contents(p, T)
         /\ \A x \in Bindable : \E T \in Types : Step("Bind", x) \in Contents(p, T)
  <1> DEFINE N1 == {"LAYER_CHANGED", "LAYER_CAPACITY"}
             N2 == {"L_LAYER_CHANGED", "L_LAYER_CAPACITY"}
             N3 == {"VALID_SEQ", "FILE_ACTIVE_STATUS", "LAYER_SCORE_MAP", "FILE_INDEX"} \cup OffsetNames
             N4 == {"GLOBAL_CLOCK", "APPLICATION_QUEUE"}
             E(x) == Step("Create", x)
             F(x) == Step("Bind", x)
             Has(x, T) == E(x) \in Contents(p, T) /\ F(x) \in Contents(p, T)
  <1>1. \A X, x : x \in X => E(x) \in Shared(X) /\ F(x) \in Shared(X)
    BY DEF Shared
  <1>2. /\ Contents(p, "SharedFileClient") = Shared(N1)
        /\ Shared(N2) \cup {F("LOCAL_FILE_CLIENT")} \subseteq Contents(p, "LocalFileClient")
        /\ Shared({"DATA_MAP"}) \cup {F("MEMORY_CLIENT")} \subseteq Contents(p, "MemoryClient")
        /\ Shared(N3) \subseteq Contents(p, "FileSegmentAuditor")
        /\ Shared({"FILE_NUM_SEQ"}) \subseteq Contents(p, "DataManager")
        /\ Shared({"HARDWARE_QUEUE"}) \subseteq Contents(p, "HardwareMonitor")
        /\ Shared(N4) \subseteq Contents(p, "Server")
        /\ E("RPC_SERVER_LIST") \in Contents(p, "RPC")
    BY DEF Contents
  <1>3. /\ \A x \in N1 : Has(x, "SharedFileClient")
        /\ \A x \in N2 : Has(x, "LocalFileClient")
        /\ Has("DATA_MAP", "MemoryClient")
        /\ \A x \in N3 : Has(x, "FileSegmentAuditor")
        /\ Has("FILE_NUM_SEQ", "DataManager")
        /\ Has("HARDWARE_QUEUE", "HardwareMonitor")
        /\ \A x \in N4 : Has(x, "Server")
    <2> HIDE DEF N1, N2, N3, N4, E, F
    <2> QED
      BY <1>1, <1>2
  <1>4. Names = {"RPC_SERVER_LIST", "DATA_MAP", "FILE_NUM_SEQ", "HARDWARE_QUEUE"}
                  \cup N1 \cup N2 \cup N3 \cup N4
    <2>1. OffsetNames = {OffsetMaps[i] : i \in DOMAIN OffsetMaps}
      BY CountAssumption DEF OffsetNames
    <2> QED
      BY <2>1 DEF Names
  <1>5. {"RPC", "SharedFileClient", "LocalFileClient", "MemoryClient", "FileSegmentAuditor",
         "DataManager", "HardwareMonitor", "Server"} \subseteq Types
    BY DEF Types
  <1>6. \A x \in Names \ {"RPC_SERVER_LIST"} : \E T \in Types : Has(x, T)
    <2> HIDE DEF N1, N2, N3, N4, Has
    <2> QED
      BY <1>3, <1>4, <1>5
  <1>7. /\ F("LOCAL_FILE_CLIENT") \in Contents(p, "LocalFileClient")
        /\ F("MEMORY_CLIENT") \in Contents(p, "MemoryClient")
    <2> HIDE DEF N2, F
    <2> QED
      BY <1>2
  <1>8. ASSUME NEW x \in Names PROVE \E T \in Types : E(x) \in Contents(p, T)
    <2>1. CASE x = "RPC_SERVER_LIST"
      BY <1>2, <1>5, <2>1
    <2>2. CASE x # "RPC_SERVER_LIST"
      BY <1>6, <2>2
    <2> QED
      BY <2>1, <2>2
  <1>9. ASSUME NEW x \in Bindable PROVE \E T \in Types : F(x) \in Contents(p, T)
    <2>1. CASE x \in {"LOCAL_FILE_CLIENT", "MEMORY_CLIENT"}
      BY <1>5, <1>7, <2>1
    <2>2. CASE x \notin {"LOCAL_FILE_CLIENT", "MEMORY_CLIENT"}
      <3>1. x \in Names \ {"RPC_SERVER_LIST"}
        BY <2>2 DEF Bindable
      <3> QED
        BY <1>6, <3>1
    <2> QED
      BY <2>1, <2>2
  <1> QED
    BY <1>8, <1>9

LEMMA WeightFacts ==
  /\ \A M : W(M) \in Nat
  /\ \A M, M2 : M \subseteq M2 => W(M) <= W(M2)
  /\ \A M : \A T \in Types : T \notin M => W(M \cup {T}) = W(M) + Weight(T)
  <1> DEFINE L == Len(OffsetMaps)
             w(T, M) == IF T \in M THEN Weight(T) ELSE 0
  <1>1. L \in Nat
    BY CountAssumption
  <1>2. /\ Weight("RPC") = 3 /\ Weight("SharedFileClient") = 4 /\ Weight("LocalFileClient") = 4
        /\ Weight("Server") = 4 /\ Weight("MemoryClient") = 2 /\ Weight("DataManager") = 2
        /\ Weight("HardwareMonitor") = 2 /\ Weight("FileSegmentAuditor") = 10 + 2 * L
        /\ Weight("IOClientFactory") = 0 /\ Weight("DPEFactory") = 0
        /\ Weight("MaxBandwidthDPE") = 0 /\ Weight("EventManager") = 0
    BY DEF Weight
  <1> HIDE DEF L
  <1>3. \A T \in Types : Weight(T) \in Nat
    BY <1>1, <1>2 DEF Types
  <1>4. \A M : W(M) = w("RPC", M) + w("SharedFileClient", M) + w("LocalFileClient", M)
                        + w("MemoryClient", M) + w("FileSegmentAuditor", M) + w("DataManager", M)
                        + w("HardwareMonitor", M) + w("Server", M)
    BY DEF W
  <1>5. \A T \in Types : \A M : w(T, M) \in Nat
    BY <1>3
  <1>6. \A T \in Types : \A M, M2 : M \subseteq M2 => w(T, M) <= w(T, M2)
    BY <1>3
  <1>7. \A T, U : \A M : T # U => w(T, M \cup {U}) = w(T, M)
    OBVIOUS
  <1>8. \A T : \A M : T \notin M => w(T, M \cup {T}) = Weight(T) /\ w(T, M) = 0
    OBVIOUS
  <1> HIDE DEF w
  <1>9. {"RPC", "SharedFileClient", "LocalFileClient", "MemoryClient", "FileSegmentAuditor",
         "DataManager", "HardwareMonitor", "Server"} \subseteq Types
    BY DEF Types
  <1>10. ASSUME NEW M PROVE W(M) \in Nat
    BY <1>4, <1>5, <1>9
  <1>11. ASSUME NEW M, NEW M2, M \subseteq M2 PROVE W(M) <= W(M2)
    BY <1>4, <1>5, <1>6, <1>9, <1>11
  <1>12. ASSUME NEW M, NEW T \in Types, T \notin M PROVE W(M \cup {T}) = W(M) + Weight(T)
    <2> DEFINE M2 == M \cup {T}
               d(U) == IF U = T THEN Weight(T) ELSE 0
    <2>1. \A U : w(U, M2) = (IF U = T THEN Weight(T) ELSE w(U, M)) /\ (U = T => w(U, M) = 0)
      <3>1. ASSUME NEW U, U # T PROVE w(U, M2) = w(U, M)
        BY <1>7, <3>1
      <3>2. w(T, M2) = Weight(T) /\ w(T, M) = 0
        BY <1>8, <1>12
      <3> HIDE DEF M2
      <3> QED
        BY <3>1, <3>2
    <2>2. \A U \in Types : w(U, M2) = w(U, M) + d(U) /\ w(U, M) \in Nat /\ d(U) \in Nat
      BY <1>3, <1>5, <2>1
    <2>3. /\ w("RPC", M2) = w("RPC", M) + d("RPC") /\ w("RPC", M) \in Nat /\ d("RPC") \in Nat
          /\ w("SharedFileClient", M2) = w("SharedFileClient", M) + d("SharedFileClient") /\ w("SharedFileClient", M) \in Nat /\ d("SharedFileClient") \in Nat
          /\ w("LocalFileClient", M2) = w("LocalFileClient", M) + d("LocalFileClient") /\ w("LocalFileClient", M) \in Nat /\ d("LocalFileClient") \in Nat
          /\ w("MemoryClient", M2) = w("MemoryClient", M) + d("MemoryClient") /\ w("MemoryClient", M) \in Nat /\ d("MemoryClient") \in Nat
          /\ w("FileSegmentAuditor", M2) = w("FileSegmentAuditor", M) + d("FileSegmentAuditor") /\ w("FileSegmentAuditor", M) \in Nat /\ d("FileSegmentAuditor") \in Nat
          /\ w("DataManager", M2) = w("DataManager", M) + d("DataManager") /\ w("DataManager", M) \in Nat /\ d("DataManager") \in Nat
          /\ w("HardwareMonitor", M2) = w("HardwareMonitor", M) + d("HardwareMonitor") /\ w("HardwareMonitor", M) \in Nat /\ d("HardwareMonitor") \in Nat
          /\ w("Server", M2) = w("Server", M) + d("Server") /\ w("Server", M) \in Nat /\ d("Server") \in Nat
      BY <1>9, <2>2
    <2>4. d("RPC") + d("SharedFileClient") + d("LocalFileClient") + d("MemoryClient")
            + d("FileSegmentAuditor") + d("DataManager") + d("HardwareMonitor") + d("Server")
          = Weight(T)
      BY <1>2, <1>3 DEF Types
    <2> HIDE DEF d, M2
    <2>5. W(M2) = W(M) + Weight(T)
      BY <1>3, <1>4, <2>3, <2>4
    <2> QED
      BY <2>5 DEF M2
  <1> QED
    BY <1>10, <1>11, <1>12

----------------------------------------------------------------------------
(* One server takes a step. *)

LEMMA BuiltClosed ==
  ASSUME NEW p \in Servers, NEW m, m \subseteq Types, NEW mp, NEW b, Built(p, m, mp, b), NEW T \in m
  PROVE  Upto(T) \subseteq m
  <1>1. \A U \in m : \A st \in Rng(Constructor(p, U)) : st.act = "GetInstance" => st.on \in m
    BY DEF Built, Done
  <1> QED
    BY <1>1, Closed

(* A step that has nothing more to run is taken, and what it leaves. *)
Takes(p, st, m, mp, b, m2, mp2, b2) ==
    /\ m2 = m \cup (IF st.act = "Set" THEN {st.on} ELSE {})
    /\ \A x \in Names : mp[x] = p.rank => mp2[x] = p.rank
    /\ b \subseteq b2
    /\ st.act = "GetInstance" => st.on \in m
    /\ st.act = "Create" => mp2[st.on] = p.rank
    /\ st.act = "Bind" => st.on \in b2

Collectives(st) == IF st.act = "Barrier" THEN 1 ELSE 0

LEMMA Consume ==
  ASSUME NEW p \in Servers, NEW t, NEW m, NEW mp, NEW b, NEW m2, NEW mp2, NEW b2,
         ServerInv(p, t, m, mp, b), t # <<>>, Takes(p, Head(t), m, mp, b, m2, mp2, b2)
  PROVE  /\ ServerInv(p, Tail(t), m2, mp2, b2)
         /\ Passed(Tail(t), m2) = Passed(t, m) + Collectives(Head(t))
  <1> DEFINE h == Head(t)
             r == Tail(t)
             N == Len(t)
  <1>0. /\ t \in Seq(Steps(p)) /\ m \subseteq Types
        /\ Nested(t) /\ Prepared(p, t, m, mp, b) /\ Built(p, m, mp, b)
        /\ \A e \in Earlier : e[2] \in Begun(t, m) => e[1] \in m
        /\ \A T \in m : Step("Set", T) \notin Rng(t)
        /\ Owned(p, t) /\ Rooted(t, m) /\ Spaced(t, 0)
        /\ "FileSegmentAuditor" \in m => Passed(t, m) >= W(Low) - 2
        /\ \A j \in 1 .. Len(t) : t[j].act = "Exit" => j = Len(t)
    BY DEF ServerInv
  <1>1. /\ r \in Seq(Steps(p)) /\ h = t[1] /\ h \in Steps(p)
        /\ N \in Nat \ {0} /\ Len(r) = N - 1
        /\ \A i \in 1 .. (N - 1) : r[i] = t[i + 1]
        /\ Rng(t) = {h} \cup Rng(r)
        /\ NB(t) = (IF h.act = "Barrier" THEN 1 ELSE 0) + NB(r)
        /\ NB(t) \in Nat /\ NB(r) \in Nat
        /\ Spaced(r, 0) /\ SpacedAt(h, 0 + NB(r))
    <2>1. 0 \in Nat
      OBVIOUS
    <2> QED
      BY <1>0, <2>1, TailFacts
  <1>2. /\ m2 = m \cup (IF h.act = "Set" THEN {h.on} ELSE {})
        /\ h.act = "GetInstance" => h.on \in m
        /\ h.act = "Create" => mp2[h.on] = p.rank
        /\ h.act = "Bind" => h.on \in b2
        /\ b \subseteq b2
    BY DEF Takes
  <1> HIDE DEF h, r, N
  <1>3. /\ h.act \in {"Set", "GetInstance"} => h.on \in Types
        /\ h.act \in {"Set", "GetInstance"} => h = Step(h.act, h.on)
        /\ h.act = "Create" => h.on \in Names
    BY <1>1 DEF Steps, StepOK
  <1>4. \A j \in 1 .. Len(r) : j + 1 \in 1 .. N /\ r[j] = t[j + 1]
    BY <1>1
  <1>5. ASSUME h.act = "Set" PROVE Step("Set", h.on) \notin Rng(r)
    <2> SUFFICES ASSUME NEW j \in 1 .. Len(r), r[j] = Step("Set", h.on) PROVE FALSE
      BY DEF Rng
    <2>1. /\ j + 1 \in 1 .. N /\ t[j + 1].act = "Set" /\ t[j + 1].on = h.on
          /\ 1 \in 1 .. ((j + 1) - 1) /\ t[1].act = "Set" /\ t[1].on = h.on
      BY <1>1, <1>4, <1>5 DEF Step
    <2>2. h.on \in Upto(h.on)
      BY <1>0, <2>1 DEF Nested, N
    <2> QED
      BY <1>3, <1>5, <2>2, UptoFacts
  <1>6. m \subseteq m2 /\ m2 \subseteq Types
    BY <1>0, <1>2, <1>3
  <1>7. ASSUME NEW st, Done(p, st, m, mp, b) PROVE Done(p, st, m2, mp2, b2)
    <2>1. \A x \in Names : mp[x] = p.rank => mp2[x] = p.rank
      BY DEF Takes
    <2> QED
      BY <1>2, <1>6, <1>7, <2>1 DEF Done
  <1>8. Built(p, m2, mp2, b2)
    <2> SUFFICES ASSUME NEW T \in m2, NEW st \in Rng(Constructor(p, T))
                 PROVE  Done(p, st, m2, mp2, b2)
      BY DEF Built
    <2>1. CASE T \in m
      BY <1>0, <1>7, <2>1 DEF Built
    <2>2. CASE T \notin m
      <3>1. h.act = "Set" /\ h.on = T
        BY <1>2, <2>2
      <3>2. 1 \in 1 .. N /\ st \in Needs(p, t[1]) /\ 1 .. (1 - 1) = {}
        BY <1>1, <3>1 DEF Needs
      <3>3. Done(p, st, m, mp, b)
        BY <1>0, <3>2 DEF Prepared, N
      <3> QED
        BY <1>7, <3>3
    <2> QED
      BY <2>1, <2>2
  <1>9. ASSUME NEW st, Ahead(h, st) PROVE Done(p, st, m2, mp2, b2)
    <2>1. CASE h = st
      BY <1>2, <1>3, <1>6, <2>1 DEF Done
    <2>2. CASE h # st
      <3>1. st.act = "GetInstance" /\ h.act \in {"GetInstance", "Set"} /\ st.on \in Upto(h.on) \cup {h.on}
        BY <1>9, <2>2 DEF Ahead
      <3>2. h.on \in m2
        BY <1>2, <3>1
      <3>3. Upto(h.on) \subseteq m2
        BY <1>6, <1>8, <3>2, BuiltClosed
      <3> QED
        BY <3>1, <3>2, <3>3 DEF Done
    <2> QED
      BY <2>1, <2>2
  <1>10. Begun(r, m2) = Begun(t, m)
    <2>1. ASSUME NEW T \in Types, Step("Set", T) = h PROVE T \in m2
      BY <1>2, <2>1 DEF Step
    <2>2. ASSUME NEW T \in m2, T \notin m PROVE T \in Types /\ Step("Set", T) \in Rng(t)
      BY <1>1, <1>2, <1>3, <2>2
    <2> QED
      BY <1>0, <1>1, <1>6, <2>1, <2>2 DEF Begun
  <1>11. Nested(r)
    <2> SUFFICES ASSUME NEW j \in 1 .. Len(r), r[j].act = "Set", NEW i \in 1 .. (j - 1),
                        r[i].act \in {"GetInstance", "Set"}
                 PROVE  r[i].on \in Upto(r[j].on)
      BY DEF Nested
    <2>1. /\ i \in 1 .. Len(r) /\ i + 1 \in 1 .. ((j + 1) - 1)
          /\ r[i] = t[i + 1] /\ r[j] = t[j + 1] /\ j + 1 \in 1 .. N
      <3>1. i \in 1 .. Len(r) /\ i + 1 \in 1 .. ((j + 1) - 1)
        BY <1>1
      <3> QED
        BY <1>4, <3>1
    <2> QED
      BY <1>0, <2>1 DEF Nested, N
  <1>12. Prepared(p, r, m2, mp2, b2)
    <2> SUFFICES ASSUME NEW j \in 1 .. Len(r), NEW st \in Needs(p, r[j]), ~Done(p, st, m2, mp2, b2)
                 PROVE  \E i \in 1 .. (j - 1) : Ahead(r[i], st)
      BY DEF Prepared
    <2>1. j + 1 \in 1 .. N /\ st \in Needs(p, t[j + 1]) /\ (j + 1) - 1 = j
      BY <1>1, <1>4
    <2>2. ~Done(p, st, m, mp, b)
      BY <1>7
    <2>3. PICK i \in 1 .. j : Ahead(t[i], st)
      BY <1>0, <2>1, <2>2 DEF Prepared, N
    <2>4. i # 1
      BY <1>1, <1>9, <2>3
    <2>5. i - 1 \in 1 .. (j - 1) /\ i - 1 \in 1 .. Len(r) /\ r[i - 1] = t[(i - 1) + 1] /\ (i - 1) + 1 = i
      BY <1>1, <1>4, <2>4
    <2> QED
      BY <2>3, <2>5
  <1>13. Owned(p, r)
    <2> SUFFICES ASSUME NEW i \in 1 .. Len(r), r[i].act \in {"Bind", "Call"}
                 PROVE  \E j \in (i + 1) .. Len(r) :
                           r[j].act = "Set" /\ r[i] \in Rng(Constructor(p, r[j].on))
      BY DEF Owned
    <2>1. i + 1 \in 1 .. N /\ r[i] = t[i + 1]
      BY <1>4
    <2>2. PICK j \in ((i + 1) + 1) .. N : t[j].act = "Set" /\ r[i] \in Rng(Constructor(p, t[j].on))
      BY <1>0, <2>1 DEF Owned, N
    <2>3. j - 1 \in (i + 1) .. Len(r) /\ j - 1 \in 1 .. Len(r) /\ r[j - 1] = t[(j - 1) + 1] /\ (j - 1) + 1 = j
      BY <1>1, <1>4
    <2> QED
      BY <2>2, <2>3
  <1>14. Rooted(r, m2)
    <2>1. \A i \in 1 .. Len(r) : \E n \in 1 .. Len(t) : r[i] = t[n]
      BY <1>4 DEF N
    <2>2. ASSUME Step("GetInstance", "Server") \in Rng(t), Step("GetInstance", "Server") \notin Rng(r)
          PROVE  "Server" \in Begun(t, m)
      <3>1. h = Step("GetInstance", "Server")
        BY <1>1, <2>2
      <3>2. "Server" \in m
        BY <1>2, <3>1 DEF Step
      <3> QED
        BY <3>2 DEF Begun
    <2> QED
      BY <1>0, <1>10, <2>1, <2>2 DEF Rooted
  <1>15. /\ Passed(r, m2) = Passed(t, m) + Collectives(h)
         /\ Passed(t, m) \in Int /\ Collectives(h) \in Nat
    <2>1. W(Begun(t, m)) \in Nat
      BY WeightFacts
    <2> QED
      BY <1>1, <1>10, <2>1 DEF Passed, Collectives
  <1>16. \A T \in m2 : Step("Set", T) \notin Rng(r)
    BY <1>0, <1>1, <1>2, <1>5
  <1>17. \A e \in Earlier : e[2] \in Begun(r, m2) => e[1] \in m2
    BY <1>0, <1>6, <1>10
  <1>18. \A j \in 1 .. Len(r) : r[j].act = "Exit" => j = Len(r)
    <2> SUFFICES ASSUME NEW j \in 1 .. Len(r), r[j].act = "Exit" PROVE j = Len(r)
      OBVIOUS
    <2>1. j + 1 \in 1 .. N /\ t[j + 1].act = "Exit"
      BY <1>4
    <2>2. j + 1 = N
      BY <1>0, <2>1 DEF N
    <2> QED
      BY <1>1, <2>2
  <1>19. "FileSegmentAuditor" \in m2 => Passed(r, m2) >= W(Low) - 2
    <2>1. W(Low) \in Nat /\ W(Begun(t, m)) \in Nat
      BY WeightFacts
    <2>2. CASE "FileSegmentAuditor" \in m
      BY <1>0, <1>15, <2>1, <2>2
    <2>3. CASE "FileSegmentAuditor" \notin m /\ "FileSegmentAuditor" \in m2
      <3>1. h.act = "Set" /\ h.on = "FileSegmentAuditor"
        BY <1>2, <2>3
      <3>2. NB(r) = 2
        BY <1>1, <3>1 DEF SpacedAt, Top
      <3>3. "FileSegmentAuditor" \in Begun(r, m2)
        BY <1>6, <2>3 DEF Begun
      <3>4. {"IOClientFactory", "RPC", "FileSegmentAuditor"} \cup Clients \subseteq Begun(r, m2)
        <4>1. "IOClientFactory" \in m2
          BY <1>17, <3>3 DEF Earlier
        <4>2. Upto("IOClientFactory") \subseteq m2
          BY <1>6, <1>8, <4>1, BuiltClosed
        <4> QED
          BY <3>3, <4>1, <4>2 DEF Upto, Begun
      <3>5. "Server" \in Begun(r, m2)
        BY <1>14, <3>3 DEF Rooted
      <3>6. Low \subseteq Begun(r, m2)
        BY <3>4, <3>5 DEF Low
      <3>7. W(Low) <= W(Begun(r, m2)) /\ W(Begun(r, m2)) \in Nat
        BY <3>6, WeightFacts
      <3> QED
        BY <2>1, <3>2, <3>7 DEF Passed
    <2> QED
      BY <2>2, <2>3
  <1>20. ServerInv(p, r, m2, mp2, b2)
    BY <1>1, <1>6, <1>8, <1>11, <1>12, <1>13, <1>14, <1>16, <1>17, <1>18, <1>19 DEF ServerInv
  <1> QED
    BY <1>15, <1>20 DEF h, r

LEMMA Cat ==
  ASSUME NEW S, NEW s \in Seq(S), NEW u \in Seq(S)
  PROVE  /\ s \o u \in Seq(S) /\ Len(s \o u) = Len(s) + Len(u)
         /\ Len(s) \in Nat /\ Len(u) \in Nat
         /\ \A i \in 1 .. Len(s) : (s \o u)[i] = s[i]
         /\ \A i \in 1 .. Len(u) : (s \o u)[i + Len(s)] = u[i]
  OBVIOUS

(* u is c, then z, then t without its first step. *)
Spliced(S, u, c, z, t) ==
    /\ u \in Seq(S) /\ Len(u) = Len(c) + Len(t)
    /\ \A i \in 1 .. Len(c) : u[i] = c[i]
    /\ u[Len(c) + 1] = z
    /\ \A i \in 2 .. Len(t) : u[i + Len(c)] = t[i]
    /\ Rng(u) = Rng(c) \cup {z} \cup Rng(Tail(t))
    /\ NB(u) = NB(c) + NB(<<z>>) + NB(Tail(t))

LEMMA Insert ==
  ASSUME NEW S, NEW c \in Seq(S), NEW z \in S, NEW t \in Seq(S), t # <<>>
  PROVE  Spliced(S, c \o <<z>> \o Tail(t), c, z, t)
  <1> DEFINE o == <<z>>
             r == Tail(t)
             v == c \o o
             u == v \o r
  <1>1. /\ o \in Seq(S) /\ Len(o) = 1 /\ o[1] = z
        /\ r \in Seq(S) /\ Len(t) \in Nat \ {0} /\ Len(r) = Len(t) - 1
        /\ \A i \in 1 .. (Len(t) - 1) : r[i] = t[i + 1]
    OBVIOUS
  <1>2. Rng(o) = {z}
    BY RngOne
  <1> HIDE DEF o, r
  <1>3. /\ v \in Seq(S) /\ Len(v) = Len(c) + 1 /\ Len(c) \in Nat
        /\ \A i \in 1 .. Len(c) : v[i] = c[i]
        /\ v[Len(c) + 1] = z
    <2>1. /\ v \in Seq(S) /\ Len(v) = Len(c) + Len(o) /\ Len(c) \in Nat
          /\ \A i \in 1 .. Len(c) : v[i] = c[i]
          /\ \A i \in 1 .. Len(o) : v[i + Len(c)] = o[i]
      <3>1. c \in Seq(S) /\ o \in Seq(S)
        BY <1>1
      <3> QED
        BY ONLY <3>1, Cat
    <2>2. 1 \in 1 .. Len(o) /\ 1 + Len(c) = Len(c) + 1
      BY <1>1, <2>1
    <2>3. v[1 + Len(c)] = o[1]
      BY <2>1, <2>2
    <2> QED
      BY <1>1, <2>1, <2>2, <2>3
  <1>4. Rng(v) = Rng(c) \cup Rng(o) /\ NB(v) = NB(c) + NB(o)
    BY <1>1, RngCat, NBCat
  <1> HIDE DEF v
  <1>5. u = v \o r
    OBVIOUS
  <1> HIDE DEF u
  <1>6. /\ u \in Seq(S) /\ Len(u) = Len(v) + Len(r)
        /\ \A i \in 1 .. Len(v) : u[i] = v[i]
        /\ \A i \in 1 .. Len(r) : u[i + Len(v)] = r[i]
    <2>1. v \in Seq(S) /\ r \in Seq(S)
      BY <1>1, <1>3
    <2>2. /\ v \o r \in Seq(S) /\ Len(v \o r) = Len(v) + Len(r)
          /\ \A i \in 1 .. Len(v) : (v \o r)[i] = v[i]
          /\ \A i \in 1 .. Len(r) : (v \o r)[i + Len(v)] = r[i]
      BY ONLY <2>1, Cat
    <2> QED
      BY <1>5, <2>2
  <1>7. Rng(u) = Rng(v) \cup Rng(r) /\ NB(u) = NB(v) + NB(r)
    <2>1. v \in Seq(S) /\ r \in Seq(S)
      BY <1>1, <1>3
    <2>2. Rng(v \o r) = Rng(v) \cup Rng(r) /\ NB(v \o r) = NB(v) + NB(r)
      BY <2>1, RngCat, NBCat
    <2> QED
      BY <1>5, <2>2
  <1>8. Len(u) = Len(c) + Len(t)
    BY <1>1, <1>3, <1>6
  <1>9. /\ \A i \in 1 .. Len(c) : u[i] = c[i]
        /\ u[Len(c) + 1] = z
    BY <1>3, <1>6
  <1>10. ASSUME NEW i \in 2 .. Len(t) PROVE u[i + Len(c)] = t[i]
    <2> DEFINE j == i - 1
    <2>1. j \in 1 .. Len(r) /\ j \in 1 .. (Len(t) - 1) /\ j + Len(v) = i + Len(c) /\ j + 1 = i
      BY <1>1, <1>3
    <2> HIDE DEF j
    <2>2. u[j + Len(v)] = r[j] /\ r[j] = t[j + 1]
      BY <1>1, <1>6, <2>1
    <2> QED
      BY <2>1, <2>2
  <1> QED
    BY <1>2, <1>4, <1>6, <1>7, <1>8, <1>9, <1>10 DEF Spliced, o, r, v, u

(* GetInstance of a singleton that is not there: its constructor comes      *)
(* before the rest.                                                         *)
Constructs(p, T, t, m, u) ==
    /\ t # <<>> /\ Head(t) = Get(T) /\ T \notin m
    /\ u = Constructor(p, T) \o <<Step("Set", T)>> \o Tail(t)

LEMMA Expand ==
  ASSUME NEW p \in Servers, NEW t, NEW m, NEW mp, NEW b, ServerInv(p, t, m, mp, b),
         NEW T, NEW u, Constructs(p, T, t, m, u)
  PROVE  ServerInv(p, u, m, mp, b) /\ Passed(u, m) = Passed(t, m)
  <1> DEFINE c == Constructor(p, T)
             z == Step("Set", T)
             r == Tail(t)
             N == Len(t)
             n == Len(c)
             S == Steps(p)
  <1> t # <<>> /\ Head(t) = Get(T) /\ T \notin m /\ u = c \o <<z>> \o r
    BY DEF Constructs
  <1>0. /\ t \in Seq(S) /\ m \subseteq Types
        /\ Nested(t) /\ Prepared(p, t, m, mp, b) /\ Built(p, m, mp, b)
        /\ \A e \in Earlier : e[2] \in Begun(t, m) => e[1] \in m
        /\ \A U \in m : Step("Set", U) \notin Rng(t)
        /\ Owned(p, t) /\ Rooted(t, m) /\ Spaced(t, 0)
        /\ "FileSegmentAuditor" \in m => Passed(t, m) >= W(Low) - 2
        /\ \A j \in 1 .. N : t[j].act = "Exit" => j = N
    BY DEF ServerInv
  <1>1. /\ r \in Seq(S) /\ t[1] = Get(T) /\ Get(T) \in S
        /\ N \in Nat \ {0} /\ Len(r) = N - 1
        /\ \A i \in 1 .. (N - 1) : r[i] = t[i + 1]
        /\ Rng(t) = {Get(T)} \cup Rng(r)
        /\ NB(t) = NB(r) /\ NB(r) \in Nat
        /\ Spaced(r, 0) /\ SpacedAt(Get(T), NB(r))
    <2>1. 0 \in Nat /\ Get(T).act # "Barrier"
      BY DEF Get, Step
    <2>2. /\ r \in Seq(S) /\ Head(t) = t[1] /\ Head(t) \in S
          /\ N \in Nat \ {0} /\ Len(r) = N - 1
          /\ \A i \in 1 .. (N - 1) : r[i] = t[i + 1]
          /\ Rng(t) = {Head(t)} \cup Rng(r)
          /\ NB(t) = (IF Head(t).act = "Barrier" THEN 1 ELSE 0) + NB(r) /\ NB(r) \in Nat
          /\ Spaced(r, 0) /\ SpacedAt(Head(t), 0 + NB(r))
      BY <1>0, <2>1, TailFacts
    <2>3. NB(t) = NB(r) /\ 0 + NB(r) = NB(r)
      BY <2>1, <2>2
    <2> QED
      BY <2>2, <2>3
  <1>2. T \in Types /\ Get(T).act = "GetInstance" /\ Get(T).on = T
    BY <1>1 DEF Steps, StepOK, Get, Step
  <1>3. NB(r) >= 2 /\ (T \in Top => NB(r) = 2)
    BY <1>1, <1>2 DEF SpacedAt
  <1>4. ASSUME NEW e \in Earlier, e[2] = T PROVE e[1] \in m
    <2>1. 1 \in 1 .. N /\ 1 .. (1 - 1) = {} /\ Step("GetInstance", e[1]) \in Needs(p, t[1])
      BY <1>1, <1>4 DEF Needs, Get
    <2>2. Done(p, Step("GetInstance", e[1]), m, mp, b)
      BY <1>0, <2>1 DEF Prepared
    <2> QED
      BY <2>2 DEF Done, Step
  <1>5. Fits(p, c, NB(r), Weight(T), m, Contents(p, T))
    <2>1. T = "MaxBandwidthDPE" => "IOClientFactory" \in m
      BY <1>4 DEF Earlier
    <2> QED
      BY <1>1, <1>2, <1>3, <2>1, ConstructorFits
  <1>6. /\ c \in Seq(S) /\ NB(c) = Weight(T) /\ Spaced(c, NB(r)) /\ Ordered(c, m)
        /\ Rng(c) = Contents(p, T)
    BY <1>5 DEF Fits
  <1>7. \A i \in 1 .. n : c[i] \in Rng(c) /\ Part(T, c[i])
    <2>1. \A i \in 1 .. n : c[i] \in Rng(c)
      BY DEF Rng
    <2> QED
      BY <1>2, <1>6, <2>1, ContentParts
  <1>8. z \in S /\ z.act = "Set" /\ z.on = T /\ z = Step("Set", T)
    BY <1>2, ServerSteps DEF Step
  <1> HIDE DEF z, S, r, N
  <1>9. /\ u \in Seq(S) /\ Len(u) = n + N
        /\ \A i \in 1 .. n : u[i] = c[i]
        /\ u[n + 1] = z
        /\ \A i \in 2 .. N : u[i + n] = t[i]
        /\ Rng(u) = Rng(c) \cup {z} \cup Rng(r)
        /\ NB(u) = NB(c) + NB(<<z>>) + NB(r)
    <2>1. c \in Seq(S) /\ z \in S /\ t \in Seq(S)
      BY <1>0, <1>6, <1>8 DEF S
    <2>2. Spliced(S, c \o <<z>> \o Tail(t), c, z, t)
      <3> HIDE DEF c
      <3> QED
        BY <2>1, Insert
    <2>3. Spliced(S, u, c, z, t)
      BY <2>2 DEF r
    <2> HIDE DEF c
    <2> QED
      BY <2>3 DEF Spliced, r, N
  <1>10. n \in Nat /\ N \in Nat \ {0} /\ Len(u) = n + N
    <2>1. n \in Nat
      BY <1>6
    <2> QED
      BY <1>1, <1>9, <2>1
  <1>a. \A st \in Rng(c) : st.act # "Set"
    <2>1. \A st \in Contents(p, T) : Part(T, st)
      BY <1>2, ContentParts
    <2> QED
      BY <1>6, <2>1 DEF Part
  <1> HIDE DEF c, n
  <1>11. ASSUME NEW i \in 1 .. Len(u)
         PROVE  \/ i \in 1 .. n /\ u[i] = c[i]
                \/ i = n + 1 /\ u[i] = z
                \/ /\ i - n \in 2 .. N /\ u[i] = t[i - n] /\ i > n + 1
    <2>1. CASE i <= n
      BY <1>9, <2>1
    <2>2. CASE i = n + 1
      BY <1>9, <2>2
    <2>3. CASE i > n + 1
      <3>1. i - n \in 2 .. N /\ (i - n) + n = i
        BY ONLY <1>10, <2>3, i \in 1 .. Len(u)
      <3> QED
        BY <1>9, <2>3, <3>1
    <2>4. i <= n \/ i = n + 1 \/ i > n + 1
      BY ONLY <1>10, i \in 1 .. Len(u)
    <2> QED
      BY <2>1, <2>2, <2>3, <2>4
  <1>12. ASSUME NEW j \in 2 .. N, t[j].act = "Set" PROVE T \in Upto(t[j].on) /\ t[j].on \in Types
    <2>1. j \in 1 .. N /\ 1 \in 1 .. (j - 1)
      BY <1>1
    <2>2. T \in Upto(t[j].on)
      BY <1>0, <1>1, <1>2, <1>12, <2>1 DEF Nested, N
    <2>3. t[j] \in S
      BY <1>0, <2>1 DEF N
    <2> QED
      BY <1>12, <2>2, <2>3 DEF S, Steps, StepOK
  <1>13. Step("Set", T) \notin Rng(r)
    <2> SUFFICES ASSUME NEW i \in 1 .. Len(r), r[i] = z PROVE FALSE
      BY DEF Rng, z
    <2>1. i + 1 \in 2 .. N /\ t[i + 1] = z
      BY <1>1
    <2>2. T \in Upto(T)
      BY <1>8, <1>12, <2>1
    <2> QED
      BY <1>2, <2>2, UptoFacts
  <1>14. Begun(u, m) = Begun(t, m) \cup {T} /\ T \notin Begun(t, m)
    <2>1. \A U \in Types : Step("Set", U) \notin Rng(c) /\ (Step("Set", U) = z => U = T)
                             /\ Step("Set", U) # Get(T)
      BY <1>a DEF Step, z, Get
    <2>2. \A U \in Types : Step("Set", U) \in Rng(u) <=> U = T \/ Step("Set", U) \in Rng(t)
      BY <1>1, <1>9, <2>1 DEF z
    <2>3. Step("Set", T) \notin Rng(t)
      BY <1>1, <1>2, <1>13, <2>1
    <2> QED
      BY <1>2, <2>2, <2>3 DEF Begun
  <1>15. Passed(u, m) = Passed(t, m)
    <2>1. NB(<<z>>) = 0
      BY <1>8, NBOne
    <2>2. W(Begun(u, m)) = W(Begun(t, m)) + Weight(T) /\ W(Begun(t, m)) \in Nat
      BY <1>2, <1>14, WeightFacts
    <2>3. NB(c) \in Nat
      BY <1>6, NBCat
    <2> QED
      BY <1>1, <1>6, <1>9, <2>1, <2>2, <2>3 DEF Passed
  <1>16. Nested(u)
    <2> SUFFICES ASSUME NEW j \in 1 .. Len(u), u[j].act = "Set", NEW i \in 1 .. (j - 1),
                        u[i].act \in {"GetInstance", "Set"}
                 PROVE  u[i].on \in Upto(u[j].on)
      BY DEF Nested
    <2>0. i \in 1 .. Len(u) /\ i < j /\ i \in Int /\ j \in Int
      BY ONLY <1>10, j \in 1 .. Len(u), i \in 1 .. (j - 1)
    <2>1. i \in 1 .. n /\ u[i] = c[i] => u[i].on \in Upto(T)
      BY <1>7 DEF Part
    <2>2. CASE j \in 1 .. n /\ u[j] = c[j]
      BY <1>7, <2>2 DEF Part
    <2>3. CASE j = n + 1 /\ u[j] = z
      <3>1. i \in 1 .. n
        BY <1>10, <2>0, <2>3
      <3> QED
        BY <1>8, <1>9, <2>1, <2>3, <3>1
    <2>4. CASE j - n \in 2 .. N /\ u[j] = t[j - n] /\ j > n + 1
      <3>1. T \in Upto(u[j].on) /\ u[j].on \in Types
        BY <1>12, <2>4
      <3>2. Upto(T) \subseteq Upto(u[j].on)
        BY <3>1, UptoFacts
      <3>3. CASE i \in 1 .. n /\ u[i] = c[i]
        BY <2>1, <3>2, <3>3
      <3>4. CASE i = n + 1 /\ u[i] = z
        BY <1>8, <3>1, <3>4
      <3>5. CASE i - n \in 2 .. N /\ u[i] = t[i - n] /\ i > n + 1
        <4>1. i - n \in 1 .. ((j - n) - 1) /\ j - n \in 1 .. N
          BY ONLY <1>10, <2>0, <2>4, <3>5
        <4> QED
          BY <1>0, <2>4, <3>5, <4>1 DEF Nested, N
      <3> QED
        BY <1>11, <2>0, <3>3, <3>4, <3>5
    <2> QED
      BY <1>11, <2>2, <2>3, <2>4
  <1>17. Prepared(p, u, m, mp, b)
    <2> SUFFICES ASSUME NEW j \in 1 .. Len(u), NEW st \in Needs(p, u[j]), ~Done(p, st, m, mp, b)
                 PROVE  \E i \in 1 .. (j - 1) : Ahead(u[i], st)
      BY DEF Prepared
    <2>1. CASE j \in 1 .. n /\ u[j] = c[j]
      <3>1. u[j].act \notin {"Set", "Prompt", "Stop", "Exit"}
        BY <1>7, <2>1 DEF Part
      <3>2. PICK e \in Earlier : c[j] = Get(e[2]) /\ st = Get(e[1])
        BY <2>1, <3>1 DEF Needs, Get
      <3>3. e[1] \notin m
        BY <3>2 DEF Done, Get, Step
      <3>4. PICK i \in 1 .. (j - 1) : Ahead(c[i], Get(e[1]))
        BY <1>6, <2>1, <3>2, <3>3 DEF Ordered, n
      <3>5. i \in 1 .. n
        BY <1>10, <2>1
      <3> QED
        BY <1>9, <3>2, <3>4, <3>5
    <2>2. CASE j = n + 1 /\ u[j] = z
      <3>1. \A e \in Earlier : z # Step("GetInstance", e[2])
        BY <1>8 DEF Step
      <3>2. st \in Rng(c)
        BY <1>8, <2>2, <3>1 DEF Needs, c
      <3>3. PICK i \in 1 .. n : st = c[i]
        BY <3>2 DEF Rng, n
      <3>4. i \in 1 .. (j - 1) /\ u[i] = st
        <4>1. i \in 1 .. (j - 1)
          BY ONLY <1>10, <2>2, i \in 1 .. n
        <4> QED
          BY <1>9, <3>3, <4>1
      <3> QED
        BY <3>4 DEF Ahead
    <2>3. CASE j - n \in 2 .. N /\ u[j] = t[j - n] /\ j > n + 1
      <3>1. j - n \in 1 .. N /\ st \in Needs(p, t[j - n])
        BY <1>1, <2>3
      <3>2. PICK i \in 1 .. ((j - n) - 1) : Ahead(t[i], st)
        BY <1>0, <3>1 DEF Prepared, N
      <3>3. CASE i = 1
        <4>1. Ahead(z, st)
          BY <1>1, <1>2, <1>8, <3>2, <3>3 DEF Ahead, Get, Step
        <4>2. n + 1 \in 1 .. (j - 1)
          BY <1>10, <2>3
        <4> QED
          BY <1>9, <4>1, <4>2
      <3>4. CASE i # 1
        <4>1. i \in 2 .. N /\ i + n \in 1 .. (j - 1)
          BY <1>1, <1>10, <2>3, <3>4
        <4> QED
          BY <1>9, <3>2, <4>1
      <3> QED
        BY <3>3, <3>4
    <2> QED
      BY <1>11, <2>1, <2>2, <2>3
  <1>18. Owned(p, u)
    <2> SUFFICES ASSUME NEW i \in 1 .. Len(u), u[i].act \in {"Bind", "Call"}
                 PROVE  \E j \in (i + 1) .. Len(u) :
                           u[j].act = "Set" /\ u[i] \in Rng(Constructor(p, u[j].on))
      BY DEF Owned
    <2>1. CASE i \in 1 .. n /\ u[i] = c[i]
      <3>1. n + 1 \in (i + 1) .. Len(u)
        BY ONLY <1>10, <2>1
      <3> QED
        BY <1>7, <1>8, <1>9, <2>1, <3>1 DEF c
    <2>2. CASE i = n + 1 /\ u[i] = z
      BY <1>8, <2>2
    <2>3. CASE i - n \in 2 .. N /\ u[i] = t[i - n] /\ i > n + 1
      <3>1. i - n \in 1 .. N
        BY <1>1, <2>3
      <3>2. PICK j \in ((i - n) + 1) .. N : t[j].act = "Set" /\ u[i] \in Rng(Constructor(p, t[j].on))
        BY <1>0, <2>3, <3>1 DEF Owned, N
      <3>3. j \in 2 .. N /\ j + n \in (i + 1) .. Len(u)
        BY ONLY <1>10, <2>3, j \in ((i - n) + 1) .. N
      <3> QED
        BY <1>9, <3>2, <3>3
    <2> QED
      BY <1>11, <2>1, <2>2, <2>3
  <1>19. Rooted(u, m)
    <2>1. "Server" \in Begun(t, m) \/ T = "Server"
      <3>1. CASE Begun(t, m) = {}
        <4>1. 1 \in 1 .. Len(t)
          BY <1>1 DEF N
        <4> QED
          BY <1>0, <1>1, <1>2, <3>1, <4>1 DEF Rooted
      <3>2. CASE Begun(t, m) # {}
        BY <1>0, <3>2 DEF Rooted
      <3> QED
        BY <3>1, <3>2
    <2> QED
      BY <1>14, <2>1 DEF Rooted
  <1>20. Spaced(u, 0)
    <2>1. 0 \in Nat /\ 0 + NB(r) = NB(r)
      BY <1>1
    <2> DEFINE o == <<z>>
               v == o \o r
    <2>2. o \in Seq(S) /\ r \in Seq(S)
      BY <1>1, <1>8 DEF r, S
    <2>3. Spaced(o, NB(r))
      <3>1. SpacedAt(z, NB(r))
        BY <1>1, <1>2, <1>8 DEF SpacedAt
      <3> QED
        BY <1>1, <3>1, SpacedOne
    <2>4. NB(o) = 0
      BY <1>8, NBOne
    <2> HIDE DEF o
    <2>5. Spaced(v, 0) /\ v \in Seq(S)
      <3>1. Spaced(o, 0 + NB(r)) /\ Spaced(r, 0)
        BY <1>1, <2>1, <2>3
      <3> QED
        BY <2>1, <2>2, <3>1, SpacedCat
    <2>6. NB(v) = NB(r)
      <3>1. NB(v) = NB(o) + NB(r)
        BY <2>2, NBCat
      <3> QED
        BY <1>1, <2>4, <3>1
    <2> HIDE DEF v
    <2>7. Spaced(c \o v, 0)
      <3>1. Spaced(c, 0 + NB(v)) /\ c \in Seq(S)
        BY <1>6, <2>1, <2>6 DEF S
      <3> QED
        BY <2>1, <2>5, <3>1, SpacedCat
    <2>8. u = c \o v
      <3>1. u = c \o o \o r
        BY DEF c, z, r, o
      <3>2. c \in Seq(S)
        BY <1>6 DEF S
      <3>3. c \o o \o r = c \o (o \o r)
        BY <2>2, <3>2
      <3> QED
        BY <3>1, <3>3 DEF v
    <2> QED
      BY <2>7, <2>8
  <1>21. \A e \in Earlier : e[2] \in Begun(u, m) => e[1] \in m
    BY <1>0, <1>4, <1>14
  <1>22. \A U \in m : Step("Set", U) \notin Rng(u)
    <2>1. \A U \in m : U \in Types /\ U # T
      BY <1>0
    <2>2. \A U \in m : U \in Begun(t, m) /\ Step("Set", U) \notin Rng(t)
      BY <1>0 DEF Begun
    <2>4. ASSUME NEW U \in m PROVE Step("Set", U) \notin Rng(u)
      <3>1. Step("Set", U) \notin Rng(c)
        BY <1>a DEF Step
      <3>2. Step("Set", U) # z
        BY <2>1 DEF Step, z
      <3>3. Step("Set", U) \notin Rng(r)
        BY <1>1, <2>2
      <3> QED
        BY <1>9, <3>1, <3>2, <3>3
    <2> QED
      BY <2>4
  <1>23. \A j \in 1 .. Len(u) : u[j].act = "Exit" => j = Len(u)
    <2> SUFFICES ASSUME NEW j \in 1 .. Len(u), u[j].act = "Exit" PROVE j = Len(u)
      OBVIOUS
    <2>1. ~(j \in 1 .. n /\ u[j] = c[j]) /\ ~(j = n + 1 /\ u[j] = z)
      BY <1>7, <1>8 DEF Part
    <2>2. j - n \in 2 .. N /\ u[j] = t[j - n]
      BY <1>11, <2>1
    <2>3. j - n \in 1 .. N
      BY <1>1, <2>2
    <2>4. j - n = N
      BY <1>0, <2>2, <2>3 DEF N
    <2> QED
      BY <1>1, <1>9, <1>10, <2>4
  <1>24. ServerInv(p, u, m, mp, b)
    BY <1>0, <1>9, <1>15, <1>16, <1>17, <1>18, <1>19, <1>20, <1>21, <1>22, <1>23 DEF ServerInv, S
  <1> QED
    BY <1>15, <1>24

----------------------------------------------------------------------------
(* What a server has done when it has passed so many collectives. *)

LEMMA FollowLess ==
  ASSUME NEW S, NEW t \in Seq(S), NEW j \in 1 .. Len(t)
  PROVE  Follow(t, j) \in Nat /\ NB(t) \in Nat /\ Follow(t, j) <= NB(t)
  <1> DEFINE A(n) == {i \in (n + 1) .. Len(t) : t[i].act = "Barrier"}
  <1>1. j \in Nat /\ 0 \in Nat
    OBVIOUS
  <1>2. IsFiniteSet(A(0)) /\ Follow(t, j) \in Nat /\ Follow(t, 0) \in Nat
    BY <1>1, FollowNat
  <1>3. A(j) \subseteq A(0)
    BY <1>1
  <1>4. Cardinality(A(j)) <= Cardinality(A(0))
    <2> HIDE DEF A
    <2> QED
      BY <1>2, <1>3, FS_Subset
  <1> QED
    BY <1>2, <1>4 DEF Follow, NB

LEMMA SpacedFacts ==
  ASSUME NEW p \in Servers, NEW t, NEW m, NEW mp, NEW b, ServerInv(p, t, m, mp, b)
  PROVE  /\ NB(t) \in Nat /\ W(Begun(t, m)) \in Nat /\ Passed(t, m) = W(Begun(t, m)) - NB(t)
         /\ Begun(t, m) \subseteq Types /\ m \subseteq Begun(t, m)
         /\ \A j \in 1 .. Len(t) :
               /\ t[j].act \in {"GetInstance", "Set"} => NB(t) >= 2
               /\ t[j].act = "Create" => NB(t) >= 3
               /\ t[j].act = "Bind" /\ t[j].on \notin {"LOCAL_FILE_CLIENT", "MEMORY_CLIENT"} => NB(t) >= 4
         /\ \A j \in 1 .. Len(t) : t[j] \in Steps(p)
  <1>1. t \in Seq(Steps(p)) /\ m \subseteq Types /\ Spaced(t, 0)
    BY DEF ServerInv
  <1>2. NB(t) \in Nat /\ W(Begun(t, m)) \in Nat
    BY <1>1, NBCat, WeightFacts
  <1>3. ASSUME NEW j \in 1 .. Len(t)
        PROVE  /\ t[j].act \in {"GetInstance", "Set"} => NB(t) >= 2
               /\ t[j].act = "Create" => NB(t) >= 3
               /\ t[j].act = "Bind" /\ t[j].on \notin {"LOCAL_FILE_CLIENT", "MEMORY_CLIENT"} => NB(t) >= 4
    <2>1. Follow(t, j) \in Nat /\ Follow(t, j) <= NB(t)
      BY <1>1, FollowLess
    <2>2. SpacedAt(t[j], Follow(t, j))
      <3>1. SpacedAt(t[j], 0 + Follow(t, j))
        BY <1>1 DEF Spaced
      <3> QED
        BY <2>1, <3>1
    <2> QED
      BY <1>2, <2>1, <2>2 DEF SpacedAt
  <1>4. \A j \in 1 .. Len(t) : t[j] \in Steps(p)
    BY <1>1
  <1> QED
    BY <1>1, <1>2, <1>3, <1>4 DEF Passed, Begun

LEMMA SetIsStep ==
  ASSUME NEW p, NEW st \in Steps(p), st.act \in {"Set", "GetInstance"}
  PROVE  st = Step(st.act, st.on) /\ st.on \in Types
  BY DEF Steps, StepOK

LEMMA Finished ==
  ASSUME NEW p \in Servers, NEW t, NEW m, NEW mp, NEW b, ServerInv(p, t, m, mp, b),
         Passed(t, m) >= W(Types) - 2
  PROVE  /\ \A x \in Names : mp[x] = p.rank
         /\ Bindable \subseteq b
         /\ \A j \in 1 .. Len(t) : t[j].act # "Bind"
         /\ Passed(t, m) < W(Types) => t # <<>>
  <1> DEFINE B == Begun(t, m)
  <1>1. /\ NB(t) \in Nat /\ W(B) \in Nat /\ Passed(t, m) = W(B) - NB(t)
        /\ B \subseteq Types /\ m \subseteq B
        /\ \A j \in 1 .. Len(t) :
              /\ t[j].act \in {"GetInstance", "Set"} => NB(t) >= 2
              /\ t[j].act = "Create" => NB(t) >= 3
              /\ t[j].act = "Bind" /\ t[j].on \notin {"LOCAL_FILE_CLIENT", "MEMORY_CLIENT"} => NB(t) >= 4
        /\ \A j \in 1 .. Len(t) : t[j] \in Steps(p)
    BY SpacedFacts
  <1>2. /\ m \subseteq Types /\ Prepared(p, t, m, mp, b) /\ Built(p, m, mp, b)
        /\ \A e \in Earlier : e[2] \in B => e[1] \in m
        /\ \A T \in m : Step("Set", T) \notin Rng(t)
        /\ Owned(p, t) /\ Rooted(t, m)
    BY DEF ServerInv
  <1>3. W(B) <= W(Types) /\ W(Types) \in Nat
    BY <1>1, WeightFacts
  <1>4. NB(t) <= 2
    BY <1>1, <1>3
  <1>5. /\ \A j \in 1 .. Len(t) : t[j].act # "Create"
        /\ \A j \in 1 .. Len(t) : t[j].act = "Bind" => t[j].on \in {"LOCAL_FILE_CLIENT", "MEMORY_CLIENT"}
    BY <1>1, <1>4
  <1>6. NB(t) < 2 => "Server" \in m
    <2> SUFFICES ASSUME NB(t) < 2 PROVE "Server" \in m
      OBVIOUS
    <2>1. \A j \in 1 .. Len(t) : t[j].act \notin {"GetInstance", "Set"}
      BY <1>1
    <2>2. \A a \in {"GetInstance", "Set"} : Step(a, "Server") \notin Rng(t)
      BY <2>1 DEF Rng, Step
    <2>3. "Server" \in B
      BY <1>2, <2>2 DEF Rooted
    <2> QED
      BY <2>2, <2>3 DEF Begun
  <1>7. "Server" \in m => Types \subseteq m
    <2>1. "Server" \in m => Upto("Server") \subseteq m
      BY <1>2, BuiltClosed
    <2> QED
      BY <2>1 DEF Upto
  <1>8. "Server" \notin m => "HardwareMonitor" \in B /\ "Server" \in B
    <2> SUFFICES ASSUME "Server" \notin m PROVE "HardwareMonitor" \in B /\ "Server" \in B
      OBVIOUS
    <2>1. W(B) = W(Types)
      BY <1>1, <1>3, <1>4, <1>6
    <2>2. ASSUME NEW T \in {"HardwareMonitor", "Server"}, T \notin B PROVE FALSE
      <3>1. W(B \cup {T}) = W(B) + Weight(T) /\ T \in Types /\ B \cup {T} \subseteq Types
        BY <1>1, <2>2, WeightFacts DEF Types
      <3>2. W(B \cup {T}) <= W(Types)
        BY <3>1, WeightFacts
      <3>3. Weight(T) \in {2, 4}
        BY DEF Weight
      <3> QED
        BY <1>3, <2>1, <3>1, <3>2, <3>3
    <2> QED
      BY <2>2
  <1>9. "EventManager" \in m
    BY <1>2, <1>7, <1>8 DEF Earlier, Types
  <1>10. Types \ {"Server", "HardwareMonitor"} \subseteq m
    <2>1. Upto("EventManager") \subseteq m
      BY <1>2, <1>9, BuiltClosed
    <2> QED
      BY <1>9, <2>1 DEF Upto, Types, Clients
  <1>11. \A j \in 1 .. Len(t) : t[j].act # "Bind"
    <2> SUFFICES ASSUME NEW i \in 1 .. Len(t), t[i].act = "Bind" PROVE FALSE
      OBVIOUS
    <2>1. PICK j \in (i + 1) .. Len(t) : t[j].act = "Set" /\ t[i] \in Rng(Constructor(p, t[j].on))
      BY <1>2 DEF Owned
    <2>2. j \in 1 .. Len(t)
      OBVIOUS
    <2>3. t[j] = Step("Set", t[j].on) /\ t[j].on \in Types
      BY <1>1, <2>1, <2>2, SetIsStep
    <2>4. Part(t[j].on, t[i])
      BY <2>1, <2>3, ContentParts
    <2>5. t[j].on \in {"LocalFileClient", "MemoryClient"}
      BY <1>5, <2>4 DEF Part
    <2>6. t[j].on \in m
      BY <1>10, <2>5 DEF Types
    <2>7. t[j] \in Rng(t)
      BY <2>2 DEF Rng
    <2> QED
      BY <1>2, <2>3, <2>6, <2>7
  <1>12. ASSUME NEW T \in Types, NEW st \in Contents(p, T), st.act \in {"Create", "Bind"}
         PROVE  Done(p, st, m, mp, b)
    <2>1. st \in Rng(Constructor(p, T))
      BY ContentParts
    <2>2. CASE T \in m
      BY <1>2, <2>1, <2>2 DEF Built
    <2>3. CASE T \notin m
      <3>1. T \in B
        BY <1>7, <1>8, <1>10, <2>3
      <3>2. Step("Set", T) \in Rng(t)
        BY <2>3, <3>1 DEF Begun
      <3>3. PICK j \in 1 .. Len(t) : t[j] = Step("Set", T)
        BY <3>2 DEF Rng
      <3>4. st \in Needs(p, t[j])
        BY <2>1, <3>3 DEF Needs, Step
      <3>5. ASSUME NEW i \in 1 .. (j - 1) PROVE ~Ahead(t[i], st)
        <4>1. i \in 1 .. Len(t)
          OBVIOUS
        <4>2. st # t[i]
          BY <1>5, <1>11, <1>12, <4>1
        <4> QED
          BY <1>12, <4>2 DEF Ahead
      <3> QED
        BY <1>2, <3>4, <3>5 DEF Prepared
    <2> QED
      BY <2>2, <2>3
  <1>13. ASSUME NEW x \in Names PROVE mp[x] = p.rank
    <2>1. PICK T \in Types : Step("Create", x) \in Contents(p, T)
      BY Everything
    <2>2. Done(p, Step("Create", x), m, mp, b)
      BY <1>12, <2>1 DEF Step
    <2> QED
      BY <2>2 DEF Done, Step
  <1>14. ASSUME NEW x \in Bindable PROVE x \in b
    <2>1. PICK T \in Types : Step("Bind", x) \in Contents(p, T)
      BY Everything
    <2>2. Done(p, Step("Bind", x), m, mp, b)
      BY <1>12, <2>1 DEF Step
    <2> QED
      BY <2>2 DEF Done, Step
  <1>15. ASSUME t = <<>>, Passed(t, m) < W(Types) PROVE FALSE
    <2>1. NB(t) = 0
      BY <1>15, NBOne
    <2>2. Types \subseteq m
      BY <1>6, <1>7, <2>1
    <2>3. B = Types
      BY <1>1, <2>2
    <2> QED
      BY <1>1, <1>15, <2>1, <2>3
  <1> QED
    BY <1>11, <1>13, <1>14, <1>15

LEMMA AtTheEnd ==
  ASSUME NEW p \in Servers, NEW t, NEW m, NEW mp, NEW b, ServerInv(p, t, m, mp, b),
         t # <<>>, Head(t).act \in {"Prompt", "Stop"}
  PROVE  Passed(t, m) = W(Types) - (IF Head(t).act = "Prompt" THEN 2 ELSE 1)
  <1>1. /\ t \in Seq(Steps(p)) /\ m \subseteq Types /\ Prepared(p, t, m, mp, b)
        /\ Built(p, m, mp, b) /\ Spaced(t, 0)
    BY DEF ServerInv
  <1>2. /\ Head(t) = t[1] /\ Len(t) \in Nat \ {0} /\ NB(Tail(t)) \in Nat
        /\ NB(t) = (IF Head(t).act = "Barrier" THEN 1 ELSE 0) + NB(Tail(t))
        /\ SpacedAt(Head(t), 0 + NB(Tail(t)))
    <2>1. 0 \in Nat
      OBVIOUS
    <2> QED
      BY <1>1, <2>1, TailFacts
  <1>3. NB(t) = IF Head(t).act = "Prompt" THEN 2 ELSE 1
    BY <1>2 DEF SpacedAt
  <1>4. "Server" \in m
    <2>1. 1 \in 1 .. Len(t) /\ 1 .. (1 - 1) = {} /\ Step("GetInstance", "Server") \in Needs(p, t[1])
      BY <1>2 DEF Needs
    <2>2. Done(p, Step("GetInstance", "Server"), m, mp, b)
      BY <1>1, <2>1 DEF Prepared
    <2> QED
      BY <2>2 DEF Done, Step
  <1>5. Upto("Server") \subseteq m
    BY <1>1, <1>4, BuiltClosed
  <1>6. Begun(t, m) = Types
    BY <1>1, <1>4, <1>5 DEF Begun, Upto
  <1>7. W(Types) \in Nat
    BY WeightFacts
  <1> QED
    BY <1>3, <1>6, <1>7 DEF Passed

LEMMA LowFacts ==
  ASSUME NEW M, M \subseteq Types, "DataManager" \notin M, "HardwareMonitor" \notin M
  PROVE  /\ W(M) <= W(Low) /\ W(Low) \in Nat /\ W(M) \in Nat
         /\ "FileSegmentAuditor" \notin M => W(M) + 10 <= W(Low)
         /\ Low \subseteq M => W(M) = W(Low)
  <1> DEFINE L1 == Low \cup {"IOClientFactory"}
             L2 == L1 \cup {"DPEFactory"}
             L3 == L2 \cup {"MaxBandwidthDPE"}
             L4 == L3 \cup {"EventManager"}
  <1>1. /\ {"IOClientFactory", "DPEFactory", "MaxBandwidthDPE", "EventManager"} \subseteq Types
        /\ "IOClientFactory" \notin Low /\ "DPEFactory" \notin L1 /\ "MaxBandwidthDPE" \notin L2
        /\ "EventManager" \notin L3
    BY DEF Types, Low, Clients
  <1>2. M \subseteq L4 /\ "FileSegmentAuditor" \in L4
    BY DEF Types, Low, Clients
  <1>3. /\ Weight("IOClientFactory") = 0 /\ Weight("DPEFactory") = 0
        /\ Weight("MaxBandwidthDPE") = 0 /\ Weight("EventManager") = 0
    BY DEF Weight
  <1> HIDE DEF L1, L2, L3, L4
  <1>4. W(L4) = W(Low) /\ W(Low) \in Nat
    <2>1. W(L1) = W(Low) + 0 /\ W(Low) \in Nat
      BY <1>1, <1>3, WeightFacts DEF L1
    <2>2. W(L2) = W(L1) + 0
      BY <1>1, <1>3, WeightFacts DEF L2
    <2>3. W(L3) = W(L2) + 0
      BY <1>1, <1>3, WeightFacts DEF L3
    <2>4. W(L4) = W(L3) + 0
      BY <1>1, <1>3, WeightFacts DEF L4
    <2> QED
      BY <2>1, <2>2, <2>3, <2>4
  <1>5. W(M) <= W(Low) /\ W(M) \in Nat
    BY <1>2, <1>4, WeightFacts
  <1>6. ASSUME "FileSegmentAuditor" \notin M PROVE W(M) + 10 <= W(Low)
    <2> DEFINE M2 == M \cup {"FileSegmentAuditor"}
    <2>1. M2 \subseteq L4 /\ "FileSegmentAuditor" \in Types
      BY <1>2 DEF Types
    <2>2. W(M2) = W(M) + Weight("FileSegmentAuditor")
      BY <1>6, <2>1, WeightFacts
    <2>3. Weight("FileSegmentAuditor") \in Nat /\ Weight("FileSegmentAuditor") >= 10
      BY CountAssumption DEF Weight
    <2> HIDE DEF M2
    <2>4. W(M2) <= W(L4)
      BY <2>1, WeightFacts
    <2> QED
      BY <1>4, <1>5, <2>2, <2>3, <2>4
  <1>7. ASSUME Low \subseteq M PROVE W(M) = W(Low)
    <2>1. W(Low) <= W(M)
      BY <1>7, WeightFacts
    <2> QED
      BY <1>4, <1>5, <2>1
  <1> QED
    BY <1>4, <1>5, <1>6, <1>7

LEMMA AuditorBegun ==
  ASSUME NEW p \in Servers, NEW t, NEW m, NEW mp, NEW b, ServerInv(p, t, m, mp, b)
  PROVE  /\ "FileSegmentAuditor" \in Begun(t, m) => Low \subseteq Begun(t, m) /\ Clients \subseteq m
         /\ "FileSegmentAuditor" \notin m =>
               "DataManager" \notin Begun(t, m) /\ "HardwareMonitor" \notin Begun(t, m)
  <1>1. /\ m \subseteq Types /\ Built(p, m, mp, b) /\ Rooted(t, m)
        /\ \A e \in Earlier : e[2] \in Begun(t, m) => e[1] \in m
    BY DEF ServerInv
  <1>2. ASSUME "FileSegmentAuditor" \in Begun(t, m)
        PROVE  Low \subseteq Begun(t, m) /\ Clients \subseteq m
    <2>1. "IOClientFactory" \in m
      BY <1>1, <1>2 DEF Earlier
    <2>2. Upto("IOClientFactory") \subseteq m
      BY <1>1, <2>1, BuiltClosed
    <2>3. "Server" \in Begun(t, m)
      BY <1>1, <1>2 DEF Rooted
    <2> QED
      BY <1>2, <2>2, <2>3 DEF Upto, Low, Begun
  <1>3. "DataManager" \in Begun(t, m) => "FileSegmentAuditor" \in m
    BY <1>1 DEF Earlier
  <1>4. "HardwareMonitor" \in Begun(t, m) => "FileSegmentAuditor" \in m
    <2>1. "HardwareMonitor" \in Begun(t, m) => "EventManager" \in m
      BY <1>1 DEF Earlier
    <2>2. "EventManager" \in m => Upto("EventManager") \subseteq m
      BY <1>1, BuiltClosed
    <2> QED
      BY <2>1, <2>2 DEF Upto
  <1> QED
    BY <1>2, <1>3, <1>4

LEMMA AtTheScores ==
  ASSUME NEW p \in Servers, NEW t, NEW m, NEW mp, NEW b, ServerInv(p, t, m, mp, b),
         t # <<>>, Head(t).act = "Call"
  PROVE  Passed(t, m) = W(Low) - 3
  <1>1. /\ t \in Seq(Steps(p)) /\ m \subseteq Types /\ Owned(p, t) /\ Spaced(t, 0)
        /\ \A T \in m : Step("Set", T) \notin Rng(t)
    BY DEF ServerInv
  <1>2. /\ Head(t) = t[1] /\ Len(t) \in Nat \ {0} /\ NB(Tail(t)) \in Nat
        /\ NB(t) = (IF Head(t).act = "Barrier" THEN 1 ELSE 0) + NB(Tail(t))
        /\ SpacedAt(Head(t), 0 + NB(Tail(t)))
    <2>1. 0 \in Nat
      OBVIOUS
    <2> QED
      BY <1>1, <2>1, TailFacts
  <1>3. NB(t) = 3
    BY <1>2 DEF SpacedAt
  <1>4. 1 \in 1 .. Len(t)
    BY <1>2
  <1>5. PICK j \in (1 + 1) .. Len(t) : t[j].act = "Set" /\ t[1] \in Rng(Constructor(p, t[j].on))
    BY <1>1, <1>2, <1>4 DEF Owned
  <1>6. j \in 1 .. Len(t) /\ t[j] \in Steps(p) /\ t[j] \in Rng(t)
    BY <1>1 DEF Rng
  <1>7. t[j] = Step("Set", t[j].on) /\ t[j].on \in Types
    BY <1>5, <1>6, SetIsStep
  <1>8. t[j].on = "FileSegmentAuditor"
    <2>1. Part(t[j].on, t[1])
      BY <1>5, <1>7, ContentParts
    <2> QED
      BY <1>2, <2>1 DEF Part
  <1>9. "FileSegmentAuditor" \in Begun(t, m) /\ "FileSegmentAuditor" \notin m
    BY <1>1, <1>6, <1>7, <1>8 DEF Begun
  <1>10. /\ Low \subseteq Begun(t, m) /\ Begun(t, m) \subseteq Types
         /\ "DataManager" \notin Begun(t, m) /\ "HardwareMonitor" \notin Begun(t, m)
    <2>1. Begun(t, m) \subseteq Types
      BY <1>1 DEF Begun
    <2> QED
      BY <1>9, <2>1, AuditorBegun
  <1>11. W(Begun(t, m)) = W(Low)
    <2> DEFINE M == Begun(t, m)
    <2> HIDE DEF M
    <2>1. /\ Low \subseteq M /\ M \subseteq Types
          /\ "DataManager" \notin M /\ "HardwareMonitor" \notin M
      BY <1>10 DEF M
    <2> QED
      BY <2>1, LowFacts DEF M
  <1> QED
    BY <1>3, <1>11 DEF Passed

LEMMA ReadyForScores ==
  ASSUME NEW p \in Servers, NEW t, NEW m, NEW mp, NEW b, ServerInv(p, t, m, mp, b),
         Passed(t, m) = W(Low) - 3
  PROVE  /\ "LAYER_SCORE_MAP" \in b /\ t # <<>>
         /\ \A j \in 1 .. Len(t) : t[j].act # "Bind"
  <1> DEFINE B == Begun(t, m)
  <1>1. /\ NB(t) \in Nat /\ W(B) \in Nat /\ Passed(t, m) = W(B) - NB(t)
        /\ B \subseteq Types /\ m \subseteq B
        /\ \A j \in 1 .. Len(t) :
              t[j].act = "Bind" /\ t[j].on \notin {"LOCAL_FILE_CLIENT", "MEMORY_CLIENT"} => NB(t) >= 4
        /\ \A j \in 1 .. Len(t) : t[j] \in Steps(p)
    BY SpacedFacts
  <1>2. /\ m \subseteq Types /\ Prepared(p, t, m, mp, b)
        /\ "FileSegmentAuditor" \in m => Passed(t, m) >= W(Low) - 2
        /\ \A T \in m : Step("Set", T) \notin Rng(t)
        /\ Owned(p, t)
    BY DEF ServerInv
  <1>3. W(Low) \in Nat
    BY WeightFacts
  <1>4. "FileSegmentAuditor" \notin m
    BY <1>2, <1>3
  <1>5. "DataManager" \notin B /\ "HardwareMonitor" \notin B
    BY <1>4, AuditorBegun
  <1> HIDE DEF B
  <1>6. "FileSegmentAuditor" \in B /\ W(B) <= W(Low)
    <2>1. W(B) <= W(Low) /\ ("FileSegmentAuditor" \notin B => W(B) + 10 <= W(Low))
      BY <1>1, <1>5, LowFacts
    <2> QED
      BY <1>1, <1>3, <2>1
  <1>7. NB(t) <= 3
    BY <1>1, <1>3, <1>6
  <1>8. Clients \subseteq m
    BY <1>6, AuditorBegun DEF B
  <1>9. \A j \in 1 .. Len(t) : t[j].act # "Bind"
    <2> SUFFICES ASSUME NEW i \in 1 .. Len(t), t[i].act = "Bind" PROVE FALSE
      OBVIOUS
    <2>0. t[i].on \in {"LOCAL_FILE_CLIENT", "MEMORY_CLIENT"}
      BY <1>1, <1>7
    <2>1. PICK j \in (i + 1) .. Len(t) : t[j].act = "Set" /\ t[i] \in Rng(Constructor(p, t[j].on))
      BY <1>2 DEF Owned
    <2>2. j \in 1 .. Len(t)
      OBVIOUS
    <2>3. t[j] = Step("Set", t[j].on) /\ t[j].on \in Types
      BY <1>1, <2>1, <2>2, SetIsStep
    <2>4. Part(t[j].on, t[i])
      BY <2>1, <2>3, ContentParts
    <2>5. t[j].on \in Clients
      BY <2>0, <2>4 DEF Part, Clients
    <2>6. t[j] \in Rng(t)
      BY <2>2 DEF Rng
    <2> QED
      BY <1>2, <1>8, <2>3, <2>5, <2>6
  <1>10. Step("Set", "FileSegmentAuditor") \in Rng(t)
    BY <1>4, <1>6 DEF B, Begun
  <1>11. PICK j \in 1 .. Len(t) : t[j] = Step("Set", "FileSegmentAuditor")
    BY <1>10 DEF Rng
  <1>12. "LAYER_SCORE_MAP" \in b
    <2> DEFINE st == Step("Bind", "LAYER_SCORE_MAP")
    <2>1. st \in Contents(p, "FileSegmentAuditor")
      BY DEF Contents, Shared
    <2>2. st \in Rng(Constructor(p, "FileSegmentAuditor"))
      BY <2>1, ContentParts DEF Types
    <2>3. st \in Needs(p, t[j])
      BY <1>11, <2>2 DEF Needs, Step
    <2>4. ASSUME NEW i \in 1 .. (j - 1) PROVE ~Ahead(t[i], st)
      <3>1. t[i].act # "Bind"
        BY <1>9
      <3> QED
        BY <3>1 DEF Ahead, Step
    <2>5. Done(p, st, m, mp, b)
      BY <1>2, <2>3, <2>4 DEF Prepared
    <2> QED
      BY <2>5 DEF Done, Step
  <1>13. t # <<>>
    BY <1>11
  <1> QED
    BY <1>9, <1>12, <1>13

----------------------------------------------------------------------------
(* The clients. *)

LEMMA FlatSeq ==
  ASSUME NEW S, NEW N \in Nat, NEW g \in [1 .. N -> Seq(S)]
  PROVE  SeqsExt!FlattenSeq(g) \in Seq(S)
  <1>0. Len(g) = N
    OBVIOUS
  <1>1. CASE N = 0
    <2>1. g = <<>>
      BY <1>1
    <2> QED
      BY <2>1 DEF SeqsExt!FlattenSeq
  <1>2. CASE N # 0
    <2>1. PICK f : /\ f[1] = g[1]
                   /\ \A i \in 2 .. N : f[i] = f[i - 1] \o g[i]
                   /\ SeqsExt!FlattenSeq(g) = f[N]
      <3>1. N \in Nat \ {0} /\ Len(g) = N
        BY <1>0, <1>2
      <3> QED
        BY ONLY <3>1, Flat
    <2> DEFINE Bad == {i \in 1 .. N : f[i] \notin Seq(S)}
    <2>2. Bad = {}
      <3> SUFFICES ASSUME Bad # {} PROVE FALSE
        OBVIOUS
      <3>1. Bad \subseteq Nat
        OBVIOUS
      <3>2. PICK i \in Bad : \A j \in Bad : i <= j
        <4> HIDE DEF Bad
        <4> QED
          BY <3>1, Least
      <3>3. CASE i = 1
        BY <2>1, <3>3
      <3>4. CASE i # 1
        <4>1. i \in 2 .. N /\ i - 1 \in 1 .. N /\ ~(i <= i - 1)
          BY <3>4
        <4>2. f[i - 1] \in Seq(S) /\ g[i] \in Seq(S)
          BY <3>2, <4>1
        <4>3. f[i - 1] \o g[i] \in Seq(S)
          BY <4>2
        <4> QED
          BY <2>1, <4>1, <4>3
      <3> QED
        BY <3>3, <3>4
    <2>3. N \in 1 .. N
      BY <1>2
    <2> QED
      BY <2>1, <2>2, <2>3
  <1> QED
    BY <1>1, <1>2

LEMMA ClientSteps ==
  ASSUME NEW p \in Procs, ~p.server
  PROVE  /\ Application(p) \in Seq(Steps(p))
         /\ \A T \in Types : Constructor(p, T) \in Seq(Steps(p)) /\ <<Step("Set", T)>> \in Seq(Steps(p))
  <1> DEFINE S == Steps(p)
  <1>1. \A s, u : s \in Seq(S) /\ u \in Seq(S) => s \o u \in Seq(S)
    OBVIOUS
  <1>2. /\ Collective \in S /\ Step("Work", "hfetch") \in S
        /\ \A T \in Types : Get(T) \in S /\ Step("Set", T) \in S
        /\ \A x \in Names : Step("Open", x) \in S
    BY DEF Steps, StepOK, Step, Collective, Get, Acts, Things, Types
  <1>3. \A st \in S : <<st>> \in Seq(S)
    OBVIOUS
  <1>4. <<>> \in Seq(S)
    OBVIOUS
  <1> HIDE DEF S
  <1>5. /\ Barrier \in Seq(S) /\ <<Step("Work", "hfetch")>> \in Seq(S)
        /\ \A T \in Types : GetInstance(T) \in Seq(S) /\ <<Step("Set", T)>> \in Seq(S)
        /\ \A x \in Names : Open(x) \in Seq(S)
        /\ \A s : If(p.server, s) = <<>>
        /\ \A s : If(~p.server, s) = s
    BY <1>2, <1>3, <1>4 DEF Barrier, Collective, GetInstance, Get, Open, If
  <1>6. {GetInstance(T) : T \in Types} \subseteq Seq(S)
    BY <1>5
  <1>7. ASSUME NEW x \in Names
        PROVE  DistributedHashMap(p, x) \in Seq(S) /\ GlobalSequence(p, x) \in Seq(S)
    <2>1. /\ DistributedHashMap(p, x) = GetInstance("RPC") \o <<>> \o Barrier \o Open(x) \o Barrier
          /\ GlobalSequence(p, x) = GetInstance("RPC") \o <<>> \o Barrier \o Open(x) \o Barrier
      BY <1>5 DEF DistributedHashMap, GlobalSequence
    <2>2. GetInstance("RPC") \in Seq(S)
      BY <1>5 DEF Types
    <2>3. GetInstance("RPC") \o <<>> \in Seq(S)
      BY <1>1, <1>4, <2>2
    <2> QED
      BY <1>1, <1>5, <2>1, <2>3
  <1>8. Offsets(p) \in Seq(S)
    <2> DEFINE N == Len(OffsetMaps)
               g == [i \in DOMAIN OffsetMaps |-> DistributedMap(p, OffsetMaps[i])]
    <2>1. N \in Nat /\ DOMAIN OffsetMaps = 1 .. N
      BY CountAssumption
    <2>2. g \in [1 .. N -> Seq(S)]
      BY <1>7, <2>1 DEF DistributedMap, Names
    <2> HIDE DEF g, N
    <2> QED
      BY <2>1, <2>2, FlatSeq DEF Offsets, g
  <1>9. /\ GetInstance("RPC") \in Seq(S) /\ GetInstance("Server") \in Seq(S)
        /\ GetInstance("SharedFileClient") \in Seq(S) /\ GetInstance("LocalFileClient") \in Seq(S)
        /\ GetInstance("MemoryClient") \in Seq(S) /\ GetInstance("IOClientFactory") \in Seq(S)
        /\ GetInstance("FileSegmentAuditor") \in Seq(S) /\ GetInstance("DataManager") \in Seq(S)
        /\ GetInstance("DPEFactory") \in Seq(S) /\ GetInstance("MaxBandwidthDPE") \in Seq(S)
    BY <1>5 DEF Types
  <1>10. Application(p) \in Seq(S)
    BY <1>1, <1>5, <1>9 DEF Application
  <1>11. RPC(p) \in Seq(S)
    <2>1. Open("RPC_SERVER_LIST") \in Seq(S)
      BY <1>5 DEF Names
    <2> QED
      BY <1>1, <1>5, <2>1 DEF RPC
  <1>12. SharedFileClient(p, SharedNames) \in Seq(S) /\ SharedFileClient(p, LocalNames) \in Seq(S)
    BY <1>1, <1>7 DEF SharedFileClient, SharedNames, LocalNames, Names
  <1>13. LocalFileClient(p) \in Seq(S)
    BY <1>1, <1>4, <1>5, <1>9, <1>12 DEF LocalFileClient
  <1>14. MemoryClient(p) \in Seq(S)
    <2>1. DistributedHashMap(p, "DATA_MAP") \in Seq(S)
      BY <1>7 DEF Names
    <2> QED
      BY <1>1, <1>4, <1>5, <1>9, <2>1 DEF MemoryClient
  <1>15. IOClientFactory \in Seq(S)
    BY <1>1, <1>9 DEF IOClientFactory
  <1>16. FileSegmentAuditor(p) \in Seq(S)
    <2> DEFINE a == DistributedHashMap(p, "VALID_SEQ")
               b == DistributedHashMap(p, "FILE_ACTIVE_STATUS")
               c == DistributedHashMap(p, "LAYER_SCORE_MAP")
               d == GlobalSequence(p, "FILE_INDEX")
               e == GetInstance("RPC")
               f == GetInstance("IOClientFactory")
               g == Offsets(p)
               h == <<>>
    <2>1. a \in Seq(S) /\ b \in Seq(S) /\ c \in Seq(S) /\ d \in Seq(S)
      BY <1>7 DEF Names
    <2>2. e \in Seq(S) /\ f \in Seq(S) /\ g \in Seq(S) /\ h \in Seq(S)
      BY <1>4, <1>8, <1>9
    <2>3. FileSegmentAuditor(p) = a \o b \o c \o d \o e \o f \o g \o h
      BY <1>5 DEF FileSegmentAuditor, Auditor
    <2> HIDE DEF a, b, c, d, e, f, g, h
    <2>4. a \o b \o c \o d \in Seq(S)
      BY <1>1, <2>1
    <2>5. a \o b \o c \o d \o e \o f \o g \o h \in Seq(S)
      BY <1>1, <2>2, <2>4
    <2> QED
      BY <2>3, <2>5
  <1>17. DataManager(p) \in Seq(S)
    <2>1. GlobalSequence(p, "FILE_NUM_SEQ") \in Seq(S)
      BY <1>7 DEF Names
    <2> QED
      BY <1>1, <1>9, <2>1 DEF DataManager
  <1>18. MaxBandwidthDPE \in Seq(S) /\ EventManager \in Seq(S)
    BY <1>1, <1>9 DEF MaxBandwidthDPE, EventManager
  <1>19. HardwareMonitor(p) \in Seq(S)
    BY <1>7 DEF HardwareMonitor, DistributedMessageQueue, Names
  <1>20. Server(p) \in Seq(S)
    <2> DEFINE a == GlobalClock(p)
               b == DistributedMessageQueue(p, "APPLICATION_QUEUE")
               c == GetInstance("RPC")
               d == <<>>
               e == GetInstance("FileSegmentAuditor")
    <2>1. a \in Seq(S) /\ b \in Seq(S)
      BY <1>7 DEF GlobalClock, DistributedMessageQueue, Names
    <2>2. c \in Seq(S) /\ d \in Seq(S) /\ e \in Seq(S)
      BY <1>4, <1>9
    <2>3. Server(p) = a \o b \o c \o d \o e
      BY <1>5 DEF Server
    <2> HIDE DEF a, b, c, d, e
    <2> QED
      BY <1>1, <2>1, <2>2, <2>3
  <1>21. ASSUME NEW T \in Types PROVE Constructor(p, T) \in Seq(S)
    BY <1>4, <1>11, <1>12, <1>13, <1>14, <1>15, <1>16, <1>17, <1>18, <1>19, <1>20
       DEF Constructor, Types
  <1> QED
    BY <1>5, <1>10, <1>21 DEF S

----------------------------------------------------------------------------
(* main of a server. *)

LEMMA EndPieces ==
  ASSUME NEW p \in Servers, NEW A
  PROVE  /\ p.rank = 0 => Fits(p, <<Step("Prompt", "key")>>, 2, 0, A, {Step("Prompt", "key")})
         /\ Fits(p, <<Step("Stop", "Server")>>, 1, 0, A, {Step("Stop", "Server")})
         /\ Fits(p, <<Step("Exit", "main")>>, 0, 0, A, {Step("Exit", "main")})
  <1>1. ASSUME NEW a \in {"Prompt", "Stop", "Exit"}, NEW x \in {"key", "Server", "main"},
               a = "Prompt" => p.rank = 0, NEW k \in Nat, SpacedAt(Step(a, x), k)
        PROVE  Fits(p, <<Step(a, x)>>, k, 0, A, {Step(a, x)})
    <2> DEFINE st == Step(a, x)
    <2>1. st.act = a /\ st.act # "Barrier" /\ \A e \in Earlier : st # Get(e[2])
      BY DEF Step, Get
    <2>2. st \in Steps(p)
      BY <1>1 DEF Servers, Steps, StepOK, Step, Acts, Things, Types
    <2>3. SpacedAt(st, k)
      BY <1>1
    <2> HIDE DEF st
    <2>4. Fits(p, <<st>>, k, IF st.act = "Barrier" THEN 1 ELSE 0, A, {st})
      BY <2>1, <2>2, <2>3, FitsOne
    <2> QED
      BY <2>1, <2>4 DEF st
  <1>2. /\ SpacedAt(Step("Prompt", "key"), 2) /\ SpacedAt(Step("Stop", "Server"), 1)
        /\ SpacedAt(Step("Exit", "main"), 0)
    BY DEF SpacedAt, Step
  <1> QED
    BY <1>1, <1>2

(* A sequence of steps that begins with the first two of main. *)
Opens(S, s) ==
    /\ s \in Seq(S) /\ Len(s) >= 2 /\ s[1] = Collective /\ s[2] = Get("Server")

LEMMA OpensCat ==
  ASSUME NEW S, NEW s, NEW u \in Seq(S), Opens(S, s)
  PROVE  Opens(S, s \o u)
  <1>1. s \in Seq(S) /\ Len(s) >= 2 /\ s[1] = Collective /\ s[2] = Get("Server")
    BY DEF Opens
  <1>2. /\ s \o u \in Seq(S) /\ Len(s \o u) = Len(s) + Len(u)
        /\ Len(s) \in Nat /\ Len(u) \in Nat
        /\ \A i \in 1 .. Len(s) : (s \o u)[i] = s[i]
    BY <1>1, Cat
  <1>3. 1 \in 1 .. Len(s) /\ 2 \in 1 .. Len(s) /\ Len(s \o u) >= 2
    BY <1>1, <1>2
  <1> QED
    BY <1>1, <1>2, <1>3 DEF Opens

LEMMA MainInv ==
  ASSUME NEW p \in Servers, NEW mp, NEW b
  PROVE  ServerInv(p, main(p), {}, mp, b) /\ Passed(main(p), {}) = W({}) - 3
  <1> DEFINE A == {}
             S == Steps(p)
             Key == IF p.rank = 0 THEN {Step("Prompt", "key")} ELSE {}
             a1 == Barrier
             a2 == GetInstance("Server")
             a3 == If(p.rank = 0, <<Step("Prompt", "key")>>)
             a5 == <<Step("Stop", "Server")>>
             a7 == <<Step("Exit", "main")>>
             s2 == a1 \o a2
             s3 == s2 \o a3
             s4 == s3 \o a1
             s5 == s4 \o a5
             s6 == s5 \o a1
             t == s6 \o a7
             R2 == {Collective} \cup {Get("Server")}
             R3 == R2 \cup Key
             R4 == R3 \cup {Collective}
             R5 == R4 \cup {Step("Stop", "Server")}
             R6 == R5 \cup {Collective}
             R7 == R6 \cup {Step("Exit", "main")}
  <1>1. /\ 0 \in Nat /\ 1 \in Nat /\ 2 \in Nat /\ 2 = 2 + 0 /\ 2 = 1 + 1 /\ 1 = 1 + 0 /\ 1 = 0 + 1
        /\ 0 = 0 + 0 /\ 3 = 2 + 1 /\ 3 = 3 + 0 /\ 2 >= 2
    OBVIOUS
  <1>2. /\ Fits(p, a1, 2, 1, A, {Collective}) /\ Fits(p, a1, 1, 1, A, {Collective})
        /\ Fits(p, a1, 0, 1, A, {Collective}) /\ Fits(p, <<>>, 2, 0, A, {})
    BY <1>1, Pieces
  <1>3. Fits(p, a2, 2, 0, A, {Get("Server")})
    <2>1. "Server" \in Types /\ \A e \in Earlier : e[2] # "Server"
      BY DEF Types, Earlier
    <2> QED
      BY <1>1, <2>1, Pieces
  <1>4. Fits(p, a3, 2, 0, A, Key)
    BY <1>2, EndPieces DEF If
  <1>5. Fits(p, a5, 1, 0, A, {Step("Stop", "Server")}) /\ Fits(p, a7, 0, 0, A, {Step("Exit", "main")})
    BY EndPieces
  <1>6. main(p) = t
    BY DEF main
  <1>7. Opens(S, s2)
    <2>1. /\ a1 \in Seq(S) /\ Len(a1) = 1 /\ a1[1] = Collective
          /\ a2 \in Seq(S) /\ Len(a2) = 1 /\ a2[1] = Get("Server")
      BY <1>2, <1>3 DEF Fits, Barrier, Collective, GetInstance, Get
    <2> HIDE DEF a1, a2, S
    <2>2. /\ s2 \in Seq(S) /\ Len(s2) = Len(a1) + Len(a2)
          /\ \A i \in 1 .. Len(a1) : s2[i] = a1[i]
          /\ \A i \in 1 .. Len(a2) : s2[i + Len(a1)] = a2[i]
      <3>1. a1 \in Seq(S) /\ a2 \in Seq(S)
        BY <2>1
      <3> QED
        BY ONLY <3>1, Cat
    <2> HIDE DEF s2
    <2>3. 1 \in 1 .. Len(a1) /\ 1 \in 1 .. Len(a2) /\ 1 + Len(a1) = 2 /\ Len(s2) = 2
      BY <2>1, <2>2
    <2>4. s2[1] = a1[1] /\ s2[1 + Len(a1)] = a2[1]
      BY <2>2, <2>3
    <2> QED
      BY <2>1, <2>2, <2>3, <2>4 DEF Opens
  <1> HIDE DEF a1, a2, a3, a5, a7, A
  <1>8. Fits(p, s2, 2, 1, A, R2)
    BY <1>1, <1>2, <1>3, FitsJoin
  <1> HIDE DEF s2, R2, Key
  <1>9. Fits(p, s3, 2, 1, A, R3)
    BY <1>1, <1>4, <1>8, FitsJoin
  <1> HIDE DEF s3, R3
  <1>10. Fits(p, s4, 1, 2, A, R4)
    BY <1>1, <1>2, <1>9, FitsJoin
  <1> HIDE DEF s4, R4
  <1>11. Fits(p, s5, 1, 2, A, R5)
    BY <1>1, <1>5, <1>10, FitsJoin
  <1> HIDE DEF s5, R5
  <1>12. Fits(p, s6, 0, 3, A, R6)
    BY <1>1, <1>2, <1>11, FitsJoin
  <1> HIDE DEF s6, R6
  <1>13. Fits(p, t, 0, 3, A, R7)
    BY <1>1, <1>5, <1>12, FitsJoin
  <1>14. Opens(S, t)
    <2>1. a1 \in Seq(S) /\ a3 \in Seq(S) /\ a5 \in Seq(S) /\ a7 \in Seq(S)
      BY <1>2, <1>4, <1>5 DEF Fits
    <2> HIDE DEF S
    <2>2. Opens(S, s3)
      BY <1>7, <2>1, OpensCat DEF s3
    <2>3. Opens(S, s4)
      BY <2>1, <2>2, OpensCat DEF s4
    <2>4. Opens(S, s5)
      BY <2>1, <2>3, OpensCat DEF s5
    <2>5. Opens(S, s6)
      BY <2>1, <2>4, OpensCat DEF s6
    <2> QED
      BY <2>1, <2>5, OpensCat
  <1>15. /\ \A st \in R6 : \/ st = Collective \/ st = Get("Server") \/ st = Step("Prompt", "key")
                           \/ st = Step("Stop", "Server")
         /\ Get("Server") \in R6
    BY DEF R2, R3, R4, R5, R6, Key
  <1>16. \A st \in R6 : /\ st.act \in {"Barrier", "GetInstance", "Prompt", "Stop"}
                        /\ st.act = "GetInstance" => st.on = "Server"
    BY <1>15 DEF Collective, Get, Step
  <1>17. \A j \in 1 .. Len(t) : j # Len(t) => t[j] \in R6
    <2>1. s6 \in Seq(S) /\ a7 \in Seq(S) /\ Rng(s6) = R6
      BY <1>5, <1>12 DEF Fits
    <2>2. Len(a7) = 1
      BY DEF a7
    <2> HIDE DEF S
    <2>3. /\ Len(t) = Len(s6) + Len(a7) /\ Len(s6) \in Nat
          /\ \A i \in 1 .. Len(s6) : t[i] = s6[i]
      BY <2>1, Cat
    <2> HIDE DEF t
    <2>4. ASSUME NEW j \in 1 .. Len(t), j # Len(t) PROVE t[j] \in R6
      <3>1. j \in 1 .. Len(s6)
        BY <2>2, <2>3, <2>4
      <3>2. s6[j] \in Rng(s6)
        BY <3>1 DEF Rng
      <3> QED
        BY <2>1, <2>3, <3>1, <3>2
    <2> QED
      BY <2>4
  <1>18. /\ t \in Seq(S) /\ NB(t) = 3 /\ Spaced(t, 0) /\ Rng(t) = R7
         /\ Len(t) >= 2 /\ t[1] = Collective /\ t[2] = Get("Server")
    BY <1>13, <1>14 DEF Fits, Opens
  <1> HIDE DEF t
  <1>19. \A j \in 1 .. Len(t) :
           /\ t[j].act \in {"Barrier", "GetInstance", "Prompt", "Stop", "Exit"}
           /\ t[j].act = "GetInstance" => t[j].on = "Server"
           /\ t[j].act = "Exit" => j = Len(t)
    <2>1. \A j \in 1 .. Len(t) : t[j] \in R7
      BY <1>18 DEF Rng
    <2> QED
      BY <1>16, <1>17, <2>1 DEF Step
  <1>20. \A T : Step("Set", T) \notin Rng(t)
    BY <1>19 DEF Rng, Step
  <1>21. Begun(t, {}) = {}
    BY <1>20 DEF Begun
  <1>22. Prepared(p, t, {}, mp, b)
    <2> SUFFICES ASSUME NEW j \in 1 .. Len(t), NEW st \in Needs(p, t[j])
                 PROVE  \E i \in 1 .. (j - 1) : Ahead(t[i], st)
      BY DEF Prepared
    <2>1. \A e \in Earlier : t[j] # Step("GetInstance", e[2])
      <3>1. \A e \in Earlier : e[2] # "Server"
        BY DEF Earlier
      <3> QED
        BY <1>19, <3>1 DEF Step
    <2>2. t[j].act \in {"Prompt", "Stop", "Exit"} /\ st = Get("Server")
      BY <1>19, <2>1 DEF Needs, Get
    <2>3. j # 1 /\ j # 2
      BY <1>18, <2>2 DEF Collective, Get, Step
    <2>4. 2 \in 1 .. (j - 1)
      BY <2>3
    <2> QED
      BY <1>18, <2>2, <2>4 DEF Ahead
  <1>23. Rooted(t, {})
    <2>1. 2 \in 1 .. Len(t)
      BY <1>18
    <2>2. Step("GetInstance", "Server") \in Rng(t)
      BY <1>18, <2>1 DEF Rng, Get
    <2> QED
      BY <1>19, <1>21, <2>2 DEF Rooted
  <1>24. Nested(t) /\ Owned(p, t) /\ Built(p, {}, mp, b)
    BY <1>19 DEF Nested, Owned, Built
  <1>25. ServerInv(p, t, {}, mp, b)
    BY <1>18, <1>19, <1>21, <1>22, <1>23, <1>24 DEF ServerInv
  <1> QED
    BY <1>6, <1>18, <1>21, <1>25 DEF Passed


----------------------------------------------------------------------------
(* The system. *)

LEMMA ProcFacts ==
  /\ \A p \in Procs : p.server \in BOOLEAN /\ (p \in Servers <=> p.server) /\ MyServer(p) \in Ranks
  /\ \A p \in Servers : p \in Procs /\ p.rank \in Ranks /\ p = Srv(p.rank) /\ MyServer(p) = p.rank
  /\ \A s \in Ranks : Srv(s) \in Servers /\ Srv(s).rank = s
  /\ \A p, q \in Servers : p # q => p.rank # q.rank
  /\ 0 \in Ranks /\ None \notin Ranks
  <1>1. \A p \in Procs : p.server \in BOOLEAN /\ (p \in Servers <=> p.server)
    BY DEF Procs, Servers
  <1>2. ASSUME NEW p \in Servers PROVE p \in Procs /\ p.rank \in Ranks /\ p = Srv(p.rank)
    <2>1. p \in Procs /\ p \in [server : {TRUE}, rank : Ranks]
      BY DEF Servers, Procs
    <2>2. p = [server |-> TRUE, rank |-> p.rank] /\ p.rank \in Ranks
      BY <2>1
    <2> QED
      BY <2>1, <2>2 DEF Srv
  <1>3. \A s \in Ranks : Srv(s) \in Servers /\ Srv(s).rank = s
    BY DEF Servers, Procs, Srv
  <1>4. 0 \in Ranks /\ None \notin Ranks
    BY CountAssumption DEF Ranks
  <1>5. \A p \in Servers : MyServer(p) = p.rank
    BY DEF MyServer, Servers
  <1>6. ASSUME NEW p \in Procs, ~p.server PROVE MyServer(p) \in Ranks
    <2> DEFINE r == p.rank
               d == r \div RanksPerServer
    <2>1. RanksPerServer \in Nat \ {0} /\ NumServers \in Nat \ {0}
            /\ NumClients \in 0 .. (NumServers * RanksPerServer)
      BY CountAssumption
    <2>2. r \in 0 .. (NumClients - 1)
      BY <1>6 DEF Procs
    <2>3. r \in Nat /\ r < NumServers * RanksPerServer
      BY <2>1, <2>2
    <2> HIDE DEF r
    <2>4. d \in Nat /\ d * RanksPerServer <= r
      BY <2>1, <2>3
    <2> HIDE DEF d
    <2>5. d < NumServers
      <3> SUFFICES ASSUME d >= NumServers PROVE FALSE
        BY <2>1, <2>4
      <3>1. d * RanksPerServer >= NumServers * RanksPerServer
        BY <2>1, <2>4
      <3> QED
        BY <2>1, <2>3, <2>4, <3>1
    <2> QED
      BY <1>6, <2>1, <2>4, <2>5 DEF MyServer, Ranks, d, r
  <1> QED
    BY <1>1, <1>2, <1>3, <1>4, <1>5, <1>6

LEMMA HeadFacts ==
  ASSUME BootInv, NEW p \in Procs, todo[p] # <<>>
  PROVE  /\ todo[p] \in Seq(Steps(p)) /\ Tail(todo[p]) \in Seq(Steps(p))
         /\ Head(todo[p]) \in Steps(p) /\ Head(todo[p]) = todo[p][1]
         /\ 1 \in 1 .. Len(todo[p])
         /\ StepOK(p, Head(todo[p]))
  <1>1. todo[p] \in Seq(Steps(p))
    BY DEF BootInv, ServersInv, ServerInv, ClientInv
  <1>2. /\ Tail(todo[p]) \in Seq(Steps(p)) /\ Head(todo[p]) \in Steps(p)
        /\ Head(todo[p]) = todo[p][1] /\ Len(todo[p]) \in Nat \ {0}
    BY <1>1
  <1>3. 1 \in 1 .. Len(todo[p])
    BY <1>2
  <1>4. StepOK(p, Head(todo[p]))
    BY <1>2 DEF Steps
  <1> QED
    BY <1>1, <1>2, <1>3, <1>4

LEMMA InitInv ==
  Init => BootInv
  <1> SUFFICES ASSUME Init PROVE BootInv
    OBVIOUS
  <1>1. PICK left : region = [n \in Names \X Ranks |-> IF n[1] \in left THEN Stale ELSE None]
    BY DEF Init
  <1>2. TypeOK
    <2>1. region \in [Names \X Ranks -> Ranks \cup {None, Stale}]
      BY <1>1
    <2>2. mapped \in [Procs -> [Names -> Ranks \cup {None, Stale}]]
      BY DEF Init
    <2>3. bound \in [Ranks -> SUBSET Bindable] /\ running \subseteq Ranks
      BY DEF Init
    <2>4. call \in [Procs -> (Remote \X Ranks) \cup {None}]
      BY DEF Init
    <2>5. DOMAIN todo = Procs /\ DOMAIN made = Procs /\ ready \in BOOLEAN /\ failed \subseteq Procs
      BY DEF Init
    <2> QED
      BY <2>1, <2>2, <2>3, <2>4, <2>5 DEF TypeOK
  <1>3. ASSUME NEW p \in Servers PROVE todo[p] = main(p) /\ made[p] = {}
    <2>1. p \in Procs /\ p.server
      BY DEF Servers
    <2> QED
      BY <2>1 DEF Init
  <1>4. ServersInv /\ LockStep
    <2>1. ASSUME NEW p \in Servers
          PROVE  /\ ServerInv(p, todo[p], made[p], mapped[p], bound[p.rank])
                 /\ Passed(todo[p], made[p]) = W({}) - 3
      <3>1. ServerInv(p, main(p), {}, mapped[p], bound[p.rank]) /\ Passed(main(p), {}) = W({}) - 3
        BY MainInv
      <3> QED
        BY <1>3, <3>1
    <2> QED
      BY <2>1 DEF ServersInv, LockStep
  <1>5. \A p \in Procs, x \in Names : mapped[p][x] = None
    BY DEF Init
  <1>6. RegionInv
    <2>1. Servers \subseteq Procs
      BY DEF Servers
    <2> QED
      BY <1>5, <2>1 DEF RegionInv
  <1>7. ClientInv
    <2>1. ~ready
      BY DEF Init
    <2>2. ASSUME NEW p \in Procs \ Servers PROVE todo[p] \in Seq(Steps(p))
      <3>1. ~p.server /\ todo[p] = Application(p)
        BY ProcFacts DEF Init
      <3> QED
        BY <3>1, ClientSteps
    <2> QED
      BY <1>5, <2>1, <2>2 DEF ClientInv
  <1>8. CallInv
    BY DEF Init, CallInv
  <1>9. failed = {}
    BY DEF Init
  <1> QED
    BY <1>2, <1>4, <1>6, <1>7, <1>8, <1>9 DEF BootInv

(* When a client runs, or a server drains its queue, every server is        *)
(* complete and there.                                                      *)
LEMMA EveryoneUp ==
  ASSUME BootInv, NEW p \in Procs, todo[p] # <<>>,
         \/ p \notin Servers /\ ready
         \/ p \in Servers /\ Head(todo[p]).act \in {"Stop", "Prompt"},
         NEW q \in Servers
  PROVE  /\ \A x \in Names : mapped[q][x] = q.rank
         /\ Bindable \subseteq bound[q.rank]
         /\ \A j \in 1 .. Len(todo[q]) : todo[q][j].act # "Bind"
         /\ todo[q] # <<>>
  <1>1. PICK s \in Servers : todo[s] # <<>> /\ Head(todo[s]).act \in {"Stop", "Prompt"}
    <2>1. Srv(0) \in Servers
      BY ProcFacts
    <2>2. CASE p \notin Servers /\ ready
      BY <2>1, <2>2 DEF BootInv, ClientInv
    <2>3. CASE p \in Servers /\ Head(todo[p]).act \in {"Stop", "Prompt"}
      BY <2>3
    <2> QED
      BY <2>2, <2>3
  <1>2. /\ ServerInv(s, todo[s], made[s], mapped[s], bound[s.rank])
        /\ ServerInv(q, todo[q], made[q], mapped[q], bound[q.rank])
        /\ Passed(todo[q], made[q]) = Passed(todo[s], made[s])
    BY DEF BootInv, ServersInv, LockStep
  <1>3. Passed(todo[s], made[s]) = W(Types) - (IF Head(todo[s]).act = "Prompt" THEN 2 ELSE 1)
    BY <1>1, <1>2, AtTheEnd
  <1>4. W(Types) \in Nat
    BY WeightFacts
  <1>5. Passed(todo[q], made[q]) >= W(Types) - 2 /\ Passed(todo[q], made[q]) < W(Types)
    BY <1>2, <1>3, <1>4
  <1> QED
    BY <1>2, <1>5, Finished

LEMMA ScoresReady ==
  ASSUME BootInv, NEW p \in Servers, todo[p] # <<>>, Head(todo[p]).act = "Call", NEW q \in Servers
  PROVE  /\ "LAYER_SCORE_MAP" \in bound[q.rank] /\ todo[q] # <<>>
         /\ \A j \in 1 .. Len(todo[q]) : todo[q][j].act # "Bind"
  <1>1. /\ ServerInv(p, todo[p], made[p], mapped[p], bound[p.rank])
        /\ ServerInv(q, todo[q], made[q], mapped[q], bound[q.rank])
        /\ Passed(todo[q], made[q]) = Passed(todo[p], made[p])
    BY DEF BootInv, ServersInv, LockStep
  <1>2. Passed(todo[p], made[p]) = W(Low) - 3
    BY <1>1, AtTheScores
  <1> QED
    BY <1>1, <1>2, ReadyForScores

(* What has to be shown of a step. *)
CallsKept ==
    \A q \in Procs : call'[q] = None \/ (todo'[q] = todo[q] /\ call'[q] = call[q])

ClientsKept ==
    \A q \in Procs \ Servers :
        /\ todo'[q] \in Seq(Steps(q)) /\ (todo'[q] # <<>> => todo[q] # <<>>)
        /\ \A x \in Names : mapped'[q][x] # None => ready /\ mapped'[q][x] = MyServer(q)

PromptKept ==
    \/ todo'[Srv(0)] = todo[Srv(0)]
    \/ todo[Srv(0)] = <<>> \/ Head(todo[Srv(0)]).act # "Prompt"
    \/ ClientsDone

LEMMA Frame ==
  ASSUME BootInv, TypeOK', failed' = failed, ready' = ready,
         ServersInv', LockStep', RegionInv', CallsKept, ClientsKept, PromptKept
  PROVE  BootInv'
  <1>1. ClientInv'
    <2>1. \A q \in Procs \ Servers :
            /\ todo'[q] \in Seq(Steps(q))
            /\ \A x \in Names : mapped'[q][x] # None => ready' /\ mapped'[q][x] = MyServer(q)
      BY DEF ClientsKept
    <2>2. ASSUME ready', NEW q \in Procs \ Servers, todo'[q] # <<>>
          PROVE  todo'[Srv(0)] # <<>> /\ Head(todo'[Srv(0)]).act = "Prompt"
      <3>1. ready /\ todo[q] # <<>>
        BY <2>2 DEF ClientsKept
      <3>2. todo[Srv(0)] # <<>> /\ Head(todo[Srv(0)]).act = "Prompt"
        BY <3>1 DEF BootInv, ClientInv
      <3>3. ~ClientsDone
        BY <3>1, ProcFacts DEF ClientsDone
      <3>4. todo'[Srv(0)] = todo[Srv(0)]
        BY <3>2, <3>3 DEF PromptKept
      <3> QED
        BY <3>2, <3>4
    <2> QED
      BY <2>1, <2>2 DEF ClientInv
  <1>2. CallInv'
    <2> SUFFICES ASSUME NEW p \in Procs, call'[p] # None
                 PROVE  (\/ At(p, "Call") /\ call[p] = <<Arg(p), Head(todo[p]).at>>
                         \/ At(p, "Work") \/ At(p, "Stop"))'
      BY DEF CallInv
    <2>1. todo'[p] = todo[p] /\ call'[p] = call[p]
      BY DEF CallsKept
    <2>2. \/ At(p, "Call") /\ call[p] = <<Arg(p), Head(todo[p]).at>>
          \/ At(p, "Work") \/ At(p, "Stop")
      BY <2>1 DEF BootInv, CallInv
    <2> QED
      BY <2>1, <2>2 DEF At, Arg
  <1>3. failed' = {}
    BY DEF BootInv
  <1> QED
    BY <1>1, <1>2, <1>3 DEF BootInv

LEMMA Idle ==
  ASSUME BootInv, NEW p \in Procs, NEW a, At(p, a), a \notin {"Call", "Work", "Stop"}
  PROVE  call[p] = None
  BY DEF BootInv, CallInv, At

(* The servers keep their invariant when they all pass the same number of   *)
(* collectives.                                                             *)
LEMMA AllServers ==
  ASSUME BootInv, NEW k \in Nat,
         \A q \in Servers : /\ ServerInv(q, todo'[q], made'[q], mapped'[q], bound'[q.rank])
                            /\ Passed(todo'[q], made'[q]) = Passed(todo[q], made[q]) + k
  PROVE  ServersInv' /\ LockStep'
  <1>1. ServersInv'
    BY DEF ServersInv
  <1>2. ASSUME NEW p \in Servers, NEW q \in Servers
        PROVE  Passed(todo'[p], made'[p]) = Passed(todo'[q], made'[q])
    BY DEF BootInv, LockStep
  <1> QED
    BY <1>1, <1>2 DEF LockStep

LEMMA ServersSame ==
  ASSUME BootInv,
         \A q \in Servers : todo'[q] = todo[q] /\ made'[q] = made[q] /\ mapped'[q] = mapped[q],
         bound' = bound, region' = region
  PROVE  ServersInv' /\ LockStep' /\ RegionInv'
  <1>1. ServersInv /\ LockStep /\ RegionInv
    BY DEF BootInv
  <1>2. ServersInv'
    BY <1>1 DEF ServersInv
  <1>3. LockStep'
    BY <1>1 DEF LockStep
  <1>4. RegionInv'
    BY <1>1 DEF RegionInv
  <1> QED
    BY <1>2, <1>3, <1>4

LEMMA ClientsSame ==
  ASSUME BootInv, \A q \in Procs \ Servers : todo'[q] = todo[q] /\ mapped'[q] = mapped[q]
  PROVE  ClientsKept
  BY DEF BootInv, ClientInv, ClientsKept

(* One server moves on; the others stay as they are. *)
Alone(p) ==
    \A q \in Procs : q # p => /\ todo'[q] = todo[q] /\ made'[q] = made[q]
                              /\ mapped'[q] = mapped[q]
                              /\ q \in Servers => bound'[q.rank] = bound[q.rank]

LEMMA OneServer ==
  ASSUME BootInv, NEW p \in Servers, Alone(p),
         ServerInv(p, todo'[p], made'[p], mapped'[p], bound'[p.rank]),
         Passed(todo'[p], made'[p]) = Passed(todo[p], made[p])
  PROVE  ServersInv' /\ LockStep' /\ ClientsKept
  <1>1. \A q \in Servers : /\ ServerInv(q, todo[q], made[q], mapped[q], bound[q.rank])
                           /\ Passed(todo[q], made[q]) = Passed(todo[p], made[p])
    BY DEF BootInv, ServersInv, LockStep
  <1>2. Servers \subseteq Procs
    BY DEF Servers
  <1>3. \A q \in Servers : /\ ServerInv(q, todo'[q], made'[q], mapped'[q], bound'[q.rank])
                           /\ Passed(todo'[q], made'[q]) = Passed(todo[p], made[p])
    BY <1>1, <1>2 DEF Alone
  <1>4. ServersInv' /\ LockStep'
    BY <1>3 DEF ServersInv, LockStep
  <1>5. ClientsKept
    BY ClientsSame DEF Alone
  <1> QED
    BY <1>4, <1>5

Taken(p) ==
    /\ todo[p] # <<>> /\ todo'[p] = Tail(todo[p])
    /\ Takes(p, Head(todo[p]), made[p], mapped[p], bound[p.rank], made'[p], mapped'[p], bound'[p.rank])

LEMMA ServerPasses ==
  ASSUME BootInv, NEW p \in Servers, Taken(p)
  PROVE  /\ ServerInv(p, todo'[p], made'[p], mapped'[p], bound'[p.rank])
         /\ Passed(todo'[p], made'[p]) = Passed(todo[p], made[p]) + Collectives(Head(todo[p]))
         /\ Passed(todo[p], made[p]) \in Int
  <1>1. ServerInv(p, todo[p], made[p], mapped[p], bound[p.rank])
    BY DEF BootInv, ServersInv
  <1>2. todo[p] # <<>> /\ todo'[p] = Tail(todo[p])
    BY DEF Taken
  <1>3. Takes(p, Head(todo[p]), made[p], mapped[p], bound[p.rank], made'[p], mapped'[p], bound'[p.rank])
    BY DEF Taken
  <1>4. /\ ServerInv(p, Tail(todo[p]), made'[p], mapped'[p], bound'[p.rank])
        /\ Passed(Tail(todo[p]), made'[p]) = Passed(todo[p], made[p]) + Collectives(Head(todo[p]))
    <2> DEFINE t == todo[p]
               m2 == made'[p]
               mp2 == mapped'[p]
               b2 == bound'[p.rank]
               m == made[p]
               mp == mapped[p]
               b == bound[p.rank]
    <2>1. ServerInv(p, t, m, mp, b)
      BY <1>1
    <2>2. t # <<>>
      BY <1>2
    <2>3. Takes(p, Head(t), m, mp, b, m2, mp2, b2)
      BY <1>3
    <2> HIDE DEF t, m2, mp2, b2, m, mp, b
    <2>4. /\ ServerInv(p, Tail(t), m2, mp2, b2)
          /\ Passed(Tail(t), m2) = Passed(t, m) + Collectives(Head(t))
      BY ONLY p \in Servers, <2>1, <2>2, <2>3, Consume
    <2> QED
      BY <2>4 DEF t, m2, mp2, b2, m, mp, b
  <1>5. /\ NB(todo[p]) \in Nat /\ W(Begun(todo[p], made[p])) \in Nat
        /\ Passed(todo[p], made[p]) = W(Begun(todo[p], made[p])) - NB(todo[p])
    BY <1>1, SpacedFacts
  <1>6. Passed(todo[p], made[p]) \in Int
    BY <1>5
  <1> QED
    BY <1>2, <1>4, <1>6

LEMMA ServerTakes ==
  ASSUME BootInv, NEW p \in Servers, Alone(p), Taken(p), Head(todo[p]).act # "Barrier"
  PROVE  ServersInv' /\ LockStep' /\ ClientsKept
  <1>1. /\ ServerInv(p, todo'[p], made'[p], mapped'[p], bound'[p.rank])
        /\ Passed(todo'[p], made'[p]) = Passed(todo[p], made[p]) + Collectives(Head(todo[p]))
        /\ Passed(todo[p], made[p]) \in Int
    BY ServerPasses
  <1>2. Passed(todo'[p], made'[p]) = Passed(todo[p], made[p])
    BY <1>1 DEF Collectives
  <1> QED
    BY <1>1, <1>2, OneServer

LEMMA Moves ==
  ASSUME BootInv, NEW p \in Procs, NEW a, At(p, a), a \notin {"Call", "Work", "Stop", "Prompt"},
         \A q \in Procs : q # p => todo'[q] = todo[q], call' = call
  PROVE  CallsKept /\ PromptKept
  <1>1. call[p] = None
    BY Idle
  <1>2. CallsKept
    BY <1>1 DEF CallsKept
  <1>3. Srv(0) \in Procs
    BY ProcFacts
  <1>4. PromptKept
    BY <1>3 DEF PromptKept, At
  <1> QED
    BY <1>2, <1>4

LEMMA RegionSame ==
  ASSUME BootInv, NEW p \in Procs, todo[p] # <<>>, region' = region, mapped' = mapped,
         \A q \in Procs : q # p => todo'[q] = todo[q]
  PROVE  RegionInv'
  <1>1. Servers \subseteq Procs
    BY DEF Servers
  <1> QED
    BY <1>1 DEF BootInv, RegionInv

LEMMA GetInstanceKeeps ==
  ASSUME BootInv, NEW p \in Procs, DoGetInstance(p)
  PROVE  BootInv'
  <1> DEFINE T == Arg(p)
             u == Constructor(p, T) \o <<Step("Set", T)>> \o Tail(todo[p])
  <1>1. /\ At(p, "GetInstance") /\ todo[p] # <<>> /\ Head(todo[p]).act = "GetInstance"
        /\ ~p.server => ready
        /\ made' = made /\ region' = region /\ mapped' = mapped /\ bound' = bound
        /\ running' = running /\ call' = call /\ ready' = ready /\ failed' = failed
    BY DEF DoGetInstance, At
  <1>2. TypeOK /\ DOMAIN todo = Procs
    BY DEF BootInv, TypeOK
  <1>3. /\ DOMAIN todo' = Procs /\ \A q \in Procs : q # p => todo'[q] = todo[q]
        /\ T \in made[p] => todo'[p] = Tail(todo[p])
        /\ T \notin made[p] => todo'[p] = u
    BY <1>2 DEF DoGetInstance
  <1>4. TypeOK'
    BY <1>1, <1>2, <1>3 DEF TypeOK
  <1>5. CallsKept /\ PromptKept
    BY <1>1, <1>3, Moves
  <1>6. RegionInv'
    BY <1>1, <1>3, RegionSame
  <1>7. /\ Tail(todo[p]) \in Seq(Steps(p)) /\ Head(todo[p]) \in Steps(p)
        /\ Head(todo[p]) = Get(T) /\ T \in Types
    <2>1. Tail(todo[p]) \in Seq(Steps(p)) /\ Head(todo[p]) \in Steps(p)
      BY <1>1, HeadFacts
    <2>2. Head(todo[p]) = Step("GetInstance", T) /\ T \in Types
      BY <1>1, <2>1, SetIsStep DEF Arg
    <2> QED
      BY <2>1, <2>2 DEF Get
  <1>8. ServersInv' /\ LockStep' /\ ClientsKept
    <2>1. Alone(p)
      BY <1>1, <1>3 DEF Alone
    <2>2. CASE p \in Servers /\ T \in made[p]
      <3>1. Taken(p)
        BY <1>1, <1>3, <2>2 DEF Taken, Takes, Arg
      <3> QED
        BY <1>1, <1>3, <2>1, <2>2, <3>1, ServerTakes
    <2>3. CASE p \in Servers /\ T \notin made[p]
      <3>1. ServerInv(p, todo[p], made[p], mapped[p], bound[p.rank])
        BY <2>3 DEF BootInv, ServersInv
      <3> HIDE DEF T
      <3>0. u = Constructor(p, T) \o <<Step("Set", T)>> \o Tail(todo[p])
        OBVIOUS
      <3> HIDE DEF u
      <3>2. ServerInv(p, u, made[p], mapped[p], bound[p.rank]) /\ Passed(u, made[p]) = Passed(todo[p], made[p])
        <4>1. p \in Servers /\ Constructs(p, T, todo[p], made[p], u)
          BY <1>1, <1>7, <2>3, <3>0 DEF Constructs
        <4> QED
          BY <3>1, <4>1, Expand
      <3>3. todo'[p] = u /\ made'[p] = made[p] /\ mapped'[p] = mapped[p] /\ bound'[p.rank] = bound[p.rank]
        BY <1>1, <1>3, <2>3
      <3>4. /\ ServerInv(p, todo'[p], made'[p], mapped'[p], bound'[p.rank])
            /\ Passed(todo'[p], made'[p]) = Passed(todo[p], made[p])
        BY <3>2, <3>3
      <3> QED
        BY <2>1, <2>3, <3>4, OneServer
    <2>4. CASE p \notin Servers
      <3>1. ServersInv' /\ LockStep'
        <4>1. \A q \in Servers : todo'[q] = todo[q] /\ made'[q] = made[q] /\ mapped'[q] = mapped[q]
          BY <1>1, <1>3, <2>4 DEF Servers
        <4> QED
          BY <1>1, <4>1, ServersSame
      <3>2. todo'[p] \in Seq(Steps(p))
        <4>1. CASE T \in made[p]
          BY <1>3, <1>7, <4>1
        <4>2. CASE T \notin made[p]
          <5>1. Constructor(p, T) \in Seq(Steps(p)) /\ <<Step("Set", T)>> \in Seq(Steps(p))
            BY <1>7, <2>4, ProcFacts, ClientSteps
          <5> HIDE DEF T
          <5>2. u \in Seq(Steps(p))
            BY <1>7, <5>1
          <5> QED
            BY <1>3, <4>2, <5>2
        <4> QED
          BY <4>1, <4>2
      <3>3. ClientsKept
        <4>1. ClientInv
          BY DEF BootInv
        <4> QED
          BY <1>1, <1>3, <3>2, <4>1 DEF ClientsKept, ClientInv
      <3> QED
        BY <3>1, <3>3
    <2> QED
      BY <2>2, <2>3, <2>4
  <1> QED
    BY <1>1, <1>4, <1>5, <1>6, <1>8, Frame

(* A client moves on. *)
LEMMA ClientTakes ==
  ASSUME BootInv, NEW p \in Procs \ Servers, todo[p] # <<>>,
         \A q \in Procs : q # p => /\ todo'[q] = todo[q] /\ mapped'[q] = mapped[q]
                                   /\ made'[q] = made[q],
         bound' = bound, region' = region,
         todo'[p] = Tail(todo[p]) \/ todo'[p] = todo[p],
         \A x \in Names : mapped'[p][x] # None => ready /\ mapped'[p][x] = MyServer(p)
  PROVE  ServersInv' /\ LockStep' /\ RegionInv' /\ ClientsKept
  <1>1. ServersInv' /\ LockStep' /\ RegionInv'
    <2>1. \A q \in Servers : todo'[q] = todo[q] /\ made'[q] = made[q] /\ mapped'[q] = mapped[q]
      BY DEF Servers
    <2> QED
      BY <2>1, ServersSame
  <1>2. todo'[p] \in Seq(Steps(p))
    BY HeadFacts
  <1>3. ClientsKept
    <2>1. ClientInv
      BY DEF BootInv
    <2> QED
      BY <1>2, <2>1 DEF ClientsKept, ClientInv
  <1> QED
    BY <1>1, <1>3

LEMMA SetInstanceKeeps ==
  ASSUME BootInv, NEW p \in Procs, SetInstance(p)
  PROVE  BootInv'
  <1>1. /\ At(p, "Set") /\ todo[p] # <<>> /\ Head(todo[p]).act = "Set"
        /\ region' = region /\ mapped' = mapped /\ bound' = bound
        /\ running' = running /\ call' = call /\ ready' = ready /\ failed' = failed
    BY DEF SetInstance, At
  <1>2. TypeOK /\ DOMAIN todo = Procs /\ DOMAIN made = Procs
    BY DEF BootInv, TypeOK
  <1>3. /\ DOMAIN todo' = Procs /\ \A q \in Procs : q # p => todo'[q] = todo[q]
        /\ todo'[p] = Tail(todo[p])
        /\ DOMAIN made' = Procs /\ \A q \in Procs : q # p => made'[q] = made[q]
        /\ made'[p] = made[p] \cup {Arg(p)}
    BY <1>2 DEF SetInstance, Advance
  <1>4. TypeOK'
    BY <1>1, <1>2, <1>3 DEF TypeOK
  <1>5. CallsKept /\ PromptKept
    BY <1>1, <1>3, Moves
  <1>6. RegionInv'
    BY <1>1, <1>3, RegionSame
  <1>7. ServersInv' /\ LockStep' /\ ClientsKept
    <2>1. CASE p \in Servers
      <3>1. Alone(p)
        BY <1>1, <1>3 DEF Alone
      <3>2. Taken(p)
        BY <1>1, <1>3 DEF Taken, Takes, Arg
      <3> QED
        BY <1>1, <1>3, <2>1, <3>1, <3>2, ServerTakes
    <2>2. CASE p \notin Servers
      <3>1. \A x \in Names : mapped'[p][x] # None => ready /\ mapped'[p][x] = MyServer(p)
        BY <1>1, <2>2 DEF BootInv, ClientInv
      <3> QED
        BY <1>1, <1>3, <2>2, <3>1, ClientTakes
    <2> QED
      BY <2>1, <2>2
  <1> QED
    BY <1>1, <1>4, <1>5, <1>6, <1>7, Frame

LEMMA BarrierKeeps ==
  ASSUME BootInv, NEW p \in Procs, DoBarrier(p)
  PROVE  BootInv'
  <1>1. /\ \A q \in Job(p) : At(q, "Barrier") /\ todo[q] # <<>> /\ Head(todo[q]).act = "Barrier"
        /\ made' = made /\ region' = region /\ mapped' = mapped /\ bound' = bound
        /\ running' = running /\ call' = call /\ ready' = ready /\ failed' = failed
    BY DEF DoBarrier, At
  <1>2. TypeOK /\ DOMAIN todo = Procs /\ Job(p) \subseteq Procs
    BY DEF BootInv, TypeOK, Job
  <1>3. /\ DOMAIN todo' = Procs
        /\ \A q \in Procs : todo'[q] = IF q \in Job(p) THEN Tail(todo[q]) ELSE todo[q]
    BY DEF DoBarrier
  <1>4. TypeOK'
    BY <1>1, <1>2, <1>3 DEF TypeOK
  <1>5. CallsKept
    <2> SUFFICES ASSUME NEW q \in Procs, call'[q] # None PROVE todo'[q] = todo[q]
      BY <1>1 DEF CallsKept
    <2>1. q \notin Job(p)
      BY <1>1, Idle
    <2> QED
      BY <1>3, <2>1
  <1>6. PromptKept
    <2>1. Srv(0) \in Procs
      BY ProcFacts
    <2>2. CASE Srv(0) \in Job(p)
      BY <1>1, <2>2 DEF PromptKept
    <2>3. CASE Srv(0) \notin Job(p)
      BY <1>3, <2>1, <2>3 DEF PromptKept
    <2> QED
      BY <2>2, <2>3
  <1>7. RegionInv'
    <2>1. \A q \in Servers : todo'[q] # <<>> => todo[q] # <<>>
      <3> SUFFICES ASSUME NEW q \in Servers, todo'[q] # <<>> PROVE todo[q] # <<>>
        OBVIOUS
      <3>1. q \in Procs
        BY DEF Servers
      <3> QED
        BY <1>1, <1>3, <3>1
    <2> QED
      BY <1>1, <2>1 DEF BootInv, RegionInv
  <1>8. CASE p \in Servers
    <2>1. Job(p) = Servers
      BY <1>8, ProcFacts DEF Job, Servers
    <2>2. ASSUME NEW q \in Servers
          PROVE  /\ ServerInv(q, todo'[q], made'[q], mapped'[q], bound'[q.rank])
                 /\ Passed(todo'[q], made'[q]) = Passed(todo[q], made[q]) + 1
      <3>1. todo'[q] = Tail(todo[q]) /\ todo[q] # <<>> /\ Head(todo[q]).act = "Barrier"
        BY <1>1, <1>3, <2>1 DEF Servers
      <3>2. Taken(q) /\ Collectives(Head(todo[q])) = 1
        BY <1>1, <3>1 DEF Taken, Takes, Collectives
      <3> QED
        BY <3>2, ServerPasses
    <2>3. 1 \in Nat
      OBVIOUS
    <2>4. ServersInv' /\ LockStep'
      BY <2>2, <2>3, AllServers
    <2>5. ClientsKept
      <3>1. \A q \in Procs \ Servers : todo'[q] = todo[q] /\ mapped'[q] = mapped[q]
        BY <1>1, <1>3, <2>1
      <3> QED
        BY <3>1, ClientsSame
    <2> QED
      BY <1>1, <1>4, <1>5, <1>6, <1>7, <2>4, <2>5, Frame
  <1>9. CASE p \notin Servers
    <2>1. Job(p) = Procs \ Servers
      BY <1>9, ProcFacts DEF Job, Servers
    <2>2. ServersInv' /\ LockStep'
      <3>1. \A q \in Servers : todo'[q] = todo[q] /\ made'[q] = made[q] /\ mapped'[q] = mapped[q]
        BY <1>1, <1>3, <2>1 DEF Servers
      <3> QED
        BY <1>1, <3>1, ServersSame
    <2>3. ClientsKept
      <3>1. \A q \in Procs \ Servers : todo'[q] \in Seq(Steps(q)) /\ todo[q] # <<>>
        BY <1>1, <1>3, <2>1, HeadFacts
      <3>2. ClientInv
        BY DEF BootInv
      <3> QED
        BY <1>1, <3>1, <3>2 DEF ClientsKept, ClientInv
    <2> QED
      BY <1>1, <1>4, <1>5, <1>6, <1>7, <2>2, <2>3, Frame
  <1> QED
    BY <1>8, <1>9

LEMMA CreateKeeps ==
  ASSUME BootInv, NEW p \in Procs, DoCreate(p)
  PROVE  BootInv'
  <1> DEFINE x == Arg(p)
  <1>1. /\ At(p, "Create") /\ todo[p] # <<>> /\ Head(todo[p]).act = "Create" /\ x = Head(todo[p]).on
        /\ made' = made /\ bound' = bound
        /\ running' = running /\ call' = call /\ ready' = ready /\ failed' = failed
    BY DEF DoCreate, At, Arg
  <1>2. TypeOK /\ DOMAIN todo = Procs
    BY DEF BootInv, TypeOK
  <1>3. p.server /\ x \in Names
    BY <1>1, HeadFacts DEF StepOK
  <1>4. p \in Servers /\ p.rank \in Ranks /\ MyServer(p) = p.rank
    BY <1>3, ProcFacts
  <1>5. /\ DOMAIN todo' = Procs /\ \A q \in Procs : q # p => todo'[q] = todo[q]
        /\ todo'[p] = Tail(todo[p])
    BY <1>2 DEF DoCreate, Advance
  <1>6. /\ region' = [region EXCEPT ![<<x, p.rank>>] = p.rank]
        /\ mapped' = [mapped EXCEPT ![p][x] = p.rank]
    BY <1>4 DEF DoCreate, Region
  <1> HIDE DEF x
  <1>7. /\ region' \in [Names \X Ranks -> Ranks \cup {None, Stale}]
        /\ region'[<<x, p.rank>>] = p.rank
        /\ \A y \in Names, s \in Ranks : s # p.rank => region'[<<y, s>>] = region[<<y, s>>]
        /\ \A y \in Names : y # x => region'[<<y, p.rank>>] = region[<<y, p.rank>>]
    BY <1>2, <1>3, <1>4, <1>6 DEF TypeOK
  <1>8. /\ mapped' \in [Procs -> [Names -> Ranks \cup {None, Stale}]]
        /\ \A q \in Procs : q # p => mapped'[q] = mapped[q]
        /\ mapped'[p][x] = p.rank
        /\ \A y \in Names : y # x => mapped'[p][y] = mapped[p][y]
    BY <1>2, <1>3, <1>4, <1>6 DEF TypeOK
  <1>9. TypeOK'
    BY <1>1, <1>2, <1>5, <1>7, <1>8 DEF TypeOK
  <1>10. CallsKept /\ PromptKept
    BY <1>1, <1>5, Moves
  <1>11. RegionInv'
    <2> SUFFICES ASSUME NEW q \in Servers, NEW y \in Names, mapped'[q][y] # None
                 PROVE  /\ mapped'[q][y] = q.rank
                        /\ todo'[q] # <<>> => region'[<<y, q.rank>>] = q.rank
      BY DEF RegionInv, Region
    <2>1. q \in Procs /\ q.rank \in Ranks /\ (q # p => q.rank # p.rank)
      BY <1>4, ProcFacts
    <2>2. mapped[q][y] # None => /\ mapped[q][y] = q.rank
                                 /\ todo[q] # <<>> => region[<<y, q.rank>>] = q.rank
      BY DEF BootInv, RegionInv, Region
    <2>3. CASE q # p
      BY <1>5, <1>7, <1>8, <2>1, <2>2, <2>3
    <2>4. CASE q = p /\ y # x
      BY <1>1, <1>7, <1>8, <2>2, <2>4
    <2>5. CASE q = p /\ y = x
      BY <1>7, <1>8, <2>5
    <2> QED
      BY <2>3, <2>4, <2>5
  <1>12. ServersInv' /\ LockStep' /\ ClientsKept
    <2>1. Alone(p)
      BY <1>1, <1>5, <1>8 DEF Alone
    <2>2. Taken(p)
      BY <1>1, <1>5, <1>8 DEF Taken, Takes
    <2> QED
      BY <1>1, <1>4, <1>5, <2>1, <2>2, ServerTakes
  <1> QED
    BY <1>1, <1>9, <1>10, <1>11, <1>12, Frame

LEMMA OpenKeeps ==
  ASSUME BootInv, NEW p \in Procs, DoOpen(p)
  PROVE  BootInv'
  <1> DEFINE x == Arg(p)
             s == MyServer(p)
  <1>1. /\ At(p, "Open") /\ todo[p] # <<>> /\ Head(todo[p]).act = "Open" /\ x = Head(todo[p]).on
        /\ (~p.server => ready)
        /\ made' = made /\ region' = region /\ bound' = bound
        /\ running' = running /\ call' = call /\ ready' = ready
    BY DEF DoOpen, At, Arg
  <1>2. TypeOK /\ DOMAIN todo = Procs
    BY DEF BootInv, TypeOK
  <1>3. ~p.server /\ x \in Names
    BY <1>1, HeadFacts DEF StepOK
  <1>4. p \notin Servers /\ s \in Ranks /\ Srv(s) \in Servers /\ Srv(s).rank = s
    BY <1>3, ProcFacts
  <1>5. region[<<x, s>>] = s
    <2>1. mapped[Srv(s)][x] = s /\ todo[Srv(s)] # <<>>
      BY <1>1, <1>3, <1>4, EveryoneUp
    <2>2. s # None
      BY <1>4, ProcFacts
    <2> QED
      BY <1>3, <1>4, <2>1, <2>2 DEF BootInv, RegionInv, Region
  <1>6. <<x, s>> \in DOMAIN region /\ region[<<x, s>>] # None
    BY <1>2, <1>3, <1>4, <1>5, ProcFacts DEF TypeOK
  <1>7. /\ mapped' = [mapped EXCEPT ![p][x] = s]
        /\ Advance(p) /\ failed' = failed
    BY <1>5, <1>6 DEF DoOpen, Region
  <1>8. /\ DOMAIN todo' = Procs /\ \A q \in Procs : q # p => todo'[q] = todo[q]
        /\ todo'[p] = Tail(todo[p])
    BY <1>2, <1>7 DEF Advance
  <1> HIDE DEF x, s
  <1>9. /\ mapped' \in [Procs -> [Names -> Ranks \cup {None, Stale}]]
        /\ \A q \in Procs : q # p => mapped'[q] = mapped[q]
        /\ mapped'[p][x] = s
        /\ \A y \in Names : y # x => mapped'[p][y] = mapped[p][y]
    BY <1>2, <1>3, <1>4, <1>7 DEF TypeOK
  <1>10. TypeOK'
    BY <1>1, <1>2, <1>7, <1>8, <1>9 DEF TypeOK
  <1>11. CallsKept /\ PromptKept
    BY <1>1, <1>8, Moves
  <1>12. ServersInv' /\ LockStep' /\ RegionInv' /\ ClientsKept
    <2>1. \A y \in Names : mapped'[p][y] # None => ready /\ mapped'[p][y] = MyServer(p)
      <3>1. \A y \in Names : mapped[p][y] # None => mapped[p][y] = MyServer(p)
        BY <1>4 DEF BootInv, ClientInv
      <3> QED
        BY <1>1, <1>3, <1>9, <3>1 DEF s
    <2> QED
      BY <1>1, <1>4, <1>8, <1>9, <2>1, ClientTakes
  <1> QED
    BY <1>1, <1>7, <1>10, <1>11, <1>12, Frame

(* A server takes a step that leaves its singletons, its regions and its    *)
(* table of functions alone.                                                *)
LEMMA ServerAdvances ==
  ASSUME BootInv, NEW p \in Servers, todo[p] # <<>>, Advance(p),
         Head(todo[p]).act \notin {"Barrier", "GetInstance", "Set", "Create", "Bind"},
         made' = made, mapped' = mapped, bound' = bound
  PROVE  /\ ServersInv' /\ LockStep' /\ ClientsKept
         /\ DOMAIN todo' = Procs /\ todo'[p] = Tail(todo[p])
         /\ \A q \in Procs : q # p => todo'[q] = todo[q]
  <1>1. DOMAIN todo = Procs
    BY DEF BootInv, TypeOK
  <1>2. p \in Procs
    BY DEF Servers
  <1>3. /\ DOMAIN todo' = Procs /\ \A q \in Procs : q # p => todo'[q] = todo[q]
        /\ todo'[p] = Tail(todo[p])
    BY <1>1, <1>2 DEF Advance
  <1>4. Alone(p)
    BY <1>3 DEF Alone
  <1>5. Taken(p)
    BY <1>3 DEF Taken, Takes
  <1>6. ServersInv' /\ LockStep' /\ ClientsKept
    BY <1>4, <1>5, ServerTakes
  <1> QED
    BY <1>3, <1>6

LEMMA BindKeeps ==
  ASSUME BootInv, NEW p \in Procs, DoBind(p)
  PROVE  BootInv'
  <1> DEFINE x == Arg(p)
  <1>1. /\ At(p, "Bind") /\ todo[p] # <<>> /\ Head(todo[p]).act = "Bind" /\ x = Head(todo[p]).on
        /\ made' = made /\ region' = region /\ mapped' = mapped
        /\ running' = running /\ call' = call /\ ready' = ready /\ failed' = failed
    BY DEF DoBind, At, Arg
  <1>2. TypeOK /\ DOMAIN todo = Procs
    BY DEF BootInv, TypeOK
  <1>3. p.server /\ x \in Bindable
    BY <1>1, HeadFacts DEF StepOK
  <1>4. p \in Servers /\ p.rank \in Ranks
    BY <1>3, ProcFacts
  <1>5. /\ DOMAIN todo' = Procs /\ \A q \in Procs : q # p => todo'[q] = todo[q]
        /\ todo'[p] = Tail(todo[p])
    BY <1>2 DEF DoBind, Advance
  <1>6. bound' = [bound EXCEPT ![p.rank] = @ \cup {x}]
    BY DEF DoBind
  <1> HIDE DEF x
  <1>7. /\ bound' \in [Ranks -> SUBSET Bindable]
        /\ \A s \in Ranks : s # p.rank => bound'[s] = bound[s]
        /\ bound'[p.rank] = bound[p.rank] \cup {x}
    BY <1>2, <1>3, <1>4, <1>6 DEF TypeOK
  <1>8. TypeOK'
    BY <1>1, <1>2, <1>5, <1>7 DEF TypeOK
  <1>9. CallsKept /\ PromptKept
    BY <1>1, <1>5, Moves
  <1>10. RegionInv'
    BY <1>1, <1>5, RegionSame
  <1>11. ServersInv' /\ LockStep' /\ ClientsKept
    <2>1. Alone(p)
      BY <1>1, <1>4, <1>5, <1>7, ProcFacts DEF Alone
    <2>2. Taken(p)
      BY <1>1, <1>5, <1>7 DEF Taken, Takes
    <2> QED
      BY <1>1, <1>4, <2>1, <2>2, ServerTakes
  <1> QED
    BY <1>1, <1>8, <1>9, <1>10, <1>11, Frame

LEMMA RunKeeps ==
  ASSUME BootInv, NEW p \in Procs, DoRun(p)
  PROVE  BootInv'
  <1>1. /\ At(p, "Run") /\ todo[p] # <<>> /\ Head(todo[p]).act = "Run" /\ Advance(p)
        /\ made' = made /\ region' = region /\ mapped' = mapped /\ bound' = bound
        /\ running' = running \cup {p.rank} /\ call' = call /\ ready' = ready /\ failed' = failed
    BY DEF DoRun, At
  <1>2. p.server
    BY <1>1, HeadFacts DEF StepOK
  <1>3. p \in Servers /\ p.rank \in Ranks
    BY <1>2, ProcFacts
  <1>4. /\ ServersInv' /\ LockStep' /\ ClientsKept
        /\ DOMAIN todo' = Procs /\ \A q \in Procs : q # p => todo'[q] = todo[q]
    BY <1>1, <1>3, ServerAdvances
  <1>5. TypeOK'
    BY <1>1, <1>3, <1>4 DEF BootInv, TypeOK
  <1>6. CallsKept /\ PromptKept
    BY <1>1, <1>4, Moves
  <1>7. RegionInv'
    BY <1>1, <1>4, RegionSame
  <1> QED
    BY <1>1, <1>4, <1>5, <1>6, <1>7, Frame

LEMMA CallBeginKeeps ==
  ASSUME BootInv, NEW p \in Procs, CallBegin(p)
  PROVE  BootInv'
  <1>1. /\ todo' = todo /\ made' = made /\ region' = region /\ mapped' = mapped /\ bound' = bound
        /\ running' = running /\ ready' = ready /\ failed' = failed
    BY DEF CallBegin
  <1>2. PICK t \in Targets(p) : call' = [call EXCEPT ![p] = t]
    BY DEF CallBegin
  <1>3. \/ At(p, "Call") /\ t = <<Arg(p), Head(todo[p]).at>>
        \/ (At(p, "Work") \/ At(p, "Stop")) /\ t \in Remote \X Ranks
    BY <1>2 DEF Targets
  <1>4. t \in Remote \X Ranks
    <2>1. CASE At(p, "Call") /\ t = <<Arg(p), Head(todo[p]).at>>
      <3>1. Arg(p) = "LAYER_SCORE_MAP" /\ Head(todo[p]).at \in Ranks
        BY <2>1, HeadFacts DEF At, Arg, StepOK
      <3>2. "LAYER_SCORE_MAP" \in Remote
        BY DEF Remote, Bindable, Names
      <3> QED
        BY <2>1, <3>1, <3>2
    <2> QED
      BY <1>3, <2>1
  <1>5. /\ call' \in [Procs -> (Remote \X Ranks) \cup {None}]
        /\ call'[p] = t /\ \A q \in Procs : q # p => call'[q] = call[q]
    BY <1>2, <1>4 DEF BootInv, TypeOK
  <1>6. TypeOK'
    BY <1>1, <1>5 DEF BootInv, TypeOK
  <1>7. CallInv'
    <2> SUFFICES ASSUME NEW q \in Procs, call'[q] # None
                 PROVE  \/ At(q, "Call")' /\ call'[q] = <<Arg(q)', (Head(todo[q]).at)'>>
                        \/ At(q, "Work")' \/ At(q, "Stop")'
      BY DEF CallInv
    <2>1. \A a : At(q, a)' <=> At(q, a)
      BY <1>1 DEF At
    <2>2. Arg(q)' = Arg(q) /\ (Head(todo[q]).at)' = Head(todo[q]).at
      BY <1>1 DEF Arg
    <2>3. CASE q = p
      BY <1>3, <1>5, <2>1, <2>2, <2>3
    <2>4. CASE q # p
      BY <1>5, <2>1, <2>2, <2>4 DEF BootInv, CallInv
    <2> QED
      BY <2>3, <2>4
  <1>8. ServersInv' /\ LockStep' /\ RegionInv'
    BY <1>1, ServersSame
  <1>9. ClientInv'
    BY <1>1 DEF BootInv, ClientInv
  <1> QED
    BY <1>1, <1>6, <1>7, <1>8, <1>9 DEF BootInv

(* A call finds what it asks for. *)
LEMMA CallsAnswered ==
  ASSUME BootInv, NEW p \in Procs, call[p] # None
  PROVE  /\ call[p][2] \in Ranks /\ Srv(call[p][2]) \in Servers
         /\ todo[Srv(call[p][2])] # <<>> /\ call[p][1] \in bound[call[p][2]]
         /\ \A j \in 1 .. Len(todo[Srv(call[p][2])]) : todo[Srv(call[p][2])][j].act # "Bind"
         /\ todo[p] # <<>> /\ Head(todo[p]).act \in {"Call", "Work", "Stop"}
         /\ Head(todo[p]).act \in {"Call", "Stop"} <=> p \in Servers
  <1> DEFINE s == call[p][2]
  <1>1. call[p] \in Remote \X Ranks
    BY DEF BootInv, TypeOK
  <1>2. s \in Ranks /\ Srv(s) \in Servers /\ Srv(s).rank = s /\ call[p][1] \in Bindable
    BY <1>1, ProcFacts DEF Remote
  <1> HIDE DEF s
  <1>3. CASE At(p, "Call") /\ call[p] = <<Arg(p), Head(todo[p]).at>>
    <2>1. todo[p] # <<>> /\ Head(todo[p]).act = "Call"
      BY <1>3 DEF At
    <2>2. p.server /\ Head(todo[p]).on = "LAYER_SCORE_MAP"
      BY <2>1, HeadFacts DEF StepOK
    <2>3. p \in Servers /\ call[p][1] = "LAYER_SCORE_MAP"
      BY <1>3, <2>2, ProcFacts DEF Arg
    <2>4. /\ "LAYER_SCORE_MAP" \in bound[Srv(s).rank] /\ todo[Srv(s)] # <<>>
          /\ \A j \in 1 .. Len(todo[Srv(s)]) : todo[Srv(s)][j].act # "Bind"
      BY <1>2, <2>1, <2>3, ScoresReady
    <2> QED
      BY <1>2, <2>1, <2>3, <2>4 DEF s
  <1>4. CASE At(p, "Work") \/ At(p, "Stop")
    <2>1. todo[p] # <<>> /\ Head(todo[p]).act \in {"Work", "Stop"} /\ (p.server \/ ready)
      BY <1>4 DEF At
    <2>2. Head(todo[p]).act = "Stop" <=> p.server
      BY <2>1, HeadFacts DEF StepOK
    <2>3. p \in Servers <=> p.server
      BY ProcFacts
    <2>4. /\ Bindable \subseteq bound[Srv(s).rank] /\ todo[Srv(s)] # <<>>
          /\ \A j \in 1 .. Len(todo[Srv(s)]) : todo[Srv(s)][j].act # "Bind"
      BY <1>2, <2>1, <2>2, <2>3, EveryoneUp
    <2> QED
      BY <1>2, <2>1, <2>2, <2>3, <2>4 DEF s
  <1> QED
    BY <1>3, <1>4 DEF BootInv, CallInv

LEMMA CallEndKeeps ==
  ASSUME BootInv, NEW p \in Procs, CallEnd(p)
  PROVE  BootInv'
  <1>1. /\ made' = made /\ region' = region /\ mapped' = mapped /\ bound' = bound
        /\ running' = running /\ ready' = ready /\ call[p] # None
        /\ call' = [call EXCEPT ![p] = None]
    BY DEF CallEnd
  <1>2. /\ todo[Srv(call[p][2])] # <<>> /\ call[p][1] \in bound[call[p][2]]
        /\ todo[p] # <<>> /\ Head(todo[p]).act \in {"Call", "Work", "Stop"}
        /\ Head(todo[p]).act \in {"Call", "Stop"} <=> p \in Servers
    BY <1>1, CallsAnswered
  <1>3. failed' = failed /\ IF At(p, "Call") THEN Advance(p) ELSE todo' = todo
    BY <1>2 DEF CallEnd, Srv
  <1>4. /\ call' \in [Procs -> (Remote \X Ranks) \cup {None}]
        /\ call'[p] = None /\ \A q \in Procs : q # p => call'[q] = call[q]
    BY <1>1 DEF BootInv, TypeOK
  <1>5. CASE ~At(p, "Call")
    <2>1. todo' = todo
      BY <1>3, <1>5
    <2>2. TypeOK'
      BY <1>1, <1>3, <1>4, <2>1 DEF BootInv, TypeOK
    <2>3. ServersInv' /\ LockStep' /\ RegionInv'
      BY <1>1, <2>1, ServersSame
    <2>4. ClientsKept
      BY <1>1, <2>1, ClientsSame
    <2>5. CallsKept /\ PromptKept
      BY <1>4, <2>1 DEF CallsKept, PromptKept
    <2> QED
      BY <1>1, <1>3, <2>2, <2>3, <2>4, <2>5, Frame
  <1>6. CASE At(p, "Call")
    <2>1. Advance(p) /\ Head(todo[p]).act = "Call" /\ p \in Servers
      BY <1>2, <1>3, <1>6 DEF At
    <2>2. /\ ServersInv' /\ LockStep' /\ ClientsKept
          /\ DOMAIN todo' = Procs /\ \A q \in Procs : q # p => todo'[q] = todo[q]
      BY <1>1, <1>2, <2>1, ServerAdvances
    <2>3. TypeOK'
      BY <1>1, <1>3, <1>4, <2>2 DEF BootInv, TypeOK
    <2>4. CallsKept
      BY <1>4, <2>2 DEF CallsKept
    <2>5. PromptKept
      BY <2>1, <2>2, ProcFacts DEF PromptKept
    <2>6. RegionInv'
      BY <1>1, <1>2, <2>2, RegionSame
    <2> QED
      BY <1>1, <1>3, <2>2, <2>3, <2>4, <2>5, <2>6, Frame
  <1> QED
    BY <1>5, <1>6

LEMMA WorkEndsKeeps ==
  ASSUME BootInv, NEW p \in Procs, WorkEnds(p)
  PROVE  BootInv'
  <1>1. /\ made' = made /\ region' = region /\ mapped' = mapped /\ bound' = bound
        /\ running' = running /\ ready' = ready /\ call' = call /\ failed' = failed
        /\ call[p] = None /\ Advance(p)
        /\ todo[p] # <<>> /\ Head(todo[p]).act \in {"Work", "Stop"}
    BY DEF WorkEnds, At
  <1>2. DOMAIN todo = Procs
    BY DEF BootInv, TypeOK
  <1>3. /\ DOMAIN todo' = Procs /\ \A q \in Procs : q # p => todo'[q] = todo[q]
        /\ todo'[p] = Tail(todo[p])
    BY <1>1, <1>2 DEF Advance
  <1>4. TypeOK'
    BY <1>1, <1>3 DEF BootInv, TypeOK
  <1>5. CallsKept
    BY <1>1, <1>3 DEF CallsKept
  <1>6. PromptKept
    BY <1>1, <1>3, ProcFacts DEF PromptKept
  <1>7. RegionInv'
    BY <1>1, <1>3, RegionSame
  <1>8. ServersInv' /\ LockStep' /\ ClientsKept
    <2>1. CASE p \in Servers
      BY <1>1, <2>1, ServerAdvances
    <2>2. CASE p \notin Servers
      <3>1. \A x \in Names : mapped'[p][x] # None => ready /\ mapped'[p][x] = MyServer(p)
        BY <1>1, <2>2 DEF BootInv, ClientInv
      <3> QED
        BY <1>1, <1>3, <2>2, <3>1, ClientTakes
    <2> QED
      BY <2>1, <2>2
  <1> QED
    BY <1>1, <1>4, <1>5, <1>6, <1>7, <1>8, Frame

LEMMA PromptKeeps ==
  ASSUME BootInv, NEW p \in Procs, Prompt(p)
  PROVE  BootInv'
  <1>1. /\ todo' = todo /\ made' = made /\ region' = region /\ mapped' = mapped /\ bound' = bound
        /\ running' = running /\ call' = call /\ failed' = failed /\ ready' = TRUE /\ ~ready
        /\ todo[p] # <<>> /\ Head(todo[p]).act = "Prompt"
    BY DEF Prompt, At
  <1>2. p.server /\ p.rank = 0
    BY <1>1, HeadFacts DEF StepOK
  <1>3. p = Srv(0)
    BY <1>2, ProcFacts
  <1>4. TypeOK'
    BY <1>1 DEF BootInv, TypeOK
  <1>5. ServersInv' /\ LockStep' /\ RegionInv'
    BY <1>1, ServersSame
  <1>6. ClientInv'
    <2>1. todo'[Srv(0)] # <<>> /\ Head(todo'[Srv(0)]).act = "Prompt"
      BY <1>1, <1>3
    <2>2. \A q \in Procs \ Servers :
            /\ todo'[q] \in Seq(Steps(q))
            /\ \A x \in Names : mapped'[q][x] # None => ready' /\ mapped'[q][x] = MyServer(q)
      BY <1>1 DEF BootInv, ClientInv
    <2> QED
      BY <2>1, <2>2 DEF ClientInv
  <1>7. CallInv'
    <2> SUFFICES ASSUME NEW q \in Procs, call'[q] # None
                 PROVE  \/ At(q, "Call")' /\ call'[q] = <<Arg(q)', (Head(todo[q]).at)'>>
                        \/ At(q, "Work")' \/ At(q, "Stop")'
      BY DEF CallInv
    <2>1. \A a : At(q, a) => At(q, a)'
      BY <1>1 DEF At
    <2>2. Arg(q)' = Arg(q) /\ (Head(todo[q]).at)' = Head(todo[q]).at /\ call'[q] = call[q]
      BY <1>1 DEF Arg
    <2> QED
      BY <2>1, <2>2 DEF BootInv, CallInv
  <1> QED
    BY <1>1, <1>4, <1>5, <1>6, <1>7 DEF BootInv

LEMMA KeyPressedKeeps ==
  ASSUME BootInv, NEW p \in Procs, KeyPressed(p)
  PROVE  BootInv'
  <1>1. /\ made' = made /\ region' = region /\ mapped' = mapped /\ bound' = bound
        /\ running' = running /\ ready' = ready /\ call' = call /\ failed' = failed
        /\ At(p, "Prompt") /\ ClientsDone /\ Advance(p)
        /\ todo[p] # <<>> /\ Head(todo[p]).act = "Prompt"
    BY DEF KeyPressed, At
  <1>2. p.server
    BY <1>1, HeadFacts DEF StepOK
  <1>3. p \in Servers
    BY <1>2, ProcFacts
  <1>4. /\ ServersInv' /\ LockStep' /\ ClientsKept
        /\ DOMAIN todo' = Procs /\ \A q \in Procs : q # p => todo'[q] = todo[q]
    BY <1>1, <1>3, ServerAdvances
  <1>5. TypeOK'
    BY <1>1, <1>4 DEF BootInv, TypeOK
  <1>6. CallsKept /\ PromptKept
    <2>1. call[p] = None
      BY <1>1, Idle
    <2> QED
      BY <1>1, <1>4, <2>1 DEF CallsKept, PromptKept
  <1>7. RegionInv'
    BY <1>1, <1>4, RegionSame
  <1> QED
    BY <1>1, <1>4, <1>5, <1>6, <1>7, Frame

LEMMA ExitKeeps ==
  ASSUME BootInv, NEW p \in Procs, Exit(p)
  PROVE  BootInv'
  <1>1. /\ At(p, "Exit") /\ todo[p] # <<>> /\ Head(todo[p]).act = "Exit" /\ Advance(p)
        /\ made' = made /\ mapped' = mapped /\ bound' = bound
        /\ running' = running \ {p.rank} /\ call' = call /\ ready' = ready /\ failed' = failed
    BY DEF Exit, At
  <1>2. p.server
    BY <1>1, HeadFacts DEF StepOK
  <1>3. p \in Servers /\ p.rank \in Ranks
    BY <1>2, ProcFacts
  <1>4. /\ ServersInv' /\ LockStep' /\ ClientsKept
        /\ DOMAIN todo' = Procs /\ \A q \in Procs : q # p => todo'[q] = todo[q]
        /\ todo'[p] = Tail(todo[p])
    BY <1>1, <1>3, ServerAdvances
  <1>5. /\ region' \in [Names \X Ranks -> Ranks \cup {None, Stale}]
        /\ \A x \in Names, s \in Ranks : s # p.rank => region'[<<x, s>>] = region[<<x, s>>]
    <2>1. region \in [Names \X Ranks -> Ranks \cup {None, Stale}]
      BY DEF BootInv, TypeOK
    <2>2. region' = [n \in Names \X Ranks |->
                       IF n \in {<<x, p.rank>> : x \in Names \ Leaked} THEN None
                       ELSE region[n]]
      BY <2>1 DEF Exit, Region
    <2>3. region' \in [Names \X Ranks -> Ranks \cup {None, Stale}]
      BY <2>1, <2>2
    <2>4. ASSUME NEW x \in Names, NEW s \in Ranks, s # p.rank
          PROVE  region'[<<x, s>>] = region[<<x, s>>]
      <3>1. <<x, s>> \in Names \X Ranks /\ <<x, s>> \notin {<<y, p.rank>> : y \in Names \ Leaked}
        BY <2>4
      <3> QED
        BY <2>2, <3>1
    <2> QED
      BY <2>3, <2>4
  <1>6. TypeOK'
    BY <1>1, <1>4, <1>5 DEF BootInv, TypeOK
  <1>7. CallsKept /\ PromptKept
    BY <1>1, <1>4, Moves
  <1>8. todo'[p] = <<>>
    <2>1. ServerInv(p, todo[p], made[p], mapped[p], bound[p.rank])
      BY <1>3 DEF BootInv, ServersInv
    <2>2. \A j \in 1 .. Len(todo[p]) : todo[p][j].act = "Exit" => j = Len(todo[p])
      BY <2>1 DEF ServerInv
    <2>3. Head(todo[p]) = todo[p][1] /\ 1 \in 1 .. Len(todo[p]) /\ todo[p] \in Seq(Steps(p))
      BY <1>1, HeadFacts
    <2>4. Len(todo[p]) = 1
      BY <1>1, <2>2, <2>3
    <2> QED
      BY <1>4, <2>3, <2>4
  <1>9. RegionInv'
    <2> SUFFICES ASSUME NEW q \in Servers, NEW x \in Names, mapped'[q][x] # None
                 PROVE  /\ mapped'[q][x] = q.rank
                        /\ todo'[q] # <<>> => region'[<<x, q.rank>>] = q.rank
      BY DEF RegionInv, Region
    <2>1. q \in Procs /\ q.rank \in Ranks /\ (q # p => q.rank # p.rank)
      BY <1>3, ProcFacts
    <2>2. /\ mapped[q][x] = q.rank
          /\ todo[q] # <<>> => region[<<x, q.rank>>] = q.rank
      BY <1>1 DEF BootInv, RegionInv, Region
    <2>3. CASE q # p
      BY <1>1, <1>4, <1>5, <2>1, <2>2, <2>3
    <2>4. CASE q = p
      BY <1>1, <1>8, <2>2, <2>4
    <2> QED
      BY <2>3, <2>4
  <1> QED
    BY <1>1, <1>4, <1>6, <1>7, <1>9, Frame

----------------------------------------------------------------------------
(* The theorems. *)

(***************************************************************************)
(* The inductive invariant. Whatever constructor a server is in, what is   *)
(* done and what is still to do make up the whole of every constructor     *)
(* that it has begun (Prepared, Built), and all servers have passed the    *)
(* same number of collectives (LockStep): from how far one of them is      *)
(* follows what the others must have created and bound.                    *)
(***************************************************************************)
THEOREM BootInvariant == Spec => []BootInv
  <1>1. Init => BootInv
    BY InitInv
  <1>2. ASSUME BootInv, [Next]_vars PROVE BootInv'
    <2>1. CASE UNCHANGED vars
      <3>1. /\ todo' = todo /\ made' = made /\ region' = region /\ mapped' = mapped
            /\ bound' = bound /\ running' = running /\ call' = call /\ ready' = ready
            /\ failed' = failed
        BY <2>1 DEF vars
      <3>2. TypeOK'
        BY <1>2, <3>1 DEF BootInv, TypeOK
      <3>3. ServersInv' /\ LockStep' /\ RegionInv'
        BY <1>2, <3>1, ServersSame
      <3>4. ClientsKept
        BY <1>2, <3>1, ClientsSame
      <3>5. CallsKept /\ PromptKept
        BY <3>1 DEF CallsKept, PromptKept
      <3> QED
        BY <1>2, <3>1, <3>2, <3>3, <3>4, <3>5, Frame
    <2>2. CASE Next
      <3>1. PICK p \in Procs : Act(p)
        BY <2>2 DEF Next
      <3>2. CASE DoGetInstance(p)
        BY <1>2, <3>2, GetInstanceKeeps
      <3>3. CASE SetInstance(p)
        BY <1>2, <3>3, SetInstanceKeeps
      <3>4. CASE DoBarrier(p)
        BY <1>2, <3>4, BarrierKeeps
      <3>5. CASE DoCreate(p)
        BY <1>2, <3>5, CreateKeeps
      <3>6. CASE DoOpen(p)
        BY <1>2, <3>6, OpenKeeps
      <3>7. CASE DoBind(p)
        BY <1>2, <3>7, BindKeeps
      <3>8. CASE DoRun(p)
        BY <1>2, <3>8, RunKeeps
      <3>9. CASE CallBegin(p)
        BY <1>2, <3>9, CallBeginKeeps
      <3>10. CASE CallEnd(p)
        BY <1>2, <3>10, CallEndKeeps
      <3>11. CASE WorkEnds(p)
        BY <1>2, <3>11, WorkEndsKeeps
      <3>12. CASE Prompt(p)
        BY <1>2, <3>12, PromptKeeps
      <3>13. CASE KeyPressed(p)
        BY <1>2, <3>13, KeyPressedKeeps
      <3>14. CASE Exit(p)
        BY <1>2, <3>14, ExitKeeps
      <3> QED
        BY <3>1, <3>2, <3>3, <3>4, <3>5, <3>6, <3>7, <3>8, <3>9, <3>10, <3>11, <3>12,
           <3>13, <3>14 DEF Act
    <2> QED
      BY <1>2, <2>1, <2>2
  <1> QED
    BY <1>1, <1>2, PTL DEF Spec

(***************************************************************************)
(* The variables of Bootstrap keep their types: a server binds and creates *)
(* only names that there are, and a call goes to a server of the job.      *)
(***************************************************************************)
THEOREM BootTypeCorrect == Spec => []TypeOK
  <1>1. BootInv => TypeOK
    BY DEF BootInv
  <1> QED
    BY <1>1, BootInvariant, PTL

(***************************************************************************)
(* A process works in the regions of its own server, and they are there as *)
(* long as it runs (DistributedHashMap.h:107, 112; the destructors come    *)
(* after MPI_Finalize, main.cpp:58), for any number of servers and clients *)
(* and whatever an earlier run left behind.                                *)
(***************************************************************************)
THEOREM MemoryIsShared == Spec => []SharesItsServersMemory
  <1>1. ASSUME BootInv PROVE SharesItsServersMemory
    <2> SUFFICES ASSUME NEW p \in Procs, NEW x \in Names, mapped[p][x] # None
                 PROVE  /\ mapped[p][x] = MyServer(p)
                        /\ todo[p] # <<>> => region[Region(x, MyServer(p))] = MyServer(p)
      BY DEF SharesItsServersMemory
    <2>1. CASE p \in Servers
      <3>1. MyServer(p) = p.rank
        BY <2>1, ProcFacts
      <3> QED
        BY <1>1, <2>1, <3>1 DEF BootInv, RegionInv
    <2>2. CASE p \notin Servers
      <3> DEFINE s == MyServer(p)
      <3>1. ready /\ mapped[p][x] = s
        BY <1>1, <2>2 DEF BootInv, ClientInv
      <3>2. s \in Ranks /\ Srv(s) \in Servers /\ Srv(s).rank = s /\ s # None
        BY ProcFacts
      <3> HIDE DEF s
      <3>3. ASSUME todo[p] # <<>> PROVE region[Region(x, s)] = s
        <4>1. mapped[Srv(s)][x] = s /\ todo[Srv(s)] # <<>>
          BY <1>1, <2>2, <3>1, <3>2, <3>3, EveryoneUp
        <4> QED
          BY <1>1, <3>2, <4>1 DEF BootInv, RegionInv
      <3> QED
        BY <3>1, <3>3 DEF s
    <2> QED
      BY <2>1, <2>2
  <1> QED
    BY <1>1, BootInvariant, PTL

(***************************************************************************)
(* No exception ends a process: every open_only finds its region and every *)
(* rpc->call a server that is up and has the method bound (rpc_lib.h:166,  *)
(* main.cpp:50-58), although neither is waited for but by the collectives  *)
(* of the constructors.                                                    *)
(***************************************************************************)
THEOREM NothingIsMissing == Spec => []NothingMissing
  <1>1. BootInv => NothingMissing
    BY DEF BootInv, NothingMissing
  <1> QED
    BY <1>1, BootInvariant, PTL

(***************************************************************************)
(* While a server serves a call it binds nothing any more: the scores are  *)
(* put and the queues are drained when every server has passed its last    *)
(* bind (file_segment_auditor.h:68-77, server.h:141).                      *)
(***************************************************************************)
THEOREM TableIsSettled == Spec => []NoBindDuringCall
  <1>1. ASSUME BootInv PROVE NoBindDuringCall
    <2> SUFFICES ASSUME NEW p \in Procs, NEW q \in Procs, At(p, "Bind"), call[q] # None,
                        call[q][2] = p.rank
                 PROVE  FALSE
      BY DEF NoBindDuringCall
    <2>1. todo[p] # <<>> /\ Head(todo[p]).act = "Bind"
      BY DEF At
    <2>2. p.server /\ Head(todo[p]) = todo[p][1] /\ 1 \in 1 .. Len(todo[p])
      BY <1>1, <2>1, HeadFacts DEF StepOK
    <2>3. p = Srv(call[q][2])
      BY <2>2, ProcFacts
    <2>4. \A j \in 1 .. Len(todo[p]) : todo[p][j].act # "Bind"
      BY <1>1, <2>3, CallsAnswered
    <2> QED
      BY <2>1, <2>2, <2>4
  <1> QED
    BY <1>1, BootInvariant, PTL
=============================================================================
