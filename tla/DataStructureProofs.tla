------------------------ MODULE DataStructureProofs ------------------------
(***************************************************************************)
(* Theorems about Segments, Layers and Messages: the operations do what is *)
(* promised of them for any offsets, any list of layers and any names and  *)
(* data, and so for every input that MCDataStructures enumerates.          *)
(***************************************************************************)
EXTENDS MCDataStructures, SegmentProofs, SequenceTheorems

----------------------------------------------------------------------------
(* BuildLayers, a fold: the list it builds. *)

LEMMA MaxIn ==
  ASSUME NEW n \in Nat, NEW s \in SUBSET (1 .. n), s # {}
  PROVE  SeqsExt!Max(s) \in s /\ \A y \in s : SeqsExt!Max(s) >= y
  <1> DEFINE T == {n - x : x \in s}
  <1>0. \A x \in s : x \in Int /\ n - x \in Nat
    OBVIOUS
  <1>1. T \subseteq Nat /\ T # {}
    BY <1>0
  <1>2. PICK t \in T : \A u \in T : t <= u
    BY <1>1, Least
  <1>3. PICK x \in s : t = n - x
    BY <1>2
  <1>4. \A y \in s : x >= y
    <2> SUFFICES ASSUME NEW y \in s PROVE x >= y
      OBVIOUS
    <2>1. n - x <= n - y
      BY <1>2, <1>3
    <2>2. x \in Int /\ y \in Int
      OBVIOUS
    <2> QED
      BY <2>1, <2>2
  <1> QED
    BY <1>4 DEF SeqsExt!Max

(* g[s] is the list of the layers whose positions are in s. *)
IsBuild(g, infos) ==
    g = [s \in SUBSET DOMAIN infos |->
           IF s = {} THEN <<>>
           ELSE LinkLayer(g[s \ {SeqsExt!Max(s)}], infos[SeqsExt!Max(s)])]

LEMMA BuildFold ==
  ASSUME NEW infos
  PROVE  BuildLayers(infos) = (CHOOSE g : IsBuild(g, infos))[DOMAIN infos]
  BY DEF BuildLayers, SeqsExt!FoldLeft, SeqsExt!MapThenFoldSet, IsBuild

LEMMA BuildExists ==
  ASSUME NEW infos, NEW N \in Nat, DOMAIN infos = 1 .. N
  PROVE  \E g : IsBuild(g, infos)
  <1> DEFINE D == DOMAIN infos
             M(s) == SeqsExt!Max(s)
             S(n) == {s \in SUBSET D : Cardinality(s) <= n}
             P(g, n) == g = [s \in S(n) |-> IF s = {} THEN <<>>
                                            ELSE LinkLayer(g[s \ {M(s)}], infos[M(s)])]
             T == {n \in Nat : ~\E g : P(g, n)}
  <1>0. IsFiniteSet(D) /\ Cardinality(D) \in Nat
    BY FS_Interval, FS_CardinalityType
  <1>1. T = {}
    <2> SUFFICES ASSUME T # {} PROVE FALSE
      OBVIOUS
    <2>1. T \subseteq Nat
      OBVIOUS
    <2>2. PICK n \in T : \A m \in T : n <= m
      BY <2>1, Least
    <2>3. n \in Nat /\ ~\E g : P(g, n)
      OBVIOUS
    <2>4. CASE n = 0
      <3>1. \A s \in S(0) : s = {}
        <4> SUFFICES ASSUME NEW s \in S(0) PROVE s = {}
          OBVIOUS
        <4>1. IsFiniteSet(s) /\ Cardinality(s) <= 0
          BY <1>0, FS_Subset
        <4>2. Cardinality(s) = 0
          BY <4>1, FS_CardinalityType
        <4> QED
          BY <4>1, <4>2, FS_EmptySet
      <3> DEFINE g == [s \in S(0) |-> <<>>]
      <3>2. P(g, 0)
        BY <3>1
      <3> QED
        BY <2>3, <2>4, <3>2
    <2>5. CASE n # 0
      <3>1. n - 1 \in Nat /\ ~(n <= n - 1)
        BY <2>3, <2>5
      <3>2. n - 1 \notin T
        BY <2>2, <3>1
      <3>3. PICK h : P(h, n - 1)
        BY <3>1, <3>2
      <3> DEFINE F(s) == IF s = {} THEN <<>> ELSE LinkLayer(h[s \ {M(s)}], infos[M(s)])
                 g == [s \in S(n) |-> F(s)]
      <3>4. ASSUME NEW s \in S(n), s # {}
            PROVE  h[s \ {M(s)}] = g[s \ {M(s)}]
        <4> DEFINE r == s \ {M(s)}
        <4>1. r \in S(n - 1) /\ r \in S(n)
          <5>1. s \in SUBSET D /\ Cardinality(s) <= n /\ M(s) \in s
            BY <3>4, MaxIn
          <5> HIDE DEF M
          <5>2. /\ r \in SUBSET D /\ Cardinality(s) \in Nat
                /\ Cardinality(r) = Cardinality(s) - 1
            BY <1>0, <5>1, Smaller
          <5> QED
            BY <2>3, <5>1, <5>2
        <4> HIDE DEF r, S
        <4>2. h[r] = F(r)
          BY <3>3, <4>1
        <4>3. g[r] = F(r)
          BY <4>1
        <4> QED
          BY <4>2, <4>3 DEF r
      <3>5. \A s \in S(n) : F(s) = IF s = {} THEN <<>>
                                   ELSE LinkLayer(g[s \ {M(s)}], infos[M(s)])
        BY <3>4
      <3> HIDE DEF S
      <3>6. P(g, n)
        <4>1. g = [s \in S(n) |-> F(s)]
          OBVIOUS
        <4> HIDE DEF F, g
        <4> QED
          BY <3>5, <4>1
      <3> QED
        BY <2>3, <3>6
    <2> QED
      BY <2>4, <2>5
  <1>2. S(Cardinality(D)) = SUBSET D
    BY <1>0, FS_Subset
  <1>3. \E g : P(g, Cardinality(D))
    BY <1>0, <1>1
  <1> QED
    BY <1>2, <1>3 DEF IsBuild

(* The layers that the first n entries of infos make. *)
Linked(infos, n) ==
    [i \in 1 .. n |->
        [id_            |-> i % UInt8Size,
         capacity_mb_   |-> infos[i].capacity,
         layer_loc      |-> infos[i].mount_point,
         bandwidth_mbps_ |-> infos[i].bandwidth,
         io_client_type |-> ClientType(infos[i]),
         direct_io      |-> infos[i].direct_io,
         previous       |-> i - 1,
         next           |-> IF i = n THEN Null ELSE i + 1]]

LEMMA LinkedStep ==
  ASSUME NEW infos, NEW n \in Nat \ {0}
  PROVE  LinkLayer(Linked(infos, n - 1), infos[n]) = Linked(infos, n)
  <1> DEFINE list == Linked(infos, n - 1)
             back == [i \in DOMAIN list |->
                        IF i = Len(list) THEN [list[i] EXCEPT !.next = i + 1] ELSE list[i]]
             new == NewLayer(list, infos[n])
             all == Linked(infos, n)
  <1>1. DOMAIN list = 1 .. (n - 1) /\ Len(list) = n - 1 /\ n - 1 \in Nat
    BY DEF Linked
  <1>2. LinkLayer(list, infos[n]) = Append(back, new)
    BY DEF LinkLayer
  <1>3. DOMAIN all = 1 .. n
    BY DEF Linked
  <1>4. new = all[n]
    BY <1>1 DEF NewLayer, Linked
  <1>5. ASSUME NEW i \in 1 .. (n - 1) PROVE back[i] = all[i]
    <2>1. i # n /\ i \in 1 .. n
      OBVIOUS
    <2>2. CASE i = n - 1
      BY <1>1, <2>1, <2>2 DEF Linked
    <2>3. CASE i # n - 1
      BY <1>1, <2>1, <2>3 DEF Linked
    <2> QED
      BY <2>2, <2>3
  <1>6. DOMAIN back = 1 .. (n - 1)
    BY <1>1
  <1>7. all = [i \in 1 .. n |-> all[i]]
    BY DEF Linked
  <1>8. back = [i \in 1 .. (n - 1) |-> back[i]]
    BY <1>1
  <1> HIDE DEF back, new, all, list
  <1>9. Append(back, new) = all
    <2>1. Len(back) = n - 1
      BY <1>1, <1>6
    <2>2. /\ Append(back, new) = [i \in 1 .. n |-> IF i <= n - 1 THEN back[i] ELSE new]
      BY <1>1, <1>8, <2>1
    <2>3. \A i \in 1 .. n : (IF i <= n - 1 THEN back[i] ELSE new) = all[i]
      BY <1>4, <1>5
    <2> QED
      BY <1>7, <2>2, <2>3
  <1> QED
    BY <1>2, <1>9 DEF list, all

LEMMA BuildIs ==
  ASSUME NEW infos, NEW N \in Nat, DOMAIN infos = 1 .. N
  PROVE  BuildLayers(infos) = Linked(infos, N)
  <1> DEFINE g == CHOOSE g : IsBuild(g, infos)
             T == {n \in 0 .. N : g[1 .. n] # Linked(infos, n)}
  <1>1. IsBuild(g, infos)
    BY BuildExists
  <1> HIDE DEF g
  <1>2. T = {}
    <2> SUFFICES ASSUME T # {} PROVE FALSE
      OBVIOUS
    <2>1. T \subseteq Nat
      OBVIOUS
    <2>2. PICK n \in T : \A m \in T : n <= m
      BY <2>1, Least
    <2>3. n \in 0 .. N /\ g[1 .. n] # Linked(infos, n) /\ 1 .. n \in SUBSET (1 .. N)
      OBVIOUS
    <2>4. CASE n = 0
      <3>1. 1 .. n = {}
        BY <2>4
      <3>2. g[1 .. n] = <<>>
        BY <1>1, <2>3, <3>1 DEF IsBuild
      <3>3. Linked(infos, n) = <<>>
        BY <3>1 DEF Linked
      <3> QED
        BY <2>3, <3>2, <3>3
    <2>5. CASE n # 0
      <3>1. n \in Nat \ {0} /\ n - 1 \in 0 .. N /\ ~(n <= n - 1) /\ 1 .. n # {}
        BY <2>3, <2>5
      <3>2. g[1 .. (n - 1)] = Linked(infos, n - 1)
        BY <2>2, <3>1
      <3>3. SeqsExt!Max(1 .. n) = n
        <4>1. n \in Nat /\ 1 .. n \in SUBSET (1 .. n) /\ n \in 1 .. n
          BY <3>1
        <4>2. SeqsExt!Max(1 .. n) \in 1 .. n /\ SeqsExt!Max(1 .. n) >= n
          BY <3>1, <4>1, MaxIn
        <4> QED
          BY <4>1, <4>2
      <3>4. (1 .. n) \ {n} = 1 .. (n - 1)
        BY <3>1
      <3>5. g[1 .. n] = LinkLayer(g[(1 .. n) \ {n}], infos[n])
        BY <1>1, <2>3, <3>1, <3>3 DEF IsBuild
      <3> QED
        BY <2>3, <3>1, <3>2, <3>4, <3>5, LinkedStep
    <2> QED
      BY <2>4, <2>5
  <1>3. N \in 0 .. N
    OBVIOUS
  <1>4. g[1 .. N] = Linked(infos, N)
    BY <1>2, <1>3
  <1> QED
    BY <1>4, BuildFold DEF g
----------------------------------------------------------------------------
(* The list that BuildLayers makes. *)

LEMMA LinkedIsLinked ==
  ASSUME NEW infos, NEW n \in Nat
  PROVE  LinkedBothWays(Linked(infos, n))
  <1> DEFINE list == Linked(infos, n)
  <1>1. DOMAIN list = 1 .. n /\ Len(list) = n
    BY DEF Linked
  <1>2. \A i \in 1 .. n : /\ list[i].previous = i - 1
                          /\ list[i].next = IF i = n THEN 0 ELSE i + 1
    BY DEF Linked, Null
  <1> HIDE DEF list
  <1>3. list # <<>> => n # 0
    <2> SUFFICES ASSUME n = 0 PROVE list = <<>>
      OBVIOUS
    <2> QED
      BY DEF list, Linked
  <1>4. list # <<>> => list[1].previous = 0 /\ list[n].next = 0
    BY <1>2, <1>3
  <1>5. ASSUME NEW i \in 1 .. n, NEW j \in 1 .. n
        PROVE  list[i].next = j <=> list[j].previous = i
    BY <1>2
  <1>6. ASSUME NEW i \in 1 .. n, i # n PROVE list[i].next = i + 1
    BY <1>2, <1>6
  <1> QED
    BY <1>1, <1>4, <1>5, <1>6 DEF LinkedBothWays, FIRST, LAST, Null, list

(* A walk along next from layer j meets every later layer. *)
IsWalk(g, list, id) ==
    g = [i \in 0 .. Len(list) |->
           IF i = Null \/ list[i].id_ = id THEN i ELSE g[list[i].next]]

LEMMA WalkFinds ==
  ASSUME NEW infos, NEW n \in 1 .. UInt8Size, NEW i \in 1 .. n
  PROVE  LET list == Linked(infos, n)
         IN  LayerById(list[i].id_, list) = {[list[i] EXCEPT !.direct_io = d] : d \in BOOLEAN}
  <1> DEFINE list == Linked(infos, n)
             id == list[i].id_
             g == CHOOSE g : IsWalk(g, list, id)
  <1>0. UInt8Size \in Nat \ {0} /\ n \in Nat /\ n >= 1
    BY UInt8Assumption
  <1>1. DOMAIN list = 1 .. n /\ Len(list) = n
    BY <1>0 DEF Linked
  <1>2. \A j \in 1 .. n : list[j].next = IF j = n THEN 0 ELSE j + 1
    BY DEF Linked, Null
  <1>3. \A j \in 1 .. n : list[j].id_ = id <=> j = i
    <2>1. \A j \in 1 .. n : list[j].id_ = j % UInt8Size
      BY DEF Linked
    <2>2. \A j \in 1 .. n : j % UInt8Size = IF j = UInt8Size THEN 0 ELSE j
      BY <1>0
    <2> HIDE DEF list
    <2> QED
      BY <1>0, <2>1, <2>2
  <1>4. list # <<>>
    BY <1>0, <1>1
  <1> HIDE DEF list, id
  <1>5. \E h : IsWalk(h, list, id)
    <2> DEFINE h == [j \in 0 .. n |-> IF j = 0 \/ j > i THEN 0 ELSE i]
    <2>1. ASSUME NEW j \in 0 .. n
          PROVE  h[j] = IF j = 0 \/ list[j].id_ = id THEN j ELSE h[list[j].next]
      <3>1. CASE j = 0
        BY <3>1, <1>0
      <3>2. CASE j # 0 /\ j = i
        BY <3>2, <1>0, <1>3
      <3>3. CASE j # 0 /\ j # i
        <4>1. j \in 1 .. n /\ list[j].id_ # id
          BY <1>0, <1>3, <3>3
        <4>2. list[j].next = IF j = n THEN 0 ELSE j + 1
          BY <4>1, <1>2
        <4>3. h[j] = h[list[j].next]
          <5>1. CASE j = n
            BY <5>1, <3>3, <4>2, <1>0
          <5>2. CASE j # n
            BY <5>2, <3>3, <4>2, <1>0
          <5> QED
            BY <5>1, <5>2
        <4> QED
          BY <3>3, <4>1, <4>3
      <3> QED
        BY <3>1, <3>2, <3>3
    <2>2. h = [j \in 0 .. n |-> h[j]]
      OBVIOUS
    <2> HIDE DEF h
    <2> QED
      BY <1>1, <2>1, <2>2 DEF IsWalk, Null
  <1>6. IsWalk(g, list, id)
    BY <1>5
  <1> HIDE DEF g
  <1>7. \A j \in 1 .. n : g[j] = IF j = i THEN j ELSE g[IF j = n THEN 0 ELSE j + 1]
    <2> SUFFICES ASSUME NEW j \in 1 .. n
                 PROVE  g[j] = IF j = i THEN j ELSE g[IF j = n THEN 0 ELSE j + 1]
      OBVIOUS
    <2>1. j \in 0 .. n /\ j # 0
      BY <1>0
    <2>2. g[j] = IF j = 0 \/ list[j].id_ = id THEN j ELSE g[list[j].next]
      BY <1>1, <1>6, <2>1 DEF IsWalk, Null
    <2> QED
      BY <1>2, <1>3, <2>1, <2>2
  <1> DEFINE T == {k \in 0 .. (i - 1) : g[i - k] # i}
  <1>8. T = {}
    <2> SUFFICES ASSUME T # {} PROVE FALSE
      OBVIOUS
    <2>1. T \subseteq Nat
      OBVIOUS
    <2>2. PICK k \in T : \A m \in T : k <= m
      BY <2>1, Least
    <2>3. k \in 0 .. (i - 1) /\ g[i - k] # i
      OBVIOUS
    <2>4. i - k \in 1 .. n
      BY <2>3, <1>0
    <2>5. CASE k = 0
      BY <2>3, <2>4, <2>5, <1>7
    <2>6. CASE k # 0
      <3>1. k - 1 \in 0 .. (i - 1) /\ ~(k <= k - 1)
        BY <2>3, <2>6
      <3>2. g[i - (k - 1)] = i
        BY <2>2, <3>1
      <3>3. i - k # i /\ i - k # n /\ i - k + 1 = i - (k - 1)
        BY <2>3, <2>4, <2>6, <1>0
      <3>4. g[i - k] = g[i - k + 1]
        BY <2>4, <3>3, <1>7
      <3> QED
        BY <2>3, <3>2, <3>3, <3>4
    <2> QED
      BY <2>5, <2>6
  <1>9. g[1] = i
    <2>1. i - 1 \in 0 .. (i - 1) /\ i - (i - 1) = 1
      OBVIOUS
    <2>2. i - 1 \notin T
      BY <1>8
    <2>3. g[i - (i - 1)] = i
      BY <2>1, <2>2
    <2> QED
      BY <2>1, <2>3
  <1>10. {g[FIRST(list)]} \ {Null} = {i}
    BY <1>4, <1>9 DEF FIRST, Null
  <1>11. LayerById(id, list)
           = {[list[j] EXCEPT !.direct_io = d] : j \in {g[FIRST(list)]} \ {Null}, d \in BOOLEAN}
    BY DEF LayerById, g, IsWalk
  <1>12. LayerById(id, list) = {[list[i] EXCEPT !.direct_io = d] : d \in BOOLEAN}
    BY <1>10, <1>11
  <1> QED
    BY <1>12 DEF list, id
----------------------------------------------------------------------------
(* The names and the data of messages. *)

(* A C string is kept as it is by what copies strings up to the first 0. *)
LEMMA NameKept ==
  ASSUME NEW n \in Nat, NEW name \in [1 .. n -> {1, 2}]
  PROVE  CharStruct(name) = name
  <1> DEFINE t == name \o <<0>>
             found == {i \in 1 .. Len(t) : t[i] = 0}
  <1>0. name \in Seq(Int) /\ Len(name) = n
    OBVIOUS
  <1>1. Len(t) = n + 1
    BY <1>0
  <1>2. \A i \in 1 .. n : t[i] = name[i] /\ t[i] # 0
    BY <1>0
  <1>3. t[n + 1] = 0
    BY <1>0
  <1> HIDE DEF t
  <1>4. found = {n + 1}
    BY <1>1, <1>2, <1>3
  <1>5. SeqsExt!SelectInSeq(t, LAMBDA c : c = 0) = n + 1
    BY <1>4 DEF SeqsExt!SelectInSeq, SeqsExt!Min
  <1>6. CharStruct(name) = SubSeq(name, 1, n)
    BY <1>5 DEF CharStruct, t
  <1> QED
    BY <1>0, <1>6

LEMMA NameNoted ==
  ASSUME NEW name \in Name
  PROVE  CharStruct(name) = name
  <1>1. PICK n \in 0 .. 2 : name \in [1 .. n -> {1, 2}]
    BY DEF Name, Text
  <1> QED
    BY <1>1, NameKept

(* An event, and a score of the default type, come back as they went. *)
LEMMA EventKept ==
  ASSUME NEW e \in Event, NEW score \in Score
  PROVE  EventArrivesFor(e, score)
  <1>1. CharStruct(CharStruct(e.filename)) = e.filename
    BY NameNoted DEF Event
  <1>2. ConvertEvent(PackEvent(e)) = e
    BY <1>1 DEF ConvertEvent, PackEvent, ConvertCharStruct, PackCharStruct,
                ConvertSegment, PackSegment, Event
  <1>3. ASSUME score.type = "LRF_SCORE"
        PROVE  ConvertSegmentScore(PackSegmentScore(score)) = score
    BY <1>3 DEF ConvertSegmentScore, PackSegmentScore, Score
  <1> QED
    BY <1>2, <1>3 DEF EventArrivesFor

(* A file in a layer of the receiver's list comes back as it went. *)
LEMMA FileKept ==
  ASSUME NEW infos, NEW n \in 1 .. UInt8Size, NEW i \in 1 .. n,
         \A j \in 1 .. n : infos[j].direct_io \in BOOLEAN,
         NEW name \in Name, NEW data, NEW a, NEW b
  PROVE  FileArrivesFor([filename |-> name, segment |-> Seg(a, b),
                         layer |-> Linked(infos, n)[i], data |-> data], Linked(infos, n))
  <1> DEFINE list == Linked(infos, n)
             f == [filename |-> name, segment |-> Seg(a, b), layer |-> list[i], data |-> data]
             found == {[list[i] EXCEPT !.direct_io = d] : d \in BOOLEAN}
             Back(layer) == [filename |-> name, segment |-> Seg(a, b),
                             layer |-> layer, data |-> data]
             arrived == {Back(layer) : layer \in found}
  <1>1. LayerById(list[i].id_, list) = found
    BY WalkFinds
  <1>2. CharStruct(CharStruct(name)) = name
    BY NameNoted
  <1>3. ConvertSegment(PackSegment(Seg(a, b))) = Seg(a, b)
    BY DEF ConvertSegment, PackSegment, Seg
  <1>4. \E direct \in BOOLEAN : list[i].direct_io = direct /\
           list[i] = [id_ |-> list[i].id_, capacity_mb_ |-> list[i].capacity_mb_,
                      layer_loc |-> list[i].layer_loc,
                      bandwidth_mbps_ |-> list[i].bandwidth_mbps_,
                      io_client_type |-> list[i].io_client_type,
                      direct_io |-> direct, previous |-> list[i].previous,
                      next |-> list[i].next]
    BY DEF Linked
  <1> HIDE DEF list
  <1>5. ConvertPosixFile(PackPosixFile(f), list) = arrived
    BY <1>1, <1>2, <1>3 DEF ConvertPosixFile, PackPosixFile, ConvertCharStruct, PackCharStruct
  <1>6. [list[i] EXCEPT !.direct_io = TRUE] \in found
    OBVIOUS
  <1>7. arrived # {}
    BY <1>6
  <1>8. ASSUME NEW d \in BOOLEAN
        PROVE  [Back([list[i] EXCEPT !.direct_io = d])
                  EXCEPT !.layer.direct_io = f.layer.direct_io] = f
    <2> DEFINE direct == list[i].direct_io
               other == [list[i] EXCEPT !.direct_io = d]
    <2>1. [other EXCEPT !.direct_io = direct] = list[i]
      BY <1>4
    <2>2. [Back(other) EXCEPT !.layer.direct_io = direct]
            = Back([other EXCEPT !.direct_io = direct])
      OBVIOUS
    <2> QED
      BY <2>1, <2>2
  <1> HIDE DEF f, Back
  <1>9. \A g \in arrived : [g EXCEPT !.layer.direct_io = f.layer.direct_io] = f
    BY <1>8
  <1> QED
    BY <1>5, <1>7, <1>9 DEF FileArrivesFor, f, list
----------------------------------------------------------------------------
(* str_split: numbers in their order, and the pieces of a text. *)

(* The numbers of S up to n. *)
UpTo(S, n) == {j \in S : j <= n}

LEMMA UpToCount ==
  ASSUME NEW L \in Nat, NEW S, S \subseteq 1 .. L, NEW n \in Nat
  PROVE  /\ IsFiniteSet(S) /\ Cardinality(S) \in Nat
         /\ IsFiniteSet(UpTo(S, n)) /\ Cardinality(UpTo(S, n)) \in Nat
         /\ Cardinality(UpTo(S, 0)) = 0
         /\ n >= L => UpTo(S, n) = S
         /\ n + 1 \in S => Cardinality(UpTo(S, n + 1)) = Cardinality(UpTo(S, n)) + 1
         /\ n + 1 \notin S => Cardinality(UpTo(S, n + 1)) = Cardinality(UpTo(S, n))
  <1>0. \A k \in S : k \in Nat /\ k # 0 /\ k <= L
    OBVIOUS
  <1>1. IsFiniteSet(S) /\ Cardinality(S) \in Nat
    <2>1. S \in SUBSET (1 .. L) /\ IsFiniteSet(1 .. L)
      BY FS_Interval
    <2> QED
      BY <2>1, FS_Subset, FS_CardinalityType
  <1>2. IsFiniteSet(UpTo(S, n)) /\ Cardinality(UpTo(S, n)) \in Nat
    <2>1. UpTo(S, n) \in SUBSET S
      BY <1>0 DEF UpTo
    <2> QED
      BY <1>1, <2>1, FS_Subset, FS_CardinalityType
  <1>3. UpTo(S, 0) = {}
    <2>1. \A j \in S : ~(j <= 0)
      BY <1>0
    <2> QED
      BY ONLY <2>1 DEF UpTo
  <1>4. n >= L => UpTo(S, n) = S
    <2>1. n >= L => \A j \in S : j <= n
      BY <1>0
    <2> QED
      BY ONLY <2>1 DEF UpTo
  <1>p. \A j \in S : j <= n + 1 <=> j <= n \/ j = n + 1
    BY <1>0
  <1>q. ~(n + 1 <= n)
    OBVIOUS
  <1>5. CASE n + 1 \in S
    <2>1. UpTo(S, n + 1) = UpTo(S, n) \cup {n + 1} /\ n + 1 \notin UpTo(S, n)
      BY ONLY <1>p, <1>q, <1>5 DEF UpTo
    <2>2. Cardinality(UpTo(S, n + 1)) = Cardinality(UpTo(S, n)) + 1
      BY <1>2, <2>1, FS_AddElement
    <2> QED
      BY <1>1, <1>2, <1>3, <1>4, <1>5, <2>2, FS_EmptySet
  <1>6. CASE n + 1 \notin S
    <2>1. UpTo(S, n + 1) = UpTo(S, n)
      BY ONLY <1>p, <1>6 DEF UpTo
    <2> QED
      BY <1>1, <1>2, <1>3, <1>4, <1>6, <2>1, FS_EmptySet
  <1> QED
    BY <1>5, <1>6

(* Two members of a set do not have the same rank. *)
LEMMA RankStrict ==
  ASSUME NEW L \in Nat, NEW S, S \subseteq 1 .. L, NEW i \in S, NEW j \in S, i < j
  PROVE  Cardinality(UpTo(S, i)) # Cardinality(UpTo(S, j))
  <1>0. \A k \in S : k \in Nat /\ k # 0 /\ k <= L
    OBVIOUS
  <1>1. UpTo(S, i) \in SUBSET UpTo(S, j) /\ j \in UpTo(S, j) /\ j \notin UpTo(S, i)
    <2>1. j <= j /\ ~(j <= i) /\ \A k \in S : k <= i => k <= j
      BY <1>0
    <2> QED
      BY ONLY <2>1, j \in S DEF UpTo
  <1>2. IsFiniteSet(UpTo(S, j))
    BY <1>0, UpToCount
  <1> QED
    BY <1>1, <1>2, FS_Subset

LEMMA NthExists ==
  ASSUME NEW L \in Nat, NEW S, S \subseteq 1 .. L, NEW n \in 1 .. Cardinality(S)
  PROVE  \E i \in S : Cardinality(UpTo(S, i)) = n
  <1>0. \A k \in S : k \in Nat /\ k # 0 /\ k <= L
    OBVIOUS
  <1> DEFINE f(m) == Cardinality(UpTo(S, m))
             T == {m \in Nat : f(m) >= n}
  <1>1. ASSUME NEW m \in Nat
        PROVE  /\ f(m) \in Nat
               /\ m + 1 \in S => f(m + 1) = f(m) + 1
               /\ m + 1 \notin S => f(m + 1) = f(m)
    BY ONLY L \in Nat, S \subseteq 1 .. L, m \in Nat, UpToCount
  <1>2. f(0) = 0 /\ f(L) = Cardinality(S) /\ Cardinality(S) \in Nat
    <2>1. L \in Nat /\ L >= L
      OBVIOUS
    <2> QED
      BY <2>1, UpToCount
  <1> HIDE DEF f
  <1>3. L \in T /\ T \subseteq Nat
    BY <1>1, <1>2
  <1>4. PICK m \in T : \A k \in T : m <= k
    BY <1>3, Least
  <1>5. m \in Nat /\ f(m) >= n /\ m # 0
    BY <1>2, <1>4
  <1>6. m - 1 \in Nat /\ ~(m <= m - 1) /\ (m - 1) + 1 = m
    BY <1>5
  <1>7. f(m - 1) < n
    BY <1>1, <1>4, <1>6
  <1>8. (m \in S => f(m) = f(m - 1) + 1) /\ (m \notin S => f(m) = f(m - 1))
    BY <1>1, <1>6
  <1>9. m \in S /\ f(m) = n
    BY <1>1, <1>5, <1>6, <1>7, <1>8
  <1> QED
    BY <1>9 DEF f

LEMMA NthIs ==
  ASSUME NEW L \in Nat, NEW S, S \subseteq 1 .. L, NEW i \in S
  PROVE  /\ Nth(S, Cardinality(UpTo(S, i))) = i
         /\ Cardinality(UpTo(S, i)) \in 1 .. Cardinality(S)
  <1>0. \A k \in S : k \in Nat /\ k # 0 /\ k <= L
    OBVIOUS
  <1> DEFINE n == Cardinality(UpTo(S, i))
  <1>1. \A j \in S : Cardinality({k \in S : k <= j}) = n => j = i
    <2> SUFFICES ASSUME NEW j \in S, Cardinality(UpTo(S, j)) = n PROVE j = i
      BY <1>0 DEF UpTo
    <2>1. i < j \/ j < i \/ i = j
      BY <1>0
    <2>2. i < j => Cardinality(UpTo(S, i)) # Cardinality(UpTo(S, j))
      BY RankStrict
    <2>3. j < i => Cardinality(UpTo(S, j)) # Cardinality(UpTo(S, i))
      BY RankStrict
    <2> QED
      BY <2>1, <2>2, <2>3
  <1>2. Cardinality({k \in S : k <= i}) = n
    BY <1>0 DEF UpTo
  <1>3. i \in UpTo(S, i) /\ UpTo(S, i) \in SUBSET S /\ i \in Nat
    BY <1>0 DEF UpTo
  <1>4. n \in 1 .. Cardinality(S)
    <2>1. IsFiniteSet(S) /\ IsFiniteSet(UpTo(S, i)) /\ n \in Nat /\ Cardinality(S) \in Nat
      BY <1>3, UpToCount
    <2>2. n # 0
      BY <1>3, <2>1, FS_EmptySet
    <2>3. n <= Cardinality(S)
      BY <1>3, <2>1, FS_Subset
    <2> QED
      BY <2>1, <2>2, <2>3
  <1> QED
    BY <1>1, <1>2, <1>4 DEF Nth

LEMMA NthIn ==
  ASSUME NEW L \in Nat, NEW S, S \subseteq 1 .. L, NEW n \in 1 .. Cardinality(S)
  PROVE  Nth(S, n) \in S /\ Cardinality(UpTo(S, Nth(S, n))) = n
  <1>0. \A k \in S : k \in Nat /\ k # 0 /\ k <= L
    OBVIOUS
  <1>1. PICK i \in S : Cardinality(UpTo(S, i)) = n
    BY NthExists
  <1> QED
    BY <1>1, NthIs

(* A number beyond all of S comes last. *)
LEMMA NthAdd ==
  ASSUME NEW L \in Nat, NEW S, S \subseteq 1 .. L, NEW m \in Nat, m > L
  PROVE  /\ Cardinality(S \cup {m}) = Cardinality(S) + 1
         /\ Nth(S \cup {m}, Cardinality(S) + 1) = m
  <1>0. \A k \in S : k \in Nat /\ k # 0 /\ k <= L
    OBVIOUS
  <1> DEFINE R == S \cup {m}
  <1>a. m \notin S /\ m <= m /\ \A j \in S : j <= m /\ ~(m <= j) /\ j \in 1 .. m
    BY <1>0
  <1>1. R \subseteq 1 .. m /\ m \in R /\ m \notin S /\ UpTo(R, m) = R
    BY ONLY <1>a, m \in 1 .. m DEF UpTo
  <1>2. Cardinality(R) = Cardinality(S) + 1
    BY <1>1, UpToCount, FS_AddElement
  <1>3. Nth(R, Cardinality(R)) = m
    BY <1>1, NthIs
  <1> QED
    BY <1>2, <1>3

LEMMA NthKept ==
  ASSUME NEW L \in Nat, NEW S, S \subseteq 1 .. L, NEW m \in Nat, m > L,
         NEW n \in 1 .. Cardinality(S)
  PROVE  Nth(S \cup {m}, n) = Nth(S, n)
  <1> DEFINE R == S \cup {m}
             i == Nth(S, n)
  <1>0. \A k \in S : k \in Nat /\ k # 0 /\ k <= L
    OBVIOUS
  <1>1. m \notin S /\ \A j \in S : ~(m <= j) /\ j \in 1 .. m
    BY <1>0
  <1>2. R \subseteq 1 .. m
    BY ONLY <1>1, m \in 1 .. m
  <1>3. i \in S /\ Cardinality(UpTo(S, i)) = n
    BY NthIn
  <1> HIDE DEF i
  <1>4. i \in R /\ UpTo(R, i) = UpTo(S, i)
    BY ONLY <1>1, <1>3 DEF UpTo
  <1>5. Nth(R, n) = i
    BY ONLY <1>2, <1>3, <1>4, NthIs, m \in Nat
  <1> QED
    BY <1>5 DEF i

(* The last number of a set has the highest rank, and only that one. *)
LEMMA NthLast ==
  ASSUME NEW L \in Nat, NEW S, S \subseteq 1 .. L, NEW n \in 1 .. Cardinality(S)
  PROVE  n = Cardinality(S) <=> \A j \in S : j <= Nth(S, n)
  <1>0. \A k \in S : k \in Nat /\ k # 0 /\ k <= L
    OBVIOUS
  <1> DEFINE i == Nth(S, n)
  <1>1. i \in S /\ Cardinality(UpTo(S, i)) = n /\ UpTo(S, i) \in SUBSET S /\ IsFiniteSet(S)
    BY NthIn, UpToCount DEF UpTo
  <1> HIDE DEF i
  <1>2. n = Cardinality(S) => UpTo(S, i) = S
    BY <1>1, FS_Subset
  <1>3. (\A j \in S : j <= i) => UpTo(S, i) = S
    BY <1>0 DEF UpTo
  <1>4. UpTo(S, i) = S => \A j \in S : j <= i
    BY <1>0 DEF UpTo
  <1> QED
    BY <1>1, <1>2, <1>3, <1>4 DEF i
----------------------------------------------------------------------------
(* Where a piece ends. *)
IsEnd(text, delim, i, j) ==
    /\ j \in i .. Len(text)
    /\ ~Inside(text, delim, j + 1)
    /\ \A k \in i .. j : Inside(text, delim, k)

LEMMA EndIs ==
  ASSUME NEW text, NEW d, NEW i \in Nat, NEW j \in Nat, IsEnd(text, d, i, j), Len(text) \in Nat
  PROVE  EndOf(text, d, i) = j
  <1> SUFFICES ASSUME NEW h \in i .. Len(text), IsEnd(text, d, i, h) PROVE h = j
    BY DEF EndOf, IsEnd
  <1>1. h \in Nat /\ i <= h /\ i <= j
    BY DEF IsEnd
  <1>2. h < j => h + 1 \in i .. j
    BY <1>1
  <1>3. j < h => j + 1 \in i .. h
    BY <1>1
  <1>4. ~(h < j) /\ ~(j < h)
    BY ONLY <1>2, <1>3, IsEnd(text, d, i, j), IsEnd(text, d, i, h) DEF IsEnd
  <1> QED
    BY <1>1, <1>4

LEMMA EndIn ==
  ASSUME NEW text, NEW d, NEW i \in Starts(text, d), Len(text) \in Nat
  PROVE  EndOf(text, d, i) \in Nat /\ IsEnd(text, d, i, EndOf(text, d, i))
  <1> DEFINE L == Len(text)
             In(k) == Inside(text, d, k)
             T == {j \in Nat : i <= j /\ ~In(j + 1)}
  <1>1. i \in Nat /\ i <= L /\ In(i) /\ \A k : In(k) => k \in Nat /\ k <= L
    BY DEF Starts, Inside
  <1> HIDE DEF In
  <1>2. L \in T
    <2>1. ~(L + 1 <= L)
      OBVIOUS
    <2> QED
      BY <1>1, <2>1
  <1>3. PICK j \in T : \A k \in T : j <= k
    <2>1. T \subseteq Nat
      OBVIOUS
    <2> HIDE DEF T
    <2> QED
      BY <1>2, <2>1, Least
  <1>4. j \in Nat /\ i <= j /\ ~In(j + 1) /\ j <= L
    BY <1>2, <1>3
  <1>5. ASSUME NEW k \in i .. j PROVE In(k)
    <2>1. CASE k = i
      BY <1>1, <2>1
    <2>2. CASE k # i
      <3>1. k - 1 \in Nat /\ i <= k - 1 /\ (k - 1) + 1 = k /\ ~(j <= k - 1)
        BY <1>1, <1>4, <2>2
      <3>2. k - 1 \notin T
        BY <1>3, <3>1
      <3> QED
        BY <3>1, <3>2
    <2> QED
      BY <2>1, <2>2
  <1>6. IsEnd(text, d, i, j)
    BY <1>1, <1>4, <1>5 DEF IsEnd, In
  <1> QED
    BY <1>1, <1>4, <1>6, EndIs

(* A text that ends in a piece: the last piece, and only that, ends there. *)
LEMMA LastEnds ==
  ASSUME NEW text, NEW d, Len(text) \in Nat \ {0}, text[Len(text)] # d,
         NEW i \in Starts(text, d)
  PROVE  EndOf(text, d, i) = Len(text) <=> \A j \in Starts(text, d) : j <= i
  <1> DEFINE L == Len(text)
             In(k) == Inside(text, d, k)
             e == EndOf(text, d, i)
  <1>1. /\ In(L) /\ In(i) /\ \A k : In(k) => k \in Nat /\ k # 0 /\ k <= L
        /\ \A k : k \in Starts(text, d) <=> In(k) /\ ~In(k - 1)
    BY DEF Starts, Inside
  <1>2. e \in Nat /\ i <= e /\ e <= L /\ ~In(e + 1) /\ \A k \in i .. e : In(k)
    BY EndIn DEF IsEnd
  <1> HIDE DEF In, e
  <1>3. ASSUME e = L, NEW j \in Starts(text, d), ~(j <= i) PROVE FALSE
    <2>1. j \in Nat /\ j <= L /\ ~In(j - 1) /\ i \in Nat
      BY <1>1
    <2>2. j - 1 \in i .. e
      BY <1>2, <1>3, <2>1
    <2> QED
      BY <1>2, <2>1, <2>2
  <1>4. ASSUME e # L, \A j \in Starts(text, d) : j <= i PROVE FALSE
    <2> DEFINE T == {k \in Nat : e < k /\ In(k)}
    <2>1. L \in T /\ T \subseteq Nat
      BY <1>1, <1>2, <1>4
    <2>2. PICK k \in T : \A m \in T : k <= m
      BY <2>1, Least
    <2>3. k \in Nat /\ e < k /\ In(k) /\ k # e + 1
      BY <1>2, <2>2
    <2>4. k - 1 \in Nat /\ e < k - 1 /\ ~(k <= k - 1)
      BY <1>2, <2>3
    <2>5. ~In(k - 1)
      BY <2>2, <2>4
    <2>6. k \in Starts(text, d)
      BY <1>1, <2>3, <2>5
    <2>7. k <= i /\ i \in Nat
      BY <1>1, <1>4, <2>6
    <2> QED
      BY <1>2, <2>3, <2>7
  <1> QED
    BY <1>3, <1>4 DEF e
----------------------------------------------------------------------------
(* One more character. *)

LEMMA InsideStep ==
  ASSUME NEW C, NEW text \in Seq(C), NEW d, NEW c \in C
  PROVE  LET u == Append(text, c)
             L == Len(text)
         IN  /\ L \in Nat /\ u \in Seq(C) /\ Len(u) = L + 1
             /\ u[L + 1] = c /\ \A k \in 1 .. L : u[k] = text[k]
             /\ \A k \in Int : k <= L => (Inside(u, d, k) <=> Inside(text, d, k))
             /\ Inside(u, d, L + 1) <=> c # d
             /\ ~Inside(text, d, L + 1) /\ ~Inside(u, d, L + 2)
  <1> DEFINE u == Append(text, c)
             L == Len(text)
  <1>1. /\ L \in Nat /\ u \in Seq(C) /\ Len(u) = L + 1
        /\ u[L + 1] = c /\ \A k \in 1 .. L : u[k] = text[k]
    BY AppendProperties
  <1> HIDE DEF u, L
  <1>2. ASSUME NEW k \in Int, k <= L PROVE Inside(u, d, k) <=> Inside(text, d, k)
    <2>1. k \in 1 .. Len(u) <=> k \in 1 .. L
      BY <1>1, <1>2
    <2> QED
      BY ONLY <1>1, <2>1 DEF Inside, L
  <1>3. L + 1 \in 1 .. Len(u) /\ L + 1 \notin 1 .. L /\ L + 2 \notin 1 .. Len(u)
    BY <1>1
  <1>4. /\ Inside(u, d, L + 1) <=> c # d
        /\ ~Inside(text, d, L + 1) /\ ~Inside(u, d, L + 2)
    BY ONLY <1>1, <1>3 DEF Inside, L
  <1> QED
    BY <1>1, <1>2, <1>4 DEF u, L

LEMMA StartsIn ==
  ASSUME NEW text, NEW d, Len(text) \in Nat
  PROVE  /\ Starts(text, d) \subseteq 1 .. Len(text)
         /\ \A k : k \in Starts(text, d) <=>
                   k \in Nat /\ k # 0 /\ k <= Len(text)
                   /\ Inside(text, d, k) /\ ~Inside(text, d, k - 1)
  BY DEF Starts, Inside

LEMMA StartsStep ==
  ASSUME NEW C, NEW text \in Seq(C), NEW d, NEW c \in C
  PROVE  Starts(Append(text, c), d) =
           IF c # d /\ ~Inside(text, d, Len(text))
           THEN Starts(text, d) \cup {Len(text) + 1} ELSE Starts(text, d)
  <1> DEFINE u == Append(text, c)
             L == Len(text)
  <1>a. L \in Nat /\ Len(u) = L + 1
    BY InsideStep
  <1>b. Inside(u, d, L + 1) <=> c # d
    BY InsideStep
  <1>c. ASSUME NEW k \in Int, k <= L PROVE Inside(u, d, k) <=> Inside(text, d, k)
    BY <1>c, InsideStep
  <1>1. /\ L \in Nat /\ Len(u) = L + 1
        /\ \A k \in Int : k <= L => (Inside(u, d, k) <=> Inside(text, d, k))
        /\ Inside(u, d, L + 1) <=> c # d
    BY <1>a, <1>b, <1>c
  <1> HIDE DEF u, L
  <1>2. \A k : k \in Starts(text, d) <=>
              k \in Nat /\ k # 0 /\ k <= L /\ Inside(text, d, k) /\ ~Inside(text, d, k - 1)
    BY <1>1, StartsIn DEF L
  <1>3. \A k : k \in Starts(u, d) <=>
              k \in Nat /\ k # 0 /\ k <= L + 1 /\ Inside(u, d, k) /\ ~Inside(u, d, k - 1)
    <2>1. Len(u) \in Nat /\ Len(u) = L + 1
      BY <1>1
    <2> QED
      BY <2>1, StartsIn
  <1>4. ASSUME NEW k, k # L + 1
        PROVE  k \in Starts(u, d) <=> k \in Starts(text, d)
    <2>1. ASSUME k \in Nat, k <= L
          PROVE  /\ Inside(u, d, k) <=> Inside(text, d, k)
                 /\ Inside(u, d, k - 1) <=> Inside(text, d, k - 1)
      BY <1>1, <2>1
    <2>2. k \in Nat => (k <= L + 1 <=> k <= L)
      BY <1>1, <1>4
    <2> QED
      BY ONLY <1>2, <1>3, <2>1, <2>2
  <1>5. L + 1 \in Starts(u, d) <=> c # d /\ ~Inside(text, d, L)
    <2>1. /\ L + 1 \in Nat /\ L + 1 # 0 /\ L + 1 <= L + 1 /\ (L + 1) - 1 = L
          /\ Inside(u, d, L) <=> Inside(text, d, L)
      BY <1>1
    <2> QED
      BY ONLY <1>1, <1>3, <2>1
  <1>6. L + 1 \notin Starts(text, d)
    <2>1. ~(L + 1 <= L)
      BY <1>1
    <2> QED
      BY <1>2, <2>1
  <1>7. CASE c # d /\ ~Inside(text, d, L)
    <2>1. Starts(u, d) = Starts(text, d) \cup {L + 1}
      BY ONLY <1>4, <1>5, <1>7
    <2> QED
      BY <1>7, <2>1 DEF u, L
  <1>8. CASE ~(c # d /\ ~Inside(text, d, L))
    <2>1. Starts(u, d) = Starts(text, d)
      BY ONLY <1>4, <1>5, <1>6, <1>8
    <2> QED
      BY <1>8, <2>1 DEF u, L
  <1> QED
    BY <1>7, <1>8

LEMMA EndStep ==
  ASSUME NEW C, NEW text \in Seq(C), NEW d, NEW c \in C, NEW i \in Starts(text, d)
  PROVE  EndOf(Append(text, c), d, i) =
           IF c # d /\ EndOf(text, d, i) = Len(text) THEN Len(text) + 1 ELSE EndOf(text, d, i)
  <1> DEFINE u == Append(text, c)
             L == Len(text)
             e == EndOf(text, d, i)
  <1>a. L \in Nat /\ Len(u) = L + 1
    BY InsideStep
  <1>b. Inside(u, d, L + 1) <=> c # d
    BY InsideStep
  <1>0. ~Inside(u, d, L + 2)
    BY InsideStep
  <1>c. ASSUME NEW k \in Int, k <= L PROVE Inside(u, d, k) <=> Inside(text, d, k)
    BY <1>c, InsideStep
  <1>1. /\ L \in Nat /\ Len(u) = L + 1
        /\ \A k \in Int : k <= L => (Inside(u, d, k) <=> Inside(text, d, k))
        /\ Inside(u, d, L + 1) <=> c # d
    BY <1>a, <1>b, <1>c
  <1>2. /\ i \in Nat /\ e \in Nat /\ i <= e /\ e <= L /\ ~Inside(text, d, e + 1)
        /\ \A k \in i .. e : Inside(text, d, k)
    BY <1>1, EndIn DEF IsEnd, Starts
  <1> HIDE DEF u, L, e
  <1>3. \A k \in i .. e : k \in Int /\ k <= L /\ Inside(u, d, k)
    BY <1>1, <1>2
  <1>4. CASE c # d /\ e = L
    <2>1. \A k \in i .. L + 1 : k \in i .. e \/ k = L + 1
      BY <1>1, <1>2, <1>4
    <2>2. L + 1 \in i .. Len(u) /\ L + 1 \in Nat /\ (L + 1) + 1 = L + 2 /\ Len(u) \in Nat
      BY <1>1, <1>2
    <2>3. IsEnd(u, d, i, L + 1)
      BY ONLY <1>0, <1>1, <1>3, <1>4, <2>1, <2>2 DEF IsEnd
    <2>4. EndOf(u, d, i) = L + 1
      BY ONLY <1>2, <2>2, <2>3, EndIs
    <2> QED
      BY <1>4, <2>4 DEF u, L, e
  <1>5. CASE ~(c # d /\ e = L)
    <2>1. e \in i .. Len(u) /\ e + 1 \in Int /\ Len(u) \in Nat
      BY <1>1, <1>2
    <2>2. ~Inside(u, d, e + 1)
      <3>1. CASE e = L
        BY ONLY <1>1, <1>5, <3>1
      <3>2. CASE e # L
        <4>1. e + 1 <= L
          BY <1>1, <1>2, <3>2
        <4> QED
          BY ONLY <1>1, <1>2, <2>1, <4>1
      <3> QED
        BY <3>1, <3>2
    <2>3. IsEnd(u, d, i, e)
      BY ONLY <1>3, <2>1, <2>2 DEF IsEnd
    <2>4. EndOf(u, d, i) = e
      BY ONLY <1>2, <2>1, <2>3, EndIs
    <2> QED
      BY <1>5, <2>4 DEF u, L, e
  <1> QED
    BY <1>4, <1>5

LEMMA EndNew ==
  ASSUME NEW C, NEW text \in Seq(C), NEW d, NEW c \in C, c # d
  PROVE  EndOf(Append(text, c), d, Len(text) + 1) = Len(text) + 1
  <1> DEFINE u == Append(text, c)
             L == Len(text)
  <1>0. /\ L \in Nat /\ Len(u) = L + 1
        /\ Inside(u, d, L + 1) <=> c # d
        /\ ~Inside(u, d, L + 2)
    BY ONLY text \in Seq(C), c \in C, InsideStep
  <1> HIDE DEF u, L
  <1>1. /\ L \in Nat /\ Len(u) = L + 1
        /\ Inside(u, d, L + 1) /\ ~Inside(u, d, L + 2)
    BY ONLY <1>0, c # d
  <1>2. /\ L + 1 \in (L + 1) .. Len(u) /\ L + 1 \in Nat /\ (L + 1) + 1 = L + 2 /\ Len(u) \in Nat
        /\ \A k \in (L + 1) .. (L + 1) : k = L + 1
    BY <1>1
  <1>3. IsEnd(u, d, L + 1, L + 1)
    BY ONLY <1>1, <1>2 DEF IsEnd
  <1>4. EndOf(u, d, L + 1) = L + 1
    BY ONLY <1>2, <1>3, EndIs
  <1> QED
    BY <1>4 DEF u, L
----------------------------------------------------------------------------
(* The pieces of a text with one more character. *)

LEMMA TokensAre ==
  ASSUME NEW C, NEW text \in Seq(C), NEW d
  PROVE  LET S == Starts(text, d)
             K == Cardinality(S)
         IN  /\ K \in Nat /\ Tokens(text, d) \in Seq(Seq(C))
             /\ DOMAIN Tokens(text, d) = 1 .. K /\ Len(Tokens(text, d)) = K
             /\ \A n \in 1 .. K :
                   /\ Nth(S, n) \in S
                   /\ Tokens(text, d)[n] = SubSeq(text, Nth(S, n), EndOf(text, d, Nth(S, n)))
  <1> DEFINE S == Starts(text, d)
             K == Cardinality(S)
             ts == Tokens(text, d)
  <1>1. Len(text) \in Nat /\ \A k \in 1 .. Len(text) : text[k] \in C
    BY LenProperties
  <1>2. S \subseteq 1 .. Len(text)
    BY <1>1, StartsIn
  <1>3. K \in Nat
    BY <1>1, <1>2, UpToCount
  <1>4. ts = [n \in 1 .. K |-> SubSeq(text, Nth(S, n), EndOf(text, d, Nth(S, n)))]
    BY DEF Tokens
  <1> HIDE DEF S, K, ts
  <1>5. ASSUME NEW n \in 1 .. K
        PROVE  Nth(S, n) \in S /\ SubSeq(text, Nth(S, n), EndOf(text, d, Nth(S, n))) \in Seq(C)
    <2> DEFINE i == Nth(S, n)
               e == EndOf(text, d, i)
    <2>1. i \in S
      BY <1>1, <1>2, NthIn DEF K
    <2>2. e \in Nat /\ e <= Len(text)
      BY <1>1, <2>1, EndIn DEF S, IsEnd
    <2> HIDE DEF i, e
    <2>3. i \in Nat /\ i # 0
      BY <1>2, <2>1
    <2>4. i \in Int /\ e \in Int /\ \A k \in i .. e : text[k] \in C
      BY <1>1, <2>2, <2>3
    <2>5. SubSeq(text, i, e) \in Seq(C)
      BY ONLY <2>4, SubSeqProperties
    <2> QED
      BY <2>1, <2>5 DEF i, e
  <1>6. ts \in [1 .. K -> Seq(C)]
    BY <1>4, <1>5
  <1>7. ts \in Seq(Seq(C)) /\ Len(ts) = K
    BY <1>3, <1>6
  <1> QED
    BY <1>3, <1>4, <1>5, <1>7 DEF S, K, ts

(* A piece that goes on no further. *)
LEMMA PieceSame ==
  ASSUME NEW C, NEW text \in Seq(C), NEW c \in C, NEW i \in Nat \ {0}, NEW e \in Nat,
         e <= Len(text)
  PROVE  SubSeq(Append(text, c), i, e) = SubSeq(text, i, e)
  <1> DEFINE u == Append(text, c)
  <1>1. Len(text) \in Nat /\ \A k \in 1 .. Len(text) : text[k] \in C /\ u[k] = text[k]
    BY LenProperties, AppendProperties
  <1> HIDE DEF u
  <1>2. \A k \in i .. e : text[k] \in C /\ u[k] = text[k]
    BY <1>1
  <1> DEFINE a == SubSeq(text, i, e)
             b == SubSeq(u, i, e)
  <1>3. /\ a \in Seq(C) /\ Len(a) = IF i <= e THEN e - i + 1 ELSE 0
        /\ \A k \in 1 .. e - i + 1 : a[k] = text[i + k - 1]
    BY ONLY <1>2, i \in Int, e \in Int, SubSeqProperties
  <1>4. /\ b \in Seq(C) /\ Len(b) = IF i <= e THEN e - i + 1 ELSE 0
        /\ \A k \in 1 .. e - i + 1 : b[k] = u[i + k - 1]
    BY ONLY <1>2, i \in Int, e \in Int, SubSeqProperties
  <1>5. \A k \in 1 .. e - i + 1 : i + k - 1 \in i .. e
    OBVIOUS
  <1>6. \A k \in 1 .. Len(a) : k \in 1 .. e - i + 1
    BY <1>3
  <1> HIDE DEF a, b
  <1>7. Len(a) = Len(b) /\ \A k \in 1 .. Len(a) : a[k] = b[k]
    BY ONLY <1>2, <1>3, <1>4, <1>5, <1>6
  <1>8. a = b
    BY ONLY <1>3, <1>4, <1>7, SeqEqual
  <1> QED
    BY <1>8 DEF a, b, u

(* A piece that goes on. *)
LEMMA PieceMore ==
  ASSUME NEW C, NEW text \in Seq(C), NEW c \in C, NEW i \in Nat \ {0}, i <= Len(text) + 1
  PROVE  SubSeq(Append(text, c), i, Len(text) + 1) = Append(SubSeq(text, i, Len(text)), c)
  <1> DEFINE u == Append(text, c)
             L == Len(text)
  <1>1. /\ L \in Nat /\ u \in Seq(C) /\ Len(u) = L + 1 /\ u[L + 1] = c
    BY LenProperties, AppendProperties
  <1>2. SubSeq(u, i, L) = SubSeq(text, i, L)
    BY <1>1, PieceSame
  <1>3. SubSeq(text, i, L) \in Seq(C)
    <2>1. \A k \in i .. L : text[k] \in C
      BY <1>1, LenProperties
    <2> QED
      BY ONLY <1>1, <2>1, i \in Int, L \in Int, SubSeqProperties
  <1> HIDE DEF u, L
  <1>4. SubSeq(u, i, L + 1) = SubSeq(u, i, L) \o <<c>>
    <2>1. i \in 1 .. Len(u) /\ L + 1 \in i .. Len(u) /\ (L + 1) - 1 = L
      BY <1>1 DEF L
    <2> QED
      BY ONLY <1>1, <2>1, SubSeqRecursiveSecond
  <1>5. Append(SubSeq(text, i, L), c) = SubSeq(text, i, L) \o <<c>>
    BY ONLY <1>3, c \in C, AppendIsConcat
  <1> QED
    BY <1>2, <1>4, <1>5 DEF u, L

(* A delimiter ends the last piece, if anything. *)
LEMMA TokensDelim ==
  ASSUME NEW C, NEW text \in Seq(C), NEW d \in C
  PROVE  Tokens(Append(text, d), d) = Tokens(text, d)
  <1> DEFINE u == Append(text, d)
             L == Len(text)
             S == Starts(text, d)
             K == Cardinality(S)
             a == Tokens(text, d)
             b == Tokens(u, d)
  <1>1. u \in Seq(C) /\ L \in Nat
    BY LenProperties, AppendProperties
  <1>2. Starts(u, d) = S
    BY StartsStep
  <1>3. /\ a \in Seq(Seq(C)) /\ Len(a) = K /\ K \in Nat
        /\ \A n \in 1 .. K : /\ Nth(S, n) \in S
                             /\ a[n] = SubSeq(text, Nth(S, n), EndOf(text, d, Nth(S, n)))
    BY TokensAre
  <1>4. /\ b \in Seq(Seq(C)) /\ Len(b) = K
        /\ \A n \in 1 .. K : b[n] = SubSeq(u, Nth(S, n), EndOf(u, d, Nth(S, n)))
    <2> HIDE DEF u, b
    <2> QED
      BY <1>1, <1>2, TokensAre DEF b
  <1>5. ASSUME NEW i \in S
        PROVE  SubSeq(u, i, EndOf(u, d, i)) = SubSeq(text, i, EndOf(text, d, i))
    <2> DEFINE e == EndOf(text, d, i)
    <2>1. EndOf(u, d, i) = e
      BY EndStep
    <2>2. e \in Nat /\ e <= L /\ i \in Nat \ {0}
      BY <1>1, EndIn DEF IsEnd, Starts
    <2> HIDE DEF e
    <2>3. SubSeq(u, i, e) = SubSeq(text, i, e)
      BY <2>2, PieceSame
    <2> QED
      BY <2>1, <2>3 DEF e
  <1> HIDE DEF u, S, K, a, b
  <1>6. Len(a) = Len(b) /\ \A n \in 1 .. Len(b) : b[n] = a[n]
    BY ONLY <1>3, <1>4, <1>5
  <1>7. b = a
    BY ONLY <1>3, <1>4, <1>6, SeqEqual
  <1> QED
    BY <1>7 DEF a, b, u

(* Any other character after a delimiter, or first, begins a piece. *)
LEMMA TokensNew ==
  ASSUME NEW C, NEW text \in Seq(C), NEW d, NEW c \in C, c # d,
         ~Inside(text, d, Len(text))
  PROVE  Tokens(Append(text, c), d) = Append(Tokens(text, d), <<c>>)
  <1> DEFINE u == Append(text, c)
             L == Len(text)
             S == Starts(text, d)
             R == S \cup {L + 1}
             K == Cardinality(S)
             a == Tokens(text, d)
             b == Tokens(u, d)
             x == Append(a, <<c>>)
  <1>1. u \in Seq(C) /\ L \in Nat
    BY LenProperties, AppendProperties
  <1>2. Starts(u, d) = R
    BY StartsStep
  <1>3. /\ a \in Seq(Seq(C)) /\ Len(a) = K /\ K \in Nat
        /\ \A n \in 1 .. K : /\ Nth(S, n) \in S
                             /\ a[n] = SubSeq(text, Nth(S, n), EndOf(text, d, Nth(S, n)))
    BY TokensAre
  <1>4. /\ Cardinality(R) = K + 1 /\ Nth(R, K + 1) = L + 1
        /\ \A n \in 1 .. K : Nth(R, n) = Nth(S, n)
    <2>1. S \subseteq 1 .. L /\ L + 1 \in Nat /\ L + 1 > L
      BY <1>1, StartsIn
    <2> DEFINE m == L + 1
    <2>2. S \subseteq 1 .. L /\ L \in Nat /\ m \in Nat /\ m > L
      BY <1>1, <2>1
    <2> HIDE DEF S, L, m
    <2>3. /\ Cardinality(S \cup {m}) = Cardinality(S) + 1
          /\ Nth(S \cup {m}, Cardinality(S) + 1) = m
      BY ONLY <2>2, NthAdd
    <2>4. ASSUME NEW n \in 1 .. Cardinality(S) PROVE Nth(S \cup {m}, n) = Nth(S, n)
      BY ONLY <2>2, NthKept, n \in 1 .. Cardinality(S)
    <2> QED
      BY ONLY <2>3, <2>4 DEF m
  <1>5. /\ b \in Seq(Seq(C)) /\ Len(b) = K + 1
        /\ \A n \in 1 .. K + 1 : b[n] = SubSeq(u, Nth(R, n), EndOf(u, d, Nth(R, n)))
    <2> HIDE DEF u, b, R
    <2> QED
      BY <1>1, <1>2, <1>4, TokensAre DEF b
  <1>6. ASSUME NEW i \in S
        PROVE  SubSeq(u, i, EndOf(u, d, i)) = SubSeq(text, i, EndOf(text, d, i))
    <2> DEFINE e == EndOf(text, d, i)
    <2>1. e \in Nat /\ i <= e /\ e <= L /\ i \in Nat \ {0} /\ \A k \in i .. e : Inside(text, d, k)
      BY <1>1, EndIn DEF IsEnd, Starts
    <2>2. e # L
      <3>1. e \in i .. e
        BY <2>1
      <3> QED
        BY <2>1, <3>1
    <2>3. EndOf(u, d, i) = e
      BY <2>2, EndStep
    <2> HIDE DEF e
    <2>4. SubSeq(u, i, e) = SubSeq(text, i, e)
      BY <2>1, PieceSame
    <2> QED
      BY <2>3, <2>4 DEF e
  <1>7. SubSeq(u, L + 1, EndOf(u, d, L + 1)) = <<c>>
    <2>1. EndOf(u, d, L + 1) = L + 1
      BY EndNew
    <2>2. SubSeq(u, L + 1, L + 1) = Append(SubSeq(text, L + 1, L), c)
      <3>1. L + 1 \in Nat \ {0} /\ L + 1 <= L + 1
        BY <1>1
      <3> QED
        BY <3>1, PieceMore
    <2>3. SubSeq(text, L + 1, L) = <<>>
      <3>1. L + 1 \in Int /\ L \in Int /\ L < L + 1
        BY <1>1
      <3> QED
        BY <3>1, SubSeqEmpty
    <2>4. Append(<<>>, c) = <<c>>
      BY ONLY TRUE
    <2> HIDE DEF u, L
    <2> QED
      BY ONLY <2>1, <2>2, <2>3, <2>4
  <1>8. /\ x \in Seq(Seq(C)) /\ Len(x) = K + 1 /\ x[K + 1] = <<c>>
        /\ \A n \in 1 .. K : x[n] = a[n]
    <2>1. <<c>> \in Seq(C)
      OBVIOUS
    <2> HIDE DEF a
    <2> QED
      BY <1>3, <2>1, AppendProperties
  <1> HIDE DEF u, S, R, K, L, a, b, x
  <1>9. \A n \in 1 .. K + 1 : n \in 1 .. K \/ n = K + 1
    BY <1>3
  <1>10. K + 1 \in 1 .. K + 1 /\ \A n \in 1 .. K : n \in 1 .. K + 1
    BY <1>3
  <1>11. \A n \in 1 .. K : b[n] = x[n]
    BY ONLY <1>3, <1>4, <1>5, <1>6, <1>8, <1>10
  <1>12. b[K + 1] = x[K + 1]
    BY ONLY <1>4, <1>5, <1>7, <1>8, <1>10
  <1>13. Len(b) = Len(x) /\ \A n \in 1 .. Len(b) : b[n] = x[n]
    BY ONLY <1>5, <1>8, <1>9, <1>11, <1>12
  <1>14. b = x
    BY ONLY <1>5, <1>8, <1>13, SeqEqual
  <1> QED
    BY <1>14 DEF a, b, u, x

(* Any other character goes on with the last piece. *)
LEMMA TokensMore ==
  ASSUME NEW C, NEW text \in Seq(C), NEW d, NEW c \in C, c # d,
         Inside(text, d, Len(text))
  PROVE  LET a == Tokens(text, d)
         IN  /\ Len(a) \in Nat \ {0}
             /\ Tokens(Append(text, c), d) = [a EXCEPT ![Len(a)] = Append(@, c)]
  <1> DEFINE u == Append(text, c)
             L == Len(text)
             S == Starts(text, d)
             K == Cardinality(S)
             a == Tokens(text, d)
             b == Tokens(u, d)
             x == [a EXCEPT ![K] = Append(a[K], c)]
  <1>1. u \in Seq(C) /\ L \in Nat \ {0} /\ text[L] # d
    BY LenProperties, AppendProperties DEF Inside
  <1>2. Starts(u, d) = S
    BY StartsStep
  <1>3. /\ a \in Seq(Seq(C)) /\ Len(a) = K /\ K \in Nat /\ DOMAIN a = 1 .. K
        /\ \A n \in 1 .. K : /\ Nth(S, n) \in S
                             /\ a[n] = SubSeq(text, Nth(S, n), EndOf(text, d, Nth(S, n)))
    BY TokensAre
  <1>4. /\ b \in Seq(Seq(C)) /\ Len(b) = K
        /\ \A n \in 1 .. K : b[n] = SubSeq(u, Nth(S, n), EndOf(u, d, Nth(S, n)))
    <2> HIDE DEF u, b
    <2> QED
      BY <1>1, <1>2, TokensAre DEF b
  <1>5. S \subseteq 1 .. L
    BY <1>1, StartsIn
  <1>6. \A i \in S : EndOf(text, d, i) = L <=> \A j \in S : j <= i
    BY <1>1, LastEnds
  <1>7. \A n \in 1 .. K : n = K <=> EndOf(text, d, Nth(S, n)) = L
    <2> SUFFICES ASSUME NEW n \in 1 .. K PROVE n = K <=> EndOf(text, d, Nth(S, n)) = L
      OBVIOUS
    <2>1. n = K <=> \A j \in S : j <= Nth(S, n)
      BY ONLY <1>1, <1>5, n \in 1 .. K, NthLast
    <2> QED
      BY ONLY <1>3, <1>6, <2>1, n \in 1 .. K
  <1>8. ASSUME NEW i \in S, EndOf(text, d, i) # L
        PROVE  SubSeq(u, i, EndOf(u, d, i)) = SubSeq(text, i, EndOf(text, d, i))
    <2> DEFINE e == EndOf(text, d, i)
    <2>1. e \in Nat /\ e <= L /\ i \in Nat \ {0}
      BY <1>1, EndIn DEF IsEnd, Starts
    <2>2. EndOf(u, d, i) = e
      BY <1>8, EndStep
    <2> HIDE DEF e
    <2>3. SubSeq(u, i, e) = SubSeq(text, i, e)
      BY <2>1, PieceSame
    <2> QED
      BY <2>2, <2>3 DEF e
  <1>9. ASSUME NEW i \in S, EndOf(text, d, i) = L
        PROVE  SubSeq(u, i, EndOf(u, d, i)) = Append(SubSeq(text, i, EndOf(text, d, i)), c)
    <2>1. i \in Nat \ {0} /\ i <= L + 1
      BY <1>1 DEF Starts
    <2>2. EndOf(u, d, i) = L + 1
      BY <1>9, EndStep
    <2>3. SubSeq(u, i, L + 1) = Append(SubSeq(text, i, L), c)
      BY <2>1, PieceMore
    <2> QED
      BY <1>9, <2>2, <2>3
  <1>10. K # 0
    <2> DEFINE T == {k \in Nat : Inside(text, d, k)}
    <2>1. L \in T /\ T \subseteq Nat
      BY <1>1
    <2>2. PICK k \in T : \A m \in T : k <= m
      BY <2>1, Least
    <2>3. k \in Nat /\ k # 0 /\ k <= L /\ Inside(text, d, k)
      BY <2>1, <2>2 DEF Inside
    <2>4. k - 1 \in Nat /\ ~(k <= k - 1)
      BY <2>3
    <2>5. ~Inside(text, d, k - 1)
      BY <2>2, <2>4
    <2>6. k \in S
      BY <1>1, <2>3, <2>5, StartsIn
    <2>7. IsFiniteSet(S)
      BY <1>1, <1>5, UpToCount
    <2> QED
      BY <2>6, <2>7, FS_EmptySet
  <1> HIDE DEF u, S, K, L, a, b
  <1>11. K \in 1 .. K
    BY <1>3, <1>10
  <1>12. a[K] \in Seq(C)
    BY <1>3, <1>11, ElementOfSeq
  <1>13. Append(a[K], c) \in Seq(C)
    BY <1>12, AppendProperties
  <1>14. /\ x \in Seq(Seq(C)) /\ Len(x) = K
         /\ \A n \in 1 .. K : x[n] = IF n = K THEN Append(a[K], c) ELSE a[n]
    BY ONLY <1>3, <1>11, <1>13, ExceptSeq
  <1> HIDE DEF x
  <1>15. Len(b) = Len(x) /\ \A n \in 1 .. Len(b) : b[n] = x[n]
    BY ONLY <1>3, <1>4, <1>7, <1>8, <1>9, <1>14
  <1>16. b = x
    BY ONLY <1>4, <1>14, <1>15, SeqEqual
  <1>17. x = [a EXCEPT ![Len(a)] = Append(@, c)]
    BY <1>3 DEF x
  <1> QED
    BY <1>3, <1>10, <1>16, <1>17 DEF a, b, u
----------------------------------------------------------------------------
(* Joined, a recursive function. *)

(* g[n] is the first n pieces with delimiters between them. *)
IsJoin(g, ts, delim) ==
    g = [n \in 0 .. Len(ts) |->
           IF n = 0 THEN <<>> ELSE IF n = 1 THEN ts[1] ELSE g[n - 1] \o <<delim>> \o ts[n]]

JoinOf(ts, delim) == CHOOSE g : IsJoin(g, ts, delim)

LEMMA JoinedIs ==
  ASSUME NEW ts, NEW d
  PROVE  Joined(ts, d) = JoinOf(ts, d)[Len(ts)]
  BY DEF Joined, JoinOf, IsJoin

LEMMA JoinExists ==
  ASSUME NEW ts, NEW d, Len(ts) \in Nat
  PROVE  IsJoin(JoinOf(ts, d), ts, d)
  <1> DEFINE F(g, m) == IF m = 0 THEN <<>> ELSE IF m = 1 THEN ts[1] ELSE g[m - 1] \o <<d>> \o ts[m]
             P(g, n) == g = [m \in 0 .. n |-> F(g, m)]
             T == {n \in Nat : ~\E g : P(g, n)}
  <1>1. T = {}
    <2> SUFFICES ASSUME T # {} PROVE FALSE
      OBVIOUS
    <2>1. T \subseteq Nat
      OBVIOUS
    <2>2. PICK n \in T : \A m \in T : n <= m
      BY <2>1, Least
    <2>3. n \in Nat /\ ~\E g : P(g, n)
      OBVIOUS
    <2>4. CASE n = 0
      <3> DEFINE g == [m \in 0 .. 0 |-> <<>>]
      <3>1. \A m \in 0 .. 0 : F(g, m) = <<>>
        OBVIOUS
      <3>2. P(g, 0)
        BY <3>1
      <3> QED
        BY <2>3, <2>4, <3>2
    <2>5. CASE n # 0
      <3>1. n - 1 \in Nat /\ ~(n <= n - 1)
        BY <2>3, <2>5
      <3>2. PICK h : P(h, n - 1)
        BY <2>2, <3>1
      <3> DEFINE g == [m \in 0 .. n |-> F(h, m)]
      <3>3. ASSUME NEW m \in 0 .. n PROVE F(g, m) = F(h, m)
        <4>1. CASE m = 0 \/ m = 1
          BY <4>1
        <4>2. CASE m # 0 /\ m # 1
          <5>1. m - 1 \in 0 .. n - 1 /\ m - 1 \in 0 .. n
            BY <2>3, <4>2
          <5> HIDE DEF F
          <5>2. h[m - 1] = F(h, m - 1) /\ g[m - 1] = F(h, m - 1)
            BY <3>2, <5>1
          <5> QED
            BY <5>2 DEF F
        <4> QED
          BY <4>1, <4>2
      <3>4. P(g, n)
        <4> HIDE DEF F
        <4> QED
          BY <3>3
      <3> QED
        BY <2>3, <3>4
    <2> QED
      BY <2>4, <2>5
  <1>2. \E g : P(g, Len(ts))
    BY <1>1
  <1> QED
    BY <1>2 DEF JoinOf, IsJoin

LEMMA JoinStep ==
  ASSUME NEW ts, NEW d, Len(ts) \in Nat, NEW n \in 0 .. Len(ts)
  PROVE  LET g == JoinOf(ts, d)
         IN  /\ n = 0 => g[n] = <<>>
             /\ n = 1 => g[n] = ts[1]
             /\ n > 1 => g[n] = g[n - 1] \o <<d>> \o ts[n]
  <1> DEFINE g == JoinOf(ts, d)
  <1>1. IsJoin(g, ts, d)
    BY JoinExists
  <1> HIDE DEF g
  <1>2. g[n] = IF n = 0 THEN <<>> ELSE IF n = 1 THEN ts[1] ELSE g[n - 1] \o <<d>> \o ts[n]
    BY <1>1 DEF IsJoin
  <1>3. n > 1 => n # 0 /\ n # 1
    OBVIOUS
  <1>4. /\ n = 0 => g[n] = <<>>
        /\ n = 1 => g[n] = ts[1]
        /\ n > 1 => g[n] = g[n - 1] \o <<d>> \o ts[n]
    <2> DEFINE e == g[n - 1] \o <<d>> \o ts[n]
    <2>1. g[n] = IF n = 0 THEN <<>> ELSE IF n = 1 THEN ts[1] ELSE e
      BY <1>2
    <2> HIDE DEF e
    <2>2. /\ n = 0 => g[n] = <<>>
          /\ n = 1 => g[n] = ts[1]
          /\ n > 1 => g[n] = e
      BY <1>3, <2>1
    <2> QED
      BY <2>2 DEF e
  <1> QED
    BY <1>4 DEF g

(* Only the pieces joined so far matter. *)
LEMMA JoinSame ==
  ASSUME NEW ts, NEW us, NEW d, Len(ts) \in Nat, Len(us) \in Nat,
         NEW N \in Nat, N <= Len(ts), N <= Len(us), \A i \in 1 .. N : ts[i] = us[i]
  PROVE  JoinOf(ts, d)[N] = JoinOf(us, d)[N]
  <1> DEFINE g == JoinOf(ts, d)
             h == JoinOf(us, d)
             T == {n \in Nat : n <= N /\ g[n] # h[n]}
  <1>1. T = {}
    <2> SUFFICES ASSUME T # {} PROVE FALSE
      OBVIOUS
    <2>1. T \subseteq Nat
      OBVIOUS
    <2>2. PICK n \in T : \A m \in T : n <= m
      BY <2>1, Least
    <2>3. /\ n \in Nat /\ n <= N /\ g[n] # h[n]
          /\ n \in 0 .. Len(ts) /\ n \in 0 .. Len(us)
      OBVIOUS
    <2>4. /\ n = 0 => g[n] = <<>>
          /\ n = 1 => g[n] = ts[1]
          /\ n > 1 => g[n] = g[n - 1] \o <<d>> \o ts[n]
      BY <2>3, JoinStep
    <2>5. /\ n = 0 => h[n] = <<>>
          /\ n = 1 => h[n] = us[1]
          /\ n > 1 => h[n] = h[n - 1] \o <<d>> \o us[n]
      BY <2>3, JoinStep
    <2> HIDE DEF g, h
    <2>6. n > 1
      <3>1. n # 0 /\ n # 1
        <4>1. n = 1 => 1 \in 1 .. N
          BY <2>3
        <4> QED
          BY ONLY <2>3, <2>4, <2>5, <4>1, \A i \in 1 .. N : ts[i] = us[i]
      <3> QED
        BY <2>3, <3>1
    <2>7. n - 1 \in Nat /\ n - 1 <= N /\ ~(n <= n - 1) /\ n \in 1 .. N
      BY <2>3, <2>6
    <2>8. g[n - 1] = h[n - 1]
      BY <2>2, <2>7
    <2> QED
      BY <2>3, <2>4, <2>5, <2>6, <2>7, <2>8
  <1>2. N \in Nat /\ N <= N
    OBVIOUS
  <1> HIDE DEF g, h
  <1>3. g[N] = h[N]
    BY <1>1, <1>2
  <1> QED
    BY <1>3 DEF g, h

LEMMA JoinedAppend ==
  ASSUME NEW Q, NEW ts \in Seq(Q), NEW x \in Q, NEW d
  PROVE  Joined(Append(ts, x), d) =
           IF Len(ts) = 0 THEN x ELSE Joined(ts, d) \o <<d>> \o x
  <1> DEFINE us == Append(ts, x)
             N == Len(ts)
             g == JoinOf(ts, d)
             h == JoinOf(us, d)
  <1>1. /\ N \in Nat /\ us \in Seq(Q) /\ Len(us) = N + 1 /\ us[N + 1] = x
        /\ \A i \in 1 .. N : ts[i] = us[i]
    BY AppendProperties, LenProperties
  <1>2. Joined(us, d) = h[N + 1] /\ Joined(ts, d) = g[N]
    BY <1>1, JoinedIs
  <1> HIDE DEF us
  <1>3. /\ N + 1 = 1 => h[N + 1] = us[1]
        /\ N + 1 > 1 => h[N + 1] = h[(N + 1) - 1] \o <<d>> \o us[N + 1]
    <2>1. Len(us) \in Nat /\ N + 1 \in 0 .. Len(us)
      BY <1>1
    <2> QED
      BY <2>1, JoinStep
  <1>4. h[N] = g[N]
    <2>1. N \in Nat /\ Len(us) \in Nat /\ N <= N /\ N <= Len(us)
      BY <1>1
    <2> QED
      BY <1>1, <2>1, JoinSame
  <1> HIDE DEF N, g, h
  <1>5. N = 0 \/ (N + 1 > 1 /\ N # 0 /\ (N + 1) - 1 = N)
    BY <1>1
  <1>6. CASE N = 0
    <2>1. N + 1 = 1
      BY <1>6
    <2> QED
      BY <1>1, <1>2, <1>3, <1>6, <2>1 DEF us, N
  <1>7. CASE N + 1 > 1 /\ N # 0 /\ (N + 1) - 1 = N
    BY <1>1, <1>2, <1>3, <1>4, <1>7 DEF us, N
  <1> QED
    BY <1>5, <1>6, <1>7

LEMMA JoinedIn ==
  ASSUME NEW C, NEW ts \in Seq(Seq(C)), NEW d \in C
  PROVE  Joined(ts, d) \in Seq(C)
  <1> DEFINE g == JoinOf(ts, d)
             N == Len(ts)
             T == {n \in Nat : n <= N /\ g[n] \notin Seq(C)}
  <1>0. N \in Nat /\ \A n \in 1 .. N : ts[n] \in Seq(C)
    BY LenProperties
  <1>1. T = {}
    <2> SUFFICES ASSUME T # {} PROVE FALSE
      OBVIOUS
    <2>1. T \subseteq Nat
      OBVIOUS
    <2>2. PICK n \in T : \A m \in T : n <= m
      BY <2>1, Least
    <2>3. n \in Nat /\ n <= N /\ g[n] \notin Seq(C) /\ n \in 0 .. N
      BY <1>0
    <2>4. /\ n = 0 => g[n] = <<>>
          /\ n = 1 => g[n] = ts[1]
          /\ n > 1 => g[n] = g[n - 1] \o <<d>> \o ts[n]
      BY <1>0, <2>3, JoinStep
    <2> HIDE DEF g
    <2>5. <<>> \in Seq(C) /\ <<d>> \in Seq(C)
      BY EmptySeq
    <2>6. n # 0 => ts[n] \in Seq(C)
      BY <1>0, <2>3
    <2>7. n > 1
      <3>1. n # 0
        BY <2>3, <2>4, <2>5
      <3>2. n # 1
        BY <2>3, <2>4, <2>6
      <3> QED
        BY <2>3, <3>1, <3>2
    <2>8. n - 1 \in Nat /\ n - 1 <= N /\ ~(n <= n - 1) /\ n # 0
      BY <1>0, <2>3, <2>7
    <2>9. g[n - 1] \in Seq(C)
      BY <2>2, <2>8
    <2> DEFINE x == ts[n]
               y == g[n - 1]
    <2>10. x \in Seq(C) /\ y \in Seq(C) /\ <<d>> \in Seq(C)
      BY <2>5, <2>6, <2>8, <2>9
    <2> HIDE DEF x, y
    <2>11. y \o <<d>> \in Seq(C)
      BY ONLY <2>10, ConcatProperties
    <2>12. (y \o <<d>>) \o x \in Seq(C)
      BY ONLY <2>10, <2>11, ConcatProperties
    <2> QED
      BY <2>3, <2>4, <2>7, <2>12 DEF x, y
  <1>2. N \in Nat /\ N <= N
    BY <1>0
  <1> HIDE DEF g, N
  <1>3. g[N] \in Seq(C)
    BY <1>1, <1>2
  <1> QED
    BY <1>3, JoinedIs DEF g, N

(* The last of a sequence is replaced. *)
LEMMA AppendExcept ==
  ASSUME NEW Q, NEW fr \in Seq(Q), NEW x \in Q, NEW y \in Q
  PROVE  [Append(fr, x) EXCEPT ![Len(fr) + 1] = y] = Append(fr, y)
  <1> DEFINE N == Len(fr)
             ts == Append(fr, x)
             us == [ts EXCEPT ![N + 1] = y]
             vs == Append(fr, y)
  <1>1. /\ N \in Nat /\ ts \in Seq(Q) /\ Len(ts) = N + 1
        /\ \A i \in 1 .. N : ts[i] = fr[i]
    BY AppendProperties, LenProperties
  <1>2. /\ vs \in Seq(Q) /\ Len(vs) = N + 1 /\ vs[N + 1] = y
        /\ \A i \in 1 .. N : vs[i] = fr[i]
    BY AppendProperties
  <1> HIDE DEF N, ts, vs
  <1>3. /\ us \in Seq(Q) /\ Len(us) = N + 1
        /\ \A j \in 1 .. N + 1 : us[j] = IF j = N + 1 THEN y ELSE ts[j]
    <2>1. N + 1 \in 1 .. Len(ts)
      BY <1>1
    <2> QED
      BY ONLY <1>1, <2>1, y \in Q, ExceptSeq
  <1> HIDE DEF us
  <1>4. \A j \in 1 .. N + 1 : j \in 1 .. N \/ j = N + 1
    BY <1>1
  <1>5. Len(us) = Len(vs) /\ \A j \in 1 .. Len(us) : us[j] = vs[j]
    BY ONLY <1>1, <1>2, <1>3, <1>4
  <1>6. us = vs
    BY ONLY <1>2, <1>3, <1>5, SeqEqual
  <1> QED
    BY <1>6 DEF us, vs, ts, N

(* The last piece goes on. *)
LEMMA JoinedMore ==
  ASSUME NEW C, NEW ts \in Seq(Seq(C)), Len(ts) # 0, NEW d \in C, NEW c \in C
  PROVE  Joined([ts EXCEPT ![Len(ts)] = Append(@, c)], d) = Append(Joined(ts, d), c)
  <1>0. ts # <<>>
    BY EmptySeq
  <1>1. PICK fr \in Seq(Seq(C)), x \in Seq(C) : ts = Append(fr, x)
    BY <1>0, SequenceEmptyOrAppend
  <1> DEFINE xc == Append(x, c)
             N == Len(fr)
             us == [ts EXCEPT ![N + 1] = Append(ts[N + 1], c)]
             vs == Append(fr, xc)
             J == Joined(fr, d)
  <1>2. /\ N \in Nat /\ ts \in Seq(Seq(C)) /\ Len(ts) = N + 1 /\ ts[N + 1] = x
        /\ \A i \in 1 .. N : ts[i] = fr[i]
    BY <1>1, AppendProperties, LenProperties
  <1>3. xc \in Seq(C)
    BY AppendProperties
  <1> HIDE DEF xc
  <1>5. us = [ts EXCEPT ![N + 1] = xc]
    BY <1>2 DEF xc
  <1>7. us = vs
    <2> HIDE DEF us
    <2> QED
      BY <1>1, <1>3, <1>5, AppendExcept
  <1> HIDE DEF N, us, vs
  <1>8. J \in Seq(C) /\ <<d>> \in Seq(C) /\ <<c>> \in Seq(C)
    BY JoinedIn
  <1>9. Joined(vs, d) = IF N = 0 THEN xc ELSE J \o <<d>> \o xc
    BY <1>3, JoinedAppend DEF vs, N
  <1>10. Joined(ts, d) = IF N = 0 THEN x ELSE J \o <<d>> \o x
    BY <1>1, JoinedAppend DEF N
  <1> HIDE DEF J
  <1>11. J \o <<d>> \o xc = Append(J \o <<d>> \o x, c)
    <2> DEFINE A == J \o <<d>>
    <2>1. A \in Seq(C)
      BY ONLY <1>8, ConcatProperties
    <2> HIDE DEF A
    <2>2. A \o x \in Seq(C)
      BY ONLY <2>1, x \in Seq(C), ConcatProperties
    <2>3. xc = x \o <<c>>
      BY ONLY x \in Seq(C), c \in C, AppendIsConcat DEF xc
    <2>4. Append(A \o x, c) = (A \o x) \o <<c>>
      BY ONLY <2>2, c \in C, AppendIsConcat
    <2>5. (A \o x) \o <<c>> = A \o (x \o <<c>>)
      BY ONLY <1>8, <2>1, x \in Seq(C), ConcatAssociative
    <2> QED
      BY ONLY <2>3, <2>4, <2>5 DEF A
  <1>12. Joined(vs, d) = Append(Joined(ts, d), c)
    BY ONLY <1>9, <1>10, <1>11 DEF xc
  <1> QED
    BY <1>2, <1>7, <1>12 DEF us
----------------------------------------------------------------------------
(* str_split, character by character. *)

Delims(text, delim) == {i \in 1 .. Len(text) : text[i] = delim}

LEMMA DelimsStep ==
  ASSUME NEW C, NEW text \in Seq(C), NEW d, NEW c \in C
  PROVE  /\ Cardinality(Delims(text, d)) \in Nat
         /\ c = d => Cardinality(Delims(Append(text, c), d)) = Cardinality(Delims(text, d)) + 1
         /\ c # d => Cardinality(Delims(Append(text, c), d)) = Cardinality(Delims(text, d))
  <1> DEFINE u == Append(text, c)
             L == Len(text)
  <1>1. /\ L \in Nat /\ Len(u) = L + 1 /\ u[L + 1] = c
        /\ \A k \in 1 .. L : u[k] = text[k]
    BY AppendProperties, LenProperties
  <1> HIDE DEF u
  <1>2. \A k : k \in 1 .. L + 1 <=> k \in 1 .. L \/ k = L + 1
    BY <1>1
  <1>3. L + 1 \notin 1 .. L
    BY <1>1
  <1>4. IsFiniteSet(Delims(text, d)) /\ Cardinality(Delims(text, d)) \in Nat
    <2>1. IsFiniteSet(1 .. L)
      BY <1>1, FS_Interval
    <2>2. Delims(text, d) \in SUBSET (1 .. L)
      BY ONLY TRUE DEF Delims, L
    <2> QED
      BY ONLY <2>1, <2>2, FS_Subset, FS_CardinalityType
  <1>5. L + 1 \notin Delims(text, d)
    BY ONLY <1>3 DEF Delims, L
  <1>6. c = d => Delims(u, d) = Delims(text, d) \cup {L + 1}
    BY ONLY <1>1, <1>2, <1>3 DEF Delims, L
  <1>7. c # d => Delims(u, d) = Delims(text, d)
    BY ONLY <1>1, <1>2, <1>3 DEF Delims, L
  <1>8. Cardinality(Delims(text, d) \cup {L + 1}) = Cardinality(Delims(text, d)) + 1
    BY <1>4, <1>5, FS_AddElement
  <1> QED
    BY <1>4, <1>6, <1>7, <1>8 DEF u

LEMMA FieldsStep ==
  ASSUME NEW C, NEW text \in Seq(C), NEW d, NEW c \in C
  PROVE  FieldsNotEmpty(Append(text, c), d) <=>
           IF Len(text) = 0 THEN c # d
           ELSE FieldsNotEmpty(text, d) /\ (c # d \/ text[Len(text)] # d)
  <1> DEFINE u == Append(text, c)
             L == Len(text)
  <1>1. /\ L \in Nat /\ Len(u) = L + 1 /\ u[L + 1] = c /\ u # <<>>
        /\ \A k \in 1 .. L : u[k] = text[k]
    BY AppendProperties, LenProperties
  <1>2. L # 0 <=> text # <<>>
    BY EmptySeq
  <1> HIDE DEF u, L
  <1>3. CASE L = 0
    <2>1. (L + 1) - 1 = 0 /\ L + 1 = 1 /\ 1 .. 0 = {}
      BY <1>3
    <2>2. FieldsNotEmpty(u, d) <=> c # d
      BY ONLY <1>1, <2>1 DEF FieldsNotEmpty
    <2> QED
      BY <1>3, <2>2 DEF u, L
  <1>4. CASE L # 0
    <2>1. /\ (L + 1) - 1 = L /\ 1 \in 1 .. L /\ L \in 1 .. L
          /\ \A i : i \in 1 .. L <=> i \in 1 .. (L - 1) \/ i = L
          /\ \A i \in 1 .. (L - 1) : i \in 1 .. L /\ i + 1 \in 1 .. L
      BY <1>1, <1>4
    <2>2. \A i \in 1 .. (L - 1) : u[i] = text[i] /\ u[i + 1] = text[i + 1]
      BY ONLY <1>1, <2>1
    <2>3. u[1] = text[1] /\ u[L] = text[L]
      BY ONLY <1>1, <2>1
    <2>4. FieldsNotEmpty(u, d) <=>
            u # <<>> /\ u[1] # d /\ \A i \in 1 .. L : u[i] # d \/ u[i + 1] # d
      BY ONLY <1>1, <2>1 DEF FieldsNotEmpty
    <2>5. FieldsNotEmpty(text, d) <=>
            text # <<>> /\ text[1] # d /\ \A i \in 1 .. (L - 1) : text[i] # d \/ text[i + 1] # d
      BY ONLY TRUE DEF FieldsNotEmpty, L
    <2>6. (\A i \in 1 .. L : u[i] # d \/ u[i + 1] # d) <=>
            /\ \A i \in 1 .. (L - 1) : text[i] # d \/ text[i + 1] # d
            /\ c # d \/ text[L] # d
      BY ONLY <1>1, <2>1, <2>2, <2>3
    <2>7. FieldsNotEmpty(u, d) <=> FieldsNotEmpty(text, d) /\ (c # d \/ text[L] # d)
      BY ONLY <1>1, <1>2, <1>4, <2>3, <2>4, <2>5, <2>6
    <2> QED
      BY <1>4, <2>7 DEF u, L
  <1> QED
    BY <1>3, <1>4

(* What is true of every text: its pieces against its delimiters. *)
Counted(text, delim) ==
    LET K == Len(Tokens(text, delim))
        D == Cardinality(Delims(text, delim))
        N == IF text[Len(text)] = delim THEN D ELSE D + 1
    IN  /\ K \in Nat /\ D \in Nat
        /\ Len(text) = 0 => K = 0 /\ D = 0
        /\ Len(text) # 0 =>
              /\ K <= N
              /\ K = N <=> FieldsNotEmpty(text, delim)

Rebuilt(text, delim) ==
    Len(text) # 0 /\ FieldsNotEmpty(text, delim) =>
        text = IF text[Len(text)] = delim
               THEN Append(Joined(Tokens(text, delim), delim), delim)
               ELSE Joined(Tokens(text, delim), delim)

LEMMA CountedStep ==
  ASSUME NEW C, NEW text \in Seq(C), NEW d \in C, NEW c \in C, Counted(text, d)
  PROVE  Counted(Append(text, c), d)
  <1> DEFINE u == Append(text, c)
             L == Len(text)
             K == Len(Tokens(text, d))
             D == Cardinality(Delims(text, d))
             N == IF text[L] = d THEN D ELSE D + 1
             Ku == Len(Tokens(u, d))
             Du == Cardinality(Delims(u, d))
             Nu == IF c = d THEN Du ELSE Du + 1
  <1>1. L \in Nat /\ Len(u) = L + 1 /\ u[L + 1] = c /\ L + 1 # 0
    BY AppendProperties, LenProperties
  <1>2. /\ K \in Nat /\ D \in Nat
        /\ L = 0 => K = 0 /\ D = 0
        /\ L # 0 => K <= N /\ (K = N <=> FieldsNotEmpty(text, d))
    BY DEF Counted
  <1>3. (c = d => Du = D + 1) /\ (c # d => Du = D)
    BY DelimsStep
  <1>4. FieldsNotEmpty(u, d) <=>
           IF L = 0 THEN c # d ELSE FieldsNotEmpty(text, d) /\ (c # d \/ text[L] # d)
    BY FieldsStep
  <1>5. Inside(text, d, L) <=> L # 0 /\ text[L] # d
    BY <1>1 DEF Inside
  <1>6. c = d => Ku = K
    BY TokensDelim
  <1>7. c # d /\ ~Inside(text, d, L) => Ku = K + 1
    <2> SUFFICES ASSUME c # d, ~Inside(text, d, L) PROVE Ku = K + 1
      OBVIOUS
    <2>1. Tokens(u, d) = Append(Tokens(text, d), <<c>>)
      BY TokensNew
    <2>2. Tokens(text, d) \in Seq(Seq(C)) /\ <<c>> \in Seq(C)
      BY TokensAre
    <2> QED
      BY ONLY <2>1, <2>2, AppendProperties
  <1>8. c # d /\ Inside(text, d, L) => Ku = K
    <2> SUFFICES ASSUME c # d, Inside(text, d, L) PROVE Ku = K
      OBVIOUS
    <2> DEFINE a == Tokens(text, d)
    <2>1. Tokens(u, d) = [a EXCEPT ![Len(a)] = Append(@, c)]
      BY TokensMore
    <2>2. a \in Seq(Seq(C))
      BY TokensAre
    <2> HIDE DEF a
    <2>3. Len([a EXCEPT ![Len(a)] = Append(@, c)]) = Len(a)
      BY ONLY <2>2
    <2> QED
      BY <2>1, <2>3 DEF a
  <1> HIDE DEF u, L, K, D, Ku, Du
  <1>9. /\ Ku \in Nat /\ Du \in Nat /\ Ku <= Nu
        /\ Ku = Nu <=> FieldsNotEmpty(u, d)
    <2>1. CASE L = 0
      BY ONLY <1>2, <1>3, <1>4, <1>5, <1>6, <1>7, <2>1
    <2>2. CASE L # 0 /\ text[L] = d /\ c = d
      BY ONLY <1>2, <1>3, <1>4, <1>5, <1>6, <2>2
    <2>3. CASE L # 0 /\ text[L] = d /\ c # d
      BY ONLY <1>2, <1>3, <1>4, <1>5, <1>7, <2>3
    <2>4. CASE L # 0 /\ text[L] # d /\ c = d
      BY ONLY <1>2, <1>3, <1>4, <1>5, <1>6, <2>4
    <2>5. CASE L # 0 /\ text[L] # d /\ c # d
      BY ONLY <1>2, <1>3, <1>4, <1>5, <1>8, <2>5
    <2> QED
      BY ONLY <2>1, <2>2, <2>3, <2>4, <2>5
  <1>10. Counted(u, d)
    BY ONLY <1>1, <1>9 DEF Counted, Ku, Du
  <1> QED
    BY <1>10 DEF u

LEMMA RebuiltStep ==
  ASSUME NEW C, NEW text \in Seq(C), NEW d \in C, NEW c \in C,
         Len(text) = 0 => Len(Tokens(text, d)) = 0,
         Rebuilt(text, d)
  PROVE  Rebuilt(Append(text, c), d)
  <1> DEFINE u == Append(text, c)
             L == Len(text)
             a == Tokens(text, d)
             b == Tokens(u, d)
             J == Joined(a, d)
  <1>1. L \in Nat /\ Len(u) = L + 1 /\ u[L + 1] = c /\ L + 1 # 0
    BY AppendProperties, LenProperties
  <1>2. a \in Seq(Seq(C)) /\ <<c>> \in Seq(C) /\ <<d>> \in Seq(C)
    BY TokensAre
  <1>3. J \in Seq(C)
    BY <1>2, JoinedIn
  <1>4. FieldsNotEmpty(u, d) <=>
           IF L = 0 THEN c # d ELSE FieldsNotEmpty(text, d) /\ (c # d \/ text[L] # d)
    BY FieldsStep
  <1>5. Inside(text, d, L) <=> L # 0 /\ text[L] # d
    BY <1>1 DEF Inside
  <1> SUFFICES ASSUME FieldsNotEmpty(u, d)
               PROVE  u = IF c = d THEN Append(Joined(b, d), d) ELSE Joined(b, d)
    BY <1>1 DEF Rebuilt
  <1>6. L # 0 => text = IF text[L] = d THEN Append(J, d) ELSE J
    BY <1>4 DEF Rebuilt
  <1>7. CASE c = d
    <2>1. b = a
      BY <1>7, TokensDelim
    <2>2. L # 0 /\ text[L] # d
      BY <1>4, <1>7
    <2> QED
      BY ONLY <1>6, <1>7, <2>1, <2>2
  <1>8. CASE c # d /\ Inside(text, d, L)
    <2>1. Len(a) \in Nat \ {0} /\ b = [a EXCEPT ![Len(a)] = Append(@, c)]
      BY <1>8, TokensMore
    <2>2. Joined(b, d) = Append(J, c)
      <3> HIDE DEF a, b
      <3>1. Len(a) # 0
        BY <2>1
      <3>2. Joined([a EXCEPT ![Len(a)] = Append(@, c)], d) = Append(J, c)
        BY ONLY <1>2, <3>1, c \in C, d \in C, JoinedMore
      <3> QED
        BY <2>1, <3>2
    <2> QED
      BY ONLY <1>5, <1>6, <1>8, <2>2
  <1>9. CASE c # d /\ ~Inside(text, d, L)
    <2>1. b = Append(a, <<c>>)
      BY <1>9, TokensNew
    <2>2. Joined(b, d) = IF Len(a) = 0 THEN <<c>> ELSE J \o <<d>> \o <<c>>
      <3> HIDE DEF a, b
      <3> QED
        BY ONLY <1>2, <2>1, JoinedAppend DEF J
    <2>3. CASE L = 0
      <3>1. Len(a) = 0
        BY <2>3
      <3>2. text = <<>>
        BY <2>3, EmptySeq
      <3>3. Append(<<>>, c) = <<c>>
        BY ONLY TRUE
      <3> HIDE DEF a, b, J
      <3> QED
        BY ONLY <1>9, <2>2, <3>1, <3>2, <3>3 DEF u
    <2>4. CASE L # 0
      <3>1. text = Append(J, d) /\ text[L] = d
        BY ONLY <1>5, <1>6, <1>9, <2>4
      <3>2. Append(J, d) = J \o <<d>>
        BY ONLY <1>3, d \in C, AppendIsConcat
      <3>3. u = text \o <<c>>
        BY ONLY text \in Seq(C), c \in C, AppendIsConcat
      <3>4. Len(a) # 0
        <4> SUFFICES ASSUME Len(a) = 0 PROVE FALSE
          OBVIOUS
        <4>1. a = <<>>
          BY <1>2, EmptySeq
        <4>2. J = <<>>
          <5> HIDE DEF a
          <5>1. J = JoinOf(a, d)[Len(a)]
            BY JoinedIs
          <5>2. Len(a) \in Nat /\ 0 \in 0 .. Len(a)
            OBVIOUS
          <5>3. JoinOf(a, d)[0] = <<>>
            BY ONLY <5>2, JoinStep
          <5> QED
            BY <5>1, <5>3
        <4>3. text = <<d>>
          BY ONLY <3>1, <4>2
        <4>4. text[1] = d
          BY ONLY <4>3
        <4> QED
          BY <1>4, <2>4, <4>4 DEF FieldsNotEmpty
      <3> HIDE DEF a, b, J, u
      <3> QED
        BY ONLY <1>9, <2>2, <3>1, <3>2, <3>3, <3>4
    <2> QED
      BY <2>3, <2>4
  <1> QED
    BY <1>7, <1>8, <1>9

LEMMA SplitInduction ==
  ASSUME NEW C, NEW d \in C, NEW text \in Seq(C)
  PROVE  Counted(text, d) /\ Rebuilt(text, d)
  <1> DEFINE Good(t) == Counted(t, d) /\ Rebuilt(t, d)
             T == {n \in Nat : \E t \in Seq(C) : Len(t) = n /\ ~Good(t)}
  <1>1. T = {}
    <2> SUFFICES ASSUME T # {} PROVE FALSE
      OBVIOUS
    <2>1. T \subseteq Nat
      OBVIOUS
    <2>2. PICK n \in T : \A m \in T : n <= m
      BY <2>1, Least
    <2>3. PICK t \in Seq(C) : Len(t) = n /\ ~Good(t)
      BY <2>2
    <2>4. CASE t = <<>>
      <3>1. Len(t) = 0
        BY <2>4, EmptySeq
      <3>2. Delims(t, d) = {} /\ Starts(t, d) = {}
        BY <3>1 DEF Delims, Starts
      <3>3. Cardinality(Delims(t, d)) = 0 /\ Len(Tokens(t, d)) = 0
        BY <3>2, FS_EmptySet, TokensAre
      <3>4. Counted(t, d) /\ Rebuilt(t, d)
        BY ONLY <3>1, <3>3, 0 \in Nat DEF Counted, Rebuilt
      <3> QED
        BY <2>3, <3>4
    <2>5. CASE t # <<>>
      <3>1. PICK s \in Seq(C), c \in C : t = Append(s, c)
        BY <2>5, SequenceEmptyOrAppend
      <3>2. Len(s) \in Nat /\ Len(t) = Len(s) + 1
        BY <3>1, AppendProperties, LenProperties
      <3>3. ~(n <= Len(s))
        BY <2>3, <3>2
      <3>4. Good(s)
        BY <2>2, <3>2, <3>3
      <3>5. Len(s) = 0 => Len(Tokens(s, d)) = 0
        BY <3>4 DEF Counted
      <3>6. Counted(Append(s, c), d)
        BY <3>4, CountedStep
      <3>7. Rebuilt(Append(s, c), d)
        BY <3>4, <3>5, RebuiltStep
      <3> QED
        BY <2>3, <3>1, <3>6, <3>7
    <2> QED
      BY <2>4, <2>5
  <1>2. Len(text) \in Nat
    BY LenProperties
  <1> QED
    BY <1>1, <1>2

(***************************************************************************)
(* str_split does what is promised of it on any text whatever.             *)
(***************************************************************************)
THEOREM SplitCorrect ==
  ASSUME NEW C, NEW d \in C, NEW text \in Seq(C)
  PROVE  SplitExactFor(text, d)
  <1> DEFINE L == Len(text)
             ts == Tokens(text, d)
             K == Len(ts)
             D == Cardinality(Delims(text, d))
             N == IF text[L] = d THEN D ELSE D + 1
             J == Joined(ts, d)
  <1>1. Counted(text, d) /\ Rebuilt(text, d)
    BY SplitInduction
  <1>2. /\ K \in Nat /\ D \in Nat
        /\ L = 0 => K = 0 /\ D = 0
        /\ L # 0 => K <= N /\ (K = N <=> FieldsNotEmpty(text, d))
    BY <1>1 DEF Counted
  <1>3. L = 0 <=> text = <<>>
    BY EmptySeq
  <1>4. Count(text, d) = IF text # <<>> /\ text[L] = d THEN D + 0 + 1 ELSE D + 1 + 1
    BY DEF Count, Delims
  <1>5. J \in Seq(C)
    BY TokensAre, JoinedIn
  <1>6. L # 0 /\ FieldsNotEmpty(text, d) => text = IF text[L] = d THEN Append(J, d) ELSE J
    BY <1>1 DEF Rebuilt
  <1>7. FieldsNotEmpty(text, d) => text # <<>>
    BY DEF FieldsNotEmpty
  <1> HIDE DEF L, ts, K, D, J
  <1>8. K < Count(text, d) /\ (K = Count(text, d) - 1 <=> FieldsNotEmpty(text, d))
    <2>1. CASE L = 0
      BY <1>2, <1>3, <1>4, <1>7, <2>1
    <2>2. CASE L # 0 /\ text[L] = d
      BY <1>2, <1>3, <1>4, <2>2
    <2>3. CASE L # 0 /\ text[L] # d
      BY <1>2, <1>3, <1>4, <2>3
    <2> QED
      BY <2>1, <2>2, <2>3
  <1>9. ASSUME FieldsNotEmpty(text, d)
        PROVE  \E end \in {<<>>, <<d>>} : J \o end = text
    <2>1. J \o <<>> = J /\ Append(J, d) = J \o <<d>>
      BY <1>5, ConcatEmptySeq, AppendIsConcat
    <2> QED
      BY <1>3, <1>6, <1>7, <1>9, <2>1
  <1> QED
    BY <1>8, <1>9 DEF SplitExactFor, SplitAsserts, K, J, ts
----------------------------------------------------------------------------
(* Pieces joined and split again. *)

(* What a text over C has between two delimiters. *)
Piece(C, delim) == Seq(C \ {delim}) \ {<<>>}

LEMMA PieceIn ==
  ASSUME NEW C, NEW d, NEW x \in Piece(C, d)
  PROVE  x \in Seq(C) /\ x \in Seq(C \ {d}) /\ Len(x) \in Nat \ {0}
  <1>1. x \in Seq(C \ {d}) /\ x # <<>> /\ C \ {d} \subseteq C
    BY DEF Piece
  <1> QED
    BY <1>1, SeqMonotonic, EmptySeq

LEMMA TokensPiece ==
  ASSUME NEW C, NEW d \in C, NEW s \in Seq(C), ~Inside(s, d, Len(s)), NEW tok \in Piece(C, d)
  PROVE  Tokens(s \o tok, d) = Append(Tokens(s, d), tok)
  <1> DEFINE ts == Tokens(s, d)
             Bad(x) == Tokens(s \o x, d) # Append(ts, x)
             T == {n \in Nat : \E x \in Piece(C, d) : Len(x) = n /\ Bad(x)}
  <1>0. ts \in Seq(Seq(C)) /\ Len(s) \in Nat
    BY TokensAre, LenProperties
  <1> HIDE DEF ts
  <1>1. T = {}
    <2> SUFFICES ASSUME T # {} PROVE FALSE
      OBVIOUS
    <2>1. T \subseteq Nat
      OBVIOUS
    <2>2. PICK n \in T : \A m \in T : n <= m
      BY <2>1, Least
    <2>3. PICK y \in Piece(C, d) : Len(y) = n /\ Bad(y)
      BY <2>2
    <2>4. y \in Seq(C \ {d}) /\ y # <<>>
      BY DEF Piece
    <2>5. PICK x \in Seq(C \ {d}), c \in C \ {d} : y = Append(x, c)
      BY <2>4, SequenceEmptyOrAppend
    <2>6. Len(x) \in Nat /\ Len(y) = Len(x) + 1
      BY <2>5, AppendProperties, LenProperties
    <2>7. x \in Seq(C) /\ c \in C /\ c # d
      BY SeqMonotonic
    <2>8. s \o y = Append(s \o x, c) /\ s \o x \in Seq(C)
      <3>1. y = x \o <<c>>
        BY ONLY <2>5, <2>7, AppendIsConcat
      <3>2. s \o x \in Seq(C) /\ <<c>> \in Seq(C)
        BY <2>7, ConcatProperties
      <3>3. (s \o x) \o <<c>> = s \o (x \o <<c>>)
        BY ONLY <2>7, <3>2, s \in Seq(C), ConcatAssociative
      <3>4. Append(s \o x, c) = (s \o x) \o <<c>>
        BY ONLY <2>7, <3>2, AppendIsConcat
      <3> QED
        BY ONLY <3>1, <3>2, <3>3, <3>4
    <2>9. CASE x = <<>>
      <3>1. s \o x = s
        BY ONLY <2>9, s \in Seq(C), ConcatEmptySeq
      <3>2. Tokens(Append(s, c), d) = Append(ts, <<c>>)
        BY <2>7, TokensNew DEF ts
      <3>3. y = <<c>>
        BY <2>5, <2>9
      <3> QED
        BY <2>3, <2>8, <3>1, <3>2, <3>3
    <2>10. CASE x # <<>>
      <3>1. x \in Piece(C, d)
        BY <2>10 DEF Piece
      <3>2. ~(n <= Len(x))
        BY <2>3, <2>6
      <3>3. Tokens(s \o x, d) = Append(ts, x)
        BY <2>2, <2>6, <3>1, <3>2
      <3> DEFINE sx == s \o x
                 as == Append(ts, x)
                 y2 == Append(x, c)
      <3>4. Inside(sx, d, Len(sx))
        <4>1. Len(x) # 0
          BY <2>10, EmptySeq
        <4>2. /\ Len(sx) = Len(s) + Len(x)
              /\ \A i \in 1 .. Len(s) + Len(x) :
                    sx[i] = IF i <= Len(s) THEN s[i] ELSE x[i - Len(s)]
          BY ONLY <2>7, s \in Seq(C), ConcatProperties
        <4>3. /\ Len(s) + Len(x) \in 1 .. Len(s) + Len(x) /\ ~(Len(s) + Len(x) <= Len(s))
              /\ (Len(s) + Len(x)) - Len(s) = Len(x) /\ Len(x) \in 1 .. Len(x)
          BY <1>0, <2>6, <4>1
        <4>4. x[Len(x)] \in C \ {d}
          BY ONLY <4>3, x \in Seq(C \ {d}), ElementOfSeq
        <4>5. sx[Len(s) + Len(x)] = x[Len(x)]
          BY ONLY <4>2, <4>3
        <4> QED
          BY ONLY <4>2, <4>3, <4>4, <4>5 DEF Inside
      <3>a. sx \in Seq(C)
        BY <2>8
      <3>5. sx \in Seq(C) /\ Tokens(sx, d) = as
        BY <2>8, <3>3
      <3>6. Len(as) = Len(ts) + 1 /\ as[Len(ts) + 1] = x
        BY <1>0, <2>7, AppendProperties
      <3> HIDE DEF sx, as
      <3>7. Tokens(Append(sx, c), d) = [as EXCEPT ![Len(as)] = Append(@, c)]
        <4>1. Tokens(Append(sx, c), d) =
                [Tokens(sx, d) EXCEPT ![Len(Tokens(sx, d))] = Append(@, c)]
          BY ONLY <2>7, <3>4, <3>a, TokensMore
        <4> QED
          BY ONLY <3>5, <4>1
      <3>8. [as EXCEPT ![Len(as)] = Append(@, c)] = [as EXCEPT ![Len(ts) + 1] = y2]
        BY <3>6
      <3>9. y2 \in Seq(C)
        BY <2>7, AppendProperties
      <3> HIDE DEF y2
      <3>10. [as EXCEPT ![Len(ts) + 1] = y2] = Append(ts, y2)
        BY ONLY <1>0, <2>7, <3>9, AppendExcept DEF as
      <3>11. Tokens(s \o y, d) = Append(ts, y)
        BY ONLY <2>5, <2>8, <3>7, <3>8, <3>10 DEF sx, y2
      <3> QED
        BY <2>3, <3>11
    <2> QED
      BY <2>9, <2>10
  <1>2. Len(tok) \in Nat
    BY PieceIn
  <1>3. ~Bad(tok)
    BY <1>1, <1>2
  <1> QED
    BY <1>3 DEF ts

(* The pieces of joined pieces are these pieces. *)
LEMMA TokensJoined ==
  ASSUME NEW C, NEW d \in C, NEW ps \in Seq(Piece(C, d))
  PROVE  Tokens(Joined(ps, d), d) = ps
  <1> DEFINE P == Piece(C, d)
             Bad(x) == Tokens(Joined(x, d), d) # x
             T == {n \in Nat : \E x \in Seq(P) : Len(x) = n /\ Bad(x)}
  <1>0. P \subseteq Seq(C)
    BY PieceIn
  <1> HIDE DEF P
  <1>1. T = {}
    <2> SUFFICES ASSUME T # {} PROVE FALSE
      OBVIOUS
    <2>1. T \subseteq Nat
      OBVIOUS
    <2>2. PICK n \in T : \A m \in T : n <= m
      BY <2>1, Least
    <2>3. PICK y \in Seq(P) : Len(y) = n /\ Bad(y)
      BY <2>2
    <2>a. Tokens(<<>>, d) = <<>> /\ <<>> \in Seq(C) /\ ~Inside(<<>>, d, 0)
      <3>1. Starts(<<>>, d) = {} /\ ~Inside(<<>>, d, 0) /\ <<>> \in Seq(C)
        BY EmptySeq DEF Starts, Inside
      <3>2. Tokens(<<>>, d) \in Seq(Seq(C)) /\ Len(Tokens(<<>>, d)) = 0
        BY <3>1, TokensAre, FS_EmptySet
      <3> QED
        BY <3>1, <3>2, EmptySeq
    <2>4. CASE y = <<>>
      <3>1. Joined(<<>>, d) = <<>>
        <4>1. Len(<<>>) = 0 /\ Len(<<>>) \in Nat /\ 0 \in 0 .. Len(<<>>)
          OBVIOUS
        <4>2. JoinOf(<<>>, d)[0] = <<>>
          BY ONLY <4>1, JoinStep
        <4> QED
          BY ONLY <4>1, <4>2, JoinedIs
      <3> QED
        BY <2>3, <2>4, <2>a, <3>1
    <2>5. CASE y # <<>>
      <3>1. PICK x \in Seq(P), p \in P : y = Append(x, p)
        BY <2>5, SequenceEmptyOrAppend
      <3>2. Len(x) \in Nat /\ Len(y) = Len(x) + 1
        BY <3>1, AppendProperties, LenProperties
      <3>3. ~(n <= Len(x))
        BY <2>3, <3>2
      <3>4. Tokens(Joined(x, d), d) = x
        BY <2>2, <3>2, <3>3
      <3> DEFINE J == Joined(x, d)
                 s == Append(J, d)
      <3>5. p \in Seq(C) /\ x \in Seq(Seq(C))
        BY <1>0, SeqMonotonic
      <3>6. J \in Seq(C)
        BY <3>5, JoinedIn
      <3>7. Joined(y, d) = IF Len(x) = 0 THEN p ELSE J \o <<d>> \o p
        BY <3>1, JoinedAppend
      <3>8. CASE Len(x) = 0
        <4>1. x = <<>> /\ y = <<p>>
          BY <3>1, <3>8, EmptySeq
        <4>2. <<>> \o p = p
          BY ONLY <3>5, ConcatEmptySeq
        <4>3. Tokens(<<>> \o p, d) = Append(Tokens(<<>>, d), p)
          <5>1. Len(<<>>) = 0
            OBVIOUS
          <5> QED
            BY ONLY <2>a, <5>1, p \in P, d \in C, TokensPiece DEF P
        <4>4. Append(<<>>, p) = <<p>>
          BY ONLY TRUE
        <4> HIDE DEF J, s
        <4>5. Tokens(Joined(y, d), d) = y
          BY ONLY <2>a, <3>7, <3>8, <4>1, <4>2, <4>3, <4>4
        <4> QED
          BY <2>3, <4>5
      <3>9. CASE Len(x) # 0
        <4>1. s \in Seq(C) /\ Tokens(s, d) = x /\ s = J \o <<d>>
          BY <3>4, <3>6, TokensDelim, AppendProperties, AppendIsConcat
        <4>2. ~Inside(s, d, Len(s))
          BY ONLY <3>6, d \in C, AppendProperties DEF Inside
        <4> HIDE DEF J, s
        <4>3. Tokens(s \o p, d) = Append(x, p)
          BY ONLY <4>1, <4>2, p \in P, d \in C, TokensPiece DEF P
        <4> QED
          BY ONLY <2>3, <3>1, <3>7, <3>9, <4>1, <4>3
      <3> QED
        BY <3>8, <3>9
    <2> QED
      BY <2>4, <2>5
  <1>2. Len(ps) \in Nat
    BY LenProperties
  <1> QED
    BY <1>1, <1>2 DEF P
----------------------------------------------------------------------------
(* The option -l. *)

LEMMA NumeralsAre ==
  ASSUME NEW n \in 0 .. 9
  PROVE  /\ n = 0 \/ n = 1 \/ n = 2 \/ n = 3 \/ n = 4
            \/ n = 5 \/ n = 6 \/ n = 7 \/ n = 8 \/ n = 9
         /\ Numerals[0 + 1] = "0" /\ Numerals[1 + 1] = "1" /\ Numerals[2 + 1] = "2"
         /\ Numerals[3 + 1] = "3" /\ Numerals[4 + 1] = "4" /\ Numerals[5 + 1] = "5"
         /\ Numerals[6 + 1] = "6" /\ Numerals[7 + 1] = "7" /\ Numerals[8 + 1] = "8"
         /\ Numerals[9 + 1] = "9"
  <1>1. \/ n = 0 \/ n = 1 \/ n = 2 \/ n = 3 \/ n = 4
        \/ n = 5 \/ n = 6 \/ n = 7 \/ n = 8 \/ n = 9
    OBVIOUS
  <1>2. /\ Numerals[0 + 1] = "0" /\ Numerals[1 + 1] = "1" /\ Numerals[2 + 1] = "2"
        /\ Numerals[3 + 1] = "3" /\ Numerals[4 + 1] = "4" /\ Numerals[5 + 1] = "5"
        /\ Numerals[6 + 1] = "6" /\ Numerals[7 + 1] = "7" /\ Numerals[8 + 1] = "8"
        /\ Numerals[9 + 1] = "9"
    BY DEF Numerals
  <1> QED
    BY ONLY <1>1, <1>2

LEMMA AtoiDigit ==
  ASSUME NEW d \in 0 .. 9
  PROVE  Atoi(<<Numerals[d + 1]>>) = d
  <1>1. ASSUME NEW b \in 0 .. 9, Numerals[b + 1] = Numerals[d + 1] PROVE b = d
    BY ONLY <1>1, b \in 0 .. 9, d \in 0 .. 9, NumeralsAre
  <1> DEFINE token == <<Numerals[d + 1]>>
  <1>2. token[1] = Numerals[d + 1]
    OBVIOUS
  <1> HIDE DEF token
  <1> QED
    BY <1>1, <1>2 DEF Atoi, token

LEMMA NumeralPiece ==
  ASSUME NEW C, NEW n \in 0 .. 9, Numerals[n + 1] \in C
  PROVE  <<Numerals[n + 1]>> \in Piece(C, "#")
  <1> DEFINE c == Numerals[n + 1]
  <1>1. c # "#"
    BY ONLY n \in 0 .. 9, NumeralsAre
  <1> HIDE DEF c
  <1>2. c \in C \ {"#"}
    BY <1>1 DEF c
  <1>3. <<c>> \in Seq(C \ {"#"}) /\ <<c>> # <<>>
    BY ONLY <1>2
  <1> QED
    BY ONLY <1>3 DEF Piece, c

(* A text with at least one piece is not empty. *)
LEMMA JoinedPieces ==
  ASSUME NEW A, NEW d \in A, NEW f \in Seq(Piece(A, d)), Len(f) # 0
  PROVE  /\ Tokens(Joined(f, d), d) = f
         /\ Joined(f, d) \in Seq(A) /\ Joined(f, d) # <<>>
  <1> DEFINE J == Joined(f, d)
  <1>1. Tokens(J, d) = f
    BY TokensJoined
  <1>2. f \in Seq(Seq(A))
    <2>1. Piece(A, d) \subseteq Seq(A)
      BY PieceIn
    <2> QED
      BY <2>1, SeqMonotonic
  <1>3. J \in Seq(A)
    BY <1>2, JoinedIn
  <1> HIDE DEF J
  <1>4. J # <<>>
    <2> SUFFICES ASSUME J = <<>> PROVE FALSE
      OBVIOUS
    <2>1. Len(J) = 0
      BY ONLY J = <<>>
    <2>2. Starts(J, d) = {}
      BY <2>1 DEF Starts
    <2>3. Len(Tokens(J, d)) = 0
      BY ONLY <1>3, <2>2, TokensAre, FS_EmptySet
    <2> QED
      BY <1>1, <2>3
  <1> QED
    BY <1>1, <1>3, <1>4 DEF J

LEMMA Headed ==
  ASSUME NEW Q, NEW h \in Q, NEW n \in Nat, NEW ls \in [1 .. n -> Q]
  PROVE  /\ <<h>> \o ls \in Seq(Q) /\ (<<h>> \o ls)[1] = h
         /\ \A i \in 1 .. n : (<<h>> \o ls)[i + 1] = ls[i]
  <1> DEFINE hs == <<h>>
             all == hs \o ls
  <1>1. hs \in Seq(Q) /\ Len(hs) = 1 /\ hs[1] = h
    OBVIOUS
  <1>2. ls \in Seq(Q) /\ Len(ls) = n
    OBVIOUS
  <1> HIDE DEF hs
  <1>3. /\ all \in Seq(Q)
        /\ \A i \in 1 .. Len(hs) + Len(ls) :
              all[i] = IF i <= Len(hs) THEN hs[i] ELSE ls[i - Len(hs)]
    BY ONLY <1>1, <1>2, ConcatProperties
  <1> HIDE DEF all
  <1>4. 1 \in 1 .. 1 + n /\ 1 <= 1
    OBVIOUS
  <1>5. \A i \in 1 .. n : i + 1 \in 1 .. 1 + n /\ ~(i + 1 <= 1) /\ (i + 1) - 1 = i
    OBVIOUS
  <1>6. all[1] = h
    BY ONLY <1>1, <1>2, <1>3, <1>4
  <1>7. ASSUME NEW i \in 1 .. n PROVE all[i + 1] = ls[i]
    BY ONLY <1>1, <1>2, <1>3, <1>5, i \in 1 .. n
  <1> QED
    BY <1>3, <1>6, <1>7 DEF all, hs

LEMMA LinkedFields ==
  ASSUME NEW infos, NEW n \in Nat, NEW i \in 1 .. n
  PROVE  LET l == Linked(infos, n)[i]
         IN  /\ l.capacity_mb_ = infos[i].capacity
             /\ l.bandwidth_mbps_ = infos[i].bandwidth
             /\ l.io_client_type = ClientType(infos[i])
             /\ l.layer_loc = infos[i].mount_point
             /\ l.direct_io = infos[i].direct_io
  BY DEF Linked

(* The fields of a layer: pieces, of which the third and the fifth are a    *)
(* digit for no or yes.                                                     *)
IsField(field, P) ==
    /\ field \in Seq(P) /\ Len(field) = 5
    /\ field[3] \in {<<"0">>, <<"1">>} /\ field[5] \in {<<"0">>, <<"1">>}

(***************************************************************************)
(* What -l says, parse_opts reads, for up to nine layers with any fields   *)
(* that are not empty and hold no delimiter.                               *)
(***************************************************************************)
THEOREM OptionCorrect ==
  ASSUME NEW C, "#" \in C, "_" \in C, \A d \in 0 .. 9 : Numerals[d + 1] \in C,
         NEW n \in 0 .. 9, NEW fields, DOMAIN fields = 1 .. n, Len(fields) = n,
         \A i \in 1 .. n : IsField(fields[i], Piece(C \ {"#"}, "_"))
  PROVE  OptionReadBackFor(fields)
  <1> DEFINE A == C \ {"#"}
             P == Piece(A, "_")
             Q == Piece(C, "#")
             ls == [i \in 1 .. n |-> Joined(fields[i], "_")]
             head == <<Numerals[n + 1]>>
             all == <<head>> \o ls
  <1>0. n \in Nat /\ n \in 0 .. 9
    BY ONLY n \in 0 .. 9
  <1>1. "_" \in A /\ "#" \in C
    OBVIOUS
  <1>2. ASSUME NEW i \in 1 .. n
        PROVE  Tokens(ls[i], "_") = fields[i] /\ ls[i] \in Q
    <2> DEFINE f == fields[i]
               J == Joined(f, "_")
    <2>a. IsField(f, P)
      BY <1>2
    <2> HIDE DEF A, P, f
    <2>b. f \in Seq(P) /\ Len(f) = 5
      BY ONLY <2>a DEF IsField
    <2>c. Len(f) # 0
      BY ONLY <2>b
    <2>1. f \in Seq(Piece(A, "_"))
      BY ONLY <2>b, Zenon DEF P
    <2>2. Tokens(J, "_") = f /\ J \in Seq(A) /\ J # <<>>
      BY ONLY <1>1, <2>1, <2>c, JoinedPieces
    <2>3. ls[i] = J
      BY <1>2 DEF f
    <2> HIDE DEF J, ls
    <2> QED
      BY ONLY <2>2, <2>3 DEF Piece, A, f
  <1>3. head \in Q
    <2>1. Numerals[n + 1] \in C
      OBVIOUS
    <2> QED
      BY ONLY <1>0, <2>1, NumeralPiece
  <1> HIDE DEF Q, P, A, head
  <1>4. ls \in [1 .. n -> Q]
    BY <1>2
  <1>5. /\ all \in Seq(Q) /\ all[1] = head
        /\ \A i \in 1 .. n : all[i + 1] = ls[i]
    <2> HIDE DEF ls
    <2> QED
      BY ONLY <1>0, <1>3, <1>4, Headed
  <1>6. OptionText(fields) = Joined(all, "#")
    BY DEF OptionText, ls, head
  <1> HIDE DEF all, ls
  <1>7. Tokens(OptionText(fields), "#") = all
    BY ONLY <1>1, <1>5, <1>6, TokensJoined DEF Q
  <1>8. Atoi(all[1]) = n
    BY <1>5, AtoiDigit DEF head
  <1>a. ASSUME NEW infos \in LayerOption(OptionText(fields))
        PROVE  \E isLocal \in [1 .. n -> BOOLEAN] : infos = LayerInfos(all, isLocal)
    BY ONLY <1>7, <1>8, <1>a DEF LayerOption
  <1> SUFFICES ASSUME NEW infos, NEW isLocal, infos = LayerInfos(all, isLocal)
               PROVE  LET list == BuildLayers(infos)
                      IN  /\ Len(list) = Len(fields)
                          /\ \A i \in DOMAIN list :
                                /\ list[i].capacity_mb_ = fields[i][1]
                                /\ list[i].bandwidth_mbps_ = fields[i][2]
                                /\ (list[i].io_client_type = "SIMPLE_MEMORY")
                                      <=> (fields[i][3] = <<"1">>)
                                /\ list[i].layer_loc = fields[i][4]
                                /\ list[i].direct_io <=> (fields[i][5] = <<"1">>)
    BY <1>a DEF OptionReadBackFor
  <1> DEFINE list == Linked(infos, n)
  <1>9. /\ DOMAIN infos = 1 .. n
        /\ \A i \in 1 .. n :
              infos[i] = [capacity |-> fields[i][1], bandwidth |-> fields[i][2],
                          is_memory |-> Atoi(fields[i][3]) # 0, mount_point |-> fields[i][4],
                          direct_io |-> Atoi(fields[i][5]) # 0, is_local |-> isLocal[i]]
    <2>1. \A i \in 1 .. n : Tokens(all[i + 1], "_") = fields[i]
      BY <1>2, <1>5
    <2> QED
      BY ONLY <1>8, <2>1, infos = LayerInfos(all, isLocal) DEF LayerInfos
  <1>10. BuildLayers(infos) = list
    BY ONLY <1>0, <1>9, BuildIs
  <1>11. \A x \in {<<"0">>, <<"1">>} : Atoi(x) # 0 <=> x = <<"1">>
    <2>1. Atoi(<<"0">>) = 0 /\ Atoi(<<"1">>) = 1
      <3>1. 0 \in 0 .. 9 /\ 1 \in 0 .. 9
        BY ONLY TRUE
      <3>2. Numerals[0 + 1] = "0" /\ Numerals[1 + 1] = "1"
        BY ONLY <3>1, NumeralsAre
      <3>3. Atoi(<<Numerals[0 + 1]>>) = 0 /\ Atoi(<<Numerals[1 + 1]>>) = 1
        BY ONLY <3>1, AtoiDigit
      <3> QED
        BY ONLY <3>2, <3>3
    <2>2. <<"0">> # <<"1">>
      OBVIOUS
    <2> QED
      BY ONLY <2>1, <2>2
  <1>12. DOMAIN list = 1 .. n /\ Len(list) = n
    BY ONLY <1>0 DEF Linked
  <1>13. \A i \in 1 .. n : ClientType(infos[i]) = "SIMPLE_MEMORY" <=> infos[i].is_memory
    <2> SUFFICES ASSUME NEW i \in 1 .. n
                 PROVE  ClientType(infos[i]) = "SIMPLE_MEMORY" <=> infos[i].is_memory
      OBVIOUS
    <2> QED
      BY DEF ClientType
  <1> HIDE DEF list
  <1>14. ASSUME NEW i \in 1 .. n
         PROVE  /\ list[i].capacity_mb_ = fields[i][1]
                /\ list[i].bandwidth_mbps_ = fields[i][2]
                /\ (list[i].io_client_type = "SIMPLE_MEMORY") <=> (fields[i][3] = <<"1">>)
                /\ list[i].layer_loc = fields[i][4]
                /\ list[i].direct_io <=> (fields[i][5] = <<"1">>)
    <2>1. /\ infos[i].capacity = fields[i][1] /\ infos[i].bandwidth = fields[i][2]
          /\ infos[i].mount_point = fields[i][4]
          /\ infos[i].is_memory = (Atoi(fields[i][3]) # 0)
          /\ infos[i].direct_io = (Atoi(fields[i][5]) # 0)
      BY ONLY <1>9, i \in 1 .. n
    <2>2. fields[i][3] \in {<<"0">>, <<"1">>} /\ fields[i][5] \in {<<"0">>, <<"1">>}
      BY DEF IsField
    <2>3. /\ Atoi(fields[i][3]) # 0 <=> fields[i][3] = <<"1">>
          /\ Atoi(fields[i][5]) # 0 <=> fields[i][5] = <<"1">>
      BY ONLY <1>11, <2>2
    <2>4. /\ list[i].capacity_mb_ = infos[i].capacity
          /\ list[i].bandwidth_mbps_ = infos[i].bandwidth
          /\ list[i].layer_loc = infos[i].mount_point
          /\ (list[i].io_client_type = "SIMPLE_MEMORY") <=> infos[i].is_memory
          /\ list[i].direct_io = infos[i].direct_io
      BY ONLY <1>0, <1>13, LinkedFields, i \in 1 .. n DEF list
    <2> QED
      BY ONLY <2>1, <2>3, <2>4
  <1> QED
    BY <1>10, <1>12, <1>14
----------------------------------------------------------------------------
(* The default hierarchy. *)

LEMMA DefaultIsOrdered ==
  ASSUME NEW x \in Nat
  PROVE  DefaultOrderedFor(x)
  <1> SUFFICES ASSUME NEW infos \in DefaultLayers(x)
               PROVE  LET list == BuildLayers(infos)
                      IN  /\ \A i \in 1 .. Len(list) - 1 :
                                /\ list[i].bandwidth_mbps_ > list[i + 1].bandwidth_mbps_
                                /\ list[i].capacity_mb_ <= list[i + 1].capacity_mb_
                          /\ list[1].capacity_mb_ + list[2].capacity_mb_ + list[3].capacity_mb_
                                <= list[4].capacity_mb_
    BY DEF DefaultOrderedFor
  <1> DEFINE quarter == (4 * x) \div 16
             half == (8 * x) \div 16
             list == Linked(infos, 4)
  <1>1. /\ quarter \in Nat /\ half \in Nat
        /\ quarter <= half /\ half <= x /\ quarter + quarter + half <= x
    OBVIOUS
  <1> HIDE DEF quarter, half
  <1>2. /\ DOMAIN infos = 1 .. 4
        /\ \A i \in 1 .. 4 : /\ infos[i].capacity = <<quarter, quarter, half, x>>[i]
                             /\ infos[i].bandwidth = <<80000, 2000, 400, 100>>[i]
    BY DEF DefaultLayers, DefaultShare, quarter, half
  <1>3. BuildLayers(infos) = list
    <2>1. 4 \in Nat /\ DOMAIN infos = 1 .. 4
      BY <1>2
    <2> HIDE DEF list
    <2>2. BuildLayers(infos) = Linked(infos, 4)
      BY <2>1, BuildIs
    <2> QED
      BY <2>2 DEF list
  <1>4. /\ Len(list) = 4
        /\ \A i \in 1 .. 4 : /\ list[i].capacity_mb_ = infos[i].capacity
                             /\ list[i].bandwidth_mbps_ = infos[i].bandwidth
    BY DEF Linked
  <1> HIDE DEF list
  <1>5. /\ list[1].capacity_mb_ = quarter /\ list[2].capacity_mb_ = quarter
        /\ list[3].capacity_mb_ = half    /\ list[4].capacity_mb_ = x
        /\ list[1].bandwidth_mbps_ = 80000 /\ list[2].bandwidth_mbps_ = 2000
        /\ list[3].bandwidth_mbps_ = 400   /\ list[4].bandwidth_mbps_ = 100
    BY <1>2, <1>4
  <1>6. ASSUME NEW i \in 1 .. Len(list) - 1
        PROVE  /\ list[i].bandwidth_mbps_ > list[i + 1].bandwidth_mbps_
               /\ list[i].capacity_mb_ <= list[i + 1].capacity_mb_
    <2>1. i = 1 \/ i = 2 \/ i = 3
      BY <1>4, <1>6
    <2> QED
      BY <1>1, <1>5, <2>1
  <1>7. list[1].capacity_mb_ + list[2].capacity_mb_ + list[3].capacity_mb_
          <= list[4].capacity_mb_
    BY <1>1, <1>5
  <1> QED
    BY <1>3, <1>6, <1>7

----------------------------------------------------------------------------
(* For every input, whatever the bounds. *)

(***************************************************************************)
(* Substract, on every pair of segments that overlap: what is left of A is *)
(* exactly the bytes of A that are not in B, unless B sticks out of A on   *)
(* the right only; then nothing is returned.                               *)
(***************************************************************************)
THEOREM SubstractAlways == Spec => []SubstractExact
  <1>1. Init => SubstractExact
    BY SubstractCorrect, BoundsAssumption DEF Init, SubstractExact, Segment, SegType
  <1>2. SubstractExact /\ [Next]_input => SubstractExact'
    BY DEF Next, SubstractExact
  <1> QED
    BY <1>1, <1>2, PTL DEF Spec

(***************************************************************************)
(* Intersect, on every pair of segments: exactly the common bytes.         *)
(***************************************************************************)
THEOREM IntersectAlways == Spec => []IntersectExact
  <1>1. Init => IntersectExact
    BY IntersectCorrect, BoundsAssumption DEF Init, IntersectExact, Segment, SegType
  <1>2. IntersectExact /\ [Next]_input => IntersectExact'
    BY DEF Next, IntersectExact
  <1> QED
    BY <1>1, <1>2, PTL DEF Spec

(***************************************************************************)
(* The test of ContainsInServer, on every pair of segments that are not    *)
(* empty: true exactly when they overlap.                                  *)
(***************************************************************************)
THEOREM MeetsAlways == Spec => []MeetsIsOverlap
  <1>1. Init => MeetsIsOverlap
    BY MeetsCorrect, BoundsAssumption DEF Init, MeetsIsOverlap, Segment, SegType
  <1>2. MeetsIsOverlap /\ [Next]_input => MeetsIsOverlap'
    BY DEF Next, MeetsIsOverlap
  <1> QED
    BY <1>1, <1>2, PTL DEF Spec

(* The layers of an input are the list that BuildLayers makes of infos. *)
LEMMA InfosAre ==
  ASSUME NEW infos \in Infos
  PROVE  \E n \in 1 .. UInt8Size :
            /\ BuildLayers(infos) = Linked(infos, n)
            /\ DOMAIN Linked(infos, n) = 1 .. n
            /\ \A i \in 1 .. n : infos[i].direct_io \in BOOLEAN
  <1>1. PICK n \in 1 .. UInt8Size : infos \in [1 .. n -> Info]
    BY DEF Infos
  <1>2. n \in Nat
    BY UInt8Assumption
  <1>3. DOMAIN infos = 1 .. n
    BY <1>1
  <1>4. BuildLayers(infos) = Linked(infos, n)
    BY <1>2, <1>3, BuildIs
  <1>5. \A i \in 1 .. n : infos[i].direct_io \in BOOLEAN
    BY <1>1 DEF Info
  <1>6. DOMAIN Linked(infos, n) = 1 .. n
    BY DEF Linked
  <1> QED
    BY <1>4, <1>5, <1>6

(***************************************************************************)
(* BuildLayers links every list of layers both ways.                       *)
(***************************************************************************)
THEOREM LayersAreLinked == Spec => []LayersLinked
  <1>1. Init => LayersLinked
    <2> SUFFICES ASSUME Init, input.kind = "file" PROVE LinkedBothWays(input.layers)
      BY DEF LayersLinked
    <2>1. PICK infos \in Infos : input.layers = BuildLayers(infos)
      BY DEF Init
    <2>2. PICK n \in 1 .. UInt8Size : BuildLayers(infos) = Linked(infos, n)
      BY InfosAre
    <2>3. n \in Nat
      BY UInt8Assumption
    <2> QED
      BY <2>1, <2>2, <2>3, LinkedIsLinked
  <1>2. LayersLinked /\ [Next]_input => LayersLinked'
    BY DEF Next, LayersLinked
  <1> QED
    BY <1>1, <1>2, PTL DEF Spec

(***************************************************************************)
(* The default layers are a hierarchy for every size of I/O.               *)
(***************************************************************************)
THEOREM DefaultIsHierarchy == Spec => []DefaultOrdered
  <1>1. Init => DefaultOrdered
    <2> SUFFICES ASSUME Init, input.kind = "io" PROVE input.io_size_mb \in Nat
      BY DefaultIsOrdered DEF DefaultOrdered
    <2> QED
      BY BoundsAssumption DEF Init
  <1>2. DefaultOrdered /\ [Next]_input => DefaultOrdered'
    BY DEF Next, DefaultOrdered
  <1> QED
    BY <1>1, <1>2, PTL DEF Spec

(***************************************************************************)
(* A file of any of at most UInt8Size layers arrives as it was: the id,    *)
(* which is cut to eight bits, still finds the layer on the walk along     *)
(* next.                                                                   *)
(***************************************************************************)
THEOREM FilesArrive == Spec => []FileArrives
  <1>1. Init => FileArrives
    <2> SUFFICES ASSUME Init, input.kind = "file", NEW i \in DOMAIN input.layers
                 PROVE  FileArrivesFor([filename |-> input.name, segment |-> Seg(0, i),
                                        layer |-> input.layers[i], data |-> input.data],
                                       input.layers)
      BY DEF FileArrives
    <2>1. PICK infos \in Infos : input.layers = BuildLayers(infos) /\ input.name \in Name
      BY DEF Init
    <2>2. PICK n \in 1 .. UInt8Size :
             /\ BuildLayers(infos) = Linked(infos, n)
             /\ DOMAIN Linked(infos, n) = 1 .. n
             /\ \A j \in 1 .. n : infos[j].direct_io \in BOOLEAN
      BY InfosAre
    <2>3. i \in 1 .. n
      BY <2>1, <2>2
    <2> QED
      BY <2>1, <2>2, <2>3, FileKept
  <1>2. FileArrives /\ [Next]_input => FileArrives'
    BY DEF Next, FileArrives
  <1> QED
    BY <1>1, <1>2, PTL DEF Spec

(***************************************************************************)
(* An event arrives with its six fields, a score of the default type with  *)
(* what it is ordered by.                                                  *)
(***************************************************************************)
THEOREM EventsArrive == Spec => []EventArrives
  <1>1. Init => EventArrives
    <2> SUFFICES ASSUME Init, input.kind = "event"
                 PROVE  EventArrivesFor(input.event, input.score)
      BY DEF EventArrives
    <2>1. input.event \in Event /\ input.score \in Score
      BY DEF Init
    <2> QED
      BY <2>1, EventKept
  <1>2. EventArrives /\ [Next]_input => EventArrives'
    BY DEF Next, EventArrives
  <1> QED
    BY <1>1, <1>2, PTL DEF Spec

(***************************************************************************)
(* str_split, on every text whatever its length: it never writes past the  *)
(* array it has counted for, its assertion holds exactly for the texts     *)
(* without an empty field, and the pieces of these are the text again.     *)
(***************************************************************************)
THEOREM SplitAlways == Spec => []SplitExact
  <1>1. Init => SplitExact
    <2> SUFFICES ASSUME Init, input.kind = "text" PROVE SplitExactFor(input.text, "#")
      BY DEF SplitExact
    <2> DEFINE C == {"x", "#"}
    <2>1. input.text \in Text(C, MaxText)
      BY DEF Init
    <2>2. PICK n \in 0 .. MaxText : input.text \in [1 .. n -> C]
      BY <2>1 DEF Text
    <2>3. n \in Nat
      BY <2>2, BoundsAssumption
    <2>4. "#" \in C
      OBVIOUS
    <2> HIDE DEF C
    <2>5. input.text \in Seq(C)
      BY ONLY <2>2, <2>3
    <2> QED
      BY ONLY <2>4, <2>5, SplitCorrect
  <1>2. SplitExact /\ [Next]_input => SplitExact'
    BY DEF Next, SplitExact
  <1> QED
    BY <1>1, <1>2, PTL DEF Spec

LEMMA FieldsAreFields ==
  ASSUME NEW C, {"0", "1", "x"} \subseteq C, NEW field \in Fields
  PROVE  IsField(field, Piece(C \ {"#"}, "_"))
  <1> DEFINE A == (C \ {"#"}) \ {"_"}
             P == Piece(C \ {"#"}, "_")
  <1>1. "0" \in A /\ "1" \in A /\ "x" \in A
    OBVIOUS
  <1>2. P = Seq(A) \ {<<>>}
    BY DEF Piece
  <1> HIDE DEF A, P
  <1>3. <<"0">> \in P /\ <<"1">> \in P /\ <<"x">> \in P /\ <<"1", "x">> \in P
    BY ONLY <1>1, <1>2
  <1>4. PICK f \in Field, m \in {<<"0">>, <<"1">>}, g \in Field, d \in {<<"0">>, <<"1">>} :
           field = <<f, <<"x">>, m, g, d>>
    BY DEF Fields
  <1> DEFINE x == <<"x">>
  <1>5. f \in P /\ x \in P /\ m \in P /\ g \in P /\ d \in P
    BY ONLY <1>3, <1>4 DEF Field
  <1> HIDE DEF x
  <1>6. field = <<f, x, m, g, d>>
    BY <1>4 DEF x
  <1>7. field \in Seq(P) /\ Len(field) = 5 /\ field[3] = m /\ field[5] = d
    BY ONLY <1>5, <1>6
  <1> QED
    BY ONLY <1>4, <1>7 DEF IsField, P

(***************************************************************************)
(* What -l says, parse_opts reads: for every number of layers that is one  *)
(* digit, the layers in their order and each field in its place, although  *)
(* is_local is whatever malloc left there.                                 *)
(***************************************************************************)
THEOREM OptionIsReadBack == Spec => []OptionReadBack
  <1>1. Init => OptionReadBack
    <2> SUFFICES ASSUME Init, input.kind = "option" PROVE OptionReadBackFor(input.fields)
      BY DEF OptionReadBack
    <2> DEFINE fields == input.fields
               C == {"#", "_", "x", "0", "1", "2", "3", "4", "5", "6", "7", "8", "9"}
               P == Piece(C \ {"#"}, "_")
    <2>1. PICK n \in 0 .. MaxLayers : fields \in [1 .. n -> Fields]
      BY DEF Init
    <2>2. n \in 0 .. 9 /\ n \in Nat
      BY <2>1, BoundsAssumption
    <2> HIDE DEF fields
    <2>3. "#" \in C /\ "_" \in C /\ {"0", "1", "x"} \subseteq C
      OBVIOUS
    <2>4. ASSUME NEW d \in 0 .. 9 PROVE Numerals[d + 1] \in C
      BY ONLY <2>4, NumeralsAre
    <2> HIDE DEF C
    <2>5. DOMAIN fields = 1 .. n /\ Len(fields) = n /\ \A i \in 1 .. n : fields[i] \in Fields
      BY ONLY <2>1, <2>2
    <2>6. ASSUME NEW i \in 1 .. n PROVE IsField(fields[i], P)
      BY ONLY <2>3, <2>5, i \in 1 .. n, FieldsAreFields
    <2>7. OptionReadBackFor(fields)
      BY ONLY <2>2, <2>3, <2>4, <2>5, <2>6, OptionCorrect
    <2> QED
      BY <2>7 DEF fields
  <1>2. OptionReadBack /\ [Next]_input => OptionReadBack'
    BY DEF Next, OptionReadBack
  <1> QED
    BY <1>1, <1>2, PTL DEF Spec
=============================================================================
