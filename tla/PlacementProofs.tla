-------------------------- MODULE PlacementProofs --------------------------
(***************************************************************************)
(* Theorems about Placement, for any layers with one of MemoryClient, any  *)
(* capacities, segment size, scores and sequence of events, and files      *)
(* whose size is an int.                                                   *)
(***************************************************************************)
EXTENDS Placement, SegmentProofs

----------------------------------------------------------------------------
(* The sum of the values of a function on a finite set. *)

One(s) == CHOOSE x \in s : TRUE

(* g[s] is the sum of f over s, for every subset s of its domain. *)
IsSum(g, f) ==
    g = [s \in SUBSET DOMAIN f |-> IF s = {} THEN 0 ELSE f[One(s)] + g[s \ {One(s)}]]

LEMMA SumIs ==
  ASSUME NEW f
  PROVE  Sum(f) = (CHOOSE g : IsSum(g, f))[DOMAIN f]
  BY DEF Sum, MapThenSumSet, MapThenFoldSet, IsSum, One

LEMMA OneIn ==
  ASSUME NEW s, s # {}
  PROVE  One(s) \in s
  BY DEF One

(* The recursive function of the fold exists: it is built up by the number  *)
(* of elements.                                                             *)
LEMMA SumExists ==
  ASSUME NEW f, IsFiniteSet(DOMAIN f)
  PROVE  \E g : IsSum(g, f)
  <1> DEFINE D == DOMAIN f
             S(n) == {s \in SUBSET D : Cardinality(s) <= n}
             P(g, n) == g = [s \in S(n) |-> IF s = {} THEN 0
                                            ELSE f[One(s)] + g[s \ {One(s)}]]
             T == {n \in Nat : ~\E g : P(g, n)}
  <1>1. T = {}
    <2> SUFFICES ASSUME T # {} PROVE FALSE
      OBVIOUS
    <2>1. T \subseteq Nat
      OBVIOUS
    <2>2. PICK n \in T : \A m \in T : n <= m
      BY <2>1, Least
    <2>3. n \in Nat /\ ~\E g : P(g, n)
      OBVIOUS
    <2>4. CASE n = 0
      <3>1. \A s \in S(0) : s = {}
        <4> SUFFICES ASSUME NEW s \in S(0) PROVE s = {}
          OBVIOUS
        <4>1. IsFiniteSet(s) /\ Cardinality(s) <= 0
          BY FS_Subset
        <4>2. Cardinality(s) = 0
          BY <4>1, FS_CardinalityType
        <4> QED
          BY <4>1, <4>2, FS_EmptySet
      <3> DEFINE g == [s \in S(0) |-> 0]
      <3>2. P(g, 0)
        BY <3>1
      <3> QED
        BY <2>3, <2>4, <3>2
    <2>5. CASE n # 0
      <3>1. n - 1 \in Nat /\ ~(n <= n - 1)
        BY <2>3, <2>5
      <3>2. n - 1 \notin T
        BY <2>2, <3>1
      <3>3. PICK h : P(h, n - 1)
        BY <3>1, <3>2
      <3> DEFINE F(s) == IF s = {} THEN 0 ELSE f[One(s)] + h[s \ {One(s)}]
                 g == [s \in S(n) |-> F(s)]
      <3>4. ASSUME NEW s \in S(n), s # {}
            PROVE  h[s \ {One(s)}] = g[s \ {One(s)}]
        <4> DEFINE r == s \ {One(s)}
        <4>1. r \in S(n - 1) /\ r \in S(n)
          <5>1. s \in SUBSET D /\ Cardinality(s) <= n /\ One(s) \in s
            BY <3>4, OneIn
          <5>2. /\ r \in SUBSET D /\ Cardinality(s) \in Nat
                /\ Cardinality(r) = Cardinality(s) - 1
            BY <5>1, Smaller
          <5> QED
            BY <2>3, <5>1, <5>2
        <4> HIDE DEF r, S
        <4>2. h[r] = F(r)
          BY <3>3, <4>1
        <4>3. g[r] = F(r)
          BY <4>1
        <4> QED
          BY <4>2, <4>3 DEF r
      <3>5. \A s \in S(n) : F(s) = IF s = {} THEN 0 ELSE f[One(s)] + g[s \ {One(s)}]
        BY <3>4
      <3> HIDE DEF S
      <3>6. P(g, n)
        <4>1. g = [s \in S(n) |-> F(s)]
          OBVIOUS
        <4> HIDE DEF F, g
        <4> QED
          BY <3>5, <4>1
      <3> QED
        BY <2>3, <3>6
    <2> QED
      BY <2>4, <2>5
  <1>2. Cardinality(D) \in Nat
    BY FS_CardinalityType
  <1>3. S(Cardinality(D)) = SUBSET D
    BY FS_Subset
  <1>4. \E g : P(g, Cardinality(D))
    BY <1>1, <1>2
  <1> QED
    BY <1>3, <1>4 DEF IsSum

(* The sum of f over a part of its domain. *)
SumOver(f, s) == (CHOOSE g : IsSum(g, f))[s]

LEMMA SumOverStep ==
  ASSUME NEW f, IsFiniteSet(DOMAIN f)
  PROVE  /\ Sum(f) = SumOver(f, DOMAIN f)
         /\ SumOver(f, {}) = 0
         /\ \A s \in SUBSET DOMAIN f : s # {} =>
               SumOver(f, s) = f[One(s)] + SumOver(f, s \ {One(s)})
  <1> DEFINE g == CHOOSE g : IsSum(g, f)
  <1>1. IsSum(g, f)
    BY SumExists
  <1>2. \A s : SumOver(f, s) = g[s]
    BY DEF SumOver
  <1>3. Sum(f) = g[DOMAIN f]
    BY SumIs
  <1> HIDE DEF g
  <1>4. {} \in SUBSET DOMAIN f
    OBVIOUS
  <1>5. g[{}] = 0
    BY <1>1, <1>4 DEF IsSum
  <1>6. ASSUME NEW s \in SUBSET DOMAIN f, s # {}
        PROVE  g[s] = f[One(s)] + g[s \ {One(s)}]
    BY <1>1, <1>6 DEF IsSum
  <1> QED
    BY <1>2, <1>3, <1>5, <1>6

LEMMA SumOverNat ==
  ASSUME NEW f, IsFiniteSet(DOMAIN f), \A x \in DOMAIN f : f[x] \in Nat,
         NEW s \in SUBSET DOMAIN f
  PROVE  SumOver(f, s) \in Nat
  <1> DEFINE D == DOMAIN f
             B == {t \in SUBSET D : SumOver(f, t) \notin Nat}
  <1>1. B = {}
    <2> SUFFICES ASSUME B # {} PROVE FALSE
      OBVIOUS
    <2>1. PICK t \in B : \A u \in B : Cardinality(t) <= Cardinality(u)
      <3>1. B \subseteq SUBSET D
        OBVIOUS
      <3> HIDE DEF B
      <3> QED
        BY <3>1, Fewest
    <2>2. t \in SUBSET D /\ SumOver(f, t) \notin Nat
      OBVIOUS
    <2>3. t # {}
      BY <2>2, SumOverStep
    <2> DEFINE x == One(t)
    <2>4. x \in t
      BY <2>3, OneIn
    <2>5. SumOver(f, t) = f[x] + SumOver(f, t \ {x})
      BY <2>2, <2>3, SumOverStep
    <2>6. t \ {x} \in SUBSET D /\ ~(Cardinality(t) <= Cardinality(t \ {x}))
      BY <2>2, <2>4, Smaller
    <2>7. SumOver(f, t \ {x}) \in Nat
      BY <2>1, <2>6
    <2> QED
      BY <2>2, <2>4, <2>5, <2>7
  <1> QED
    BY <1>1

(* The order of the summands does not matter. *)
LEMMA SumOverRemove ==
  ASSUME NEW f, IsFiniteSet(DOMAIN f), \A x \in DOMAIN f : f[x] \in Nat,
         NEW s \in SUBSET DOMAIN f, NEW x \in s
  PROVE  SumOver(f, s) = f[x] + SumOver(f, s \ {x})
  <1> DEFINE D == DOMAIN f
             B == {t \in SUBSET D : \E y \in t : SumOver(f, t) # f[y] + SumOver(f, t \ {y})}
  <1>1. B = {}
    <2> SUFFICES ASSUME B # {} PROVE FALSE
      OBVIOUS
    <2>1. PICK t \in B : \A u \in B : Cardinality(t) <= Cardinality(u)
      <3>1. B \subseteq SUBSET D
        OBVIOUS
      <3> HIDE DEF B
      <3> QED
        BY <3>1, Fewest
    <2>2. PICK y \in t : SumOver(f, t) # f[y] + SumOver(f, t \ {y})
      OBVIOUS
    <2>3. t \in SUBSET D
      OBVIOUS
    <2> DEFINE z == One(t)
    <2>4. z \in t /\ SumOver(f, t) = f[z] + SumOver(f, t \ {z})
      BY <2>2, <2>3, OneIn, SumOverStep
    <2> HIDE DEF z, B
    <2>5. y # z
      BY <2>2, <2>4
    <2>6. /\ t \ {z} \in SUBSET D /\ ~(Cardinality(t) <= Cardinality(t \ {z}))
          /\ t \ {y} \in SUBSET D /\ ~(Cardinality(t) <= Cardinality(t \ {y}))
      BY <2>2, <2>3, <2>4, Smaller
    <2>7. t \ {z} \notin B /\ t \ {y} \notin B
      BY <2>1, <2>6
    <2>8. SumOver(f, t \ {z}) = f[y] + SumOver(f, (t \ {z}) \ {y})
      <3>1. y \in t \ {z}
        BY <2>5
      <3> QED
        BY <2>6, <2>7, <3>1 DEF B
    <2>9. SumOver(f, t \ {y}) = f[z] + SumOver(f, (t \ {y}) \ {z})
      <3>1. z \in t \ {y}
        BY <2>4, <2>5
      <3> QED
        BY <2>6, <2>7, <3>1 DEF B
    <2>10. (t \ {z}) \ {y} = (t \ {y}) \ {z}
      OBVIOUS
    <2>11. f[y] \in Nat /\ f[z] \in Nat /\ SumOver(f, (t \ {y}) \ {z}) \in Nat
      <3>1. (t \ {y}) \ {z} \in SUBSET D /\ y \in D /\ z \in D
        BY <2>3, <2>4
      <3> QED
        BY <3>1, SumOverNat
    <2> DEFINE r == SumOver(f, (t \ {y}) \ {z})
    <2>12. SumOver(f, t) = f[z] + (f[y] + r) /\ SumOver(f, t \ {y}) = f[z] + r
      BY <2>4, <2>8, <2>9, <2>10
    <2>13. f[z] + (f[y] + r) = f[y] + (f[z] + r)
      BY <2>11
    <2> QED
      BY <2>2, <2>12, <2>13
  <1> QED
    BY <1>1

(* Two functions that agree on a set have the same sum over it. *)
LEMMA SumOverSame ==
  ASSUME NEW f, NEW g, IsFiniteSet(DOMAIN f), DOMAIN g = DOMAIN f,
         NEW s \in SUBSET DOMAIN f, \A x \in s : g[x] = f[x]
  PROVE  SumOver(g, s) = SumOver(f, s)
  <1> DEFINE B == {t \in SUBSET s : SumOver(g, t) # SumOver(f, t)}
  <1>0. IsFiniteSet(s)
    BY FS_Subset
  <1>1. B = {}
    <2> SUFFICES ASSUME B # {} PROVE FALSE
      OBVIOUS
    <2>1. PICK t \in B : \A u \in B : Cardinality(t) <= Cardinality(u)
      <3>1. B \subseteq SUBSET s
        OBVIOUS
      <3> HIDE DEF B
      <3> QED
        BY <1>0, <3>1, Fewest
    <2>2. t \in SUBSET s /\ SumOver(g, t) # SumOver(f, t)
      OBVIOUS
    <2>3. t # {}
      BY <2>2, SumOverStep
    <2> DEFINE x == One(t)
    <2>4. x \in t
      BY <2>3, OneIn
    <2>5. t \in SUBSET DOMAIN f
      BY <2>2
    <2>6. /\ SumOver(f, t) = f[x] + SumOver(f, t \ {x})
          /\ SumOver(g, t) = g[x] + SumOver(g, t \ {x})
      BY <2>3, <2>5, SumOverStep
    <2>7. t \ {x} \in SUBSET s /\ ~(Cardinality(t) <= Cardinality(t \ {x}))
      BY <1>0, <2>2, <2>4, Smaller
    <2>8. SumOver(g, t \ {x}) = SumOver(f, t \ {x})
      BY <2>1, <2>7
    <2> QED
      BY <2>2, <2>4, <2>6, <2>8
  <1> QED
    BY <1>1

(* The sum of natural numbers is one, and it changes by as much as the one  *)
(* summand that changes.                                                    *)
LEMMA SumNat ==
  ASSUME NEW f, IsFiniteSet(DOMAIN f), \A x \in DOMAIN f : f[x] \in Nat
  PROVE  Sum(f) \in Nat
  BY SumOverStep, SumOverNat

LEMMA SumChange ==
  ASSUME NEW f, NEW g, IsFiniteSet(DOMAIN f), DOMAIN g = DOMAIN f,
         \A x \in DOMAIN f : f[x] \in Nat /\ g[x] \in Nat,
         NEW y \in DOMAIN f, \A x \in DOMAIN f : x # y => g[x] = f[x]
  PROVE  Sum(g) = Sum(f) + g[y] - f[y]
  <1> DEFINE D == DOMAIN f
  <1>1. Sum(f) = f[y] + SumOver(f, D \ {y}) /\ Sum(g) = g[y] + SumOver(g, D \ {y})
    <2>1. Sum(f) = SumOver(f, D) /\ Sum(g) = SumOver(g, D)
      BY SumOverStep
    <2>2. SumOver(f, D) = f[y] + SumOver(f, D \ {y})
      BY SumOverRemove
    <2>3. SumOver(g, D) = g[y] + SumOver(g, D \ {y})
      BY SumOverRemove
    <2> QED
      BY <2>1, <2>2, <2>3
  <1>2. SumOver(g, D \ {y}) = SumOver(f, D \ {y})
    <2>1. D \ {y} \in SUBSET D /\ \A x \in D \ {y} : g[x] = f[x]
      OBVIOUS
    <2> QED
      BY <2>1, SumOverSame
  <1>3. SumOver(f, D \ {y}) \in Nat
    BY SumOverNat
  <1> QED
    BY <1>1, <1>2, <1>3

----------------------------------------------------------------------------
(* The inductive invariants. *)

Place == [name : 0 .. Fresh, layer : 1 .. Last, seg : [start : Nat, end : Nat]]

Moves == [source : Place, destination : Place]

(* A buffer that a heat map names was filled in that layer, under a name    *)
(* that was given out.                                                      *)
LocatedInv ==
    \A n \in Names : located[n] # None =>
        /\ n <= names
        /\ located[n].layer \in Files => bytes[located[n].layer][n] # None

(* Data that is not in the last layer is a buffer that a heat map names. *)
Known(file) ==
    IF file.layer = Last THEN file.name = Original
    ELSE /\ file.name \in Names
         /\ located[file.name] # None /\ located[file.name].layer = file.layer

(* Every move goes up, by a piece that is not longer than a segment and     *)
(* fills its buffer from the start.                                         *)
MoveOK(m) ==
    /\ m \in Moves
    /\ m.destination.layer < m.source.layer
    /\ m.destination.seg.start = 0
    /\ GetSize(m.destination.seg) \in 1 .. SegmentSize
    /\ GetSize(m.source.seg) \in 1 .. SegmentSize
    /\ Known(m.source)
    /\ m.destination.name = (IF m.source.layer = Last THEN Fresh ELSE m.source.name)

TodoInv == todo \in Seq(Moves) /\ \A j \in 1 .. Len(todo) : MoveOK(todo[j])

Planning == planned # None \/ frame # None

PlannedInv ==
    Planning =>
        /\ planned.file \in Place /\ NonEmpty(planned.file.seg) /\ Known(planned.file)
        /\ planned.file.seg.end < IntMax
        /\ planned.file.layer # Last => GetSize(planned.file.seg) <= SegmentSize
        /\ planned.moves \in Seq(Moves)
        /\ planned = [file |-> planned.file, moves |-> planned.moves]
        /\ \A j \in 1 .. Len(planned.moves) :
              planned.moves[j].destination.layer < planned.file.layer

(* The next call of solve is for a layer not below the data's own, about    *)
(* what is left of it.                                                      *)
FrameInv ==
    frame # None =>
        /\ phase = "place"
        /\ frame \in [layer : 1 .. Last, size : Nat, start : Nat, original_index : Nat]
        /\ frame.layer <= planned.file.layer
        /\ planned.file.seg.start <= frame.start /\ frame.start <= planned.file.seg.end
        /\ frame.original_index <= frame.start

(* The event that a plan is made for is not counted yet. *)
EventInv == solved > 0 => events < MaxEvents

PlaceInv == TypeOK /\ EventInv /\ LocatedInv /\ TodoInv /\ PlannedInv /\ FrameInv

(* The conclusion of PlanCovers. *)
Covers ==
    LET Source(j) == planned.moves[j].source.seg
    IN  \A j \in DOMAIN planned.moves :
          /\ Source(j).start = IF j = 1 THEN 0 ELSE Source(j - 1).end + 1
          /\ Source(j).end <= planned.file.seg.end
          /\ GetSize(Source(j)) = GetSize(planned.moves[j].destination.seg)
          /\ GetSize(Source(j)) \in 1 .. SegmentSize

(* What the plan has read so far ends where the next call begins. *)
CoverInv ==
    Planning /\ planned.file.seg.start = 0 =>
        /\ Covers
        /\ frame # None =>
              /\ frame.original_index = frame.start
              /\ frame.start = IF planned.moves = <<>> THEN 0
                               ELSE planned.moves[Len(planned.moves)].source.seg.end + 1

----------------------------------------------------------------------------
(* The parts of a piece of data. *)

LEMMA Constants ==
  /\ Last \in Nat \ {0} /\ SegmentSize \in Nat \ {0} /\ KB \in Nat \ {0}
  /\ MaxEnd \in Nat /\ MaxNames \in Nat /\ MaxSegments \in Nat /\ MaxEvents \in Nat
  /\ Memory \subseteq Buffered /\ Counted \subseteq Int /\ None \notin Int
  /\ Capacity \in [Buffered -> Nat] /\ \A l \in Buffered : Capacity[l] >= SegmentSize
  BY PlacementAssumption

LEMMA Ints == IntMax \in Nat /\ SegmentSize <= IntMax /\ MaxEnd < IntMax
  BY IntAssumption

LEMMA MinTwo ==
  ASSUME NEW a \in Int, NEW b \in Int
  PROVE  Min({a, b}) = IF a <= b THEN a ELSE b
  <1> DEFINE m == IF a <= b THEN a ELSE b
  <1>1. m \in {a, b} /\ \A y \in {a, b} : m <= y
    OBVIOUS
  <1>2. \A x \in {a, b} : (\A y \in {a, b} : x <= y) => x = m
    OBVIOUS
  <1> HIDE DEF m
  <1>3. Min({a, b}) = m
    BY <1>1, <1>2 DEF Min
  <1> QED
    BY <1>3 DEF m

LEMMA MaxTwo ==
  ASSUME NEW a \in Int, NEW b \in Int
  PROVE  Max({a, b}) = IF a >= b THEN a ELSE b
  <1> DEFINE m == IF a >= b THEN a ELSE b
  <1>1. m \in {a, b} /\ \A y \in {a, b} : m >= y
    OBVIOUS
  <1>2. \A x \in {a, b} : (\A y \in {a, b} : x >= y) => x = m
    OBVIOUS
  <1> HIDE DEF m
  <1>3. Max({a, b}) = m
    BY <1>1, <1>2 DEF Max
  <1> QED
    BY <1>3 DEF m

LEMMA MulMono ==
  ASSUME NEW a \in Int, NEW b \in Int, NEW d \in Nat, a <= b
  PROVE  a * d <= b * d
  OBVIOUS

LEMMA MulLess ==
  ASSUME NEW a \in Int, NEW b \in Int, NEW d \in Nat, a * d < b * d
  PROVE  a < b
  <1>1. ASSUME b <= a PROVE FALSE
    <2>1. b * d <= a * d
      BY <1>1, MulMono
    <2> QED
      BY <2>1
  <1> QED
    BY <1>1

(* Division rounded up. *)
LEMMA Ceiling ==
  ASSUME NEW n \in Nat, NEW d \in Nat \ {0}
  PROVE  LET k == (n + d - 1) \div d
         IN  k \in Nat /\ n <= k * d /\ k * d < n + d
  <1> DEFINE m == n + d - 1
             k == m \div d
  <1>1. m \in Nat
    OBVIOUS
  <1>2. k \in Nat /\ k * d <= m /\ m < k * d + d
    <2> HIDE DEF m
    <2>1. k \in Int /\ m = d * k + (m % d) /\ 0 <= m % d /\ m % d < d
      BY <1>1
    <2> QED
      BY <1>1, <2>1
  <1>3. k * d \in Int
    BY <1>2
  <1> HIDE DEF k
  <1>4. n <= k * d /\ k * d < n + d
    BY <1>2, <1>3
  <1> QED
    BY <1>2, <1>4 DEF k

SegNat == [start : Nat, end : Nat]

NumParts(s) == (GetSize(s) + SegmentSize - 1) \div SegmentSize

(* There are as many parts as the size asks for, and every part but the     *)
(* last is full.                                                            *)
LEMMA PartCount ==
  ASSUME NEW s \in SegNat, NonEmpty(s)
  PROVE  /\ NumParts(s) \in Nat /\ NumParts(s) >= 1
         /\ GetSize(s) \in Nat /\ GetSize(s) <= NumParts(s) * SegmentSize
         /\ (NumParts(s) - 1) * SegmentSize < GetSize(s)
         /\ NumParts(s) * SegmentSize \in Nat
         /\ \A i \in 1 .. NumParts(s) :
               /\ (i - 1) * SegmentSize \in Nat /\ (i - 1) * SegmentSize < GetSize(s)
               /\ i # NumParts(s) => i * SegmentSize < GetSize(s)
  <1> DEFINE S == SegmentSize
             n == GetSize(s)
             k == NumParts(s)
  <1>1. S \in Nat \ {0} /\ n \in Nat /\ n >= 1
    BY Constants DEF SegNat, NonEmpty, GetSize
  <1>2. k = (n + S - 1) \div S
    BY DEF NumParts
  <1> HIDE DEF S, n, k
  <1>3. k \in Nat /\ n <= k * S /\ k * S < n + S
    BY <1>1, <1>2, Ceiling
  <1>4. k >= 1
    <2>1. CASE k = 0
      <3>1. k * S = 0
        BY <1>1, <2>1
      <3> QED
        BY <1>1, <1>3, <3>1
    <2> QED
      BY <1>3, <2>1
  <1>5. (k - 1) * S = k * S - S /\ k * S \in Nat
    BY <1>1, <1>3
  <1>6. (k - 1) * S < n
    BY <1>1, <1>3, <1>5
  <1>7. ASSUME NEW i \in 1 .. k PROVE (i - 1) * S \in Nat /\ (i - 1) * S < n
    <2>1. (i - 1) * S <= (k - 1) * S
      BY <1>1, <1>3, MulMono
    <2>2. i - 1 \in Nat
      OBVIOUS
    <2>3. (i - 1) * S \in Nat
      BY <1>1, <2>2
    <2> QED
      BY <1>1, <1>3, <1>5, <1>6, <2>1, <2>3
  <1>8. ASSUME NEW i \in 1 .. k, i # k PROVE i * S < n
    <2>1. i <= k - 1 /\ i \in Int /\ k - 1 \in Int
      BY <1>3, <1>8
    <2>2. i * S <= (k - 1) * S
      BY <1>1, <2>1, MulMono
    <2>3. i * S \in Int
      BY <1>1, <2>1
    <2> QED
      BY <1>1, <1>3, <1>5, <1>6, <2>2, <2>3
  <1> QED
    BY <1>1, <1>3, <1>4, <1>5, <1>6, <1>7, <1>8 DEF S, n, k

(* What SplitInParts does in an int is what it would do in a long, for data *)
(* that ends below the largest int.                                         *)
LEMMA ToIntIs ==
  ASSUME NEW n \in Int, 0 <= n + 1, n <= IntMax
  PROVE  ToInt(n) = n
  <1> DEFINE m == 2 * IntMax + 2
             x == n + IntMax + 1
  <1>1. IntMax \in Nat
    BY Ints
  <1>2. m \in Nat \ {0} /\ x \in Nat /\ x < m /\ x - IntMax - 1 = n
    BY <1>1
  <1> HIDE DEF m, x
  <1>3. x % m = x
    BY <1>2
  <1>4. ToInt(n) = (x % m) - IntMax - 1
    BY DEF ToInt, m, x
  <1> QED
    BY <1>2, <1>3, <1>4

LEMMA MulAtLeast ==
  ASSUME NEW a \in Nat, NEW d \in Nat \ {0}
  PROVE  a <= a * d
  <1>1. 1 * a <= d * a
    BY MulMono
  <1> QED
    BY <1>1

LEMMA PartsIs ==
  ASSUME NEW s \in SegNat, NonEmpty(s), s.end < IntMax
  PROVE  /\ Parts(s) = NumParts(s) /\ ToInt(GetSize(s)) = GetSize(s)
         /\ \A i \in 1 .. NumParts(s) : LeftSize(s, i) = GetSize(s) - (i - 1) * SegmentSize
  <1> DEFINE S == SegmentSize
             n == GetSize(s)
             k == NumParts(s)
             q == n \div S
             e == IF n % S = 0 THEN 0 ELSE 1
  <1>1. S \in Nat \ {0} /\ IntMax \in Nat
    BY Constants, Ints
  <1>2. n \in Nat /\ n <= IntMax
    BY <1>1 DEF SegNat, NonEmpty, GetSize
  <1>3. k \in Nat /\ k >= 1 /\ n <= k * S /\ (k - 1) * S < n
    BY PartCount
  <1>4. \A i \in 1 .. k : (i - 1) * S \in Nat /\ (i - 1) * S < n
    BY PartCount
  <1> HIDE DEF S, n, k
  <1>5. ToInt(n) = n
    BY <1>2, ToIntIs
  <1>6. k <= IntMax
    <2>1. k - 1 \in Nat /\ (k - 1) * S \in Int
      BY <1>1, <1>3
    <2>2. k - 1 <= (k - 1) * S
      BY <1>1, <2>1, MulAtLeast
    <2> QED
      BY <1>1, <1>2, <1>3, <2>1, <2>2
  <1>7. q \in Nat /\ q + e = k
    <2> DEFINE m == n % S
    <2>1. q \in Int /\ m \in Int /\ n = S * q + m /\ 0 <= m /\ m < S
      BY <1>1, <1>2
    <2>2. q \in Nat
      BY <1>1, <1>2
    <2> HIDE DEF q, m
    <2>3. /\ q * S \in Int /\ k * S \in Int /\ (k - 1) * S \in Int
          /\ (q + 1) * S = q * S + S /\ (k + 1) * S = k * S + S /\ n = q * S + m
      BY <1>1, <1>3, <2>1
    <2>4. k - 1 < q + 1
      <3>1. (k - 1) * S < (q + 1) * S
        BY <1>1, <1>2, <1>3, <2>1, <2>3
      <3> QED
        BY <1>1, <1>3, <2>1, <3>1, MulLess
    <2>5. CASE m = 0
      <3>1. (k - 1) * S < q * S /\ q * S < (k + 1) * S
        BY <1>1, <1>2, <1>3, <2>1, <2>3, <2>5
      <3>2. k - 1 < q
        BY <1>1, <1>3, <2>1, <3>1, MulLess
      <3>3. q < k + 1
        BY <1>1, <1>3, <2>1, <3>1, MulLess
      <3> QED
        BY <1>3, <2>2, <2>5, <3>2, <3>3 DEF m
    <2>6. CASE m # 0
      <3>1. q * S < k * S
        BY <1>1, <1>2, <1>3, <2>1, <2>3, <2>6
      <3>2. q < k
        BY <1>1, <1>3, <2>1, <3>1, MulLess
      <3> QED
        BY <1>3, <2>2, <2>4, <2>6, <3>2 DEF m
    <2> QED
      BY <2>5, <2>6
  <1>8. ToInt(q) = q /\ ToInt(k) = k
    <2> HIDE DEF q
    <2>1. q <= IntMax
      BY <1>1, <1>3, <1>6, <1>7
    <2>2. ToInt(q) = q
      BY <1>7, <2>1, ToIntIs
    <2>3. ToInt(k) = k
      BY <1>3, <1>6, ToIntIs
    <2> QED
      BY <2>2, <2>3
  <1>9. Parts(s) = k
    <2>1. Parts(s) = ToInt(ToInt(q) + e)
      BY DEF Parts, n, S
    <2> HIDE DEF q, e
    <2> QED
      BY <1>7, <1>8, <2>1
  <1>10. ASSUME NEW i \in 1 .. k
         PROVE  LeftSize(s, i) = n - (i - 1) * S
    <2> DEFINE d == (i - 1) * S
    <2>1. d \in Nat /\ d < n
      BY <1>4
    <2>2. LeftSize(s, i) = IF i = 1 THEN n ELSE Max({n - d, 0})
      BY <1>5 DEF LeftSize, n, S
    <2>3. i = 1 => d = 0
      BY <1>1
    <2> HIDE DEF d
    <2>4. Max({n - d, 0}) = n - d
      BY <1>2, <2>1, MaxTwo
    <2>5. LeftSize(s, i) = n - d
      BY <1>2, <2>1, <2>2, <2>3, <2>4
    <2> QED
      BY <2>5 DEF d
  <1> QED
    BY <1>5, <1>9, <1>10 DEF S, n, k

LEMMA PartFacts ==
  ASSUME NEW s \in SegNat, NonEmpty(s), s.end < IntMax, NEW g \in BOOLEAN
  PROVE  LET P == SplitInParts(s, g)
         IN  /\ DOMAIN P = 1 .. NumParts(s)
             /\ \A i \in 1 .. NumParts(s) :
                  /\ P[i] \in SegNat
                  /\ P[i].start = IF g THEN s.start ELSE s.start + (i - 1) * SegmentSize
                  /\ GetSize(P[i]) \in 1 .. SegmentSize
                  /\ GetSize(P[i]) = IF GetSize(s) - (i - 1) * SegmentSize <= SegmentSize
                                     THEN GetSize(s) - (i - 1) * SegmentSize
                                     ELSE SegmentSize
                  /\ P[i].end <= s.end
  <1> DEFINE S == SegmentSize
             P == SplitInParts(s, g)
             n == GetSize(s)
  <1>1. DOMAIN P = 1 .. NumParts(s)
    BY PartsIs DEF SplitInParts
  <1>2. ASSUME NEW i \in 1 .. NumParts(s)
        PROVE  /\ P[i] \in SegNat
               /\ P[i].start = IF g THEN s.start ELSE s.start + (i - 1) * S
               /\ GetSize(P[i]) \in 1 .. S
               /\ GetSize(P[i]) = IF n - (i - 1) * S <= S THEN n - (i - 1) * S ELSE S
               /\ P[i].end <= s.end
    <2> DEFINE done == (i - 1) * S
               first == IF g THEN s.start ELSE s.start + done
               len == Min({n - done, S})
               left == LeftSize(s, i)
               start == IF g THEN ToInt(s.start)
                        ELSE ToInt(s.start + (LeftSize(s, 1) - left))
    <2>1. P[i] = Seg(start, ToInt(start + Min({left, S}) - 1))
      BY PartsIs DEF SplitInParts
    <2>2. done \in Nat /\ done < n /\ n \in Nat /\ S \in Nat \ {0} /\ IntMax \in Nat
      BY PartCount, Constants, Ints
    <2>3. s.start \in Nat /\ s.end \in Nat /\ n = s.end - s.start + 1
      BY DEF SegNat, GetSize
    <2>10. left = n - done /\ LeftSize(s, 1) = n
      <3>1. left = n - done
        BY PartsIs
      <3>2. 1 \in 1 .. NumParts(s)
        BY PartCount
      <3>3. LeftSize(s, 1) = n - (1 - 1) * S
        BY <3>2, PartsIs
      <3> QED
        BY <2>2, <3>1, <3>3
    <2> HIDE DEF n, S, done, left
    <2>4. len = (IF n - done <= S THEN n - done ELSE S)
      BY <2>2, MinTwo
    <2>5. len \in Nat /\ len >= 1 /\ len <= S /\ len <= n - done
      BY <2>2, <2>4
    <2>6. first \in Nat /\ first + len - 1 \in Nat /\ first + len - 1 <= s.end
          /\ first + len - 1 - first + 1 = len
      BY <2>2, <2>3, <2>5
    <2>11. start = first
      <3>1. s.start <= IntMax /\ s.start + done <= IntMax /\ s.start + done \in Nat
        BY <2>2, <2>3
      <3>2. ToInt(s.start) = s.start
        BY <2>3, <3>1, ToIntIs
      <3>3. ToInt(s.start + done) = s.start + done
        BY <3>1, ToIntIs
      <3>4. LeftSize(s, 1) - left = done
        BY <2>2, <2>10
      <3> QED
        BY <3>2, <3>3, <3>4
    <2> HIDE DEF first, len, start
    <2>12. P[i] = Seg(first, first + len - 1)
      <3>1. Min({left, S}) = len
        BY <2>10 DEF len
      <3>2. first + len - 1 <= IntMax /\ 0 <= first + len - 1 + 1
        BY <2>2, <2>3, <2>6
      <3>3. ToInt(first + len - 1) = first + len - 1
        BY <2>6, <3>2, ToIntIs
      <3> QED
        BY <2>1, <2>11, <3>1, <3>3
    <2>7. P[i].start = first /\ P[i].end = first + len - 1 /\ P[i] \in SegNat
      BY <2>6, <2>12 DEF Seg, SegNat
    <2>8. GetSize(P[i]) = len
      BY <2>5, <2>6, <2>7 DEF GetSize
    <2>9. GetSize(P[i]) \in 1 .. S
      BY <2>2, <2>5, <2>8
    <2> QED
      BY <2>4, <2>6, <2>7, <2>8, <2>9 DEF first, done
  <1> QED
    BY <1>1, <1>2

(* The parts of a source follow each other and reach its end. *)
LEMMA PartsFollow ==
  ASSUME NEW s \in SegNat, NonEmpty(s), s.end < IntMax
  PROVE  LET P == SplitInParts(s, FALSE)
         IN  /\ P[1].start = s.start
             /\ \A i \in 1 .. NumParts(s) : i # 1 => P[i].start = P[i - 1].end + 1
             /\ P[NumParts(s)].end = s.end
  <1> DEFINE S == SegmentSize
             P == SplitInParts(s, FALSE)
             n == GetSize(s)
             k == NumParts(s)
  <1>1. /\ k \in Nat /\ k >= 1 /\ n \in Nat /\ n <= k * S /\ S \in Nat \ {0}
        /\ (k - 1) * S < n /\ k * S \in Nat
    BY PartCount, Constants
  <1>2. ASSUME NEW i \in 1 .. k
        PROVE  /\ P[i] \in SegNat /\ P[i].start = s.start + (i - 1) * S
               /\ GetSize(P[i]) = IF n - (i - 1) * S <= S THEN n - (i - 1) * S ELSE S
               /\ (i - 1) * S \in Nat
               /\ i # k => i * S < n
    BY PartFacts, PartCount
  <1>3. s.start \in Nat /\ s.end \in Nat /\ n = s.end - s.start + 1
    BY DEF SegNat, GetSize
  <1> HIDE DEF S, P, n, k
  <1>4. ASSUME NEW i \in 1 .. k
        PROVE  P[i].end = s.start + (i - 1) * S
                            + (IF n - (i - 1) * S <= S THEN n - (i - 1) * S ELSE S) - 1
    <2>1. GetSize(P[i]) = P[i].end - P[i].start + 1 /\ P[i].start \in Nat /\ P[i].end \in Nat
      BY <1>2 DEF GetSize, SegNat
    <2> DEFINE len == IF n - (i - 1) * S <= S THEN n - (i - 1) * S ELSE S
    <2>2. P[i].start = s.start + (i - 1) * S /\ GetSize(P[i]) = len /\ (i - 1) * S \in Nat
      BY <1>2
    <2>3. len \in Int
      BY <1>1, <2>2
    <2> HIDE DEF len
    <2>4. P[i].end = s.start + (i - 1) * S + len - 1
      BY <1>3, <2>1, <2>2, <2>3
    <2> QED
      BY <2>4 DEF len
  <1>5. P[1].start = s.start
    <2>1. 1 \in 1 .. k /\ (1 - 1) * S = 0
      BY <1>1
    <2> QED
      BY <1>2, <1>3, <2>1
  <1>6. ASSUME NEW i \in 1 .. k, i # 1 PROVE P[i].start = P[i - 1].end + 1
    <2>1. i - 1 \in 1 .. k /\ i - 1 # k /\ (i - 1 - 1) * S = (i - 1) * S - S
      BY <1>1, <1>6
    <2>2. (i - 1) * S < n /\ (i - 1) * S \in Nat /\ (i - 1 - 1) * S \in Nat
      BY <1>2, <2>1
    <2>3. ~(n - (i - 1 - 1) * S <= S)
      BY <1>1, <2>1, <2>2
    <2>4. P[i - 1].end = s.start + (i - 1 - 1) * S + S - 1
      BY <1>4, <2>1, <2>3
    <2>5. P[i].start = s.start + (i - 1) * S
      BY <1>2
    <2> QED
      BY <1>1, <1>3, <2>1, <2>2, <2>4, <2>5
  <1>7. P[k].end = s.end
    <2>1. k \in 1 .. k /\ (k - 1) * S = k * S - S
      BY <1>1
    <2>2. n - (k - 1) * S <= S /\ (k - 1) * S \in Nat
      BY <1>1, <1>2, <2>1
    <2>3. P[k].end = s.start + (k - 1) * S + (n - (k - 1) * S) - 1
      BY <1>4, <2>1, <2>2
    <2> QED
      BY <1>1, <1>3, <2>2, <2>3
  <1> QED
    BY <1>5, <1>6, <1>7 DEF P, k

----------------------------------------------------------------------------
(* What PlaceDataInLayer plans. *)

(* The data that it is called for. *)
Movable(file) ==
    /\ file \in Place /\ NonEmpty(file.seg) /\ Known(file) /\ file.seg.end < IntMax
    /\ file.layer # Last => GetSize(file.seg) <= SegmentSize

(* The sources of the moves P read the data from its beginning to its end,  *)
(* without a gap, in pieces as long as their destinations.                  *)
ReadsAll(P, s) ==
    /\ P[1].source.seg.start = s.start
    /\ P[Len(P)].source.seg.end = s.end
    /\ \A i \in 1 .. Len(P) :
         /\ i # 1 => P[i].source.seg.start = P[i - 1].source.seg.end + 1
         /\ P[i].source.seg.end <= s.end
         /\ GetSize(P[i].source.seg) = GetSize(P[i].destination.seg)

LEMMA PlaceFacts ==
  ASSUME NEW file, Movable(file), NEW l \in 1 .. Last, l < file.layer,
         NEW index \in Nat, index <= file.seg.start
  PROVE  LET P == PlaceDataInLayer(file, l, index)
         IN  /\ P \in Seq(Moves) /\ Len(P) \in Nat /\ Len(P) >= 1
             /\ \A i \in 1 .. Len(P) : MoveOK(P[i]) /\ P[i].destination.layer = l
             /\ index = file.seg.start => ReadsAll(P, file.seg)
  <1> DEFINE gen  == file.layer = Last
             a    == Seg(index, file.seg.end)
             b    == Seg(0, GetSize(file.seg) - 1)
             from == SplitInParts(a, FALSE)
             to   == SplitInParts(b, gen)
             P    == PlaceDataInLayer(file, l, index)
             S    == SegmentSize
  <1>1. /\ file.name \in 0 .. Fresh /\ file.layer \in 1 .. Last
        /\ file.seg.start \in Nat /\ file.seg.end \in Nat /\ file.seg.start <= file.seg.end
        /\ S \in Nat \ {0} /\ Fresh \in 0 .. Fresh /\ Last \in Nat
    BY Constants DEF Movable, Place, NonEmpty, Fresh
  <1>2. /\ a \in SegNat /\ NonEmpty(a) /\ b \in SegNat /\ NonEmpty(b)
        /\ GetSize(a) = file.seg.end - index + 1 /\ GetSize(b) = GetSize(file.seg)
        /\ GetSize(file.seg) = file.seg.end - file.seg.start + 1
        /\ a.start = index /\ a.end = file.seg.end /\ b.start = 0
        /\ a.end < IntMax /\ b.end < IntMax
    <2>1. file.seg.end < IntMax /\ IntMax \in Nat
      BY Ints DEF Movable
    <2> QED
      BY <1>1, <2>1 DEF Seg, SegNat, NonEmpty, GetSize
  <1> HIDE DEF a, b
  <1>3. /\ DOMAIN from = 1 .. NumParts(a)
        /\ \A i \in 1 .. NumParts(a) :
              /\ from[i] \in SegNat /\ GetSize(from[i]) \in 1 .. S /\ from[i].end <= a.end
              /\ GetSize(from[i]) = IF GetSize(a) - (i - 1) * S <= S
                                    THEN GetSize(a) - (i - 1) * S ELSE S
    BY <1>2, PartFacts
  <1>4. /\ DOMAIN to = 1 .. NumParts(b)
        /\ \A i \in 1 .. NumParts(b) :
              /\ to[i] \in SegNat /\ GetSize(to[i]) \in 1 .. S
              /\ to[i].start = IF gen THEN b.start ELSE b.start + (i - 1) * S
              /\ GetSize(to[i]) = IF GetSize(b) - (i - 1) * S <= S
                                  THEN GetSize(b) - (i - 1) * S ELSE S
    <2>1. gen \in BOOLEAN
      OBVIOUS
    <2> HIDE DEF gen
    <2> QED
      BY <1>2, <2>1, PartFacts
  <1>5. /\ NumParts(a) \in Nat /\ NumParts(b) \in Nat /\ NumParts(b) >= 1
        /\ (NumParts(b) - 1) * S < GetSize(b) /\ GetSize(a) <= NumParts(a) * S
        /\ GetSize(b) \in Nat /\ GetSize(a) \in Nat /\ NumParts(a) * S \in Nat
    BY <1>2, PartCount
  <1> HIDE DEF from, to, S
  <1>6. NumParts(b) <= NumParts(a)
    <2>1. (NumParts(b) - 1) * S \in Int /\ GetSize(b) <= GetSize(a)
      BY <1>1, <1>2, <1>5
    <2>2. (NumParts(b) - 1) * S < NumParts(a) * S
      BY <1>5, <2>1
    <2>3. NumParts(b) - 1 < NumParts(a)
      BY <1>1, <1>5, <2>2, MulLess
    <2> QED
      BY <1>5, <2>3
  <1>7. ~gen => NumParts(b) = 1
    <2> SUFFICES ASSUME ~gen PROVE NumParts(b) = 1
      OBVIOUS
    <2>1. GetSize(b) <= S
      BY <1>2 DEF Movable, S
    <2>2. (NumParts(b) - 1) * S \in Int /\ 1 * S = S
      BY <1>1, <1>5
    <2>3. (NumParts(b) - 1) * S < 1 * S
      BY <1>1, <1>5, <2>1, <2>2
    <2>4. NumParts(b) - 1 < 1
      BY <1>1, <1>5, <2>3, MulLess
    <2> QED
      BY <1>5, <2>4
  <1>8. ASSUME NEW i \in 1 .. NumParts(b) PROVE to[i].start = 0
    <2>1. CASE gen
      BY <1>2, <1>4, <2>1
    <2>2. CASE ~gen
      <3>1. i = 1 /\ (i - 1) * S = 0
        BY <1>1, <1>7, <2>2
      <3> QED
        BY <1>2, <1>4, <2>2, <3>1
    <2> QED
      BY <2>1, <2>2
  <1> DEFINE M(i) == [source |-> Piece(file.name, file.layer, from[i]),
                      destination |-> Piece(IF gen THEN Fresh ELSE file.name, l, to[i])]
  <1>9. P = [i \in 1 .. NumParts(b) |-> M(i)]
    <2>1. P = [i \in DOMAIN to |-> M(i)]
      BY DEF PlaceDataInLayer, a, b, from, to
    <2> QED
      BY <1>4, <2>1
  <1>10. ASSUME NEW i \in 1 .. NumParts(b)
         PROVE  /\ M(i) \in Moves /\ MoveOK(M(i)) /\ M(i).destination.layer = l
                /\ M(i).source.seg = from[i] /\ M(i).destination.seg = to[i]
    <2>1. i \in 1 .. NumParts(a)
      BY <1>5, <1>6
    <2>2. /\ from[i] \in SegNat /\ GetSize(from[i]) \in 1 .. S
          /\ to[i] \in SegNat /\ GetSize(to[i]) \in 1 .. S /\ to[i].start = 0
      BY <1>3, <1>4, <1>8, <2>1
    <2>3. /\ M(i).source.name = file.name /\ M(i).source.layer = file.layer
          /\ M(i).source.seg = from[i]
          /\ M(i).destination.name = (IF gen THEN Fresh ELSE file.name)
          /\ M(i).destination.layer = l /\ M(i).destination.seg = to[i]
      BY DEF Piece
    <2>4. M(i) \in Moves
      <3>1. Piece(file.name, file.layer, from[i]) \in Place
        BY <1>1, <2>2 DEF Piece, Place, SegNat
      <3>2. Piece(IF gen THEN Fresh ELSE file.name, l, to[i]) \in Place
        BY <1>1, <2>2 DEF Piece, Place, SegNat
      <3> QED
        BY <3>1, <3>2 DEF Moves
    <2>5. Known(M(i).source)
      BY <2>3 DEF Known, Movable
    <2> HIDE DEF M
    <2>6. MoveOK(M(i))
      BY <2>2, <2>3, <2>4, <2>5 DEF MoveOK, S
    <2> QED
      BY <2>3, <2>4, <2>6
  <1> HIDE DEF P, M
  <1>11. P \in Seq(Moves) /\ Len(P) = NumParts(b) /\ \A i \in 1 .. Len(P) : P[i] = M(i)
    BY <1>5, <1>9, <1>10
  <1>12. ASSUME index = file.seg.start
         PROVE  ReadsAll(P, file.seg)
    <2>1. GetSize(a) = GetSize(b) /\ NumParts(a) = NumParts(b)
      BY <1>2, <1>12 DEF NumParts
    <2>2. /\ from[1].start = a.start
          /\ \A i \in 1 .. NumParts(a) : i # 1 => from[i].start = from[i - 1].end + 1
          /\ from[NumParts(a)].end = a.end
      BY <1>2, PartsFollow DEF from
    <2>3. \A i \in 1 .. NumParts(b) : P[i].source.seg = from[i] /\ P[i].destination.seg = to[i]
      BY <1>10, <1>11
    <2>4. 1 \in 1 .. NumParts(b) /\ NumParts(b) \in 1 .. NumParts(b)
          /\ \A i \in 1 .. NumParts(b) : i # 1 => i - 1 \in 1 .. NumParts(b)
      BY <1>5
    <2>5. \A i \in 1 .. NumParts(b) : GetSize(from[i]) = GetSize(to[i])
      BY <1>3, <1>4, <2>1
    <2> QED
      BY <1>2, <1>3, <1>11, <1>12, <2>1, <2>2, <2>3, <2>4, <2>5 DEF ReadsAll
  <1> QED
    BY <1>5, <1>10, <1>11, <1>12 DEF P

----------------------------------------------------------------------------
(* What a layer holds. *)

LEMMA FilesAre == Files \subseteq Buffered /\ \A l \in Buffered : l \in Memory <=> l \notin Files
  BY Constants DEF Files

LEMMA TakesNat ==
  ASSUME NEW l, NEW n \in Nat \cup {None}
  PROVE  Takes(l, n) \in Nat
  <1>1. ASSUME n \in Nat PROVE Du(n) \in Nat
    BY <1>1, Ceiling, Constants DEF Du
  <1> QED
    BY <1>1 DEF Takes

LEMMA UsageNat ==
  ASSUME TypeOK, NEW l \in Buffered
  PROVE  Usage(l) \in Nat
  <1> DEFINE f == [n \in Names |-> Takes(l, bytes[l][n])]
  <1>1. \A n \in Names : bytes[l][n] \in Nat \cup {None}
    BY DEF TypeOK
  <1>2. \A n \in DOMAIN f : f[n] \in Nat
    BY <1>1, TakesNat
  <1>3. IsFiniteSet(DOMAIN f)
    BY FS_Interval, Constants DEF Names
  <1> HIDE DEF f
  <1>4. Sum(f) \in Nat
    BY <1>2, <1>3, SumNat
  <1> QED
    BY <1>4 DEF Usage, f

LEMMA CurrentNat ==
  ASSUME TypeOK, NEW l \in Buffered
  PROVE  GetCurrentUsage(l) \in Nat /\ Remaining(l) \in Nat
  <1>1. Usage(l) \in Nat
    BY UsageNat
  <1>2. GetCurrentUsage(l) \in Nat
    BY <1>1 DEF GetCurrentUsage, Cached, TypeOK
  <1>3. Capacity[l] \in Nat
    BY Constants
  <1> QED
    BY <1>2, <1>3 DEF Remaining

LEMMA CurrentExact ==
  ASSUME TypeOK, CacheExact, NEW l \in Buffered
  PROVE  GetCurrentUsage(l) = Usage(l)
  BY DEF GetCurrentUsage, CacheExact, Cached

(* The usage of a layer is a function of its buffers. *)
LEMMA UsageSame ==
  ASSUME NEW l, bytes'[l] = bytes[l]
  PROVE  Usage(l)' = Usage(l)
  <1> DEFINE f == [n \in Names |-> Takes(l, bytes[l][n])]
             g == [n \in Names |-> Takes(l, bytes'[l][n])]
  <1>1. g = f
    OBVIOUS
  <1>2. Usage(l) = Sum(f) /\ Usage(l)' = Sum(g)
    BY DEF Usage, Takes
  <1> QED
    BY <1>1, <1>2

----------------------------------------------------------------------------
(* The type invariant and the invariants of the plan. *)

LEMMA ConcatAt ==
  ASSUME NEW S, NEW s \in Seq(S), NEW t \in Seq(S)
  PROVE  /\ s \o t \in Seq(S) /\ Len(s \o t) = Len(s) + Len(t)
         /\ Len(s) \in Nat /\ Len(t) \in Nat
         /\ \A i \in 1 .. Len(s) : i \in 1 .. Len(s \o t) /\ (s \o t)[i] = s[i]
         /\ \A i \in 1 .. Len(t) :
               i + Len(s) \in 1 .. Len(s \o t) /\ (s \o t)[i + Len(s)] = t[i]
         /\ \A i \in 1 .. Len(s \o t) :
               \/ i \in 1 .. Len(s)
               \/ i - Len(s) \in 1 .. Len(t) /\ (s \o t)[i] = t[i - Len(s)]
  OBVIOUS

LEMMA MeasuredType ==
  ASSUME TypeOK, NEW l \in 1 .. Last, Measured(l)
  PROVE  /\ layerCapacity' \in [Files -> Nat \cup {None}]
         /\ hasChanged' \in [Files -> BOOLEAN]
  <1>1. \A k \in Files : GetCurrentUsage(k) \in Nat
    BY FilesAre, CurrentNat
  <1>2. layerCapacity \in [Files -> Nat \cup {None}]
    BY DEF TypeOK
  <1>3. layerCapacity' \in [Files -> Nat \cup {None}]
    BY <1>1, <1>2 DEF Measured
  <1>4. hasChanged' = [k \in Files |-> hasChanged[k] /\ k # l]
    BY DEF Measured
  <1>5. hasChanged' \in [Files -> BOOLEAN]
    BY <1>4, Zenon
  <1> QED
    BY <1>3, <1>5

(* What is left of the data when solve is called for the next layer. *)
LEMMA HereFacts ==
  ASSUME PlaceInv, frame # None
  PROVE  /\ Movable(Here) /\ Here.layer = planned.file.layer /\ Here.name = planned.file.name
         /\ Here.seg.start = frame.start /\ Here.seg.end = planned.file.seg.end
         /\ frame.layer \in 1 .. Last /\ frame.start \in Nat
         /\ frame.original_index \in Nat /\ frame.original_index <= Here.seg.start
         /\ Here.seg \in SegNat /\ Here.seg.start <= Here.seg.end
         /\ GetSize(Here.seg) = Here.seg.end - Here.seg.start + 1
  <1> DEFINE f == planned.file
             h == Here
  <1>1. /\ frame \in [layer : 1 .. Last, size : Nat, start : Nat, original_index : Nat]
        /\ f.seg.start <= frame.start /\ frame.start <= f.seg.end
        /\ frame.original_index <= frame.start /\ Planning
    BY DEF PlaceInv, FrameInv, Planning
  <1>2. /\ f \in Place /\ NonEmpty(f.seg) /\ Known(f) /\ f.seg.end < IntMax
        /\ f.layer # Last => GetSize(f.seg) <= SegmentSize
    BY <1>1 DEF PlaceInv, PlannedInv
  <1>3. f.seg.start \in Nat /\ f.seg.end \in Nat /\ frame.start \in Nat
    BY <1>1, <1>2 DEF Place
  <1>4. h = [f EXCEPT !.seg.start = frame.start]
    BY DEF Here
  <1>5. /\ h \in Place /\ h.layer = f.layer /\ h.name = f.name
        /\ h.seg.start = frame.start /\ h.seg.end = f.seg.end
    BY <1>2, <1>3, <1>4 DEF Place
  <1> HIDE DEF f, h
  <1>6. Known(h)
    BY <1>2, <1>5 DEF Known
  <1>7. /\ GetSize(h.seg) = h.seg.end - h.seg.start + 1
        /\ GetSize(h.seg) <= GetSize(f.seg) /\ GetSize(h.seg) \in Int /\ GetSize(f.seg) \in Int
    BY <1>1, <1>3, <1>5 DEF GetSize
  <1>8. h.layer # Last => GetSize(h.seg) <= SegmentSize
    BY <1>2, <1>5, <1>7, Constants
  <1>9. NonEmpty(h.seg) /\ h.seg \in SegNat
    BY <1>1, <1>5 DEF NonEmpty, SegNat, Place
  <1>10. h.seg.end < IntMax
    BY <1>2, <1>5
  <1> QED
    BY <1>1, <1>5, <1>6, <1>7, <1>8, <1>9, <1>10 DEF Movable, f, h, NonEmpty

LEMMA GoesUp ==
  ASSUME PlaceInv, frame # None, ~Stops(planned.file, frame.layer)
  PROVE  frame.layer \in Buffered /\ frame.layer < planned.file.layer
  <1>1. /\ frame.layer \in 1 .. Last /\ frame.layer <= planned.file.layer
        /\ planned.file.layer \in 1 .. Last
    BY DEF PlaceInv, FrameInv, PlannedInv, Place, Planning
  <1> QED
    BY <1>1, Constants DEF Stops, Buffered

(* New moves keep the invariants of the plan and of what is to be done. *)
LEMMA PlacesKeeps ==
  ASSUME PlaceInv, frame # None, ~Stops(planned.file, frame.layer),
         NEW file, Movable(file), file.layer = planned.file.layer,
         frame.original_index <= file.seg.start,
         Places(PlaceDataInLayer(file, frame.layer, frame.original_index)),
         UNCHANGED located
  PROVE  /\ TodoInv' /\ PlannedInv' /\ planned'.file = planned.file
         /\ planned'.moves =
              planned.moves \o PlaceDataInLayer(file, frame.layer, frame.original_index)
  <1> DEFINE P == PlaceDataInLayer(file, frame.layer, frame.original_index)
  <1>1. frame.layer \in 1 .. Last /\ frame.layer < file.layer /\ frame.original_index \in Nat
    BY GoesUp, HereFacts
  <1>2. /\ P \in Seq(Moves) /\ Len(P) \in Nat
        /\ \A i \in 1 .. Len(P) : MoveOK(P[i]) /\ P[i].destination.layer = frame.layer
    BY <1>1, PlaceFacts
  <1>3. /\ planned' = [planned EXCEPT !.moves = planned.moves \o P]
        /\ todo' = todo \o P
    BY DEF Places
  <1> HIDE DEF P
  <1>4. \A m : Known(m.source)' <=> Known(m.source)
    BY DEF Known
  <1>5. \A m : MoveOK(m)' <=> MoveOK(m)
    BY <1>4 DEF MoveOK
  <1>6. TodoInv'
    <2>1. todo \in Seq(Moves) /\ \A j \in 1 .. Len(todo) : MoveOK(todo[j])
      BY DEF PlaceInv, TodoInv
    <2>2. /\ todo' \in Seq(Moves)
          /\ \A i \in 1 .. Len(todo) : todo'[i] = todo[i]
          /\ \A i \in 1 .. Len(todo') : \/ i \in 1 .. Len(todo)
                                        \/ /\ i - Len(todo) \in 1 .. Len(P)
                                           /\ todo'[i] = P[i - Len(todo)]
      BY <1>2, <1>3, <2>1, ConcatAt
    <2>3. \A j \in 1 .. Len(todo') : MoveOK(todo'[j])
      BY <1>2, <2>1, <2>2
    <2> QED
      BY <1>5, <2>2, <2>3 DEF TodoInv
  <1>7. /\ planned.file \in Place /\ NonEmpty(planned.file.seg)
        /\ Known(planned.file) /\ planned.moves \in Seq(Moves)
        /\ planned.file.seg.end < IntMax
        /\ planned.file.layer # Last => GetSize(planned.file.seg) <= SegmentSize
        /\ planned = [file |-> planned.file, moves |-> planned.moves]
        /\ \A j \in 1 .. Len(planned.moves) :
              planned.moves[j].destination.layer < planned.file.layer
    BY DEF PlaceInv, PlannedInv, Planning
  <1>8. /\ planned'.file = planned.file /\ planned'.moves = planned.moves \o P
        /\ planned' = [file |-> planned'.file, moves |-> planned'.moves]
    BY <1>3, <1>7
  <1>9. /\ planned'.moves \in Seq(Moves)
        /\ \A j \in 1 .. Len(planned'.moves) :
              planned'.moves[j].destination.layer < planned'.file.layer
    <2> DEFINE s == planned.moves
               t == planned'.moves
    <2>1. /\ t \in Seq(Moves) /\ \A i \in 1 .. Len(s) : t[i] = s[i]
          /\ \A i \in 1 .. Len(t) : \/ i \in 1 .. Len(s)
                                    \/ i - Len(s) \in 1 .. Len(P) /\ t[i] = P[i - Len(s)]
      BY <1>2, <1>7, <1>8, ConcatAt
    <2> HIDE DEF s, t
    <2>2. \A j \in 1 .. Len(t) : t[j].destination.layer < planned.file.layer
      BY <1>1, <1>2, <1>7, <2>1 DEF s
    <2> QED
      BY <1>8, <2>1, <2>2 DEF t
  <1>10. Known(planned.file)'
    BY <1>7, <1>8 DEF Known
  <1>11. PlannedInv'
    BY <1>7, <1>8, <1>9, <1>10 DEF PlannedInv
  <1> QED
    BY <1>6, <1>8, <1>11 DEF P

(* The segments of a heat map: of a file, or of a buffer. *)
LEMMA HeatFacts ==
  ASSUME TypeOK, NEW h \in HeatMap
  PROVE  Movable(h[2]) /\ h[1] \in Nat
  <1>1. PICK file \in InFile \cup InBuffer : h \in {<<k, file>> : k \in 1 .. GetSize(file.seg)}
    BY DEF HeatMap
  <1>2. PICK k \in 1 .. GetSize(file.seg) : h = <<k, file>>
    BY <1>1
  <1>3. h[1] = k /\ h[2] = file
    BY <1>2
  <1>4. ASSUME file \in InFile PROVE Movable(file)
    <2>1. PICK end \in 0 .. MaxEnd : file = Piece(Original, Last, Seg(0, end))
      BY <1>4 DEF InFile
    <2>2. /\ file.name = 0 /\ file.layer = Last /\ file.seg.start = 0 /\ file.seg.end = end
          /\ file = [name |-> 0, layer |-> Last, seg |-> [start |-> 0, end |-> end]]
      BY <2>1 DEF Piece, Original, Seg
    <2>3. end \in Nat /\ end < IntMax
      BY Constants, Ints
    <2>4. file \in Place
      BY <2>2, <2>3, Constants DEF Place, Fresh
    <2> QED
      BY <2>2, <2>3, <2>4 DEF Movable, Known, Original, NonEmpty
  <1>5. ASSUME file \in InBuffer PROVE Movable(file)
    <2>1. PICK n \in Names :
             /\ located[n] # None
             /\ file \in {Piece(n, located[n].layer, s) : s \in Within(located[n].size - 1)}
      BY <1>5 DEF InBuffer
    <2>2. PICK s \in Within(located[n].size - 1) : file = Piece(n, located[n].layer, s)
      BY <2>1
    <2> DEFINE l == located[n].layer
               z == located[n].size
    <2>3. l \in Buffered /\ z \in 1 .. SegmentSize
      BY <2>1 DEF TypeOK
    <2>4. /\ file.name = n /\ file.layer = l /\ file.seg = s
          /\ file = [name |-> n, layer |-> l, seg |-> s]
      BY <2>2 DEF Piece
    <2>5. s \in [start : 0 .. (z - 1), end : 0 .. (z - 1)] /\ NonEmpty(s)
      BY <2>2 DEF Within
    <2> HIDE DEF l, z
    <2>6. /\ s.start \in Nat /\ s.end \in Nat /\ s.end <= z - 1
          /\ s \in [start : Nat, end : Nat] /\ z <= SegmentSize /\ z \in Nat
      BY <2>3, <2>5, Constants
    <2>7. GetSize(s) <= SegmentSize /\ s.end < IntMax
      BY <2>6, Constants, Ints DEF GetSize
    <2>8. file \in Place
      <3>1. n \in 0 .. Fresh /\ l \in 1 .. Last
        BY <2>3, Constants DEF Names, Fresh, Buffered
      <3> QED
        BY <2>4, <2>6, <3>1 DEF Place
    <2>9. Known(file)
      <3>1. l # Last
        BY <2>3, Constants DEF Buffered
      <3> QED
        BY <2>1, <2>4, <3>1 DEF Known, l
    <2> QED
      BY <2>4, <2>5, <2>7, <2>8, <2>9 DEF Movable
  <1>6. Movable(file)
    BY <1>4, <1>5
  <1>7. GetSize(file.seg) \in Int
    BY <1>6 DEF Movable, Place, GetSize
  <1> QED
    BY <1>3, <1>6, <1>7

LEMMA PlaceSegmentKeeps ==
  ASSUME PlaceInv, PlaceSegment
  PROVE  PlaceInv'
  <1>1. PICK h \in HeatMap :
          /\ planned' = [file |-> h[2], moves |-> <<>>]
          /\ frame' = [layer |-> 1, size |-> h[1], start |-> h[2].seg.start,
                       original_index |-> 0]
    BY DEF PlaceSegment
  <1>2. TypeOK
    BY DEF PlaceInv
  <1>3. /\ h[2] \in Place /\ NonEmpty(h[2].seg) /\ Known(h[2]) /\ h[1] \in Nat
        /\ h[2].seg.end < IntMax
        /\ h[2].layer # Last => GetSize(h[2].seg) <= SegmentSize
    BY <1>2, HeatFacts DEF Movable
  <1>4. UNCHANGED <<bytes, names, layerCapacity, hasChanged, located, phase, events,
                    todo>> /\ phase = "place"
    BY DEF PlaceSegment
  <1>5. TypeOK' /\ EventInv' /\ LocatedInv'
    <2>1. solved' \in 0 .. MaxSegments /\ events < MaxEvents
      BY <1>2, Constants DEF PlaceSegment, TypeOK
    <2> QED
      BY <1>2, <1>4, <2>1 DEF TypeOK, LocatedInv, PlaceInv, EventInv
  <1>6. TodoInv'
    <2>1. TodoInv
      BY DEF PlaceInv
    <2>2. \A m : MoveOK(m)' <=> MoveOK(m)
      BY <1>4 DEF MoveOK, Known
    <2> QED
      BY <1>4, <2>1, <2>2 DEF TodoInv
  <1>7. /\ planned'.file = h[2] /\ planned'.moves = <<>> /\ frame'.layer = 1
        /\ frame'.size = h[1] /\ frame'.start = h[2].seg.start /\ frame'.original_index = 0
    BY <1>1
  <1>8. Known(planned.file)'
    BY <1>3, <1>4, <1>7 DEF Known
  <1>9. PlannedInv'
    <2>1. /\ planned' = [file |-> planned'.file, moves |-> planned'.moves]
          /\ planned'.moves \in Seq(Moves) /\ Len(planned'.moves) = 0
      BY <1>1, <1>7
    <2> QED
      BY <1>3, <1>7, <1>8, <2>1 DEF PlannedInv
  <1>10. FrameInv'
    <2>1. /\ h[2].seg.start \in Nat /\ h[2].seg.end \in Nat /\ h[2].layer \in 1 .. Last
          /\ h[2].seg.start <= h[2].seg.end
      BY <1>3 DEF Place, NonEmpty
    <2>2. frame' \in [layer : 1 .. Last, size : Nat, start : Nat, original_index : Nat]
      BY <1>1, <1>3, <2>1, Constants
    <2> QED
      BY <1>4, <1>7, <2>1, <2>2 DEF FrameInv
  <1> QED
    BY <1>5, <1>6, <1>9, <1>10 DEF PlaceInv

(* A call of solve plans nothing, and goes on with the next layer or not;   *)
(* or it plans the moves of a first piece of the data, and goes on with the *)
(* rest if there is one.                                                    *)
LEMMA SolveCases ==
  ASSUME PlaceInv, SolveLayer
  PROVE  \/ /\ UNCHANGED <<planned, todo>>
            /\ \/ frame' = None
               \/ /\ ~Stops(planned.file, frame.layer)
                  /\ frame' = [frame EXCEPT !.layer = frame.layer + 1]
         \/ \E file :
              /\ ~Stops(planned.file, frame.layer)
              /\ Movable(file) /\ file.layer = planned.file.layer
              /\ file.seg.start = frame.start
              /\ Places(PlaceDataInLayer(file, frame.layer, frame.original_index))
              /\ file.seg.end \in Nat /\ file.seg.end <= planned.file.seg.end
              /\ \/ frame' = None
                 \/ /\ file.seg.end < planned.file.seg.end
                    /\ \E n \in Nat :
                         frame' = [layer |-> frame.layer + 1, size |-> n,
                                   start |-> file.seg.end + 1,
                                   original_index |-> file.seg.end + 1]
  <1>1. frame # None
    BY DEF SolveLayer
  <1> DEFINE h == Here
  <1>2. /\ Movable(h) /\ h.layer = planned.file.layer /\ h.name = planned.file.name
        /\ h.seg.start = frame.start /\ h.seg.end = planned.file.seg.end
        /\ h.seg \in SegNat /\ h.seg.start <= h.seg.end
        /\ GetSize(h.seg) = h.seg.end - h.seg.start + 1
        /\ frame.layer \in 1 .. Last /\ h.seg.end \in Nat /\ h.seg.start \in Nat
    <2>1. Here.seg.end \in Nat /\ Here.seg.start \in Nat
      BY <1>1, HereFacts DEF SegNat
    <2> QED
      BY <1>1, <2>1, HereFacts
  <1>3. CASE SolveStops
    BY <1>3 DEF SolveStops
  <1>4. CASE SolveFits
    <2>1. /\ ~Stops(planned.file, frame.layer) /\ frame' = None
          /\ Places(PlaceDataInLayer(h, frame.layer, frame.original_index))
      BY <1>4 DEF SolveFits
    <2> HIDE DEF h
    <2> QED
      BY <1>2, <2>1
  <1>5. CASE \E counted \in Counted : SolvePushesOut(Remaining(frame.layer) + counted)
    <2>1. PICK counted \in Counted : SolvePushesOut(Remaining(frame.layer) + counted)
      BY <1>5
    <2> DEFINE space == Remaining(frame.layer) + counted
    <2>2. ~Stops(planned.file, frame.layer)
      BY <2>1 DEF SolvePushesOut
    <2>3. space \in Int
      <3>1. frame.layer \in Buffered /\ TypeOK
        BY <1>1, <2>2, GoesUp DEF PlaceInv
      <3> QED
        BY <3>1, CurrentNat, Constants
    <2> HIDE DEF space
    <2>4. CASE space <= 0 /\ frame' = None /\ UNCHANGED <<planned, todo>>
      BY <2>4
    <2>5. CASE /\ Places(PlaceDataInLayer(h, frame.layer, frame.original_index))
               /\ frame' = None
      <3> HIDE DEF h
      <3> QED
        BY <1>2, <2>2, <2>5
    <2>6. CASE /\ space > 0 /\ space < GetSize(h.seg)
               /\ LET pieces == Split(h.seg, space)
                  IN  /\ Places(PlaceDataInLayer([h EXCEPT !.seg = pieces[1]],
                                                 frame.layer, frame.original_index))
                      /\ frame' = [layer |-> frame.layer + 1, size |-> GetSize(pieces[2]),
                                   start |-> pieces[2].start,
                                   original_index |-> pieces[1].end + 1]
      <3> DEFINE p == Split(h.seg, space)[1]
                 q == Split(h.seg, space)[2]
                 file == [h EXCEPT !.seg = p]
      <3>1. /\ p = Seg(h.seg.start, h.seg.start + space - 1)
            /\ q = Seg(h.seg.start + space, h.seg.end)
        BY DEF Split
      <3>2. /\ p.start = h.seg.start /\ p.end = h.seg.start + space - 1
            /\ q.start = h.seg.start + space /\ q.end = h.seg.end
            /\ p = [start |-> p.start, end |-> p.end]
        BY <3>1 DEF Seg
      <3>3. /\ Places(PlaceDataInLayer(file, frame.layer, frame.original_index))
            /\ frame' = [layer |-> frame.layer + 1, size |-> GetSize(q),
                         start |-> q.start, original_index |-> p.end + 1]
        BY <2>6
      <3> HIDE DEF p, q, h
      <3>4. /\ p.start \in Nat /\ p.end \in Nat /\ p.start <= p.end
            /\ q.start = p.end + 1 /\ p.end < h.seg.end
            /\ GetSize(q) \in Nat /\ GetSize(p) \in Nat /\ GetSize(p) <= GetSize(h.seg)
        BY <1>2, <2>3, <2>6, <3>2 DEF GetSize
      <3>5. p \in [start : Nat, end : Nat]
        BY <3>2, <3>4
      <3>6. /\ h \in Place /\ Known(h) /\ h.seg.end < IntMax
            /\ h.layer # Last => GetSize(h.seg) <= SegmentSize
        BY <1>2 DEF Movable
      <3>7. /\ file \in Place /\ file.seg = p /\ file.layer = h.layer /\ file.name = h.name
        BY <3>5, <3>6 DEF Place
      <3> HIDE DEF file
      <3>8. Movable(file)
        <4>1. Known(file)
          BY <3>6, <3>7 DEF Known
        <4>2. file.layer # Last => GetSize(file.seg) <= SegmentSize
          <5>1. GetSize(h.seg) \in Int
            BY <1>2
          <5> QED
            BY <3>4, <3>6, <3>7, <5>1, Constants
        <4>3. file.seg.end < IntMax
          BY <1>2, <3>4, <3>6, <3>7, Ints
        <4> QED
          BY <3>4, <3>7, <4>1, <4>2, <4>3 DEF Movable, NonEmpty
      <3>9. /\ file.seg.start = frame.start /\ file.seg.end \in Nat
            /\ file.seg.end < planned.file.seg.end /\ file.seg.end <= planned.file.seg.end
            /\ frame' = [layer |-> frame.layer + 1, size |-> GetSize(q),
                         start |-> file.seg.end + 1, original_index |-> file.seg.end + 1]
        BY <1>2, <3>2, <3>3, <3>4, <3>7
      <3> QED
        BY <1>2, <2>2, <3>3, <3>4, <3>7, <3>8, <3>9
    <2> QED
      BY <2>1, <2>4, <2>5, <2>6 DEF SolvePushesOut, space
  <1>6. CASE SolveSkips
    BY <1>6 DEF SolveSkips
  <1> QED
    BY <1>3, <1>4, <1>5, <1>6 DEF SolveLayer

LEMMA SolveLayerKeeps ==
  ASSUME PlaceInv, SolveLayer
  PROVE  PlaceInv'
  <1>1. /\ frame # None /\ Measured(frame.layer) /\ TypeOK
        /\ UNCHANGED <<bytes, names, located, phase, events, solved>>
    BY DEF SolveLayer, PlaceInv
  <1>2. /\ frame.layer \in 1 .. Last /\ frame.start \in Nat /\ frame.original_index \in Nat
        /\ frame.original_index <= frame.start
        /\ planned.file.seg.start \in Nat /\ planned.file.seg.end \in Nat
        /\ planned.file.seg.start <= frame.start /\ frame.start <= planned.file.seg.end
        /\ phase = "place" /\ planned.file.layer \in 1 .. Last
        /\ frame \in [layer : 1 .. Last, size : Nat, start : Nat, original_index : Nat]
    BY <1>1 DEF PlaceInv, FrameInv, PlannedInv, Place, Planning
  <1>3. TypeOK'
    <2>1. /\ layerCapacity' \in [Files -> Nat \cup {None}]
          /\ hasChanged' \in [Files -> BOOLEAN]
      BY <1>1, <1>2, MeasuredType
    <2>2. phase' = "carry" => todo' # <<>>
      BY <1>1, <1>2
    <2> QED
      BY <1>1, <2>1, <2>2 DEF TypeOK
  <1>4. EventInv' /\ LocatedInv'
    BY <1>1 DEF EventInv, LocatedInv, PlaceInv
  <1>5. CASE UNCHANGED <<planned, todo>> /\ \/ frame' = None
                                            \/ /\ ~Stops(planned.file, frame.layer)
                                               /\ frame' = [frame EXCEPT
                                                              !.layer = frame.layer + 1]
    <2>1. TodoInv'
      <3>1. \A m : MoveOK(m)' <=> MoveOK(m)
        BY <1>1 DEF MoveOK, Known
      <3> QED
        BY <1>5, <3>1 DEF TodoInv, PlaceInv
    <2>2. PlannedInv'
      <3>1. Known(planned.file)' <=> Known(planned.file)
        BY <1>1, <1>5 DEF Known
      <3>2. Planning
        BY <1>1 DEF Planning
      <3> QED
        BY <1>5, <3>1, <3>2 DEF PlannedInv, PlaceInv
    <2>3. FrameInv'
      <3>1. CASE frame' = None
        BY <3>1 DEF FrameInv
      <3>2. CASE /\ ~Stops(planned.file, frame.layer)
                 /\ frame' = [frame EXCEPT !.layer = frame.layer + 1]
        <4>1. frame.layer < planned.file.layer
          BY <1>1, <3>2, GoesUp
        <4>2. frame.layer + 1 \in 1 .. Last /\ frame.layer + 1 <= planned.file.layer
          BY <1>2, <4>1, Constants
        <4>3. /\ frame' \in [layer : 1 .. Last, size : Nat, start : Nat, original_index : Nat]
              /\ frame'.layer = frame.layer + 1 /\ frame'.start = frame.start
              /\ frame'.original_index = frame.original_index
          BY <1>2, <3>2, <4>2
        <4> QED
          BY <1>1, <1>2, <1>5, <4>2, <4>3 DEF FrameInv
      <3> QED
        BY <1>5, <3>1, <3>2
    <2> QED
      BY <1>3, <1>4, <2>1, <2>2, <2>3 DEF PlaceInv
  <1>6. CASE \E file :
              /\ ~Stops(planned.file, frame.layer)
              /\ Movable(file) /\ file.layer = planned.file.layer
              /\ file.seg.start = frame.start
              /\ Places(PlaceDataInLayer(file, frame.layer, frame.original_index))
              /\ file.seg.end \in Nat /\ file.seg.end <= planned.file.seg.end
              /\ \/ frame' = None
                 \/ /\ file.seg.end < planned.file.seg.end
                    /\ \E n \in Nat :
                         frame' = [layer |-> frame.layer + 1, size |-> n,
                                   start |-> file.seg.end + 1,
                                   original_index |-> file.seg.end + 1]
    <2>1. PICK file :
              /\ ~Stops(planned.file, frame.layer)
              /\ Movable(file) /\ file.layer = planned.file.layer
              /\ file.seg.start = frame.start
              /\ Places(PlaceDataInLayer(file, frame.layer, frame.original_index))
              /\ file.seg.end \in Nat /\ file.seg.end <= planned.file.seg.end
              /\ \/ frame' = None
                 \/ /\ file.seg.end < planned.file.seg.end
                    /\ \E n \in Nat :
                         frame' = [layer |-> frame.layer + 1, size |-> n,
                                   start |-> file.seg.end + 1,
                                   original_index |-> file.seg.end + 1]
      BY <1>6
    <2>2. TodoInv' /\ PlannedInv' /\ planned'.file = planned.file
      BY <1>1, <1>2, <2>1, PlacesKeeps
    <2>3. FrameInv'
      <3>1. CASE frame' = None
        BY <3>1 DEF FrameInv
      <3>2. CASE frame' # None
        <4>1. PICK n \in Nat : frame' = [layer |-> frame.layer + 1, size |-> n,
                                         start |-> file.seg.end + 1,
                                         original_index |-> file.seg.end + 1]
          BY <2>1, <3>2
        <4>2. frame.layer < planned.file.layer
          BY <1>1, <2>1, GoesUp
        <4>3. frame.layer + 1 \in 1 .. Last /\ frame.layer + 1 <= planned.file.layer
          BY <1>2, <4>2, Constants
        <4>4. /\ frame' \in [layer : 1 .. Last, size : Nat, start : Nat, original_index : Nat]
              /\ frame'.layer = frame.layer + 1 /\ frame'.start = file.seg.end + 1
              /\ frame'.original_index = frame'.start
          BY <2>1, <4>1, <4>3
        <4>5. file.seg.start <= file.seg.end
          BY <2>1 DEF Movable, NonEmpty
        <4>6. /\ planned.file.seg.start <= file.seg.end + 1
              /\ file.seg.end + 1 <= planned.file.seg.end
          BY <1>2, <2>1, <3>2, <4>5
        <4> QED
          BY <1>1, <1>2, <2>1, <2>2, <4>3, <4>4, <4>6 DEF FrameInv
      <3> QED
        BY <3>1, <3>2
    <2> QED
      BY <1>3, <1>4, <2>2, <2>3 DEF PlaceInv
  <1> QED
    BY <1>5, <1>6, SolveCases

LEMMA PlaceReturnsKeeps ==
  ASSUME PlaceInv, PlaceReturns
  PROVE  PlaceInv'
  <1>1. /\ UNCHANGED <<bytes, names, layerCapacity, hasChanged, located, frame, todo>>
        /\ planned' = None /\ frame = None /\ solved' = 0 /\ events' = events + 1
        /\ phase' = IF todo = <<>> THEN "place" ELSE "carry"
    BY DEF PlaceReturns
  <1>2. TypeOK' /\ EventInv' /\ LocatedInv'
    <2>1. events < MaxEvents
      BY DEF PlaceReturns, PlaceInv, EventInv
    <2>2. events' \in 0 .. MaxEvents /\ solved' \in 0 .. MaxSegments
      BY <1>1, <2>1, Constants DEF TypeOK, PlaceInv
    <2> QED
      BY <1>1, <2>2 DEF TypeOK, EventInv, LocatedInv, PlaceInv
  <1>3. TodoInv'
    <2>1. \A m : MoveOK(m)' <=> MoveOK(m)
      BY <1>1 DEF MoveOK, Known
    <2> QED
      BY <1>1, <2>1 DEF TodoInv, PlaceInv
  <1> QED
    BY <1>1, <1>2, <1>3 DEF PlaceInv, PlannedInv, FrameInv, Planning

----------------------------------------------------------------------------
(* What the I/O clients leave of a buffer. *)

LEMMA DuFacts ==
  ASSUME NEW a \in Nat
  PROVE  Du(a) \in Nat /\ Du(a) <= a /\ \A b \in Nat : a <= b => Du(a) <= Du(b)
  <1>1. KB \in Nat \ {0} /\ KB >= 1
    BY Constants
  <1>2. ASSUME NEW b \in Nat
        PROVE  Du(b) \in Nat /\ b <= Du(b) * KB /\ Du(b) * KB < b + KB
    BY <1>1, Ceiling DEF Du
  <1>3. ASSUME NEW b \in Nat, a <= b PROVE Du(a) <= Du(b)
    <2> DEFINE x == Du(a)
               y == Du(b)
    <2>1. x \in Nat /\ y \in Nat /\ x * KB < a + KB /\ b <= y * KB
      BY <1>2
    <2> HIDE DEF x, y
    <2>2. (y + 1) * KB = y * KB + KB /\ y * KB \in Nat /\ x * KB \in Nat
      BY <1>1, <2>1
    <2>3. x * KB < (y + 1) * KB
      BY <1>1, <1>3, <2>1, <2>2
    <2>4. x < y + 1
      BY <1>1, <2>1, <2>3, MulLess
    <2> QED
      BY <2>1, <2>4 DEF x, y
  <1>4. Du(a) <= a
    <2> DEFINE x == Du(a)
    <2>1. x \in Nat /\ x * KB < a + KB
      BY <1>2
    <2> HIDE DEF x
    <2>2. a + KB <= (a + 1) * KB
      <3>1. (a + 1) * KB = a * KB + KB /\ a * KB \in Nat
        BY <1>1
      <3>2. a * 1 <= a * KB
        BY <1>1
      <3> QED
        BY <1>1, <3>1, <3>2
    <2>3. x * KB < (a + 1) * KB
      <3>1. x * KB \in Nat /\ (a + 1) * KB \in Nat
        BY <1>1, <2>1
      <3> QED
        BY <1>1, <2>1, <2>2, <3>1
    <2>4. x < a + 1
      BY <1>1, <2>1, <2>3, MulLess
    <2> QED
      BY <2>1, <2>4 DEF x
  <1> QED
    BY <1>2, <1>3, <1>4

(* A Write to memory makes a buffer of the size asked for, or leaves its    *)
(* length, or makes it longer; a Write to a file adds no more than asked.   *)
LEMMA WrittenFacts ==
  ASSUME NEW l \in Buffered, NEW n \in Nat \cup {None},
         NEW s \in SegNat, s.start = 0, NonEmpty(s)
  PROVE  /\ Written(l, n, s) \in Nat
         /\ \/ Takes(l, Written(l, n, s)) <= Takes(l, n) + GetSize(s)
            \/ l \in Memory /\ n # None /\ Written(l, n, s) > n
  <1> DEFINE w == Written(l, n, s)
  <1>1. s.start = 0 /\ s.end \in Nat /\ GetSize(s) = s.end + 1 /\ None \notin Nat
    BY Constants DEF SegNat, GetSize
  <1>2. CASE l \in Memory
    <2>1. w = MemoryWritten(n, s)
      BY <1>2 DEF Written
    <2>2. CASE n = None
      <3>1. w = GetSize(s)
        BY <2>1, <2>2 DEF MemoryWritten
      <3> HIDE DEF w
      <3>2. w \in Nat /\ w # None
        BY <1>1, <3>1
      <3>3. Takes(l, w) = w /\ Takes(l, n) = 0
        BY <1>2, <2>2, <3>2 DEF Takes
      <3> QED
        BY <1>1, <3>1, <3>2, <3>3 DEF w
    <2>3. CASE n # None
      <3>1. n \in Nat
        BY <2>3
      <3>2. w = n \/ w = (n - s.start + 1 + GetSize(s)) + 1
        BY <2>1, <2>3 DEF MemoryWritten
      <3> HIDE DEF w
      <3>3. w = n \/ (w \in Nat /\ w > n)
        BY <1>1, <3>1, <3>2
      <3>4. w = n => Takes(l, w) <= Takes(l, n) + GetSize(s)
        BY <1>1, <3>1, TakesNat
      <3> QED
        BY <1>2, <2>3, <3>1, <3>3, <3>4 DEF w
    <2> QED
      BY <2>2, <2>3
  <1>3. CASE l \notin Memory
    <2> DEFINE old == IF n = None THEN 0 ELSE n
    <2>1. w = (IF s.end > s.start THEN Max({old, s.end}) ELSE old)
      BY <1>3 DEF Written, FileWritten
    <2>2. old \in Nat
      OBVIOUS
    <2>3. Du(old) \in Nat /\ Du(s.end) <= s.end /\ Du(s.end) \in Nat
      BY <1>1, <2>2, DuFacts
    <2>4. Takes(l, n) = Du(old)
      <3>1. CASE n = None
        <4>1. Du(0) \in Nat /\ Du(0) <= 0
          BY DuFacts
        <4> QED
          BY <3>1, <4>1 DEF Takes
      <3>2. CASE n # None
        BY <1>3, <3>2 DEF Takes
      <3> QED
        BY <3>1, <3>2
    <2> HIDE DEF w, old
    <2>5. w = old \/ w = s.end
      BY <1>1, <2>1, <2>2, MaxTwo
    <2>6. w \in Nat /\ w # None
      BY <1>1, <2>2, <2>5
    <2>7. Takes(l, w) = Du(w)
      BY <1>3, <2>6 DEF Takes
    <2>8. Du(w) <= Du(old) + GetSize(s)
      BY <1>1, <2>3, <2>5
    <2> QED
      BY <2>4, <2>6, <2>7, <2>8 DEF w
  <1> QED
    BY <1>2, <1>3

(* A Delete takes no more room than there was, or leaves a longer file. *)
LEMMA DeletedFacts ==
  ASSUME NEW l \in Buffered, NEW n \in Nat \cup {None}, NEW s \in SegNat, NonEmpty(s)
  PROVE  /\ Deleted(l, n, s) \in Nat \cup {None}
         /\ l \in Files => Deleted(l, n, s) \in Nat
         /\ \/ Takes(l, Deleted(l, n, s)) <= Takes(l, n)
            \/ l \in Files /\ n = None
            \/ n # None /\ Deleted(l, n, s) # None /\ Deleted(l, n, s) > n
  <1> DEFINE d == Deleted(l, n, s)
  <1>1. /\ s.start \in Nat /\ s.end \in Nat /\ s.start <= s.end /\ None \notin Nat
        /\ GetSize(s) = s.end - s.start + 1
    BY Constants DEF SegNat, GetSize, NonEmpty
  <1>2. l \in Memory <=> l \notin Files
    BY FilesAre
  <1>3. CASE l \in Memory
    <2>1. d = MemoryDeleted(n, s)
      BY <1>3 DEF Deleted
    <2>2. CASE n = None
      <3>1. d = n
        BY <2>1, <2>2 DEF MemoryDeleted
      <3> HIDE DEF d
      <3>2. Takes(l, d) <= Takes(l, n)
        BY <3>1, TakesNat
      <3> QED
        BY <1>2, <1>3, <3>1, <3>2 DEF d
    <2>3. CASE n # None
      <3>1. n \in Nat
        BY <2>3
      <3>2. d = None \/ d = n \/ (n >= s.end /\ d = n - GetSize(s) + 1)
        BY <2>1, <2>3 DEF MemoryDeleted
      <3> HIDE DEF d
      <3>3. d = None \/ (d \in Nat /\ d <= n)
        BY <1>1, <3>1, <3>2
      <3>4. Takes(l, d) <= Takes(l, n)
        <4>1. Takes(l, n) = n
          BY <1>3, <2>3 DEF Takes
        <4>2. Takes(l, d) = IF d = None THEN 0 ELSE d
          BY <1>3 DEF Takes
        <4> QED
          BY <3>1, <3>3, <4>1, <4>2
      <3> QED
        BY <1>2, <1>3, <3>3, <3>4 DEF d
    <2> QED
      BY <2>2, <2>3
  <1>4. CASE l \notin Memory
    <2>1. d = IF s.start > 0 THEN s.start - 1 ELSE 0
      BY <1>4 DEF Deleted, FileDeleted
    <2> HIDE DEF d
    <2>2. d \in Nat /\ d # None
      BY <1>1, <2>1
    <2>3. ASSUME n # None, ~(d > n) PROVE Takes(l, d) <= Takes(l, n)
      <3>1. n \in Nat /\ d <= n
        BY <2>2, <2>3
      <3>2. Takes(l, n) = Du(n) /\ Takes(l, d) = Du(d)
        BY <1>4, <2>2, <2>3 DEF Takes
      <3> QED
        BY <2>2, <3>1, <3>2, DuFacts
    <2> QED
      BY <1>2, <1>4, <2>2, <2>3 DEF d
  <1> QED
    BY <1>3, <1>4

----------------------------------------------------------------------------
(* One round of handle(). *)

Round == Head(todo)

Given == IF Round.destination.name = Fresh THEN names + 1 ELSE Round.destination.name

LEMMA CarryFacts ==
  ASSUME PlaceInv, Carry
  PROVE  LET p == Round
             n == Given
         IN  /\ MoveOK(p) /\ p.destination.layer # p.source.layer
             /\ p.destination.layer \in Buffered /\ n \in Names
             /\ p.source.seg \in SegNat /\ NonEmpty(p.source.seg)
             /\ p.destination.seg \in SegNat /\ NonEmpty(p.destination.seg)
             /\ p.destination.seg.start = 0
             /\ p.source.layer = Last => n = names + 1 /\ ~ReadFails(p.source)
             /\ p.source.layer # Last =>
                  /\ n = p.source.name /\ n <= names /\ p.source.layer \in Buffered
                  /\ located[n] # None /\ located[n].layer = p.source.layer
                  /\ p.source.layer \in Files => bytes[p.source.layer][n] # None
  <1> DEFINE p == Round
             n == Given
  <1>1. TypeOK /\ LocatedInv /\ TodoInv
    BY DEF PlaceInv
  <1>2. todo # <<>>
    BY <1>1 DEF TypeOK, Carry
  <1>3. todo \in Seq(Moves) /\ 1 \in 1 .. Len(todo) /\ p = todo[1]
    BY <1>1, <1>2 DEF TodoInv, Round
  <1>4. MoveOK(p)
    BY <1>1, <1>3 DEF TodoInv
  <1> HIDE DEF p
  <1>5. /\ p \in Moves /\ p.destination.layer < p.source.layer
        /\ p.destination.seg.start = 0
        /\ GetSize(p.destination.seg) \in 1 .. SegmentSize
        /\ GetSize(p.source.seg) \in 1 .. SegmentSize
        /\ Known(p.source)
        /\ p.destination.name = (IF p.source.layer = Last THEN Fresh ELSE p.source.name)
    BY <1>4 DEF MoveOK
  <1>6. /\ p.source.layer \in 1 .. Last /\ p.destination.layer \in 1 .. Last
        /\ p.source.seg \in SegNat /\ p.destination.seg \in SegNat
    BY <1>5 DEF Moves, Place, SegNat
  <1>7. NonEmpty(p.source.seg) /\ NonEmpty(p.destination.seg)
    BY <1>5, <1>6, Constants DEF NonEmpty, SegNat, GetSize
  <1>8. p.destination.layer \in Buffered /\ p.destination.layer # p.source.layer
    BY <1>5, <1>6, Constants DEF Buffered
  <1>9. n <= MaxNames /\ n = IF p.destination.name = Fresh THEN names + 1
                             ELSE p.destination.name
    BY DEF Carry, Round, Given, p
  <1> HIDE DEF n
  <1>10. ASSUME p.source.layer = Last
         PROVE  n = names + 1 /\ ~ReadFails(p.source) /\ n \in Names
    <2>1. n = names + 1
      BY <1>5, <1>9, <1>10
    <2>2. p.source.layer \notin Memory
      BY <1>10, Constants DEF Buffered
    <2>3. n \in Names
      BY <1>1, <1>9, <2>1, Constants DEF Names, TypeOK
    <2> QED
      BY <2>1, <2>2, <2>3 DEF ReadFails
  <1>11. ASSUME p.source.layer # Last
         PROVE  /\ n = p.source.name /\ n <= names /\ p.source.layer \in Buffered
                /\ located[n] # None /\ located[n].layer = p.source.layer
                /\ p.source.layer \in Files => bytes[p.source.layer][n] # None
                /\ n \in Names
    <2>1. /\ p.source.name \in Names /\ located[p.source.name] # None
          /\ located[p.source.name].layer = p.source.layer
      BY <1>5, <1>11 DEF Known
    <2>2. p.source.name # Fresh
      BY <2>1, Constants DEF Names, Fresh
    <2>3. n = p.source.name
      BY <1>5, <1>9, <1>11, <2>2
    <2>4. p.source.layer \in Buffered
      BY <1>6, <1>11, Constants DEF Buffered
    <2> QED
      BY <1>1, <2>1, <2>3, <2>4 DEF LocatedInv
  <1> QED
    BY <1>4, <1>5, <1>6, <1>7, <1>8, <1>10, <1>11 DEF p, n

(* What Carry does to each buffer. *)
LEMMA CarryBytes ==
  ASSUME PlaceInv, Carry
  PROVE  LET p == Round
             n == Given
             fails == ReadFails(p.source)
         IN  /\ bytes' \in [Buffered -> [Names -> Nat \cup {None}]]
             /\ \A l \in Buffered : \A i \in Names :
                  \/ bytes'[l][i] = bytes[l][i]
                  \/ /\ ~fails /\ l = p.destination.layer /\ i = n
                     /\ bytes'[l][i] = Written(l, bytes[l][i], p.destination.seg)
                  \/ /\ ~fails /\ l = p.source.layer /\ i = n
                     /\ bytes'[l][i] = Deleted(l, bytes[l][i], p.source.seg)
             /\ ~fails =>
                  LET l == p.destination.layer
                  IN  bytes'[l][n] = Written(l, bytes[l][n], p.destination.seg)
  <1> DEFINE p == Round
             n == Given
             fails == ReadFails(p.source)
             to == p.destination
             from == p.source
             B(l, i) == CASE fails -> bytes[l][i]
                  [] ~fails /\ l = to.layer /\ i = n -> Written(l, bytes[l][i], to.seg)
                  [] ~fails /\ l = from.layer /\ i = from.name ->
                       Deleted(l, bytes[l][i], from.seg)
                  [] OTHER -> bytes[l][i]
  <1>1. bytes' = [l \in Buffered |-> [i \in Names |-> B(l, i)]]
    BY DEF Carry, Move, Round, Given
  <1>2. /\ p.destination.layer # p.source.layer
        /\ p.destination.layer \in Buffered /\ n \in Names
        /\ p.source.seg \in SegNat /\ NonEmpty(p.source.seg)
        /\ p.destination.seg \in SegNat /\ NonEmpty(p.destination.seg)
        /\ p.destination.seg.start = 0
        /\ p.source.layer # Last => n = p.source.name
    BY CarryFacts
  <1>3. Last \notin Buffered
    BY Constants DEF Buffered
  <1>4. ASSUME NEW l \in Buffered, NEW i \in Names
        PROVE  bytes[l][i] \in Nat \cup {None}
    BY DEF TypeOK, PlaceInv
  <1> HIDE DEF p, n, fails
  <1>5. ASSUME NEW l \in Buffered, NEW i \in Names
        PROVE  \/ B(l, i) = bytes[l][i]
               \/ /\ ~fails /\ l = to.layer /\ i = n
                  /\ B(l, i) = Written(l, bytes[l][i], to.seg)
               \/ /\ ~fails /\ l = from.layer /\ i = n
                  /\ B(l, i) = Deleted(l, bytes[l][i], from.seg)
    <2>1. CASE fails
      BY <2>1
    <2>2. CASE ~fails /\ l = to.layer /\ i = n
      BY <2>2
    <2>3. CASE ~fails /\ ~(l = to.layer /\ i = n) /\ l = from.layer /\ i = from.name
      BY <1>2, <1>3, <2>3
    <2>4. CASE ~fails /\ ~(l = to.layer /\ i = n) /\ ~(l = from.layer /\ i = from.name)
      BY <2>4
    <2> QED
      BY <2>1, <2>2, <2>3, <2>4
  <1>6. ASSUME NEW l \in Buffered, NEW i \in Names PROVE B(l, i) \in Nat \cup {None}
    <2>1. bytes[l][i] \in Nat \cup {None}
      BY <1>4
    <2>2. Written(l, bytes[l][i], to.seg) \in Nat
      BY <1>2, <2>1, WrittenFacts
    <2>3. Deleted(l, bytes[l][i], from.seg) \in Nat \cup {None}
      BY <1>2, <2>1, DeletedFacts
    <2> HIDE DEF B
    <2> QED
      BY <1>5, <2>1, <2>2, <2>3
  <1>7. ASSUME ~fails PROVE B(to.layer, n) = Written(to.layer, bytes[to.layer][n], to.seg)
    <2>1. ASSUME NEW l, NEW i, l = to.layer, i = n
          PROVE  B(l, i) = Written(l, bytes[l][i], to.seg)
      BY <1>2, <1>7, <2>1
    <2> HIDE DEF B
    <2> QED
      BY <2>1
  <1> HIDE DEF B
  <1>8. \A l \in Buffered : \A i \in Names : bytes'[l][i] = B(l, i)
    BY <1>1
  <1>9. bytes' \in [Buffered -> [Names -> Nat \cup {None}]]
    BY <1>1, <1>6
  <1> QED
    BY <1>2, <1>5, <1>7, <1>8, <1>9 DEF p, n, fails

LEMMA CarryKeeps ==
  ASSUME PlaceInv, Carry
  PROVE  PlaceInv'
  <1> DEFINE p == Round
             n == Given
             l == p.destination.layer
             fails == ReadFails(p.source)
  <1>1. TypeOK /\ EventInv /\ LocatedInv /\ TodoInv /\ PlannedInv /\ FrameInv
    BY DEF PlaceInv
  <1>2. /\ MoveOK(p) /\ l # p.source.layer /\ l \in Buffered /\ n \in Names
        /\ p.source.layer = Last => n = names + 1 /\ ~fails
        /\ p.source.layer # Last => n <= names
        /\ p.source.seg \in SegNat /\ NonEmpty(p.source.seg)
        /\ p.destination.seg \in SegNat /\ NonEmpty(p.destination.seg)
        /\ p.destination.seg.start = 0
    BY CarryFacts
  <1>3. /\ bytes' \in [Buffered -> [Names -> Nat \cup {None}]]
        /\ \A k \in Buffered : \A i \in Names :
             \/ bytes'[k][i] = bytes[k][i]
             \/ bytes'[k][i] = Written(k, bytes[k][i], p.destination.seg)
             \/ bytes'[k][i] = Deleted(k, bytes[k][i], p.source.seg)
        /\ ~fails => bytes'[l][n] = Written(l, bytes[l][n], p.destination.seg)
    BY CarryBytes
  <1>4. /\ phase = "carry" /\ todo' = Tail(todo)
        /\ phase' = (IF Len(todo) = 1 THEN "place" ELSE "carry")
        /\ UNCHANGED <<events, solved, frame, planned>>
        /\ names' = Max({n, names})
        /\ layerCapacity' = [k \in Files |-> IF k = l THEN GetCurrentUsage(k)
                                             ELSE layerCapacity[k]]
        /\ located' = (IF p.source.layer # Last THEN located
                       ELSE [located EXCEPT ![n] = [layer |-> l,
                                                    size |-> GetSize(p.source.seg)]])
    BY DEF Carry, Round, Given
  <1>5. hasChanged' \in [Files -> BOOLEAN]
    <2>1. hasChanged' = [k \in Files |-> IF k \in Changes(p) /\ ~fails THEN TRUE
                                         ELSE hasChanged[k] /\ k # l]
      BY DEF Carry, Move, Round
    <2>2. hasChanged \in [Files -> BOOLEAN]
      BY <1>1 DEF TypeOK
    <2> HIDE DEF fails, p, l
    <2>3. \A k \in Files : hasChanged'[k] \in BOOLEAN
      BY <2>1, <2>2, Zenon
    <2> QED
      BY <2>1, <2>3, Zenon
  <1> HIDE DEF p, n, l, fails
  <1>6. GetSize(p.source.seg) \in 1 .. SegmentSize
    BY <1>2 DEF MoveOK
  <1>7. names \in 0 .. MaxNames /\ names' \in 0 .. MaxNames /\ names <= names' /\ n <= names'
    <2>1. names \in 0 .. MaxNames /\ n \in 1 .. MaxNames
      BY <1>1, <1>2 DEF TypeOK, Names
    <2> QED
      BY <1>4, <2>1, MaxTwo, Constants
  <1>8. located' \in [Names -> [layer : Buffered, size : 1 .. SegmentSize] \cup {None}]
    BY <1>1, <1>2, <1>4, <1>6 DEF TypeOK
  <1>9. TypeOK'
    <2>1. layerCapacity' \in [Files -> Nat \cup {None}]
      <3>1. \A k \in Files : GetCurrentUsage(k) \in Nat
        BY <1>1, FilesAre, CurrentNat
      <3>2. layerCapacity \in [Files -> Nat \cup {None}]
        BY <1>1 DEF TypeOK
      <3> QED
        BY <1>4, <3>1, <3>2
    <2>3. phase' \in {"place", "carry"} /\ (phase' = "carry" => todo' # <<>>)
      <3>1. todo \in Seq(Moves) /\ todo # <<>>
        BY <1>1, <1>4 DEF TypeOK, TodoInv
      <3>2. Len(Tail(todo)) = Len(todo) - 1 /\ Len(todo) \in Nat
        BY <3>1
      <3>3. ASSUME Len(todo) # 1 PROVE Tail(todo) # <<>>
        <4>1. Len(Tail(todo)) # 0
          BY <3>2, <3>3
        <4> QED
          BY <4>1
      <3> QED
        BY <1>4, <3>3
    <2> QED
      BY <1>1, <1>3, <1>4, <1>5, <1>7, <1>8, <2>1, <2>3 DEF TypeOK
  <1>10. LocatedInv'
    <2>1. ASSUME NEW m \in Names, located'[m] # None
          PROVE  /\ m <= names'
                 /\ located'[m].layer \in Files => bytes'[located'[m].layer][m] # None
      <3>1. CASE p.source.layer = Last /\ m = n
        <4>1. located'[m].layer = l
          BY <1>1, <1>2, <1>4, <3>1 DEF TypeOK
        <4>2. bytes'[l][m] = Written(l, bytes[l][m], p.destination.seg)
          BY <1>2, <1>3, <3>1
        <4>3. bytes[l][m] \in Nat \cup {None}
          BY <1>1, <1>2 DEF TypeOK
        <4>4. bytes'[l][m] \in Nat
          BY <1>2, <4>2, <4>3, WrittenFacts
        <4> QED
          BY <1>7, <3>1, <4>1, <4>4, Constants
      <3>2. CASE ~(p.source.layer = Last /\ m = n)
        <4>1. located'[m] = located[m]
          BY <1>1, <1>4, <3>2 DEF TypeOK
        <4> DEFINE k == located[m].layer
        <4>2. m <= names /\ (k \in Files => bytes[k][m] # None)
          BY <1>1, <2>1, <4>1 DEF LocatedInv
        <4>3. m <= names'
          BY <1>7, <4>2 DEF Names
        <4>4. ASSUME k \in Files PROVE bytes'[k][m] # None
          <5>1. k \in Buffered /\ bytes[k][m] \in Nat
            BY <1>1, <4>2, <4>4, FilesAre DEF TypeOK
          <5> HIDE DEF k
          <5>2. Written(k, bytes[k][m], p.destination.seg) \in Nat
            BY <1>2, <5>1, WrittenFacts
          <5>3. Deleted(k, bytes[k][m], p.source.seg) \in Nat
            BY <1>2, <4>4, <5>1, DeletedFacts
          <5>4. bytes'[k][m] \in Nat
            BY <1>3, <5>1, <5>2, <5>3
          <5> QED
            BY <5>4, Constants
        <4> QED
          BY <4>1, <4>3, <4>4
      <3> QED
        BY <3>1, <3>2
    <2> QED
      BY <2>1 DEF LocatedInv
  <1>11. \A f : Known(f) => Known(f)'
    <2> SUFFICES ASSUME NEW f, Known(f), f.layer # Last PROVE Known(f)'
      BY DEF Known
    <2>1. /\ f.name \in Names /\ located[f.name] # None
          /\ located[f.name].layer = f.layer
      BY DEF Known
    <2>2. f.name <= names
      BY <1>1, <2>1 DEF LocatedInv
    <2>3. p.source.layer = Last => f.name # n
      BY <1>2, <1>7, <2>1, <2>2 DEF Names
    <2>4. located'[f.name] = located[f.name]
      BY <1>1, <1>4, <2>1, <2>3 DEF TypeOK
    <2> QED
      BY <2>1, <2>4 DEF Known
  <1>12. TodoInv'
    <2>1. todo \in Seq(Moves) /\ todo # <<>> /\ \A j \in 1 .. Len(todo) : MoveOK(todo[j])
      BY <1>1, <1>4 DEF TypeOK, TodoInv
    <2>2. /\ todo' \in Seq(Moves)
          /\ \A j \in 1 .. Len(todo') : j + 1 \in 1 .. Len(todo) /\ todo'[j] = todo[j + 1]
      BY <1>4, <2>1
    <2>3. \A m : MoveOK(m) => MoveOK(m)'
      BY <1>11 DEF MoveOK
    <2> QED
      BY <2>1, <2>2, <2>3 DEF TodoInv
  <1>13. PlannedInv'
    <2>1. Planning' <=> Planning
      BY <1>4 DEF Planning
    <2>2. Known(planned.file) => Known(planned.file)'
      <3>1. planned' = planned
        BY <1>4
      <3> QED
        BY <1>11, <3>1 DEF Known
    <2> QED
      BY <1>1, <1>4, <2>1, <2>2 DEF PlannedInv
  <1>14. FrameInv' /\ EventInv'
    BY <1>1, <1>4 DEF FrameInv, EventInv
  <1> QED
    BY <1>9, <1>10, <1>12, <1>13, <1>14 DEF PlaceInv

(* What Close does to each buffer. *)
LEMMA CloseFacts ==
  ASSUME PlaceInv, Close
  PROVE  \E l \in Buffered : \E n \in Names : \E s \in SegNat :
           /\ NonEmpty(s)
           /\ l \in Files => bytes[l][n] # None
           /\ bytes' = [bytes EXCEPT ![l][n] = Deleted(l, bytes[l][n], s)]
           /\ hasChanged' = [k \in Files |-> k = l \/ hasChanged[k]]
  <1>1. PICK h \in HeatMap :
          /\ h[2].layer # Last
          /\ bytes' = [bytes EXCEPT ![h[2].layer][h[2].name] =
                          Deleted(h[2].layer, bytes[h[2].layer][h[2].name], h[2].seg)]
          /\ hasChanged' = [k \in Files |-> k = h[2].layer \/ hasChanged[k]]
    BY DEF Close
  <1>2. TypeOK /\ LocatedInv
    BY DEF PlaceInv
  <1>3. /\ h[2] \in Place /\ NonEmpty(h[2].seg) /\ Known(h[2])
    BY <1>2, HeatFacts DEF Movable
  <1>4. /\ h[2].layer \in Buffered /\ h[2].name \in Names /\ h[2].seg \in SegNat
        /\ located[h[2].name] # None /\ located[h[2].name].layer = h[2].layer
    BY <1>1, <1>3, Constants DEF Known, Place, Buffered, SegNat
  <1>5. h[2].layer \in Files => bytes[h[2].layer][h[2].name] # None
    BY <1>2, <1>4 DEF LocatedInv
  <1> QED
    BY <1>1, <1>3, <1>4, <1>5

LEMMA CloseKeeps ==
  ASSUME PlaceInv, Close
  PROVE  PlaceInv'
  <1>1. TypeOK /\ EventInv /\ LocatedInv /\ TodoInv /\ PlannedInv /\ FrameInv
    BY DEF PlaceInv
  <1>2. PICK l \in Buffered, n \in Names, s \in SegNat :
           /\ NonEmpty(s)
           /\ bytes' = [bytes EXCEPT ![l][n] = Deleted(l, bytes[l][n], s)]
           /\ hasChanged' = [k \in Files |-> k = l \/ hasChanged[k]]
    BY CloseFacts
  <1>3. /\ phase = "place" /\ solved = 0 /\ events < MaxEvents /\ events' = events + 1
        /\ UNCHANGED <<names, layerCapacity, located, phase, solved, frame, planned, todo>>
    BY DEF Close
  <1> DEFINE d == Deleted(l, bytes[l][n], s)
  <1>4. bytes[l][n] \in Nat \cup {None} /\ bytes \in [Buffered -> [Names -> Nat \cup {None}]]
    BY <1>1 DEF TypeOK
  <1>5. d \in Nat \cup {None} /\ (l \in Files => d \in Nat)
    BY <1>2, <1>4, DeletedFacts
  <1> HIDE DEF d
  <1>6. /\ bytes' \in [Buffered -> [Names -> Nat \cup {None}]]
        /\ \A k \in Buffered : \A i \in Names :
             \/ bytes'[k][i] = bytes[k][i]
             \/ k = l /\ i = n /\ bytes'[k][i] = d
    BY <1>2, <1>4, <1>5 DEF d
  <1>7. hasChanged' \in [Files -> BOOLEAN]
    BY <1>2, Zenon
  <1>8. TypeOK'
    <2>2. events' \in 0 .. MaxEvents
      BY <1>1, <1>3, Constants DEF TypeOK
    <2> QED
      BY <1>1, <1>3, <1>6, <1>7, <2>2 DEF TypeOK
  <1>9. LocatedInv'
    <2>1. ASSUME NEW m \in Names, located[m] # None, located[m].layer \in Files
          PROVE  bytes'[located[m].layer][m] # None
      <3> DEFINE k == located[m].layer
      <3>1. bytes[k][m] # None /\ k \in Buffered
        BY <1>1, <2>1, FilesAre DEF LocatedInv
      <3> HIDE DEF k
      <3>2. bytes'[k][m] # None
        BY <1>5, <1>6, <2>1, <3>1, Constants DEF k
      <3> QED
        BY <3>2 DEF k
    <2> QED
      BY <1>1, <1>3, <2>1 DEF LocatedInv
  <1>10. TodoInv'
    <2>1. \A m : MoveOK(m)' <=> MoveOK(m)
      BY <1>3 DEF MoveOK, Known
    <2> QED
      BY <1>1, <1>3, <2>1 DEF TodoInv
  <1>11. PlannedInv'
    <2>1. Planning' <=> Planning
      BY <1>3 DEF Planning
    <2>2. Known(planned.file)' <=> Known(planned.file)
      BY <1>3 DEF Known
    <2> QED
      BY <1>1, <1>3, <2>1, <2>2 DEF PlannedInv
  <1>12. FrameInv' /\ EventInv'
    BY <1>1, <1>3 DEF FrameInv, EventInv
  <1> QED
    BY <1>8, <1>9, <1>10, <1>11, <1>12 DEF PlaceInv

LEMMA PlaceInvInit == Init => PlaceInv
  <1> SUFFICES ASSUME Init PROVE PlaceInv
    OBVIOUS
  <1>1. hasChanged \in [Files -> BOOLEAN]
    <2>1. hasChanged = [l \in Files |-> FALSE]
      BY DEF Init
    <2> QED
      BY <2>1, Zenon
  <1>2. TypeOK
    BY <1>1, Constants DEF Init, TypeOK
  <1>3. EventInv /\ LocatedInv /\ TodoInv /\ PlannedInv /\ FrameInv
    BY Constants DEF Init, EventInv, LocatedInv, TodoInv, PlannedInv, FrameInv, Planning
  <1> QED
    BY <1>2, <1>3 DEF PlaceInv

LEMMA PlaceInvStep == PlaceInv /\ [Next]_vars => PlaceInv'
  <1> SUFFICES ASSUME PlaceInv, [Next]_vars PROVE PlaceInv'
    OBVIOUS
  <1>1. CASE PlaceSegment
    BY <1>1, PlaceSegmentKeeps
  <1>2. CASE SolveLayer
    BY <1>2, SolveLayerKeeps
  <1>3. CASE PlaceReturns
    BY <1>3, PlaceReturnsKeeps
  <1>4. CASE Carry
    BY <1>4, CarryKeeps
  <1>5. CASE Close
    BY <1>5, CloseKeeps
  <1>6. CASE UNCHANGED vars
    <2>1. Known(planned.file)' <=> Known(planned.file)
      BY <1>6 DEF vars, Known
    <2>2. \A m : MoveOK(m)' <=> MoveOK(m)
      BY <1>6 DEF vars, MoveOK, Known
    <2>3. TypeOK' /\ EventInv' /\ LocatedInv' /\ FrameInv'
      BY <1>6 DEF vars, PlaceInv, TypeOK, EventInv, LocatedInv, FrameInv
    <2>4. TodoInv' /\ PlannedInv'
      BY <1>6, <2>1, <2>2 DEF vars, PlaceInv, TodoInv, PlannedInv, Planning
    <2> QED
      BY <2>3, <2>4 DEF PlaceInv
  <1> QED
    BY <1>1, <1>2, <1>3, <1>4, <1>5, <1>6 DEF Next

LEMMA PlaceInvHolds == Spec => []PlaceInv
  BY PlaceInvInit, PlaceInvStep, PTL DEF Spec

(***************************************************************************)
(* The buffers, the caches of the usage and what the heat maps say of the  *)
(* buffers keep their types whatever is planned and carried out: above all *)
(* no buffer gets a negative length, although Delete subtracts the length  *)
(* of a segment that need not be the buffer's (memory_client.cpp:103-121).  *)
(***************************************************************************)
THEOREM PlacementTypeCorrect == Spec => []TypeOK
  <1>1. PlaceInv => TypeOK
    BY DEF PlaceInv
  <1> QED
    BY <1>1, PlaceInvHolds, PTL

(***************************************************************************)
(* Every planned move goes to a layer above that of the data, for any      *)
(* number of layers and any free space (max_bw_dpe.cpp:69-72, 113).        *)
(***************************************************************************)
THEOREM PlansOnlyClimb == Spec => []PlanClimbs
  <1>1. PlaceInv => PlanClimbs
    <2> SUFFICES ASSUME PlaceInv, planned # None PROVE PlanClimbs
      BY DEF PlanClimbs
    <2>1. /\ planned.moves \in Seq(Moves)
          /\ \A j \in 1 .. Len(planned.moves) :
                planned.moves[j].destination.layer < planned.file.layer
      BY DEF PlaceInv, PlannedInv, Planning
    <2>2. DOMAIN planned.moves = 1 .. Len(planned.moves)
      BY <2>1
    <2> QED
      BY <2>1, <2>2 DEF PlanClimbs
  <1> QED
    BY <1>1, PlaceInvHolds, PTL

----------------------------------------------------------------------------
(* The plan reads the data once, from its beginning. *)

(* The conjuncts of Covers about one move. *)
LEMMA CoversMove ==
  ASSUME PlaceInv, Planning
  PROVE  Covers <=>
           \A j \in 1 .. Len(planned.moves) :
             LET s == planned.moves[j].source.seg
             IN  /\ s.start = IF j = 1 THEN 0 ELSE planned.moves[j - 1].source.seg.end + 1
                 /\ s.end <= planned.file.seg.end
                 /\ GetSize(s) = GetSize(planned.moves[j].destination.seg)
                 /\ GetSize(s) \in 1 .. SegmentSize
  <1>1. planned.moves \in Seq(Moves)
    BY DEF PlaceInv, PlannedInv
  <1>2. DOMAIN planned.moves = 1 .. Len(planned.moves)
    BY <1>1
  <1> QED
    BY <1>2 DEF Covers

LEMMA PlacesCovers ==
  ASSUME PlaceInv, PlaceInv', CoverInv, frame # None, planned.file.seg.start = 0,
         ~Stops(planned.file, frame.layer),
         NEW file, Movable(file), file.layer = planned.file.layer,
         file.seg.start = frame.start, file.seg.end \in Nat,
         file.seg.end <= planned.file.seg.end,
         Places(PlaceDataInLayer(file, frame.layer, frame.original_index)),
         UNCHANGED located
  PROVE  /\ Planning' => Covers'
         /\ planned'.moves # <<>> /\ planned'.file = planned.file
         /\ planned'.moves[Len(planned'.moves)].source.seg.end = file.seg.end
  <1> DEFINE P == PlaceDataInLayer(file, frame.layer, frame.original_index)
             s == planned.moves
             t == planned'.moves
             last == planned.file.seg.end
             S(m) == m.source.seg
  <1>1. /\ frame.layer \in 1 .. Last /\ frame.layer < file.layer
        /\ frame.original_index \in Nat /\ frame.original_index <= frame.start
        /\ planned.file.seg.end \in Nat
    <2>1. planned.file.seg.end \in Nat
      BY HereFacts DEF SegNat
    <2> QED
      BY <2>1, GoesUp, HereFacts
  <1>2. Planning /\ Covers /\ frame.original_index = frame.start
        /\ frame.start = IF s = <<>> THEN 0 ELSE S(s[Len(s)]).end + 1
    BY DEF CoverInv, Planning
  <1>3. /\ P \in Seq(Moves) /\ Len(P) \in Nat /\ Len(P) >= 1
        /\ \A i \in 1 .. Len(P) : MoveOK(P[i])
        /\ S(P[1]).start = frame.start /\ S(P[Len(P)]).end = file.seg.end
        /\ \A i \in 1 .. Len(P) :
             /\ i # 1 => S(P[i]).start = S(P[i - 1]).end + 1
             /\ S(P[i]).end <= file.seg.end
             /\ GetSize(S(P[i])) = GetSize(P[i].destination.seg)
    <2>1. /\ P \in Seq(Moves) /\ Len(P) \in Nat /\ Len(P) >= 1
          /\ \A i \in 1 .. Len(P) : MoveOK(P[i]) /\ P[i].destination.layer = frame.layer
          /\ frame.original_index = file.seg.start => ReadsAll(P, file.seg)
      BY <1>1, PlaceFacts
    <2> HIDE DEF P
    <2> QED
      BY <1>2, <2>1 DEF ReadsAll
  <1>4. t = s \o P /\ planned'.file = planned.file
    BY <1>1, PlacesKeeps
  <1>5. s \in Seq(Moves)
    BY <1>2 DEF PlaceInv, PlannedInv
  <1>6. \A j \in 1 .. Len(s) :
          /\ S(s[j]).start = IF j = 1 THEN 0 ELSE S(s[j - 1]).end + 1
          /\ S(s[j]).end <= last
          /\ GetSize(S(s[j])) = GetSize(s[j].destination.seg)
          /\ GetSize(S(s[j])) \in 1 .. SegmentSize
    BY <1>2, CoversMove
  <1> HIDE DEF P, s, t, last
  <1>7. /\ Len(t) = Len(s) + Len(P) /\ Len(s) \in Nat
        /\ \A i \in 1 .. Len(s) : t[i] = s[i]
        /\ \A i \in 1 .. Len(P) : t[i + Len(s)] = P[i]
    BY <1>3, <1>4, <1>5, ConcatAt
  <1>8. Len(t) \in Nat /\ Len(t) >= 1 /\ t[Len(t)] = P[Len(P)]
    <2>1. Len(P) \in 1 .. Len(P) /\ Len(P) + Len(s) = Len(t)
      BY <1>3, <1>7
    <2> QED
      BY <1>3, <1>7, <2>1
  <1>9. ASSUME NEW j \in 1 .. Len(t)
        PROVE  /\ S(t[j]).start = IF j = 1 THEN 0 ELSE S(t[j - 1]).end + 1
               /\ S(t[j]).end <= last
               /\ GetSize(S(t[j])) = GetSize(t[j].destination.seg)
               /\ GetSize(S(t[j])) \in 1 .. SegmentSize
    <2>1. CASE j \in 1 .. Len(s)
      <3>1. t[j] = s[j] /\ (j # 1 => t[j - 1] = s[j - 1])
        BY <1>7, <2>1
      <3> HIDE DEF S
      <3> QED
        BY <1>6, <2>1, <3>1
    <2>2. CASE j \notin 1 .. Len(s)
      <3> DEFINE i == j - Len(s)
      <3>1. i \in 1 .. Len(P) /\ j = i + Len(s)
        BY <1>3, <1>7, <1>8, <2>2
      <3> HIDE DEF i
      <3>2. t[j] = P[i]
        BY <1>7, <3>1
      <3>3. GetSize(S(P[i])) \in 1 .. SegmentSize
        BY <1>3, <3>1 DEF MoveOK
      <3>4. S(P[i]).end <= last
        <4>1. S(P[i]).end \in Nat
          BY <1>3, <3>1 DEF MoveOK, Moves, Place
        <4>2. S(P[i]).end <= file.seg.end
          BY <1>3, <3>1
        <4> QED
          BY <1>1, <4>1, <4>2 DEF last
      <3>5. S(t[j]).start = IF j = 1 THEN 0 ELSE S(t[j - 1]).end + 1
        <4>1. CASE i = 1
          <5>1. S(t[j]).start = frame.start
            BY <1>3, <3>2, <4>1
          <5>2. CASE s = <<>>
            <6>1. Len(s) = 0 /\ j = 1
              BY <3>1, <4>1, <5>2
            <6> QED
              BY <1>2, <5>1, <5>2, <6>1
          <5>3. CASE s # <<>>
            <6>1. Len(s) # 0
              BY <1>5, <5>3
            <6>2. Len(s) \in 1 .. Len(s) /\ j # 1 /\ j - 1 = Len(s)
              BY <1>7, <3>1, <4>1, <6>1
            <6>3. t[j - 1] = s[Len(s)]
              BY <1>7, <6>2
            <6> QED
              BY <1>2, <5>1, <5>3, <6>2, <6>3
          <5> QED
            BY <5>2, <5>3
        <4>2. CASE i # 1
          <5>1. i - 1 \in 1 .. Len(P) /\ (i - 1) + Len(s) = j - 1 /\ j # 1
            BY <1>3, <1>7, <3>1, <4>2
          <5>2. t[j - 1] = P[i - 1]
            BY <1>7, <5>1
          <5> QED
            BY <1>3, <3>1, <3>2, <4>2, <5>1, <5>2
        <4> QED
          BY <4>1, <4>2
      <3> QED
        BY <1>3, <3>1, <3>2, <3>3, <3>4, <3>5
    <2> QED
      BY <2>1, <2>2
  <1>10. Planning' => Covers'
    <2> SUFFICES ASSUME Planning' PROVE Covers'
      OBVIOUS
    <2>1. PlaceInv'
      OBVIOUS
    <2>2. t \in Seq(Moves)
      BY <1>3, <1>4, <1>5, ConcatAt
    <2>3. DOMAIN t = 1 .. Len(t)
      BY <2>2
    <2> QED
      BY <1>4, <1>9, <2>3 DEF Covers, t, last
  <1>11. t # <<>>
    BY <1>8
  <1> QED
    BY <1>3, <1>4, <1>8, <1>10, <1>11 DEF t

LEMMA CoverInvStep ==
  ASSUME PlaceInv, PlaceInv', CoverInv, [Next]_vars
  PROVE  CoverInv'
  <1>1. CASE PlaceSegment
    <2>1. PICK h \in HeatMap :
            /\ planned' = [file |-> h[2], moves |-> <<>>]
            /\ frame' = [layer |-> 1, size |-> h[1], start |-> h[2].seg.start,
                         original_index |-> 0]
      BY <1>1 DEF PlaceSegment
    <2>2. /\ planned'.file = h[2] /\ planned'.moves = <<>>
          /\ frame'.start = h[2].seg.start /\ frame'.original_index = 0
      BY <2>1
    <2>3. Covers'
      BY <2>2 DEF Covers
    <2> QED
      BY <2>2, <2>3 DEF CoverInv
  <1>2. CASE SolveLayer
    <2> SUFFICES ASSUME Planning', planned'.file.seg.start = 0 PROVE CoverInv'
      BY DEF CoverInv
    <2>1. frame # None /\ UNCHANGED located /\ Planning
      BY <1>2 DEF SolveLayer, Planning
    <2>2. CASE UNCHANGED <<planned, todo>> /\ \/ frame' = None
                                              \/ frame' = [frame EXCEPT
                                                             !.layer = frame.layer + 1]
      <3>1. planned' = planned
        BY <2>2
      <3>2. Covers' <=> Covers
        BY <3>1 DEF Covers
      <3>3. frame' # None => /\ frame'.start = frame.start
                             /\ frame'.original_index = frame.original_index
        <4>1. frame \in [layer : 1 .. Last, size : Nat, start : Nat, original_index : Nat]
          BY <2>1 DEF PlaceInv, FrameInv
        <4> QED
          BY <2>2, <4>1
      <3> QED
        BY <2>1, <3>1, <3>2, <3>3 DEF CoverInv
    <2>3. CASE \E file :
              /\ ~Stops(planned.file, frame.layer)
              /\ Movable(file) /\ file.layer = planned.file.layer
              /\ file.seg.start = frame.start
              /\ Places(PlaceDataInLayer(file, frame.layer, frame.original_index))
              /\ file.seg.end \in Nat /\ file.seg.end <= planned.file.seg.end
              /\ \/ frame' = None
                 \/ \E n \in Nat :
                         frame' = [layer |-> frame.layer + 1, size |-> n,
                                   start |-> file.seg.end + 1,
                                   original_index |-> file.seg.end + 1]
      <3>1. PICK file :
              /\ ~Stops(planned.file, frame.layer)
              /\ Movable(file) /\ file.layer = planned.file.layer
              /\ file.seg.start = frame.start
              /\ Places(PlaceDataInLayer(file, frame.layer, frame.original_index))
              /\ file.seg.end \in Nat /\ file.seg.end <= planned.file.seg.end
              /\ \/ frame' = None
                 \/ \E n \in Nat :
                         frame' = [layer |-> frame.layer + 1, size |-> n,
                                   start |-> file.seg.end + 1,
                                   original_index |-> file.seg.end + 1]
        BY <2>3
      <3>2. planned'.file = planned.file
        <4>1. frame.original_index <= file.seg.start
          BY <2>1, <3>1, HereFacts
        <4> QED
          BY <2>1, <3>1, <4>1, PlacesKeeps
      <3>3. /\ Covers' /\ planned'.moves # <<>>
            /\ planned'.moves[Len(planned'.moves)].source.seg.end = file.seg.end
        BY <2>1, <3>1, <3>2, PlacesCovers
      <3>4. frame' # None => /\ frame'.start = file.seg.end + 1
                             /\ frame'.original_index = frame'.start
        BY <3>1
      <3> QED
        BY <3>3, <3>4 DEF CoverInv
    <2> QED
      BY <1>2, <2>2, <2>3, SolveCases
  <1>3. CASE PlaceReturns
    BY <1>3 DEF PlaceReturns, CoverInv, Planning
  <1>4. CASE UNCHANGED <<planned, frame>>
    <2>1. Covers' <=> Covers
      BY <1>4 DEF Covers
    <2> QED
      BY <1>4, <2>1 DEF CoverInv, Planning
  <1> QED
    BY <1>1, <1>2, <1>3, <1>4 DEF Next, Carry, Close, vars

(***************************************************************************)
(* The plan for data that starts at 0 reads it once, from the beginning    *)
(* and without a gap, in parts of at most SEGMENT_SIZE that are as long as *)
(* their destinations, for every file whose size is an int, and any number *)
(* of layers and free space: the cut of solve and the parts of             *)
(* PlaceDataInLayer fit together (max_bw_dpe.cpp:100-116, 131-166), and    *)
(* none of the ints of SplitInParts overflows before the size itself does. *)
(***************************************************************************)
THEOREM PlansCoverTheData == Spec => []PlanCovers
  <1>1. Init => CoverInv
    BY DEF Init, CoverInv, Planning
  <1>2. PlaceInv /\ PlaceInv' /\ CoverInv /\ [Next]_vars => CoverInv'
    BY CoverInvStep
  <1>3. CoverInv => PlanCovers
    BY DEF CoverInv, PlanCovers, Covers, Planning
  <1> QED
    BY <1>1, <1>2, <1>3, PlaceInvHolds, PTL DEF Spec

----------------------------------------------------------------------------
(* The cache of the usage. *)

LEMMA RowSame ==
  ASSUME TypeOK, TypeOK', NEW l \in Buffered,
         \A i \in Names : bytes'[l][i] = bytes[l][i]
  PROVE  Usage(l)' = Usage(l)
  <1>1. bytes[l] \in [Names -> Nat \cup {None}] /\ bytes'[l] \in [Names -> Nat \cup {None}]
    BY DEF TypeOK
  <1>2. bytes'[l] = bytes[l]
    BY <1>1
  <1> QED
    BY <1>2, UsageSame

(* A layer that is not asked about and not changed. *)
LEMMA CacheKept ==
  ASSUME CacheExact, NEW l \in Files, layerCapacity'[l] = layerCapacity[l],
         hasChanged[l] => hasChanged'[l], Usage(l)' = Usage(l), Cached(l)'
  PROVE  layerCapacity'[l] = Usage(l)'
  <1>1. layerCapacity'[l] # None /\ ~hasChanged'[l]
    BY DEF Cached
  <1>2. Cached(l)
    BY <1>1 DEF Cached
  <1> QED
    BY <1>2 DEF CacheExact

LEMMA CacheStep ==
  ASSUME PlaceInv, PlaceInv', CacheExact, [Next]_vars
  PROVE  CacheExact'
  <1>1. TypeOK /\ TypeOK' /\ Files \subseteq Buffered
    BY FilesAre DEF PlaceInv
  <1>2. ASSUME UNCHANGED <<bytes, layerCapacity, hasChanged>> PROVE CacheExact'
    <2>1. \A l \in Files : Usage(l)' = Usage(l)
      BY <1>2, UsageSame
    <2> QED
      BY <1>2, <2>1, CacheKept DEF CacheExact
  <1>3. ASSUME SolveLayer PROVE CacheExact'
    <2> DEFINE at == frame.layer
    <2>1. bytes' = bytes /\ Measured(at)
      BY <1>3 DEF SolveLayer
    <2> HIDE DEF at
    <2>2. \A l \in Files : Usage(l)' = Usage(l)
      BY <2>1, UsageSame
    <2>3. ASSUME NEW l \in Files, Cached(l)' PROVE layerCapacity'[l] = Usage(l)'
      <3>1. CASE l = at
        <4>1. layerCapacity'[l] = GetCurrentUsage(l)
          BY <2>1, <3>1 DEF Measured
        <4> QED
          BY <1>1, <2>2, <4>1, CurrentExact
      <3>2. CASE l # at
        <4>1. layerCapacity'[l] = layerCapacity[l]
          BY <2>1, <3>2 DEF Measured
        <4>2. hasChanged' = [k \in Files |-> hasChanged[k] /\ k # at]
          BY <2>1 DEF Measured
        <4>3. hasChanged[l] => hasChanged'[l]
          BY <3>2, <4>2, Zenon
        <4> QED
          BY <2>2, <2>3, <4>1, <4>3, CacheKept
      <3> QED
        BY <3>1, <3>2
    <2> QED
      BY <2>3 DEF CacheExact
  <1>4. ASSUME Carry PROVE CacheExact'
    <2> DEFINE p == Round
               to == p.destination.layer
               fails == ReadFails(p.source)
    <2>1. /\ layerCapacity' = [k \in Files |-> IF k = to THEN GetCurrentUsage(k)
                                               ELSE layerCapacity[k]]
          /\ hasChanged' = [k \in Files |-> IF k \in Changes(p) /\ ~fails THEN TRUE
                                            ELSE hasChanged[k] /\ k # to]
      BY <1>4 DEF Carry, Move, Round
    <2>2. \A l \in Buffered : l \notin Changes(p) \/ fails =>
            \A i \in Names : bytes'[l][i] = bytes[l][i]
      BY <1>4, CarryBytes DEF Changes
    <2> HIDE DEF p, fails, to
    <2>3. ASSUME NEW l \in Files, Cached(l)' PROVE layerCapacity'[l] = Usage(l)'
      <3>1. ~hasChanged'[l]
        BY <2>3 DEF Cached
      <3>2. l \notin Changes(p) \/ fails
        BY <2>1, <3>1, Zenon
      <3>3. Usage(l)' = Usage(l)
        BY <1>1, <2>2, <3>2, RowSame
      <3>4. CASE l = to
        <4>1. layerCapacity'[l] = GetCurrentUsage(l)
          BY <2>1, <3>4
        <4> QED
          BY <1>1, <3>3, <4>1, CurrentExact
      <3>5. CASE l # to
        <4>1. layerCapacity'[l] = layerCapacity[l]
          BY <2>1, <3>5
        <4>2. hasChanged[l] => hasChanged'[l]
          BY <2>1, <3>5, Zenon
        <4> QED
          BY <2>3, <3>3, <4>1, <4>2, CacheKept
      <3> QED
        BY <3>4, <3>5
    <2> QED
      BY <2>3 DEF CacheExact
  <1>5. ASSUME Close PROVE CacheExact'
    <2>1. PICK l \in Buffered, n \in Names, s \in SegNat :
             /\ bytes' = [bytes EXCEPT ![l][n] = Deleted(l, bytes[l][n], s)]
             /\ hasChanged' = [k \in Files |-> k = l \/ hasChanged[k]]
      BY <1>5, CloseFacts
    <2>2. layerCapacity' = layerCapacity
      BY <1>5 DEF Close
    <2>3. ASSUME NEW k \in Files, Cached(k)' PROVE layerCapacity'[k] = Usage(k)'
      <3>1. ~hasChanged'[k]
        BY <2>3 DEF Cached
      <3>2. k # l /\ (hasChanged[k] => hasChanged'[k])
        BY <2>1, <3>1, Zenon
      <3>3. bytes'[k] = bytes[k]
        BY <1>1, <2>1, <3>2 DEF TypeOK
      <3>4. Usage(k)' = Usage(k)
        BY <3>3, UsageSame
      <3> QED
        BY <2>2, <2>3, <3>2, <3>4, CacheKept
    <2> QED
      BY <2>3 DEF CacheExact
  <1> QED
    BY <1>2, <1>3, <1>4, <1>5 DEF Next, PlaceSegment, PlaceReturns, vars

(***************************************************************************)
(* A usage that a file client serves from its cache is what du would say,  *)
(* whatever was written, deleted and measured since the program began: a   *)
(* flag that is cleared by a measurement is set by every later change, and *)
(* a move that fails changes nothing (shared_file_client.cpp:78-98).       *)
(***************************************************************************)
THEOREM CachedUsageIsExact == Spec => []CacheExact
  <1>1. Init => CacheExact
    BY DEF Init, CacheExact, Cached
  <1>2. PlaceInv /\ PlaceInv' /\ CacheExact /\ [Next]_vars => CacheExact'
    BY CacheStep
  <1> QED
    BY <1>1, <1>2, PlaceInvHolds, PTL DEF Spec

----------------------------------------------------------------------------
(* The capacity of a layer. *)

(* A step that changes one buffer of a layer. *)
LEMMA UsageChange ==
  ASSUME TypeOK, TypeOK', NEW l \in Buffered, NEW n \in Names,
         \A i \in Names : i # n => bytes'[l][i] = bytes[l][i]
  PROVE  /\ Usage(l)' = Usage(l) + Takes(l, bytes'[l][n]) - Takes(l, bytes[l][n])
         /\ Usage(l) \in Nat /\ Takes(l, bytes'[l][n]) \in Nat /\ Takes(l, bytes[l][n]) \in Nat
  <1> DEFINE f == [i \in Names |-> Takes(l, bytes[l][i])]
             g == [i \in Names |-> Takes(l, bytes'[l][i])]
  <1>1. Usage(l) = Sum(f) /\ Usage(l)' = Sum(g)
    BY DEF Usage, Takes
  <1>2. \A i \in Names : bytes[l][i] \in Nat \cup {None} /\ bytes'[l][i] \in Nat \cup {None}
    BY DEF TypeOK
  <1>3. \A i \in Names : Takes(l, bytes[l][i]) \in Nat /\ Takes(l, bytes'[l][i]) \in Nat
    BY <1>2, TakesNat
  <1>4. /\ DOMAIN f = Names /\ DOMAIN g = Names
        /\ \A i \in Names : f[i] \in Nat /\ g[i] \in Nat
        /\ \A i \in Names : i # n => g[i] = f[i]
        /\ g[n] = Takes(l, bytes'[l][n]) /\ f[n] = Takes(l, bytes[l][n])
    BY <1>3
  <1>5. IsFiniteSet(Names)
    BY FS_Interval, Constants DEF Names
  <1> HIDE DEF f, g
  <1>6. Sum(g) = Sum(f) + g[n] - f[n]
    BY <1>4, <1>5, SumChange
  <1>7. Usage(l) \in Nat
    BY UsageNat
  <1> QED
    BY <1>1, <1>3, <1>4, <1>6, <1>7

(* A layer that has room for what is asked has it in its buffers. *)
LEMMA RoomIsReal ==
  ASSUME TypeOK, CacheExact, NEW l \in Buffered, NEW amount \in 1 .. SegmentSize
  PROVE  /\ HasCapacity(amount, l) => Usage(l) + amount <= Capacity[l]
         /\ MakeCapacityFails(amount, l)
  <1>1. /\ Capacity[l] \in Nat /\ Capacity[l] >= SegmentSize /\ SegmentSize \in Nat
        /\ Usage(l) \in Nat /\ GetCurrentUsage(l) = Usage(l)
    BY Constants, UsageNat, CurrentExact
  <1>2. ASSUME HasCapacity(amount, l) PROVE Usage(l) + amount <= Capacity[l]
    <2>1. Remaining(l) >= amount
      BY <1>2 DEF HasCapacity
    <2>2. Remaining(l) = IF Capacity[l] < Usage(l) THEN 0 ELSE Capacity[l] - Usage(l)
      BY <1>1 DEF Remaining
    <2> QED
      BY <1>1, <2>1, <2>2
  <1>3. MakeCapacityFails(amount, l)
    <2>1. Capacity[l] >= amount
      BY <1>1
    <2> QED
      BY <2>1 DEF MakeCapacityFails, CanFit
  <1> QED
    BY <1>2, <1>3

(* No step takes a layer over its capacity unnoticed. *)
LEMMA OverflowStep ==
  ASSUME PlaceInv, PlaceInv', CacheExact, [Next]_vars, NEW l \in Buffered,
         Usage(l)' > Usage(l), Usage(l)' > Capacity[l]
  PROVE  GivesUpOn(l) \/ Lengthens(l)
  <1>1. TypeOK /\ TypeOK'
    BY DEF PlaceInv
  <1>2. Usage(l) \in Nat /\ Capacity[l] \in Nat
    BY <1>1, UsageNat, Constants
  <1>3. ASSUME UNCHANGED bytes PROVE FALSE
    <2>1. Usage(l)' = Usage(l)
      BY <1>3, UsageSame
    <2> QED
      BY <1>2, <2>1
  <1>4. ASSUME Carry, ~GivesUpOn(l) PROVE Lengthens(l)
    <2> DEFINE p == Round
               n == Given
               to == p.destination.layer
               amount == GetSize(p.destination.seg)
               fails == ReadFails(p.source)
    <2>1. /\ to # p.source.layer /\ to \in Buffered /\ n \in Names
          /\ p.source.seg \in SegNat /\ NonEmpty(p.source.seg)
          /\ p.destination.seg \in SegNat /\ NonEmpty(p.destination.seg)
          /\ p.destination.seg.start = 0 /\ amount \in 1 .. SegmentSize
          /\ p.source.layer \in Files => bytes[p.source.layer][n] # None
      <3>1. MoveOK(p)
        BY <1>4, CarryFacts
      <3>2. amount \in 1 .. SegmentSize
        BY <3>1 DEF MoveOK
      <3>3. Last \notin Files
        BY Constants DEF Files, Buffered
      <3> QED
        BY <1>4, <3>2, <3>3, CarryFacts
    <2>2. /\ l = to => HasCapacity(amount, l)
          /\ \A m \in Names : /\ bytes[l][m] # None /\ bytes'[l][m] # None
                              /\ bytes'[l][m] > bytes[l][m]
                              /\ ~(l = to /\ l \in Files)
                              => Lengthens(l)
      BY <1>4 DEF Carry, GivesUpOn, Lengthens, Round
    <2>3. \A i \in Names :
             \/ bytes'[l][i] = bytes[l][i]
             \/ /\ ~fails /\ l = to /\ i = n
                /\ bytes'[l][i] = Written(l, bytes[l][i], p.destination.seg)
             \/ /\ ~fails /\ l = p.source.layer /\ i = n
                /\ bytes'[l][i] = Deleted(l, bytes[l][i], p.source.seg)
      BY <1>4, CarryBytes
    <2> HIDE DEF p, n, to, amount, fails
    <2>4. \A i \in Names : i # n => bytes'[l][i] = bytes[l][i]
      BY <2>3
    <2>5. /\ Usage(l)' = Usage(l) + Takes(l, bytes'[l][n]) - Takes(l, bytes[l][n])
          /\ Takes(l, bytes'[l][n]) \in Nat /\ Takes(l, bytes[l][n]) \in Nat
      BY <1>1, <2>1, <2>4, UsageChange
    <2>6. ~(Takes(l, bytes'[l][n]) <= Takes(l, bytes[l][n]))
      BY <1>2, <2>5
    <2>7. bytes[l][n] \in Nat \cup {None}
      BY <1>1, <2>1 DEF TypeOK
    <2>8. CASE bytes'[l][n] = bytes[l][n]
      BY <2>5, <2>6, <2>8
    <2>9. CASE l = to /\ bytes'[l][n] = Written(l, bytes[l][n], p.destination.seg)
      <3>1. Usage(l) + amount <= Capacity[l]
        BY <1>1, <2>1, <2>2, <2>9, RoomIsReal
      <3>2. ~(Takes(l, bytes'[l][n]) <= Takes(l, bytes[l][n]) + amount)
        BY <1>2, <2>1, <2>5, <3>1
      <3>3. /\ l \in Memory /\ bytes[l][n] # None /\ bytes'[l][n] > bytes[l][n]
            /\ bytes'[l][n] \in Nat
        BY <2>1, <2>7, <2>9, <3>2, WrittenFacts DEF amount
      <3>4. l \notin Files /\ bytes'[l][n] # None
        BY <3>3, FilesAre, Constants
      <3> QED
        BY <2>1, <2>2, <3>3, <3>4
    <2>10. CASE l = p.source.layer /\ bytes'[l][n] = Deleted(l, bytes[l][n], p.source.seg)
      <3>1. bytes[l][n] # None /\ bytes'[l][n] # None /\ bytes'[l][n] > bytes[l][n]
        BY <2>1, <2>6, <2>7, <2>10, DeletedFacts
      <3>2. l # to
        BY <2>1, <2>10
      <3> QED
        BY <2>1, <2>2, <3>1, <3>2
    <2> QED
      BY <2>1, <2>3, <2>8, <2>9, <2>10
  <1>5. ASSUME Close PROVE Lengthens(l)
    <2>1. PICK k \in Buffered, n \in Names, s \in SegNat :
             /\ NonEmpty(s)
             /\ k \in Files => bytes[k][n] # None
             /\ bytes' = [bytes EXCEPT ![k][n] = Deleted(k, bytes[k][n], s)]
      BY <1>5, CloseFacts
    <2>2. phase # "carry"
      BY <1>5 DEF Close
    <2>3. CASE k # l
      <3>1. bytes'[l] = bytes[l]
        BY <1>1, <2>1, <2>3 DEF TypeOK
      <3>2. Usage(l)' = Usage(l)
        BY <3>1, UsageSame
      <3> QED
        BY <1>2, <3>2
    <2>4. CASE k = l
      <3>1. /\ \A i \in Names : i # n => bytes'[l][i] = bytes[l][i]
            /\ bytes'[l][n] = Deleted(l, bytes[l][n], s)
            /\ bytes[l][n] \in Nat \cup {None}
        BY <1>1, <2>1, <2>4 DEF TypeOK
      <3>2. /\ Usage(l)' = Usage(l) + Takes(l, bytes'[l][n]) - Takes(l, bytes[l][n])
            /\ Takes(l, bytes'[l][n]) \in Nat /\ Takes(l, bytes[l][n]) \in Nat
        BY <1>1, <3>1, UsageChange
      <3>3. ~(Takes(l, bytes'[l][n]) <= Takes(l, bytes[l][n]))
        BY <1>2, <3>2
      <3>4. bytes[l][n] # None /\ bytes'[l][n] # None /\ bytes'[l][n] > bytes[l][n]
        BY <2>1, <2>4, <3>1, <3>3, DeletedFacts
      <3> QED
        BY <2>2, <3>4 DEF Lengthens
    <2> QED
      BY <2>3, <2>4
  <1> QED
    BY <1>3, <1>4, <1>5 DEF Next, PlaceSegment, SolveLayer, PlaceReturns, vars

(***************************************************************************)
(* A step that takes a layer over its capacity, or further over it, is one *)
(* in which HasCapacity has said that there is no room and MakeCapacity    *)
(* gives up, or one that makes a buffer longer than was asked for.  The    *)
(* moves of one event are planned with one measurement, and solve asks for *)
(* the size of a key, which may be far below that of the data it then      *)
(* plans; but the check before each move (data_manager.h:62, 72) uses a    *)
(* usage that is exact, and a move adds no more than it asks for.          *)
(***************************************************************************)
THEOREM OverflowsAreNoticed == Spec => OverflowIsNoticed
  <1> DEFINE Noticed == \A l \in Buffered :
                           Usage(l)' > Usage(l) /\ Usage(l)' > Capacity[l] =>
                               GivesUpOn(l) \/ Lengthens(l)
  <1>1. PlaceInv /\ PlaceInv' /\ CacheExact /\ [Next]_vars => [Noticed]_vars
    BY OverflowStep
  <1>2. OverflowIsNoticed <=> [][Noticed]_vars
    BY PTL DEF OverflowIsNoticed
  <1> QED
    BY <1>1, <1>2, PlaceInvHolds, CachedUsageIsExact, PTL DEF Spec
=============================================================================
