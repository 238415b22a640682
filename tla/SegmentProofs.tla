--------------------------- MODULE SegmentProofs ---------------------------
(***************************************************************************)
(* Theorems about the operations of Segments, for all integers, and the    *)
(* form of induction that the proofs about folds and recursive functions   *)
(* use.                                                                    *)
(***************************************************************************)
EXTENDS Segments, FiniteSetTheorems, WellFoundedInduction, TLAPS

SegType == [start : Int, end : Int]

(***************************************************************************)
(* Intersect returns the common bytes of any two segments.                 *)
(***************************************************************************)
THEOREM IntersectCorrect ==
  ASSUME NEW s \in SegType, NEW o \in SegType
  PROVE  IntersectExactFor(s, o)
  BY DEF IntersectExactFor, Intersect, Bytes, Seg, SegType

(***************************************************************************)
(* ContainsInServer's test decides overlap for any two non-empty segments. *)
(***************************************************************************)
THEOREM MeetsCorrect ==
  ASSUME NEW s \in SegType, NEW o \in SegType
  PROVE  MeetsIsOverlapFor(s, o)
  <1> SUFFICES ASSUME NonEmpty(s), NonEmpty(o)
               PROVE  Meets(s, o) <=> Overlap(s, o)
    BY DEF MeetsIsOverlapFor
  <1>1. ASSUME Meets(s, o) PROVE Overlap(s, o)
    <2>1. CASE Contains(s, o)
      <3>1. o.end \in Bytes(s) /\ o.end \in Bytes(o)
        BY <2>1 DEF Contains, Bytes, NonEmpty, SegType
      <3> QED BY <3>1 DEF Overlap
    <2>2. CASE Contains(o, s)
      <3>1. s.end \in Bytes(s) /\ s.end \in Bytes(o)
        BY <2>2 DEF Contains, Bytes, NonEmpty, SegType
      <3> QED BY <3>1 DEF Overlap
    <2> QED BY <1>1, <2>1, <2>2 DEF Meets
  <1>2. ASSUME Overlap(s, o) PROVE Meets(s, o)
    <2>1. PICK x \in Bytes(s) : x \in Bytes(o)
      BY <1>2 DEF Overlap
    <2> QED BY <2>1 DEF Meets, Contains, Bytes, SegType
  <1> QED BY <1>1, <1>2

(***************************************************************************)
(* Substract, for any two segments that overlap: it cuts A - B exactly     *)
(* unless B sticks out of A on the right only, and nothing then.           *)
(***************************************************************************)
THEOREM SubstractCorrect ==
  ASSUME NEW s \in SegType, NEW o \in SegType
  PROVE  SubstractExactFor(s, o)
  <1>a. ASSUME s.start < o.start /\ s.end < o.end
        PROVE  Substract(s, o) = {}
    BY <1>a DEF Substract, SubstractLeft, SubstractRight, SegType
  <1> SUFFICES ASSUME Overlap(s, o), ~(s.start < o.start /\ s.end < o.end)
               PROVE  Partition(Substract(s, o), Bytes(s) \ Bytes(o))
    BY <1>a DEF SubstractExactFor
  <1> DEFINE L == Seg(s.start, o.start - 1)
             R == Seg(o.end + 1, s.end)
  <1>0. PICK x \in Bytes(s) : x \in Bytes(o)
    BY DEF Overlap
  <1>1. /\ s.start \in Int /\ s.end \in Int /\ o.start \in Int /\ o.end \in Int
        /\ x \in Int /\ s.start <= x /\ x <= s.end /\ o.start <= x /\ x <= o.end
    BY <1>0 DEF Bytes, SegType
  <1>2. /\ L \in Substract(s, o) <=> s.start < o.start
        /\ R \in Substract(s, o) <=> s.end > o.end
        /\ \A p \in Substract(s, o) : p = L \/ p = R
    BY <1>1 DEF Substract, SubstractLeft, SubstractRight, Seg
  <1>3. /\ Bytes(L) = s.start .. (o.start - 1)
        /\ Bytes(R) = (o.end + 1) .. s.end
        /\ Bytes(L) \cap Bytes(R) = {}
        /\ Bytes(s) = s.start .. s.end
        /\ Bytes(o) = o.start .. o.end
    BY <1>1 DEF Bytes, Seg
  <1> HIDE DEF L, R
  <1>4. ASSUME NEW p \in Substract(s, o), NEW y \in Bytes(p)
        PROVE  y \in Bytes(s) \ Bytes(o)
    <2>1. CASE p = L
      BY <1>1, <1>3, <2>1
    <2>2. CASE p = R
      BY <1>1, <1>3, <2>2
    <2> QED BY <1>2, <2>1, <2>2
  <1>5. ASSUME NEW y \in Bytes(s) \ Bytes(o)
        PROVE  \E p \in Substract(s, o) : y \in Bytes(p)
    <2>0. y \in Int /\ s.start <= y /\ y <= s.end /\ (y < o.start \/ y > o.end)
      BY <1>1, <1>3, <1>5
    <2>1. CASE y < o.start
      <3>1. L \in Substract(s, o) /\ y \in Bytes(L)
        BY <1>1, <1>2, <1>3, <2>0, <2>1
      <3> QED BY <3>1
    <2>2. CASE y > o.end
      <3>1. R \in Substract(s, o) /\ y \in Bytes(R)
        BY <1>1, <1>2, <1>3, <2>0, <2>2
      <3> QED BY <3>1
    <2> QED BY <2>0, <2>1, <2>2
  <1>6. UNION {Bytes(p) : p \in Substract(s, o)} = Bytes(s) \ Bytes(o)
    BY <1>4, <1>5
  <1>7. \A p, q \in Substract(s, o) : p # q => Bytes(p) \cap Bytes(q) = {}
    BY <1>2, <1>3
  <1> QED BY <1>6, <1>7 DEF Partition

----------------------------------------------------------------------------
(* Induction as the choice of a least counterexample: a set of natural      *)
(* numbers that is not empty has a least element.                           *)
LEMMA Least ==
  ASSUME NEW T, T \subseteq Nat, T # {}
  PROVE  \E x \in T : \A y \in T : x <= y
  <1> DEFINE R == OpToRel(<, Nat)
  <1>1. \A x, y \in Nat : x < y => <<x, y>> \in R
    BY DEF OpToRel
  <1>2. IsWellFoundedOn(R, Nat)
    BY NatLessThanWellFounded, Zenon
  <1> HIDE DEF R
  <1>3. PICK x \in T : \A y \in T : <<y, x>> \notin R
    BY <1>2, WFMin
  <1>4. ASSUME NEW y \in T PROVE x <= y
    <2>1. x \in Nat /\ y \in Nat /\ ~(y < x)
      BY <1>1, <1>3
    <2> QED
      BY <2>1
  <1> QED
    BY <1>4

(* A set of subsets of a finite set has one with the fewest elements. *)
LEMMA Fewest ==
  ASSUME NEW D, IsFiniteSet(D), NEW B, B \subseteq SUBSET D, B # {}
  PROVE  \E s \in B : \A t \in B : Cardinality(s) <= Cardinality(t)
  <1> DEFINE T == {Cardinality(s) : s \in B}
  <1>1. \A s \in B : Cardinality(s) \in Nat
    BY FS_Subset, FS_CardinalityType
  <1>2. T \subseteq Nat /\ T # {}
    BY <1>1
  <1>3. PICK n \in T : \A m \in T : n <= m
    BY <1>2, Least
  <1> QED
    BY <1>3

LEMMA Smaller ==
  ASSUME NEW D, IsFiniteSet(D), NEW s \in SUBSET D, NEW x \in s
  PROVE  /\ s \ {x} \in SUBSET D
         /\ Cardinality(s) \in Nat /\ Cardinality(s \ {x}) \in Nat
         /\ Cardinality(s \ {x}) = Cardinality(s) - 1
  <1>1. IsFiniteSet(s)
    BY FS_Subset
  <1> QED
    BY <1>1, FS_RemoveElement, FS_CardinalityType
=============================================================================
