------------------------------ MODULE Segments ------------------------------
(***************************************************************************)
(* struct Segment of common/data_structure.h: a range of bytes of a file,  *)
(* both ends included, and the operations the auditor builds its maps      *)
(* with.  An empty range has end = start - 1 (what fread and fopen produce *)
(* for zero bytes).                                                        *)
(***************************************************************************)
EXTENDS Integers, Sequences

Seg(first, last) == [start |-> first, end |-> last]

GetSize(s) == s.end - s.start + 1

(* The bytes a segment stands for. *)
Bytes(s) == s.start .. s.end

(* bool Segment::Contains(o): despite its name, true also when o only ends  *)
(* inside s.                                                                *)
Contains(s, o) ==
    \/ s.start <= o.start /\ s.end >= o.end
    \/ s.start <= o.end /\ s.end >= o.end

\* Mutant of Meets: the second test is forgotten.
MeetsOneSided(q, s) == Contains(q, s)

(* The test of DistributedMap::ContainsInServer on a key s and a query q. *)
Meets(q, s) == Contains(q, s) \/ Contains(s, q)

\* Mutant of Intersect: the far end is kept.
IntersectFar(s, o) ==
    Seg(IF s.start < o.start THEN o.start ELSE s.start, s.end)

(* Segment Segment::Intersect(o) *)
Intersect(s, o) ==
    Seg(IF s.start < o.start THEN o.start ELSE s.start,
        IF s.end < o.end THEN s.end ELSE o.end)

(* std::vector<Segment> Segment::Substract(o), as the set of the pieces.    *)
(* The right piece is cut from what the left test has left of s; its own    *)
(* start is replaced, so the two tests do not interfere.                    *)
SubstractLeft(s, o) ==
    IF s.start < o.start /\ s.end >= o.end
    THEN {Seg(s.start, o.start - 1)} ELSE {}

\* Mutant of SubstractRight: the byte after the last one read is dropped.
SubstractRightGap(s, o) ==
    IF s.start <= o.end /\ s.end > o.end
    THEN {Seg(o.end + 2, s.end)} ELSE {}

SubstractRight(s, o) ==
    IF s.start <= o.end /\ s.end > o.end
    THEN {Seg(o.end + 1, s.end)} ELSE {}

Substract(s, o) == SubstractLeft(s, o) \cup SubstractRight(s, o)

----------------------------------------------------------------------------
(* Reference notions, and what is promised of the operations. *)

NonEmpty(s) == s.start <= s.end

Overlap(s, o) == Bytes(s) \cap Bytes(o) # {}

Partition(pieces, bytes) ==
    /\ UNION {Bytes(p) : p \in pieces} = bytes
    /\ \A p, q \in pieces : p # q => Bytes(p) \cap Bytes(q) = {}

(***************************************************************************)
(* Substract(s, o), for any o that overlaps s, cuts the bytes of s that    *)
(* are not in o into disjoint pieces; but if o sticks out of s on the      *)
(* right only, it returns no piece at all and those bytes are lost.        *)
(***************************************************************************)
SubstractExactFor(s, o) ==
    Overlap(s, o) =>
        IF s.start < o.start /\ s.end < o.end THEN Substract(s, o) = {}
        ELSE Partition(Substract(s, o), Bytes(s) \ Bytes(o))

(***************************************************************************)
(* Intersect returns exactly the common bytes of two segments, also when   *)
(* there are none.                                                         *)
(***************************************************************************)
IntersectExactFor(s, o) == Bytes(Intersect(s, o)) = Bytes(s) \cap Bytes(o)

(***************************************************************************)
(* Although Contains alone is one-sided, ContainsInServer's test with both *)
(* orders is true exactly for the non-empty segments that overlap.         *)
(***************************************************************************)
MeetsIsOverlapFor(s, o) ==
    NonEmpty(s) /\ NonEmpty(o) => (Meets(s, o) <=> Overlap(s, o))
=============================================================================
