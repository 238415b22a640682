----------------------------- MODULE SegmentMap -----------------------------
(***************************************************************************)
(* The heat map of one file: FileSegmentAuditor's SegmentMap, a            *)
(* DistributedMap<Segment, (PosixFile, SegmentScore)> in shared memory that *)
(* says, piece by piece, how hot the file is and to which layer each piece *)
(* was copied.  One worker updates it, one map operation at a time         *)
(* (IncreaseFileSegmentFrequency for a read, UpdateOnMove for a move);     *)
(* application processes look it up at any moment (GetDataLocation).       *)
(*                                                                         *)
(* std::map orders the keys by Segment::operator<, which compares only the *)
(* starts: the map is a function from starts to entries, and an entry      *)
(* carries the end of its key.  Of the PosixFile of an entry the model     *)
(* keeps the layer and, as a history, base: the file offset of the first   *)
(* byte of the buffer it names.                                            *)
(***************************************************************************)
EXTENDS Segments

CONSTANTS
    Size,           \* bytes of the file when it was first opened
    LAST,           \* the id of Layer::LAST, where the file itself is
    ReadSizes,      \* sizes an application asks fread for
    Weights,        \* what a read may add to lrf: pow(.5, ...), rounded
    MaxReads,       \* bound: reads
    MaxMoves        \* bound: moves

Layers == 1 .. LAST             \* Layer::id_; 1 is Layer::FIRST
Buffers == 1 .. (LAST - 1)

ASSUME SegmentMapAssumption ==
    /\ Size \in Nat \ {0}
    /\ LAST \in Nat \ {0}
    /\ ReadSizes \subseteq Nat
    /\ Weights \subseteq Nat
    /\ MaxReads \in Nat
    /\ MaxMoves \in Nat

VARIABLES
    smap,           \* the map: start -> entry
    layer_score,    \* layer -> its (score, segment) pairs, for this file
    pc,             \* the worker: "idle" or what it does next
    op,             \* the event it handles: a read or a move
    todo,           \* starts of the elements of allDatas still to visit
    cur,            \* the element being visited: its key and its entry
    left,           \* left-overs of cur still to Put
    reads, moves    \* events so far

\* History: the reads that covered each byte, the layer to which it was last
\* copied from the file, and the layer to which it was last moved at all.
VARIABLES hits, home, at

vars == <<smap, layer_score, pc, op, todo, cur, left, reads, moves, hits, home, at>>

File == 0 .. (Size - 1)

Entry == [end : Int, layer : Layers, base : Nat, freq : Nat, lrf : Nat,
          scored : BOOLEAN]

Key(m, k) == Seg(k, m[k].end)

GetScore(e) == e.lrf    \* DEFAULT_SCORE_TYPE is LRF_SCORE

----------------------------------------------------------------------------
(* DistributedMap operations on one server. *)

(* Put: a key with the same start is replaced. *)
MapPut(m, s, e) ==
    [k \in DOMAIN m \cup {s.start} |->
        IF k = s.start THEN [e EXCEPT !.end = s.end] ELSE m[k]]

MapErase(m, k) == [j \in DOMAIN m \ {k} |-> m[j]]

(* ContainsInServer(q): an only element is returned whatever it is.  Else   *)
(* the scan starts at the first key that is not less than q, or at the one  *)
(* before it if that ends inside q, and takes keys as long as q contains    *)
(* the key or the key contains q.                                           *)
ScanFrom(m, q) ==
    LET notLess == {k \in DOMAIN m : k >= q.start}
        least   == CHOOSE k \in notLess : \A j \in notLess : k <= j
        before  == {k \in DOMAIN m : /\ k < q.start
                                     /\ \A j \in DOMAIN m : j < q.start => j <= k
                                     /\ Contains(q, Key(m, k))}
    IN  IF before = {} THEN least ELSE CHOOSE k \in before : TRUE

ContainsInServer(m, q) ==
    IF \A j, k \in DOMAIN m : j = k THEN DOMAIN m    \* size() <= 1
    ELSE IF \A k \in DOMAIN m : k < q.start THEN {}
    ELSE {k \in DOMAIN m :
            /\ ScanFrom(m, q) <= k
            /\ \A j \in DOMAIN m :
                  ScanFrom(m, q) <= j /\ j <= k => Meets(q, Key(m, j))}

----------------------------------------------------------------------------
NoOp == [kind |-> "none", seg |-> Seg(0, -1), layer |-> LAST, weight |-> 0]
NoElement == [seg |-> Seg(0, -1),
              entry |-> [end |-> -1, layer |-> LAST, base |-> 0, freq |-> 0,
                         lrf |-> 0, scored |-> FALSE]]

(* CreateOffsetMap has put the whole file, unread, in the last layer. *)
Init ==
    /\ smap = [k \in {0} |-> [end |-> Size - 1, layer |-> LAST, base |-> 0,
                              freq |-> 0, lrf |-> 0, scored |-> FALSE]]
    /\ layer_score = [l \in Layers |-> {}]
    /\ pc = "idle"
    /\ op = NoOp
    /\ todo = {}
    /\ cur = NoElement
    /\ left = {}
    /\ reads = 0
    /\ moves = 0
    /\ hits = [b \in File |-> 0]
    /\ home = [b \in File |-> LAST]
    /\ at = [b \in File |-> LAST]

(* A FILE_READ event.  The library reports every read as the segment        *)
(* [0, n - 1]: its current_offset is the value fseek returns, which is 0.   *)
(* n may go past the end of the file.                                       *)
StartRead ==
    /\ pc = "idle" /\ reads < MaxReads
    /\ \E n \in ReadSizes, w \in Weights :
          /\ op' = [kind |-> "read", seg |-> Seg(0, n - 1), layer |-> LAST,
                    weight |-> w]
          /\ hits' = [b \in File |-> IF b < n THEN hits[b] + 1 ELSE hits[b]]
          /\ todo' = ContainsInServer(smap, Seg(0, n - 1))
    /\ reads' = reads + 1
    /\ pc' = "visit"
    /\ UNCHANGED <<smap, layer_score, cur, left, moves, home, at>>

(* UpdateOnMove(source, destination) after a prefetch from the file itself. *)
(* The sources that the placement engine builds are consecutive from offset *)
(* 0: each begins where a key begins.  The bytes may be in a buffer already: *)
(* every key that is left in the last layer has the whole file planned.     *)
StartMove ==
    /\ pc = "idle" /\ moves < MaxMoves
    /\ \E k \in DOMAIN smap, last \in File, l \in Buffers :
          /\ k <= last
          /\ op' = [kind |-> "move", seg |-> Seg(k, last), layer |-> l,
                    weight |-> 0]
          /\ home' = [b \in File |-> IF b \in k .. last THEN l ELSE home[b]]
          /\ at' = [b \in File |-> IF b \in k .. last THEN l ELSE at[b]]
          /\ todo' = ContainsInServer(smap, Seg(k, last))
    /\ moves' = moves + 1
    /\ pc' = "visit"
    /\ UNCHANGED <<smap, layer_score, cur, left, reads, hits>>

(* The bytes that the map has in the buffer that the entry of k names: they *)
(* were copied to that layer from the same offset on.                       *)
InBuffer(k) ==
    {b \in File : \E j \in DOMAIN smap : /\ b \in Bytes(Key(smap, j))
                                         /\ smap[j].layer = smap[k].layer
                                         /\ smap[j].base = smap[k].base}

(* UpdateOnMove after bytes of a buffer have been moved to one of the same  *)
(* name in a layer further up.  No map is found for the name of a buffer:   *)
(* nothing is recorded, and the buffer may be moved again.                  *)
MoveBuffer ==
    /\ pc = "idle" /\ moves < MaxMoves
    /\ \E k \in DOMAIN smap :
          /\ smap[k].layer # LAST
          /\ \E l \in 1 .. (smap[k].layer - 1), part \in SUBSET InBuffer(k) :
                at' = [b \in File |-> IF b \in part THEN l ELSE at[b]]
    /\ moves' = moves + 1
    /\ UNCHANGED <<smap, layer_score, pc, op, todo, cur, left, reads, hits, home>>

\* Mutant of EraseElement: the iterator is not advanced.
EraseElementAgain ==
    /\ pc = "visit"
    /\ \E k \in todo :
          /\ \A j \in todo : k <= j
          /\ cur' = [seg |-> Key(smap, k), entry |-> smap[k]]
          /\ smap' = MapErase(smap, k)
          /\ left' = Substract(Key(smap, k), op.seg)
    /\ pc' = "put"
    /\ UNCHANGED <<layer_score, op, todo, reads, moves, hits, home, at>>

(* The loop over allDatas takes the next element and erases its key. *)
EraseElement ==
    /\ pc = "visit"
    /\ \E k \in todo :
          /\ \A j \in todo : k <= j
          /\ cur' = [seg |-> Key(smap, k), entry |-> smap[k]]
          /\ smap' = MapErase(smap, k)
          /\ todo' = todo \ {k}
          /\ left' = Substract(Key(smap, k), op.seg)
    /\ pc' = "put"
    /\ UNCHANGED <<layer_score, op, reads, moves, hits, home, at>>

\* Mutant of PutLeftOver: the left-over loses its scores.
PutLeftOverCold ==
    /\ pc = "put"
    /\ \E s \in left :
          /\ smap' = MapPut(smap, s, [cur.entry EXCEPT !.freq = 0, !.scored = FALSE])
          /\ left' = left \ {s}
    /\ UNCHANGED <<layer_score, pc, op, todo, cur, reads, moves, hits, home, at>>

(* Put(left_over, elements.second): the left-over keeps layer and scores. *)
PutLeftOver ==
    /\ pc = "put"
    /\ \E s \in left :
          /\ smap' = MapPut(smap, s, [cur.entry EXCEPT !.scored = FALSE])
          /\ left' = left \ {s}
    /\ UNCHANGED <<layer_score, pc, op, todo, cur, reads, moves, hits, home, at>>

(* What the visit makes of the entry for the bytes of the event. *)
Updated(e) ==
    IF op.kind = "read"
    THEN [e EXCEPT !.freq = e.freq + 1, !.lrf = e.lrf + op.weight, !.scored = TRUE]
    ELSE [e EXCEPT !.layer = op.layer, !.base = op.seg.start, !.scored = TRUE]

Common == Intersect(op.seg, cur.seg)

(* Put(common, elements.second), then the pair of the element in the scores *)
(* of the layer it is in NOW is replaced by one for the common part.  Only  *)
(* this worker reads the scores, so the two go together.                    *)
Rescored(pairs) ==
    (pairs \ {<<GetScore(cur.entry), cur.seg>>})
        \cup {<<GetScore(Updated(cur.entry)), Common>>}

\* Mutant of PutCommon: the destination of the move is not recorded.
PutCommonInPlace ==
    /\ pc = "put" /\ left = {}
    /\ LET e == [Updated(cur.entry) EXCEPT !.layer = cur.entry.layer]
       IN  /\ smap' = MapPut(smap, Common, e)
           /\ layer_score' = [layer_score EXCEPT ![e.layer] = Rescored(@)]
    /\ pc' = "visit"
    /\ cur' = NoElement
    /\ UNCHANGED <<op, todo, left, reads, moves, hits, home, at>>

\* Mutant of PutCommon: the new pair is filed under the layer it came from.
PutCommonScoreBehind ==
    /\ pc = "put" /\ left = {}
    /\ smap' = MapPut(smap, Common, Updated(cur.entry))
    /\ layer_score' = [layer_score EXCEPT ![cur.entry.layer] = Rescored(@)]
    /\ pc' = "visit"
    /\ cur' = NoElement
    /\ UNCHANGED <<op, todo, left, reads, moves, hits, home, at>>

PutCommon ==
    /\ pc = "put" /\ left = {}
    /\ LET e == Updated(cur.entry)
       IN  /\ smap' = MapPut(smap, Common, e)
           /\ layer_score' = [layer_score EXCEPT ![e.layer] = Rescored(@)]
    /\ pc' = "visit"
    /\ cur' = NoElement
    /\ UNCHANGED <<op, todo, left, reads, moves, hits, home, at>>

FinishEvent ==
    /\ pc = "visit" /\ todo = {}
    /\ pc' = "idle"
    /\ op' = NoOp
    /\ UNCHANGED <<smap, layer_score, todo, cur, left, reads, moves, hits, home, at>>

AllEventsHandled ==
    /\ pc = "idle" /\ reads = MaxReads /\ moves = MaxMoves
    /\ UNCHANGED vars

Next ==
    \/ StartRead \/ StartMove \/ MoveBuffer
    \/ EraseElement \/ PutLeftOver \/ PutCommon \/ FinishEvent
    \/ AllEventsHandled

Spec == Init /\ [][Next]_vars

----------------------------------------------------------------------------
TypeOK ==
    /\ DOMAIN smap \subseteq Int
    /\ \A k \in DOMAIN smap : smap[k] \in Entry
    /\ \A l \in Layers : \A p \in layer_score[l] : p[1] \in Nat /\ p[2].start \in Int
    /\ pc \in {"idle", "visit", "put"}
    /\ todo \subseteq DOMAIN smap
    /\ reads \in 0 .. MaxReads
    /\ moves \in 0 .. MaxMoves
    /\ hits \in [File -> Nat]
    /\ home \in [File -> Layers]
    /\ at \in [File -> Layers]

(* The segments that are in the map, and those the worker holds. *)
Keys == {Key(smap, k) : k \in DOMAIN smap}

InTransit == IF pc = "put" THEN left \cup {Common} ELSE {}

(***************************************************************************)
(* At every step the keys of the map, and what the worker has taken out    *)
(* and not yet put back, cut the file into disjoint, non-empty pieces: no  *)
(* byte of the file is ever forgotten or described twice, whatever reads   *)
(* (past the end of the file too) and moves are handled.                   *)
(***************************************************************************)
Tiling ==
    /\ Partition(Keys \cup InTransit, File)
    /\ Keys \cap InTransit = {}
    /\ \A s \in Keys \cup InTransit : s.start <= s.end

(***************************************************************************)
(* Between events the frequency that the map has for a byte is the number  *)
(* of read events that covered it, through all the splits.                 *)
(***************************************************************************)
ExactHeat ==
    pc = "idle" =>
        \A k \in DOMAIN smap, b \in File :
            b \in Bytes(Key(smap, k)) => smap[k].freq = hits[b]

(***************************************************************************)
(* Between events the layer that the map has for a byte is the one it was  *)
(* last copied to from the file, through all the splits.  As the moves of  *)
(* buffers are not recorded, the byte may have gone further up; but it was *)
(* moved out of the file exactly when the map says that it is in a buffer  *)
(* (file_segment_auditor.cpp:56-72).                                       *)
(***************************************************************************)
ExactLayer ==
    pc = "idle" =>
        \A k \in DOMAIN smap, b \in File :
            b \in Bytes(Key(smap, k)) =>
                /\ smap[k].layer = home[b]
                /\ at[b] <= smap[k].layer
                /\ at[b] = LAST <=> smap[k].layer = LAST

(***************************************************************************)
(* What GetDataLocation finds for a read of n bytes: the parts of the file *)
(* described by the keys that ContainsInServer returns.                    *)
(***************************************************************************)
Located(n) ==
    UNION {Bytes(Intersect(Seg(0, n - 1), Key(smap, k))) :
              k \in ContainsInServer(smap, Seg(0, n - 1))}

(***************************************************************************)
(* A client that looks a read up while the worker is in the middle of an   *)
(* update misses at most the bytes the worker has in hand; nothing else is *)
(* hidden from it by the scan of ContainsInServer.                         *)
(***************************************************************************)
LookupMissesOnlyInTransit ==
    \A n \in 1 .. Size :
        0 .. (n - 1) \subseteq Located(n) \cup UNION {Bytes(s) : s \in InTransit}

(***************************************************************************)
(* The layer scores list every piece whose last update touched it as a     *)
(* whole, in the layer where it is and with the score it has.              *)
(***************************************************************************)
TouchedIsScored ==
    \A k \in DOMAIN smap :
        smap[k].scored =>
            <<GetScore(smap[k]), Key(smap, k)>> \in layer_score[smap[k].layer]

(***************************************************************************)
(* GetDataLocation sends a read of byte b of key k to offset b - k of the  *)
(* file it names; the byte is at offset b - base.  For the read to return  *)
(* the bytes of the file ("transparently", README.md:10) the two must      *)
(* agree.                                                                  *)
(***************************************************************************)
LocationExact ==
    pc = "idle" => \A k \in DOMAIN smap : smap[k].base = k
=============================================================================
