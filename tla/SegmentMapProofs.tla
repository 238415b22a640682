-------------------------- MODULE SegmentMapProofs --------------------------
(***************************************************************************)
(* Theorems about SegmentMap, for any file size, layers and sequence of    *)
(* events: the pieces of the heat map tile the file, and what the map says *)
(* is right for every byte.                                                *)
(***************************************************************************)
EXTENDS SegmentMap, SegmentProofs

LEMMA LayerFacts ==
  /\ LAST \in Nat \ {0} /\ LAST \in Layers
  /\ \A l \in Buffers : l \in Layers /\ l # LAST
  /\ \A l \in Layers : l \in Nat /\ l <= LAST
  BY SegmentMapAssumption DEF Layers, Buffers

----------------------------------------------------------------------------
(* The map as a set of keys, under Put and Erase. *)

KeysOf(m) == {Key(m, k) : k \in DOMAIN m}

MapType(m) == DOMAIN m \subseteq Int /\ \A k \in DOMAIN m : m[k] \in Entry

LEMMA PutKeys ==
  ASSUME NEW m, MapType(m), NEW s \in SegType, NEW e \in Entry, s.start \notin DOMAIN m
  PROVE  /\ MapType(MapPut(m, s, e))
         /\ DOMAIN MapPut(m, s, e) = DOMAIN m \cup {s.start}
         /\ \A k \in DOMAIN m : MapPut(m, s, e)[k] = m[k]
         /\ KeysOf(MapPut(m, s, e)) = KeysOf(m) \cup {s}
  <1> DEFINE n == MapPut(m, s, e)
  <1>1. DOMAIN n = DOMAIN m \cup {s.start}
    BY DEF MapPut
  <1>2. \A k \in DOMAIN m : n[k] = m[k]
    BY DEF MapPut
  <1>3. n[s.start] = [e EXCEPT !.end = s.end]
    BY DEF MapPut
  <1>4. n[s.start] \in Entry /\ n[s.start].end = s.end
    BY <1>3 DEF Entry, SegType
  <1> HIDE DEF n
  <1>5. MapType(n)
    BY <1>1, <1>2, <1>4 DEF MapType, SegType
  <1>6. Key(n, s.start) = s
    BY <1>4 DEF Key, Seg, SegType
  <1>7. \A k \in DOMAIN m : Key(n, k) = Key(m, k)
    BY <1>2 DEF Key
  <1>8. KeysOf(n) = KeysOf(m) \cup {s}
    BY <1>1, <1>6, <1>7 DEF KeysOf
  <1> QED BY <1>1, <1>2, <1>5, <1>8 DEF n

LEMMA EraseKeys ==
  ASSUME NEW m, MapType(m), NEW k \in DOMAIN m
  PROVE  /\ MapType(MapErase(m, k))
         /\ DOMAIN MapErase(m, k) = DOMAIN m \ {k}
         /\ \A j \in DOMAIN m \ {k} : MapErase(m, k)[j] = m[j]
         /\ KeysOf(MapErase(m, k)) = KeysOf(m) \ {Key(m, k)}
  <1> DEFINE n == MapErase(m, k)
  <1>1. DOMAIN n = DOMAIN m \ {k} /\ \A j \in DOMAIN m \ {k} : n[j] = m[j]
    BY DEF MapErase
  <1> HIDE DEF n
  <1>2. MapType(n)
    BY <1>1 DEF MapType
  <1>3. \A j \in DOMAIN m \ {k} : Key(n, j) = Key(m, j) /\ Key(m, j) # Key(m, k)
    BY <1>1 DEF Key, Seg
  <1>4. KeysOf(n) = KeysOf(m) \ {Key(m, k)}
    BY <1>1, <1>3 DEF KeysOf
  <1> QED BY <1>1, <1>2, <1>4 DEF n

----------------------------------------------------------------------------
(* The inductive invariant behind Tiling. *)

Pieces == Keys \cup InTransit

Within(p) == p \in SegType /\ 0 <= p.start /\ p.start <= p.end /\ p.end <= Size - 1

Apart(p, q) == p.end < q.start \/ q.end < p.start

WorkerType ==
    /\ MapType(smap)
    /\ pc \in {"idle", "visit", "put"}
    /\ op \in [kind : {"none", "read", "move"}, seg : SegType, layer : Layers,
               weight : Nat]
    /\ op.seg.start >= 0
    /\ cur \in [seg : SegType, entry : Entry]
    /\ left \subseteq SegType
    /\ todo \subseteq DOMAIN smap

Tiles ==
    /\ \A p \in Pieces : Within(p)
    /\ \A p, q \in Pieces : p # q => Apart(p, q)
    /\ \A b \in File : \E p \in Pieces : b \in Bytes(p)

Transit ==
    /\ Keys \cap InTransit = {}
    /\ pc = "put" => Common \notin left

(* The event's segment begins where a piece begins, and every element still *)
(* to visit overlaps it: the case in which Substract is exact.              *)
Aligned ==
    pc # "idle" =>
        /\ op.seg.start \in File
        /\ op.seg.start <= op.seg.end
        /\ \A p \in Pieces : op.seg.start <= p.start \/ p.end < op.seg.start
        /\ \A k \in todo : k <= op.seg.end /\ op.seg.start <= smap[k].end

MapInv == WorkerType /\ Tiles /\ Transit /\ Aligned

LEMMA KeysAre == Keys = KeysOf(smap)
  BY DEF Keys, KeysOf

LEMMA TilesImplyTiling ==
  ASSUME MapInv PROVE Tiling
  <1>1. \A p \in Pieces : Within(p) /\ Bytes(p) \subseteq File
    BY SegmentMapAssumption
    DEF MapInv, Tiles, Within, Bytes, File, SegType, SegmentMapAssumption
  <1>2. UNION {Bytes(p) : p \in Pieces} = File
    BY <1>1 DEF MapInv, Tiles
  <1>3. ASSUME NEW p \in Pieces, NEW q \in Pieces, p # q
        PROVE  Bytes(p) \cap Bytes(q) = {}
    <2>1. Apart(p, q) /\ Within(p) /\ Within(q)
      BY <1>3 DEF MapInv, Tiles
    <2> QED BY <2>1 DEF Apart, Within, SegType, Bytes
  <1> QED
    BY <1>1, <1>2, <1>3 DEF Tiling, Partition, Pieces, Within, MapInv, Transit

LEMMA NoElementType == NoElement \in [seg : SegType, entry : Entry]
  BY LayerFacts DEF NoElement, SegType, Entry, Seg

(* Two pieces with the same start are the same piece. *)
LEMMA StartsDiffer ==
  ASSUME MapInv, NEW s \in InTransit
  PROVE  s \in SegType /\ s.start \notin DOMAIN smap
  <1>1. s \in Pieces /\ s \notin Keys /\ Within(s)
    BY DEF Pieces, MapInv, Transit, Tiles
  <1>2. ASSUME s.start \in DOMAIN smap PROVE FALSE
    <2> DEFINE t == Key(smap, s.start)
    <2>1. t \in Keys /\ t.start = s.start
      BY <1>2 DEF Keys, Key, Seg
    <2>2. t \in Pieces /\ t # s
      BY <1>1, <2>1 DEF Pieces
    <2> HIDE DEF t
    <2>3. Within(t) /\ Apart(s, t)
      BY <1>1, <2>2 DEF MapInv, Tiles
    <2> QED BY <1>1, <2>1, <2>3 DEF Within, Apart, SegType
  <1> QED BY <1>1, <1>2 DEF Within

LEMMA InitMapInv == Init => MapInv
  <1> SUFFICES ASSUME Init PROVE MapInv
    OBVIOUS
  <1> USE SegmentMapAssumption DEF SegmentMapAssumption
  <1>1. DOMAIN smap = {0} /\ smap[0] \in Entry /\ smap[0].end = Size - 1
    BY DEF Init, Entry, Layers
  <1>2. MapType(smap) /\ Keys = {Seg(0, Size - 1)} /\ InTransit = {}
    BY <1>1 DEF MapType, Keys, Key, InTransit, Init
  <1>3. WorkerType
    <2>1. op \in [kind : {"none", "read", "move"}, seg : SegType, layer : Layers,
                  weight : Nat] /\ op.seg.start >= 0
      BY DEF Init, NoOp, Seg, SegType, Layers
    <2> QED BY <1>2, <2>1, NoElementType DEF WorkerType, Init
  <1>4. Tiles
    BY <1>2 DEF Tiles, Pieces, Within, SegType, Seg, Bytes, File
  <1>5. Transit /\ Aligned
    BY <1>2 DEF Transit, Aligned, Init
  <1> QED BY <1>3, <1>4, <1>5 DEF MapInv

(* What a lookup returns overlaps the query. *)
LEMMA LookupOverlaps ==
  ASSUME MapInv, pc = "idle", NEW q \in SegType, q.start \in File, q.start <= q.end,
         NEW k \in ContainsInServer(smap, q)
  PROVE  k \in DOMAIN smap /\ k <= q.end /\ q.start <= smap[k].end
  <1>1. k \in DOMAIN smap /\ k \in Int /\ smap[k].end \in Int
    BY DEF ContainsInServer, MapInv, WorkerType, MapType, Entry
  <1>2. Pieces = Keys /\ Key(smap, k) \in Keys
    BY <1>1 DEF Pieces, InTransit, Keys
  <1>3. k <= smap[k].end
    BY <1>1, <1>2 DEF MapInv, Tiles, Within, Key, Seg
  <1>4. CASE \A i, j \in DOMAIN smap : i = j
    <2>1. PICK p \in Keys : q.start \in Bytes(p)
      BY <1>2 DEF MapInv, Tiles
    <2>2. p = Key(smap, k)
      BY <1>1, <1>4, <2>1 DEF Keys
    <2> QED BY <1>1, <2>1, <2>2 DEF Bytes, Key, Seg, SegType
  <1>5. CASE ~(\A i, j \in DOMAIN smap : i = j)
    <2>1. Meets(q, Key(smap, k))
      BY <1>1, <1>5 DEF ContainsInServer
    <2> QED BY <1>1, <1>3, <2>1 DEF Meets, Contains, Key, Seg, SegType
  <1> QED BY <1>4, <1>5

(* An event whose segment begins at a piece's start is accepted. *)
LEMMA StartKeepsInv ==
  ASSUME MapInv, pc = "idle", pc' = "visit", UNCHANGED <<smap, cur, left>>,
         op' \in [kind : {"none", "read", "move"}, seg : SegType, layer : Layers,
                  weight : Nat],
         op'.seg.start \in File, op'.seg.start <= op'.seg.end,
         \A p \in Pieces : op'.seg.start <= p.start \/ p.end < op'.seg.start,
         todo' = ContainsInServer(smap, op'.seg)
  PROVE  MapInv'
  <1>1. Keys' = Keys /\ InTransit = {} /\ InTransit' = {} /\ Pieces' = Pieces
    BY DEF Keys, Key, InTransit, Pieces
  <1>2. \A k \in todo' : /\ k \in DOMAIN smap /\ k <= op'.seg.end
                        /\ op'.seg.start <= smap[k].end
    <2>1. op'.seg \in SegType
      OBVIOUS
    <2> QED BY <2>1, LookupOverlaps
  <1>3. WorkerType'
    BY <1>2 DEF MapInv, WorkerType, File
  <1>4. Tiles' /\ Transit'
    BY <1>1 DEF MapInv, Tiles, Transit
  <1>5. Aligned'
    BY <1>1, <1>2 DEF Aligned
  <1> QED BY <1>3, <1>4, <1>5 DEF MapInv

LEMMA StartReadKeepsInv ==
  ASSUME MapInv, 0 \notin ReadSizes, StartRead PROVE MapInv'
  <1>1. PICK n \in ReadSizes, w \in Weights :
          /\ op' = [kind |-> "read", seg |-> Seg(0, n - 1), layer |-> LAST, weight |-> w]
          /\ todo' = ContainsInServer(smap, Seg(0, n - 1))
    BY DEF StartRead
  <1>2. n \in Nat /\ n >= 1 /\ w \in Nat
    BY SegmentMapAssumption DEF SegmentMapAssumption
  <1>3. /\ op' \in [kind : {"none", "read", "move"}, seg : SegType, layer : Layers,
                    weight : Nat]
        /\ op'.seg = Seg(0, n - 1) /\ op'.seg.start = 0 /\ op'.seg.end = n - 1
    BY <1>1, <1>2, LayerFacts DEF Seg, SegType
  <1>4. \A p \in Pieces : 0 <= p.start
    BY DEF MapInv, Tiles, Within
  <1>5. 0 \in File
    BY SegmentMapAssumption DEF SegmentMapAssumption, File
  <1> QED
    BY <1>1, <1>2, <1>3, <1>4, <1>5, StartKeepsInv DEF StartRead

LEMMA StartMoveKeepsInv ==
  ASSUME MapInv, StartMove PROVE MapInv'
  <1>1. PICK k \in DOMAIN smap, last \in File, l \in Buffers :
          /\ k <= last
          /\ op' = [kind |-> "move", seg |-> Seg(k, last), layer |-> l, weight |-> 0]
          /\ todo' = ContainsInServer(smap, Seg(k, last))
    BY DEF StartMove
  <1> DEFINE t == Key(smap, k)
  <1>2. t \in Pieces /\ t.start = k /\ t.end = smap[k].end
    BY DEF Pieces, Keys, Key, Seg
  <1> HIDE DEF t
  <1>3. Within(t)
    BY <1>2 DEF MapInv, Tiles
  <1>4. k \in File /\ last \in Int
    BY <1>2, <1>3, SegmentMapAssumption
    DEF Within, SegType, File, SegmentMapAssumption
  <1>5. /\ op' \in [kind : {"none", "read", "move"}, seg : SegType, layer : Layers,
                    weight : Nat]
        /\ op'.seg = Seg(k, last) /\ op'.seg.start = k /\ op'.seg.end = last
    BY <1>1, <1>4, LayerFacts DEF Seg, SegType, File
  <1>6. ASSUME NEW p \in Pieces PROVE k <= p.start \/ p.end < k
    <2>1. Within(p) /\ (p = t \/ Apart(p, t))
      BY <1>2 DEF MapInv, Tiles
    <2> QED BY <2>1, <1>2, <1>3 DEF Within, Apart, SegType
  <1> QED
    BY <1>1, <1>4, <1>5, <1>6, StartKeepsInv DEF StartMove

(* Erasing an element leaves its left-overs and the common part in hand. *)
LEMMA EraseKeepsInv ==
  ASSUME MapInv, EraseElement PROVE MapInv'
  <1>1. PICK k \in todo :
          /\ cur' = [seg |-> Key(smap, k), entry |-> smap[k]]
          /\ smap' = MapErase(smap, k)
          /\ todo' = todo \ {k}
          /\ left' = Substract(Key(smap, k), op.seg)
    BY DEF EraseElement
  <1>2. pc = "visit" /\ pc' = "put" /\ op' = op
    BY DEF EraseElement
  <1> DEFINE K == Key(smap, k)
             o == op.seg
             C == Intersect(o, K)
             R == Seg(o.end + 1, K.end)
  <1>3. /\ k \in DOMAIN smap /\ k \in Int /\ smap[k] \in Entry
        /\ K.start = k /\ K.end = smap[k].end /\ K \in SegType
        /\ o \in SegType
    BY DEF MapInv, WorkerType, MapType, Key, Seg, SegType, Entry
  <1>4. Pieces = Keys /\ K \in Keys /\ InTransit = {}
    BY <1>2, <1>3 DEF Pieces, Keys, InTransit
  <1>5. Within(K) /\ o.start <= K.start /\ K.start <= o.end /\ o.start <= o.end
    <2>1. Within(K) /\ (o.start <= K.start \/ K.end < o.start)
      BY <1>2, <1>4 DEF MapInv, Tiles, Aligned
    <2>2. k <= o.end /\ o.start <= smap[k].end /\ o.start <= o.end
      BY <1>2 DEF MapInv, Aligned
    <2> QED BY <2>1, <2>2, <1>3 DEF SegType
  <1>6. /\ C \in SegType /\ C.start = K.start /\ C.start <= C.end
        /\ C.end = IF o.end < K.end THEN o.end ELSE K.end
    BY <1>3, <1>5 DEF Intersect, Seg, SegType, Within
  <1>7. left' = IF K.end > o.end THEN {R} ELSE {}
    BY <1>1, <1>3, <1>5 DEF Substract, SubstractLeft, SubstractRight, SegType
  <1>8. R \in SegType /\ R.start = o.end + 1 /\ R.end = K.end
    BY <1>3 DEF Seg, SegType
  <1>9. Keys' = Keys \ {K} /\ MapType(smap') /\ DOMAIN smap' = DOMAIN smap \ {k}
        /\ \A j \in DOMAIN smap \ {k} : smap'[j] = smap[j]
    <2>1. Keys' = KeysOf(smap')
      BY DEF Keys, KeysOf
    <2>2. MapType(smap) /\ k \in DOMAIN smap
      BY <1>3 DEF MapInv, WorkerType
    <2>3. /\ MapType(MapErase(smap, k))
          /\ DOMAIN MapErase(smap, k) = DOMAIN smap \ {k}
          /\ \A j \in DOMAIN smap \ {k} : MapErase(smap, k)[j] = smap[j]
          /\ KeysOf(MapErase(smap, k)) = KeysOf(smap) \ {Key(smap, k)}
      BY <2>2, EraseKeys
    <2> QED BY <2>1, <2>3, <1>1, KeysAre
  <1>10. Common' = C
    BY <1>1, <1>2 DEF Common
  <1>11. InTransit' = left' \cup {C}
    BY <1>2, <1>10 DEF InTransit
  <1> HIDE DEF K, o, C, R
  <1>12. ASSUME NEW p \in InTransit'
         PROVE  Within(p) /\ K.start <= p.start /\ p.end <= K.end
    <2>1. CASE p = C
      <3>1. C.end \in Int /\ C.end <= K.end /\ K.end \in Int /\ Size \in Int
        BY <1>3, <1>6, SegmentMapAssumption DEF SegType, SegmentMapAssumption
      <3> QED BY <2>1, <3>1, <1>3, <1>5, <1>6 DEF Within, SegType
    <2>2. CASE p = R /\ K.end > o.end
      BY <2>2, <1>3, <1>5, <1>8 DEF Within, SegType
    <2> QED BY <2>1, <2>2, <1>7, <1>11
  <1>13. R \in left' => Apart(C, R)
    BY <1>3, <1>6, <1>7, <1>8 DEF Apart, SegType
  <1>14. C \notin left'
    BY <1>3, <1>5, <1>6, <1>7, <1>8 DEF SegType
  <1>15. \A p \in Keys : Within(p) /\ (p = K \/ Apart(p, K))
    BY <1>4 DEF MapInv, Tiles
  <1>16. ASSUME NEW p \in InTransit', NEW q \in Keys'
         PROVE  Apart(p, q) /\ Apart(q, p) /\ p # q
    <2>1. Within(q) /\ Apart(q, K)
      BY <1>9, <1>15
    <2> QED BY <2>1, <1>5, <1>12 DEF Within, Apart, SegType
  <1>17. Pieces' = Keys' \cup InTransit'
    BY DEF Pieces
  <1>18. Tiles'
    <2>1. \A p \in Pieces' : Within(p)
      BY <1>9, <1>12, <1>15, <1>17
    <2>2. ASSUME NEW p \in Pieces', NEW q \in Pieces', p # q
          PROVE  Apart(p, q)
      <3>1. CASE p \in Keys' /\ q \in Keys'
        BY <2>2, <3>1, <1>4, <1>9 DEF MapInv, Tiles
      <3>2. CASE p \in InTransit' /\ q \in InTransit'
        <4>1. (p = C /\ q = R /\ R \in left') \/ (p = R /\ q = C /\ R \in left')
          BY <2>2, <3>2, <1>7, <1>11
        <4> QED BY <4>1, <1>13 DEF Apart
      <3> QED BY <3>1, <3>2, <1>16, <1>17
    <2>3. ASSUME NEW b \in File PROVE \E p \in Pieces' : b \in Bytes(p)
      <3>1. PICK p \in Keys : b \in Bytes(p)
        BY <1>4 DEF MapInv, Tiles
      <3>2. CASE p # K
        BY <3>1, <3>2, <1>9, <1>17
      <3>3. CASE p = K
        <4>1. b \in Int /\ K.start <= b /\ b <= K.end
          BY <3>1, <3>3, <1>3 DEF Bytes, SegType
        <4>2. CASE b <= C.end
          <5>1. b \in Bytes(C)
            BY <4>1, <4>2, <1>6 DEF Bytes, SegType
          <5> QED BY <5>1, <1>11, <1>17
        <4>3. CASE ~(b <= C.end)
          <5>1. R \in left' /\ b \in Bytes(R)
            BY <4>1, <4>3, <1>3, <1>6, <1>7, <1>8 DEF Bytes, SegType
          <5> QED BY <5>1, <1>11, <1>17
        <4> QED BY <4>2, <4>3
      <3> QED BY <3>2, <3>3
    <2> QED BY <2>1, <2>2, <2>3 DEF Tiles
  <1>19. Transit'
    <2>1. Keys' \cap InTransit' = {}
      BY <1>16
    <2> QED BY <2>1, <1>10, <1>14 DEF Transit
  <1>20. Aligned'
    <2>1. op'.seg = o /\ o.start \in File
      BY <1>2 DEF o, MapInv, Aligned
    <2>2. \A p \in Pieces' : o.start <= p.start \/ p.end < o.start
      <3>1. ASSUME NEW p \in Keys' PROVE o.start <= p.start \/ p.end < o.start
        BY <1>2, <1>4, <1>9 DEF o, MapInv, Aligned
      <3>2. ASSUME NEW p \in InTransit' PROVE o.start <= p.start
        BY <1>3, <1>5, <1>12 DEF Within, SegType
      <3> QED BY <3>1, <3>2, <1>17
    <2>3. \A j \in todo' : j <= o.end /\ o.start <= smap'[j].end
      BY <1>1, <1>2, <1>9 DEF o, MapInv, Aligned, WorkerType
    <2> QED BY <2>1, <2>2, <2>3, <1>5 DEF Aligned
  <1>21. WorkerType'
    <2>1. cur' \in [seg : SegType, entry : Entry]
      BY <1>1, <1>3 DEF K
    <2>2. left' \subseteq SegType
      BY <1>7, <1>8
    <2>3. todo' \subseteq DOMAIN smap'
      BY <1>1, <1>9 DEF MapInv, WorkerType
    <2> QED BY <2>1, <2>2, <2>3, <1>2, <1>9 DEF MapInv, WorkerType
  <1> QED BY <1>18, <1>19, <1>20, <1>21 DEF MapInv

(* Putting back what is in hand changes no piece. *)
LEMMA PutLeftOverKeepsInv ==
  ASSUME MapInv, PutLeftOver PROVE MapInv'
  <1>1. PICK s \in left :
          /\ smap' = MapPut(smap, s, [cur.entry EXCEPT !.scored = FALSE])
          /\ left' = left \ {s}
    BY DEF PutLeftOver
  <1>2. pc = "put" /\ UNCHANGED <<pc, op, todo, cur>>
    BY DEF PutLeftOver
  <1>3. s \in InTransit /\ InTransit = left \cup {Common} /\ Common \notin left
    BY <1>2 DEF InTransit, MapInv, Transit
  <1>4. s \in SegType /\ s.start \notin DOMAIN smap
    BY <1>3, StartsDiffer
  <1>5. [cur.entry EXCEPT !.scored = FALSE] \in Entry
    BY DEF MapInv, WorkerType, Entry
  <1>6. /\ MapType(smap') /\ DOMAIN smap \subseteq DOMAIN smap'
        /\ \A k \in DOMAIN smap : smap'[k] = smap[k]
        /\ Keys' = Keys \cup {s}
    <2>1. Keys' = KeysOf(smap')
      BY DEF Keys, KeysOf
    <2> DEFINE e == [cur.entry EXCEPT !.scored = FALSE]
    <2>2. MapType(smap) /\ e \in Entry
      BY <1>5 DEF MapInv, WorkerType
    <2> HIDE DEF e
    <2>3. /\ MapType(MapPut(smap, s, e))
          /\ DOMAIN MapPut(smap, s, e) = DOMAIN smap \cup {s.start}
          /\ \A k \in DOMAIN smap : MapPut(smap, s, e)[k] = smap[k]
          /\ KeysOf(MapPut(smap, s, e)) = KeysOf(smap) \cup {s}
      BY <2>2, <1>4, PutKeys
    <2>4. smap' = MapPut(smap, s, e)
      BY <1>1 DEF e
    <2> QED BY <2>1, <2>3, <2>4, KeysAre
  <1>7. InTransit' = InTransit \ {s} /\ Common' = Common
    BY <1>1, <1>2, <1>3 DEF InTransit, Common
  <1>8. Pieces' = Pieces
    BY <1>3, <1>6, <1>7 DEF Pieces
  <1>9. Tiles' /\ Transit'
    BY <1>1, <1>3, <1>6, <1>7, <1>8 DEF MapInv, Tiles, Transit
  <1>10. WorkerType'
    BY <1>1, <1>2, <1>6 DEF MapInv, WorkerType
  <1>11. Aligned'
    BY <1>2, <1>6, <1>8 DEF MapInv, WorkerType, Aligned
  <1> QED BY <1>9, <1>10, <1>11 DEF MapInv

LEMMA PutCommonKeepsInv ==
  ASSUME MapInv, PutCommon PROVE MapInv'
  <1>1. /\ pc = "put" /\ left = {} /\ pc' = "visit" /\ cur' = NoElement
        /\ smap' = MapPut(smap, Common, Updated(cur.entry))
        /\ UNCHANGED <<op, todo, left>>
    BY DEF PutCommon
  <1>2. InTransit = {Common} /\ InTransit' = {}
    BY <1>1 DEF InTransit
  <1>3. Common \in SegType /\ Common.start \notin DOMAIN smap
    BY <1>2, StartsDiffer
  <1>4. Updated(cur.entry) \in Entry
    <2>1. /\ cur.entry \in Entry /\ op.weight \in Nat /\ op.layer \in Layers
          /\ op.seg.start \in Nat
      BY DEF MapInv, WorkerType, SegType
    <2> DEFINE e == cur.entry
    <2>2. e.freq + 1 \in Nat /\ e.lrf + op.weight \in Nat
      BY <2>1 DEF Entry
    <2>3. [e EXCEPT !.freq = e.freq + 1, !.lrf = e.lrf + op.weight, !.scored = TRUE]
            \in Entry
      BY <2>1, <2>2 DEF Entry
    <2>4. [e EXCEPT !.layer = op.layer, !.base = op.seg.start, !.scored = TRUE]
            \in Entry
      BY <2>1 DEF Entry
    <2> QED BY <2>3, <2>4 DEF Updated
  <1>5. /\ MapType(smap') /\ DOMAIN smap \subseteq DOMAIN smap'
        /\ \A k \in DOMAIN smap : smap'[k] = smap[k]
        /\ Keys' = Keys \cup {Common}
    <2>1. Keys' = KeysOf(smap')
      BY DEF Keys, KeysOf
    <2> DEFINE c == Common
               e == Updated(cur.entry)
    <2>2. MapType(smap) /\ e \in Entry /\ c \in SegType /\ c.start \notin DOMAIN smap
      BY <1>3, <1>4 DEF MapInv, WorkerType
    <2>3. smap' = MapPut(smap, c, e)
      BY <1>1
    <2> HIDE DEF c, e
    <2>4. /\ MapType(MapPut(smap, c, e))
          /\ DOMAIN MapPut(smap, c, e) = DOMAIN smap \cup {c.start}
          /\ \A k \in DOMAIN smap : MapPut(smap, c, e)[k] = smap[k]
          /\ KeysOf(MapPut(smap, c, e)) = KeysOf(smap) \cup {c}
      BY <2>2, PutKeys
    <2> QED BY <2>1, <2>3, <2>4, KeysAre DEF c
  <1>6. Pieces' = Pieces
    BY <1>2, <1>5 DEF Pieces
  <1>7. Tiles' /\ Transit'
    BY <1>1, <1>2, <1>6 DEF MapInv, Tiles, Transit
  <1>8. WorkerType'
    BY <1>1, <1>5, NoElementType DEF MapInv, WorkerType
  <1>9. Aligned'
    BY <1>1, <1>5, <1>6 DEF MapInv, WorkerType, Aligned
  <1> QED BY <1>7, <1>8, <1>9 DEF MapInv

LEMMA FinishKeepsInv ==
  ASSUME MapInv, FinishEvent PROVE MapInv'
  <1>1. pc = "visit" /\ pc' = "idle" /\ op' = NoOp /\ UNCHANGED <<smap, todo, cur, left>>
    BY DEF FinishEvent
  <1>2. Keys' = Keys /\ InTransit = {} /\ InTransit' = {} /\ Pieces' = Pieces
    BY <1>1 DEF Keys, Key, InTransit, Pieces
  <1>3. WorkerType'
    BY <1>1, LayerFacts DEF MapInv, WorkerType, NoOp, Seg, SegType
  <1>4. Tiles' /\ Transit' /\ Aligned'
    BY <1>1, <1>2 DEF MapInv, Tiles, Transit, Aligned
  <1> QED BY <1>3, <1>4 DEF MapInv

LEMMA MapInvHolds ==
  ASSUME 0 \notin ReadSizes
  PROVE  Spec => []MapInv
<1>1. Init => MapInv
  BY InitMapInv
<1>2. ASSUME MapInv, [Next]_vars PROVE MapInv'
  <2>1. CASE StartRead
    BY <1>2, <2>1, StartReadKeepsInv
  <2>2. CASE StartMove
    BY <1>2, <2>2, StartMoveKeepsInv
  <2>3. CASE EraseElement
    BY <1>2, <2>3, EraseKeepsInv
  <2>4. CASE PutLeftOver
    BY <1>2, <2>4, PutLeftOverKeepsInv
  <2>5. CASE PutCommon
    BY <1>2, <2>5, PutCommonKeepsInv
  <2>6. CASE FinishEvent
    BY <1>2, <2>6, FinishKeepsInv
  <2>7. CASE MoveBuffer \/ AllEventsHandled \/ UNCHANGED vars
    <3>1. UNCHANGED <<smap, pc, op, cur, left, todo>>
      BY <2>7 DEF MoveBuffer, AllEventsHandled, vars
    <3> QED
      BY <1>2, <3>1
      DEF MapInv, WorkerType, Tiles, Transit, Aligned, Pieces, Keys, Key, InTransit, Common
  <2> QED BY <1>2, <2>1, <2>2, <2>3, <2>4, <2>5, <2>6, <2>7 DEF Next
<1> QED
  BY <1>1, <1>2, PTL DEF Spec

(***************************************************************************)
(* Whatever reads (of at least one byte) and moves are handled, in a file  *)
(* of any size over any layers, the heat map and what the worker has in    *)
(* hand always cut the file into disjoint non-empty pieces.                *)
(***************************************************************************)
THEOREM TilingHolds ==
  ASSUME 0 \notin ReadSizes
  PROVE  Spec => []Tiling
  <1>1. MapInv => Tiling
    BY TilesImplyTiling
  <1> QED
    BY <1>1, MapInvHolds, PTL

----------------------------------------------------------------------------
(* What the map says of every byte. *)

(* The scores, counters and histories keep their types. *)
ScoreType ==
    /\ layer_score \in [Layers -> SUBSET (Nat \X SegType)]
    /\ reads \in 0 .. MaxReads
    /\ moves \in 0 .. MaxMoves
    /\ hits \in [File -> Nat]
    /\ home \in [File -> Layers]

(* The last move of a byte went to the layer of its last copy or further    *)
(* up, and a byte that was never moved was never copied.                    *)
CopyInv ==
    /\ at \in [File -> Layers]
    /\ \A b \in File : at[b] <= home[b] /\ (at[b] = LAST <=> home[b] = LAST)

(* The element in hand begins inside the event's segment; what is left of   *)
(* it lies behind the segment.                                              *)
CutInv ==
    /\ pc = "idle" => todo = {}
    /\ pc # "idle" => op.kind \in {"read", "move"}
    /\ pc = "put" => /\ op.seg.start <= cur.seg.start
                     /\ \A p \in left : op.seg.end < p.start

(* What an entry says of byte b, once the event that is being handled has   *)
(* reached it and before.                                                   *)
After(e, b) == e.freq = hits[b] /\ e.layer = home[b]

Before(e, b) ==
    /\ e.freq = hits[b] - (IF op.kind = "read" THEN 1 ELSE 0)
    /\ op.kind = "read" => e.layer = home[b]

(* Every entry is right for each of its bytes, up to the event. *)
ContentInv ==
    /\ \A k \in DOMAIN smap : \A b \in Bytes(Key(smap, k)) :
          IF k \in todo /\ b \in Bytes(op.seg) THEN Before(smap[k], b)
          ELSE After(smap[k], b)
    /\ \A p \in InTransit : \A b \in Bytes(p) :
          IF b \in Bytes(op.seg) THEN Before(cur.entry, b) ELSE After(cur.entry, b)
    /\ op.kind = "move" =>
          \A b \in Bytes(op.seg) : b \in File => home[b] = op.layer

----------------------------------------------------------------------------
(* What ContainsInServer finds. *)

(* In a map of non-empty keys of which none straddles the start of the      *)
(* query, the scan of ContainsInServer misses no key that overlaps it.      *)
LEMMA LookupComplete ==
  ASSUME NEW m, MapType(m), \A k \in DOMAIN m : 0 <= k /\ k <= m[k].end,
         NEW q \in SegType, q.start <= q.end,
         \A k \in DOMAIN m : q.start <= k \/ m[k].end < q.start,
         NEW k \in DOMAIN m, k <= q.end, q.start <= m[k].end
  PROVE  k \in ContainsInServer(m, q)
  <1> DEFINE notLess == {i \in DOMAIN m : i >= q.start}
             least   == CHOOSE i \in notLess : \A j \in notLess : i <= j
             before  == {i \in DOMAIN m : /\ i < q.start
                                          /\ \A j \in DOMAIN m : j < q.start => j <= i
                                          /\ Contains(q, Key(m, i))}
  <1>1. /\ q.start \in Int /\ q.end \in Int
        /\ \A i \in DOMAIN m : i \in Nat /\ m[i].end \in Int
    BY DEF MapType, SegType, Entry
  <1>2. k >= q.start
    BY <1>1
  <1>3. least \in notLess /\ \A j \in notLess : least <= j
    <2>1. notLess \subseteq Nat /\ k \in notLess
      BY <1>1, <1>2
    <2>2. \E i \in notLess : \A j \in notLess : i <= j
      BY <2>1, Least
    <2> HIDE DEF notLess
    <2> QED
      BY <2>2
  <1>4. before = {}
    <2> SUFFICES ASSUME NEW i \in before PROVE FALSE
      OBVIOUS
    <2>1. i \in DOMAIN m /\ i < q.start /\ Contains(q, Key(m, i))
      OBVIOUS
    <2>2. m[i].end < q.start
      BY <1>1, <2>1
    <2> QED
      BY <1>1, <2>1, <2>2 DEF Contains, Key, Seg
  <1>5. ScanFrom(m, q) = least
    BY <1>4 DEF ScanFrom
  <1>6. ASSUME NEW j \in DOMAIN m, j <= k, q.start <= j PROVE Meets(q, Key(m, j))
    <2>1. j <= q.end /\ j <= m[j].end
      BY <1>1, <1>6
    <2> QED
      BY <1>1, <1>6, <2>1 DEF Meets, Contains, Key, Seg
  <1>7. least <= k /\ q.start <= least /\ least \in Nat
    BY <1>1, <1>2, <1>3
  <1> HIDE DEF least
  <1>8. \A j \in DOMAIN m : least <= j /\ j <= k => Meets(q, Key(m, j))
    BY <1>1, <1>6, <1>7
  <1>9. ~\A i \in DOMAIN m : i < q.start
    BY <1>1, <1>2
  <1> QED
    BY <1>5, <1>7, <1>8, <1>9 DEF ContainsInServer

(* The keys of the map between two operations on it. *)
LEMMA KeyFacts ==
  ASSUME MapInv, NEW k \in DOMAIN smap
  PROVE  /\ k \in Nat /\ smap[k] \in Entry /\ smap[k].end \in Int
         /\ k <= smap[k].end /\ smap[k].end <= Size - 1
         /\ Key(smap, k) \in Pieces /\ Key(smap, k) \in SegType
         /\ Key(smap, k).start = k /\ Key(smap, k).end = smap[k].end
         /\ Bytes(Key(smap, k)) = k .. smap[k].end
         /\ Bytes(Key(smap, k)) \subseteq File
  <1>1. k \in Int /\ smap[k] \in Entry /\ smap[k].end \in Int
    BY DEF MapInv, WorkerType, MapType, Entry
  <1>2. Key(smap, k).start = k /\ Key(smap, k).end = smap[k].end
    BY DEF Key, Seg
  <1>3. Key(smap, k) \in Pieces
    BY DEF Pieces, Keys
  <1>4. Within(Key(smap, k))
    BY <1>3 DEF MapInv, Tiles
  <1>5. Key(smap, k) \in SegType /\ 0 <= k /\ k <= smap[k].end /\ smap[k].end <= Size - 1
    BY <1>2, <1>4 DEF Within
  <1> QED
    BY <1>1, <1>2, <1>3, <1>5, SegmentMapAssumption DEF Bytes, File

(***************************************************************************)
(* A lookup of a read of n bytes (GetDataLocation) in the middle of any    *)
(* update finds every byte but those the worker has in hand.               *)
(***************************************************************************)
LEMMA LookupHolds ==
  ASSUME MapInv PROVE LookupMissesOnlyInTransit
  <1> SUFFICES ASSUME NEW n \in 1 .. Size, NEW b \in 0 .. (n - 1)
               PROVE  b \in Located(n) \cup UNION {Bytes(s) : s \in InTransit}
    BY DEF LookupMissesOnlyInTransit
  <1> DEFINE q == Seg(0, n - 1)
  <1>1. b \in File /\ n \in Nat /\ n >= 1 /\ b \in Nat
    BY SegmentMapAssumption DEF File
  <1>2. PICK p \in Pieces : b \in Bytes(p)
    BY <1>1 DEF MapInv, Tiles
  <1>3. CASE p \in InTransit
    BY <1>2, <1>3
  <1>4. CASE p \in Keys
    <2>1. PICK k \in DOMAIN smap : p = Key(smap, k)
      BY <1>4 DEF Keys
    <2>2. k \in Nat /\ smap[k].end \in Int /\ k <= b /\ b <= smap[k].end
      BY <1>1, <1>2, <2>1, KeyFacts
    <2>3. q \in SegType /\ q.start = 0 /\ q.end = n - 1
      BY <1>1 DEF Seg, SegType
    <2> HIDE DEF q
    <2>4. k \in ContainsInServer(smap, q)
      <3>1. \A j \in DOMAIN smap : j \in Nat /\ 0 <= j /\ j <= smap[j].end
        BY KeyFacts
      <3>2. MapType(smap)
        BY DEF MapInv, WorkerType
      <3>3. q.start <= q.end /\ k <= q.end /\ q.start <= smap[k].end
        BY <1>1, <2>2, <2>3
      <3>4. \A j \in DOMAIN smap : q.start <= j
        BY <2>3, <3>1
      <3> QED
        BY <2>3, <3>1, <3>2, <3>3, <3>4, LookupComplete
    <2>5. b \in Bytes(Intersect(q, p))
      <3>1. p \in SegType
        BY <2>1, KeyFacts
      <3>2. Bytes(Intersect(q, p)) = Bytes(q) \cap Bytes(p)
        BY <2>3, <3>1, IntersectCorrect DEF IntersectExactFor
      <3> QED
        BY <1>1, <1>2, <2>3, <3>2 DEF Bytes
    <2>6. b \in Located(n)
      BY <2>1, <2>4, <2>5 DEF Located, q
    <2> QED
      BY <2>6
  <1> QED
    BY <1>2, <1>3, <1>4 DEF Pieces

(* Whatever the worker is in the middle of, a lookup of a read of any       *)
(* length (GetDataLocation over ContainsInServer) finds every byte of it    *)
(* but those the worker has taken out of the map and not yet put back.      *)
THEOREM LookupFindsAll ==
  ASSUME 0 \notin ReadSizes
  PROVE  Spec => []LookupMissesOnlyInTransit
  <1>1. MapInv => LookupMissesOnlyInTransit
    BY LookupHolds
  <1> QED
    BY <1>1, MapInvHolds, PTL

----------------------------------------------------------------------------
(* One operation on the map. *)

LEMMA PutEntry ==
  ASSUME NEW m, NEW s \in SegType, NEW e \in Entry
  PROVE  /\ DOMAIN MapPut(m, s, e) = DOMAIN m \cup {s.start}
         /\ \A k \in DOMAIN m : k # s.start => MapPut(m, s, e)[k] = m[k]
         /\ MapPut(m, s, e)[s.start].freq = e.freq
         /\ MapPut(m, s, e)[s.start].layer = e.layer
         /\ MapPut(m, s, e)[s.start].lrf = e.lrf
         /\ MapPut(m, s, e)[s.start].scored = e.scored
         /\ Key(MapPut(m, s, e), s.start) = s
  <1>1. MapPut(m, s, e)[s.start] = [e EXCEPT !.end = s.end]
    BY DEF MapPut
  <1>2. [e EXCEPT !.end = s.end].end = s.end
    BY DEF Entry
  <1>3. Key(MapPut(m, s, e), s.start) = s
    BY <1>1, <1>2 DEF Key, Seg, SegType
  <1> QED
    BY <1>1, <1>2, <1>3 DEF MapPut, Entry

(* The element that is taken out, and what is then in hand. *)
LEMMA EraseFacts ==
  ASSUME MapInv, EraseElement
  PROVE  \E k \in todo :
            /\ k \in DOMAIN smap /\ smap[k] \in Entry
            /\ cur' = [seg |-> Key(smap, k), entry |-> smap[k]]
            /\ todo' = todo \ {k}
            /\ DOMAIN smap' = DOMAIN smap \ {k}
            /\ \A j \in DOMAIN smap' : smap'[j] = smap[j] /\ Key(smap, j)' = Key(smap, j)
            /\ op.seg.start <= k
            /\ \A p \in left' : op.seg.end < p.start
            /\ \A p \in InTransit' : Bytes(p) \subseteq Bytes(Key(smap, k))
  <1>1. PICK k \in todo :
          /\ cur' = [seg |-> Key(smap, k), entry |-> smap[k]]
          /\ smap' = MapErase(smap, k)
          /\ todo' = todo \ {k}
          /\ left' = Substract(Key(smap, k), op.seg)
    BY DEF EraseElement
  <1>2. pc = "visit" /\ pc' = "put" /\ op' = op
    BY DEF EraseElement
  <1> DEFINE K == Key(smap, k)
             o == op.seg
  <1>3. k \in DOMAIN smap
    BY DEF MapInv, WorkerType
  <1>4. /\ k \in Nat /\ smap[k].end \in Int /\ K.start = k /\ K.end = smap[k].end
        /\ K \in Pieces /\ K \in SegType /\ smap[k] \in Entry
    BY <1>3, KeyFacts
  <1>5. o \in SegType /\ o.start \in Int /\ o.end \in Int
    BY DEF MapInv, WorkerType, SegType
  <1>6. o.start <= k /\ k <= o.end
    BY <1>2, <1>4, <1>5 DEF MapInv, Aligned
  <1>7. DOMAIN smap' = DOMAIN smap \ {k} /\ \A j \in DOMAIN smap' : smap'[j] = smap[j]
    BY <1>1 DEF MapErase
  <1>8. \A j \in DOMAIN smap' : Key(smap, j)' = Key(smap, j)
    BY <1>7 DEF Key
  <1>9. left' \subseteq {Seg(o.end + 1, K.end)}
    BY <1>1, <1>4, <1>5, <1>6 DEF Substract, SubstractLeft, SubstractRight
  <1>10. Seg(o.end + 1, K.end).start = o.end + 1 /\ Seg(o.end + 1, K.end).end = K.end
    BY DEF Seg
  <1>11. \A p \in left' : o.end < p.start /\ Bytes(p) \subseteq Bytes(K)
    <2>1. Bytes(Seg(o.end + 1, K.end)) \subseteq Bytes(K)
      BY <1>4, <1>5, <1>6, <1>10 DEF Bytes
    <2>2. o.end < o.end + 1
      BY <1>5
    <2> HIDE DEF K, o
    <2> QED
      BY <1>9, <1>10, <2>1, <2>2
  <1>12. InTransit' = left' \cup {Intersect(o, K)}
    BY <1>1, <1>2 DEF InTransit, Common
  <1>13. Bytes(Intersect(o, K)) \subseteq Bytes(K)
    BY <1>4, <1>5, IntersectCorrect DEF IntersectExactFor
  <1> HIDE DEF K, o
  <1>14. \A p \in InTransit' : Bytes(p) \subseteq Bytes(K)
    BY <1>11, <1>12, <1>13
  <1> QED
    BY <1>1, <1>3, <1>4, <1>6, <1>7, <1>8, <1>11, <1>14 DEF K, o

(* The left-over that is put back. *)
LEMMA PutLeftOverFacts ==
  ASSUME MapInv, PutLeftOver
  PROVE  \E s \in left :
            /\ s \in InTransit /\ InTransit' \subseteq InTransit /\ s \in SegType
            /\ left' \subseteq left
            /\ s.start \notin DOMAIN smap /\ DOMAIN smap' = DOMAIN smap \cup {s.start}
            /\ \A k \in DOMAIN smap : smap'[k] = smap[k] /\ Key(smap, k)' = Key(smap, k)
            /\ Key(smap', s.start) = s
            /\ smap'[s.start].freq = cur.entry.freq
            /\ smap'[s.start].layer = cur.entry.layer
            /\ smap'[s.start].scored = FALSE
  <1> DEFINE e == [cur.entry EXCEPT !.scored = FALSE]
  <1>1. PICK s \in left : smap' = MapPut(smap, s, e) /\ left' = left \ {s}
    BY DEF PutLeftOver
  <1>2. pc = "put" /\ UNCHANGED <<pc, op, cur>>
    BY DEF PutLeftOver
  <1>3. s \in InTransit /\ InTransit' \subseteq InTransit
    BY <1>1, <1>2 DEF InTransit, Common
  <1>4. s \in SegType /\ s.start \notin DOMAIN smap
    BY <1>3, StartsDiffer
  <1>5. /\ e \in Entry /\ e.freq = cur.entry.freq /\ e.layer = cur.entry.layer
        /\ e.scored = FALSE
    BY DEF MapInv, WorkerType, Entry
  <1> HIDE DEF e
  <1>6. /\ DOMAIN smap' = DOMAIN smap \cup {s.start}
        /\ \A k \in DOMAIN smap : smap'[k] = smap[k]
        /\ smap'[s.start].freq = e.freq /\ smap'[s.start].layer = e.layer
        /\ smap'[s.start].scored = e.scored
        /\ Key(smap', s.start) = s
    <2>1. s \in SegType /\ e \in Entry /\ smap' = MapPut(smap, s, e)
      BY <1>1, <1>4, <1>5
    <2>2. /\ DOMAIN MapPut(smap, s, e) = DOMAIN smap \cup {s.start}
          /\ \A k \in DOMAIN smap : k # s.start => MapPut(smap, s, e)[k] = smap[k]
          /\ MapPut(smap, s, e)[s.start].freq = e.freq
          /\ MapPut(smap, s, e)[s.start].layer = e.layer
          /\ MapPut(smap, s, e)[s.start].lrf = e.lrf
          /\ MapPut(smap, s, e)[s.start].scored = e.scored
          /\ Key(MapPut(smap, s, e), s.start) = s
      BY <2>1, PutEntry
    <2> QED
      BY <1>1, <1>4, <1>5, <2>1, <2>2
  <1>7. \A k \in DOMAIN smap : Key(smap, k)' = Key(smap, k)
    BY <1>6 DEF Key
  <1> QED
    BY <1>1, <1>3, <1>4, <1>5, <1>6, <1>7

(* The common part that is put back, updated. *)
LEMMA PutCommonFacts ==
  ASSUME MapInv, PutCommon
  PROVE  /\ Common \in InTransit /\ InTransit' = {} /\ Common \in SegType
         /\ Bytes(Common) \subseteq Bytes(op.seg) /\ Bytes(Common) \subseteq File
         /\ Common.start \notin DOMAIN smap /\ DOMAIN smap' = DOMAIN smap \cup {Common.start}
         /\ \A k \in DOMAIN smap : smap'[k] = smap[k] /\ Key(smap, k)' = Key(smap, k)
         /\ Key(smap', Common.start) = Common
         /\ LET e == smap'[Common.start]
                u == Updated(cur.entry)
            IN  e.freq = u.freq /\ e.layer = u.layer /\ e.lrf = u.lrf
         /\ Updated(cur.entry) \in Entry
  <1>1. /\ pc = "put" /\ pc' = "visit"
        /\ smap' = MapPut(smap, Common, Updated(cur.entry))
    BY DEF PutCommon
  <1>2. Common \in InTransit /\ InTransit' = {}
    BY <1>1 DEF InTransit
  <1>3. Common \in SegType /\ Common.start \notin DOMAIN smap
    BY <1>2, StartsDiffer
  <1>4. Updated(cur.entry) \in Entry
    <2>1. /\ cur.entry \in Entry /\ op.weight \in Nat /\ op.layer \in Layers
          /\ op.seg.start \in Nat
      BY DEF MapInv, WorkerType, SegType
    <2> DEFINE e == cur.entry
    <2>2. e.freq + 1 \in Nat /\ e.lrf + op.weight \in Nat
      BY <2>1 DEF Entry
    <2>3. [e EXCEPT !.freq = e.freq + 1, !.lrf = e.lrf + op.weight, !.scored = TRUE]
            \in Entry
      BY <2>1, <2>2 DEF Entry
    <2>4. [e EXCEPT !.layer = op.layer, !.base = op.seg.start, !.scored = TRUE]
            \in Entry
      BY <2>1 DEF Entry
    <2> QED BY <2>3, <2>4 DEF Updated
  <1>5. Bytes(Common) \subseteq Bytes(op.seg)
    <2>1. op.seg \in SegType /\ cur.seg \in SegType
      BY DEF MapInv, WorkerType
    <2> QED
      BY <2>1, IntersectCorrect DEF IntersectExactFor, Common
  <1>6. Bytes(Common) \subseteq File
    <2>1. Within(Common)
      BY <1>2 DEF MapInv, Tiles, Pieces
    <2> QED
      BY <2>1, SegmentMapAssumption DEF Within, SegType, Bytes, File
  <1> DEFINE c == Common
             u == Updated(cur.entry)
  <1>7. smap' = MapPut(smap, c, u) /\ u \in Entry /\ c \in SegType /\ c.start \notin DOMAIN smap
    BY <1>1, <1>3, <1>4
  <1> HIDE DEF c, u
  <1>8. /\ DOMAIN smap' = DOMAIN smap \cup {c.start}
        /\ \A k \in DOMAIN smap : smap'[k] = smap[k]
        /\ smap'[c.start].freq = u.freq /\ smap'[c.start].layer = u.layer
        /\ smap'[c.start].lrf = u.lrf
        /\ Key(smap', c.start) = c
    <2>1. c \in SegType /\ u \in Entry /\ smap' = MapPut(smap, c, u)
      BY <1>7
    <2>2. /\ DOMAIN MapPut(smap, c, u) = DOMAIN smap \cup {c.start}
          /\ \A k \in DOMAIN smap : k # c.start => MapPut(smap, c, u)[k] = smap[k]
          /\ MapPut(smap, c, u)[c.start].freq = u.freq
          /\ MapPut(smap, c, u)[c.start].layer = u.layer
          /\ MapPut(smap, c, u)[c.start].lrf = u.lrf
          /\ MapPut(smap, c, u)[c.start].scored = u.scored
          /\ Key(MapPut(smap, c, u), c.start) = c
      BY <2>1, PutEntry
    <2> QED
      BY <1>7, <2>1, <2>2
  <1>9. \A k \in DOMAIN smap : Key(smap, k)' = Key(smap, k)
    BY <1>8 DEF Key
  <1> QED
    BY <1>2, <1>3, <1>4, <1>5, <1>6, <1>8, <1>9 DEF c, u

----------------------------------------------------------------------------
(* The event and the bytes it is about. *)

LEMMA CutStep ==
  ASSUME MapInv, CutInv, [Next]_vars PROVE CutInv'
  <1>1. CASE StartRead
    BY <1>1 DEF StartRead, CutInv
  <1>2. CASE StartMove
    BY <1>2 DEF StartMove, CutInv
  <1>3. CASE EraseElement
    <2>1. PICK k \in todo : /\ cur' = [seg |-> Key(smap, k), entry |-> smap[k]]
                            /\ op.seg.start <= k
                            /\ \A p \in left' : op.seg.end < p.start
      BY <1>3, EraseFacts
    <2>2. cur'.seg.start = k
      BY <2>1 DEF Key, Seg
    <2> QED
      BY <1>3, <2>1, <2>2 DEF EraseElement, CutInv
  <1>4. CASE PutLeftOver
    BY <1>4 DEF PutLeftOver, CutInv
  <1>5. CASE PutCommon
    BY <1>5 DEF PutCommon, CutInv
  <1>6. CASE FinishEvent
    BY <1>6 DEF FinishEvent, CutInv
  <1>7. CASE MoveBuffer \/ AllEventsHandled \/ UNCHANGED vars
    BY <1>7 DEF MoveBuffer, AllEventsHandled, vars, CutInv
  <1> QED
    BY <1>1, <1>2, <1>3, <1>4, <1>5, <1>6, <1>7 DEF Next

(* The elements to visit are all those that overlap the event. *)
LEMMA TodoComplete ==
  ASSUME MapInv, MapInv', pc = "idle", pc' = "visit", smap' = smap,
         todo' = ContainsInServer(smap, op'.seg),
         NEW k \in DOMAIN smap, NEW b \in Bytes(Key(smap, k)), b \in Bytes(op'.seg)
  PROVE  k \in todo'
  <1> DEFINE q == op'.seg
  <1>1. q \in SegType /\ q.start \in Int /\ q.end \in Int /\ q.start <= q.end
    BY DEF MapInv, WorkerType, SegType, Aligned
  <1>2. \A j \in DOMAIN smap : j \in Nat /\ smap[j].end \in Int /\ 0 <= j /\ j <= smap[j].end
    BY KeyFacts
  <1>3. ASSUME NEW j \in DOMAIN smap PROVE q.start <= j \/ smap[j].end < q.start
    <2>1. Key(smap, j) \in Pieces' /\ Key(smap, j).start = j /\ Key(smap, j).end = smap[j].end
      BY DEF Pieces, Keys, Key, Seg
    <2> QED
      BY <2>1 DEF MapInv, Aligned
  <1>4. b \in Int /\ k <= b /\ b <= smap[k].end /\ q.start <= b /\ b <= q.end
    BY <1>1, <1>2, KeyFacts DEF Bytes
  <1>5. k <= q.end /\ q.start <= smap[k].end
    BY <1>1, <1>2, <1>4
  <1>6. MapType(smap)
    BY DEF MapInv, WorkerType
  <1> HIDE DEF q
  <1>7. k \in ContainsInServer(smap, q)
    BY <1>1, <1>2, <1>3, <1>5, <1>6, LookupComplete
  <1> QED
    BY <1>7 DEF q

LEMMA IdleContent ==
  ASSUME MapInv, CutInv, ContentInv, pc = "idle",
         NEW k \in DOMAIN smap, NEW b \in Bytes(Key(smap, k))
  PROVE  After(smap[k], b)
  BY DEF CutInv, ContentInv

LEMMA ContentStartRead ==
  ASSUME MapInv, MapInv', CutInv, ContentInv, ScoreType, 0 \notin ReadSizes, StartRead
  PROVE  ContentInv'
  <1>1. PICK n \in ReadSizes, w \in Weights :
          /\ op' = [kind |-> "read", seg |-> Seg(0, n - 1), layer |-> LAST, weight |-> w]
          /\ hits' = [b \in File |-> IF b < n THEN hits[b] + 1 ELSE hits[b]]
          /\ todo' = ContainsInServer(smap, Seg(0, n - 1))
    BY DEF StartRead
  <1>2. /\ pc = "idle" /\ pc' = "visit" /\ UNCHANGED <<smap, cur, left, home>>
        /\ todo' = ContainsInServer(smap, op'.seg)
    BY <1>1 DEF StartRead
  <1>3. n \in Nat /\ op'.kind = "read" /\ Bytes(op'.seg) = 0 .. (n - 1)
    BY <1>1, SegmentMapAssumption DEF Seg, Bytes
  <1>4. ASSUME NEW k \in DOMAIN smap, NEW b \in Bytes(Key(smap, k))
        PROVE  IF k \in todo' /\ b \in Bytes(op'.seg) THEN Before(smap[k], b)'
               ELSE After(smap[k], b)'
    <2>1. After(smap[k], b) /\ b \in File /\ b \in Nat
      BY <1>2, IdleContent, KeyFacts, SegmentMapAssumption DEF File
    <2>2. hits'[b] = IF b < n THEN hits[b] + 1 ELSE hits[b]
      BY <1>1, <2>1
    <2>3. hits[b] \in Nat
      BY <2>1 DEF ScoreType
    <2>4. CASE b \in Bytes(op'.seg)
      <3>1. k \in todo'
        BY <1>2, <2>4, TodoComplete
      <3>2. hits'[b] - 1 = hits[b]
        BY <1>3, <2>2, <2>3, <2>4
      <3> QED
        BY <1>2, <1>3, <2>1, <2>4, <3>1, <3>2 DEF Before, After
    <2>5. CASE b \notin Bytes(op'.seg)
      <3>1. hits'[b] = hits[b]
        BY <1>3, <2>1, <2>2, <2>5
      <3> QED
        BY <1>2, <2>1, <2>5, <3>1 DEF After
    <2> QED
      BY <2>4, <2>5
  <1>5. \A k \in DOMAIN smap : Key(smap, k)' = Key(smap, k)
    BY <1>2 DEF Key
  <1>6. InTransit' = {}
    BY <1>2 DEF InTransit
  <1> QED
    BY <1>2, <1>3, <1>4, <1>5, <1>6 DEF ContentInv

LEMMA ContentStartMove ==
  ASSUME MapInv, MapInv', CutInv, ContentInv, ScoreType, StartMove
  PROVE  ContentInv'
  <1>1. PICK f \in DOMAIN smap, last \in File, l \in Buffers :
          /\ op' = [kind |-> "move", seg |-> Seg(f, last), layer |-> l, weight |-> 0]
          /\ home' = [b \in File |-> IF b \in f .. last THEN l ELSE home[b]]
          /\ todo' = ContainsInServer(smap, Seg(f, last))
    BY DEF StartMove
  <1>2. /\ pc = "idle" /\ pc' = "visit" /\ UNCHANGED <<smap, cur, left, hits>>
        /\ todo' = ContainsInServer(smap, op'.seg)
    BY <1>1 DEF StartMove
  <1>3. op'.kind = "move" /\ op'.layer = l /\ Bytes(op'.seg) = f .. last
    BY <1>1 DEF Seg, Bytes
  <1>4. ASSUME NEW k \in DOMAIN smap, NEW b \in Bytes(Key(smap, k))
        PROVE  IF k \in todo' /\ b \in Bytes(op'.seg) THEN Before(smap[k], b)'
               ELSE After(smap[k], b)'
    <2>1. After(smap[k], b) /\ b \in File
      BY <1>2, IdleContent, KeyFacts
    <2>2. CASE b \in Bytes(op'.seg)
      <3>1. k \in todo'
        BY <1>2, <2>2, TodoComplete
      <3>2. hits[b] - 0 = hits[b]
        BY <2>1 DEF ScoreType
      <3> QED
        BY <1>2, <1>3, <2>1, <2>2, <3>1, <3>2 DEF Before, After
    <2>3. CASE b \notin Bytes(op'.seg)
      <3>1. home'[b] = home[b]
        BY <1>1, <1>3, <2>1, <2>3
      <3> QED
        BY <1>2, <2>1, <2>3, <3>1 DEF After
    <2> QED
      BY <2>2, <2>3
  <1>5. \A k \in DOMAIN smap : Key(smap, k)' = Key(smap, k)
    BY <1>2 DEF Key
  <1>6. InTransit' = {}
    BY <1>2 DEF InTransit
  <1>7. \A b \in Bytes(op'.seg) : b \in File => home'[b] = op'.layer
    BY <1>1, <1>3
  <1> QED
    BY <1>2, <1>4, <1>5, <1>6, <1>7 DEF ContentInv

LEMMA ContentErase ==
  ASSUME MapInv, CutInv, ContentInv, EraseElement
  PROVE  ContentInv'
  <1>1. PICK k \in todo :
          /\ k \in DOMAIN smap
          /\ cur' = [seg |-> Key(smap, k), entry |-> smap[k]]
          /\ todo' = todo \ {k}
          /\ DOMAIN smap' = DOMAIN smap \ {k}
          /\ \A j \in DOMAIN smap' : smap'[j] = smap[j] /\ Key(smap, j)' = Key(smap, j)
          /\ \A p \in InTransit' : Bytes(p) \subseteq Bytes(Key(smap, k))
    BY EraseFacts
  <1>2. UNCHANGED <<op, hits, home>>
    BY DEF EraseElement
  <1>3. \A e, b : (Before(e, b)' <=> Before(e, b)) /\ (After(e, b)' <=> After(e, b))
    BY <1>2 DEF Before, After
  <1>4. ASSUME NEW j \in DOMAIN smap', NEW b \in Bytes(Key(smap, j)')
        PROVE  IF j \in todo' /\ b \in Bytes(op'.seg) THEN Before(smap[j], b)'
               ELSE After(smap[j], b)'
    <2>1. j \in DOMAIN smap /\ b \in Bytes(Key(smap, j)) /\ smap'[j] = smap[j]
          /\ (j \in todo' <=> j \in todo)
      BY <1>1
    <2> QED
      BY <1>2, <2>1 DEF ContentInv, Before, After
  <1>5. ASSUME NEW p \in InTransit', NEW b \in Bytes(p)
        PROVE  IF b \in Bytes(op'.seg) THEN Before(cur.entry, b)' ELSE After(cur.entry, b)'
    <2>1. b \in Bytes(Key(smap, k)) /\ cur'.entry = smap[k]
      BY <1>1
    <2> QED
      BY <1>1, <1>2, <2>1 DEF ContentInv, Before, After
  <1> QED
    BY <1>2, <1>4, <1>5 DEF ContentInv

LEMMA ContentPutLeftOver ==
  ASSUME MapInv, CutInv, ContentInv, PutLeftOver
  PROVE  ContentInv'
  <1>1. PICK s \in left :
          /\ s \in InTransit /\ InTransit' \subseteq InTransit /\ s \in SegType
          /\ s.start \notin DOMAIN smap /\ DOMAIN smap' = DOMAIN smap \cup {s.start}
          /\ \A k \in DOMAIN smap : smap'[k] = smap[k] /\ Key(smap, k)' = Key(smap, k)
          /\ Key(smap', s.start) = s
          /\ smap'[s.start].freq = cur.entry.freq
          /\ smap'[s.start].layer = cur.entry.layer
    BY PutLeftOverFacts
  <1>2. UNCHANGED <<pc, op, todo, cur, hits, home>> /\ pc = "put"
    BY DEF PutLeftOver
  <1>3. ASSUME NEW k \in DOMAIN smap', NEW b \in Bytes(Key(smap, k)')
        PROVE  IF k \in todo' /\ b \in Bytes(op'.seg) THEN Before(smap[k], b)'
               ELSE After(smap[k], b)'
    <2>1. CASE k \in DOMAIN smap
      BY <1>1, <1>2, <2>1 DEF ContentInv, Before, After
    <2>2. CASE k = s.start
      <3>1. b \in Bytes(s)
        BY <1>1, <2>2 DEF Key
      <3>2. b \notin Bytes(op.seg)
        <4>1. op.seg.end < s.start /\ op.seg.end \in Int /\ s.start \in Int /\ s.end \in Int
          BY <1>1, <1>2 DEF CutInv, MapInv, WorkerType, SegType
        <4> QED
          BY <3>1, <4>1 DEF Bytes
      <3>3. After(cur.entry, b)
        BY <1>1, <3>1, <3>2 DEF ContentInv
      <3> QED
        BY <1>1, <1>2, <2>2, <3>2, <3>3 DEF After
    <2> QED
      BY <1>1, <2>1, <2>2
  <1>4. ASSUME NEW p \in InTransit', NEW b \in Bytes(p)
        PROVE  IF b \in Bytes(op'.seg) THEN Before(cur.entry, b)' ELSE After(cur.entry, b)'
    BY <1>1, <1>2 DEF ContentInv, Before, After
  <1> QED
    BY <1>2, <1>3, <1>4 DEF ContentInv

LEMMA ContentPutCommon ==
  ASSUME MapInv, CutInv, ContentInv, ScoreType, PutCommon
  PROVE  ContentInv'
  <1> DEFINE c == Common
             u == Updated(cur.entry)
  <1>1. /\ c \in InTransit /\ InTransit' = {} /\ c \in SegType
        /\ Bytes(c) \subseteq Bytes(op.seg) /\ Bytes(c) \subseteq File
        /\ c.start \notin DOMAIN smap /\ DOMAIN smap' = DOMAIN smap \cup {c.start}
        /\ \A k \in DOMAIN smap : smap'[k] = smap[k] /\ Key(smap, k)' = Key(smap, k)
        /\ Key(smap', c.start) = c
        /\ smap'[c.start].freq = u.freq /\ smap'[c.start].layer = u.layer
    BY PutCommonFacts
  <1>2. UNCHANGED <<op, todo, hits, home>> /\ pc = "put" /\ op.kind \in {"read", "move"}
    BY DEF PutCommon, CutInv
  <1>3. cur.entry \in Entry /\ todo \subseteq DOMAIN smap
    BY DEF MapInv, WorkerType
  <1>4. ASSUME NEW b \in Bytes(c) PROVE u.freq = hits[b] /\ u.layer = home[b]
    <2>1. Before(cur.entry, b) /\ b \in File
      BY <1>1 DEF ContentInv
    <2>2. hits[b] \in Nat /\ cur.entry.freq \in Nat
      BY <1>3, <2>1 DEF ScoreType, Entry
    <2>3. CASE op.kind = "read"
      <3>1. u.freq = cur.entry.freq + 1 /\ u.layer = cur.entry.layer
        BY <1>3, <2>3 DEF Updated, Entry
      <3> QED
        BY <2>1, <2>2, <2>3, <3>1 DEF Before
    <2>4. CASE op.kind = "move"
      <3>1. u.freq = cur.entry.freq /\ u.layer = op.layer
        BY <1>3, <2>4 DEF Updated, Entry
      <3>2. home[b] = op.layer
        BY <1>1, <2>1, <2>4 DEF ContentInv
      <3> QED
        BY <2>1, <2>2, <2>4, <3>1, <3>2 DEF Before
    <2> QED
      BY <1>2, <2>3, <2>4
  <1> HIDE DEF c, u
  <1>5. ASSUME NEW k \in DOMAIN smap', NEW b \in Bytes(Key(smap, k)')
        PROVE  IF k \in todo' /\ b \in Bytes(op'.seg) THEN Before(smap[k], b)'
               ELSE After(smap[k], b)'
    <2>1. CASE k \in DOMAIN smap
      BY <1>1, <1>2, <2>1 DEF ContentInv, Before, After
    <2>2. CASE k = c.start
      <3>1. b \in Bytes(c)
        BY <1>1, <2>2 DEF Key
      <3>2. k \notin todo'
        BY <1>1, <1>2, <1>3, <2>2
      <3> QED
        BY <1>1, <1>2, <1>4, <2>2, <3>1, <3>2 DEF After
    <2> QED
      BY <1>1, <2>1, <2>2
  <1> QED
    BY <1>1, <1>2, <1>5 DEF ContentInv

LEMMA ContentFinish ==
  ASSUME MapInv, ContentInv, FinishEvent
  PROVE  ContentInv'
  <1>1. /\ pc = "visit" /\ pc' = "idle" /\ todo = {} /\ op'.kind = "none"
        /\ UNCHANGED <<smap, todo, cur, left, hits, home>>
    BY DEF FinishEvent, NoOp
  <1>2. InTransit' = {} /\ \A k \in DOMAIN smap : Key(smap, k)' = Key(smap, k)
    BY <1>1 DEF InTransit, Key
  <1>3. \A k \in DOMAIN smap : \A b : After(smap[k], b)' <=> After(smap[k], b)
    BY <1>1 DEF After
  <1> QED
    BY <1>1, <1>2, <1>3 DEF ContentInv


----------------------------------------------------------------------------
(* The scores of the layers. *)

LEMMA InitScores == Init => ScoreType /\ CutInv /\ ContentInv /\ TouchedIsScored
  <1> SUFFICES ASSUME Init PROVE ScoreType /\ CutInv /\ ContentInv /\ TouchedIsScored
    OBVIOUS
  <1>1. /\ layer_score = [l \in Layers |-> {}] /\ pc = "idle" /\ op = NoOp
        /\ todo = {} /\ reads = 0 /\ moves = 0
        /\ hits = [b \in File |-> 0] /\ home = [b \in File |-> LAST]
    BY DEF Init
  <1>2. DOMAIN smap = {0} /\ smap[0].end = Size - 1 /\ smap[0].layer = LAST
        /\ smap[0].freq = 0 /\ smap[0].scored = FALSE
    BY DEF Init
  <1>3. ScoreType
    BY <1>1, LayerFacts, SegmentMapAssumption DEF ScoreType
  <1>4. CutInv
    BY <1>1 DEF CutInv
  <1>5. ContentInv
    <2>1. InTransit = {} /\ op.kind = "none"
      BY <1>1 DEF InTransit, NoOp
    <2>2. Bytes(Key(smap, 0)) = File
      BY <1>2 DEF Bytes, Key, Seg, File
    <2> QED
      BY <1>1, <1>2, <2>1, <2>2 DEF ContentInv, After
  <1>6. TouchedIsScored
    BY <1>2 DEF TouchedIsScored
  <1> QED
    BY <1>3, <1>4, <1>5, <1>6

LEMMA InitCopies == Init => CopyInv
  <1> SUFFICES ASSUME Init PROVE CopyInv
    OBVIOUS
  <1>1. at = [b \in File |-> LAST] /\ home = [b \in File |-> LAST]
    BY DEF Init
  <1> QED
    BY <1>1, LayerFacts DEF CopyInv

(* What PutCommon does to the scores. *)
LEMMA RescoreFacts ==
  ASSUME MapInv, ScoreType, PutCommon
  PROVE  LET u == Updated(cur.entry)
         IN  /\ u.layer \in Layers /\ GetScore(u) \in Nat
             /\ layer_score' \in [Layers -> SUBSET (Nat \X SegType)]
             /\ <<GetScore(u), Common>> \in layer_score'[u.layer]
             /\ \A l \in Layers : \A p :
                   p \in layer_score[l] /\ p[2] # cur.seg => p \in layer_score'[l]
  <1> DEFINE u == Updated(cur.entry)
             new == Rescored(layer_score[u.layer])
  <1>1. layer_score' = [layer_score EXCEPT ![u.layer] = new]
    BY DEF PutCommon
  <1>2. u.layer \in Layers /\ GetScore(u) \in Nat
    BY PutCommonFacts DEF Entry, GetScore
  <1>3. <<GetScore(u), Common>> \in Nat \X SegType
    BY <1>2, PutCommonFacts
  <1>4. new = (layer_score[u.layer] \ {<<GetScore(cur.entry), cur.seg>>})
                \cup {<<GetScore(u), Common>>}
    BY DEF Rescored
  <1>5. layer_score \in [Layers -> SUBSET (Nat \X SegType)]
    BY DEF ScoreType
  <1> DEFINE old == <<GetScore(cur.entry), cur.seg>>
             pair == <<GetScore(u), Common>>
  <1>6. old[2] = cur.seg
    OBVIOUS
  <1> HIDE DEF u, new, old, pair
  <1>7. new = (layer_score[u.layer] \ {old}) \cup {pair} /\ pair \in Nat \X SegType
    BY <1>3, <1>4 DEF old, pair, u
  <1>8. new \in SUBSET (Nat \X SegType) /\ pair \in new
    BY <1>2, <1>5, <1>7
  <1>9. \A p : p \in layer_score[u.layer] /\ p[2] # cur.seg => p \in new
    BY <1>6, <1>7
  <1>10. /\ layer_score'[u.layer] = new
         /\ \A l \in Layers : l # u.layer => layer_score'[l] = layer_score[l]
         /\ layer_score' \in [Layers -> SUBSET (Nat \X SegType)]
    BY <1>1, <1>2, <1>5, <1>8
  <1>11. \A l \in Layers : \A p :
            p \in layer_score[l] /\ p[2] # cur.seg => p \in layer_score'[l]
    BY <1>9, <1>10
  <1> QED
    BY <1>2, <1>8, <1>10, <1>11 DEF pair, u

LEMMA ScoreStep ==
  ASSUME MapInv, ScoreType, [Next]_vars PROVE ScoreType'
  <1>1. CASE StartRead
    <2>1. PICK n \in ReadSizes :
            hits' = [b \in File |-> IF b < n THEN hits[b] + 1 ELSE hits[b]]
      BY <1>1 DEF StartRead
    <2>2. /\ reads' = reads + 1 /\ reads < MaxReads
          /\ UNCHANGED <<layer_score, moves, home>>
      BY <1>1 DEF StartRead
    <2>3. hits' \in [File -> Nat]
      BY <2>1 DEF ScoreType
    <2>4. reads' \in 0 .. MaxReads
      BY <2>2, SegmentMapAssumption DEF ScoreType
    <2> QED
      BY <2>2, <2>3, <2>4 DEF ScoreType
  <1>2. CASE StartMove
    <2>1. PICK k \in DOMAIN smap, last \in File, l \in Buffers :
            home' = [b \in File |-> IF b \in k .. last THEN l ELSE home[b]]
      BY <1>2 DEF StartMove
    <2>2. /\ moves' = moves + 1 /\ moves < MaxMoves
          /\ UNCHANGED <<layer_score, reads, hits>>
      BY <1>2 DEF StartMove
    <2>3. home' \in [File -> Layers]
      BY <2>1, LayerFacts DEF ScoreType
    <2>4. moves' \in 0 .. MaxMoves
      BY <2>2, SegmentMapAssumption DEF ScoreType
    <2> QED
      BY <2>2, <2>3, <2>4 DEF ScoreType
  <1>3. CASE EraseElement
    BY <1>3 DEF EraseElement, ScoreType
  <1>4. CASE PutLeftOver
    BY <1>4 DEF PutLeftOver, ScoreType
  <1>5. CASE PutCommon
    <2>1. layer_score' \in [Layers -> SUBSET (Nat \X SegType)]
      BY <1>5, RescoreFacts
    <2> QED
      BY <1>5, <2>1 DEF PutCommon, ScoreType
  <1>6. CASE FinishEvent
    BY <1>6 DEF FinishEvent, ScoreType
  <1>7. CASE AllEventsHandled \/ UNCHANGED vars
    BY <1>7 DEF AllEventsHandled, vars, ScoreType
  <1>8. CASE MoveBuffer
    <2>1. /\ moves' = moves + 1 /\ moves < MaxMoves
          /\ UNCHANGED <<layer_score, reads, hits, home>>
      BY <1>8 DEF MoveBuffer
    <2>2. moves' \in 0 .. MaxMoves
      BY <2>1, SegmentMapAssumption DEF ScoreType
    <2> QED
      BY <2>1, <2>2 DEF ScoreType
  <1> QED
    BY <1>1, <1>2, <1>3, <1>4, <1>5, <1>6, <1>7, <1>8 DEF Next

(* A byte that MoveBuffer takes further up is one of an entry that names a  *)
(* buffer, and the entry is right about the layer.                          *)
LEMMA CopyStep ==
  ASSUME MapInv, ScoreType, CutInv, ContentInv, CopyInv, [Next]_vars
  PROVE  CopyInv'
  <1>1. ASSUME UNCHANGED <<home, at>> PROVE CopyInv'
    BY <1>1 DEF CopyInv
  <1>2. CASE StartMove
    <2>1. PICK k \in DOMAIN smap, last \in File, l \in Buffers :
            /\ home' = [b \in File |-> IF b \in k .. last THEN l ELSE home[b]]
            /\ at' = [b \in File |-> IF b \in k .. last THEN l ELSE at[b]]
      BY <1>2 DEF StartMove
    <2>2. l \in Layers /\ l \in Nat
      BY LayerFacts
    <2>3. at' \in [File -> Layers]
      BY <2>1, <2>2 DEF CopyInv
    <2>4. ASSUME NEW b \in File
          PROVE  at'[b] <= home'[b] /\ (at'[b] = LAST <=> home'[b] = LAST)
      <3>1. CASE b \in k .. last
        BY <2>1, <2>2, <3>1
      <3>2. CASE b \notin k .. last
        BY <2>1, <3>2 DEF CopyInv
      <3> QED
        BY <3>1, <3>2
    <2> QED
      BY <2>3, <2>4 DEF CopyInv
  <1>3. CASE MoveBuffer
    <2>1. PICK k \in DOMAIN smap :
            /\ smap[k].layer # LAST
            /\ \E l \in 1 .. (smap[k].layer - 1), part \in SUBSET InBuffer(k) :
                  at' = [b \in File |-> IF b \in part THEN l ELSE at[b]]
      BY <1>3 DEF MoveBuffer
    <2>2. PICK l \in 1 .. (smap[k].layer - 1), part \in SUBSET InBuffer(k) :
            at' = [b \in File |-> IF b \in part THEN l ELSE at[b]]
      BY <2>1
    <2>3. pc = "idle" /\ UNCHANGED home
      BY <1>3 DEF MoveBuffer
    <2>4. smap[k].layer \in Layers
      BY DEF MapInv, WorkerType, MapType, Entry
    <2>5. smap[k].layer \in Nat /\ smap[k].layer <= LAST /\ LAST \in Nat
      BY <2>4, LayerFacts
    <2>6. l \in Nat /\ l >= 1 /\ l < smap[k].layer /\ l < LAST
      BY <2>5
    <2>7. l \in Layers
      BY <2>5, <2>6 DEF Layers
    <2>8. at' \in [File -> Layers]
      BY <2>2, <2>7 DEF CopyInv
    <2>9. ASSUME NEW b \in File
          PROVE  at'[b] <= home[b] /\ (at'[b] = LAST <=> home[b] = LAST)
      <3>1. CASE b \in part
        <4>1. PICK j \in DOMAIN smap :
                b \in Bytes(Key(smap, j)) /\ smap[j].layer = smap[k].layer
          BY <2>2, <3>1 DEF InBuffer
        <4>2. home[b] = smap[k].layer
          BY <2>3, <4>1, IdleContent DEF After
        <4>3. at'[b] = l
          BY <2>2, <3>1
        <4> QED
          BY <2>1, <2>5, <2>6, <4>2, <4>3
      <3>2. CASE b \notin part
        BY <2>2, <3>2 DEF CopyInv
      <3> QED
        BY <3>1, <3>2
    <2> QED
      BY <2>3, <2>8, <2>9 DEF CopyInv
  <1> QED
    BY <1>1, <1>2, <1>3
    DEF Next, StartRead, EraseElement, PutLeftOver, PutCommon, FinishEvent,
        AllEventsHandled, vars

LEMMA ContentStep ==
  ASSUME MapInv, MapInv', ScoreType, CutInv, ContentInv, 0 \notin ReadSizes, [Next]_vars
  PROVE  ContentInv'
  <1>1. CASE StartRead
    BY <1>1, ContentStartRead
  <1>2. CASE StartMove
    BY <1>2, ContentStartMove
  <1>3. CASE EraseElement
    BY <1>3, ContentErase
  <1>4. CASE PutLeftOver
    BY <1>4, ContentPutLeftOver
  <1>5. CASE PutCommon
    BY <1>5, ContentPutCommon
  <1>6. CASE FinishEvent
    BY <1>6, ContentFinish
  <1>7. CASE MoveBuffer \/ AllEventsHandled \/ UNCHANGED vars
    BY <1>7
    DEF MoveBuffer, AllEventsHandled, vars, ContentInv, Before, After, InTransit, Common, Key
  <1> QED
    BY <1>1, <1>2, <1>3, <1>4, <1>5, <1>6, <1>7 DEF Next

LEMMA TouchedStep ==
  ASSUME MapInv, ScoreType, CutInv, TouchedIsScored, [Next]_vars
  PROVE  TouchedIsScored'
  <1>1. CASE UNCHANGED <<smap, layer_score>>
    BY <1>1 DEF TouchedIsScored, Key
  <1>2. CASE EraseElement
    <2>1. PICK k \in todo :
            /\ DOMAIN smap' = DOMAIN smap \ {k}
            /\ \A j \in DOMAIN smap' : smap'[j] = smap[j] /\ Key(smap, j)' = Key(smap, j)
      BY <1>2, EraseFacts
    <2>2. layer_score' = layer_score
      BY <1>2 DEF EraseElement
    <2> QED
      BY <2>1, <2>2 DEF TouchedIsScored
  <1>3. CASE PutLeftOver
    <2>1. PICK s \in left :
            /\ DOMAIN smap' = DOMAIN smap \cup {s.start}
            /\ \A k \in DOMAIN smap : smap'[k] = smap[k] /\ Key(smap, k)' = Key(smap, k)
            /\ smap'[s.start].scored = FALSE
      BY <1>3, PutLeftOverFacts
    <2>2. layer_score' = layer_score
      BY <1>3 DEF PutLeftOver
    <2> QED
      BY <2>1, <2>2 DEF TouchedIsScored
  <1>4. CASE PutCommon
    <2> DEFINE c == Common
               u == Updated(cur.entry)
    <2>1. /\ c.start \notin DOMAIN smap /\ DOMAIN smap' = DOMAIN smap \cup {c.start}
          /\ \A k \in DOMAIN smap : smap'[k] = smap[k] /\ Key(smap, k)' = Key(smap, k)
          /\ Key(smap', c.start) = c
          /\ smap'[c.start].layer = u.layer /\ smap'[c.start].lrf = u.lrf
      BY <1>4, PutCommonFacts
    <2>2. /\ <<GetScore(u), c>> \in layer_score'[u.layer]
          /\ \A l \in Layers : \A p :
                p \in layer_score[l] /\ p[2] # cur.seg => p \in layer_score'[l]
      BY <1>4, RescoreFacts
    <2>3. c.start = cur.seg.start
      <3>1. op.seg.start \in Int /\ cur.seg.start \in Int /\ op.seg.start <= cur.seg.start
        BY <1>4 DEF PutCommon, CutInv, MapInv, WorkerType, SegType
      <3> QED
        BY <3>1 DEF Common, Intersect, Seg
    <2> HIDE DEF c, u
    <2>4. ASSUME NEW k \in DOMAIN smap', smap'[k].scored
          PROVE  <<GetScore(smap'[k]), Key(smap, k)'>> \in layer_score'[smap'[k].layer]
      <3>1. CASE k \in DOMAIN smap
        <4>1. <<GetScore(smap[k]), Key(smap, k)>> \in layer_score[smap[k].layer]
          BY <2>1, <2>4, <3>1 DEF TouchedIsScored
        <4>2. Key(smap, k).start = k /\ smap[k].layer \in Layers
          BY <3>1, KeyFacts DEF Entry
        <4>3. Key(smap, k) # cur.seg
          BY <2>1, <2>3, <3>1, <4>2
        <4>4. <<GetScore(smap[k]), Key(smap, k)>>[2] = Key(smap, k)
          OBVIOUS
        <4>5. <<GetScore(smap[k]), Key(smap, k)>> \in layer_score'[smap[k].layer]
          BY <2>2, <4>1, <4>2, <4>3, <4>4
        <4> QED
          BY <2>1, <3>1, <4>5
      <3>2. CASE k = c.start
        <4>1. Key(smap, k)' = c
          BY <2>1, <3>2 DEF Key
        <4>2. GetScore(smap'[k]) = GetScore(u)
          BY <2>1, <3>2 DEF GetScore
        <4> QED
          BY <2>1, <2>2, <3>2, <4>1, <4>2
      <3> QED
        BY <2>1, <3>1, <3>2
    <2> QED
      BY <2>4 DEF TouchedIsScored, GetScore
  <1> QED
    BY <1>1, <1>2, <1>3, <1>4
    DEF Next, StartRead, StartMove, MoveBuffer, FinishEvent, AllEventsHandled, vars

(* The invariants of this module hold together with that of the tiling. *)
LEMMA MapContentHolds ==
  ASSUME 0 \notin ReadSizes
  PROVE  Spec => [](/\ MapInv /\ ScoreType /\ CutInv /\ ContentInv /\ CopyInv
                    /\ TouchedIsScored)
  <1> DEFINE I == ScoreType /\ CutInv /\ ContentInv /\ CopyInv /\ TouchedIsScored
  <1>1. Init => I
    BY InitScores, InitCopies
  <1>2. MapInv /\ MapInv' /\ I /\ [Next]_vars => I'
    <2>1. ASSUME MapInv, MapInv', I, [Next]_vars PROVE I'
      <3>1. ScoreType' /\ CutInv'
        BY <2>1, ScoreStep, CutStep
      <3>2. ContentInv' /\ CopyInv'
        BY <2>1, ContentStep, CopyStep
      <3>3. TouchedIsScored'
        BY <2>1, TouchedStep
      <3> QED
        BY <3>1, <3>2, <3>3
    <2> QED
      BY <2>1
  <1> HIDE DEF I
  <1>3. Spec => [](MapInv /\ I)
    BY <1>1, <1>2, MapInvHolds, PTL DEF Spec
  <1> QED
    BY <1>3, PTL DEF I

(* The map, the scores of the layers, the worker's registers and the        *)
(* counters of FileSegmentAuditor keep their types over every sequence of   *)
(* reads (of at least one byte) and moves.                                  *)
THEOREM MapTypeCorrect ==
  ASSUME 0 \notin ReadSizes
  PROVE  Spec => []TypeOK
  <1>1. ASSUME MapInv, ScoreType, CopyInv PROVE TypeOK
    <2>1. ASSUME NEW l \in Layers, NEW p \in layer_score[l]
          PROVE  p[1] \in Nat /\ p[2].start \in Int
      <3>1. p \in Nat \X SegType
        BY <1>1, <2>1 DEF ScoreType
      <3> QED
        BY <3>1 DEF SegType
    <2>2. MapType(smap) /\ pc \in {"idle", "visit", "put"} /\ todo \subseteq DOMAIN smap
      BY <1>1 DEF MapInv, WorkerType
    <2> QED
      BY <1>1, <2>1, <2>2 DEF TypeOK, ScoreType, CopyInv, MapType
  <1> QED
    BY <1>1, MapContentHolds, PTL

(* Between events the frequency of every byte is the number of reads that   *)
(* covered it: IncreaseFileSegmentFrequency loses no read and counts none   *)
(* twice, through every split of the map.                                   *)
THEOREM HeatIsExact ==
  ASSUME 0 \notin ReadSizes
  PROVE  Spec => []ExactHeat
  <1>1. ASSUME MapInv, CutInv, ContentInv PROVE ExactHeat
    BY <1>1, IdleContent DEF ExactHeat, After
  <1> QED
    BY <1>1, MapContentHolds, PTL

(* Between events the layer the map gives for a byte is the one to which it *)
(* was last copied from the file (UpdateOnMove), through every split.  As   *)
(* UpdateOnMove records no move of a buffer, the byte may have gone further *)
(* up; but it has left the file exactly when the map says so.               *)
THEOREM LayerIsExact ==
  ASSUME 0 \notin ReadSizes
  PROVE  Spec => []ExactLayer
  <1>1. ASSUME MapInv, CutInv, ContentInv, CopyInv PROVE ExactLayer
    BY <1>1, IdleContent DEF ExactLayer, After, CopyInv
  <1> QED
    BY <1>1, MapContentHolds, PTL

(* The placement engine finds every piece whose last update touched it as a *)
(* whole, in the layer where it is and with the score it has: replacing the *)
(* pair of the element that is visited never drops that of another piece.   *)
THEOREM ScoresListTouched ==
  ASSUME 0 \notin ReadSizes
  PROVE  Spec => []TouchedIsScored
  BY MapContentHolds, PTL
=============================================================================
