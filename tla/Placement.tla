----------------------------- MODULE Placement -----------------------------
(***************************************************************************)
(* Where data goes (MaxBandwidthDPE, DataManager) and what the I/O clients *)
(* do with it (SharedFileClient, LocalFileClient, MemoryClient), for the   *)
(* one worker of a server.  Layer 1 is Layer::FIRST, layer Last is         *)
(* Layer::LAST, which holds the files themselves.  place() plans moves for *)
(* every segment of a heat map with the usage it measures then; handle()   *)
(* carries them out one by one; the close of a file deletes its buffers.   *)
(*                                                                         *)
(* Of a buffer only the number of bytes is kept.  The heat map is the      *)
(* auditor's (SegmentMap): of data in the file it says that it is in the   *)
(* whole file, whatever the key; of data in a buffer it may name any       *)
(* segment within the source that the buffer was first filled from.  It    *)
(* goes on naming that buffer in that layer: UpdateOnMove finds no map for *)
(* the name of a buffer.  The scores of a layer decide two things, which   *)
(* are arbitrary here: whether a segment may push others out, and how many *)
(* bytes the loop of solve counts; its first iteration reads the end() of  *)
(* the score map, so that number may be anything, even negative.           *)
(***************************************************************************)
EXTENDS Segments, FiniteSetsExt

CONSTANTS
    Last,           \* number of layers
    Memory,         \* layers of MemoryClient; the others are of a file client
    Capacity,       \* layer -> capacity_mb_ * MB
    SegmentSize,    \* SEGMENT_SIZE
    IntMax,         \* the largest int, 2^31 - 1
    KB,             \* bytes in a unit of du; file systems allot such units
    MaxEnd,         \* bound: last offset of a file
    Counted,        \* bound: what the loop of solve may count
    MaxNames,       \* bound: buffers
    MaxSegments,    \* bound: segments of a heat map
    MaxEvents,      \* bound: events
    None

Buffered == 1 .. (Last - 1)
Files == Buffered \ Memory
Names == 1 .. MaxNames
Original == 0       \* stands for the name of the file, in layer Last
Fresh == MaxNames + 1  \* stands for a name the sequence has still to give

ASSUME PlacementAssumption ==
    /\ {Last, SegmentSize, KB} \subseteq Nat \ {0}
    /\ {MaxEnd, MaxNames, MaxSegments, MaxEvents} \subseteq Nat
    /\ Memory \subseteq Buffered /\ Counted \subseteq Int /\ None \notin Int
    \* A layer has room for a segment.
    /\ Capacity \in [Buffered -> Nat] /\ \A l \in Buffered : Capacity[l] >= SegmentSize

(* A file has at most IntMax bytes: SplitInParts counts them in an int.    *)
ASSUME IntAssumption == IntMax \in Nat /\ SegmentSize <= IntMax /\ MaxEnd < IntMax

(* The default layers have one of MemoryClient.  Several would share its   *)
(* data_map, in which a buffer has no layer.                               *)
ASSUME MemoryAssumption == \A l, m \in Memory : l = m

VARIABLES
    bytes,          \* layer -> name -> bytes in the buffer, or None
    names,          \* buffer names given out
    layerCapacity,  \* layer -> the usage last measured, or None
    hasChanged,     \* layer -> the flag
    located,        \* name -> [layer, size]: what heat maps may say of it
    phase,          \* "place" or "carry"
    events,         \* events handled
    solved,         \* segments of heat maps taken for this event
    frame,          \* the call of solve that is next, or None
    planned,        \* the last segment and its placements so far
    todo            \* placements not carried out

vars == <<bytes, names, layerCapacity, hasChanged, located, phase, events, solved,
          frame, planned, todo>>

Piece(n, l, s) == [name |-> n, layer |-> l, seg |-> s]

Init ==
    /\ bytes = [l \in Buffered |-> [n \in Names |-> None]]
    /\ names = 0
    /\ layerCapacity = [l \in Files |-> None]
    /\ hasChanged = [l \in Files |-> FALSE]
    /\ located = [n \in Names |-> None]
    /\ phase = "place" /\ events = 0 /\ solved = 0 /\ frame = None
    /\ planned = None /\ todo = <<>>

----------------------------------------------------------------------------
(* GetCurrentUsage. *)

(* du counts units that are begun; the directory's own are subtracted. *)
Du(n) == (n + KB - 1) \div KB

(* data_map.GetAllData, the sizes added up; the output of du. *)
Sum(f) == MapThenSumSet(LAMBDA n : f[n], DOMAIN f)

Takes(l, n) == IF n = None THEN 0 ELSE IF l \in Memory THEN n ELSE Du(n)

Usage(l) == Sum([n \in Names |-> Takes(l, bytes[l][n])])

Cached(l) == l \in Files /\ layerCapacity[l] # None /\ ~hasChanged[l]

GetCurrentUsage(l) == IF Cached(l) THEN layerCapacity[l] ELSE Usage(l)

(* What asking for the usage of a layer leaves behind. *)
Measured(layer) ==
    /\ layerCapacity' = [l \in Files |-> IF l = layer THEN GetCurrentUsage(l)
                                         ELSE layerCapacity[l]]
    /\ hasChanged' = [l \in Files |-> hasChanged[l] /\ l # layer]

Remaining(l) ==
    IF Capacity[l] < GetCurrentUsage(l) THEN 0 ELSE Capacity[l] - GetCurrentUsage(l)

\* Mutant of HasCapacity: the layer is compared as if it were empty.
HasCapacityEmpty(amount, l) == Capacity[l] >= amount

HasCapacity(amount, l) == Remaining(l) >= amount

(* CanFit says SERVER_SUCCESS, which is 0, and MakeCapacity fails on       *)
(* !CanFit: as every piece fits in an empty layer, it never gets further.  *)
CanFit(amount, l) == IF l = Last \/ Capacity[l] >= amount THEN 0 ELSE 1
MakeCapacityFails(amount, l) == CanFit(amount, l) = 0

----------------------------------------------------------------------------
(* MaxBandwidthDPE. *)

(* A long that is assigned to an int, and the sum of two ints. *)
ToInt(n) == ((n + IntMax + 1) % (2 * IntMax + 2)) - IntMax - 1

(* parts, and left_size when the loop of SplitInParts begins its round i. *)
Parts(s) ==
    ToInt(ToInt(GetSize(s) \div SegmentSize)
            + (IF GetSize(s) % SegmentSize = 0 THEN 0 ELSE 1))
LeftSize(s, i) ==
    LET size == ToInt(GetSize(s))
    IN  IF i = 1 THEN size ELSE Max({size - (i - 1) * SegmentSize, 0})

\* Mutant of SplitInParts: the parts of a source all start where it starts.
PartsStay(s, generateName) ==
    [i \in 1 .. Parts(s) |->
        Seg(ToInt(s.start), ToInt(ToInt(s.start) + Min({LeftSize(s, i), SegmentSize}) - 1))]

(* The parts of a destination with new names all start at 0. *)
SplitInParts(s, generateName) ==
    [i \in 1 .. Parts(s) |->
        LET done == LeftSize(s, 1) - LeftSize(s, i)
            original_index == IF generateName THEN ToInt(s.start) ELSE ToInt(s.start + done)
        IN  Seg(original_index, ToInt(original_index + Min({LeftSize(s, i), SegmentSize}) - 1))]

(* source.GetSize() is taken when source.segment.start is set already, so  *)
(* that the source ends where current_file does, whatever the index.       *)
PlaceDataInLayer(file, l, original_index) ==
    LET generateName == file.layer = Last
        from == SplitInParts(Seg(original_index, file.seg.end), FALSE)
        to == SplitInParts(Seg(0, GetSize(file.seg) - 1), generateName)
    IN  [i \in DOMAIN to |->
            [source |-> Piece(file.name, file.layer, from[i]),
             destination |-> Piece(IF generateName THEN Fresh ELSE file.name, l, to[i])]]

Split(s, capacity) == <<Seg(s.start, s.start + capacity - 1),
                        Seg(s.start + capacity, s.end)>>

\* Mutant of Stops: data is also planned for the layers below its own.
StopsAtLast(file, l) == l = Last

(* The data is in this layer already, or this is the last one. *)
Stops(file, l) == file.layer = l \/ l = Last

(* A step of solve is one call of it, for one layer; original_index and the *)
(* arguments of the call are in frame.  Each call measures its layer first. *)
Here == [planned.file EXCEPT !.seg.start = frame.start]

Places(moves) ==
    /\ planned' = [planned EXCEPT !.moves = planned.moves \o moves]
    /\ todo' = todo \o moves

(* No call for the next layer: the data stays, or all of it is placed. *)
SolveStops ==
    /\ Stops(planned.file, frame.layer)
    /\ frame' = None
    /\ UNCHANGED <<planned, todo>>

SolveFits ==
    /\ ~Stops(planned.file, frame.layer)
    /\ HasCapacity(frame.size, frame.layer)
    /\ Places(PlaceDataInLayer(Here, frame.layer, frame.original_index))
    /\ frame' = None

(* IsAllowed says yes, and the loop comes to "space".  What does not fit is *)
(* the next layer's.                                                        *)
SolvePushesOut(space) ==
    /\ ~Stops(planned.file, frame.layer)
    /\ ~HasCapacity(frame.size, frame.layer)
    /\ \/ /\ space <= 0
          /\ frame' = None
          /\ UNCHANGED <<planned, todo>>
       \/ /\ space > 0 /\ space >= GetSize(Here.seg)
          /\ Places(PlaceDataInLayer(Here, frame.layer, frame.original_index))
          /\ frame' = None
       \/ /\ space > 0 /\ space < GetSize(Here.seg)
          /\ LET pieces == Split(Here.seg, space)
             IN  /\ Places(PlaceDataInLayer([Here EXCEPT !.seg = pieces[1]],
                                            frame.layer, frame.original_index))
                 /\ frame' = [layer |-> frame.layer + 1, size |-> GetSize(pieces[2]),
                              start |-> pieces[2].start,
                              original_index |-> pieces[1].end + 1]

(* IsAllowed says no. *)
SolveSkips ==
    /\ ~Stops(planned.file, frame.layer)
    /\ ~HasCapacity(frame.size, frame.layer)
    /\ frame' = [frame EXCEPT !.layer = frame.layer + 1]
    /\ UNCHANGED <<planned, todo>>

SolveLayer ==
    /\ frame # None
    /\ \/ SolveStops
       \/ SolveFits
       \/ \E counted \in Counted : SolvePushesOut(Remaining(frame.layer) + counted)
       \/ SolveSkips
    /\ Measured(frame.layer)
    /\ UNCHANGED <<bytes, names, located, phase, events, solved>>

(* What a heat map may say of its segments: <<size of the key, place>>.    *)
(* The place of what is in the file is the whole file, under every key; a  *)
(* read may also have cut a key whose place is still the whole piece.      *)
Within(last) == {s \in [start : 0 .. last, end : 0 .. last] : NonEmpty(s)}
InFile == {Piece(Original, Last, Seg(0, end)) : end \in 0 .. MaxEnd}
InBuffer ==
    UNION {{Piece(n, located[n].layer, s) : s \in Within(located[n].size - 1)} :
             n \in {n \in Names : located[n] # None}}
HeatMap ==
    UNION {{<<k, file>> : k \in 1 .. GetSize(file.seg)} : file \in InFile \cup InBuffer}

(* The next segment of the heat map: solve is called for the first layer. *)
PlaceSegment ==
    /\ phase = "place" /\ frame = None /\ solved < MaxSegments /\ events < MaxEvents
    /\ \E h \in HeatMap :
         /\ planned' = [file |-> h[2], moves |-> <<>>]
         /\ frame' = [layer |-> 1, size |-> h[1], start |-> h[2].seg.start,
                      original_index |-> 0]
    /\ solved' = solved + 1
    /\ UNCHANGED <<bytes, names, layerCapacity, hasChanged, located, phase, events,
                   todo>>

PlaceReturns ==
    /\ phase = "place" /\ frame = None /\ solved > 0
    /\ phase' = IF todo = <<>> THEN "place" ELSE "carry"
    /\ events' = events + 1 /\ solved' = 0 /\ planned' = None
    /\ UNCHANGED <<bytes, names, layerCapacity, hasChanged, located, frame, todo>>

----------------------------------------------------------------------------
(* The I/O clients.  n is the number of bytes in the buffer, or None.      *)

(* fwrite of end - start bytes at start: the last byte is not written. *)
FileWritten(n, s) ==
    LET old == IF n = None THEN 0 ELSE n
    IN  IF s.end > s.start THEN Max({old, s.end}) ELSE old

(* A new buffer or a new content; bytes replaced within; a longer content, *)
(* whose segment.end is set to its size.                                   *)
MemoryWritten(n, s) ==
    CASE n = None -> GetSize(s)
      [] n # None /\ n = GetSize(s) /\ s.start = 0 -> n
      [] n # None /\ ~(n = GetSize(s) /\ s.start = 0) ->
           IF n >= s.end THEN n ELSE (n - s.start + 1 + GetSize(s)) + 1

(* fseek returns 0, which is taken for the size: the file is truncated.    *)
FileDeleted(n, s) == IF s.start > 0 THEN s.start - 1 ELSE 0

\* Mutant of MemoryDeleted: the segment is not checked against the buffer.
DeletedUnchecked(n, s) ==
    CASE n = None -> None
      [] n # None /\ n = GetSize(s) /\ s.start = 0 -> None
      [] n # None /\ ~(n = GetSize(s) /\ s.start = 0) -> n - GetSize(s) + 1

(* The entry goes, or only its segment.end is set; a segment that sticks   *)
(* out is ignored.                                                         *)
MemoryDeleted(n, s) ==
    CASE n = None -> None
      [] n # None /\ n = GetSize(s) /\ s.start = 0 -> None
      [] n # None /\ ~(n = GetSize(s) /\ s.start = 0) ->
           IF n >= s.end THEN n - GetSize(s) + 1 ELSE n

Written(l, n, s) == IF l \in Memory THEN MemoryWritten(n, s) ELSE FileWritten(n, s)
Deleted(l, n, s) == IF l \in Memory THEN MemoryDeleted(n, s) ELSE FileDeleted(n, s)

\* Mutant of Changes: only Delete sets the flag.
ChangesByDelete(p) == {p.source.layer}

(* The layers whose hasChanged flag a Move sets. *)
Changes(p) == {p.destination.layer, p.source.layer}

(* data_map has no such file.  A file client does not look. *)
ReadFails(file) == file.layer \in Memory /\ bytes[file.layer][file.name] = None

(* Move: Read, Write, and Delete unless the source is in the last layer; a *)
(* read that fails ends it.  No part of a plan is empty.                   *)
Move(p, n) ==
    LET from == p.source
        to == p.destination
        fails == ReadFails(from)
    IN  /\ bytes' =
             [l \in Buffered |-> [i \in Names |->
                CASE fails -> bytes[l][i]
                  [] ~fails /\ l = to.layer /\ i = n -> Written(l, bytes[l][i], to.seg)
                  [] ~fails /\ l = from.layer /\ i = from.name ->
                       Deleted(l, bytes[l][i], from.seg)
                  [] OTHER -> bytes[l][i]]]
        /\ hasChanged' =
             [l \in Files |->
                IF l \in Changes(p) /\ ~fails THEN TRUE
                ELSE hasChanged[l] /\ l # to.layer]

(* One round of handle(): HasCapacity, MakeCapacity, Prefetch,             *)
(* UpdateOnMove.  MakeCapacity gives up, and the data is moved all the     *)
(* same.                                                                   *)
Carry ==
    /\ phase = "carry"
    /\ LET p == Head(todo)
           l == p.destination.layer
           amount == GetSize(p.destination.seg)
           n == IF p.destination.name = Fresh THEN names + 1 ELSE p.destination.name
       IN  /\ n <= MaxNames
           /\ names' = Max({n, names})
           /\ HasCapacity(amount, l) \/ MakeCapacityFails(amount, l)
           /\ layerCapacity' = [k \in Files |-> IF k = l THEN GetCurrentUsage(k)
                                                ELSE layerCapacity[k]]
           /\ Move(p, n)
           /\ located' = IF p.source.layer # Last THEN located
                         ELSE [located EXCEPT ![n] = [layer |-> l,
                                                      size |-> GetSize(p.source.seg)]]
    /\ todo' = Tail(todo)
    /\ phase' = IF Len(todo) = 1 THEN "place" ELSE "carry"
    /\ UNCHANGED <<events, solved, frame, planned>>

(* The close of a file deletes what its heat map says is in a buffer. *)
Close ==
    /\ phase = "place" /\ solved = 0 /\ events < MaxEvents
    /\ events' = events + 1
    /\ \E h \in HeatMap :
         LET l == h[2].layer
         IN  /\ l # Last
             /\ bytes' = [bytes EXCEPT ![l][h[2].name] = Deleted(l, @, h[2].seg)]
             /\ hasChanged' = [k \in Files |-> k = l \/ hasChanged[k]]
    /\ UNCHANGED <<names, layerCapacity, located, phase, solved, frame, planned, todo>>

Next == PlaceSegment \/ SolveLayer \/ PlaceReturns \/ Carry \/ Close

Spec == Init /\ [][Next]_vars

----------------------------------------------------------------------------
TypeOK ==
    /\ bytes \in [Buffered -> [Names -> Nat \cup {None}]]
    /\ names \in 0 .. MaxNames
    /\ layerCapacity \in [Files -> Nat \cup {None}]
    /\ hasChanged \in [Files -> BOOLEAN]
    /\ located \in [Names -> [layer : Buffered, size : 1 .. SegmentSize] \cup {None}]
    /\ phase \in {"place", "carry"} /\ (phase = "carry" => todo # <<>>)
    /\ solved \in 0 .. MaxSegments /\ events \in 0 .. MaxEvents

(***************************************************************************)
(* A usage that is served from the cache is the usage of the layer: no     *)
(* write and no delete since the measurement (shared_file_client.cpp:78).  *)
(***************************************************************************)
CacheExact == \A l \in Files : Cached(l) => layerCapacity[l] = Usage(l)

(***************************************************************************)
(* The engine only ever plans to move data towards the first layer, also   *)
(* when a segment is cut in two on the way down (max_bw_dpe.cpp:113).      *)
(***************************************************************************)
PlanClimbs ==
    planned # None =>
        \A j \in DOMAIN planned.moves :
            planned.moves[j].destination.layer < planned.file.layer

(***************************************************************************)
(* The plan for data that starts at 0, as all data in a file does, reads   *)
(* it once, from the beginning and without a gap, in parts of at most      *)
(* SEGMENT_SIZE that are as long as their destinations, up to the largest  *)
(* file whose size is an int (max_bw_dpe.cpp:131-166).  Data of a buffer   *)
(* that starts further on is planned from 0, which is not what the move is *)
(* for.                                                                    *)
(***************************************************************************)
PlanCovers ==
    planned # None /\ planned.file.seg.start = 0 =>
        LET Source(j) == planned.moves[j].source.seg
        IN  \A j \in DOMAIN planned.moves :
              /\ Source(j).start = IF j = 1 THEN 0 ELSE Source(j - 1).end + 1
              /\ Source(j).end <= planned.file.seg.end
              /\ GetSize(Source(j)) = GetSize(planned.moves[j].destination.seg)
              /\ GetSize(Source(j)) \in 1 .. SegmentSize

(* The step carries out a move to layer l for which HasCapacity says no. *)
GivesUpOn(l) ==
    /\ phase = "carry" /\ l = Head(todo).destination.layer
    /\ ~HasCapacity(GetSize(Head(todo).destination.seg), l)

(* The step makes a buffer of layer l longer, other than by the Write of a *)
(* file client, which adds at most what HasCapacity is asked for: a Write  *)
(* to memory may add more, and a Delete writes start - 1 bytes, however    *)
(* few there were.                                                         *)
Lengthens(l) ==
    /\ \E n \in Names : /\ bytes[l][n] # None /\ bytes'[l][n] # None
                         /\ bytes'[l][n] > bytes[l][n]
    /\ ~(phase = "carry" /\ l = Head(todo).destination.layer /\ l \in Files)

(***************************************************************************)
(* A step that takes a layer over its capacity, or further over it, is one *)
(* in which HasCapacity says that there is no room and MakeCapacity gives  *)
(* up, or one that makes a buffer longer than was asked for.  The moves of *)
(* an event are planned with one measurement and for the size of a key     *)
(* that may be smaller than what is moved: it is HasCapacity, asked again  *)
(* before each move, that notices (data_manager.h:62, 72).                 *)
(***************************************************************************)
OverflowIsNoticed ==
    [][\A l \in Buffered :
          Usage(l)' > Usage(l) /\ Usage(l)' > Capacity[l] =>
              GivesUpOn(l) \/ Lengthens(l)]_vars
=============================================================================
