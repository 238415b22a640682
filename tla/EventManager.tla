---------------------------- MODULE EventManager ----------------------------
(***************************************************************************)
(* How the servers handle the opening and the closing of files             *)
(* (EventManager::handle over FileSegmentAuditor): each server has one     *)
(* worker and a private table file_segment_map; they share three           *)
(* distributed hash maps (valid_buffered_dataset, file_active_status and   *)
(* the offset maps) and the sequence file_seq.  Every Get and every Put is *)
(* atomic, a Get followed by a Put is not: one action per access.          *)
(*                                                                         *)
(* A file is one piece here (SegmentMap models how it is split): its map   *)
(* says that it is in the file itself, or names a buffer, and the buffer   *)
(* is there or not.  Whether a layer has room depends on files that are    *)
(* not modelled: any layer may.                                            *)
(***************************************************************************)
EXTENDS Integers, FiniteSets

CONSTANTS
    Servers,        \* server processes
    Files,          \* file names
    Uses,           \* <<s, f>>: clients of server s open file f
    NumBuffers,     \* layers above the last one; layer 1 is Layer::FIRST
    Memory,         \* the layers of MemoryClient; the others are FileClient's
    MaxFiles,       \* CONF->max_num_files, the number of offset maps
    UInt32Size,     \* 2^32 in the code: the counter of opens wraps there
    MaxOpens,       \* bound: opens of a file at a server
    None            \* no slot, no buffer

Slots == 0 .. (MaxFiles - 1)

(* A buffer is named when it is first written (GenerateBufferFilename): by  *)
(* the server that does it.                                                 *)
Buffer == [name : Servers, layer : 1 .. NumBuffers]

(* The PosixFile of a map that has the file in the last layer. *)
InFile == [name |-> None, layer |-> NumBuffers + 1]

NoMove == [source |-> InFile, destination |-> InFile]

ASSUME EventManagerAssumption ==
    /\ IsFiniteSet(Servers) /\ IsFiniteSet(Files) /\ Files # {}
    /\ Uses \subseteq Servers \X Files
    /\ NumBuffers \in Nat /\ Memory \subseteq 1 .. NumBuffers
    /\ MaxFiles \in Nat \ {0}
    /\ UInt32Size \in Nat \ {0}
    /\ MaxOpens \in Nat
    /\ None \notin Slots \cup (0 .. (UInt32Size - 1)) \cup Servers \cup Files

VARIABLES
    pc,                     \* server: what its worker does next
    file,                   \* server: the file of the event it handles
    slot,                   \* server: local variable of CreateOffsetMap
    reg,                    \* server: the count it has read
    move,                   \* server: the placement it carries out
    file_segment_map,       \* server, file -> slot or None (process memory)
    valid_buffered_dataset, \* file -> slot or None
    file_seq,               \* the global sequence, on server 0
    owner,                  \* slot -> the file whose whole-file entry is in
                            \* the offset map, or None
    file_active_status,     \* file -> count of opens, or None
    mapped,                 \* slot -> what the map names: InFile or a buffer
    present                 \* slot -> the buffers that hold the file's data

\* History: opens and closes that each server has begun to handle.
VARIABLES opens, closes

tables == <<file_segment_map, valid_buffered_dataset, file_seq, owner,
            file_active_status, mapped, present>>
vars == <<pc, file, slot, reg, move, tables, opens, closes>>

Steps == {"idle", "getSlot", "nextSeq", "putSlot", "putMap", "getActive",
          "putActive", "solve", "prefetch", "advertise", "getInactive", "putInactive",
          "check", "delete"}

TypeOK ==
    /\ pc \in [Servers -> Steps]
    /\ file \in [Servers -> Files]
    /\ slot \in [Servers -> Slots]
    /\ reg \in [Servers -> 0 .. (UInt32Size - 1)]
    /\ file_segment_map \in [Servers -> [Files -> Slots \cup {None}]]
    /\ valid_buffered_dataset \in [Files -> Slots \cup {None}]
    /\ file_seq \in Nat
    /\ owner \in [Slots -> Files \cup {None}]
    /\ file_active_status \in [Files -> (0 .. (UInt32Size - 1)) \cup {None}]
    /\ move \in [Servers -> [source : Buffer \cup {InFile},
                             destination : Buffer \cup {InFile}]]
    /\ mapped \in [Slots -> Buffer \cup {InFile}]
    /\ present \in [Slots -> SUBSET Buffer]
    /\ opens \in [Servers -> [Files -> 0 .. MaxOpens]]
    /\ closes \in [Servers -> [Files -> 0 .. MaxOpens]]

Init ==
    /\ pc = [s \in Servers |-> "idle"]
    /\ file \in [Servers -> Files]
    /\ slot = [s \in Servers |-> 0]
    /\ reg = [s \in Servers |-> 0]
    /\ move = [s \in Servers |-> NoMove]
    /\ file_segment_map = [s \in Servers |-> [f \in Files |-> None]]
    /\ valid_buffered_dataset = [f \in Files |-> None]
    /\ file_seq = 0
    /\ owner = [i \in Slots |-> None]
    /\ file_active_status = [f \in Files |-> None]
    /\ mapped = [i \in Slots |-> InFile]
    /\ present = [i \in Slots |-> {}]
    /\ opens = [s \in Servers |-> [f \in Files |-> 0]]
    /\ closes = [s \in Servers |-> [f \in Files |-> 0]]

Goto(s, step) == pc' = [pc EXCEPT ![s] = step]

(* The map in which server s has the file of its event. *)
Map(s) == file_segment_map[s][file[s]]

----------------------------------------------------------------------------
(* FILE_OPEN: Update, case FILE_OPEN. *)

TakeOpen(s, f) ==
    /\ pc[s] = "idle" /\ <<s, f>> \in Uses
    /\ opens[s][f] < MaxOpens
    /\ opens' = [opens EXCEPT ![s][f] = @ + 1]
    /\ file' = [file EXCEPT ![s] = f]
    /\ Goto(s, IF file_segment_map[s][f] = None THEN "getSlot" ELSE "getActive")
    /\ UNCHANGED <<slot, reg, move, tables, closes>>

(* CreateOffsetMap: valid_buffered_dataset.Get(name) *)
GetSlot(s) ==
    /\ pc[s] = "getSlot"
    /\ LET v == valid_buffered_dataset[file[s]]
       IN  IF v = None
           THEN Goto(s, "nextSeq") /\ UNCHANGED file_segment_map
           ELSE /\ file_segment_map' = [file_segment_map EXCEPT ![s][file[s]] = v]
                /\ Goto(s, "getActive")
    /\ UNCHANGED <<file, slot, reg, move, valid_buffered_dataset, file_seq, owner,
                   file_active_status, mapped, present, opens, closes>>

\* Mutant of NextSequence: the sequence is read, then incremented elsewhere.
NextSequenceStale(s) ==
    /\ pc[s] = "nextSeq"
    /\ slot' = [slot EXCEPT ![s] = file_seq % MaxFiles]
    /\ file_seq' = IF \E t \in Servers \ {s} : pc[t] = "nextSeq"
                   THEN file_seq ELSE file_seq + 1
    /\ Goto(s, "putSlot")
    /\ UNCHANGED <<file, reg, move, file_segment_map, valid_buffered_dataset, owner,
                   file_active_status, mapped, present, opens, closes>>

\* Mutant of NextSequence: the modulus is forgotten.
NextSequenceUnbounded(s) ==
    /\ pc[s] = "nextSeq"
    /\ file_seq' = file_seq + 1
    /\ slot' = [slot EXCEPT ![s] = file_seq + 1]
    /\ Goto(s, "putSlot")
    /\ UNCHANGED <<file, reg, move, file_segment_map, valid_buffered_dataset, owner,
                   file_active_status, mapped, present, opens, closes>>

(* file_seq.GetNextSequenceServer(0) % max_num_files; the first is 1. *)
NextSequence(s) ==
    /\ pc[s] = "nextSeq"
    /\ file_seq' = file_seq + 1
    /\ slot' = [slot EXCEPT ![s] = (file_seq + 1) % MaxFiles]
    /\ Goto(s, "putSlot")
    /\ UNCHANGED <<file, reg, move, file_segment_map, valid_buffered_dataset, owner,
                   file_active_status, mapped, present, opens, closes>>

\* Mutant of PutSlot: the sequence is read again.
PutSlotLatest(s) ==
    /\ pc[s] = "putSlot"
    /\ valid_buffered_dataset' = [valid_buffered_dataset EXCEPT ![file[s]] =
                                    file_seq % MaxFiles]
    /\ Goto(s, "putMap")
    /\ UNCHANGED <<file, slot, reg, move, file_segment_map, file_seq, owner,
                   file_active_status, mapped, present, opens, closes>>

PutSlot(s) ==
    /\ pc[s] = "putSlot"
    /\ valid_buffered_dataset' = [valid_buffered_dataset EXCEPT ![file[s]] = slot[s]]
    /\ Goto(s, "putMap")
    /\ UNCHANGED <<file, slot, reg, move, file_segment_map, file_seq, owner,
                   file_active_status, mapped, present, opens, closes>>

(* mapLayer->Put([0, size - 1], ...): an entry at offset 0 that another file *)
(* has put in the same map is replaced.                                      *)
PutMap(s) ==
    /\ pc[s] = "putMap"
    /\ owner' = [owner EXCEPT ![slot[s]] = file[s]]
    /\ mapped' = [mapped EXCEPT ![slot[s]] = InFile]
    /\ file_segment_map' = [file_segment_map EXCEPT ![s][file[s]] = slot[s]]
    /\ slot' = [slot EXCEPT ![s] = 0]
    /\ Goto(s, "getActive")
    /\ UNCHANGED <<file, reg, move, valid_buffered_dataset, file_seq,
                   file_active_status, present, opens, closes>>

(* MarkFileSegmentsActive: Get, then Put count + 1 (or 1 if there was none). *)
GetActive(s) ==
    /\ pc[s] = "getActive"
    /\ reg' = [reg EXCEPT ![s] = IF file_active_status[file[s]] = None THEN 0
                                 ELSE file_active_status[file[s]]]
    /\ Goto(s, "putActive")
    /\ UNCHANGED <<file, slot, move, tables, opens, closes>>

\* Mutant of PutActive: an open of a known file is not counted.
PutActiveOnce(s) ==
    /\ pc[s] = "putActive"
    /\ file_active_status' = [file_active_status EXCEPT ![file[s]] = 1]
    /\ reg' = [reg EXCEPT ![s] = 0]
    /\ Goto(s, "solve")
    /\ UNCHANGED <<file, slot, move, file_segment_map, valid_buffered_dataset,
                   file_seq, owner, mapped, present, opens, closes>>

PutActive(s) ==
    /\ pc[s] = "putActive"
    /\ file_active_status' = [file_active_status EXCEPT ![file[s]] =
                                (reg[s] + 1) % UInt32Size]
    /\ reg' = [reg EXCEPT ![s] = 0]
    /\ Goto(s, "solve")
    /\ UNCHANGED <<file, slot, move, file_segment_map, valid_buffered_dataset,
                   file_seq, owner, mapped, present, opens, closes>>

----------------------------------------------------------------------------
(* FILE_READ: the read is counted in the file's map (SegmentMap). *)
TakeRead(s, f) ==
    /\ pc[s] = "idle"
    /\ closes[s][f] < opens[s][f]
    /\ file' = [file EXCEPT ![s] = f]
    /\ Goto(s, "solve")
    /\ UNCHANGED <<slot, reg, move, tables, opens, closes>>

(* After an open or a read, dpe->place: from Layer::FIRST down, the piece   *)
(* goes to a layer with room that is above the one its map names, or stays. *)
(* A buffer that moves up keeps its name.                                   *)
Placement(s, src, l) ==
    [source |-> src,
     destination |-> [name |-> IF src = InFile THEN s ELSE src.name, layer |-> l]]

\* Mutant of Solve: the map is updated before the data is copied.
SolveAdvertises(s) ==
    /\ pc[s] = "solve"
    /\ \/ \E l \in 1 .. (mapped[Map(s)].layer - 1) :
             /\ move' = [move EXCEPT ![s] = Placement(s, mapped[Map(s)], l)]
             /\ mapped' = [mapped EXCEPT ![Map(s)] = move'[s].destination]
             /\ Goto(s, "prefetch")
       \/ UNCHANGED <<move, mapped>> /\ Goto(s, "idle")
    /\ UNCHANGED <<file, slot, reg, file_segment_map, valid_buffered_dataset,
                   file_seq, owner, file_active_status, present, opens, closes>>

Solve(s) ==
    /\ pc[s] = "solve"
    /\ \/ \E l \in 1 .. (mapped[Map(s)].layer - 1) :
             /\ move' = [move EXCEPT ![s] = Placement(s, mapped[Map(s)], l)]
             /\ Goto(s, "prefetch")
       \/ UNCHANGED move /\ Goto(s, "idle")
    /\ UNCHANGED <<file, slot, reg, tables, opens, closes>>

(* What DataManager::Move makes of the buffers that hold the data: Read the *)
(* source, Write the destination, Delete the source unless it is the file.  *)
(* A source that was emptied before is an error to MemoryClient::Read, and  *)
(* Move returns; FileClient::Read succeeds on the truncated file, and what  *)
(* it did not read is written over the destination.                         *)
Moved(buffers, src, dst) ==
    CASE src = InFile \/ src \in buffers -> (buffers \ {src}) \cup {dst}
      [] src \in Buffer \ buffers /\ src.layer \in Memory -> buffers
      [] OTHER -> buffers \ {dst}

(* dataManager->Prefetch; its status is ignored. *)
Prefetch(s) ==
    /\ pc[s] = "prefetch"
    /\ present' = [present EXCEPT ![Map(s)] =
                     Moved(@, move[s].source, move[s].destination)]
    /\ Goto(s, "advertise")
    /\ UNCHANGED <<file, slot, reg, move, file_segment_map,
                   valid_buffered_dataset, file_seq, owner,
                   file_active_status, mapped, opens, closes>>

(* auditor->UpdateOnMove(source, destination) looks the map up by the name  *)
(* of the source: it finds none for the name of a buffer.                   *)
Advertise(s) ==
    /\ pc[s] = "advertise"
    /\ mapped' = IF move[s].source = InFile
                 THEN [mapped EXCEPT ![Map(s)] = move[s].destination] ELSE mapped
    /\ move' = [move EXCEPT ![s] = NoMove]
    /\ Goto(s, "idle")
    /\ UNCHANGED <<file, slot, reg, file_segment_map, valid_buffered_dataset,
                   file_seq, owner, file_active_status, present, opens, closes>>

----------------------------------------------------------------------------
(* FILE_CLOSE.  A client closes what it has opened, and its events arrive   *)
(* in order.                                                                *)

TakeClose(s, f) ==
    /\ pc[s] = "idle"
    /\ closes[s][f] < opens[s][f]
    /\ closes' = [closes EXCEPT ![s][f] = @ + 1]
    /\ file' = [file EXCEPT ![s] = f]
    /\ Goto(s, "getInactive")
    /\ UNCHANGED <<slot, reg, move, tables, opens>>

(* MarkFileSegmentsInactive: Get, then Put count - 1 *)
GetInactive(s) ==
    /\ pc[s] = "getInactive"
    /\ IF file_active_status[file[s]] = None
       THEN UNCHANGED reg /\ Goto(s, "check")
       ELSE /\ reg' = [reg EXCEPT ![s] = file_active_status[file[s]]]
            /\ Goto(s, "putInactive")
    /\ UNCHANGED <<file, slot, move, tables, opens, closes>>

PutInactive(s) ==
    /\ pc[s] = "putInactive"
    /\ file_active_status' = [file_active_status EXCEPT ![file[s]] =
                                (reg[s] - 1) % UInt32Size]
    /\ reg' = [reg EXCEPT ![s] = 0]
    /\ Goto(s, "check")
    /\ UNCHANGED <<file, slot, move, file_segment_map, valid_buffered_dataset,
                   file_seq, owner, mapped, present, opens, closes>>

\* Mutant of CheckIfFileActive: only whether the file was ever opened.
CheckIfFileKnown(s) ==
    /\ pc[s] = "check"
    /\ Goto(s, IF file_active_status[file[s]] = None THEN "idle" ELSE "delete")
    /\ UNCHANGED <<file, slot, reg, move, tables, opens, closes>>

(* CheckIfFileActive: an absent file is not active. *)
CheckIfFileActive(s) ==
    /\ pc[s] = "check"
    /\ Goto(s, IF file_active_status[file[s]] \in {0, None} THEN "delete" ELSE "idle")
    /\ UNCHANGED <<file, slot, reg, move, tables, opens, closes>>

(* FetchHeatMap and Delete of the buffers it names.  The map keeps naming   *)
(* them.                                                                    *)
Delete(s) ==
    /\ pc[s] = "delete"
    /\ present' = IF Map(s) = None THEN present
                  ELSE [present EXCEPT ![Map(s)] = @ \ {mapped[Map(s)]}]
    /\ Goto(s, "idle")
    /\ UNCHANGED <<file, slot, reg, move, file_segment_map,
                   valid_buffered_dataset, file_seq, owner,
                   file_active_status, mapped, opens, closes>>

----------------------------------------------------------------------------
AllClosed ==
    /\ \A s \in Servers : pc[s] = "idle"
    /\ \A u \in Uses : /\ opens[u[1]][u[2]] = MaxOpens
                       /\ closes[u[1]][u[2]] = MaxOpens
    /\ UNCHANGED vars

OpenStep(s) ==
    \/ \E f \in Files : TakeOpen(s, f)
    \/ GetSlot(s) \/ NextSequence(s) \/ PutSlot(s) \/ PutMap(s)
    \/ GetActive(s) \/ PutActive(s)

PlaceStep(s) ==
    \/ \E f \in Files : TakeRead(s, f)
    \/ Solve(s) \/ Prefetch(s) \/ Advertise(s)

CloseStep(s) ==
    \/ \E f \in Files : TakeClose(s, f)
    \/ GetInactive(s) \/ PutInactive(s)
    \/ CheckIfFileActive(s) \/ Delete(s)

Next == (\E s \in Servers : OpenStep(s) \/ PlaceStep(s) \/ CloseStep(s)) \/ AllClosed

Spec == Init /\ [][Next]_vars

----------------------------------------------------------------------------
(* Opens of f that have been handled and not closed, over all servers. *)
OpenHandles(f) ==
    {h \in Servers \X (1 .. MaxOpens) :
        closes[h[1]][f] < h[2] /\ h[2] <= opens[h[1]][f]}

Counting(s, f) ==
    /\ file[s] = f
    /\ pc[s] \in {"getSlot", "nextSeq", "putSlot", "putMap", "getActive",
                  "putActive", "getInactive", "putInactive"}

(***************************************************************************)
(* The count of opens never drifts: when no server is in the middle of     *)
(* updating it, file_active_status is the number of open handles           *)
(* (MarkFileSegmentsActive, MarkFileSegmentsInactive), and in particular   *)
(* has not wrapped below zero.                                             *)
(***************************************************************************)
ActiveExact ==
    \A f \in Files :
        (\A s \in Servers : ~Counting(s, f)) /\ file_active_status[f] # None =>
            file_active_status[f] = Cardinality(OpenHandles(f))

(***************************************************************************)
(* The buffers of a file are deleted only while no handle on it is open    *)
(* (handle: "if(!isFileActive)").                                          *)
(***************************************************************************)
NoDeleteWhileOpen ==
    \A s \in Servers : pc[s] = "delete" => OpenHandles(file[s]) = {}

(***************************************************************************)
(* As long as no more sequence numbers were drawn than there are maps, no  *)
(* two files share a map, between servers too (CreateOffsetMap).           *)
(***************************************************************************)
DistinctMaps ==
    file_seq <= MaxFiles =>
        \A f, g \in Files :
            f # g /\ valid_buffered_dataset[f] # None =>
                valid_buffered_dataset[f] # valid_buffered_dataset[g]

(***************************************************************************)
(* "filename to offset_map pointer" (file_segment_auditor.h:40): the map a *)
(* server uses for a file is the one registered for it, which is the one a *)
(* client looks the file up in, and the file's own entry is in it.         *)
(***************************************************************************)
OneMapPerFile ==
    \A s \in Servers, f \in Files :
        file_segment_map[s][f] # None =>
            /\ file_segment_map[s][f] = valid_buffered_dataset[f]
            /\ owner[file_segment_map[s][f]] = f

(* What the map of f names can be read. *)
Readable(f) ==
    LET i == valid_buffered_dataset[f]
    IN  i # None => mapped[i] \in present[i] \cup {InFile}

(***************************************************************************)
(* A file that a client has open can be read where its map says it is      *)
(* (README.md:10, "transparently intercepts"; GetDataLocation, fread).     *)
(***************************************************************************)
OpenFileIsReadable ==
    \A f \in Files : OpenHandles(f) # {} => Readable(f)

(***************************************************************************)
(* Data that the map names goes away in two ways only: at the close of the *)
(* last handle, or when the file's server moves the buffer further up,     *)
(* which the map is not told of (handle: UpdateOnMove is given the name of *)
(* the buffer).  So the data is in a buffer before the map names it, and   *)
(* no event of another file takes it away.                                 *)
(***************************************************************************)
NamedDataStays ==
    [][\A f \in Files :
          Readable(f) /\ ~Readable(f)' =>
              \E s \in Servers :
                  /\ file[s] = f
                  /\ \/ pc[s] = "delete" /\ OpenHandles(f) = {}
                     \/ pc[s] = "prefetch" /\ move[s].source # InFile]_vars
=============================================================================
