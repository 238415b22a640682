------------------------- MODULE EventManagerProofs -------------------------
(***************************************************************************)
(* Theorems about EventManager, for any number of servers, files, maps,    *)
(* layers and opens.                                                       *)
(***************************************************************************)
EXTENDS EventManager, TLAPS, FiniteSetTheorems

(* CreateOffsetMap is running. *)
Creating == {"getSlot", "nextSeq", "putSlot", "putMap"}

(* The sequence number has been drawn and the map is not yet in the table. *)
Holding == {"putSlot", "putMap"}

(* MarkFileSegmentsActive is still to store the count. *)
Opening == Creating \cup {"getActive", "putActive"}

(* MarkFileSegmentsInactive is still to store the count. *)
Closing == {"getInactive", "putInactive"}

At(s, f, steps) == file[s] = f /\ pc[s] \in steps

----------------------------------------------------------------------------
(* What holds for any use of the files. *)

(* A server handles events only of files it has opened, closes after opens. *)
HandleInv ==
    \A s \in Servers :
        /\ pc[s] # "idle" => opens[s][file[s]] > 0
        /\ pc[s] \in Closing \cup {"check", "delete"} => closes[s][file[s]] > 0
        /\ \A f \in Files : /\ closes[s][f] <= opens[s][f]
                            /\ opens[s][f] > 0 => <<s, f>> \in Uses

(* A server has a map for every file it has opened, once it has made it. *)
KnownInv ==
    \A s \in Servers, f \in Files :
        opens[s][f] > 0 /\ ~At(s, f, Creating) => file_segment_map[s][f] # None

(* What is being moved goes to a buffer. *)
MoveInv ==
    \A s \in Servers :
        pc[s] \in {"prefetch", "advertise"} => move[s].destination \in Buffer

BaseInv == TypeOK /\ HandleInv /\ KnownInv /\ MoveInv

(* The maps that the sequence has given out. *)
Given == {n % MaxFiles : n \in 1 .. file_seq}

(* Server s has drawn map i for file f, or it is registered for it. *)
Holds(f, i) ==
    \/ valid_buffered_dataset[f] = i
    \/ \E s \in Servers : At(s, f, Holding) /\ slot[s] = i

(* No map is given out twice before the sequence wraps. *)
SequenceInv ==
    file_seq <= MaxFiles =>
        \A i \in Slots :
            /\ \A f \in Files : Holds(f, i) => i \in Given
            /\ \A f, g \in Files : Holds(f, i) /\ Holds(g, i) => f = g

----------------------------------------------------------------------------
(* What holds when the clients of a file are all on one server. *)

PrivateFiles ==
    \A s, t \in Servers, f \in Files :
        <<s, f>> \in Uses /\ <<t, f>> \in Uses => s = t

(* The stored count of f; none is zero. *)
Count(f) == IF file_active_status[f] = None THEN 0 ELSE file_active_status[f]

(* The count lags behind the events by the one that is being handled. *)
CountInv ==
    /\ \A s \in Servers, f \in Files :
          <<s, f>> \in Uses =>
              Count(f) = opens[s][f] - closes[s][f]
                         - (IF At(s, f, Opening) THEN 1 ELSE 0)
                         + (IF At(s, f, Closing) THEN 1 ELSE 0)
    /\ \A s \in Servers :
          /\ pc[s] \in {"putActive", "putInactive"} => reg[s] = Count(file[s])
          /\ pc[s] = "delete" => Count(file[s]) = 0
    /\ \A f \in Files :
          file_active_status[f] # None => \E s \in Servers : <<s, f>> \in Uses

(* The table of the server that uses a file agrees with the shared one, but *)
(* while it puts the file's entry into the map.                             *)
TablesAgree(s, f) ==
    /\ <<s, f>> \in Uses =>
          /\ At(s, f, Creating) => file_segment_map[s][f] = None
          /\ At(s, f, {"putMap"}) => valid_buffered_dataset[f] = slot[s]
          /\ ~At(s, f, {"putMap"}) => file_segment_map[s][f] = valid_buffered_dataset[f]
    /\ <<s, f>> \notin Uses => file_segment_map[s][f] = None

TableInv ==
    /\ \A s \in Servers, f \in Files : TablesAgree(s, f)
    /\ \A f \in Files :
          valid_buffered_dataset[f] # None => \E s \in Servers : <<s, f>> \in Uses

(* Each file draws one number at most. *)
Drawn ==
    {f \in Files : \/ valid_buffered_dataset[f] # None
                   \/ \E s \in Servers : At(s, f, Holding)}

DrawnInv == file_seq = Cardinality(Drawn)

(* A file's entry is in its map from PutMap on. *)
EntryInv ==
    /\ \A s \in Servers, f \in Files :
          file_segment_map[s][f] # None => owner[file_segment_map[s][f]] = f
    /\ \A i \in Slots :
          owner[i] # None =>
              \E s \in Servers : file_segment_map[s][owner[i]] = i

(* A map without an entry names no buffer, and a copy made from the file    *)
(* holds its data when the map comes to name it.                            *)
BufferInv ==
    /\ \A i \in Slots : owner[i] = None => mapped[i] = InFile
    /\ \A s \in Servers :
          pc[s] = "advertise" /\ move[s].source = InFile =>
              move[s].destination \in present[Map(s)]

----------------------------------------------------------------------------
(* A server has the file of the event it handles mapped when it places data. *)
LEMMA MapKnown ==
  ASSUME BaseInv, NEW s \in Servers, pc[s] \in {"solve", "prefetch", "advertise"}
  PROVE  Map(s) \in Slots
  <1>1. file[s] \in Files /\ opens[s][file[s]] > 0 /\ ~At(s, file[s], Creating)
    BY DEF BaseInv, TypeOK, HandleInv, At, Creating
  <1>2. file_segment_map[s][file[s]] # None
    BY <1>1 DEF BaseInv, KnownInv
  <1>3. file_segment_map[s][file[s]] \in Slots \cup {None}
    BY <1>1 DEF BaseInv, TypeOK
  <1> QED
    BY <1>2, <1>3 DEF Map

LEMMA InFileNotBuffer == InFile \notin Buffer
  BY EventManagerAssumption DEF InFile, Buffer

(* What a move leaves in the buffers of a file. *)
LEMMA MovedType ==
  ASSUME NEW b \in SUBSET Buffer, NEW src, NEW dst \in Buffer
  PROVE  Moved(b, src, dst) \in SUBSET Buffer
  BY DEF Moved

LEMMA MovedFromFile ==
  ASSUME NEW b \in SUBSET Buffer, NEW dst
  PROVE  /\ dst \in Moved(b, InFile, dst)
         /\ b \subseteq Moved(b, InFile, dst)
  BY InFileNotBuffer DEF Moved

LEMMA BaseInit == Init => BaseInv
  <1> SUFFICES ASSUME Init PROVE BaseInv
    OBVIOUS
  <1>1. 0 \in Slots /\ 0 \in 0 .. (UInt32Size - 1) /\ 0 \in 0 .. MaxOpens
    BY EventManagerAssumption DEF Slots
  <1>3. TypeOK
    BY <1>1 DEF Init, TypeOK, Steps, NoMove
  <1>4. HandleInv
    BY DEF Init, HandleInv, Closing
  <1>5. KnownInv
    BY DEF Init, KnownInv
  <1>6. MoveInv
    BY DEF Init, MoveInv
  <1> QED
    BY <1>3, <1>4, <1>5, <1>6 DEF BaseInv

(* A table of tables after one entry is set. *)
LEMMA Update2 ==
  ASSUME NEW A, NEW B, NEW C, NEW m \in [A -> [B -> C]],
         NEW a \in A, NEW b \in B, NEW v \in C
  PROVE  /\ [m EXCEPT ![a][b] = v] \in [A -> [B -> C]]
         /\ \A x \in A, y \in B :
               [m EXCEPT ![a][b] = v][x][y] = IF x = a /\ y = b THEN v ELSE m[x][y]
  OBVIOUS

LEMMA BaseOpen ==
  ASSUME BaseInv, NEW s \in Servers, OpenStep(s)
  PROVE  BaseInv'
  <1> USE EventManagerAssumption DEF BaseInv, Goto, tables
  <1>1. ASSUME NEW f \in Files, TakeOpen(s, f) PROVE BaseInv'
    <2>a. /\ opens \in [Servers -> [Files -> 0 .. MaxOpens]]
          /\ opens[s][f] < MaxOpens /\ opens[s][f] \in Nat /\ opens[s][f] \in 0 .. MaxOpens
      BY <1>1 DEF TakeOpen, TypeOK
    <2>b. /\ opens' \in [Servers -> [Files -> 0 .. MaxOpens]]
          /\ \A t \in Servers, g \in Files :
                opens'[t][g] = IF t = s /\ g = f THEN opens[t][g] + 1 ELSE opens[t][g]
      <3>1. opens[s][f] + 1 \in 0 .. MaxOpens
        BY <2>a
      <3>2. opens' = [opens EXCEPT ![s][f] = opens[s][f] + 1]
        BY <1>1 DEF TakeOpen
      <3> HIDE EventManagerAssumption
      <3> QED
        BY <2>a, <3>1, <3>2, Update2
    <2>c. /\ \A t \in Servers, g \in Files :
                opens[t][g] \in 0 .. MaxOpens /\ closes[t][g] \in 0 .. MaxOpens
          /\ \A t \in Servers : file[t] \in Files
          /\ file' = [file EXCEPT ![s] = f] /\ file \in [Servers -> Files]
          /\ pc \in [Servers -> Steps]
      BY <1>1 DEF TakeOpen, TypeOK
    <2>1. TypeOK'
      BY <1>1, <2>b DEF TakeOpen, TypeOK, Steps
    <2>2. HandleInv'
      <3>1. ASSUME NEW t \in Servers, t # s
            PROVE  pc'[t] = pc[t] /\ file'[t] = file[t] /\ opens'[t][file[t]] = opens[t][file[t]]
        BY <1>1, <2>b, <2>c, <3>1 DEF TakeOpen
      <3>2. file'[s] = f /\ opens'[s][f] > 0 /\ pc'[s] \in {"getSlot", "getActive"}
        BY <1>1, <2>b, <2>c DEF TakeOpen
      <3>3. ASSUME NEW t \in Servers, NEW g \in Files
            PROVE  closes'[t][g] <= opens'[t][g] /\ (opens'[t][g] > 0 => <<t, g>> \in Uses)
        <4>1. closes[t][g] <= opens[t][g] /\ (opens[t][g] > 0 => <<t, g>> \in Uses)
          BY DEF HandleInv
        <4>2. <<s, f>> \in Uses /\ closes'[t][g] = closes[t][g]
          BY <1>1 DEF TakeOpen
        <4>3. opens[t][g] \in Nat /\ closes[t][g] \in Nat
          BY <2>c
        <4>4. CASE t = s /\ g = f
          <5>1. opens'[t][g] = opens[t][g] + 1
            BY <2>b, <4>4
          <5> QED
            BY <4>1, <4>2, <4>3, <4>4, <5>1
        <4>5. CASE ~(t = s /\ g = f)
          <5>1. opens'[t][g] = opens[t][g]
            BY <2>b, <4>5
          <5> QED
            BY <4>1, <4>2, <5>1
        <4> QED
          BY <4>4, <4>5
      <3>4. closes' = closes
        BY <1>1 DEF TakeOpen
      <3> QED
        BY <3>1, <3>2, <3>3, <3>4 DEF HandleInv, Closing
    <2>3. KnownInv'
      BY <1>1, <2>b, <2>c DEF TakeOpen, KnownInv, At, Creating
    <2>4. MoveInv'
      BY <1>1 DEF TakeOpen, TypeOK, MoveInv
    <2> QED
      BY <2>1, <2>2, <2>3, <2>4
  <1>2. ASSUME GetSlot(s) PROVE BaseInv'
    <2>a. /\ file[s] \in Files
          /\ valid_buffered_dataset[file[s]] \in Slots \cup {None}
          /\ file_segment_map \in [Servers -> [Files -> Slots \cup {None}]]
      BY DEF TypeOK
    <2>b. /\ file_segment_map' \in [Servers -> [Files -> Slots \cup {None}]]
          /\ \A t \in Servers, g \in Files :
                file_segment_map'[t][g] =
                    IF t = s /\ g = file[s] /\ valid_buffered_dataset[file[s]] # None
                    THEN valid_buffered_dataset[file[s]] ELSE file_segment_map[t][g]
      <3>1. CASE valid_buffered_dataset[file[s]] = None
        BY <1>2, <2>a, <3>1 DEF GetSlot
      <3>2. CASE valid_buffered_dataset[file[s]] # None
        <4>1. file_segment_map' =
                [file_segment_map EXCEPT ![s][file[s]] = valid_buffered_dataset[file[s]]]
          BY <1>2, <3>2 DEF GetSlot
        <4> QED
          BY <2>a, <3>2, <4>1, Update2
      <3> QED
        BY <3>1, <3>2
    <2>1. TypeOK'
      BY <1>2, <2>b DEF GetSlot, TypeOK, Steps
    <2>2. HandleInv'
      BY <1>2 DEF GetSlot, TypeOK, HandleInv, Closing
    <2>3. KnownInv'
      <3>1. pc \in [Servers -> Steps]
        BY DEF TypeOK
      <3> QED
        BY <1>2, <2>b, <3>1 DEF GetSlot, KnownInv, At, Creating
    <2>4. MoveInv'
      BY <1>2 DEF GetSlot, TypeOK, MoveInv
    <2> QED
      BY <2>1, <2>2, <2>3, <2>4
  <1>3. ASSUME NextSequence(s) PROVE BaseInv'
    <2>1. TypeOK'
      <3>1. (file_seq + 1) % MaxFiles \in Slots
        BY DEF TypeOK, Slots
      <3> QED
        BY <1>3, <3>1 DEF NextSequence, TypeOK, Steps
    <2>2. HandleInv'
      BY <1>3 DEF NextSequence, TypeOK, HandleInv, Closing
    <2>3. KnownInv'
      BY <1>3 DEF NextSequence, TypeOK, KnownInv, At, Creating
    <2>4. MoveInv'
      BY <1>3 DEF NextSequence, TypeOK, MoveInv
    <2> QED
      BY <2>1, <2>2, <2>3, <2>4
  <1>4. ASSUME PutSlot(s) PROVE BaseInv'
    <2>1. TypeOK'
      BY <1>4 DEF PutSlot, TypeOK, Steps
    <2>2. HandleInv'
      BY <1>4 DEF PutSlot, TypeOK, HandleInv, Closing
    <2>3. KnownInv'
      BY <1>4 DEF PutSlot, TypeOK, KnownInv, At, Creating
    <2>4. MoveInv'
      BY <1>4 DEF PutSlot, TypeOK, MoveInv
    <2> QED
      BY <2>1, <2>2, <2>3, <2>4
  <1>5. ASSUME PutMap(s) PROVE BaseInv'
    <2>a. /\ file[s] \in Files /\ slot[s] \in Slots /\ slot[s] # None
          /\ file_segment_map \in [Servers -> [Files -> Slots \cup {None}]]
          /\ pc \in [Servers -> Steps] /\ 0 \in Slots
      BY DEF TypeOK, Slots
    <2>b. /\ file_segment_map' \in [Servers -> [Files -> Slots \cup {None}]]
          /\ \A t \in Servers, g \in Files :
                file_segment_map'[t][g] =
                    IF t = s /\ g = file[s] THEN slot[s] ELSE file_segment_map[t][g]
      BY <1>5, <2>a, Update2 DEF PutMap
    <2>1. TypeOK'
      BY <1>5, <2>a, <2>b DEF PutMap, TypeOK, Steps
    <2>2. HandleInv'
      BY <1>5 DEF PutMap, TypeOK, HandleInv, Closing
    <2>3. KnownInv'
      BY <1>5, <2>a, <2>b DEF PutMap, KnownInv, At, Creating
    <2>4. MoveInv'
      BY <1>5 DEF PutMap, TypeOK, MoveInv
    <2> QED
      BY <2>1, <2>2, <2>3, <2>4
  <1>6. ASSUME GetActive(s) PROVE BaseInv'
    <2>1. TypeOK'
      BY <1>6 DEF GetActive, TypeOK, Steps
    <2>2. HandleInv'
      BY <1>6 DEF GetActive, TypeOK, HandleInv, Closing
    <2>3. KnownInv'
      BY <1>6 DEF GetActive, TypeOK, KnownInv, At, Creating
    <2>4. MoveInv'
      BY <1>6 DEF GetActive, TypeOK, MoveInv
    <2> QED
      BY <2>1, <2>2, <2>3, <2>4
  <1>7. ASSUME PutActive(s) PROVE BaseInv'
    <2>1. TypeOK'
      <3>1. reg[s] \in Nat /\ (reg[s] + 1) % UInt32Size \in 0 .. (UInt32Size - 1)
        BY DEF TypeOK
      <3>2. /\ file_active_status' \in [Files -> (0 .. (UInt32Size - 1)) \cup {None}]
            /\ reg' \in [Servers -> 0 .. (UInt32Size - 1)]
        BY <1>7, <3>1 DEF PutActive, TypeOK
      <3> QED
        BY <1>7, <3>2 DEF PutActive, TypeOK, Steps
    <2>2. HandleInv'
      BY <1>7 DEF PutActive, TypeOK, HandleInv, Closing
    <2>3. KnownInv'
      BY <1>7 DEF PutActive, TypeOK, KnownInv, At, Creating
    <2>4. MoveInv'
      BY <1>7 DEF PutActive, TypeOK, MoveInv
    <2> QED
      BY <2>1, <2>2, <2>3, <2>4
  <1> QED
    BY <1>1, <1>2, <1>3, <1>4, <1>5, <1>6, <1>7 DEF OpenStep

LEMMA BasePlace ==
  ASSUME BaseInv, NEW s \in Servers, PlaceStep(s)
  PROVE  BaseInv'
  <1> USE EventManagerAssumption DEF BaseInv, Goto, tables
  <1>1. ASSUME NEW f \in Files, TakeRead(s, f) PROVE BaseInv'
    <2>c. /\ \A t \in Servers, g \in Files :
                opens[t][g] \in 0 .. MaxOpens /\ closes[t][g] \in 0 .. MaxOpens
          /\ file' = [file EXCEPT ![s] = f] /\ file \in [Servers -> Files]
          /\ pc \in [Servers -> Steps]
      BY <1>1 DEF TakeRead, TypeOK
    <2>1. TypeOK'
      BY <1>1 DEF TakeRead, TypeOK, Steps
    <2>2. HandleInv'
      BY <1>1, <2>c DEF TakeRead, HandleInv, Closing
    <2>3. KnownInv'
      BY <1>1, <2>c DEF TakeRead, KnownInv, At, Creating
    <2>4. MoveInv'
      BY <1>1 DEF TakeRead, TypeOK, MoveInv
    <2> QED
      BY <2>1, <2>2, <2>3, <2>4
  <1>2. ASSUME Solve(s) PROVE BaseInv'
    <2>a. /\ mapped[Map(s)] \in Buffer \cup {InFile}
          /\ mapped[Map(s)].layer \in 1 .. (NumBuffers + 1)
          /\ move \in [Servers -> [source : Buffer \cup {InFile}, destination : Buffer \cup {InFile}]]
          /\ pc \in [Servers -> Steps]
      <3>1. Map(s) \in Slots
        BY <1>2, MapKnown DEF Solve
      <3>2. mapped[Map(s)] \in Buffer \cup {InFile}
        BY <3>1 DEF TypeOK
      <3>3. \A b \in Buffer \cup {InFile} : b.layer \in 1 .. (NumBuffers + 1)
        BY DEF Buffer, InFile
      <3> QED
        BY <3>2, <3>3 DEF TypeOK
    <2>b. \A l \in 1 .. (mapped[Map(s)].layer - 1) :
             LET m == Placement(s, mapped[Map(s)], l)
             IN  /\ m.destination \in Buffer
                 /\ m \in [source : Buffer \cup {InFile}, destination : Buffer \cup {InFile}]
      <3>1. SUFFICES ASSUME NEW l \in 1 .. (mapped[Map(s)].layer - 1)
                     PROVE  Placement(s, mapped[Map(s)], l).destination \in Buffer
        BY <2>a DEF Placement
      <3>2. l \in 1 .. NumBuffers
        BY <2>a
      <3>3. (IF mapped[Map(s)] = InFile THEN s ELSE mapped[Map(s)].name) \in Servers
        BY <2>a DEF Buffer
      <3> QED
        BY <3>2, <3>3 DEF Placement, Buffer
    <2>c. /\ move' \in [Servers -> [source : Buffer \cup {InFile}, destination : Buffer \cup {InFile}]]
          /\ pc' \in [Servers -> Steps]
          /\ \A t \in Servers : pc'[t] \in {"prefetch", "advertise"} =>
                \/ pc'[t] = pc[t] /\ move'[t] = move[t]
                \/ move'[t].destination \in Buffer
      BY <1>2, <2>a, <2>b DEF Solve, Steps
    <2>1. TypeOK'
      BY <1>2, <2>c DEF Solve, TypeOK
    <2>2. HandleInv'
      BY <1>2 DEF Solve, TypeOK, HandleInv, Closing
    <2>3. KnownInv'
      BY <1>2 DEF Solve, TypeOK, KnownInv, At, Creating
    <2>4. MoveInv'
      BY <2>c DEF MoveInv
    <2> QED
      BY <2>1, <2>2, <2>3, <2>4
  <1>3. ASSUME Prefetch(s) PROVE BaseInv'
    <2>1. TypeOK'
      <3>1. /\ Map(s) \in Slots /\ move[s].destination \in Buffer
            /\ present[Map(s)] \in SUBSET Buffer
        BY <1>3, MapKnown DEF Prefetch, TypeOK, MoveInv
      <3>2. present' \in [Slots -> SUBSET Buffer]
        BY <1>3, <3>1, MovedType DEF Prefetch, TypeOK
      <3> QED
        BY <1>3, <3>2 DEF Prefetch, TypeOK, Steps
    <2>2. HandleInv'
      BY <1>3 DEF Prefetch, TypeOK, HandleInv, Closing
    <2>3. KnownInv'
      BY <1>3 DEF Prefetch, TypeOK, KnownInv, At, Creating
    <2>4. MoveInv'
      BY <1>3 DEF Prefetch, TypeOK, MoveInv
    <2> QED
      BY <2>1, <2>2, <2>3, <2>4
  <1>4. ASSUME Advertise(s) PROVE BaseInv'
    <2>1. TypeOK'
      <3>1. Map(s) \in Slots /\ move[s].destination \in Buffer
        BY <1>4, MapKnown DEF Advertise, MoveInv
      <3>2. mapped' \in [Slots -> Buffer \cup {InFile}]
        BY <1>4, <3>1 DEF Advertise, TypeOK
      <3>3. NoMove \in [source : Buffer \cup {InFile}, destination : Buffer \cup {InFile}]
        BY DEF NoMove
      <3> QED
        BY <1>4, <3>2, <3>3 DEF Advertise, TypeOK, Steps
    <2>2. HandleInv'
      BY <1>4 DEF Advertise, TypeOK, HandleInv, Closing
    <2>3. KnownInv'
      BY <1>4 DEF Advertise, TypeOK, KnownInv, At, Creating
    <2>4. MoveInv'
      BY <1>4 DEF Advertise, TypeOK, MoveInv
    <2> QED
      BY <2>1, <2>2, <2>3, <2>4
  <1> QED
    BY <1>1, <1>2, <1>3, <1>4 DEF PlaceStep

LEMMA BaseClose ==
  ASSUME BaseInv, NEW s \in Servers, CloseStep(s)
  PROVE  BaseInv'
  <1> USE EventManagerAssumption DEF BaseInv, Goto, tables
  <1>1. ASSUME NEW f \in Files, TakeClose(s, f) PROVE BaseInv'
    <2>a. /\ closes \in [Servers -> [Files -> 0 .. MaxOpens]]
          /\ closes[s][f] < opens[s][f] /\ closes[s][f] \in Nat /\ opens[s][f] \in 0 .. MaxOpens
      BY <1>1 DEF TakeClose, TypeOK
    <2>b. /\ closes' \in [Servers -> [Files -> 0 .. MaxOpens]]
          /\ \A t \in Servers, g \in Files :
                closes'[t][g] = IF t = s /\ g = f THEN closes[t][g] + 1 ELSE closes[t][g]
      <3>1. closes[s][f] + 1 \in 0 .. MaxOpens
        BY <2>a
      <3>2. closes' = [closes EXCEPT ![s][f] = closes[s][f] + 1]
        BY <1>1 DEF TakeClose
      <3> HIDE EventManagerAssumption
      <3> QED
        BY <2>a, <3>1, <3>2, Update2
    <2>c. /\ \A t \in Servers, g \in Files :
                opens[t][g] \in 0 .. MaxOpens /\ closes[t][g] \in 0 .. MaxOpens
          /\ \A t \in Servers : file[t] \in Files
          /\ file' = [file EXCEPT ![s] = f] /\ file \in [Servers -> Files]
          /\ pc \in [Servers -> Steps]
      BY <1>1 DEF TakeClose, TypeOK
    <2>1. TypeOK'
      BY <1>1, <2>b DEF TakeClose, TypeOK, Steps
    <2>2. HandleInv'
      <3>1. ASSUME NEW t \in Servers, t # s
            PROVE  pc'[t] = pc[t] /\ file'[t] = file[t] /\ closes'[t][file[t]] = closes[t][file[t]]
        BY <1>1, <2>b, <2>c, <3>1 DEF TakeClose
      <3>2. file'[s] = f /\ closes'[s][f] > 0 /\ opens[s][f] > 0 /\ pc'[s] = "getInactive"
        BY <1>1, <2>a, <2>b, <2>c DEF TakeClose
      <3>3. ASSUME NEW t \in Servers, NEW g \in Files
            PROVE  closes'[t][g] <= opens[t][g] /\ (opens[t][g] > 0 => <<t, g>> \in Uses)
        BY <2>a, <2>b, <2>c DEF HandleInv
      <3>4. opens' = opens
        BY <1>1 DEF TakeClose
      <3> QED
        BY <3>1, <3>2, <3>3, <3>4 DEF HandleInv, Closing
    <2>3. KnownInv'
      BY <1>1, <2>c DEF TakeClose, KnownInv, At, Creating
    <2>4. MoveInv'
      BY <1>1 DEF TakeClose, TypeOK, MoveInv
    <2> QED
      BY <2>1, <2>2, <2>3, <2>4
  <1>2. ASSUME GetInactive(s) PROVE BaseInv'
    <2>1. TypeOK'
      BY <1>2 DEF GetInactive, TypeOK, Steps
    <2>2. HandleInv'
      BY <1>2 DEF GetInactive, TypeOK, HandleInv, Closing
    <2>3. KnownInv'
      BY <1>2 DEF GetInactive, TypeOK, KnownInv, At, Creating
    <2>4. MoveInv'
      BY <1>2 DEF GetInactive, TypeOK, MoveInv
    <2> QED
      BY <2>1, <2>2, <2>3, <2>4
  <1>3. ASSUME PutInactive(s) PROVE BaseInv'
    <2>1. TypeOK'
      <3>1. reg[s] \in Nat /\ (reg[s] - 1) % UInt32Size \in 0 .. (UInt32Size - 1)
        BY DEF TypeOK
      <3>2. /\ file_active_status' \in [Files -> (0 .. (UInt32Size - 1)) \cup {None}]
            /\ reg' \in [Servers -> 0 .. (UInt32Size - 1)]
        BY <1>3, <3>1 DEF PutInactive, TypeOK
      <3> QED
        BY <1>3, <3>2 DEF PutInactive, TypeOK, Steps
    <2>2. HandleInv'
      BY <1>3 DEF PutInactive, TypeOK, HandleInv, Closing
    <2>3. KnownInv'
      BY <1>3 DEF PutInactive, TypeOK, KnownInv, At, Creating
    <2>4. MoveInv'
      BY <1>3 DEF PutInactive, TypeOK, MoveInv
    <2> QED
      BY <2>1, <2>2, <2>3, <2>4
  <1>4. ASSUME CheckIfFileActive(s) PROVE BaseInv'
    <2>1. TypeOK'
      BY <1>4 DEF CheckIfFileActive, TypeOK, Steps
    <2>2. HandleInv'
      BY <1>4 DEF CheckIfFileActive, TypeOK, HandleInv, Closing
    <2>3. KnownInv'
      BY <1>4 DEF CheckIfFileActive, TypeOK, KnownInv, At, Creating
    <2>4. MoveInv'
      BY <1>4 DEF CheckIfFileActive, TypeOK, MoveInv
    <2> QED
      BY <2>1, <2>2, <2>3, <2>4
  <1>5. ASSUME Delete(s) PROVE BaseInv'
    <2>1. TypeOK'
      BY <1>5 DEF Delete, TypeOK, Steps
    <2>2. HandleInv'
      BY <1>5 DEF Delete, TypeOK, HandleInv, Closing
    <2>3. KnownInv'
      BY <1>5 DEF Delete, TypeOK, KnownInv, At, Creating
    <2>4. MoveInv'
      BY <1>5 DEF Delete, TypeOK, MoveInv
    <2> QED
      BY <2>1, <2>2, <2>3, <2>4
  <1> QED
    BY <1>1, <1>2, <1>3, <1>4, <1>5 DEF CloseStep

(* Every step preserves the invariant. *)
LEMMA BaseStep == BaseInv /\ [Next]_vars => BaseInv'
  <1> SUFFICES ASSUME BaseInv, [Next]_vars PROVE BaseInv'
    OBVIOUS
  <1>1. CASE UNCHANGED vars
    BY <1>1 DEF BaseInv, TypeOK, HandleInv, KnownInv, MoveInv, At, vars, tables
  <1> QED
    BY <1>1, BaseOpen, BasePlace, BaseClose DEF Next, AllClosed

LEMMA BaseHolds == Spec => []BaseInv
  BY BaseInit, BaseStep, PTL DEF Spec

(* Every value the servers and the tables they share hold stays in its     *)
(* type; in particular data is placed, moved and deleted in a map that the *)
(* server knows (EventManager::handle reads file_segment_map[name]).       *)
THEOREM TypeCorrect == Spec => []TypeOK
  <1>1. BaseInv => TypeOK
    BY DEF BaseInv
  <1> QED
    BY <1>1, BaseHolds, PTL

----------------------------------------------------------------------------
(* The sequence gives out each map once before it wraps. *)

LEMMA FreshSlot ==
  ASSUME file_seq \in Nat, file_seq + 1 <= MaxFiles
  PROVE  (file_seq + 1) % MaxFiles \notin Given
  <1> SUFFICES ASSUME NEW n \in 1 .. file_seq, n % MaxFiles = (file_seq + 1) % MaxFiles
               PROVE  FALSE
    BY DEF Given
  <1>1. n \in Nat /\ 0 < n /\ n < file_seq + 1 /\ MaxFiles \in Nat \ {0}
    BY EventManagerAssumption
  <1>2. n % MaxFiles = n
    BY <1>1
  <1>3. (file_seq + 1) % MaxFiles = IF file_seq + 1 = MaxFiles THEN 0 ELSE file_seq + 1
    BY <1>1
  <1> QED
    BY <1>1, <1>2, <1>3

(* Only NextSequence makes a server hold a map it did not hold before. *)
Quiet == file_seq' = file_seq /\ \A f \in Files, i \in Slots : Holds(f, i)' => Holds(f, i)

LEMMA QuietStep ==
  ASSUME BaseInv, NEW s \in Servers,
         OpenStep(s) \/ PlaceStep(s) \/ CloseStep(s), ~NextSequence(s)
  PROVE  Quiet
  <1> USE DEF Quiet, Holds, At, Holding, Goto, tables
  <1>t. /\ pc \in [Servers -> Steps] /\ file \in [Servers -> Files]
        /\ slot \in [Servers -> Slots]
        /\ valid_buffered_dataset \in [Files -> Slots \cup {None}]
    BY DEF BaseInv, TypeOK
  <1>1. ASSUME NEW f \in Files, TakeOpen(s, f) \/ TakeRead(s, f) \/ TakeClose(s, f)
        PROVE  Quiet
    BY <1>t, <1>1 DEF TakeOpen, TakeRead, TakeClose
  <1>2. CASE GetSlot(s)
    BY <1>t, <1>2 DEF GetSlot
  <1>3. CASE PutSlot(s)
    BY <1>t, <1>3 DEF PutSlot
  <1>4. CASE PutMap(s)
    BY <1>t, <1>4 DEF PutMap
  <1>5. CASE GetActive(s) \/ PutActive(s)
    BY <1>t, <1>5 DEF GetActive, PutActive
  <1>6. CASE Solve(s) \/ Prefetch(s) \/ Advertise(s)
    BY <1>t, <1>6 DEF Solve, Prefetch, Advertise
  <1>7. CASE GetInactive(s) \/ PutInactive(s)
    BY <1>t, <1>7 DEF GetInactive, PutInactive
  <1>8. CASE CheckIfFileActive(s) \/ Delete(s)
    BY <1>t, <1>8 DEF CheckIfFileActive, Delete
  <1> QED
    BY <1>1, <1>2, <1>3, <1>4, <1>5, <1>6, <1>7, <1>8
       DEF OpenStep, PlaceStep, CloseStep

(* NextSequence makes one server hold a map that nobody held. *)
LEMMA SequenceNext ==
  ASSUME BaseInv, SequenceInv, NEW s \in Servers, NextSequence(s)
  PROVE  SequenceInv'
  <1>t. /\ pc \in [Servers -> Steps] /\ file \in [Servers -> Files]
        /\ slot \in [Servers -> Slots] /\ file_seq \in Nat
        /\ valid_buffered_dataset \in [Files -> Slots \cup {None}]
    BY DEF BaseInv, TypeOK
  <1> DEFINE new == (file_seq + 1) % MaxFiles
  <1> SUFFICES ASSUME file_seq' <= MaxFiles PROVE SequenceInv'
    BY DEF SequenceInv
  <1>1. file_seq' = file_seq + 1 /\ file_seq + 1 <= MaxFiles
    BY DEF NextSequence
  <1>2. file_seq <= MaxFiles
    BY <1>t, <1>1, EventManagerAssumption
  <1>3. new \notin Given
    BY <1>t, <1>1, FreshSlot
  <1>4. Given \cup {new} \subseteq Given'
    <2>1. 1 .. file_seq \subseteq 1 .. (file_seq + 1) /\ file_seq + 1 \in 1 .. (file_seq + 1)
      BY <1>t
    <2> QED
      BY <1>1, <2>1 DEF Given
  <1>5. ASSUME NEW f \in Files, NEW i \in Slots, Holds(f, i)'
        PROVE  Holds(f, i) \/ (f = file[s] /\ i = new)
    BY <1>t, <1>5 DEF NextSequence, Goto, Holds, At, Holding
  <1> HIDE DEF new
  <1>6. \A f \in Files, i \in Slots : Holds(f, i) => i \in Given
    BY <1>2 DEF SequenceInv
  <1>7. \A f, g \in Files, i \in Slots : Holds(f, i) /\ Holds(g, i) => f = g
    BY <1>2 DEF SequenceInv
  <1> QED
    BY <1>3, <1>4, <1>5, <1>6, <1>7 DEF SequenceInv

LEMMA SequenceStep == BaseInv /\ SequenceInv /\ [Next]_vars => SequenceInv'
  <1> SUFFICES ASSUME BaseInv, SequenceInv, [Next]_vars PROVE SequenceInv'
    OBVIOUS
  <1>1. ASSUME Quiet PROVE SequenceInv'
    <2>1. Given' = Given
      BY <1>1 DEF Quiet, Given
    <2> QED
      BY <1>1, <2>1 DEF Quiet, SequenceInv
  <1>2. CASE UNCHANGED vars
    <2>1. Quiet
      BY <1>2 DEF Quiet, Holds, At, vars, tables
    <2> QED
      BY <1>1, <2>1
  <1> QED
    BY <1>1, <1>2, QuietStep, SequenceNext DEF Next, AllClosed

LEMMA SequenceHolds == Spec => []SequenceInv
  <1>1. Init => SequenceInv
    BY EventManagerAssumption DEF Init, SequenceInv, Holds, At, Holding
  <1> QED
    BY <1>1, SequenceStep, BaseHolds, PTL DEF Spec

(* However the opens of the servers interleave, and also when several of    *)
(* them create a map for the same file, CreateOffsetMap gives no two files  *)
(* the same map until the sequence has wrapped.                             *)
THEOREM MapsAreDistinct == Spec => []DistinctMaps
  <1>1. BaseInv /\ SequenceInv => DistinctMaps
    <2> SUFFICES ASSUME BaseInv, SequenceInv, file_seq <= MaxFiles,
                        NEW f \in Files, NEW g \in Files, f # g,
                        valid_buffered_dataset[f] # None,
                        valid_buffered_dataset[f] = valid_buffered_dataset[g]
                 PROVE  FALSE
      BY DEF DistinctMaps
    <2>1. valid_buffered_dataset[f] \in Slots
      BY DEF BaseInv, TypeOK
    <2>2. Holds(f, valid_buffered_dataset[f]) /\ Holds(g, valid_buffered_dataset[f])
      BY DEF Holds
    <2> QED
      BY <2>1, <2>2 DEF SequenceInv
  <1> QED
    BY <1>1, BaseHolds, SequenceHolds, PTL

----------------------------------------------------------------------------
(* The count of opens of a file whose clients are all on one server. *)

LEMMA CountInit == Init => CountInv
  BY DEF Init, CountInv, Count, At, Opening, Creating, Closing

LEMMA CountType ==
  ASSUME BaseInv
  PROVE  /\ \A f \in Files : Count(f) \in 0 .. (UInt32Size - 1)
         /\ \A s \in Servers, f \in Files :
               /\ opens[s][f] \in 0 .. MaxOpens /\ closes[s][f] \in 0 .. MaxOpens
               /\ closes[s][f] <= opens[s][f]
         /\ \A s \in Servers : file[s] \in Files /\ reg[s] \in 0 .. (UInt32Size - 1)
         /\ pc \in [Servers -> Steps] /\ file \in [Servers -> Files]
         /\ reg \in [Servers -> 0 .. (UInt32Size - 1)]
  <1>1. 0 \in 0 .. (UInt32Size - 1)
    BY EventManagerAssumption
  <1>2. \A f \in Files : file_active_status[f] \in (0 .. (UInt32Size - 1)) \cup {None}
    BY DEF BaseInv, TypeOK
  <1>3. \A f \in Files : Count(f) \in 0 .. (UInt32Size - 1)
    BY <1>1, <1>2 DEF Count
  <1> QED
    BY <1>3 DEF BaseInv, TypeOK, HandleInv

(* The stored count in the middle of an open, and of a close. *)
LEMMA CountAt ==
  ASSUME BaseInv, CountInv, NEW s \in Servers, pc[s] \in Opening \cup Closing
  PROVE  /\ <<s, file[s]>> \in Uses
         /\ pc[s] \in Opening => Count(file[s]) = opens[s][file[s]] - closes[s][file[s]] - 1
         /\ pc[s] \in Closing => Count(file[s]) = opens[s][file[s]] - closes[s][file[s]] + 1
  <1>1. file[s] \in Files /\ <<s, file[s]>> \in Uses
    <2>1. pc[s] # "idle"
      BY DEF Opening, Creating, Closing
    <2> QED
      BY <2>1, CountType DEF BaseInv, HandleInv
  <1>2. Count(file[s]) = opens[s][file[s]] - closes[s][file[s]]
                         - (IF At(s, file[s], Opening) THEN 1 ELSE 0)
                         + (IF At(s, file[s], Closing) THEN 1 ELSE 0)
    BY <1>1 DEF CountInv
  <1>3. /\ pc[s] \in Opening => At(s, file[s], Opening) /\ ~At(s, file[s], Closing)
        /\ pc[s] \in Closing => At(s, file[s], Closing) /\ ~At(s, file[s], Opening)
    BY DEF At, Opening, Creating, Closing
  <1> QED
    BY <1>1, <1>2, <1>3, CountType

(* A step of s that stores no count and begins no open and no close. *)
LEMMA CountFrame ==
  ASSUME BaseInv, CountInv, NEW s \in Servers,
         UNCHANGED <<file_active_status, opens, closes>>,
         \A t \in Servers \ {s} : pc'[t] = pc[t] /\ file'[t] = file[t] /\ reg'[t] = reg[t],
         \/ file'[s] = file[s] /\ (pc[s] \in Opening <=> pc'[s] \in Opening)
                               /\ (pc[s] \in Closing <=> pc'[s] \in Closing)
         \/ {pc[s], pc'[s]} \cap (Opening \cup Closing) = {},
         pc'[s] \in {"putActive", "putInactive"} => reg'[s] = Count(file'[s]),
         pc'[s] = "delete" => Count(file'[s]) = 0
  PROVE  CountInv'
  <1>1. \A f \in Files : Count(f)' = Count(f)
    BY DEF Count
  <1>2. \A t \in Servers, f \in Files :
           /\ At(t, f, Opening)' = At(t, f, Opening)
           /\ At(t, f, Closing)' = At(t, f, Closing)
    BY DEF At
  <1>3. \A t \in Servers :
           /\ pc'[t] \in {"putActive", "putInactive"} => reg'[t] = Count(file'[t])
           /\ pc'[t] = "delete" => Count(file'[t]) = 0
    BY DEF CountInv
  <1>4. \A t \in Servers : Count(file[t])' = Count(file'[t])
    BY DEF Count
  <1> QED
    BY <1>1, <1>2, <1>3, <1>4 DEF CountInv

(* A step of s that stores the number of open handles as the count. *)
LEMMA CountStored ==
  ASSUME PrivateFiles, BaseInv, CountInv, NEW s \in Servers, NEW f \in Files,
         <<s, f>> \in Uses,
         UNCHANGED <<opens, closes>>,
         \A t \in Servers : t # s => file'[t] = file[t] /\ pc'[t] = pc[t] /\ reg'[t] = reg[t],
         file[s] = f, file'[s] = f, pc'[s] \in {"solve", "check"},
         \A g \in Files : Count(g)' = IF g = f THEN opens[s][f] - closes[s][f] ELSE Count(g),
         \A g \in Files : file_active_status'[g] # None => g = f \/ file_active_status[g] # None
  PROVE  CountInv'
  <1>1. ASSUME NEW t \in Servers, NEW g \in Files, <<t, g>> \in Uses
        PROVE  Count(g)' = opens'[t][g] - closes'[t][g]
                           - (IF At(t, g, Opening)' THEN 1 ELSE 0)
                           + (IF At(t, g, Closing)' THEN 1 ELSE 0)
    <2>1. CASE g = f
      <3>1. t = s
        BY <1>1, <2>1 DEF PrivateFiles
      <3>2. ~At(t, g, Opening)' /\ ~At(t, g, Closing)'
        BY <3>1 DEF At, Opening, Creating, Closing
      <3> QED
        BY <2>1, <3>1, <3>2, CountType
    <2>2. CASE g # f
      <3>1. At(t, g, Opening)' = At(t, g, Opening) /\ At(t, g, Closing)' = At(t, g, Closing)
        BY <2>2 DEF At
      <3> QED
        BY <1>1, <2>2, <3>1 DEF CountInv
    <2> QED
      BY <2>1, <2>2
  <1>2. ASSUME NEW t \in Servers
        PROVE  /\ pc'[t] \in {"putActive", "putInactive"} => reg'[t] = Count(file[t])'
               /\ pc'[t] = "delete" => Count(file[t])' = 0
    <2>1. CASE t = s
      BY <2>1
    <2>2. CASE t # s /\ pc[t] = "idle"
      BY <2>2
    <2>3. CASE t # s /\ pc[t] # "idle"
      <3>1. file[t] \in Files /\ file[t] # f
        BY <2>3, CountType DEF BaseInv, HandleInv, PrivateFiles
      <3>2. PICK g \in Files : g = file[t]
        BY <3>1
      <3>3. Count(g)' = Count(g)
        BY <3>1, <3>2
      <3>4. Count(file[t])' = Count(g)' /\ Count(file[t]) = Count(g)
        BY <2>3, <3>2 DEF Count
      <3> QED
        BY <2>3, <3>3, <3>4 DEF CountInv
    <2> QED
      BY <2>1, <2>2, <2>3
  <1>3. \A g \in Files : file_active_status'[g] # None => \E t \in Servers : <<t, g>> \in Uses
    BY DEF CountInv
  <1> QED
    BY <1>1, <1>2, <1>3 DEF CountInv

LEMMA CountOpen ==
  ASSUME PrivateFiles, MaxOpens < UInt32Size, BaseInv, CountInv,
         NEW s \in Servers, OpenStep(s)
  PROVE  CountInv'
  <1> USE DEF Goto, tables
  <1>1. ASSUME NEW f \in Files, TakeOpen(s, f) PROVE CountInv'
    <2>1. \A t \in Servers, g \in Files :
             opens'[t][g] = IF t = s /\ g = f THEN opens[t][g] + 1 ELSE opens[t][g]
      BY <1>1, CountType DEF TakeOpen, BaseInv, TypeOK
    <2>2. \A g \in Files : Count(g)' = Count(g)
      BY <1>1 DEF TakeOpen, Count
    <2>3. ASSUME NEW t \in Servers, NEW g \in Files, <<t, g>> \in Uses
          PROVE  Count(g)' = opens'[t][g] - closes'[t][g]
                             - (IF At(t, g, Opening)' THEN 1 ELSE 0)
                             + (IF At(t, g, Closing)' THEN 1 ELSE 0)
      <3>1. Count(g) = opens[t][g] - closes[t][g]
                       - (IF At(t, g, Opening) THEN 1 ELSE 0)
                       + (IF At(t, g, Closing) THEN 1 ELSE 0)
        BY <2>3 DEF CountInv
      <3>2. closes' = closes
        BY <1>1 DEF TakeOpen
      <3>3. CASE t = s /\ g = f
        <4>1. /\ ~At(t, g, Opening) /\ ~At(t, g, Closing)
              /\ At(t, g, Opening)' /\ ~At(t, g, Closing)'
          BY <1>1, <3>3, CountType DEF TakeOpen, At, Opening, Creating, Closing
        <4>2. opens'[t][g] = opens[t][g] + 1
          BY <2>1, <3>3
        <4>3. Count(g) = opens[t][g] - closes[t][g]
          BY <3>1, <4>1, CountType
        <4>4. opens[t][g] \in Nat /\ closes[t][g] \in Nat
          BY CountType
        <4> QED
          BY <2>2, <3>2, <4>1, <4>2, <4>3, <4>4
      <3>4. CASE ~(t = s /\ g = f)
        <4>1. /\ At(t, g, Opening)' = At(t, g, Opening)
              /\ At(t, g, Closing)' = At(t, g, Closing)
          BY <1>1, <3>4, CountType DEF TakeOpen, At, Opening, Creating, Closing
        <4>2. opens'[t][g] = opens[t][g]
          BY <2>1, <3>4
        <4> QED
          BY <2>2, <3>1, <3>2, <4>1, <4>2
      <3> QED
        BY <3>3, <3>4
    <2>4. ASSUME NEW t \in Servers
          PROVE  /\ pc'[t] \in {"putActive", "putInactive"} => reg'[t] = Count(file[t])'
                 /\ pc'[t] = "delete" => Count(file[t])' = 0
      BY <1>1, CountType DEF TakeOpen, CountInv, Count
    <2>5. UNCHANGED file_active_status
      BY <1>1 DEF TakeOpen
    <2> QED
      BY <2>3, <2>4, <2>5 DEF CountInv
  <1>2. CASE GetSlot(s)
    BY <1>2, CountFrame, CountType DEF GetSlot, Opening, Creating, Closing
  <1>3. CASE NextSequence(s)
    BY <1>3, CountFrame, CountType DEF NextSequence, Opening, Creating, Closing
  <1>4. CASE PutSlot(s)
    BY <1>4, CountFrame, CountType DEF PutSlot, Opening, Creating, Closing
  <1>5. CASE PutMap(s)
    BY <1>5, CountFrame, CountType DEF PutMap, Opening, Creating, Closing
  <1>6. CASE GetActive(s)
    BY <1>6, CountFrame, CountType DEF GetActive, Opening, Creating, Closing, Count
  <1>7. CASE PutActive(s)
    <2> DEFINE f == file[s]
    <2>1. f \in Files /\ <<s, f>> \in Uses /\ reg[s] = opens[s][f] - closes[s][f] - 1
      <3>1. pc[s] \in Opening /\ reg[s] = Count(f)
        BY <1>7 DEF PutActive, Opening, CountInv
      <3> QED
        BY <3>1, CountAt, CountType
    <2>2. (reg[s] + 1) % UInt32Size = opens[s][f] - closes[s][f]
      <3>1. reg[s] + 1 = opens[s][f] - closes[s][f] /\ reg[s] + 1 \in 0 .. MaxOpens
        BY <2>1, CountType, EventManagerAssumption
      <3> QED
        BY <3>1, EventManagerAssumption
    <2>3. \A g \in Files : Count(g)' = IF g = f THEN opens[s][f] - closes[s][f] ELSE Count(g)
      <3>1. opens[s][f] - closes[s][f] # None
        <4>1. (reg[s] + 1) % UInt32Size \in 0 .. (UInt32Size - 1)
          BY <2>1, CountType, EventManagerAssumption
        <4> QED
          BY <2>2, <4>1, EventManagerAssumption
      <3> QED
        BY <1>7, <2>2, <3>1 DEF PutActive, Count, BaseInv, TypeOK
    <2>4. \A t \in Servers : t # s => file'[t] = file[t] /\ pc'[t] = pc[t] /\ reg'[t] = reg[t]
      BY <1>7, CountType DEF PutActive
    <2>5. file'[s] = f /\ pc'[s] = "solve" /\ UNCHANGED <<opens, closes>>
      BY <1>7, CountType DEF PutActive
    <2>6. \A g \in Files : file_active_status'[g] # None => g = f \/ file_active_status[g] # None
      BY <1>7 DEF PutActive, BaseInv, TypeOK
    <2>7. file[s] = f
      OBVIOUS
    <2> HIDE DEF f
    <2> QED
      BY <2>1, <2>3, <2>4, <2>5, <2>6, <2>7, CountStored
  <1> QED
    BY <1>1, <1>2, <1>3, <1>4, <1>5, <1>6, <1>7 DEF OpenStep

LEMMA CountPlace ==
  ASSUME BaseInv, CountInv, NEW s \in Servers, PlaceStep(s)
  PROVE  CountInv'
  <1> USE DEF Goto, tables
  <1>1. ASSUME NEW f \in Files, TakeRead(s, f) PROVE CountInv'
    BY <1>1, CountFrame, CountType DEF TakeRead, Opening, Creating, Closing
  <1>2. CASE Solve(s)
    BY <1>2, CountFrame, CountType DEF Solve, Opening, Creating, Closing
  <1>3. CASE Prefetch(s)
    BY <1>3, CountFrame, CountType DEF Prefetch, Opening, Creating, Closing
  <1>4. CASE Advertise(s)
    BY <1>4, CountFrame, CountType DEF Advertise, Opening, Creating, Closing
  <1> QED
    BY <1>1, <1>2, <1>3, <1>4 DEF PlaceStep

LEMMA CountClose ==
  ASSUME PrivateFiles, MaxOpens < UInt32Size, BaseInv, CountInv,
         NEW s \in Servers, CloseStep(s)
  PROVE  CountInv'
  <1> USE DEF Goto, tables
  <1>1. ASSUME NEW f \in Files, TakeClose(s, f) PROVE CountInv'
    <2>1. \A t \in Servers, g \in Files :
             closes'[t][g] = IF t = s /\ g = f THEN closes[t][g] + 1 ELSE closes[t][g]
      BY <1>1, CountType DEF TakeClose, BaseInv, TypeOK
    <2>2. \A g \in Files : Count(g)' = Count(g)
      BY <1>1 DEF TakeClose, Count
    <2>3. ASSUME NEW t \in Servers, NEW g \in Files, <<t, g>> \in Uses
          PROVE  Count(g)' = opens'[t][g] - closes'[t][g]
                             - (IF At(t, g, Opening)' THEN 1 ELSE 0)
                             + (IF At(t, g, Closing)' THEN 1 ELSE 0)
      <3>1. Count(g) = opens[t][g] - closes[t][g]
                       - (IF At(t, g, Opening) THEN 1 ELSE 0)
                       + (IF At(t, g, Closing) THEN 1 ELSE 0)
        BY <2>3 DEF CountInv
      <3>2. opens' = opens
        BY <1>1 DEF TakeClose
      <3>3. CASE t = s /\ g = f
        <4>1. /\ ~At(t, g, Opening) /\ ~At(t, g, Closing)
              /\ ~At(t, g, Opening)' /\ At(t, g, Closing)'
          BY <1>1, <3>3, CountType DEF TakeClose, At, Opening, Creating, Closing
        <4>2. closes'[t][g] = closes[t][g] + 1
          BY <2>1, <3>3
        <4>3. Count(g) = opens[t][g] - closes[t][g]
          BY <3>1, <4>1, CountType
        <4>4. opens[t][g] \in Nat /\ closes[t][g] \in Nat
          BY CountType
        <4> QED
          BY <2>2, <3>2, <4>1, <4>2, <4>3, <4>4
      <3>4. CASE ~(t = s /\ g = f)
        <4>1. /\ At(t, g, Opening)' = At(t, g, Opening)
              /\ At(t, g, Closing)' = At(t, g, Closing)
          BY <1>1, <3>4, CountType DEF TakeClose, At, Opening, Creating, Closing
        <4>2. closes'[t][g] = closes[t][g]
          BY <2>1, <3>4
        <4> QED
          BY <2>2, <3>1, <3>2, <4>1, <4>2
      <3> QED
        BY <3>3, <3>4
    <2>4. ASSUME NEW t \in Servers
          PROVE  /\ pc'[t] \in {"putActive", "putInactive"} => reg'[t] = Count(file[t])'
                 /\ pc'[t] = "delete" => Count(file[t])' = 0
      BY <1>1, CountType DEF TakeClose, CountInv, Count
    <2>5. UNCHANGED file_active_status
      BY <1>1 DEF TakeClose
    <2> QED
      BY <2>3, <2>4, <2>5 DEF CountInv
  <1>2. CASE GetInactive(s)
    <2>1. file_active_status[file[s]] # None
      <3>1. Count(file[s]) = opens[s][file[s]] - closes[s][file[s]] + 1
        BY <1>2, CountAt DEF GetInactive, Closing
      <3>2. Count(file[s]) # 0
        BY <3>1, CountType
      <3> QED
        BY <3>2 DEF Count
    <2> QED
      BY <1>2, <2>1, CountFrame, CountType DEF GetInactive, Opening, Creating, Closing, Count
  <1>3. CASE PutInactive(s)
    <2> DEFINE f == file[s]
    <2>1. f \in Files /\ <<s, f>> \in Uses /\ reg[s] = opens[s][f] - closes[s][f] + 1
      <3>1. pc[s] \in Closing /\ reg[s] = Count(f)
        BY <1>3 DEF PutInactive, Closing, CountInv
      <3> QED
        BY <3>1, CountAt, CountType
    <2>2. (reg[s] - 1) % UInt32Size = opens[s][f] - closes[s][f]
      <3>1. reg[s] - 1 = opens[s][f] - closes[s][f] /\ reg[s] - 1 \in 0 .. MaxOpens
        BY <2>1, CountType, EventManagerAssumption
      <3> QED
        BY <3>1, EventManagerAssumption
    <2>3. \A g \in Files : Count(g)' = IF g = f THEN opens[s][f] - closes[s][f] ELSE Count(g)
      <3>1. opens[s][f] - closes[s][f] # None
        <4>1. (reg[s] - 1) % UInt32Size \in 0 .. (UInt32Size - 1)
          BY <2>1, CountType, EventManagerAssumption
        <4> QED
          BY <2>2, <4>1, EventManagerAssumption
      <3> QED
        BY <1>3, <2>2, <3>1 DEF PutInactive, Count, BaseInv, TypeOK
    <2>4. \A t \in Servers : t # s => file'[t] = file[t] /\ pc'[t] = pc[t] /\ reg'[t] = reg[t]
      BY <1>3, CountType DEF PutInactive
    <2>5. file'[s] = f /\ pc'[s] = "check" /\ UNCHANGED <<opens, closes>>
      BY <1>3, CountType DEF PutInactive
    <2>6. \A g \in Files : file_active_status'[g] # None => g = f \/ file_active_status[g] # None
      BY <1>3 DEF PutInactive, BaseInv, TypeOK
    <2>7. file[s] = f
      OBVIOUS
    <2> HIDE DEF f
    <2> QED
      BY <2>1, <2>3, <2>4, <2>5, <2>6, <2>7, CountStored
  <1>4. CASE CheckIfFileActive(s)
    <2>1. pc'[s] = "delete" => Count(file[s]) = 0
      BY <1>4, CountType DEF CheckIfFileActive, Count
    <2> QED
      BY <1>4, <2>1, CountFrame, CountType DEF CheckIfFileActive, Opening, Creating, Closing
  <1>5. CASE Delete(s)
    BY <1>5, CountFrame, CountType DEF Delete, Opening, Creating, Closing
  <1> QED
    BY <1>1, <1>2, <1>3, <1>4, <1>5 DEF CloseStep

LEMMA CountHolds ==
  ASSUME PrivateFiles, MaxOpens < UInt32Size
  PROVE  Spec => []CountInv
  <1>1. BaseInv /\ CountInv /\ [Next]_vars => CountInv'
    <2> SUFFICES ASSUME BaseInv, CountInv, [Next]_vars PROVE CountInv'
      OBVIOUS
    <2>1. CASE UNCHANGED vars
      BY <2>1 DEF CountInv, Count, At, vars, tables
    <2> QED
      BY <2>1, CountOpen, CountPlace, CountClose DEF Next, AllClosed
  <1> QED
    BY <1>1, CountInit, BaseHolds, PTL DEF Spec

(* The open handles on a file are those of the one server that uses it. *)
LEMMA HandlesOf ==
  ASSUME PrivateFiles, BaseInv, NEW s \in Servers, NEW f \in Files, <<s, f>> \in Uses
  PROVE  /\ OpenHandles(f) = {s} \X ((closes[s][f] + 1) .. opens[s][f])
         /\ Cardinality(OpenHandles(f)) = opens[s][f] - closes[s][f]
  <1> DEFINE I == (closes[s][f] + 1) .. opens[s][f]
  <1>1. /\ opens[s][f] \in 0 .. MaxOpens /\ closes[s][f] \in 0 .. MaxOpens
        /\ closes[s][f] <= opens[s][f]
    BY CountType
  <1>2. \A t \in Servers : t # s => opens[t][f] = 0 /\ closes[t][f] = 0
    <2> SUFFICES ASSUME NEW t \in Servers, t # s PROVE opens[t][f] = 0 /\ closes[t][f] = 0
      OBVIOUS
    <2>1. <<t, f>> \notin Uses
      BY DEF PrivateFiles
    <2>2. ~(opens[t][f] > 0)
      BY <2>1 DEF BaseInv, HandleInv
    <2>3. opens[t][f] \in Nat /\ closes[t][f] \in Nat /\ closes[t][f] <= opens[t][f]
      BY CountType
    <2> QED
      BY <2>2, <2>3
  <1>3. OpenHandles(f) = {s} \X I
    <2>1. ASSUME NEW h \in OpenHandles(f) PROVE h \in {s} \X I
      <3>1. PICK t \in Servers, n \in 1 .. MaxOpens : h = <<t, n>> /\ closes[t][f] < n /\ n <= opens[t][f]
        BY <2>1 DEF OpenHandles
      <3>2. t = s
        BY <1>2, <3>1
      <3> QED
        BY <1>1, <3>1, <3>2
    <2>2. ASSUME NEW n \in I PROVE <<s, n>> \in OpenHandles(f)
      <3>1. n \in 1 .. MaxOpens /\ closes[s][f] < n /\ n <= opens[s][f]
        BY <1>1, EventManagerAssumption
      <3> QED
        BY <3>1 DEF OpenHandles
    <2> QED
      BY <2>1, <2>2
  <1>4. IsFiniteSet(I) /\ Cardinality(I) = opens[s][f] - closes[s][f]
    <2>1. closes[s][f] + 1 \in Int /\ opens[s][f] \in Int
      BY <1>1
    <2>2. IsFiniteSet(I) /\ Cardinality(I) =
            IF closes[s][f] + 1 > opens[s][f] THEN 0 ELSE opens[s][f] - (closes[s][f] + 1) + 1
      BY <2>1, FS_Interval
    <2> HIDE DEF I
    <2> QED
      BY <1>1, <2>2
  <1>5. Cardinality({s} \X I) = 1 * Cardinality(I)
    <2>1. IsFiniteSet({s}) /\ Cardinality({s}) = 1
      BY FS_Singleton
    <2> HIDE DEF I
    <2> QED
      BY <1>4, <2>1, FS_Product
  <1> QED
    BY <1>1, <1>3, <1>4, <1>5

(* When the clients of a file are all on one server and open it less than   *)
(* 2^32 times, file_active_status is the number of open handles whenever    *)
(* the server is not in the middle of an update: MarkFileSegmentsActive and *)
(* MarkFileSegmentsInactive lose no update and never wrap.                  *)
THEOREM CountIsExact ==
  ASSUME PrivateFiles, MaxOpens < UInt32Size
  PROVE  Spec => []ActiveExact
  <1>1. BaseInv /\ CountInv => ActiveExact
    <2> SUFFICES ASSUME BaseInv, CountInv, NEW f \in Files,
                        \A s \in Servers : ~Counting(s, f),
                        file_active_status[f] # None
                 PROVE  file_active_status[f] = Cardinality(OpenHandles(f))
      BY DEF ActiveExact
    <2>1. PICK s \in Servers : <<s, f>> \in Uses
      BY DEF CountInv
    <2>2. ~At(s, f, Opening) /\ ~At(s, f, Closing)
      BY DEF Counting, At, Opening, Creating, Closing
    <2>3. Count(f) = opens[s][f] - closes[s][f]
      BY <2>1, <2>2, CountType DEF CountInv
    <2> QED
      BY <2>1, <2>3, HandlesOf DEF Count
  <1> QED
    BY <1>1, BaseHolds, CountHolds, PTL

(* Under the same assumptions the buffers of a file are deleted only while  *)
(* no client has it open (handle, case FILE_CLOSE: "if(!isFileActive)").    *)
THEOREM DeletesOnlyClosed ==
  ASSUME PrivateFiles, MaxOpens < UInt32Size
  PROVE  Spec => []NoDeleteWhileOpen
  <1>1. BaseInv /\ CountInv => NoDeleteWhileOpen
    <2> SUFFICES ASSUME BaseInv, CountInv, NEW s \in Servers, pc[s] = "delete"
                 PROVE  OpenHandles(file[s]) = {}
      BY DEF NoDeleteWhileOpen
    <2>1. file[s] \in Files /\ <<s, file[s]>> \in Uses
      BY CountType DEF BaseInv, HandleInv
    <2>2. ~At(s, file[s], Opening) /\ ~At(s, file[s], Closing) /\ Count(file[s]) = 0
      BY DEF At, Opening, Creating, Closing, CountInv
    <2>3. opens[s][file[s]] - closes[s][file[s]] = 0
      BY <2>1, <2>2, CountType DEF CountInv
    <2>4. (closes[s][file[s]] + 1) .. opens[s][file[s]] = {}
      BY <2>1, <2>3, CountType
    <2> QED
      BY <2>1, <2>4, HandlesOf
  <1> QED
    BY <1>1, BaseHolds, CountHolds, PTL

----------------------------------------------------------------------------
(* The map of a file whose clients are all on one server. *)

LEMMA TableType ==
  ASSUME BaseInv
  PROVE  /\ pc \in [Servers -> Steps] /\ file \in [Servers -> Files]
         /\ slot \in [Servers -> Slots] /\ file_seq \in Nat
         /\ file_segment_map \in [Servers -> [Files -> Slots \cup {None}]]
         /\ valid_buffered_dataset \in [Files -> Slots \cup {None}]
         /\ owner \in [Slots -> Files \cup {None}]
         /\ \A s \in Servers : file[s] \in Files /\ slot[s] \in Slots /\ slot[s] # None
         /\ \A s \in Servers : pc[s] # "idle" => <<s, file[s]>> \in Uses
  <1>1. \A i \in Slots : i # None
    BY EventManagerAssumption
  <1>2. /\ file \in [Servers -> Files] /\ slot \in [Servers -> Slots]
        /\ file_segment_map \in [Servers -> [Files -> Slots \cup {None}]]
        /\ valid_buffered_dataset \in [Files -> Slots \cup {None}]
    BY DEF BaseInv, TypeOK
  <1>3. \A s \in Servers : pc[s] # "idle" => <<s, file[s]>> \in Uses
    BY <1>2 DEF BaseInv, HandleInv
  <1> QED
    BY <1>1, <1>2, <1>3 DEF BaseInv, TypeOK

(* A step of s that neither draws a map nor registers one. *)
OtherStep(s) ==
    /\ UNCHANGED <<file_segment_map, valid_buffered_dataset, file_seq, owner, slot>>
    /\ \A t \in Servers : t # s => pc'[t] = pc[t] /\ file'[t] = file[t]
    /\ pc[s] \notin Holding /\ pc'[s] \notin Holding
    /\ pc'[s] \in Creating => file_segment_map[s][file'[s]] = None

(* While s creates the map of a file, neither table has one for it. *)
LEMMA NoMapYet ==
  ASSUME BaseInv, TableInv, NEW s \in Servers, pc[s] \in Creating
  PROVE  /\ file_segment_map[s][file[s]] = None
         /\ pc[s] # "putMap" => valid_buffered_dataset[file[s]] = None
         /\ pc[s] = "putMap" => valid_buffered_dataset[file[s]] = slot[s]
  <1>1. file[s] \in Files /\ <<s, file[s]>> \in Uses
    BY TableType DEF Creating
  <1> QED
    BY <1>1 DEF TableInv, TablesAgree, At

LEMMA StepKinds ==
  ASSUME BaseInv, TableInv, NEW s \in Servers,
         OpenStep(s) \/ PlaceStep(s) \/ CloseStep(s)
  PROVE  OtherStep(s) \/ NextSequence(s) \/ PutSlot(s) \/ PutMap(s)
  <1> USE DEF OtherStep, Goto, tables, Holding, Creating
  <1>1. ASSUME NEW f \in Files, TakeOpen(s, f) \/ TakeRead(s, f) \/ TakeClose(s, f)
        PROVE  OtherStep(s)
    BY <1>1, TableType DEF TakeOpen, TakeRead, TakeClose
  <1>2. CASE GetSlot(s)
    <2>1. /\ valid_buffered_dataset[file[s]] = None
          /\ file_segment_map[s][file[s]] = None
      BY <1>2, NoMapYet DEF GetSlot
    <2> QED
      BY <1>2, <2>1, TableType DEF GetSlot
  <1>3. CASE GetActive(s) \/ PutActive(s)
    BY <1>3, TableType DEF GetActive, PutActive
  <1>4. CASE Solve(s) \/ Prefetch(s) \/ Advertise(s)
    BY <1>4, TableType DEF Solve, Prefetch, Advertise
  <1>5. CASE GetInactive(s) \/ PutInactive(s)
    BY <1>5, TableType DEF GetInactive, PutInactive
  <1>6. CASE CheckIfFileActive(s) \/ Delete(s)
    BY <1>6, TableType DEF CheckIfFileActive, Delete
  <1> QED
    BY <1>1, <1>2, <1>3, <1>4, <1>5, <1>6 DEF OpenStep, PlaceStep, CloseStep

LEMMA TableStep ==
  ASSUME PrivateFiles, BaseInv, TableInv, NEW s \in Servers,
         OtherStep(s) \/ NextSequence(s) \/ PutSlot(s) \/ PutMap(s)
  PROVE  TableInv'
  <1> USE DEF Goto
  <1>1. CASE OtherStep(s)
    <2>1. ASSUME NEW t \in Servers, NEW f \in Files PROVE TablesAgree(t, f)'
      <3>1. TablesAgree(t, f)
        BY DEF TableInv
      <3> QED
        BY <1>1, <3>1 DEF OtherStep, TablesAgree, At, Holding, Creating
    <2> QED
      BY <1>1, <2>1 DEF OtherStep, TableInv
  <1>2. CASE NextSequence(s)
    <2>1. file_segment_map[s][file[s]] = None
      BY <1>2, NoMapYet DEF NextSequence, Creating
    <2>2. ASSUME NEW t \in Servers, NEW f \in Files PROVE TablesAgree(t, f)'
      <3>1. TablesAgree(t, f)
        BY DEF TableInv
      <3> QED
        BY <1>2, <2>1, <3>1, TableType DEF NextSequence, TablesAgree, At, Creating
    <2> QED
      BY <1>2, <2>2 DEF NextSequence, TableInv
  <1>3. CASE PutSlot(s)
    <2>1. file_segment_map[s][file[s]] = None /\ <<s, file[s]>> \in Uses
      BY <1>3, NoMapYet, TableType DEF PutSlot, Creating
    <2>2. \A f \in Files : valid_buffered_dataset'[f] =
             IF f = file[s] THEN slot[s] ELSE valid_buffered_dataset[f]
      BY <1>3, TableType DEF PutSlot
    <2>3. \A t \in Servers : <<t, file[s]>> \in Uses => t = s
      BY <2>1, TableType DEF PrivateFiles
    <2>4. ASSUME NEW t \in Servers, NEW f \in Files PROVE TablesAgree(t, f)'
      <3>1. TablesAgree(t, f)
        BY DEF TableInv
      <3> QED
        BY <1>3, <2>1, <2>2, <2>3, <3>1, TableType DEF PutSlot, TablesAgree, At, Creating
    <2> QED
      BY <1>3, <2>1, <2>2, <2>4 DEF PutSlot, TableInv
  <1>4. CASE PutMap(s)
    <2>1. valid_buffered_dataset[file[s]] = slot[s] /\ <<s, file[s]>> \in Uses
      BY <1>4, NoMapYet, TableType DEF PutMap, Creating
    <2>2. \A t \in Servers, f \in Files : file_segment_map'[t][f] =
             IF t = s /\ f = file[s] THEN slot[s] ELSE file_segment_map[t][f]
      <3>1. file[s] \in Files /\ slot[s] \in Slots \cup {None}
        BY TableType
      <3>2. file_segment_map \in [Servers -> [Files -> Slots \cup {None}]]
        BY TableType
      <3> QED
        BY <1>4, <3>1, <3>2, Update2 DEF PutMap
    <2>3. \A t \in Servers : t # s => pc'[t] = pc[t] /\ file'[t] = file[t] /\ slot'[t] = slot[t]
      BY <1>4, TableType DEF PutMap
    <2>4. pc[s] = "putMap" /\ pc'[s] = "getActive" /\ file'[s] = file[s]
          /\ UNCHANGED valid_buffered_dataset
      BY <1>4, TableType DEF PutMap
    <2>5. ASSUME NEW t \in Servers, NEW f \in Files
          PROVE  TablesAgree(t, f)'
      BY <2>1, <2>2, <2>3, <2>4 DEF TableInv, TablesAgree, At, Creating
    <2> QED
      BY <2>4, <2>5 DEF TableInv
  <1> QED
    BY <1>1, <1>2, <1>3, <1>4

LEMMA TableHolds ==
  ASSUME PrivateFiles
  PROVE  Spec => []TableInv
  <1>1. Init => TableInv
    BY DEF Init, TableInv, TablesAgree, At
  <1>2. BaseInv /\ TableInv /\ [Next]_vars => TableInv'
    <2> SUFFICES ASSUME BaseInv, TableInv, [Next]_vars PROVE TableInv'
      OBVIOUS
    <2>1. CASE UNCHANGED vars
      BY <2>1 DEF TableInv, TablesAgree, At, vars, tables
    <2> QED
      BY <2>1, StepKinds, TableStep DEF Next, AllClosed
  <1> QED
    BY <1>1, <1>2, BaseHolds, PTL DEF Spec

(* Every number that is drawn is drawn for another file. *)
LEMMA DrawnStep ==
  ASSUME PrivateFiles, BaseInv, TableInv, DrawnInv, NEW s \in Servers,
         OtherStep(s) \/ NextSequence(s) \/ PutSlot(s) \/ PutMap(s)
  PROVE  DrawnInv'
  <1> USE DEF Goto
  <1>1. CASE OtherStep(s)
    <2>1. Drawn' = Drawn
      BY <1>1 DEF OtherStep, Drawn, At
    <2> QED
      BY <1>1, <2>1 DEF OtherStep, DrawnInv
  <1>2. CASE NextSequence(s)
    <2>1. valid_buffered_dataset[file[s]] = None /\ <<s, file[s]>> \in Uses
      BY <1>2, NoMapYet, TableType DEF NextSequence, Creating
    <2>2. file[s] \notin Drawn
      <3>1. ASSUME NEW t \in Servers, At(t, file[s], Holding) PROVE FALSE
        <4>1. <<t, file[s]>> \in Uses
          BY <3>1, TableType DEF At, Holding
        <4>2. t = s
          BY <2>1, <4>1, TableType DEF PrivateFiles
        <4> QED
          BY <1>2, <3>1, <4>2 DEF NextSequence, At, Holding
      <3> QED
        BY <2>1, <3>1 DEF Drawn
    <2>3. Drawn' = Drawn \cup {file[s]}
      BY <1>2, TableType DEF NextSequence, Drawn, At, Holding
    <2>4. IsFiniteSet(Drawn)
      BY FS_Subset, EventManagerAssumption DEF Drawn
    <2>5. Cardinality(Drawn') = Cardinality(Drawn) + 1
      BY <2>2, <2>3, <2>4, FS_AddElement
    <2> QED
      BY <1>2, <2>5 DEF NextSequence, DrawnInv
  <1>3. CASE PutSlot(s)
    <2>1. Drawn' = Drawn
      BY <1>3, TableType DEF PutSlot, Drawn, At, Holding
    <2> QED
      BY <1>3, <2>1 DEF PutSlot, DrawnInv
  <1>4. CASE PutMap(s)
    <2>1. valid_buffered_dataset[file[s]] # None
      BY <1>4, NoMapYet, TableType DEF PutMap, Creating
    <2>2. Drawn' = Drawn
      BY <1>4, <2>1, TableType DEF PutMap, Drawn, At, Holding
    <2> QED
      BY <1>4, <2>2 DEF PutMap, DrawnInv
  <1> QED
    BY <1>1, <1>2, <1>3, <1>4

(* So the sequence does not wrap when there are maps for all files. *)
LEMMA DrawnHolds ==
  ASSUME PrivateFiles
  PROVE  Spec => []DrawnInv
  <1>1. Init => DrawnInv
    <2> SUFFICES ASSUME Init PROVE DrawnInv
      OBVIOUS
    <2>1. Drawn = {}
      BY DEF Init, Drawn, At, Holding
    <2> QED
      BY <2>1, FS_EmptySet DEF Init, DrawnInv
  <1>2. BaseInv /\ TableInv /\ DrawnInv /\ [Next]_vars => DrawnInv'
    <2> SUFFICES ASSUME BaseInv, TableInv, DrawnInv, [Next]_vars PROVE DrawnInv'
      OBVIOUS
    <2>1. CASE UNCHANGED vars
      BY <2>1 DEF DrawnInv, Drawn, At, vars, tables
    <2> QED
      BY <2>1, StepKinds, DrawnStep DEF Next, AllClosed
  <1> QED
    BY <1>1, <1>2, BaseHolds, TableHolds, PTL DEF Spec

LEMMA NoWrap ==
  ASSUME Cardinality(Files) <= MaxFiles, DrawnInv
  PROVE  file_seq <= MaxFiles
  <1>1. /\ Cardinality(Drawn) <= Cardinality(Files)
        /\ IsFiniteSet(Drawn)
    BY FS_Subset, EventManagerAssumption DEF Drawn
  <1>2. Cardinality(Drawn) \in Nat /\ Cardinality(Files) \in Nat
    BY <1>1, FS_CardinalityType, EventManagerAssumption
  <1> QED
    BY <1>1, <1>2, EventManagerAssumption DEF DrawnInv

(* What a server's own table has is what is registered. *)
LEMMA Registered ==
  ASSUME BaseInv, TableInv, NEW s \in Servers, NEW f \in Files,
         file_segment_map[s][f] # None
  PROVE  /\ <<s, f>> \in Uses /\ file_segment_map[s][f] \in Slots
         /\ file_segment_map[s][f] = valid_buffered_dataset[f]
  <1>1. TablesAgree(s, f)
    BY DEF TableInv
  <1>2. <<s, f>> \in Uses
    BY <1>1 DEF TablesAgree
  <1>3. ~At(s, f, {"putMap"})
    BY <1>1, <1>2 DEF TablesAgree, At, Creating
  <1> QED
    BY <1>1, <1>2, <1>3, TableType DEF TablesAgree

(* The map that s is about to put its file's entry into is nobody else's. *)
LEMMA FreshMap ==
  ASSUME BaseInv, TableInv, SequenceInv, file_seq <= MaxFiles,
         NEW s \in Servers, pc[s] = "putMap",
         NEW t \in Servers, NEW f \in Files, file_segment_map[t][f] = slot[s]
  PROVE  f = file[s] /\ t # s
  <1>1. file[s] \in Files /\ slot[s] \in Slots /\ slot[s] # None
    BY TableType
  <1>2. Holds(file[s], slot[s])
    BY DEF Holds, At, Holding
  <1>3. Holds(f, slot[s])
    BY <1>1, Registered DEF Holds
  <1>4. f = file[s]
    BY <1>1, <1>2, <1>3 DEF SequenceInv
  <1>5. file_segment_map[s][file[s]] = None
    BY NoMapYet DEF Creating
  <1> QED
    BY <1>1, <1>4, <1>5

LEMMA EntryStep ==
  ASSUME PrivateFiles, BaseInv, TableInv, SequenceInv, file_seq <= MaxFiles, EntryInv,
         NEW s \in Servers, OtherStep(s) \/ NextSequence(s) \/ PutSlot(s) \/ PutMap(s)
  PROVE  EntryInv'
  <1>1. CASE OtherStep(s) \/ NextSequence(s) \/ PutSlot(s)
    BY <1>1 DEF OtherStep, NextSequence, PutSlot, EntryInv
  <1>2. CASE PutMap(s)
    <2>1. /\ file[s] \in Files /\ slot[s] \in Slots /\ slot[s] # None
          /\ <<s, file[s]>> \in Uses /\ pc[s] = "putMap"
      BY <1>2, TableType DEF PutMap
    <2>2. \A t \in Servers, f \in Files : file_segment_map'[t][f] =
             IF t = s /\ f = file[s] THEN slot[s] ELSE file_segment_map[t][f]
      <3>1. slot[s] \in Slots \cup {None}
        BY <2>1
      <3>2. file_segment_map \in [Servers -> [Files -> Slots \cup {None}]]
        BY TableType
      <3> QED
        BY <1>2, <2>1, <3>1, <3>2, Update2 DEF PutMap
    <2>3. \A i \in Slots : owner'[i] = IF i = slot[s] THEN file[s] ELSE owner[i]
      BY <1>2, TableType DEF PutMap
    <2>4. ASSUME NEW t \in Servers, NEW f \in Files, file_segment_map[t][f] = slot[s]
          PROVE  FALSE
      <3>1. f = file[s] /\ t # s
        BY <2>1, <2>4, FreshMap
      <3>2. <<t, f>> \in Uses
        BY <2>1, <2>4, Registered
      <3> QED
        BY <2>1, <3>1, <3>2 DEF PrivateFiles
    <2>5. ASSUME NEW t \in Servers, NEW f \in Files, file_segment_map'[t][f] # None
          PROVE  owner'[file_segment_map'[t][f]] = f
      <3>1. CASE t = s /\ f = file[s]
        BY <2>1, <2>2, <2>3, <3>1
      <3>2. CASE ~(t = s /\ f = file[s])
        <4>1. /\ file_segment_map'[t][f] = file_segment_map[t][f]
              /\ file_segment_map[t][f] \in Slots /\ file_segment_map[t][f] # slot[s]
          BY <2>2, <2>4, <2>5, <3>2, Registered
        <4> QED
          BY <2>3, <2>5, <4>1 DEF EntryInv
      <3> QED
        BY <3>1, <3>2
    <2>6. ASSUME NEW i \in Slots, owner'[i] # None
          PROVE  \E t \in Servers : file_segment_map'[t][owner'[i]] = i
      <3>1. CASE i = slot[s]
        BY <2>1, <2>2, <2>3, <3>1
      <3>2. CASE i # slot[s]
        <4>1. owner'[i] = owner[i] /\ owner[i] \in Files
          BY <2>3, <2>6, <3>2, TableType
        <4>2. PICK t \in Servers : file_segment_map[t][owner[i]] = i
          BY <2>6, <4>1 DEF EntryInv
        <4>3. ~(t = s /\ owner[i] = file[s])
          <5>1. file_segment_map[s][file[s]] = None
            BY <2>1, NoMapYet DEF Creating
          <5>2. i # None
            BY EventManagerAssumption
          <5> QED
            BY <4>2, <5>1, <5>2
        <4> QED
          BY <2>2, <4>1, <4>2, <4>3
      <3> QED
        BY <3>1, <3>2
    <2> QED
      BY <2>5, <2>6 DEF EntryInv
  <1> QED
    BY <1>1, <1>2

LEMMA EntryHolds ==
  ASSUME PrivateFiles, Cardinality(Files) <= MaxFiles
  PROVE  Spec => []EntryInv
  <1>1. Init => EntryInv
    BY DEF Init, EntryInv
  <1>2. BaseInv /\ TableInv /\ SequenceInv /\ DrawnInv /\ EntryInv /\ [Next]_vars => EntryInv'
    <2> SUFFICES ASSUME BaseInv, TableInv, SequenceInv, DrawnInv, EntryInv, [Next]_vars
                 PROVE  EntryInv'
      OBVIOUS
    <2>1. CASE UNCHANGED vars
      BY <2>1 DEF EntryInv, vars, tables
    <2> QED
      BY <2>1, StepKinds, EntryStep, NoWrap DEF Next, AllClosed
  <1> QED
    BY <1>1, <1>2, BaseHolds, TableHolds, SequenceHolds, DrawnHolds, PTL DEF Spec

(* When the clients of a file are all on one server, and there are as many  *)
(* maps as files, the map a server keeps in file_segment_map for a file is  *)
(* the registered one and holds that file's entry: CreateOffsetMap and      *)
(* Update leave the three tables in agreement.                              *)
THEOREM MapIsTheFiles ==
  ASSUME PrivateFiles, Cardinality(Files) <= MaxFiles
  PROVE  Spec => []OneMapPerFile
  <1>1. BaseInv /\ TableInv /\ EntryInv => OneMapPerFile
    BY Registered DEF OneMapPerFile, EntryInv
  <1> QED
    BY <1>1, BaseHolds, TableHolds, EntryHolds, PTL

----------------------------------------------------------------------------
(* Where the data of a file is. *)

LEMMA SameMap ==
  ASSUME PrivateFiles, BaseInv, TableInv, EntryInv,
         NEW s \in Servers, NEW t \in Servers, NEW f \in Files, NEW g \in Files,
         file_segment_map[s][f] # None, file_segment_map[s][f] = file_segment_map[t][g]
  PROVE  s = t /\ f = g
  <1>1. f = g
    BY DEF EntryInv
  <1>2. <<s, f>> \in Uses /\ <<t, g>> \in Uses
    BY Registered
  <1> QED
    BY <1>1, <1>2 DEF PrivateFiles

LEMMA BufferType ==
  ASSUME BaseInv
  PROVE  /\ pc \in [Servers -> Steps] /\ file \in [Servers -> Files]
         /\ \A s \in Servers : file[s] \in Files
         /\ mapped \in [Slots -> Buffer \cup {InFile}]
         /\ present \in [Slots -> SUBSET Buffer]
         /\ move \in [Servers -> [source : Buffer \cup {InFile},
                                  destination : Buffer \cup {InFile}]]
  BY DEF BaseInv, TypeOK

(* A step of s that touches neither maps nor buffers. *)
LEMMA BufferFrame ==
  ASSUME BufferInv, NEW s \in Servers,
         UNCHANGED <<file_segment_map, owner, mapped, present>>,
         \A t \in Servers : t # s => pc'[t] = pc[t] /\ file'[t] = file[t] /\ move'[t] = move[t],
         pc'[s] # "advertise"
  PROVE  BufferInv'
  <1>1. \A i \in Slots : owner'[i] = None => mapped'[i] = InFile
    BY DEF BufferInv
  <1>2. ASSUME NEW t \in Servers, pc'[t] = "advertise", move'[t].source = InFile
        PROVE  move'[t].destination \in present'[Map(t)']
    BY <1>2 DEF BufferInv, Map
  <1> QED
    BY <1>1, <1>2 DEF BufferInv

LEMMA BufferOpen ==
  ASSUME BaseInv, TableInv, BufferInv, NEW s \in Servers, OpenStep(s)
  PROVE  BufferInv'
  <1> USE DEF Goto, tables
  <1>1. ASSUME NEW f \in Files, TakeOpen(s, f) PROVE BufferInv'
    BY <1>1, BufferFrame, BufferType DEF TakeOpen
  <1>2. CASE GetSlot(s)
    <2>1. valid_buffered_dataset[file[s]] = None
      BY <1>2, NoMapYet DEF GetSlot, Creating
    <2> QED
      BY <1>2, <2>1, BufferFrame, BufferType DEF GetSlot
  <1>3. CASE NextSequence(s)
    BY <1>3, BufferFrame, BufferType DEF NextSequence
  <1>4. CASE PutSlot(s)
    BY <1>4, BufferFrame, BufferType DEF PutSlot
  <1>5. CASE PutMap(s)
    <2>1. /\ file[s] \in Files /\ slot[s] \in Slots /\ file[s] # None
      BY <1>5, TableType, EventManagerAssumption DEF PutMap
    <2>2. \A t \in Servers, f \in Files : file_segment_map'[t][f] =
             IF t = s /\ f = file[s] THEN slot[s] ELSE file_segment_map[t][f]
      <3>1. slot[s] \in Slots \cup {None}
        BY <2>1
      <3>2. file_segment_map \in [Servers -> [Files -> Slots \cup {None}]]
        BY TableType
      <3> QED
        BY <1>5, <2>1, <3>1, <3>2, Update2 DEF PutMap
    <2>3. \A i \in Slots : /\ owner'[i] = IF i = slot[s] THEN file[s] ELSE owner[i]
                           /\ mapped'[i] = IF i = slot[s] THEN InFile ELSE mapped[i]
      BY <1>5, TableType, BufferType DEF PutMap
    <2>4. /\ \A t \in Servers : t # s => pc'[t] = pc[t]
          /\ pc'[s] = "getActive" /\ UNCHANGED <<file, move, present>>
      BY <1>5, BufferType DEF PutMap
    <2>5. \A i \in Slots : owner'[i] = None => mapped'[i] = InFile
      BY <2>1, <2>3 DEF BufferInv
    <2>6. ASSUME NEW t \in Servers, pc'[t] = "advertise", move'[t].source = InFile
          PROVE  move'[t].destination \in present'[Map(t)']
      <3>1. t # s
        BY <2>4, <2>6
      <3>2. Map(t)' = Map(t)
        BY <2>2, <2>4, <3>1, BufferType DEF Map
      <3> QED
        BY <2>4, <2>6, <3>1, <3>2 DEF BufferInv
    <2> QED
      BY <2>5, <2>6 DEF BufferInv
  <1>6. CASE GetActive(s)
    BY <1>6, BufferFrame, BufferType DEF GetActive
  <1>7. CASE PutActive(s)
    BY <1>7, BufferFrame, BufferType DEF PutActive
  <1> QED
    BY <1>1, <1>2, <1>3, <1>4, <1>5, <1>6, <1>7 DEF OpenStep

(* A step of s on the buffers of its own file leaves those of another       *)
(* server's move alone.                                                     *)
LEMMA OtherBuffers ==
  ASSUME PrivateFiles, BaseInv, TableInv, EntryInv, BufferInv, NEW s \in Servers,
         \A i \in Slots : i # Map(s) => present'[i] = present[i],
         UNCHANGED <<file, move, file_segment_map>>,
         NEW t \in Servers, t # s, pc[t] = "advertise", move[t].source = InFile
  PROVE  move'[t].destination \in present'[Map(t)']
  <1>1. file[t] \in Files /\ file[s] \in Files /\ Map(t) \in Slots /\ Map(t) # None
    BY MapKnown, BufferType, EventManagerAssumption
  <1>2. Map(t) # Map(s)
    BY <1>1, SameMap DEF Map
  <1>3. move[t].destination \in present[Map(t)] /\ Map(t)' = Map(t)
    BY DEF BufferInv, Map
  <1> QED
    BY <1>1, <1>2, <1>3

LEMMA BufferPlace ==
  ASSUME PrivateFiles,
         BaseInv, TableInv, EntryInv, BufferInv, NEW s \in Servers, PlaceStep(s)
  PROVE  BufferInv'
  <1> USE DEF Goto, tables
  <1>1. ASSUME NEW f \in Files, TakeRead(s, f) PROVE BufferInv'
    BY <1>1, BufferFrame, BufferType DEF TakeRead
  <1>2. CASE Solve(s)
    <2>1. /\ pc'[s] # "advertise"
          /\ \A t \in Servers : t # s => pc'[t] = pc[t] /\ move'[t] = move[t]
      BY <1>2, BufferType DEF Solve
    <2> QED
      BY <1>2, <2>1, BufferFrame DEF Solve
  <1>3. CASE Prefetch(s)
    <2>1. Map(s) \in Slots /\ move[s].destination \in Buffer
      BY <1>3, MapKnown DEF Prefetch, BaseInv, MoveInv
    <2>2. /\ present'[Map(s)] =
                Moved(present[Map(s)], move[s].source, move[s].destination)
          /\ \A i \in Slots : i # Map(s) => present'[i] = present[i]
      BY <1>3, <2>1, BufferType DEF Prefetch
    <2>3. /\ \A t \in Servers : t # s => pc'[t] = pc[t]
          /\ UNCHANGED <<file, move, file_segment_map, owner, mapped>>
      BY <1>3, BufferType DEF Prefetch
    <2>4. ASSUME NEW t \in Servers, pc'[t] = "advertise", move'[t].source = InFile
          PROVE  move'[t].destination \in present'[Map(t)']
      <3>1. CASE t = s
        <4>1. present[Map(s)] \subseteq Buffer
          BY <2>1, BufferType
        <4>2. move[s].destination \in present'[Map(s)]
          BY <2>1, <2>2, <2>3, <2>4, <3>1, <4>1, MovedFromFile
        <4> QED
          BY <2>3, <3>1, <4>2 DEF Map
      <3>2. CASE t # s
        BY <2>2, <2>3, <2>4, <3>2, OtherBuffers
      <3> QED
        BY <3>1, <3>2
    <2>5. \A i \in Slots : owner'[i] = None => mapped'[i] = InFile
      BY <2>3 DEF BufferInv
    <2> QED
      BY <2>4, <2>5 DEF BufferInv
  <1>4. CASE Advertise(s)
    <2>1. Map(s) \in Slots /\ file[s] \in Files /\ Map(s) # None /\ file[s] # None
      BY <1>4, MapKnown, BufferType, EventManagerAssumption DEF Advertise
    <2>2. owner[Map(s)] = file[s]
      BY <2>1 DEF EntryInv, Map
    <2>3. \A i \in Slots : i # Map(s) => mapped'[i] = mapped[i]
      BY <1>4, <2>1, BufferType DEF Advertise
    <2>4. /\ \A t \in Servers : t # s => pc'[t] = pc[t] /\ move'[t] = move[t]
          /\ pc'[s] = "idle"
          /\ UNCHANGED <<file, file_segment_map, owner, present>>
      BY <1>4, BufferType DEF Advertise
    <2>5. \A i \in Slots : owner'[i] = None => mapped'[i] = InFile
      BY <2>1, <2>2, <2>3, <2>4 DEF BufferInv
    <2>6. ASSUME NEW t \in Servers, pc'[t] = "advertise", move'[t].source = InFile
          PROVE  move'[t].destination \in present'[Map(t)']
      BY <2>4, <2>6 DEF BufferInv, Map
    <2> QED
      BY <2>5, <2>6 DEF BufferInv
  <1> QED
    BY <1>1, <1>2, <1>3, <1>4 DEF PlaceStep

LEMMA BufferClose ==
  ASSUME PrivateFiles,
         BaseInv, TableInv, EntryInv, BufferInv, NEW s \in Servers, CloseStep(s)
  PROVE  BufferInv'
  <1> USE DEF Goto, tables
  <1>1. ASSUME NEW f \in Files, TakeClose(s, f) PROVE BufferInv'
    BY <1>1, BufferFrame, BufferType DEF TakeClose
  <1>2. CASE GetInactive(s)
    BY <1>2, BufferFrame, BufferType DEF GetInactive
  <1>3. CASE PutInactive(s)
    BY <1>3, BufferFrame, BufferType DEF PutInactive
  <1>4. CASE CheckIfFileActive(s)
    BY <1>4, BufferFrame, BufferType DEF CheckIfFileActive
  <1>5. CASE Delete(s)
    <2>1. \A i \in Slots : i # Map(s) => present'[i] = present[i]
      BY <1>5, BufferType DEF Delete
    <2>2. /\ \A t \in Servers : t # s => pc'[t] = pc[t]
          /\ pc'[s] = "idle"
          /\ UNCHANGED <<file, move, file_segment_map, owner, mapped>>
      BY <1>5, BufferType DEF Delete
    <2>3. ASSUME NEW t \in Servers, pc'[t] = "advertise", move'[t].source = InFile
          PROVE  move'[t].destination \in present'[Map(t)']
      <3>1. t # s
        BY <2>2, <2>3
      <3> QED
        BY <2>1, <2>2, <2>3, <3>1, OtherBuffers
    <2>4. \A i \in Slots : owner'[i] = None => mapped'[i] = InFile
      BY <2>2 DEF BufferInv
    <2> QED
      BY <2>3, <2>4 DEF BufferInv
  <1> QED
    BY <1>1, <1>2, <1>3, <1>4, <1>5 DEF CloseStep

LEMMA BufferHolds ==
  ASSUME PrivateFiles, Cardinality(Files) <= MaxFiles
  PROVE  Spec => []BufferInv
  <1>1. Init => BufferInv
    BY DEF Init, BufferInv
  <1>2. BaseInv /\ TableInv /\ EntryInv /\ BufferInv /\ [Next]_vars => BufferInv'
    <2> SUFFICES ASSUME BaseInv, TableInv, EntryInv, BufferInv, [Next]_vars
                 PROVE  BufferInv'
      OBVIOUS
    <2>1. CASE UNCHANGED vars
      BY <2>1 DEF BufferInv, Map, vars, tables
    <2> QED
      BY <2>1, BufferOpen, BufferPlace, BufferClose DEF Next, AllClosed
  <1> QED
    BY <1>1, <1>2, BaseHolds, TableHolds, EntryHolds, PTL DEF Spec

----------------------------------------------------------------------------
(* When the data that a map names goes away. *)

(* Map(s) is registered for the file of s and for no other. *)
LEMMA OwnMap ==
  ASSUME BaseInv, TableInv, SequenceInv, file_seq <= MaxFiles,
         NEW s \in Servers, Map(s) # None
  PROVE  /\ file[s] \in Files /\ Map(s) \in Slots
         /\ \A f \in Files : valid_buffered_dataset[f] = Map(s) => f = file[s]
  <1>1. file[s] \in Files
    BY BufferType
  <1>2. Map(s) \in Slots /\ Map(s) = valid_buffered_dataset[file[s]]
    BY <1>1, Registered DEF Map
  <1>3. ASSUME NEW f \in Files, valid_buffered_dataset[f] = Map(s)
        PROVE  f = file[s]
    <2>1. Holds(f, Map(s)) /\ Holds(file[s], Map(s))
      BY <1>2, <1>3 DEF Holds
    <2> QED
      BY <1>1, <1>2, <2>1 DEF SequenceInv
  <1> QED
    BY <1>1, <1>2, <1>3

(* A map that is registered has the file in the last layer. *)
LEMMA FreshSlotInFile ==
  ASSUME PrivateFiles, BaseInv, TableInv, SequenceInv, file_seq <= MaxFiles,
         EntryInv, BufferInv, NEW s \in Servers, pc[s] = "putSlot"
  PROVE  mapped[slot[s]] = InFile
  <1>1. file[s] \in Files /\ slot[s] \in Slots /\ slot[s] # None
    BY TableType
  <1>2. valid_buffered_dataset[file[s]] = None
    BY NoMapYet DEF Creating
  <1>3. ASSUME owner[slot[s]] # None PROVE FALSE
    <2>1. owner[slot[s]] \in Files
      BY <1>1, <1>3, TableType
    <2>2. PICK t \in Servers : file_segment_map[t][owner[slot[s]]] = slot[s]
      BY <1>1, <1>3 DEF EntryInv
    <2>3. valid_buffered_dataset[owner[slot[s]]] = slot[s]
      BY <1>1, <2>1, <2>2, Registered
    <2>4. Holds(owner[slot[s]], slot[s])
      BY <2>3 DEF Holds
    <2>5. Holds(file[s], slot[s])
      BY DEF Holds, At, Holding
    <2>6. owner[slot[s]] = file[s]
      BY <1>1, <2>1, <2>4, <2>5 DEF SequenceInv
    <2> QED
      BY <1>1, <1>2, <2>3, <2>6
  <1> QED
    BY <1>1, <1>3 DEF BufferInv

(* What is in the map of f after a step, if the map is still the same. *)
LEMMA StaysReadable ==
  ASSUME NEW f \in Files, Readable(f),
         valid_buffered_dataset'[f] = valid_buffered_dataset[f],
         valid_buffered_dataset[f] # None =>
             \/ mapped'[valid_buffered_dataset[f]] = InFile
             \/ /\ mapped'[valid_buffered_dataset[f]] = mapped[valid_buffered_dataset[f]]
                /\ present[valid_buffered_dataset[f]] \subseteq
                       present'[valid_buffered_dataset[f]]
  PROVE  Readable(f)'
  BY DEF Readable

(* How the data of f may go away in a step. *)
GoesAway(f) ==
    \E s \in Servers :
        /\ file[s] = f
        /\ \/ pc[s] = "delete" /\ OpenHandles(f) = {}
           \/ pc[s] = "prefetch" /\ move[s].source # InFile

LEMMA ReadableStep ==
  ASSUME PrivateFiles, BaseInv, TableInv, SequenceInv, file_seq <= MaxFiles,
         EntryInv, BufferInv, NoDeleteWhileOpen,
         NEW s \in Servers, OpenStep(s) \/ PlaceStep(s) \/ CloseStep(s),
         NEW f \in Files, Readable(f)
  PROVE  Readable(f)' \/ GoesAway(f)
  <1> USE DEF Goto, tables
  <1>a. /\ valid_buffered_dataset \in [Files -> Slots \cup {None}]
        /\ valid_buffered_dataset[f] # None => valid_buffered_dataset[f] \in Slots
    BY TableType
  <1>1. ASSUME UNCHANGED <<valid_buffered_dataset, mapped, present>>
        PROVE  Readable(f)'
    BY <1>1 DEF Readable
  <1>2. CASE PutSlot(s)
    <2>1. file[s] \in Files /\ mapped[slot[s]] = InFile
      BY <1>2, FreshSlotInFile, TableType DEF PutSlot
    <2>2. CASE f = file[s]
      BY <1>2, <1>a, <2>1, <2>2 DEF PutSlot, Readable
    <2>3. CASE f # file[s]
      BY <1>2, <1>a, <2>3, StaysReadable DEF PutSlot
    <2> QED
      BY <2>2, <2>3
  <1>3. CASE PutMap(s)
    <2>1. \A i \in Slots : mapped'[i] = IF i = slot[s] THEN InFile ELSE mapped[i]
      BY <1>3, TableType, BufferType DEF PutMap
    <2> QED
      BY <1>3, <1>a, <2>1, StaysReadable DEF PutMap
  <1>4. CASE Prefetch(s)
    <2>1. Map(s) \in Slots /\ Map(s) # None /\ move[s].destination \in Buffer
      BY <1>4, MapKnown, EventManagerAssumption DEF Prefetch, BaseInv, MoveInv
    <2>2. /\ present'[Map(s)] =
                Moved(present[Map(s)], move[s].source, move[s].destination)
          /\ \A i \in Slots : i # Map(s) => present'[i] = present[i]
      BY <1>4, <2>1, BufferType DEF Prefetch
    <2>3. pc[s] = "prefetch" /\ UNCHANGED <<valid_buffered_dataset, mapped>>
      BY <1>4 DEF Prefetch
    <2>4. CASE valid_buffered_dataset[f] # Map(s)
      BY <1>a, <2>2, <2>3, <2>4, StaysReadable
    <2>5. CASE valid_buffered_dataset[f] = Map(s) /\ move[s].source = InFile
      <3>1. present[Map(s)] \subseteq Buffer
        BY <2>1, BufferType
      <3>2. present[Map(s)] \subseteq present'[Map(s)]
        BY <2>1, <2>2, <2>5, <3>1, MovedFromFile
      <3> QED
        BY <2>3, <2>5, <3>2, StaysReadable
    <2>6. CASE valid_buffered_dataset[f] = Map(s) /\ move[s].source # InFile
      <3>1. file[s] = f
        BY <2>1, <2>6, OwnMap
      <3> QED
        BY <2>3, <2>6, <3>1 DEF GoesAway
    <2> QED
      BY <2>4, <2>5, <2>6
  <1>5. CASE Advertise(s)
    <2>1. Map(s) \in Slots /\ Map(s) # None /\ pc[s] = "advertise"
      BY <1>5, MapKnown, EventManagerAssumption DEF Advertise
    <2>2. UNCHANGED <<valid_buffered_dataset, present>>
      BY <1>5 DEF Advertise
    <2>3. CASE move[s].source # InFile
      BY <1>1, <1>5, <2>2, <2>3 DEF Advertise
    <2>4. CASE move[s].source = InFile
      <3>1. \A i \in Slots : mapped'[i] =
               IF i = Map(s) THEN move[s].destination ELSE mapped[i]
        BY <1>5, <2>1, <2>4, BufferType DEF Advertise
      <3>2. move[s].destination \in present[Map(s)]
        BY <2>1, <2>4 DEF BufferInv
      <3>3. CASE valid_buffered_dataset[f] = Map(s)
        BY <2>1, <2>2, <3>1, <3>2, <3>3 DEF Readable
      <3>4. CASE valid_buffered_dataset[f] # Map(s)
        BY <1>a, <2>2, <3>1, <3>4, StaysReadable
      <3> QED
        BY <3>3, <3>4
    <2> QED
      BY <2>3, <2>4
  <1>6. CASE Delete(s)
    <2>1. pc[s] = "delete" /\ UNCHANGED <<valid_buffered_dataset, mapped>>
      BY <1>6 DEF Delete
    <2>2. \A i \in Slots : i # Map(s) => present'[i] = present[i]
      BY <1>6, BufferType DEF Delete
    <2>3. CASE valid_buffered_dataset[f] # Map(s)
      BY <1>a, <2>1, <2>2, <2>3, StaysReadable
    <2>4. CASE valid_buffered_dataset[f] = Map(s) /\ Map(s) = None
      BY <2>1, <2>4 DEF Readable
    <2>5. CASE valid_buffered_dataset[f] = Map(s) /\ Map(s) # None
      <3>1. file[s] = f
        BY <2>5, OwnMap
      <3>2. OpenHandles(f) = {}
        BY <2>1, <3>1 DEF NoDeleteWhileOpen
      <3> QED
        BY <2>1, <3>1, <3>2 DEF GoesAway
    <2> QED
      BY <2>3, <2>4, <2>5
  <1>7. CASE \E g \in Files : TakeOpen(s, g) \/ TakeRead(s, g) \/ TakeClose(s, g)
    BY <1>1, <1>7 DEF TakeOpen, TakeRead, TakeClose
  <1>8. CASE GetSlot(s) \/ NextSequence(s) \/ GetActive(s) \/ PutActive(s)
    BY <1>1, <1>8 DEF GetSlot, NextSequence, GetActive, PutActive
  <1>9. CASE Solve(s) \/ GetInactive(s) \/ PutInactive(s) \/ CheckIfFileActive(s)
    BY <1>1, <1>9 DEF Solve, GetInactive, PutInactive, CheckIfFileActive
  <1> QED
    BY <1>2, <1>3, <1>4, <1>5, <1>6, <1>7, <1>8, <1>9 DEF OpenStep, PlaceStep, CloseStep

(* With any number of layers, when the clients of a file are all on one     *)
(* server, there are as many maps as files and the count does not wrap,     *)
(* data that the map names goes away only when the last handle is closed or *)
(* when its own server moves the buffer further up: handle copies the data  *)
(* (Prefetch) before the map names it (UpdateOnMove), no other file's       *)
(* events touch it, and deletion waits for the last close.                  *)
THEOREM NamedDataIsKept ==
  ASSUME PrivateFiles, Cardinality(Files) <= MaxFiles, MaxOpens < UInt32Size
  PROVE  Spec => NamedDataStays
  <1> DEFINE Step == \A f \in Files : Readable(f) /\ ~Readable(f)' => GoesAway(f)
  <1>1. BaseInv /\ TableInv /\ SequenceInv /\ DrawnInv /\ EntryInv /\ BufferInv
          /\ NoDeleteWhileOpen /\ [Next]_vars => [Step]_vars
    <2> SUFFICES ASSUME BaseInv, TableInv, SequenceInv, DrawnInv, EntryInv, BufferInv,
                        NoDeleteWhileOpen, Next,
                        NEW f \in Files, Readable(f), ~Readable(f)'
                 PROVE  GoesAway(f)
      OBVIOUS
    <2>1. file_seq <= MaxFiles
      BY NoWrap
    <2>2. CASE AllClosed
      BY <2>2 DEF AllClosed, vars, tables, Readable
    <2>3. ASSUME NEW s \in Servers, OpenStep(s) \/ PlaceStep(s) \/ CloseStep(s)
          PROVE  GoesAway(f)
      BY <2>1, <2>3, ReadableStep
    <2> QED
      BY <2>2, <2>3 DEF Next
  <1>2. [][Step]_vars => NamedDataStays
    BY DEF NamedDataStays, GoesAway
  <1> HIDE DEF Step
  <1> QED
    BY <1>1, <1>2, BaseHolds, TableHolds, SequenceHolds, DrawnHolds, EntryHolds,
       BufferHolds, DeletesOnlyClosed, PTL DEF Spec
=============================================================================
