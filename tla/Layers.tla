------------------------------- MODULE Layers -------------------------------
(***************************************************************************)
(* The layers of the storage hierarchy: from the -l option, or the default *)
(* of parse_opts (common/util.h), to the list that BuildLayers links       *)
(* (common/configuration_manager.h) and Layer(id) searches                 *)
(* (common/data_structure.h).  A text is a sequence of characters; numbers *)
(* that atof reads stay the text they are, atoi reads one digit.           *)
(***************************************************************************)
EXTENDS Integers, Sequences, FiniteSets

SeqsExt == INSTANCE SequencesExt

CONSTANT UInt8Size     \* the number of values of uint8_t

ASSUME UInt8Assumption == UInt8Size \in Nat \ {0}

----------------------------------------------------------------------------
(* char** str_split(char* a_str, const char a_delim) *)

(* Where the pieces without delimiter begin, and where one ends. *)
Inside(text, delim, i) == i \in 1 .. Len(text) /\ text[i] # delim

Starts(text, delim) ==
    {i \in 1 .. Len(text) : Inside(text, delim, i) /\ ~Inside(text, delim, i - 1)}

EndOf(text, delim, i) ==
    CHOOSE j \in i .. Len(text) :
        ~Inside(text, delim, j + 1) /\ \A k \in i .. j : Inside(text, delim, k)

(* The n-th smallest of a set of numbers. *)
Nth(S, n) == CHOOSE i \in S : Cardinality({j \in S : j <= i}) = n

(* What strtok cuts a text into: the longest pieces without delimiter. *)
Tokens(text, delim) ==
    [n \in 1 .. Cardinality(Starts(text, delim)) |->
        LET i == Nth(Starts(text, delim), n) IN SubSeq(text, i, EndOf(text, delim, i))]

\* Mutant of Count: a text that ends in a delimiter is counted as any other.
CountTrailing(text, delim) ==
    Cardinality({i \in 1 .. Len(text) : text[i] = delim}) + 2

(* The size of the array: delimiters, one for a last piece, one for NULL.   *)
(* The empty text has no delimiter to be the last character.                *)
Count(text, delim) ==
    Cardinality({i \in 1 .. Len(text) : text[i] = delim})
        + (IF text # <<>> /\ text[Len(text)] = delim THEN 0 ELSE 1) + 1

(* assert(idx == count - 1) *)
SplitAsserts(text, delim) == Len(Tokens(text, delim)) = Count(text, delim) - 1

----------------------------------------------------------------------------
(* parse_opts *)

Numerals == <<"0", "1", "2", "3", "4", "5", "6", "7", "8", "9">>

Atoi(token) ==
    IF \E d \in 0 .. 9 : Numerals[d + 1] = token[1]
    THEN CHOOSE d \in 0 .. 9 : Numerals[d + 1] = token[1] ELSE 0

\* Mutant of LayerInfos: the fields are taken one layer too early.
LayerInfosOffByOne(layers, isLocal) ==
    [i \in 1 .. Atoi(layers[1]) |->
        LET field == Tokens(layers[i], "_")
            Field(n) == IF n <= Len(field) THEN field[n] ELSE <<"0">>
        IN  [capacity |-> Field(1), bandwidth |-> Field(2),
             is_memory |-> Atoi(Field(3)) # 0, mount_point |-> Field(4),
             direct_io |-> Atoi(Field(5)) # 0, is_local |-> isLocal[i]]]

LayerInfos(layers, isLocal) ==
    [i \in 1 .. Atoi(layers[1]) |->
        LET field == Tokens(layers[i + 1], "_")
        IN  [capacity |-> field[1], bandwidth |-> field[2],
             is_memory |-> Atoi(field[3]) # 0, mount_point |-> field[4],
             direct_io |-> Atoi(field[5]) # 0, is_local |-> isLocal[i]]]

(* The option -l.  The array comes from malloc and is_local is not set, so  *)
(* the result is one of several.                                            *)
LayerOption(text) ==
    LET layers == Tokens(text, "#")
    IN  {LayerInfos(layers, isLocal) :
            isLocal \in [1 .. Atoi(layers[1]) -> BOOLEAN]}

\* Mutant of DefaultShare: the burst buffer gets twice its share.
DefaultShareDouble(io_size_mb) ==
    <<(4 * io_size_mb) \div 16, (4 * io_size_mb) \div 16,
      (16 * io_size_mb) \div 16, io_size_mb>>

(* The capacities without -l, in the integers of size_t. *)
DefaultShare(io_size_mb) ==
    <<(4 * io_size_mb) \div 16, (4 * io_size_mb) \div 16,
      (8 * io_size_mb) \div 16, io_size_mb>>

(* The four layers without -l: ramfs, nvme, bb, pfs.  direct_io is not set. *)
DefaultLayers(io_size_mb) ==
    {[i \in 1 .. 4 |->
        [capacity    |-> DefaultShare(io_size_mb)[i],
         bandwidth   |-> <<80000, 2000, 400, 100>>[i],
         is_memory   |-> i = 1,
         is_local    |-> i <= 2,
         mount_point |-> <<"ramfs", "nvme", "bb", "pfs">>[i],
         direct_io   |-> directIo[i]]] : directIo \in [1 .. 4 -> BOOLEAN]}

----------------------------------------------------------------------------
(* BuildLayers and Layer(uint8_t).  A pointer is a position of the list, or *)
(* Null.                                                                    *)

Null == 0

ClientType(info) ==
    IF info.is_memory THEN "SIMPLE_MEMORY"
    ELSE IF info.is_local THEN "LOCAL_POSIX_FILE" ELSE "SHARED_POSIX_FILE"

NewLayer(list, info) ==
    [id_            |-> (Len(list) + 1) % UInt8Size,
     capacity_mb_   |-> info.capacity,
     layer_loc      |-> info.mount_point,
     bandwidth_mbps_ |-> info.bandwidth,
     io_client_type |-> ClientType(info),
     direct_io      |-> info.direct_io,
     previous       |-> Len(list),        \* Null for the first
     next           |-> Null]

\* Mutant of LinkLayer: the link forward is forgotten.
LinkLayerBack(list, info) == Append(list, NewLayer(list, info))

(* One turn of the loop: the new layer, and previous_layer->next. *)
LinkLayer(list, info) ==
    Append([i \in DOMAIN list |->
               IF i = Len(list) THEN [list[i] EXCEPT !.next = i + 1] ELSE list[i]],
           NewLayer(list, info))

BuildLayers(infos) == SeqsExt!FoldLeft(LinkLayer, <<>>, infos)

FIRST(list) == IF list = <<>> THEN Null ELSE 1

LAST(list) == Len(list)

(* Layer(id): the first layer with that id on the way from FIRST along next. *)
(* direct_io is not among the fields it copies, so the new object holds any  *)
(* value there; without such a layer the code sets nothing at all, which no  *)
(* caller meets.                                                             *)
LayerById(id, list) ==
    LET Walk[i \in 0 .. Len(list)] ==
            IF i = Null \/ list[i].id_ = id THEN i ELSE Walk[list[i].next]
        found == {Walk[FIRST(list)]} \ {Null}
    IN  {[list[i] EXCEPT !.direct_io = d] : i \in found, d \in BOOLEAN}

----------------------------------------------------------------------------
(* What is promised of these. *)

(* A text in which every field but the last is known not to be empty. *)
FieldsNotEmpty(text, delim) ==
    /\ text # <<>>
    /\ text[1] # delim
    /\ \A i \in 1 .. Len(text) - 1 : text[i] # delim \/ text[i + 1] # delim

(* The fields with delimiters between them again. *)
Joined(tokens, delim) ==
    LET Join[n \in 0 .. Len(tokens)] ==
            IF n = 0 THEN <<>>
            ELSE IF n = 1 THEN tokens[1] ELSE Join[n - 1] \o <<delim>> \o tokens[n]
    IN  Join[Len(tokens)]

(***************************************************************************)
(* str_split never writes past the array it has counted for, its final     *)
(* assertion holds for exactly the texts without an empty field (a         *)
(* delimiter at the end is allowed), and for those the pieces are the text *)
(* again, with the delimiters between them.                                *)
(***************************************************************************)
SplitExactFor(text, delim) ==
    /\ Len(Tokens(text, delim)) < Count(text, delim)
    /\ SplitAsserts(text, delim) <=> FieldsNotEmpty(text, delim)
    /\ FieldsNotEmpty(text, delim) =>
          \E end \in {<<>>, <<delim>>} :
              Joined(Tokens(text, delim), delim) \o end = text

(* The text of an option -l with these layers, five fields each. *)
OptionText(fields) ==
    Joined(<<<<Numerals[Len(fields) + 1]>>>>
               \o [i \in 1 .. Len(fields) |-> Joined(fields[i], "_")], "#")

(***************************************************************************)
(* What -l says, parse_opts reads: the layers in their order, each field   *)
(* in its place, whatever malloc left in is_local; a memory layer is       *)
(* served by the memory client in any case.                                *)
(***************************************************************************)
OptionReadBackFor(fields) ==
    \A infos \in LayerOption(OptionText(fields)) :
        LET list == BuildLayers(infos)
        IN  /\ Len(list) = Len(fields)
            /\ \A i \in DOMAIN list :
                  /\ list[i].capacity_mb_ = fields[i][1]
                  /\ list[i].bandwidth_mbps_ = fields[i][2]
                  /\ (list[i].io_client_type = "SIMPLE_MEMORY") <=> (fields[i][3] = <<"1">>)
                  /\ list[i].layer_loc = fields[i][4]
                  /\ list[i].direct_io <=> (fields[i][5] = <<"1">>)

(***************************************************************************)
(* The list is linked both ways: from FIRST along next, and from LAST      *)
(* along previous, every layer is met once, in the order of the option,    *)
(* and the two links are inverse to each other.                            *)
(***************************************************************************)
LinkedBothWays(list) ==
    /\ list # <<>> =>
          /\ list[FIRST(list)].previous = Null
          /\ list[LAST(list)].next = Null
    /\ \A i, j \in DOMAIN list : list[i].next = j <=> list[j].previous = i
    /\ \A i \in DOMAIN list : i # LAST(list) => list[i].next = i + 1

(***************************************************************************)
(* The default hierarchy is one: going down, layers are slower and not     *)
(* smaller, and the layers above the last hold together no more than it.   *)
(***************************************************************************)
DefaultOrderedFor(io_size_mb) ==
    \A infos \in DefaultLayers(io_size_mb) :
        LET list == BuildLayers(infos)
        IN  /\ \A i \in 1 .. Len(list) - 1 :
                  /\ list[i].bandwidth_mbps_ > list[i + 1].bandwidth_mbps_
                  /\ list[i].capacity_mb_ <= list[i + 1].capacity_mb_
            /\ list[1].capacity_mb_ + list[2].capacity_mb_ + list[3].capacity_mb_
                  <= list[4].capacity_mb_
=============================================================================
