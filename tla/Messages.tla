------------------------------ MODULE Messages ------------------------------
(***************************************************************************)
(* The msgpack conversions of common/data_structure.h: what a call of a    *)
(* remote function carries.  A packed array is a sequence, a packed string *)
(* a sequence of characters in which 0 is the character that ends a C      *)
(* string.  The receiver has a list of layers of its own.                  *)
(***************************************************************************)
EXTENDS Layers

(* What CharStruct keeps of a string (sprintf "%s"), and what strlen sees. *)
CharStruct(text) == SubSeq(text, 1, SeqsExt!SelectInSeq(text \o <<0>>, LAMBDA c : c = 0) - 1)

PackCharStruct(name) == CharStruct(name)

ConvertCharStruct(o) == CharStruct(o)

PackSegment(s) == <<s.start, s.end>>

ConvertSegment(o) == [start |-> o[1], end |-> o[2]]

(* The type is not sent: the receiver's object has the default one. *)
PackSegmentScore(s) == <<s.frequency, s.lrf>>

ConvertSegmentScore(o) == [frequency |-> o[1], lrf |-> o[2], type |-> "LRF_SCORE"]

PackEvent(e) ==
    <<PackCharStruct(e.filename), PackSegment(e.segment), e.event_type,
      e.source, e.layer_index, e.time>>

\* Mutant of ConvertEvent: type and source are taken from each other's place.
ConvertEventSwapped(o) ==
    [filename |-> ConvertCharStruct(o[1]), segment |-> ConvertSegment(o[2]),
     event_type |-> o[4], source |-> o[3], layer_index |-> o[5], time |-> o[6]]

ConvertEvent(o) ==
    [filename |-> ConvertCharStruct(o[1]), segment |-> ConvertSegment(o[2]),
     event_type |-> o[3], source |-> o[4], layer_index |-> o[5], time |-> o[6]]

\* Mutant of PackPosixFile: the data goes as a C string (the code in comments).
PackPosixFileC(f) ==
    <<PackCharStruct(f.filename), PackSegment(f.segment), f.layer.id_,
      CharStruct(f.data)>>

(* Of the layer only the id is sent; the data is a std::string, sent whole. *)
PackPosixFile(f) ==
    <<PackCharStruct(f.filename), PackSegment(f.segment), f.layer.id_, f.data>>

(* The receiver finds the layer by its id: one of several values. *)
ConvertPosixFile(o, layers) ==
    {[filename |-> ConvertCharStruct(o[1]), segment |-> ConvertSegment(o[2]),
      layer |-> layer, data |-> o[4]] : layer \in LayerById(o[3], layers)}

----------------------------------------------------------------------------

(***************************************************************************)
(* A file sent to a server whose layers come from the same options arrives *)
(* as it was: name, segment, every byte of the data (zero bytes too) and   *)
(* the layer with all its fields and links, for as many layers as uint8_t  *)
(* has values.  Only direct_io, which nothing reads, may differ.           *)
(***************************************************************************)
FileArrivesFor(f, layers) ==
    LET arrived == ConvertPosixFile(PackPosixFile(f), layers)
    IN  /\ arrived # {}
        /\ \A g \in arrived : [g EXCEPT !.layer.direct_io = f.layer.direct_io] = f

(***************************************************************************)
(* An event arrives with all of its six fields, and a score with what it   *)
(* is ordered by, as long as scores have the default type.                 *)
(***************************************************************************)
EventArrivesFor(e, score) ==
    /\ ConvertEvent(PackEvent(e)) = e
    /\ score.type = "LRF_SCORE" =>
          ConvertSegmentScore(PackSegmentScore(score)) = score
=============================================================================
