-------------------------- MODULE MCDataStructures --------------------------
(***************************************************************************)
(* The operations of Segments, Layers and Messages against their reference *)
(* definitions, each for every input up to the bounds.                     *)
(***************************************************************************)
EXTENDS Segments, Messages

CONSTANTS
    MaxEnd,         \* bound: the largest offset
    MaxText,        \* bound: the longest text that str_split is given
    MaxLayers,      \* bound: the layers of an option -l
    MaxIoSize       \* bound: the largest io_size_mb

ASSUME BoundsAssumption ==
    /\ {MaxEnd, MaxText, MaxLayers, MaxIoSize} \subseteq Nat
    /\ MaxLayers <= 9                   \* their number is one digit

VARIABLE input

Segment == {s \in [start : 0 .. MaxEnd, end : -1 .. MaxEnd] : s.start <= s.end + 1}

Text(chars, max) == UNION {[1 .. n -> chars] : n \in 0 .. max}

(* The five fields of a layer in -l. *)
Field == {<<"x">>, <<"1", "x">>}
Fields == {<<f, <<"x">>, m, g, d>> :
             f \in Field, m \in {<<"0">>, <<"1">>}, g \in Field, d \in {<<"0">>, <<"1">>}}

(* The lists of layers a process may have. *)
Info == {[capacity |-> 1, bandwidth |-> 1, mount_point |-> "x", is_memory |-> m,
          is_local |-> l, direct_io |-> m] : m, l \in BOOLEAN}
Infos == UNION {[1 .. n -> Info] : n \in 1 .. UInt8Size}

(* Names are C strings, data is any string. *)
Name == Text({1, 2}, 2)
Data == Text({0, 1}, 2)

Event == [filename : Name, segment : [start : {0}, end : {-1, MaxEnd}],
          event_type : {"FILE_OPEN", "FILE_READ", "FILE_CLOSE"},
          source : {"APPLICATION", "HARDWARE"}, layer_index : 0 .. 1, time : 0 .. 1]
Score == [frequency : 0 .. 1, lrf : 0 .. 1, type : {"FREQUENCY_SCORE", "LRF_SCORE"}]

Init ==
    \/ input \in [kind : {"segments"}, a : Segment, b : Segment]
    \/ input \in [kind : {"text"}, text : Text({"x", "#"}, MaxText)]
    \/ input \in [kind : {"option"}, fields : UNION {[1 .. n -> Fields] : n \in 0 .. MaxLayers}]
    \/ input \in [kind : {"io"}, io_size_mb : 0 .. MaxIoSize]
    \/ \E infos \in Infos, data \in Data, name \in Name :
          input = [kind |-> "file", layers |-> BuildLayers(infos), data |-> data, name |-> name]
    \/ input \in [kind : {"event"}, event : Event, score : Score]

Next == UNCHANGED input

Spec == Init /\ [][Next]_input

(* What Substract returns, for every pair that overlaps. *)
SubstractExact ==
    input.kind = "segments" => SubstractExactFor(input.a, input.b)

(* A intersected with B, for every pair. *)
IntersectExact ==
    input.kind = "segments" => IntersectExactFor(input.a, input.b)

(* The test of ContainsInServer is overlap, for every non-empty pair. *)
MeetsIsOverlap ==
    input.kind = "segments" => MeetsIsOverlapFor(input.a, input.b)

(* str_split on every text up to MaxText (see SplitExactFor). *)
SplitExact == input.kind = "text" => SplitExactFor(input.text, "#")

(* The layers of every option up to MaxLayers (see OptionReadBackFor). *)
OptionReadBack == input.kind = "option" => OptionReadBackFor(input.fields)

(* The default layers for every size of I/O (see DefaultOrderedFor). *)
DefaultOrdered == input.kind = "io" => DefaultOrderedFor(input.io_size_mb)

(* BuildLayers links any list of layers both ways (see LinkedBothWays). *)
LayersLinked == input.kind = "file" => LinkedBothWays(input.layers)

(* A file in any of the layers arrives as it was (see FileArrivesFor). *)
FileArrives ==
    input.kind = "file" =>
        \A i \in DOMAIN input.layers :
            FileArrivesFor([filename |-> input.name, segment |-> Seg(0, i),
                            layer |-> input.layers[i], data |-> input.data],
                           input.layers)

(* Events and scores arrive as they were (see EventArrivesFor). *)
EventArrives == input.kind = "event" => EventArrivesFor(input.event, input.score)
=============================================================================
