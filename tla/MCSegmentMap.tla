---------------------------- MODULE MCSegmentMap ----------------------------
(* SegmentMap for TLC. *)
EXTENDS SegmentMap
=============================================================================
