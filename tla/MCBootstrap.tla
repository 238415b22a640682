---------------------------- MODULE MCBootstrap ----------------------------
(* Two servers, two clients of the first and one of the second; two       *)
(* offset maps; three layers, two with their scores on the second server. *)
EXTENDS Bootstrap

MCOffsetMaps == <<"0_OFFSET", "1_OFFSET">>
=============================================================================
