--------------------------- MODULE MCRelayManager ---------------------------
(* Two endpoints and one relay server, whose endpoints differ in VNI and age. *)
EXTENDS RelayManager

Limits == [work |-> 2, msg |-> 2, config |-> 1]
Bests == {None}
=============================================================================
