---------------------------- MODULE MCDerpWriter ----------------------------
(* One connection with packets, notices, pings and keepalives. *)
EXTENDS DerpWriter
=============================================================================
