---------------------------- MODULE MCExecQueue ----------------------------
(* Two functions handed to Add, and two calling goroutines. *)
EXTENDS ExecQueue
=============================================================================
