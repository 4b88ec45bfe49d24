--------------------------- MODULE MCControlAuto ---------------------------
(* Instances of ControlAuto: the configurations differ in what may happen *)
(* and how often.                                                         *)
EXTENDS ControlAuto
=============================================================================
