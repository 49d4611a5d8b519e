---------------------------- MODULE MCServiceControl ----------------------------
(* Instances of ServiceControl for TLC: the constants are model values. *)
EXTENDS ServiceControl
=============================================================================
