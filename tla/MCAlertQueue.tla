------------------------------ MODULE MCAlertQueue ------------------------------
(* Instances of AlertQueue for TLC; the configuration sizes them. *)
EXTENDS AlertQueue, TLC
=============================================================================
