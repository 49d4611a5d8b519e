----------------------------- MODULE MCOfferMonitor -----------------------------
(* Instances of OfferMonitor for TLC; the configurations size them. *)
EXTENDS OfferMonitor, TLC
=============================================================================
