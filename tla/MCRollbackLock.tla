----------------------------- MODULE MCRollbackLock -----------------------------
(* Instances of RollbackLock for TLC.  The processes started by hand behave  *)
(* alike, and no property names one of them.                                 *)
EXTENDS RollbackLock, TLC

CliSymmetry == Permutations(Clis)
=============================================================================
