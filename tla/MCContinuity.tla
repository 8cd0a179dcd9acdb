---------------------------- MODULE MCContinuity -------------------------------
(***************************************************************************)
(* Small instances of Continuity for TLC.                                  *)
(***************************************************************************)
EXTENDS Continuity, TLC

RequestIdentities == Permutations(Requests)
===============================================================================
