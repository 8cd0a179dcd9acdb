------------------------- MODULE MCSessionCoordinator -------------------------
(***************************************************************************)
(* Small instances of SessionCoordinator for TLC.  The identities are      *)
(* interchangeable in every action and in every safety property.           *)
(***************************************************************************)
EXTENDS SessionCoordinator, TLC

Identities ==
    Permutations(Connections) \cup Permutations(ActionIds)
      \cup Permutations(EffectIds) \cup Permutations(CancellationIds)
===============================================================================
