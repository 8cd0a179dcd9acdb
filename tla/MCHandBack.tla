------------------------------ MODULE MCHandBack ------------------------------
(***************************************************************************)
(* A small instance of HandBack for TLC.  The identities are               *)
(* interchangeable in every action and in every invariant.                 *)
(***************************************************************************)
EXTENDS HandBack, TLC

Identities ==
    Permutations(Connections) \cup Permutations(ActionIds)
      \cup Permutations(EffectIds) \cup Permutations(Readers)
===============================================================================
