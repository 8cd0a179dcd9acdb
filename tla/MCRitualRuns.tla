---------------------------- MODULE MCRitualRuns -------------------------------
(***************************************************************************)
(* Small instances of RitualRuns for TLC.                                  *)
(***************************************************************************)
EXTENDS RitualRuns

\* The first, or the second, of two steps needs the owner.
First == {1}
Second == {2}
===============================================================================
