--------------------------- MODULE MCRitualWorkspace ---------------------------
(* The builder's window with a small desk.  The slots are alike.           *)
EXTENDS RitualWorkspace, TLC

\* The stored Ritual can be learned from or restored once, the new one is approved.
LastRevisions == <<3, 1, 1>>
\* It is the one that repeats.
ScheduledRevisions == {[ritual |-> 1, rev |-> 2]}

SlotSymmetry == Permutations(Slots)
===============================================================================
