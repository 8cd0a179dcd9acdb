----------------------------- MODULE MCSessionRows -----------------------------
(***************************************************************************)
(* A small instance for TLC of the two ways the Worker writes rows that    *)
(* belong to a session: the requests that move its job (SessionLife) and   *)
(* the projection of its events (EventProjection).  They share no table    *)
(* but the job's row, which SessionLife writes for both, so each behaviour *)
(* is of one of the two.  Steps are not ordered here, and every set of     *)
(* identities is symmetric in the safety properties.  As no behaviour is   *)
(* of both, the two share their model values, which are then permuted once *)
(* for both: sessions are named as steps, cancellations of the job's life  *)
(* as actions, and its handlers as requests.                               *)
(***************************************************************************)
EXTENDS SessionLife, EventProjection, TLC

VARIABLE part  \* whose behaviour this is

rowsVars == <<lifeVars, vars, part>>

RowsInit == part \in {"life", "projection"} /\ LifeInit /\ Init

RowsNext ==
    /\ \/ part = "life" /\ LifeNext /\ UNCHANGED vars
       \/ part = "projection" /\ Next /\ UNCHANGED lifeVars
    /\ UNCHANGED part

RowsSpec == RowsInit /\ [][RowsNext]_rowsVars

Identities ==
    Permutations(Steps) \cup Permutations(ActionIds)
      \cup Permutations(EffectIds) \cup Permutations(CancellationIds)
      \cup Permutations(Requests)

\* Once a rebuild has run into another request nothing is claimed of the
\* tables, and neither history variable goes back: such states are not
\* explored further.
SomethingClaimed == rebuilds = "NONE" \/ ~overlapped
===============================================================================
