--------------------------- MODULE ProofCoordinator ----------------------------
(***************************************************************************)
(* The coordinator of the packaged proof: one record in memory, changed by *)
(* each call at once and written to a file before the call answers.  The   *)
(* outstanding action is a set of at most one.                             *)
(***************************************************************************)
EXTENDS OwnedFixture, Sequences

NewCoordinator ==
    [step |-> 1, epoch |-> 1, controller |-> "AGENT", canceled |-> FALSE,
     phase |-> "ACCEPTED", outstanding |-> {}, completed |-> <<>>]

Blocked(co) == co.controller = "USER" \/ co.canceled

\* The next step once one is completed; the last one stays.
Advance(co) ==
    IF co.step < NSteps THEN [co EXCEPT !.step = @ + 1, !.phase = "ACCEPTED"] ELSE co

CanAccept(co, s) == ~Blocked(co) /\ s = co.step

\* cap: the step whose mutation the command performs, or 0 to verify.
AcceptAction(co, action, s, cap) ==
    [co EXCEPT !.phase = "ACCEPTED",
               !.outstanding = {[action |-> action, step |-> s, epoch |-> co.epoch,
                                 cap |-> cap]}]

Completed(co, s, actor) ==
    Advance([co EXCEPT !.completed = Append(@, [step |-> s, actor |-> actor]),
                       !.phase = "RECEIPTED", !.outstanding = {}])

\* The receipt names the step the controller's checkpoint names.
RecordReceipt(co, s) == Completed(co, s, "AGENT")

\* The owner's progress is that of the current step, whatever it is.
RecordOwnerProgress(co) == Completed(co, co.step, "OWNER")

\* The receipt of the last step interrupted on request, once.
InterruptReceipt(co) == [co EXCEPT !.phase = "RECONCILIATION_REQUIRED"]

Takeover(co) == [co EXCEPT !.controller = "USER", !.epoch = @ + 1]

ClaimFreshLease(co) == [co EXCEPT !.controller = "AGENT", !.epoch = @ + 1]

CancelJob(co) == [co EXCEPT !.canceled = TRUE]

\* Every step receipted, as the projection counts it.
Terminal(co) == Len(co.completed) = NSteps
===============================================================================
