------------------------------- MODULE HandBack -------------------------------
(***************************************************************************)
(* The coordinator together with desktops that hand control back.  A       *)
(* hand-back begins with an automation sync, whose answer the Worker puts  *)
(* together from calls it awaits one by one (handlers/browser-control.ts): *)
(*   snapshot            the epoch, and whether the session was cancelled; *)
(*   renewAgentLease     while the agent controls;                         *)
(*   workflowSnapshot    the current effect: step, revision and phase;     *)
(*   notificationsAfter  the cursor.                                       *)
(* Any call of anybody may be served between two of them, and before the   *)
(* desktop reports the phase of that answer as the owner's progress.       *)
(*                                                                         *)
(* The coordinator stores whatever phase a report names, so that what its  *)
(* rows say of receipts depends on who reports.  Here every report is a    *)
(* hand-back made from one such answer.                                    *)
(***************************************************************************)
EXTENDS SessionCoordinator

CONSTANT Readers          \* bound: automation syncs under way at once

VARIABLE reads            \* what each has read so far

handBackVars == <<vars, reads>>

-------------------------------------------------------------------------------
NoRead == [pc |-> "IDLE"]

\* The rows the answer may call the current effect: the one of the checkpoint,
\* or, before any checkpoint, the oldest (the order of rows is not kept).
CurrentSteps ==
    {s \in DOMAIN effects :
       checkpoint # NoCheckpoint => effects[s].effect = checkpoint.effect}

\* snapshot.  A session cancelled by now is not handed back.
ReadControl(r) ==
    /\ Serving
    /\ ~canceled
    /\ reads' = [reads EXCEPT
                   ![r] = [pc    |-> IF Leased THEN "RENEW" ELSE "WORKFLOW",
                           epoch |-> control.leaseEpoch]]
    /\ UNCHANGED vars

\* renewAgentLease, under the epoch just read; if it is refused, so is the sync.
RenewRead(r) ==
    /\ reads[r].pc = "RENEW"
    /\ \E c \in Connections, now \in RequestTimes :
         /\ now + LeaseSpan <= MaxClock
         /\ RenewAgentLease(c, reads[r].epoch, now)
    /\ reads' = [reads EXCEPT ![r].pc = "WORKFLOW"]

\* workflowSnapshot; without a revision or a row there is nothing to report.
ReadWorkflow(r) ==
    /\ Serving
    /\ reads[r].pc = "WORKFLOW"
    /\ jobRevision # NoRevision
    /\ \E s \in CurrentSteps :
         reads' = [reads EXCEPT
                     ![r] = [pc       |-> "CURSOR",
                             epoch    |-> @.epoch,
                             step     |-> s,
                             effect   |-> effects[s].effect,
                             revision |-> jobRevision,
                             phase    |-> effects[s].phase]]
    /\ UNCHANGED vars

\* notificationsAfter.  With more than ten notifications pending the cursor is
\* an older one, and a report made with it is refused.
ReadCursor(r) ==
    /\ Serving
    /\ reads[r].pc = "CURSOR"
    /\ reads' = [reads EXCEPT
                   ![r] = [pc       |-> "ANSWERED",
                           epoch    |-> @.epoch,
                           step     |-> @.step,
                           effect   |-> @.effect,
                           revision |-> @.revision,
                           phase    |-> @.phase,
                           cursor   |-> eventSequence]]
    /\ UNCHANGED vars

\* handBack: the answer's phase, under the identity and epoch of the answer.
ReportRead(r) ==
    LET answer == reads[r]
    IN  /\ answer.pc = "ANSWERED"
        /\ RecordOwnerProgress(answer.epoch, answer.cursor, answer.step,
                               answer.effect, answer.revision, answer.phase)
        /\ reads' = [reads EXCEPT ![r] = NoRead]

-------------------------------------------------------------------------------
HandBackInit == Init /\ reads = [r \in Readers |-> NoRead]

\* Every call but an owner's report, which only a hand-back makes.
OtherCall ==
    \/ Initialize
    \/ LeaseCall
    \/ CommandCall
    \/ EffectCall
    \/ HandOverCall
    \/ OwnerCall
    \/ AlarmFires
    \/ Tick

HandBackNext ==
    \/ OtherCall /\ UNCHANGED reads
    \/ \E r \in Readers :
         \/ ReadControl(r)
         \/ RenewRead(r)
         \/ ReadWorkflow(r)
         \/ ReadCursor(r)
         \/ ReportRead(r)

HandBackSpec == HandBackInit /\ [][HandBackNext]_handBackVars

-------------------------------------------------------------------------------
(***************************************************************************)
(* Properties.                                                             *)
(***************************************************************************)

(***************************************************************************)
(* An effect reads RECEIPTED exactly when its receipt is stored, although  *)
(* every hand-back writes back a phase that it read some calls earlier, in *)
(* another call than the epoch and the cursor it is checked by: a receipt  *)
(* that comes in between is not undone, and none is claimed that does not  *)
(* exist.                                                                  *)
(***************************************************************************)
ReceiptsMatchEffects ==
    receipts = {effects[s].effect :
                  s \in {t \in DOMAIN effects : effects[t].phase = "RECEIPTED"}}
===============================================================================
