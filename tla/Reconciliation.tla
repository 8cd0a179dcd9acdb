---------------------------- MODULE Reconciliation ----------------------------
(***************************************************************************)
(* reconcileBrowserRecovery: what the coordinator concludes about the      *)
(* actions it retains when a host comes back, and how it fences control    *)
(* meanwhile.  It decides; it never dispatches.                            *)
(*                                                                         *)
(* An action is any record with a phase, a mutationClass and a             *)
(* postcondition; the coordinator's actions carry more fields.             *)
(***************************************************************************)
EXTENDS BrowserControlState

ActionPhases ==
    {"ACCEPTED", "DISPATCHED", "EFFECT_OBSERVED", "RECEIPTED",
     "RECONCILIATION_REQUIRED"}

MutationClasses == {"READ_ONLY", "IDEMPOTENT", "NON_IDEMPOTENT"}

Postconditions == {"UNOBSERVED", "SATISFIED", "NOT_SATISFIED", "UNKNOWN"}

Dispositions == {"RECEIPTED", "RETRY_ALLOWED", "WAITING_FOR_USER"}

(***************************************************************************)
(* resolveActionReconciliation: the verdict on an action whose effect may  *)
(* have happened.  Only a mutation known not to have happened, and         *)
(* harmless to repeat, may be retried.                                     *)
(***************************************************************************)
Resolution(mutationClass, postcondition) ==
    CASE postcondition = "SATISFIED" -> "RECEIPTED"
      [] postcondition = "NOT_SATISFIED" /\ mutationClass # "NON_IDEMPOTENT"
            -> "RETRY_ALLOWED"
      [] OTHER -> "WAITING_FOR_USER"

Disposition(action) ==
    CASE action.phase = "RECEIPTED" -> "RECEIPTED"
      [] action.phase = "ACCEPTED"  -> "RETRY_ALLOWED"
      [] OTHER -> Resolution(action.mutationClass,
                             IF action.postcondition = "UNOBSERVED"
                             THEN "UNKNOWN" ELSE action.postcondition)

ReconciledPhase(action) ==
    CASE Disposition(action) = "RECEIPTED" -> "RECEIPTED"
      [] action.phase = "ACCEPTED" -> "ACCEPTED"
      [] OTHER -> "RECONCILIATION_REQUIRED"

(***************************************************************************)
(* retainedActions() refuses to recover from an action whose phase and     *)
(* postcondition contradict each other.                                    *)
(***************************************************************************)
Recoverable(action) ==
    /\ action.phase = "ACCEPTED" => action.postcondition = "UNOBSERVED"
    /\ action.phase = "EFFECT_OBSERVED" => action.postcondition # "UNOBSERVED"

\* fenceForReconciliation
FenceForReconciliation(s) ==
    IF s.connection # "ONLINE" \/ s.controller = "USER"
    THEN s
    ELSE [s EXCEPT !.controller = "NONE",
                   !.leaseEpoch = IF s.controller = "AGENT" THEN @ + 1 ELSE @,
                   !.leaseExpiresAt = NoInstant,
                   !.automationBlocked = TRUE,
                   !.takeover = "RECONCILING"]

(***************************************************************************)
(* The two parts of the recovery verdict the coordinator uses: the control *)
(* record it stores, and whether some action must wait for the owner.      *)
(***************************************************************************)
RecoveryControl(s, actions, now) ==
    LET hasOrphan    == \E a \in DOMAIN actions : actions[a].phase # "RECEIPTED"
        leaseExpired == /\ s.controller = "AGENT"
                        /\ s.leaseExpiresAt # NoInstant
                        /\ s.leaseExpiresAt <= now
    IN  IF hasOrphan \/ leaseExpired THEN FenceForReconciliation(s) ELSE s

AwaitsOwner(actions) ==
    \E a \in DOMAIN actions : Disposition(actions[a]) = "WAITING_FOR_USER"
==============================================================================
