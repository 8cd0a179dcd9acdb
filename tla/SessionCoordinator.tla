-------------------------- MODULE SessionCoordinator --------------------------
(***************************************************************************)
(* The authoritative coordinator of one browser session: the Durable       *)
(* Object BrowserSessionCoordinator.  It grants the one renewable lease    *)
(* under which a desktop connection may dispatch automated commands,       *)
(* fences that lease (expiry alarm, disconnect, owner takeover, job        *)
(* cancellation), retains the accepted actions and binds each logical step *)
(* of a workflow to one effect.                                            *)
(*                                                                         *)
(* A Durable Object runs one method at a time and each method commits in   *)
(* one storage transaction, so an action of this module is one call.  The  *)
(* calls of several connections, the owner's requests and the alarm        *)
(* interleave freely.  A caller holds values it read earlier: its epoch,   *)
(* cursor, sequence and revision are arbitrary earlier ones, so delayed,   *)
(* duplicated and reordered requests are all among the inputs.  A refused  *)
(* call changes nothing and is no step.                                    *)
(***************************************************************************)
EXTENDS Reconciliation, FiniteSets

CONSTANTS
    Connections,          \* connection identities, one per desktop process
    NoConnection,         \* holder_connection_id = NULL
    ActionIds,            \* action identities a desktop may mint
    NoAction,             \* canonical_action_id = NULL
    EffectIds,            \* effect identities
    NoBinding,            \* an authentication action carries no workflow
    NoCheckpoint,         \* the workflow_checkpoint table is empty
    CancellationIds,      \* cancellation identities an owner may mint
    NumSteps,             \* logical steps of the workflow (4 in the code)
    Site,                 \* the site the session was created for
    LeaseSpan,            \* longest lease: 60 seconds in the code
    QuotaWindow,          \* ticks in one command quota window (a minute)
    CommandQuota,         \* commands accepted in one window (120)
    RetainedLimit,        \* actions one session retains (5000)
    MaxTransit,           \* bound: ticks from a request's arrival to its call
    MaxClock,             \* bound: last instant, no lease expires later
    MaxEvents,            \* bound: events client calls may append
    MaxSequence,          \* bound: envelope sequence numbers
    MaxRevision,          \* bound: job revisions
    Classes,              \* bound: classes of authentication commands sent
    Statuses,             \* bound: statuses of results sent
    OwnerPhases           \* bound: phases an owner's report may name

ASSUME ConnectionAssumption == NoConnection \notin Connections

ASSUME ActionAssumption == NoAction \notin ActionIds

ASSUME StepsAssumption == NumSteps \in Nat

ASSUME TimeAssumption == LeaseSpan \in Nat \ {0} /\ QuotaWindow \in Nat \ {0}

ASSUME BoundsAssumption ==
    /\ MaxTransit \in Nat
    /\ MaxClock \in Nat
    /\ MaxEvents \in Nat
    /\ MaxSequence \in Nat
    /\ MaxRevision \in Nat
    /\ Classes \subseteq MutationClasses
    /\ Statuses \subseteq
         {"ACCEPTED", "OBSERVATION", "VERIFIED", "UNVERIFIED", "REJECTED",
          "WAITING_FOR_USER"}
    /\ OwnerPhases \subseteq ActionPhases

VARIABLES
    lifecycle,            \* ABSENT, PRESENT (initialized) or DESTROYED
    control,              \* control_state.state_json
    holder,               \* control_state.holder_connection_id
    alarm,                \* the instant the alarm is set for, or NoInstant
    clock,                \* the object's Date.now()
    eventSequence,        \* session_metadata.event_sequence
    lastResultSequence,   \* session_metadata.last_result_sequence
    jobRevision,          \* session_metadata.workflow_job_revision, 0 if NULL
    actions,              \* accepted_actions, by action id
    effects,              \* workflow_effects, by logical step
    receipts,             \* effects with a row in workflow_receipts
    checkpoint,           \* step and effect of the workflow_checkpoint row
    cancellations,        \* workflow_cancellations: id to expected revision
    canceled,             \* an AUTOMATION_CANCELED event exists
    grantedEpoch,         \* history: the last epoch a lease was granted at
    dispatched            \* history: the <<epoch, connection>> pairs under
                          \*   which commands were accepted

controlVars  == <<control, holder, alarm>>
workflowVars == <<jobRevision, effects, receipts, checkpoint>>
cancelVars   == <<cancellations, canceled>>
historyVars  == <<grantedEpoch, dispatched>>
vars == <<lifecycle, controlVars, clock, eventSequence, lastResultSequence,
          actions, workflowVars, cancelVars, historyVars>>

-------------------------------------------------------------------------------
(***************************************************************************)
(* Data.                                                                   *)
(***************************************************************************)
Steps == 1..NumSteps

FinalStep == NumSteps                       \* FINALIZE_SETUP

NoRevision == 0                             \* workflow_job_revision IS NULL

FirstRevision == 2                          \* the revision a session starts at

EmptyTable == [k \in {} |-> k]

Bindings ==
    [revision : Nat, step : Steps, effect : EffectIds, leaseEpoch : Nat]

ASSUME BindingAssumption == NoBinding \notin Bindings

ActionRecords ==
    [ phase         : ActionPhases,
      postcondition : Postconditions,
      mutationClass : MutationClasses,
      sequence      : Nat,
      window        : Nat,
      binding       : Bindings \cup {NoBinding} ]

EffectRecords ==
    [ effect    : EffectIds,
      revision  : Nat,
      canonical : ActionIds \cup {NoAction},
      phase     : ActionPhases ]

Checkpoints == [step : Steps, effect : EffectIds]

Leased == control.controller = "AGENT"

\* The instants a request may carry as "now": when its route was entered.
RequestTimes == {t \in 0..clock : clock <= t + MaxTransit}

(***************************************************************************)
(* mutationClassFor: a step is observed (READ_ONLY) or performed; only the *)
(* final step is not idempotent.                                           *)
(***************************************************************************)
StepMutationClass(step, mutating) ==
    CASE ~mutating        -> "READ_ONLY"
      [] step = FinalStep -> "NON_IDEMPOTENT"
      [] OTHER            -> "IDEMPOTENT"

(***************************************************************************)
(* A step has one effect identity and an effect belongs to one step: the   *)
(* test bindWorkflowEffect, recordOwnerProgress, checkpointEffectConflicts *)
(* and bindCheckpointEffect share.                                         *)
(***************************************************************************)
EffectConflict(step, effect) ==
    \/ step \in DOMAIN effects /\ effects[step].effect # effect
    \/ \E s \in DOMAIN effects : effects[s].effect = effect /\ s # step

\* Seeded fault: a revision below the workflow's is not stale.
RevisionNotAhead(revision) ==
    jobRevision = NoRevision \/ revision <= jobRevision

\* A revision is current if it is the workflow's, or the workflow has none.
RevisionCurrent(revision) == jobRevision \in {NoRevision, revision}

WithRow(table, key, row) ==
    [k \in DOMAIN table \cup {key} |-> IF k = key THEN row ELSE table[k]]

-------------------------------------------------------------------------------
(***************************************************************************)
(* Shared parts of the calls.                                              *)
(***************************************************************************)
Serving == lifecycle = "PRESENT"

\* Every committed transition appends one event; MaxEvents bounds the run.
AppendEvent ==
    /\ eventSequence < MaxEvents
    /\ eventSequence' = eventSequence + 1

\* Seeded fault: an alarm already set is left where it is.
ArmAlarmOnce(expiresAt) ==
    alarm' = IF expiresAt > clock /\ alarm = NoInstant THEN expiresAt ELSE alarm

\* The alarm moves only to an instant still ahead of the object's own clock.
ArmAlarm(expiresAt) ==
    alarm' = IF expiresAt > clock THEN expiresAt ELSE alarm

Grant(connection, next) ==
    /\ control' = next
    /\ holder' = connection
    /\ grantedEpoch' = next.leaseEpoch

Fence(next) ==
    /\ control' = next
    /\ holder' = NoConnection

-------------------------------------------------------------------------------
(***************************************************************************)
(* The session's life.                                                     *)
(***************************************************************************)
Init ==
    /\ lifecycle = "ABSENT"
    /\ control = InitialControl
    /\ holder = NoConnection
    /\ alarm = NoInstant
    /\ clock = 0
    /\ eventSequence = 0
    /\ lastResultSequence = 0
    /\ jobRevision = NoRevision
    /\ actions = EmptyTable
    /\ effects = EmptyTable
    /\ receipts = {}
    /\ checkpoint = NoCheckpoint
    /\ cancellations = EmptyTable
    /\ canceled = FALSE
    /\ grantedEpoch = 0
    /\ dispatched = {}

Initialize ==
    /\ lifecycle = "ABSENT"
    /\ lifecycle' = "PRESENT"
    /\ control' = InitialControl
    /\ holder' = NoConnection
    /\ eventSequence' = 1
    /\ UNCHANGED <<alarm, clock, lastResultSequence, actions, workflowVars,
                   cancelVars, historyVars>>

InitializeWorkflow(step, effect, revision) ==
    /\ Serving
    /\ Site = "OWNED_FIXTURE"
    /\ step \notin DOMAIN effects
    /\ ~EffectConflict(step, effect)
    /\ RevisionCurrent(revision)
    /\ effects' = WithRow(effects, step,
                          [effect |-> effect, revision |-> revision,
                           canonical |-> NoAction, phase |-> "ACCEPTED"])
    /\ jobRevision' = revision
    /\ AppendEvent
    /\ UNCHANGED <<lifecycle, controlVars, clock, lastResultSequence, actions,
                   receipts, checkpoint, cancelVars, historyVars>>

(***************************************************************************)
(* destroy: closes the streams, deletes the alarm and every row.  The      *)
(* history variables record the past and are kept.                         *)
(***************************************************************************)
Destroy ==
    /\ Serving
    /\ lifecycle' = "DESTROYED"
    /\ Fence(InitialControl)
    /\ alarm' = NoInstant
    /\ eventSequence' = 0
    /\ lastResultSequence' = 0
    /\ jobRevision' = NoRevision
    /\ actions' = EmptyTable
    /\ effects' = EmptyTable
    /\ receipts' = {}
    /\ checkpoint' = NoCheckpoint
    /\ cancellations' = EmptyTable
    /\ canceled' = FALSE
    /\ UNCHANGED <<clock, historyVars>>

-------------------------------------------------------------------------------
(***************************************************************************)
(* The lease.                                                              *)
(***************************************************************************)

(***************************************************************************)
(* claimAgentLease, called by SESSION_OPEN with the envelope's expiry.     *)
(* The recovery verdict is consulted only while control is RECONCILING.    *)
(***************************************************************************)
RecoveryAdmits ==
    control.automationBlocked /\ control.takeover = "RECONCILING" =>
        /\ \A a \in DOMAIN actions : Recoverable(actions[a])
        /\ ~AwaitsOwner(actions)

\* Seeded fault: the claim reuses the epoch.
ClaimedControlSameEpoch(expiresAt, sequence) ==
    [control EXCEPT !.controller = "AGENT", !.leaseExpiresAt = expiresAt,
                    !.automationBlocked = FALSE, !.takeover = "NONE",
                    !.lastAcceptedSequence = sequence]

ClaimedControl(expiresAt, sequence) ==
    [control EXCEPT !.controller = "AGENT", !.leaseEpoch = @ + 1,
                    !.leaseExpiresAt = expiresAt, !.automationBlocked = FALSE,
                    !.takeover = "NONE", !.lastAcceptedSequence = sequence]

ClaimAgentLease(connection, expiresAt, sequence) ==
    /\ Serving
    /\ control.connection = "ONLINE"
    /\ control.controller = "NONE"
    /\ holder = NoConnection
    /\ RecoveryAdmits
    /\ sequence > control.lastAcceptedSequence
    /\ Grant(connection, ClaimedControl(expiresAt, sequence))
    /\ ArmAlarm(expiresAt)
    /\ AppendEvent
    /\ UNCHANGED <<lifecycle, clock, lastResultSequence, actions, workflowVars,
                   cancelVars, dispatched>>

\* renewAgentLease: always LeaseSpan from "now", and no event.
RenewAgentLease(connection, epoch, now) ==
    /\ Serving
    /\ holder = connection
    /\ Leased
    /\ epoch = control.leaseEpoch
    /\ control.leaseExpiresAt # NoInstant
    /\ control.leaseExpiresAt > now
    /\ control' = [control EXCEPT !.leaseExpiresAt = now + LeaseSpan]
    /\ ArmAlarm(now + LeaseSpan)
    /\ UNCHANGED <<lifecycle, holder, clock, eventSequence, lastResultSequence,
                   actions, workflowVars, cancelVars, historyVars>>

(***************************************************************************)
(* alarm: fences whatever lease it finds, without reading its expiry, and  *)
(* leaves the epoch alone.  It is no client call: MaxEvents does not       *)
(* hold it back.                                                           *)
(***************************************************************************)
AlarmFires ==
    /\ alarm # NoInstant
    /\ alarm <= clock
    /\ alarm' = NoInstant
    /\ IF /\ Serving
          /\ Leased
          /\ control.leaseExpiresAt # NoInstant
          /\ HostOfflineAllowed(control)
       THEN /\ Fence(HostWentOffline(control))
            /\ eventSequence' = eventSequence + 1
       ELSE UNCHANGED <<control, holder, eventSequence>>
    /\ UNCHANGED <<lifecycle, clock, lastResultSequence, actions, workflowVars,
                   cancelVars, historyVars>>

HostDisconnected(connection, epoch) ==
    /\ Serving
    /\ holder = connection
    /\ epoch = control.leaseEpoch
    /\ HostOfflineAllowed(control)
    /\ Fence(HostWentOffline(control))
    /\ AppendEvent
    /\ UNCHANGED <<lifecycle, alarm, clock, lastResultSequence, actions,
                   workflowVars, cancelVars, historyVars>>

(***************************************************************************)
(* hostReconnected: brings control ONLINE and RECONCILING and rewrites the *)
(* phase of each retained action to what reconciliation concludes.         *)
(***************************************************************************)
HostReconnected(now) ==
    LET online == [control EXCEPT !.connection = "ONLINE",
                                  !.takeover = "RECONCILING",
                                  !.automationBlocked = TRUE,
                                  !.leaseExpiresAt = NoInstant]
    IN  /\ Serving
        /\ control.connection = "OFFLINE"
        /\ control.controller = "NONE"
        /\ \A a \in DOMAIN actions : Recoverable(actions[a])
        /\ control' = RecoveryControl(online, actions, now)
        /\ actions' = [a \in DOMAIN actions |->
                         [actions[a] EXCEPT !.phase = ReconciledPhase(actions[a])]]
        /\ AppendEvent
        /\ UNCHANGED <<lifecycle, holder, alarm, clock, lastResultSequence,
                       workflowVars, cancelVars, historyVars>>

-------------------------------------------------------------------------------
(***************************************************************************)
(* Commands and results.                                                   *)
(***************************************************************************)
Window(now) == now \div QuotaWindow

(***************************************************************************)
(* acceptAuthenticatedCommand, up to its transaction: the holder test, the *)
(* admission test, the retention and rate limits and the duplicate test.   *)
(***************************************************************************)
CommandAdmitted(connection, action, epoch, sequence, now) ==
    /\ Serving
    /\ holder = connection
    /\ CommandAccepted(control, epoch, sequence, now)
    /\ Cardinality(DOMAIN actions) < RetainedLimit
    /\ Cardinality({a \in DOMAIN actions : actions[a].window = Window(now)})
         < CommandQuota
    /\ action \notin DOMAIN actions
    /\ \A a \in DOMAIN actions : actions[a].sequence # sequence

\* The writes of that transaction that do not depend on the kind of command.
Retain(connection, action, epoch, sequence, now, mutationClass, binding) ==
    /\ control' = [control EXCEPT !.lastAcceptedSequence = sequence]
    /\ actions' = WithRow(actions, action,
                          [phase |-> "ACCEPTED", postcondition |-> "UNOBSERVED",
                           mutationClass |-> mutationClass,
                           sequence |-> sequence, window |-> Window(now),
                           binding |-> binding])
    /\ dispatched' = dispatched \cup {<<epoch, connection>>}
    /\ AppendEvent

AcceptAuthenticationCommand(connection, action, epoch, sequence, now, class) ==
    /\ CommandAdmitted(connection, action, epoch, sequence, now)
    /\ Retain(connection, action, epoch, sequence, now, class, NoBinding)
    /\ UNCHANGED <<lifecycle, holder, alarm, clock, lastResultSequence,
                   workflowVars, cancelVars, grantedEpoch>>

\* Seeded fault: the last mutation takes the effect.
TakesEffectAgain(step, mutating) ==
    mutating /\ effects[step].phase # "RECEIPTED"

\* The command is the one that will perform the step's effect.
TakesEffect(step, mutating) ==
    /\ mutating
    /\ effects[step].phase # "RECEIPTED"
    /\ effects[step].canonical = NoAction

(***************************************************************************)
(* bindWorkflowEffect: the first command of a step fixes its effect, the   *)
(* first mutating one becomes the effect's canonical action; every later   *)
(* one, and any command for a receipted effect, is a replay that changes   *)
(* no row.                                                                 *)
(***************************************************************************)
BindWorkflowEffect(action, step, effect, revision, mutating) ==
    /\ Site = "OWNED_FIXTURE"
    /\ RevisionCurrent(revision)
    /\ ~EffectConflict(step, effect)
    /\ step \in DOMAIN effects => effects[step].revision = revision
    /\ CASE step \notin DOMAIN effects ->
              /\ effects' = WithRow(effects, step,
                   [effect |-> effect, revision |-> revision,
                    canonical |-> IF mutating THEN action ELSE NoAction,
                    phase |-> "ACCEPTED"])
              /\ jobRevision' = revision
         [] step \in DOMAIN effects /\ TakesEffect(step, mutating) ->
              /\ effects' = [effects EXCEPT ![step].canonical = action]
              /\ UNCHANGED jobRevision
         [] OTHER -> UNCHANGED <<effects, jobRevision>>

AcceptWorkflowCommand(connection, action, epoch, sequence, now, step, effect, revision, mutating) ==
    /\ CommandAdmitted(connection, action, epoch, sequence, now)
    /\ BindWorkflowEffect(action, step, effect, revision, mutating)
    /\ Retain(connection, action, epoch, sequence, now,
              StepMutationClass(step, mutating),
              [revision |-> revision, step |-> step, effect |-> effect,
               leaseEpoch |-> epoch])
    /\ UNCHANGED <<lifecycle, holder, alarm, clock, lastResultSequence,
                   receipts, checkpoint, cancelVars, grantedEpoch>>

\* Seeded fault: an observation leaves the postcondition as it was.
UpdatePhaseFromResult(action, status) ==
    CASE status = "ACCEPTED" -> [action EXCEPT !.phase = "DISPATCHED"]
      [] status \in {"VERIFIED", "OBSERVATION", "UNVERIFIED"} ->
           [action EXCEPT !.phase = "EFFECT_OBSERVED"]
      [] status = "REJECTED" -> [action EXCEPT !.phase = "RECEIPTED"]
      [] OTHER -> [action EXCEPT !.phase = "RECONCILIATION_REQUIRED"]

(***************************************************************************)
(* updateActionFromResult: the status alone decides the new phase; the     *)
(* phase the action has already reached is not consulted.                  *)
(***************************************************************************)
UpdateFromResult(action, status) ==
    CASE status = "ACCEPTED" -> [action EXCEPT !.phase = "DISPATCHED"]
      [] status = "VERIFIED" ->
           [action EXCEPT !.phase = "EFFECT_OBSERVED",
                          !.postcondition = "SATISFIED"]
      [] status \in {"OBSERVATION", "UNVERIFIED"} ->
           [action EXCEPT !.phase = "EFFECT_OBSERVED",
                          !.postcondition = "UNKNOWN"]
      [] status = "REJECTED" ->
           [action EXCEPT !.phase = "RECEIPTED",
                          !.postcondition = "NOT_SATISFIED"]
      [] OTHER ->
           [action EXCEPT !.phase = "RECONCILIATION_REQUIRED",
                          !.postcondition = "UNKNOWN"]

(***************************************************************************)
(* acceptAuthenticatedResult.  A workflow action is bound to the epoch it  *)
(* was accepted under (resultMatchesActionBinding); an authentication      *)
(* action is not.  The lease's expiry is not tested.                       *)
(***************************************************************************)
AcceptResult(connection, action, epoch, sequence, status) ==
    /\ Serving
    /\ holder = connection
    /\ epoch = control.leaseEpoch
    /\ Leased
    /\ ~control.automationBlocked
    /\ sequence > lastResultSequence
    /\ action \in DOMAIN actions
    /\ actions[action].binding # NoBinding =>
         actions[action].binding.leaseEpoch = epoch
    /\ actions' = [actions EXCEPT ![action] = UpdateFromResult(@, status)]
    /\ lastResultSequence' = sequence
    /\ AppendEvent
    /\ UNCHANGED <<lifecycle, controlVars, clock, workflowVars, cancelVars,
                   historyVars>>

-------------------------------------------------------------------------------
(***************************************************************************)
(* Workflow operations.                                                    *)
(***************************************************************************)

(***************************************************************************)
(* recordWorkflowReceipt: receipts the action's effect and moves the       *)
(* checkpoint.  A checkpoint sent for the receipted step, unless it is the *)
(* final one, is advanced to the next step under a freshly derived effect  *)
(* identity ("next"); any other is stored as sent.  "cursor" is the event  *)
(* sequence the desktop derived its checkpoint sequence from.              *)
(***************************************************************************)
RecordWorkflowReceipt(connection, action, cursor, sent, next) ==
    /\ Serving
    /\ Site = "OWNED_FIXTURE"
    /\ holder = connection
    /\ cursor = eventSequence
    /\ action \in DOMAIN actions
    /\ actions[action].binding # NoBinding
    /\ LET binding == actions[action].binding
           step    == binding.step
           effect  == binding.effect
           advance == sent.step = step /\ step # FinalStep
           stored  == IF advance THEN [step |-> step + 1, effect |-> next]
                                 ELSE sent
           marked  == [s \in DOMAIN effects |->
                         IF s = step /\ effects[s].effect = effect
                         THEN [effects[s] EXCEPT !.phase = "RECEIPTED"]
                         ELSE effects[s]]
       IN  /\ binding.leaseEpoch = control.leaseEpoch
           /\ effect \notin receipts
           /\ advance => next # effect
           /\ ~EffectConflict(stored.step, stored.effect)
           /\ receipts' = receipts \cup {effect}
           /\ effects' = IF stored.step \in DOMAIN effects THEN marked
                         ELSE WithRow(marked, stored.step,
                                [effect |-> stored.effect,
                                 revision |-> binding.revision,
                                 canonical |-> NoAction, phase |-> "ACCEPTED"])
           /\ checkpoint' = stored
    /\ actions' = [actions EXCEPT ![action].phase = "RECEIPTED",
                                  ![action].postcondition = "SATISFIED"]
    /\ AppendEvent
    /\ UNCHANGED <<lifecycle, controlVars, clock, lastResultSequence,
                   jobRevision, cancelVars, historyVars>>

\* takeoverWorkflowControl: the alarm of the revoked lease stays armed.
TakeoverWorkflowControl(connection, epoch, cursor) ==
    /\ Serving
    /\ holder = connection
    /\ cursor = eventSequence
    /\ epoch = control.leaseEpoch
    /\ Leased
    /\ control.connection = "ONLINE"
    /\ ~control.automationBlocked
    /\ OnlineTakeoverAllowed(control)
    /\ QuiesceAllowed(OnlineTakeoverRequested(control))
    /\ Fence(TakeoverQuiesced(OnlineTakeoverRequested(control)))
    /\ AppendEvent
    /\ UNCHANGED <<lifecycle, alarm, clock, lastResultSequence, actions,
                   workflowVars, cancelVars, historyVars>>

\* claimFreshWorkflowLease: the owner hands control back.
ClaimFreshWorkflowLease(connection, epoch, cursor, now, expiresAt) ==
    LET returning == ReturnControlRequested(control)
    IN  /\ Serving
        /\ cursor = eventSequence
        /\ epoch = control.leaseEpoch
        /\ control.automationBlocked
        /\ holder = NoConnection
        /\ expiresAt > now
        /\ expiresAt <= now + LeaseSpan
        /\ ReturnControlAllowed(control)
        /\ AgentReconcileAllowed(returning)
        /\ Grant(connection, AgentReconciled(returning, expiresAt))
        /\ ArmAlarm(expiresAt)
        /\ AppendEvent
        /\ UNCHANGED <<lifecycle, clock, lastResultSequence, actions,
                       workflowVars, cancelVars, dispatched>>

(***************************************************************************)
(* recordOwnerProgress: overwrites the phase of the effect, or creates it, *)
(* with whatever phase the report names.  Neither the phase stored nor the *)
(* receipts are consulted.                                                 *)
(***************************************************************************)
RecordOwnerProgress(epoch, cursor, step, effect, revision, phase) ==
    /\ Serving
    /\ Site = "OWNED_FIXTURE"
    /\ revision = jobRevision
    /\ control.controller = "USER"
    /\ control.automationBlocked
    /\ epoch = control.leaseEpoch
    /\ cursor = eventSequence
    /\ ~EffectConflict(step, effect)
    /\ effects' = IF step \in DOMAIN effects
                  THEN [effects EXCEPT ![step].phase = phase]
                  ELSE WithRow(effects, step,
                               [effect |-> effect, revision |-> revision,
                                canonical |-> NoAction, phase |-> phase])
    /\ AppendEvent
    /\ UNCHANGED <<lifecycle, controlVars, clock, lastResultSequence, actions,
                   jobRevision, receipts, checkpoint, cancelVars, historyVars>>

-------------------------------------------------------------------------------
(***************************************************************************)
(* The owner's requests.                                                   *)
(***************************************************************************)
CancelControl ==
    /\ Fence(JobCanceled(control))
    /\ canceled' = TRUE
    /\ AppendEvent
    /\ UNCHANGED <<lifecycle, alarm, clock, lastResultSequence, actions,
                   effects, receipts, checkpoint, historyVars>>

\* cancel, with a cancellation id: once per revision, and moves it on.
Cancel(id, expected) ==
    /\ Serving
    /\ id \notin DOMAIN cancellations
    /\ RevisionCurrent(expected)
    /\ jobRevision' = expected + 1
    /\ cancellations' = WithRow(cancellations, id, expected)
    /\ CancelControl

\* cancel, as the request without a body calls it.
CancelLegacy ==
    /\ Serving
    /\ CancelControl
    /\ UNCHANGED <<jobRevision, cancellations>>

RequestDesktopNotification ==
    /\ Serving
    /\ AppendEvent
    /\ UNCHANGED <<lifecycle, controlVars, clock, lastResultSequence, actions,
                   workflowVars, cancelVars, historyVars>>

Tick ==
    /\ clock < MaxClock
    /\ clock' = clock + 1
    /\ UNCHANGED <<lifecycle, controlVars, eventSequence, lastResultSequence,
                   actions, workflowVars, cancelVars, historyVars>>

-------------------------------------------------------------------------------
(***************************************************************************)
(* The inputs of the calls.                                                *)
(***************************************************************************)
Sequences == 1..MaxSequence
Cursors   == 0..eventSequence
Epochs    == 0..control.leaseEpoch
Revisions == FirstRevision..MaxRevision

LeaseCall ==
    \E c \in Connections, now \in RequestTimes :
      \/ \E span \in 1..LeaseSpan, sequence \in Sequences :
           now + span <= MaxClock /\ ClaimAgentLease(c, now + span, sequence)
      \/ \E epoch \in Epochs :
           now + LeaseSpan <= MaxClock /\ RenewAgentLease(c, epoch, now)
      \/ \E epoch \in Epochs : HostDisconnected(c, epoch)
      \/ HostReconnected(now)

CommandCall ==
    \E c \in Connections, action \in ActionIds, epoch \in Epochs,
       sequence \in Sequences :
      \/ \E now \in RequestTimes, class \in Classes :
           AcceptAuthenticationCommand(c, action, epoch, sequence, now, class)
      \/ \E now \in RequestTimes, step \in Steps, effect \in EffectIds,
            revision \in Revisions, mutating \in BOOLEAN :
           AcceptWorkflowCommand(c, action, epoch, sequence, now,
                                 step, effect, revision, mutating)
      \/ \E status \in Statuses :
           AcceptResult(c, action, epoch, sequence, status)

EffectCall ==
    \/ \E effect \in EffectIds :
         Steps # {} /\ InitializeWorkflow(1, effect, FirstRevision)
    \/ \E c \in Connections, action \in ActionIds, cursor \in Cursors,
          sent \in Checkpoints, next \in EffectIds :
         RecordWorkflowReceipt(c, action, cursor, sent, next)

HandOverCall ==
    \E c \in Connections, epoch \in Epochs, cursor \in Cursors :
      \/ TakeoverWorkflowControl(c, epoch, cursor)
      \/ \E now \in RequestTimes, span \in 1..LeaseSpan :
           /\ now + span <= MaxClock
           /\ ClaimFreshWorkflowLease(c, epoch, cursor, now, now + span)

OwnerReport ==
    \E epoch \in Epochs, cursor \in Cursors, step \in Steps,
       effect \in EffectIds, revision \in Revisions, phase \in OwnerPhases :
      RecordOwnerProgress(epoch, cursor, step, effect, revision, phase)

OwnerCall ==
    \/ \E id \in CancellationIds, expected \in Revisions :
         expected < MaxRevision /\ Cancel(id, expected)
    \/ CancelLegacy
    \/ RequestDesktopNotification
    \/ Destroy

Next ==
    \/ Initialize
    \/ LeaseCall
    \/ CommandCall
    \/ EffectCall
    \/ HandOverCall
    \/ OwnerReport
    \/ OwnerCall
    \/ AlarmFires
    \/ Tick

Spec == Init /\ [][Next]_vars

(***************************************************************************)
(* The platform runs a due alarm and time passes; no client owes anything. *)
(***************************************************************************)
FairSpec == Spec /\ WF_vars(AlarmFires) /\ WF_vars(Tick)

-------------------------------------------------------------------------------
(***************************************************************************)
(* Properties.                                                             *)
(***************************************************************************)

\* Every stored row keeps the shape its schema and its columns give it.
TypeOK ==
    /\ lifecycle \in {"ABSENT", "PRESENT", "DESTROYED"}
    /\ control \in ControlRecords
    /\ holder \in Connections \cup {NoConnection}
    /\ alarm \in Nat \cup {NoInstant}
    /\ clock \in Nat
    /\ eventSequence \in Nat
    /\ lastResultSequence \in Nat
    /\ jobRevision \in Nat
    /\ DOMAIN actions \subseteq ActionIds
    /\ \A a \in DOMAIN actions : actions[a] \in ActionRecords
    /\ DOMAIN effects \subseteq Steps
    /\ \A s \in DOMAIN effects : effects[s] \in EffectRecords
    /\ receipts \subseteq EffectIds
    /\ checkpoint \in Checkpoints \cup {NoCheckpoint}
    /\ DOMAIN cancellations \subseteq CancellationIds
    /\ \A id \in DOMAIN cancellations : cancellations[id] \in Nat
    /\ canceled \in BOOLEAN
    /\ grantedEpoch \in Nat
    /\ dispatched \subseteq Nat \X Connections

(***************************************************************************)
(* The stored control always satisfies browserControlStateSchema: every    *)
(* method starts by parsing it, and one state that does not parse would    *)
(* make every later call of the session throw.                             *)
(***************************************************************************)
ControlSchemaValid == SchemaValid(control)

(***************************************************************************)
(* A connection is recorded as holder exactly while the agent controls.  A *)
(* holder left behind by a fence would refuse every later claim of the     *)
(* session; a lease without a holder could be neither used nor renewed.    *)
(***************************************************************************)
HolderIffAgent == Leased <=> holder # NoConnection

(***************************************************************************)
(* The one alarm of the object is set for the expiry of the current lease, *)
(* whatever claims, renewals, takeovers and stale alarms came before,      *)
(* unless the lease had already expired when its claim was served.         *)
(***************************************************************************)
AlarmTracksLease ==
    Leased => \/ alarm = control.leaseExpiresAt
              \/ control.leaseExpiresAt <= clock

(***************************************************************************)
(* alarm() does not read the expiry it is about to enforce, so that it     *)
(* must never run on a lease still valid: a firing that takes control from *)
(* the agent finds the lease expired.                                      *)
(***************************************************************************)
AlarmSparesLiveLease ==
    [][ (Leased /\ alarm # NoInstant /\ alarm' = NoInstant /\ Serving')
          => control.leaseExpiresAt <= clock ]_vars

(***************************************************************************)
(* No sequence of results, receipts and reconnections leaves an action in  *)
(* the state retainedActions() rejects: RECOVERY_STATE_CORRUPT would bar   *)
(* the session from ever reconnecting.                                     *)
(***************************************************************************)
ActionsRecoverable == \A a \in DOMAIN actions : Recoverable(actions[a])

(***************************************************************************)
(* After a cancellation of a revision no command of that revision, or of   *)
(* an older one, is accepted, whatever lease it arrives under.             *)
(***************************************************************************)
CanceledRevisionFenced ==
    [][ \A a \in DOMAIN actions' \ DOMAIN actions :
          actions'[a].binding # NoBinding =>
            \A id \in DOMAIN cancellations :
              actions'[a].binding.revision > cancellations[id] ]_vars

(***************************************************************************)
(* The coordinator implements the lease promise of LeaseGrants.            *)
(***************************************************************************)
Grants == INSTANCE LeaseGrants WITH
            owner <- holder, issued <- grantedEpoch, log <- dispatched

ImplementsLeaseGrants == Grants!Spec

(***************************************************************************)
(* The coordinator implements the promise of LogicalEffects: whatever      *)
(* leases, revisions, hand-backs and the owner's reports do in between, a  *)
(* step is bound once, performed by one action and receipted once.         *)
(***************************************************************************)
Logical ==
    INSTANCE LogicalEffects WITH
      progress <- [s \in DOMAIN effects |->
                     [effect    |-> effects[s].effect,
                      canonical |-> effects[s].canonical]],
      accepted <- [a \in {b \in DOMAIN actions : actions[b].binding # NoBinding}
                     |-> actions[a].binding.step],
      receipted <- receipts

ImplementsLogicalEffects == Logical!Spec

(***************************************************************************)
(* An expired lease whose alarm is armed is eventually fenced, or renewed  *)
(* by a request that had entered its route before the expiry: it does not  *)
(* block the session for ever.                                             *)
(***************************************************************************)
LeaseExpired == Leased /\ control.leaseExpiresAt <= clock

ArmedLeaseFenced == (LeaseExpired /\ alarm # NoInstant) ~> ~LeaseExpired
===============================================================================
