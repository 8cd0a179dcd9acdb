----------------------- MODULE SessionCoordinatorProofs -----------------------
(***************************************************************************)
(* Theorems about SessionCoordinator, for every number of connections,     *)
(* actions, effects and steps and for every bound: what the pure functions *)
(* of the control record and of reconciliation guarantee, that the stored  *)
(* rows stay well formed, who holds the lease, when its alarm is due, and  *)
(* that the coordinator implements LeaseGrants; then the workflow: its     *)
(* effects, their receipts and the actions that perform them, what a       *)
(* cancellation fences, and that the coordinator implements LogicalEffects.*)
(* Last, of HandBack: what hand-backs write agrees with the receipts.      *)
(***************************************************************************)
EXTENDS HandBack, TLAPS

-------------------------------------------------------------------------------
(***************************************************************************)
(* The steps of a coordinator of which nothing is known but that an        *)
(* owner's report names some phase.  Those of SessionCoordinator, with the *)
(* phases of OwnerPhases, and those of HandBack are among them.            *)
(***************************************************************************)
AnyReport ==
    \E epoch, cursor, revision :
      \E step \in Steps, effect \in EffectIds, phase \in ActionPhases :
        RecordOwnerProgress(epoch, cursor, step, effect, revision, phase)

AnyStep == OtherCall \/ AnyReport

AnySpec == Init /\ [][AnyStep]_vars

WorkflowCall == EffectCall \/ HandOverCall \/ AnyReport

LEMMA SpecIsAny == Spec => AnySpec
<1>1. ASSUME OwnerReport PROVE AnyReport
  <2>1. PICK epoch \in Epochs, cursor \in Cursors, step \in Steps,
             effect \in EffectIds, revision \in Revisions, phase \in OwnerPhases :
          RecordOwnerProgress(epoch, cursor, step, effect, revision, phase)
    BY <1>1 DEF OwnerReport
  <2>2. phase \in ActionPhases
    BY BoundsAssumption
  <2> QED
    BY <2>1, <2>2 DEF AnyReport
<1>2. Next => AnyStep
  BY <1>1 DEF Next, AnyStep, OtherCall
<1>3. [Next]_vars => [AnyStep]_vars
  BY <1>2
<1> QED
  BY <1>3, PTL DEF Spec, AnySpec

-------------------------------------------------------------------------------
(***************************************************************************)
(* The pure functions: no transition the code admits, and no recovery      *)
(* verdict, produces a state that browserControlStateSchema would refuse,  *)
(* and none reuses an epoch under which an agent held the lease.           *)
(***************************************************************************)

(***************************************************************************)
(* The schema alone is not preserved: it admits a QUIESCING record that    *)
(* still carries an expiry, and TAKEOVER_QUIESCED would make of it a USER  *)
(* record that does not parse.  No reachable record is like that, because  *)
(* an expiry, and leave to automate, are only ever the agent's.            *)
(***************************************************************************)
OnlyAgentLeases(s) ==
    s.controller # "AGENT" =>
        s.leaseExpiresAt = NoInstant /\ s.automationBlocked

SoundControls == {s \in ControlStates : OnlyAgentLeases(s)}

LEMMA SoundControlTyped ==
    ASSUME NEW s \in SoundControls
    PROVE  /\ s \in ControlRecords
           /\ s.leaseEpoch \in Nat
           /\ s.leaseEpoch + 1 \in Nat
           /\ SchemaValid(s)
           /\ OnlyAgentLeases(s)
<1>1. s \in ControlRecords /\ SchemaValid(s) /\ OnlyAgentLeases(s)
  BY DEF SoundControls, ControlStates
<1> QED
  BY <1>1 DEF ControlRecords

LEMMA InitialControlSound == InitialControl \in SoundControls
BY NoInstantAssumption
DEF SoundControls, OnlyAgentLeases, ControlStates, ControlRecords, Controllers,
    ConnectionStates, TakeoverStates, InitialControl, SchemaValid,
    AgentHoldsLiveLease, UserIsFenced, AbsentHasNoController,
    QuiescingIsFenced, OfflineMarkIsUser, ReconcilingIsUnowned

(***************************************************************************)
(* transitionBrowserControl: each admitted event leads from a sound record *)
(* to a sound record.  The coordinator stores the result of a transition   *)
(* without parsing it; this is why the parse of the next call succeeds.    *)
(***************************************************************************)
THEOREM TransitionsKeepSchema ==
    ASSUME NEW s \in SoundControls, NEW expiresAt \in Nat
    PROVE  /\ OnlineTakeoverAllowed(s) => OnlineTakeoverRequested(s) \in SoundControls
           /\ QuiesceAllowed(s) => TakeoverQuiesced(s) \in SoundControls
           /\ HostOfflineAllowed(s) => HostWentOffline(s) \in SoundControls
           /\ OfflineTakeoverAllowed(s) => OfflineTakeoverRequested(s) \in SoundControls
           /\ HostReconnectAllowed(s) => HostReconnect(s) \in SoundControls
           /\ ReturnControlAllowed(s) => ReturnControlRequested(s) \in SoundControls
           /\ AgentReconcileAllowed(s) => AgentReconciled(s, expiresAt) \in SoundControls
           /\ JobCanceled(s) \in SoundControls
<1> USE NoInstantAssumption, SoundControlTyped
    DEF SoundControls, OnlyAgentLeases, ControlStates, ControlRecords,
        Controllers, ConnectionStates, TakeoverStates, SchemaValid,
        AgentHoldsLiveLease, UserIsFenced, AbsentHasNoController,
        QuiescingIsFenced, OfflineMarkIsUser, ReconcilingIsUnowned
<1>1. OnlineTakeoverAllowed(s) => OnlineTakeoverRequested(s) \in SoundControls
  BY DEF OnlineTakeoverAllowed, OnlineTakeoverRequested
<1>2. QuiesceAllowed(s) => TakeoverQuiesced(s) \in SoundControls
  BY DEF QuiesceAllowed, TakeoverQuiesced
<1>3. HostOfflineAllowed(s) => HostWentOffline(s) \in SoundControls
  BY DEF HostOfflineAllowed, HostWentOffline
<1>4. OfflineTakeoverAllowed(s) => OfflineTakeoverRequested(s) \in SoundControls
  BY DEF OfflineTakeoverAllowed, OfflineTakeoverRequested
<1>5. HostReconnectAllowed(s) => HostReconnect(s) \in SoundControls
  BY DEF HostReconnectAllowed, HostReconnect
<1>6. ReturnControlAllowed(s) => ReturnControlRequested(s) \in SoundControls
  BY DEF ReturnControlAllowed, ReturnControlRequested
<1>7. AgentReconcileAllowed(s) => AgentReconciled(s, expiresAt) \in SoundControls
  BY DEF AgentReconcileAllowed, AgentReconciled
<1>8. JobCanceled(s) \in SoundControls
  BY ZenonT(30) DEF JobCanceled
<1> QED
  BY <1>1, <1>2, <1>3, <1>4, <1>5, <1>6, <1>7, <1>8

(***************************************************************************)
(* reconcileBrowserRecovery: the control it returns is sound, hands the    *)
(* lease to nobody, and never goes back in epochs.                         *)
(***************************************************************************)
THEOREM RecoveryKeepsSchema ==
    ASSUME NEW s \in SoundControls, NEW recorded, NEW now \in Nat
    PROVE  /\ RecoveryControl(s, recorded, now) \in SoundControls
           /\ RecoveryControl(s, recorded, now).leaseEpoch >= s.leaseEpoch
           /\ s.controller # "AGENT" =>
                RecoveryControl(s, recorded, now).controller # "AGENT"
<1>1. /\ FenceForReconciliation(s) \in SoundControls
      /\ FenceForReconciliation(s).leaseEpoch >= s.leaseEpoch
      /\ s.controller # "AGENT" =>
           FenceForReconciliation(s).controller # "AGENT"
  <2>1. CASE s.connection # "ONLINE" \/ s.controller = "USER"
    BY <2>1, SoundControlTyped DEF FenceForReconciliation
  <2>2. CASE ~(s.connection # "ONLINE" \/ s.controller = "USER")
    <3> DEFINE epoch == IF s.controller = "AGENT" THEN s.leaseEpoch + 1
                        ELSE s.leaseEpoch
    <3>1. epoch \in Nat /\ epoch >= s.leaseEpoch
      BY SoundControlTyped
    <3>2. FenceForReconciliation(s) =
            [s EXCEPT !.controller = "NONE", !.leaseEpoch = epoch,
                      !.leaseExpiresAt = NoInstant, !.automationBlocked = TRUE,
                      !.takeover = "RECONCILING"]
      BY <2>2 DEF FenceForReconciliation
    <3> HIDE DEF epoch
    <3>3. /\ FenceForReconciliation(s) \in ControlRecords
          /\ FenceForReconciliation(s).leaseEpoch = epoch
          /\ FenceForReconciliation(s).controller = "NONE"
          /\ FenceForReconciliation(s).connection = "ONLINE"
          /\ FenceForReconciliation(s).leaseExpiresAt = NoInstant
          /\ FenceForReconciliation(s).automationBlocked
          /\ FenceForReconciliation(s).takeover = "RECONCILING"
      BY <2>2, <3>1, <3>2, SoundControlTyped
      DEF ControlRecords, Controllers, ConnectionStates, TakeoverStates
    <3> QED
      BY <3>1, <3>3
      DEF SoundControls, OnlyAgentLeases, ControlStates, SchemaValid,
          AgentHoldsLiveLease, UserIsFenced, AbsentHasNoController,
          QuiescingIsFenced, OfflineMarkIsUser, ReconcilingIsUnowned
  <2> QED
    BY <2>1, <2>2
<1>2. RecoveryControl(s, recorded, now) \in {s, FenceForReconciliation(s)}
  BY DEF RecoveryControl
<1> QED
  BY <1>1, <1>2, SoundControlTyped

(***************************************************************************)
(* reconcileAction is idempotent: a second reconnection reaches the same   *)
(* verdict on every action the first one has rewritten, so that a host     *)
(* that drops and returns repeatedly gains no permission to retry.         *)
(***************************************************************************)
THEOREM ReconciliationIdempotent ==
    ASSUME NEW phase \in ActionPhases, NEW postcondition \in Postconditions,
           NEW class \in MutationClasses,
           Recoverable([phase |-> phase, postcondition |-> postcondition,
                        mutationClass |-> class])
    PROVE  LET action == [phase |-> phase, postcondition |-> postcondition,
                          mutationClass |-> class]
               again  == [action EXCEPT !.phase = ReconciledPhase(action)]
           IN  /\ Disposition(again) = Disposition(action)
               /\ ReconciledPhase(again) = ReconciledPhase(action)
               /\ Recoverable(again)
BY DEF ActionPhases, Postconditions, MutationClasses, Recoverable, Disposition,
       ReconciledPhase, Resolution

(***************************************************************************)
(* resolveActionReconciliation: an action that was dispatched and is not   *)
(* harmless to repeat is never declared safe to retry.                     *)
(***************************************************************************)
THEOREM DispatchedMutationNeverRetried ==
    ASSUME NEW action, action.phase # "ACCEPTED",
           action.mutationClass = "NON_IDEMPOTENT"
    PROVE  Disposition(action) # "RETRY_ALLOWED"
BY DEF Disposition, Resolution

-------------------------------------------------------------------------------
(***************************************************************************)
(* Tables.                                                                 *)
(***************************************************************************)
LEMMA WithRowDomain ==
    ASSUME NEW table, NEW key, NEW row
    PROVE  /\ DOMAIN WithRow(table, key, row) = DOMAIN table \cup {key}
           /\ WithRow(table, key, row)[key] = row
           /\ \A k \in DOMAIN table :
                k # key => WithRow(table, key, row)[k] = table[k]
BY DEF WithRow

LEMMA WithRowTyped ==
    ASSUME NEW table, NEW Keys, NEW Rows,
           DOMAIN table \subseteq Keys, \A k \in DOMAIN table : table[k] \in Rows,
           NEW key \in Keys, NEW row \in Rows
    PROVE  /\ DOMAIN WithRow(table, key, row) \subseteq Keys
           /\ \A k \in DOMAIN WithRow(table, key, row) :
                WithRow(table, key, row)[k] \in Rows
BY DEF WithRow

-------------------------------------------------------------------------------
(***************************************************************************)
(* The control record.                                                     *)
(***************************************************************************)
LEMMA ClaimedControlSound ==
    ASSUME control \in SoundControls, control.connection = "ONLINE",
           NEW expiresAt \in Nat, NEW sequence \in Nat
    PROVE  /\ ClaimedControl(expiresAt, sequence) \in SoundControls
           /\ ClaimedControl(expiresAt, sequence).controller = "AGENT"
           /\ ClaimedControl(expiresAt, sequence).leaseExpiresAt = expiresAt
           /\ ClaimedControl(expiresAt, sequence).leaseEpoch = control.leaseEpoch + 1
BY NoInstantAssumption, SoundControlTyped
DEF ClaimedControl, SoundControls, OnlyAgentLeases, ControlStates,
    ControlRecords, Controllers, ConnectionStates, TakeoverStates, SchemaValid,
    AgentHoldsLiveLease, UserIsFenced, AbsentHasNoController,
    QuiescingIsFenced, OfflineMarkIsUser, ReconcilingIsUnowned

LEMMA SequencedControlSound ==
    ASSUME NEW s \in SoundControls, NEW sequence \in Nat
    PROVE  [s EXCEPT !.lastAcceptedSequence = sequence] \in SoundControls
BY DEF SoundControls, OnlyAgentLeases, ControlStates, ControlRecords,
       SchemaValid, AgentHoldsLiveLease, UserIsFenced, AbsentHasNoController,
       QuiescingIsFenced, OfflineMarkIsUser, ReconcilingIsUnowned

LEMMA RenewedControlSound ==
    ASSUME NEW s \in SoundControls, s.controller = "AGENT", NEW expiresAt \in Nat
    PROVE  [s EXCEPT !.leaseExpiresAt = expiresAt] \in SoundControls
BY NoInstantAssumption
DEF SoundControls, OnlyAgentLeases, ControlStates, ControlRecords,
    SchemaValid, AgentHoldsLiveLease, UserIsFenced, AbsentHasNoController,
    QuiescingIsFenced, OfflineMarkIsUser, ReconcilingIsUnowned

LEMMA ReconnectingControlSound ==
    ASSUME NEW s \in SoundControls, s.controller = "NONE"
    PROVE  [s EXCEPT !.connection = "ONLINE", !.takeover = "RECONCILING",
                     !.automationBlocked = TRUE, !.leaseExpiresAt = NoInstant]
             \in SoundControls
BY NoInstantAssumption
DEF SoundControls, OnlyAgentLeases, ControlStates, ControlRecords, Controllers,
    ConnectionStates, TakeoverStates, SchemaValid, AgentHoldsLiveLease,
    UserIsFenced, AbsentHasNoController, QuiescingIsFenced, OfflineMarkIsUser,
    ReconcilingIsUnowned

-------------------------------------------------------------------------------
(***************************************************************************)
(* Types.  The schema of the control record and OnlyAgentLeases are part   *)
(* of the induction: TypeOK needs the record's fields, and every later     *)
(* theorem needs a record that parses.                                     *)
(***************************************************************************)
TypeInv == TypeOK /\ control \in SoundControls

LEMMA InputsTyped ==
    ASSUME TypeOK
    PROVE  /\ RequestTimes \subseteq Nat
           /\ Epochs \subseteq Nat
           /\ Sequences \subseteq Nat
           /\ Revisions \subseteq Nat
           /\ Steps \subseteq Nat
           /\ LeaseSpan \in Nat
           /\ \A now \in Nat : Window(now) \in Nat
           /\ 1..LeaseSpan \subseteq Nat
BY TimeAssumption
DEF RequestTimes, Epochs, Sequences, Revisions, FirstRevision, Steps, Window

LEMMA TypeInit == Init => TypeInv
<1>1. InitialControl \in SoundControls /\ InitialControl \in ControlRecords
  BY InitialControlSound, SoundControlTyped
<1>2. DOMAIN EmptyTable = {}
  BY DEF EmptyTable
<1> SUFFICES ASSUME Init
             PROVE  TypeInv
  OBVIOUS
<1>3. control \in SoundControls /\ control \in ControlRecords
  BY <1>1 DEF Init
<1>4. /\ lifecycle \in {"ABSENT", "PRESENT", "DESTROYED"}
      /\ holder \in Connections \cup {NoConnection}
      /\ alarm \in Nat \cup {NoInstant}
      /\ clock \in Nat /\ eventSequence \in Nat /\ lastResultSequence \in Nat
      /\ jobRevision \in Nat
      /\ checkpoint \in Checkpoints \cup {NoCheckpoint}
      /\ canceled \in BOOLEAN
      /\ receipts \subseteq EffectIds
      /\ grantedEpoch \in Nat /\ dispatched \subseteq Nat \X Connections
  BY DEF Init, NoRevision
<1>5. /\ DOMAIN actions \subseteq ActionIds /\ DOMAIN actions = {}
      /\ DOMAIN effects \subseteq Steps /\ DOMAIN effects = {}
      /\ DOMAIN cancellations \subseteq CancellationIds
      /\ DOMAIN cancellations = {}
  BY <1>2 DEF Init
<1> QED
  BY <1>3, <1>4, <1>5 DEF TypeInv, TypeOK

LEMMA TypeLifecycle ==
    ASSUME TypeInv, Initialize \/ Destroy
    PROVE  TypeInv'
<1>1. InitialControl \in SoundControls /\ InitialControl \in ControlRecords
  BY InitialControlSound, SoundControlTyped
<1>2. CASE Initialize
  BY <1>1, <1>2
  DEF TypeInv, TypeOK, Initialize, workflowVars, cancelVars, historyVars
<1>3. CASE Destroy
  BY <1>1, <1>3
  DEF TypeInv, TypeOK, Destroy, Fence, EmptyTable, NoRevision, historyVars
<1> QED
  BY <1>2, <1>3

LEMMA TypeLease ==
    ASSUME TypeInv, LeaseCall
    PROVE  TypeInv'
<1> USE DEF TypeInv, TypeOK, workflowVars, cancelVars, historyVars
<1> SUFFICES ASSUME NEW c \in Connections, NEW now \in RequestTimes,
                    \/ \E span \in 1..LeaseSpan, sequence \in Sequences :
                         ClaimAgentLease(c, now + span, sequence)
                    \/ \E epoch \in Epochs : RenewAgentLease(c, epoch, now)
                    \/ \E epoch \in Epochs : HostDisconnected(c, epoch)
                    \/ HostReconnected(now)
             PROVE  TypeInv'
  BY DEF LeaseCall
<1>0. now \in Nat /\ LeaseSpan \in Nat /\ now + LeaseSpan \in Nat
  BY InputsTyped
<1>1. ASSUME NEW span \in 1..LeaseSpan, NEW sequence \in Sequences,
             ClaimAgentLease(c, now + span, sequence)
      PROVE  TypeInv'
  <2>1. now + span \in Nat /\ sequence \in Nat
    BY <1>0, InputsTyped
  <2>2. control' \in SoundControls
    BY <1>1, <2>1, ClaimedControlSound DEF ClaimAgentLease, Grant
  <2> QED
    BY <1>1, <2>1, <2>2, SoundControlTyped
    DEF ClaimAgentLease, Grant, ArmAlarm, AppendEvent
<1>2. ASSUME NEW epoch \in Epochs, RenewAgentLease(c, epoch, now)
      PROVE  TypeInv'
  <2>1. control' \in SoundControls
    BY <1>0, <1>2, RenewedControlSound DEF RenewAgentLease, Leased
  <2> QED
    BY <1>0, <1>2, <2>1, SoundControlTyped DEF RenewAgentLease, ArmAlarm
<1>3. ASSUME NEW epoch \in Epochs, HostDisconnected(c, epoch)
      PROVE  TypeInv'
  <2>1. control' \in SoundControls
    BY <1>0, <1>3, TransitionsKeepSchema DEF HostDisconnected, Fence
  <2> QED
    BY <1>3, <2>1, SoundControlTyped DEF HostDisconnected, Fence, AppendEvent
<1>4. CASE HostReconnected(now)
  <2>1. control' \in SoundControls
    BY <1>0, <1>4, ReconnectingControlSound, RecoveryKeepsSchema
    DEF HostReconnected
  <2>2. \A a \in DOMAIN actions : ReconciledPhase(actions[a]) \in ActionPhases
    BY DEF ReconciledPhase, ActionPhases
  <2>3. /\ DOMAIN actions' = DOMAIN actions
        /\ \A a \in DOMAIN actions :
             actions'[a] = [actions[a] EXCEPT !.phase = ReconciledPhase(actions[a])]
    BY <1>4 DEF HostReconnected
  <2>4. \A a \in DOMAIN actions' : actions'[a] \in ActionRecords
    BY <2>2, <2>3 DEF ActionRecords
  <2> QED
    BY <1>4, <2>1, <2>3, <2>4, SoundControlTyped
    DEF HostReconnected, AppendEvent
<1> QED
  BY <1>1, <1>2, <1>3, <1>4

LEMMA TypeClock ==
    ASSUME TypeInv, AlarmFires \/ Tick
    PROVE  TypeInv'
<1> USE DEF TypeInv, TypeOK, workflowVars, cancelVars, historyVars
<1>1. CASE AlarmFires
  <2>1. control' \in SoundControls
    BY <1>1, TransitionsKeepSchema DEF AlarmFires, Fence
  <2> QED
    BY <1>1, <2>1, SoundControlTyped DEF AlarmFires, Fence
<1>2. CASE Tick
  BY <1>2 DEF Tick, controlVars
<1> QED
  BY <1>1, <1>2

(***************************************************************************)
(* The transaction that retains an accepted command.                       *)
(***************************************************************************)
LEMMA TypeRetain ==
    ASSUME TypeInv, NEW c \in Connections, NEW action \in ActionIds,
           NEW epoch \in Nat, NEW sequence \in Nat, NEW now \in Nat,
           NEW class \in MutationClasses, NEW binding \in Bindings \cup {NoBinding},
           Retain(c, action, epoch, sequence, now, class, binding)
    PROVE  /\ control' \in SoundControls
           /\ control' \in ControlRecords
           /\ eventSequence' \in Nat
           /\ DOMAIN actions' \subseteq ActionIds
           /\ \A a \in DOMAIN actions' : actions'[a] \in ActionRecords
           /\ dispatched' \subseteq Nat \X Connections
<1> DEFINE row == [phase |-> "ACCEPTED", postcondition |-> "UNOBSERVED",
                   mutationClass |-> class, sequence |-> sequence,
                   window |-> Window(now), binding |-> binding]
<1>1. row \in ActionRecords
  BY InputsTyped DEF TypeInv, ActionRecords, ActionPhases, Postconditions
<1>2. actions' = WithRow(actions, action, row)
  BY DEF Retain
<1>3. /\ DOMAIN actions' \subseteq ActionIds
      /\ \A a \in DOMAIN actions' : actions'[a] \in ActionRecords
  <2> HIDE DEF row
  <2> QED
    BY <1>1, <1>2, WithRowTyped DEF TypeInv, TypeOK
<1>4. control' \in SoundControls /\ control' \in ControlRecords
  BY SequencedControlSound, SoundControlTyped DEF TypeInv, Retain
<1> QED
  BY <1>3, <1>4 DEF TypeInv, TypeOK, Retain, AppendEvent

LEMMA StepMutationClassTyped ==
    ASSUME NEW step, NEW mutating \in BOOLEAN
    PROVE  StepMutationClass(step, mutating) \in MutationClasses
BY DEF StepMutationClass, MutationClasses

LEMMA TypeEffects ==
    ASSUME TypeInv, NEW action \in ActionIds, NEW step \in Steps,
           NEW effect \in EffectIds, NEW revision \in Nat,
           NEW mutating \in BOOLEAN,
           BindWorkflowEffect(action, step, effect, revision, mutating)
    PROVE  /\ jobRevision' \in Nat
           /\ DOMAIN effects' \subseteq Steps
           /\ \A s \in DOMAIN effects' : effects'[s] \in EffectRecords
<1>1. CASE step \notin DOMAIN effects
  <2> DEFINE row == [effect |-> effect, revision |-> revision,
                     canonical |-> IF mutating THEN action ELSE NoAction,
                     phase |-> "ACCEPTED"]
  <2>1. row \in EffectRecords
    BY DEF EffectRecords, ActionPhases
  <2>2. effects' = WithRow(effects, step, row) /\ jobRevision' = revision
    BY <1>1 DEF BindWorkflowEffect
  <2> HIDE DEF row
  <2> QED
    BY <2>1, <2>2, WithRowTyped DEF TypeInv, TypeOK
<1>2. CASE step \in DOMAIN effects /\ TakesEffect(step, mutating)
  <2>1. /\ effects' = [effects EXCEPT ![step].canonical = action]
        /\ jobRevision' = jobRevision
    BY <1>2 DEF BindWorkflowEffect
  <2>2. [effects[step] EXCEPT !.canonical = action] \in EffectRecords
    BY <1>2 DEF TypeInv, TypeOK, EffectRecords
  <2> QED
    BY <1>2, <2>1, <2>2 DEF TypeInv, TypeOK
<1>3. CASE step \in DOMAIN effects /\ ~TakesEffect(step, mutating)
  <2>1. UNCHANGED <<effects, jobRevision>>
    BY <1>3 DEF BindWorkflowEffect
  <2> QED
    BY <2>1 DEF TypeInv, TypeOK
<1> QED
  BY <1>1, <1>2, <1>3

LEMMA UpdateFromResultTyped ==
    ASSUME NEW action \in ActionRecords, NEW status
    PROVE  UpdateFromResult(action, status) \in ActionRecords
BY DEF UpdateFromResult, ActionRecords, ActionPhases, Postconditions

LEMMA TypeCommand ==
    ASSUME TypeInv, CommandCall
    PROVE  TypeInv'
<1> USE DEF workflowVars, cancelVars, historyVars, controlVars
<1> SUFFICES ASSUME NEW c \in Connections, NEW action \in ActionIds,
                    NEW epoch \in Epochs, NEW sequence \in Sequences,
                    \/ \E now \in RequestTimes, class \in Classes :
                         AcceptAuthenticationCommand(c, action, epoch,
                                                     sequence, now, class)
                    \/ \E now \in RequestTimes, step \in Steps,
                          effect \in EffectIds, revision \in Revisions,
                          mutating \in BOOLEAN :
                         AcceptWorkflowCommand(c, action, epoch, sequence, now,
                                               step, effect, revision, mutating)
                    \/ \E status \in Statuses :
                         AcceptResult(c, action, epoch, sequence, status)
             PROVE  TypeInv'
  BY DEF CommandCall
<1>0. epoch \in Nat /\ sequence \in Nat
  BY InputsTyped DEF TypeInv
<1>1. ASSUME NEW now \in RequestTimes, NEW class \in Classes,
             AcceptAuthenticationCommand(c, action, epoch, sequence, now, class)
      PROVE  TypeInv'
  <2>1. now \in Nat /\ class \in MutationClasses
    BY InputsTyped, BoundsAssumption DEF TypeInv
  <2>2. Retain(c, action, epoch, sequence, now, class, NoBinding)
    BY <1>1 DEF AcceptAuthenticationCommand
  <2> QED
    BY <1>0, <1>1, <2>1, <2>2, TypeRetain
    DEF AcceptAuthenticationCommand, TypeInv, TypeOK
<1>2. ASSUME NEW now \in RequestTimes, NEW step \in Steps,
             NEW effect \in EffectIds, NEW revision \in Revisions,
             NEW mutating \in BOOLEAN,
             AcceptWorkflowCommand(c, action, epoch, sequence, now,
                                   step, effect, revision, mutating)
      PROVE  TypeInv'
  <2> DEFINE binding == [revision |-> revision, step |-> step,
                         effect |-> effect, leaseEpoch |-> epoch]
  <2>1. now \in Nat /\ revision \in Nat
    BY InputsTyped DEF TypeInv
  <2>2. binding \in Bindings \cup {NoBinding}
    BY <1>0, <2>1 DEF Bindings
  <2>3. /\ Retain(c, action, epoch, sequence, now,
                  StepMutationClass(step, mutating), binding)
        /\ BindWorkflowEffect(action, step, effect, revision, mutating)
    BY <1>2 DEF AcceptWorkflowCommand
  <2> HIDE DEF binding
  <2>4. /\ control' \in SoundControls
        /\ control' \in ControlRecords
        /\ eventSequence' \in Nat
        /\ DOMAIN actions' \subseteq ActionIds
        /\ \A a \in DOMAIN actions' : actions'[a] \in ActionRecords
        /\ dispatched' \subseteq Nat \X Connections
    BY <1>0, <2>1, <2>2, <2>3, StepMutationClassTyped, TypeRetain
  <2>5. /\ jobRevision' \in Nat
        /\ DOMAIN effects' \subseteq Steps
        /\ \A s \in DOMAIN effects' : effects'[s] \in EffectRecords
    BY <2>1, <2>3, TypeEffects
  <2> QED
    BY <1>2, <2>4, <2>5 DEF AcceptWorkflowCommand, TypeInv, TypeOK
<1>3. ASSUME NEW status \in Statuses,
             AcceptResult(c, action, epoch, sequence, status)
      PROVE  TypeInv'
  <2>1. UpdateFromResult(actions[action], status) \in ActionRecords
    BY <1>3, UpdateFromResultTyped DEF AcceptResult, TypeInv, TypeOK
  <2>2. /\ DOMAIN actions' = DOMAIN actions
        /\ \A a \in DOMAIN actions' : actions'[a] \in ActionRecords
    BY <1>3, <2>1 DEF AcceptResult, TypeInv, TypeOK
  <2> QED
    BY <1>0, <1>3, <2>2 DEF AcceptResult, AppendEvent, TypeInv, TypeOK
<1> QED
  BY <1>1, <1>2, <1>3

(***************************************************************************)
(* Marking the receipted effect changes phases only.                       *)
(***************************************************************************)
LEMMA TypeReceipt ==
    ASSUME TypeInv, NEW c \in Connections, NEW action \in ActionIds,
           NEW cursor, NEW sent \in Checkpoints, NEW next \in EffectIds,
           RecordWorkflowReceipt(c, action, cursor, sent, next)
    PROVE  TypeInv'
<1> DEFINE binding == actions[action].binding
           advance == sent.step = binding.step /\ binding.step # FinalStep
           stored  == IF advance THEN [step |-> binding.step + 1, effect |-> next]
                                 ELSE sent
           marked  == [s \in DOMAIN effects |->
                         IF s = binding.step /\ effects[s].effect = binding.effect
                         THEN [effects[s] EXCEPT !.phase = "RECEIPTED"]
                         ELSE effects[s]]
           row     == [effect |-> stored.effect, revision |-> binding.revision,
                       canonical |-> NoAction, phase |-> "ACCEPTED"]
<1>1. /\ action \in DOMAIN actions
      /\ actions[action] \in ActionRecords
      /\ binding \in Bindings
  BY DEF RecordWorkflowReceipt, TypeInv, TypeOK, ActionRecords
<1>2. /\ binding.step \in Steps
      /\ binding.effect \in EffectIds
      /\ binding.revision \in Nat
  BY <1>1 DEF Bindings
<1>3. stored \in Checkpoints
  BY <1>2, StepsAssumption DEF Checkpoints, Steps, FinalStep
<1>4. /\ DOMAIN marked \subseteq Steps
      /\ \A s \in DOMAIN marked : marked[s] \in EffectRecords
  BY DEF TypeInv, TypeOK, EffectRecords, ActionPhases
<1>5. /\ stored.step \in Steps
      /\ row \in EffectRecords
  BY <1>2, <1>3 DEF Checkpoints, EffectRecords, ActionPhases
<1>6. /\ effects' = IF stored.step \in DOMAIN effects THEN marked
                    ELSE WithRow(marked, stored.step, row)
      /\ receipts' = receipts \cup {binding.effect}
      /\ checkpoint' = stored
  BY DEF RecordWorkflowReceipt
<1>7. /\ DOMAIN effects' \subseteq Steps
      /\ \A s \in DOMAIN effects' : effects'[s] \in EffectRecords
  <2> HIDE DEF stored, marked, row
  <2> QED
    BY <1>4, <1>5, <1>6, WithRowTyped
<1>8. /\ DOMAIN actions' \subseteq ActionIds
      /\ \A a \in DOMAIN actions' : actions'[a] \in ActionRecords
  <2>1. [actions[action] EXCEPT !.phase = "RECEIPTED",
                                !.postcondition = "SATISFIED"] \in ActionRecords
    BY <1>1 DEF ActionRecords, ActionPhases, Postconditions
  <2>2. actions' = [actions EXCEPT ![action] =
                      [actions[action] EXCEPT !.phase = "RECEIPTED",
                                              !.postcondition = "SATISFIED"]]
    BY <1>1 DEF RecordWorkflowReceipt
  <2> QED
    BY <2>1, <2>2 DEF TypeInv, TypeOK
<1>9. receipts' \subseteq EffectIds /\ checkpoint' \in Checkpoints
  BY <1>2, <1>3, <1>6 DEF TypeInv, TypeOK
<1>10. /\ UNCHANGED <<lifecycle, control, holder, alarm, clock,
                      lastResultSequence, jobRevision, cancellations, canceled,
                      grantedEpoch, dispatched>>
       /\ eventSequence' = eventSequence + 1
  BY DEF RecordWorkflowReceipt, AppendEvent, controlVars, cancelVars,
         historyVars
<1> HIDE DEF stored, marked, row
<1> QED
  BY <1>7, <1>8, <1>9, <1>10 DEF TypeInv, TypeOK

LEMMA TypeWorkflow ==
    ASSUME TypeInv, WorkflowCall
    PROVE  TypeInv'
<1> USE DEF workflowVars, cancelVars, historyVars, controlVars
<1>1. ASSUME NEW effect \in EffectIds, 1 \in Steps,
             InitializeWorkflow(1, effect, FirstRevision)
      PROVE  TypeInv'
  <2> DEFINE row == [effect |-> effect, revision |-> FirstRevision,
                     canonical |-> NoAction, phase |-> "ACCEPTED"]
  <2>1. row \in EffectRecords /\ FirstRevision \in Nat
    BY DEF EffectRecords, ActionPhases, FirstRevision
  <2>2. effects' = WithRow(effects, 1, row)
    BY <1>1 DEF InitializeWorkflow
  <2> HIDE DEF row
  <2>3. /\ DOMAIN effects' \subseteq Steps
        /\ \A s \in DOMAIN effects' : effects'[s] \in EffectRecords
    BY <1>1, <2>1, <2>2, WithRowTyped DEF TypeInv, TypeOK
  <2> QED
    BY <1>1, <2>1, <2>3 DEF InitializeWorkflow, AppendEvent, TypeInv, TypeOK
<1>2. ASSUME NEW c \in Connections, NEW action \in ActionIds,
             NEW cursor \in Cursors, NEW sent \in Checkpoints,
             NEW next \in EffectIds,
             RecordWorkflowReceipt(c, action, cursor, sent, next)
      PROVE  TypeInv'
  BY <1>2, TypeReceipt
<1>3. ASSUME NEW c \in Connections, NEW epoch \in Epochs, NEW cursor \in Cursors,
             TakeoverWorkflowControl(c, epoch, cursor)
      PROVE  TypeInv'
  <2>1. control' \in SoundControls
    BY <1>3, TransitionsKeepSchema
    DEF TakeoverWorkflowControl, Fence, TypeInv
  <2> QED
    BY <1>3, <2>1, SoundControlTyped
    DEF TakeoverWorkflowControl, Fence, AppendEvent, TypeInv, TypeOK
<1>4. ASSUME NEW c \in Connections, NEW epoch \in Epochs, NEW cursor \in Cursors,
             NEW now \in RequestTimes, NEW span \in 1..LeaseSpan,
             ClaimFreshWorkflowLease(c, epoch, cursor, now, now + span)
      PROVE  TypeInv'
  <2>1. now + span \in Nat
    BY InputsTyped DEF TypeInv
  <2>2. control' \in SoundControls
    BY <1>4, <2>1, TransitionsKeepSchema
    DEF ClaimFreshWorkflowLease, Grant, TypeInv
  <2> QED
    BY <1>4, <2>1, <2>2, SoundControlTyped
    DEF ClaimFreshWorkflowLease, Grant, ArmAlarm, AppendEvent, TypeInv, TypeOK
<1>5. ASSUME NEW epoch, NEW cursor, NEW step \in Steps, NEW effect \in EffectIds,
             NEW revision, NEW phase \in ActionPhases,
             RecordOwnerProgress(epoch, cursor, step, effect, revision, phase)
      PROVE  TypeInv'
  <2> DEFINE row == [effect |-> effect, revision |-> revision,
                     canonical |-> NoAction, phase |-> phase]
  <2>1. revision \in Nat
    BY <1>5 DEF RecordOwnerProgress, TypeInv, TypeOK
  <2>2. row \in EffectRecords
    BY <2>1 DEF EffectRecords
  <2>3. effects' = IF step \in DOMAIN effects
                   THEN [effects EXCEPT ![step].phase = phase]
                   ELSE WithRow(effects, step, row)
    BY <1>5 DEF RecordOwnerProgress
  <2>4. step \in DOMAIN effects =>
          [effects[step] EXCEPT !.phase = phase] \in EffectRecords
    BY DEF TypeInv, TypeOK, EffectRecords
  <2> HIDE DEF row
  <2>5. /\ DOMAIN effects' \subseteq Steps
        /\ \A s \in DOMAIN effects' : effects'[s] \in EffectRecords
    BY <2>2, <2>3, <2>4, WithRowTyped DEF TypeInv, TypeOK
  <2> QED
    BY <1>5, <2>5 DEF RecordOwnerProgress, AppendEvent, TypeInv, TypeOK
<1>6. Steps # {} => 1 \in Steps
  BY StepsAssumption DEF Steps
<1> QED
  BY <1>1, <1>2, <1>3, <1>4, <1>5, <1>6 DEF WorkflowCall, EffectCall, HandOverCall, AnyReport

LEMMA TypeOwner ==
    ASSUME TypeInv, OwnerCall
    PROVE  TypeInv'
<1> USE DEF workflowVars, cancelVars, historyVars, controlVars
<1>1. ASSUME CancelControl
      PROVE  control' \in SoundControls /\ control' \in ControlRecords
  BY <1>1, TransitionsKeepSchema, SoundControlTyped
  DEF CancelControl, Fence, TypeInv
<1>2. ASSUME NEW id \in CancellationIds, NEW expected \in Revisions,
             Cancel(id, expected)
      PROVE  TypeInv'
  <2>1. expected \in Nat
    BY InputsTyped DEF TypeInv
  <2>2. /\ DOMAIN cancellations' \subseteq CancellationIds
        /\ \A k \in DOMAIN cancellations' : cancellations'[k] \in Nat
    BY <1>2, <2>1, WithRowTyped DEF Cancel, TypeInv, TypeOK
  <2> QED
    BY <1>1, <1>2, <2>1, <2>2
    DEF Cancel, CancelControl, Fence, AppendEvent, TypeInv, TypeOK
<1>3. CASE CancelLegacy
  BY <1>1, <1>3
  DEF CancelLegacy, CancelControl, Fence, AppendEvent, TypeInv, TypeOK
<1>4. CASE RequestDesktopNotification
  BY <1>4 DEF RequestDesktopNotification, AppendEvent, TypeInv, TypeOK
<1>5. CASE Destroy
  BY <1>5, TypeLifecycle
<1> QED
  BY <1>2, <1>3, <1>4, <1>5 DEF OwnerCall

LEMMA TypeStep == TypeInv /\ [AnyStep]_vars => TypeInv'
<1> SUFFICES ASSUME TypeInv, [AnyStep]_vars
             PROVE  TypeInv'
  OBVIOUS
<1>1. CASE UNCHANGED vars
  BY <1>1
  DEF vars, controlVars, workflowVars, cancelVars, historyVars, TypeInv, TypeOK
<1>2. CASE AnyStep
  BY <1>2, TypeLifecycle, TypeLease, TypeCommand, TypeWorkflow, TypeOwner,
     TypeClock
  DEF AnyStep, OtherCall, WorkflowCall
<1> QED
  BY <1>1, <1>2

LEMMA TypeInvariant == AnySpec => []TypeInv
BY TypeInit, TypeStep, PTL DEF AnySpec

(***************************************************************************)
(* Every stored row keeps the shape its schema and its columns give it.    *)
(***************************************************************************)
THEOREM TypeCorrect == Spec => []TypeOK
<1>1. TypeInv => TypeOK
  BY DEF TypeInv
<1> QED
  BY <1>1, TypeInvariant, SpecIsAny, PTL

(***************************************************************************)
(* The stored control always satisfies browserControlStateSchema, so that  *)
(* no method ever throws on the record an earlier one stored.              *)
(***************************************************************************)
THEOREM ControlParses == Spec => []ControlSchemaValid
<1>1. TypeInv => ControlSchemaValid
  BY SoundControlTyped DEF TypeInv, ControlSchemaValid
<1> QED
  BY <1>1, TypeInvariant, SpecIsAny, PTL

-------------------------------------------------------------------------------
(***************************************************************************)
(* The lease: who holds it, when its alarm is due, and that the            *)
(* coordinator implements LeaseGrants.                                     *)
(***************************************************************************)

(***************************************************************************)
(* The inductive invariant.  HolderIffAgent needs nothing else.  The epoch *)
(* parts say that the current lease is the last one granted, and that no   *)
(* claim can reuse an epoch: the coordinator only ever adds to the stored  *)
(* epoch, and a destroyed session, whose epoch is gone, grants no lease.   *)
(* AlarmTracksLease needs Leased => Serving, or a stale alarm could strip  *)
(* a lease of its own alarm without fencing it.                            *)
(***************************************************************************)
GrantInv ==
    /\ lifecycle = "ABSENT" => control.leaseEpoch = 0
    /\ Leased => Serving
    /\ Leased => control.leaseEpoch = grantedEpoch
    /\ lifecycle # "DESTROYED" => control.leaseEpoch >= grantedEpoch

LeaseInv == HolderIffAgent /\ GrantInv /\ AlarmTracksLease

LEMMA LeaseInit == Init => LeaseInv
BY DEF Init, InitialControl, LeaseInv, HolderIffAgent, GrantInv,
       AlarmTracksLease, Leased, Serving

(***************************************************************************)
(* A step that touches neither the lease nor the object's life keeps it.   *)
(***************************************************************************)
LEMMA LeaseUntouched ==
    ASSUME TypeInv, TypeInv', LeaseInv,
           UNCHANGED <<lifecycle, holder, alarm, grantedEpoch>>,
           control'.controller = control.controller,
           control'.leaseEpoch = control.leaseEpoch,
           control'.leaseExpiresAt = control.leaseExpiresAt,
           clock' >= clock
    PROVE  LeaseInv'
<1>1. HolderIffAgent'
  BY DEF LeaseInv, HolderIffAgent, Leased
<1>2. GrantInv'
  BY DEF LeaseInv, GrantInv, Leased, Serving
<1>3. Leased => control.leaseExpiresAt \in Nat
  BY SoundControlTyped
  DEF TypeInv, Leased, SchemaValid, AgentHoldsLiveLease, ControlRecords
<1>4. AlarmTracksLease'
  BY <1>3 DEF LeaseInv, AlarmTracksLease, Leased, TypeInv, TypeOK
<1> QED
  BY <1>1, <1>2, <1>4 DEF LeaseInv

\* A step that leaves the session without a lease keeps it.
LEMMA LeaseFenced ==
    ASSUME TypeInv, TypeInv', LeaseInv,
           control'.controller # "AGENT",
           holder' = NoConnection,
           UNCHANGED grantedEpoch,
           lifecycle' # "ABSENT",
           lifecycle' # "DESTROYED" =>
             /\ lifecycle # "DESTROYED"
             /\ control'.leaseEpoch >= control.leaseEpoch
    PROVE  LeaseInv'
<1>1. /\ control.leaseEpoch \in Nat /\ control'.leaseEpoch \in Nat
      /\ grantedEpoch \in Nat
  BY SoundControlTyped DEF TypeInv, TypeOK
<1> QED
  BY <1>1
  DEF LeaseInv, HolderIffAgent, GrantInv, AlarmTracksLease, Leased

\* A step that grants the lease anew, and arms its alarm, keeps it.
LEMMA LeaseGranted ==
    ASSUME TypeInv, TypeInv', LeaseInv, Serving,
           NEW c \in Connections, NEW next, NEW expiresAt \in Nat,
           Grant(c, next), ArmAlarm(expiresAt),
           next.controller = "AGENT", next.leaseExpiresAt = expiresAt,
           UNCHANGED <<lifecycle, clock>>
    PROVE  LeaseInv'
<1>1. HolderIffAgent'
  BY ConnectionAssumption DEF Grant, HolderIffAgent, Leased
<1>2. GrantInv'
  BY SoundControlTyped DEF Grant, GrantInv, Leased, Serving, TypeInv, TypeOK
<1>3. AlarmTracksLease'
  BY DEF Grant, ArmAlarm, AlarmTracksLease, Leased, TypeInv, TypeOK
<1> QED
  BY <1>1, <1>2, <1>3 DEF LeaseInv

LEMMA LeaseStep == TypeInv /\ TypeInv' /\ LeaseInv /\ [AnyStep]_vars => LeaseInv'
<1> SUFFICES ASSUME TypeInv, TypeInv', LeaseInv, [AnyStep]_vars
             PROVE  LeaseInv'
  OBVIOUS
<1> USE DEF controlVars, workflowVars, cancelVars, historyVars
<1>0. /\ control \in SoundControls /\ control \in ControlRecords
      /\ control.leaseEpoch \in Nat /\ clock \in Nat
      /\ Leased => control.leaseExpiresAt \in Nat
  BY SoundControlTyped
  DEF TypeInv, TypeOK, Leased, SchemaValid, AgentHoldsLiveLease, ControlRecords
<1>1. CASE UNCHANGED vars
  BY <1>0, <1>1, LeaseUntouched DEF vars
<1>2. CASE Initialize
  <2>1. /\ control'.controller # "AGENT"
        /\ control'.leaseEpoch >= control.leaseEpoch
    BY <1>2 DEF Initialize, InitialControl, LeaseInv, GrantInv
  <2> QED
    BY <1>2, <2>1, LeaseFenced DEF Initialize
<1>3. ASSUME NEW c \in Connections, NEW now \in RequestTimes,
             NEW span \in 1..LeaseSpan, NEW sequence \in Sequences,
             ClaimAgentLease(c, now + span, sequence)
      PROVE  LeaseInv'
  <2>1. now + span \in Nat /\ sequence \in Nat
    BY InputsTyped DEF TypeInv
  <2>2. /\ ClaimedControl(now + span, sequence).controller = "AGENT"
        /\ ClaimedControl(now + span, sequence).leaseExpiresAt = now + span
    BY <1>0, <1>3, <2>1, ClaimedControlSound DEF ClaimAgentLease
  <2> QED
    BY <1>3, <2>1, <2>2, LeaseGranted DEF ClaimAgentLease
<1>4. ASSUME NEW c \in Connections, NEW now \in RequestTimes,
             NEW epoch \in Epochs, RenewAgentLease(c, epoch, now)
      PROVE  LeaseInv'
  <2>1. now + LeaseSpan \in Nat
    BY InputsTyped DEF TypeInv
  <2>2. /\ control'.controller = control.controller
        /\ control'.leaseEpoch = control.leaseEpoch
        /\ control'.leaseExpiresAt = now + LeaseSpan
    BY <1>0, <1>4 DEF RenewAgentLease, ControlRecords
  <2>3. HolderIffAgent'
    BY <1>4, <2>2 DEF RenewAgentLease, LeaseInv, HolderIffAgent, Leased
  <2>4. GrantInv'
    BY <1>4, <2>2 DEF RenewAgentLease, LeaseInv, GrantInv, Leased, Serving
  <2>5. AlarmTracksLease'
    BY <1>0, <1>4, <2>1, <2>2 DEF RenewAgentLease, ArmAlarm, AlarmTracksLease
  <2> QED
    BY <2>3, <2>4, <2>5 DEF LeaseInv
<1>5. ASSUME NEW c \in Connections, NEW epoch \in Epochs,
             HostDisconnected(c, epoch)
      PROVE  LeaseInv'
  <2>1. /\ control'.controller # "AGENT"
        /\ control'.leaseEpoch = control.leaseEpoch
    BY <1>0, <1>5 DEF HostDisconnected, Fence, HostWentOffline, ControlRecords
  <2> QED
    BY <1>0, <1>5, <2>1, LeaseFenced DEF HostDisconnected, Fence, Serving
<1>6. ASSUME NEW now \in RequestTimes, HostReconnected(now)
      PROVE  LeaseInv'
  <2> DEFINE online == [control EXCEPT !.connection = "ONLINE",
                                       !.takeover = "RECONCILING",
                                       !.automationBlocked = TRUE,
                                       !.leaseExpiresAt = NoInstant]
  <2>1. /\ online \in SoundControls
        /\ online.leaseEpoch = control.leaseEpoch
        /\ online.controller # "AGENT"
    BY <1>0, <1>6, ReconnectingControlSound DEF HostReconnected, ControlRecords
  <2>2. control' = RecoveryControl(online, actions, now) /\ now \in Nat
    BY <1>6, InputsTyped DEF HostReconnected, TypeInv
  <2> HIDE DEF online
  <2>3. /\ control'.controller # "AGENT"
        /\ control'.leaseEpoch >= control.leaseEpoch
    BY <2>1, <2>2, RecoveryKeepsSchema
  <2>4. holder = NoConnection
    BY <1>6 DEF HostReconnected, LeaseInv, HolderIffAgent, Leased
  <2> QED
    BY <1>6, <2>3, <2>4, LeaseFenced DEF HostReconnected, Serving
<1>7. ASSUME CommandCall
      PROVE  LeaseInv'
  <2> DEFINE Sequenced ==
               /\ UNCHANGED <<lifecycle, holder, alarm, grantedEpoch, clock>>
               /\ \/ UNCHANGED control
                  \/ \E sequence :
                       control' = [control EXCEPT !.lastAcceptedSequence = sequence]
  <2>a. ASSUME NEW c, NEW action, NEW epoch, NEW sequence, NEW now, NEW class,
               AcceptAuthenticationCommand(c, action, epoch, sequence, now, class)
        PROVE  Sequenced
    BY <2>a DEF AcceptAuthenticationCommand, Retain
  <2>b. ASSUME NEW c, NEW action, NEW epoch, NEW sequence, NEW now, NEW step,
               NEW effect, NEW revision, NEW mutating,
               AcceptWorkflowCommand(c, action, epoch, sequence, now,
                                     step, effect, revision, mutating)
        PROVE  Sequenced
    BY <2>b DEF AcceptWorkflowCommand, Retain
  <2>c. ASSUME NEW c, NEW action, NEW epoch, NEW sequence, NEW status,
               AcceptResult(c, action, epoch, sequence, status)
        PROVE  Sequenced
    BY <2>c DEF AcceptResult
  <2>1. Sequenced
    BY <1>7, <2>a, <2>b, <2>c DEF CommandCall
  <2>2. /\ control'.controller = control.controller
        /\ control'.leaseEpoch = control.leaseEpoch
        /\ control'.leaseExpiresAt = control.leaseExpiresAt
    BY <1>0, <2>1 DEF ControlRecords
  <2> QED
    BY <1>0, <2>1, <2>2, LeaseUntouched
<1>8. ASSUME NEW c \in Connections, NEW epoch \in Epochs, NEW cursor \in Cursors,
             TakeoverWorkflowControl(c, epoch, cursor)
      PROVE  LeaseInv'
  <2>1. /\ control'.controller # "AGENT"
        /\ control'.leaseEpoch = control.leaseEpoch + 1
    BY <1>0, <1>8
    DEF TakeoverWorkflowControl, Fence, TakeoverQuiesced,
        OnlineTakeoverRequested, ControlRecords
  <2> QED
    BY <1>0, <1>8, <2>1, LeaseFenced
    DEF TakeoverWorkflowControl, Fence, Serving
<1>9. ASSUME NEW c \in Connections, NEW epoch \in Epochs, NEW cursor \in Cursors,
             NEW now \in RequestTimes, NEW span \in 1..LeaseSpan,
             ClaimFreshWorkflowLease(c, epoch, cursor, now, now + span)
      PROVE  LeaseInv'
  <2> DEFINE next == AgentReconciled(ReturnControlRequested(control), now + span)
  <2>1. now + span \in Nat
    BY InputsTyped DEF TypeInv
  <2>2. next.controller = "AGENT" /\ next.leaseExpiresAt = now + span
    BY <1>0 DEF AgentReconciled, ReturnControlRequested, ControlRecords
  <2>3. /\ Grant(c, next) /\ ArmAlarm(now + span) /\ Serving
        /\ UNCHANGED <<lifecycle, clock>>
    BY <1>9 DEF ClaimFreshWorkflowLease
  <2> HIDE DEF next
  <2> QED
    BY <2>1, <2>2, <2>3, LeaseGranted
<1>10. ASSUME \/ \E effect \in EffectIds :
                   InitializeWorkflow(1, effect, FirstRevision)
              \/ \E c \in Connections, action \in ActionIds, cursor \in Cursors,
                    sent \in Checkpoints, next \in EffectIds :
                   RecordWorkflowReceipt(c, action, cursor, sent, next)
              \/ \E epoch, cursor, revision, step, effect, phase :
                   RecordOwnerProgress(epoch, cursor, step, effect, revision, phase)
              \/ RequestDesktopNotification
              \/ Tick
       PROVE  LeaseInv'
  <2> DEFINE Same ==
               /\ UNCHANGED <<lifecycle, control, holder, alarm, grantedEpoch>>
               /\ clock' \in {clock, clock + 1}
  <2>a. ASSUME NEW effect, InitializeWorkflow(1, effect, FirstRevision)
        PROVE  Same
    BY <2>a DEF InitializeWorkflow
  <2>b. ASSUME NEW c, NEW action, NEW cursor, NEW sent, NEW next,
               RecordWorkflowReceipt(c, action, cursor, sent, next)
        PROVE  Same
    BY <2>b DEF RecordWorkflowReceipt
  <2>c. ASSUME NEW epoch, NEW cursor, NEW step, NEW effect, NEW revision, NEW phase,
               RecordOwnerProgress(epoch, cursor, step, effect, revision, phase)
        PROVE  Same
    BY <2>c DEF RecordOwnerProgress
  <2>d. RequestDesktopNotification \/ Tick => Same
    BY DEF RequestDesktopNotification, Tick
  <2>1. Same
    BY <1>10, <2>a, <2>b, <2>c, <2>d
  <2> QED
    BY <1>0, <2>1, LeaseUntouched
<1>11. ASSUME \/ \E id \in CancellationIds, expected \in Revisions :
                   Cancel(id, expected)
              \/ CancelLegacy
       PROVE  LeaseInv'
  <2>1. Serving /\ CancelControl
    BY <1>11 DEF Cancel, CancelLegacy
  <2>2. /\ control'.controller # "AGENT"
        /\ control'.leaseEpoch >= control.leaseEpoch
    BY <1>0, <2>1 DEF CancelControl, Fence, JobCanceled, ControlRecords
  <2> QED
    BY <2>1, <2>2, LeaseFenced DEF CancelControl, Fence, Serving
<1>12. CASE Destroy
  <2>1. /\ control'.controller # "AGENT" /\ holder' = NoConnection
        /\ UNCHANGED grantedEpoch /\ lifecycle' = "DESTROYED"
    BY <1>12 DEF Destroy, Fence, InitialControl
  <2> QED
    BY <2>1, LeaseFenced
<1>13. CASE AlarmFires
  <2>1. CASE Serving /\ Leased
    <3>1. /\ control.leaseExpiresAt # NoInstant /\ HostOfflineAllowed(control)
      BY <1>0, <2>1, SoundControlTyped
      DEF Leased, SchemaValid, AgentHoldsLiveLease, HostOfflineAllowed
    <3>2. Fence(HostWentOffline(control))
      BY <1>13, <2>1, <3>1 DEF AlarmFires
    <3>3. /\ control'.controller # "AGENT"
          /\ control'.leaseEpoch = control.leaseEpoch
      BY <1>0, <3>2 DEF Fence, HostWentOffline, ControlRecords
    <3> QED
      BY <1>0, <1>13, <2>1, <3>2, <3>3, LeaseFenced
      DEF AlarmFires, Fence, Serving
  <2>2. CASE ~(Serving /\ Leased)
    <3>1. ~Leased
      BY <2>2 DEF LeaseInv, GrantInv
    <3>2. UNCHANGED <<lifecycle, control, holder, grantedEpoch>>
      BY <1>13, <2>2 DEF AlarmFires
    <3> QED
      BY <3>1, <3>2
      DEF LeaseInv, HolderIffAgent, GrantInv, AlarmTracksLease, Leased, Serving
  <2> QED
    BY <2>1, <2>2
<1> QED
  BY <1>1, <1>2, <1>3, <1>4, <1>5, <1>6, <1>7, <1>8, <1>9, <1>10, <1>11, <1>12,
     <1>13
  DEF AnyStep, OtherCall, LeaseCall, WorkflowCall, EffectCall, HandOverCall,
      AnyReport, OwnerCall

LEMMA LeaseInvariant == AnySpec => [](TypeInv /\ LeaseInv)
<1>1. Init => TypeInv /\ LeaseInv
  BY TypeInit, LeaseInit
<1>2. TypeInv /\ LeaseInv /\ [AnyStep]_vars => (TypeInv /\ LeaseInv)'
  BY TypeStep, LeaseStep
<1> QED
  BY <1>1, <1>2, PTL DEF AnySpec

(***************************************************************************)
(* A connection is recorded as holder exactly while the agent controls:    *)
(* no fence of the coordinator leaves a holder behind that would refuse    *)
(* every later claim.                                                      *)
(***************************************************************************)
THEOREM HolderFollowsControl == Spec => []HolderIffAgent
<1>1. LeaseInv => HolderIffAgent
  BY DEF LeaseInv
<1> QED
  BY <1>1, LeaseInvariant, SpecIsAny, PTL

(***************************************************************************)
(* The object's one alarm is set for the expiry of the current lease,      *)
(* unless that lease had expired before its claim was served.              *)
(***************************************************************************)
THEOREM AlarmFollowsLease == Spec => []AlarmTracksLease
<1>1. LeaseInv => AlarmTracksLease
  BY DEF LeaseInv
<1> QED
  BY <1>1, LeaseInvariant, SpecIsAny, PTL

-------------------------------------------------------------------------------
(***************************************************************************)
(* The calls that neither grant nor fence the lease, nor dispatch under    *)
(* it, leave the alarm and everything LeaseGrants speaks of alone.         *)
(***************************************************************************)
LeaseFrame == UNCHANGED <<holder, alarm, grantedEpoch, dispatched>>

LEMMA FramedCalls ==
    /\ \A effect : InitializeWorkflow(1, effect, FirstRevision) => LeaseFrame
    /\ \A c, action, epoch, sequence, status :
         AcceptResult(c, action, epoch, sequence, status) => LeaseFrame
    /\ \A c, action, cursor, sent, next :
         RecordWorkflowReceipt(c, action, cursor, sent, next) => LeaseFrame
    /\ \A epoch, cursor, step, effect, revision, phase :
         RecordOwnerProgress(epoch, cursor, step, effect, revision, phase) => LeaseFrame
    /\ \A now : HostReconnected(now) => LeaseFrame
    /\ RequestDesktopNotification => LeaseFrame
    /\ Tick => LeaseFrame
    /\ UNCHANGED vars => LeaseFrame
<1> USE DEF LeaseFrame, controlVars, historyVars
<1>1. \A effect : InitializeWorkflow(1, effect, FirstRevision) => LeaseFrame
  BY DEF InitializeWorkflow
<1>2. \A c, action, epoch, sequence, status :
        AcceptResult(c, action, epoch, sequence, status) => LeaseFrame
  BY DEF AcceptResult
<1>3. \A c, action, cursor, sent, next :
        RecordWorkflowReceipt(c, action, cursor, sent, next) => LeaseFrame
  BY DEF RecordWorkflowReceipt
<1>4. \A epoch, cursor, step, effect, revision, phase :
        RecordOwnerProgress(epoch, cursor, step, effect, revision, phase) => LeaseFrame
  BY DEF RecordOwnerProgress
<1>5. \A now : HostReconnected(now) => LeaseFrame
  BY DEF HostReconnected
<1>6. RequestDesktopNotification \/ Tick \/ UNCHANGED vars => LeaseFrame
  BY DEF RequestDesktopNotification, Tick, vars
<1> QED
  BY <1>1, <1>2, <1>3, <1>4, <1>5, <1>6

\* A fence revokes the grant, or finds none.
LEMMA FenceRevokes ==
    ASSUME holder' = NoConnection, UNCHANGED historyVars
    PROVE  [Grants!Next]_(Grants!grantVars)
BY DEF historyVars, Grants!Next, Grants!Revoke, Grants!grantVars

\* A claim issues a grant with an epoch above every earlier one.
LEMMA ClaimIssues ==
    ASSUME TypeInv, LeaseInv, Serving, NEW c \in Connections, NEW next,
           Grant(c, next), holder = NoConnection, UNCHANGED dispatched,
           next.leaseEpoch = control.leaseEpoch + 1
    PROVE  Grants!Next
BY SoundControlTyped
DEF TypeInv, TypeOK, LeaseInv, GrantInv, Serving, Grant, Grants!Next,
    Grants!Issue

\* A command is dispatched by the holder under the epoch of its grant.
LEMMA CommandDispatches ==
    ASSUME TypeInv, LeaseInv, NEW c \in Connections, NEW action, NEW epoch,
           NEW sequence, NEW now, NEW class, NEW binding,
           CommandAdmitted(c, action, epoch, sequence, now),
           Retain(c, action, epoch, sequence, now, class, binding),
           UNCHANGED <<holder, grantedEpoch>>
    PROVE  Grants!Next
<1>1. /\ holder = c /\ c # NoConnection
      /\ epoch = grantedEpoch
  BY ConnectionAssumption
  DEF CommandAdmitted, CommandAccepted, LeaseInv, GrantInv, Leased
<1>2. dispatched' = dispatched \cup {<<epoch, c>>}
  BY DEF Retain
<1> QED
  BY <1>1, <1>2 DEF Grants!Next, Grants!Dispatch

LEMMA GrantStep ==
    TypeInv /\ LeaseInv /\ [AnyStep]_vars => [Grants!Next]_(Grants!grantVars)
<1> SUFFICES ASSUME TypeInv, LeaseInv, [AnyStep]_vars
             PROVE  [Grants!Next]_(Grants!grantVars)
  OBVIOUS
<1> USE DEF controlVars, historyVars
<1>0. LeaseFrame => [Grants!Next]_(Grants!grantVars)
  BY DEF LeaseFrame, Grants!grantVars
<1>1. Initialize => [Grants!Next]_(Grants!grantVars)
  BY FenceRevokes DEF Initialize
<1>2. ASSUME LeaseCall PROVE [Grants!Next]_(Grants!grantVars)
  <2>1. ASSUME NEW c \in Connections, NEW now \in RequestTimes,
               NEW span \in 1..LeaseSpan, NEW sequence \in Sequences,
               ClaimAgentLease(c, now + span, sequence)
        PROVE  Grants!Next
    <3>1. /\ now + span \in Nat /\ sequence \in Nat
          /\ control \in SoundControls /\ control.connection = "ONLINE"
      BY <2>1, InputsTyped DEF TypeInv, ClaimAgentLease
    <3>2. ClaimedControl(now + span, sequence).leaseEpoch = control.leaseEpoch + 1
      BY <3>1, ClaimedControlSound
    <3> QED
      BY <2>1, <3>2, ClaimIssues DEF ClaimAgentLease
  <2>2. ASSUME NEW c, NEW epoch, NEW now, RenewAgentLease(c, epoch, now)
        PROVE  UNCHANGED Grants!grantVars
    BY <2>2 DEF RenewAgentLease, Grants!grantVars
  <2>3. ASSUME NEW c, NEW epoch, HostDisconnected(c, epoch)
        PROVE  [Grants!Next]_(Grants!grantVars)
    BY <2>3, FenceRevokes DEF HostDisconnected, Fence
  <2> QED
    BY <1>0, <1>2, <2>1, <2>2, <2>3, FramedCalls DEF LeaseCall
<1>3. ASSUME CommandCall PROVE [Grants!Next]_(Grants!grantVars)
  <2>1. ASSUME NEW c \in Connections, NEW action, NEW epoch, NEW sequence,
               NEW now, NEW class,
               AcceptAuthenticationCommand(c, action, epoch, sequence, now, class)
        PROVE  Grants!Next
    BY <2>1, CommandDispatches DEF AcceptAuthenticationCommand
  <2>2. ASSUME NEW c \in Connections, NEW action, NEW epoch, NEW sequence,
               NEW now, NEW step, NEW effect, NEW revision, NEW mutating,
               AcceptWorkflowCommand(c, action, epoch, sequence, now,
                                     step, effect, revision, mutating)
        PROVE  Grants!Next
    BY <2>2, CommandDispatches DEF AcceptWorkflowCommand
  <2> QED
    BY <1>0, <1>3, <2>1, <2>2, FramedCalls DEF CommandCall
<1>4. ASSUME WorkflowCall PROVE [Grants!Next]_(Grants!grantVars)
  <2>1. ASSUME NEW c, NEW epoch, NEW cursor,
               TakeoverWorkflowControl(c, epoch, cursor)
        PROVE  [Grants!Next]_(Grants!grantVars)
    BY <2>1, FenceRevokes DEF TakeoverWorkflowControl, Fence
  <2>2. ASSUME NEW c \in Connections, NEW epoch, NEW cursor, NEW now,
               NEW expiresAt,
               ClaimFreshWorkflowLease(c, epoch, cursor, now, expiresAt)
        PROVE  Grants!Next
    <3> DEFINE next == AgentReconciled(ReturnControlRequested(control), expiresAt)
    <3>1. next.leaseEpoch = control.leaseEpoch + 1
      BY SoundControlTyped
      DEF TypeInv, AgentReconciled, ReturnControlRequested, ControlRecords
    <3>2. /\ Grant(c, next) /\ Serving /\ holder = NoConnection
          /\ UNCHANGED dispatched
      BY <2>2 DEF ClaimFreshWorkflowLease
    <3> HIDE DEF next
    <3> QED
      BY <3>1, <3>2, ClaimIssues
  <2> QED
    BY <1>0, <1>4, <2>1, <2>2, FramedCalls DEF WorkflowCall, EffectCall, HandOverCall, AnyReport
<1>5. ASSUME OwnerCall PROVE [Grants!Next]_(Grants!grantVars)
  <2>1. ASSUME NEW id, NEW expected, Cancel(id, expected)
        PROVE  [Grants!Next]_(Grants!grantVars)
    BY <2>1, FenceRevokes DEF Cancel, CancelControl, Fence
  <2>2. CancelLegacy \/ Destroy => [Grants!Next]_(Grants!grantVars)
    BY FenceRevokes DEF CancelLegacy, Destroy, CancelControl, Fence
  <2> QED
    BY <1>0, <1>5, <2>1, <2>2, FramedCalls DEF OwnerCall
<1>6. AlarmFires => [Grants!Next]_(Grants!grantVars)
  <2>1. AlarmFires => \/ holder' = NoConnection /\ UNCHANGED historyVars
                      \/ UNCHANGED <<holder, historyVars>>
    BY DEF AlarmFires, Fence
  <2> QED
    BY <2>1, FenceRevokes DEF Grants!grantVars
<1> QED
  BY <1>0, <1>1, <1>2, <1>3, <1>4, <1>5, <1>6, FramedCalls DEF AnyStep, OtherCall, WorkflowCall

(***************************************************************************)
(* The coordinator implements LeaseGrants: of the lease's whole life,      *)
(* claims, renewals, alarms, disconnects, takeovers, hand-backs and        *)
(* cancellations, nothing shows but grants with ever larger epochs, their  *)
(* revocation, and dispatches by the owner of the current one.             *)
(***************************************************************************)
THEOREM CoordinatorImplementsGrants == Spec => ImplementsLeaseGrants
<1>1. Init => Grants!Init
  BY DEF Init, Grants!Init
<1> QED
  BY <1>1, GrantStep, LeaseInvariant, SpecIsAny, PTL
  DEF AnySpec, ImplementsLeaseGrants, Grants!Spec

(***************************************************************************)
(* OneSenderPerEpoch alone is not inductive: a dispatch under the current  *)
(* epoch must agree with the owner, and no epoch of the log may lie ahead  *)
(* of the last grant, or the next grant could reuse it.                    *)
(***************************************************************************)
SenderInv ==
    /\ grantedEpoch \in Nat
    /\ dispatched \subseteq Nat \X Connections
    /\ holder \in Connections \cup {NoConnection}
    /\ \A p \in dispatched : p[1] <= grantedEpoch
    /\ holder # NoConnection =>
         \A p \in dispatched : p[1] = grantedEpoch => p[2] = holder
    /\ Grants!OneSenderPerEpoch

(***************************************************************************)
(* The promise of LeaseGrants rules out two senders under one epoch.       *)
(***************************************************************************)
THEOREM GrantsGiveOneSender == Grants!Spec => []Grants!OneSenderPerEpoch
<1>1. Grants!Init => SenderInv
  BY DEF Grants!Init, SenderInv, Grants!OneSenderPerEpoch
<1>2. SenderInv /\ [Grants!Next]_(Grants!grantVars) => SenderInv'
  <2> SUFFICES ASSUME SenderInv, [Grants!Next]_(Grants!grantVars)
               PROVE  SenderInv'
    OBVIOUS
  <2> USE DEF SenderInv, Grants!OneSenderPerEpoch
  <2>1. CASE Grants!Issue
    BY <2>1 DEF Grants!Issue
  <2>2. CASE Grants!Revoke
    BY <2>2 DEF Grants!Revoke
  <2>3. CASE Grants!Dispatch
    <3>1. /\ holder \in Connections
          /\ <<grantedEpoch, holder>> \in Nat \X Connections
      BY <2>3 DEF Grants!Dispatch
    <3>2. \A p \in dispatched' :
            p \in dispatched \/ (p[1] = grantedEpoch /\ p[2] = holder)
      BY <2>3 DEF Grants!Dispatch
    <3>3. Grants!OneSenderPerEpoch'
      BY <2>3, <3>2 DEF Grants!Dispatch
    <3> QED
      BY <2>3, <3>1, <3>2, <3>3 DEF Grants!Dispatch
  <2>4. CASE UNCHANGED Grants!grantVars
    BY <2>4 DEF Grants!grantVars
  <2> QED
    BY <2>1, <2>2, <2>3, <2>4 DEF Grants!Next
<1>3. SenderInv => Grants!OneSenderPerEpoch
  BY DEF SenderInv
<1> QED
  BY <1>1, <1>2, <1>3, PTL DEF Grants!Spec

(***************************************************************************)
(* "A Lease Epoch permanently invalidates every automated command from an  *)
(* earlier grant": the coordinator never accepts commands from two         *)
(* connections under one epoch.                                            *)
(***************************************************************************)
THEOREM OneConnectionPerEpoch == Spec => []Grants!OneSenderPerEpoch
BY GrantsGiveOneSender, CoordinatorImplementsGrants, PTL DEF ImplementsLeaseGrants

-------------------------------------------------------------------------------
(***************************************************************************)
(* Where the alarm is cleared.                                             *)
(***************************************************************************)
AlarmKept == alarm' = alarm \/ alarm' # NoInstant \/ ~Serving'

LEMMA ArmingKeepsAlarm ==
    ASSUME NEW expiresAt \in Nat, ArmAlarm(expiresAt)
    PROVE  AlarmKept
BY NoInstantAssumption DEF ArmAlarm, AlarmKept

LEMMA OnlyAlarmClears ==
    ASSUME TypeInv, [AnyStep]_vars, ~AlarmFires
    PROVE  AlarmKept
<1> USE DEF controlVars
<1>0. LeaseFrame => AlarmKept
  BY DEF LeaseFrame, AlarmKept
<1>1. Initialize \/ Destroy => AlarmKept
  BY DEF Initialize, Destroy, AlarmKept, Serving
<1>2. ASSUME LeaseCall PROVE AlarmKept
  <2>1. ASSUME NEW c, NEW now \in RequestTimes, NEW span \in 1..LeaseSpan,
               NEW sequence, ClaimAgentLease(c, now + span, sequence)
        PROVE  AlarmKept
    BY <2>1, InputsTyped, ArmingKeepsAlarm DEF TypeInv, ClaimAgentLease
  <2>2. ASSUME NEW c, NEW epoch, NEW now \in RequestTimes,
               RenewAgentLease(c, epoch, now)
        PROVE  AlarmKept
    BY <2>2, InputsTyped, ArmingKeepsAlarm DEF TypeInv, RenewAgentLease
  <2>3. ASSUME NEW c, NEW epoch, HostDisconnected(c, epoch)
        PROVE  AlarmKept
    BY <2>3 DEF HostDisconnected, AlarmKept
  <2> QED
    BY <1>0, <1>2, <2>1, <2>2, <2>3, FramedCalls DEF LeaseCall
<1>3. ASSUME CommandCall PROVE AlarmKept
  <2>1. ASSUME NEW c, NEW action, NEW epoch, NEW sequence, NEW now, NEW class,
               AcceptAuthenticationCommand(c, action, epoch, sequence, now, class)
        PROVE  AlarmKept
    BY <2>1 DEF AcceptAuthenticationCommand, AlarmKept
  <2>2. ASSUME NEW c, NEW action, NEW epoch, NEW sequence, NEW now, NEW step,
               NEW effect, NEW revision, NEW mutating,
               AcceptWorkflowCommand(c, action, epoch, sequence, now,
                                     step, effect, revision, mutating)
        PROVE  AlarmKept
    BY <2>2 DEF AcceptWorkflowCommand, AlarmKept
  <2> QED
    BY <1>0, <1>3, <2>1, <2>2, FramedCalls DEF CommandCall
<1>4. ASSUME WorkflowCall PROVE AlarmKept
  <2>1. ASSUME NEW c, NEW epoch, NEW cursor,
               TakeoverWorkflowControl(c, epoch, cursor)
        PROVE  AlarmKept
    BY <2>1 DEF TakeoverWorkflowControl, AlarmKept
  <2>2. ASSUME NEW c, NEW epoch, NEW cursor, NEW now \in RequestTimes,
               NEW span \in 1..LeaseSpan,
               ClaimFreshWorkflowLease(c, epoch, cursor, now, now + span)
        PROVE  AlarmKept
    BY <2>2, InputsTyped, ArmingKeepsAlarm DEF TypeInv, ClaimFreshWorkflowLease
  <2> QED
    BY <1>0, <1>4, <2>1, <2>2, FramedCalls DEF WorkflowCall, EffectCall, HandOverCall, AnyReport
<1>5. ASSUME OwnerCall PROVE AlarmKept
  <2>1. ASSUME NEW id, NEW expected, Cancel(id, expected) PROVE AlarmKept
    BY <2>1 DEF Cancel, CancelControl, AlarmKept
  <2>2. CancelLegacy => AlarmKept
    BY DEF CancelLegacy, CancelControl, AlarmKept
  <2> QED
    BY <1>0, <1>1, <1>5, <2>1, <2>2, FramedCalls DEF OwnerCall
<1> QED
  BY <1>0, <1>1, <1>2, <1>3, <1>4, <1>5, FramedCalls DEF AnyStep, OtherCall, WorkflowCall

(***************************************************************************)
(* alarm() does not read the expiry it enforces, and yet an alarm that     *)
(* takes control from the agent finds the lease expired.                   *)
(***************************************************************************)
THEOREM AlarmNeverEarly == Spec => AlarmSparesLiveLease
<1>1. ASSUME TypeInv, LeaseInv, [AnyStep]_vars,
             Leased, alarm # NoInstant, alarm' = NoInstant, Serving'
      PROVE  control.leaseExpiresAt <= clock
  <2>1. AlarmFires
    BY <1>1, OnlyAlarmClears DEF AlarmKept
  <2> QED
    BY <1>1, <2>1 DEF AlarmFires, LeaseInv, AlarmTracksLease
<1>2. TypeInv /\ LeaseInv /\ [AnyStep]_vars =>
        [ (Leased /\ alarm # NoInstant /\ alarm' = NoInstant /\ Serving')
            => control.leaseExpiresAt <= clock ]_vars
  BY <1>1
<1> QED
  BY <1>2, LeaseInvariant, SpecIsAny, PTL DEF AnySpec, AlarmSparesLiveLease

-------------------------------------------------------------------------------
(***************************************************************************)
(* What most calls leave alone.                                            *)
(***************************************************************************)
\* An action keeps its binding for as long as it is retained.
BindingsKept ==
    /\ DOMAIN actions' = DOMAIN actions
    /\ \A a \in DOMAIN actions : actions'[a].binding = actions[a].binding

LEMMA ReconnectionKeepsBindings ==
    ASSUME TypeOK, NEW now, HostReconnected(now)
    PROVE  BindingsKept
<1>1. /\ DOMAIN actions' = DOMAIN actions
      /\ \A a \in DOMAIN actions :
           actions'[a] = [actions[a] EXCEPT !.phase = ReconciledPhase(actions[a])]
  BY DEF HostReconnected
<1> QED
  BY <1>1 DEF BindingsKept, TypeOK, ActionRecords

LEMMA ResultKeepsBindings ==
    ASSUME TypeOK, NEW c, NEW action, NEW epoch, NEW sequence, NEW status,
           AcceptResult(c, action, epoch, sequence, status)
    PROVE  BindingsKept
<1>1. /\ action \in DOMAIN actions
      /\ actions' = [actions EXCEPT ![action] = UpdateFromResult(@, status)]
  BY DEF AcceptResult
<1>2. actions[action] \in ActionRecords
  BY <1>1 DEF TypeOK
<1>3. UpdateFromResult(actions[action], status).binding = actions[action].binding
  BY <1>2 DEF UpdateFromResult, ActionRecords
<1> QED
  BY <1>1, <1>3 DEF BindingsKept

LEMMA ReceiptKeepsBindings ==
    ASSUME TypeOK, NEW c, NEW action, NEW cursor, NEW sent, NEW next,
           RecordWorkflowReceipt(c, action, cursor, sent, next)
    PROVE  BindingsKept
<1>1. /\ action \in DOMAIN actions
      /\ actions' = [actions EXCEPT ![action].phase = "RECEIPTED",
                                    ![action].postcondition = "SATISFIED"]
  BY DEF RecordWorkflowReceipt
<1> QED
  BY <1>1 DEF BindingsKept, TypeOK, ActionRecords

-------------------------------------------------------------------------------
(***************************************************************************)
(* The inductive invariant: an effect is bound to one step, and a retained *)
(* action to the effect of its step.  Neither mentions a phase, so that    *)
(* both hold whatever an owner reports.                                    *)
(***************************************************************************)
EffectsDistinct ==
    \A s, t \in DOMAIN effects : effects[s].effect = effects[t].effect => s = t

BindingsHeld ==
    \A a \in DOMAIN actions :
      actions[a].binding # NoBinding =>
        /\ actions[a].binding.step \in DOMAIN effects
        /\ effects[actions[a].binding.step].effect = actions[a].binding.effect

WorkflowInv == EffectsDistinct /\ BindingsHeld

LEMMA WorkflowInit == Init => WorkflowInv
<1>1. DOMAIN EmptyTable = {}
  BY DEF EmptyTable
<1> QED
  BY <1>1
  DEF Init, WorkflowInv, EffectsDistinct, BindingsHeld

\* A call that binds no step.
LEMMA WorkflowUntouched ==
    ASSUME WorkflowInv, UNCHANGED effects, BindingsKept
    PROVE  WorkflowInv'
<1>1. EffectsDistinct'
  BY DEF WorkflowInv, EffectsDistinct
<1>2. BindingsHeld'
  BY DEF WorkflowInv, BindingsHeld, BindingsKept
<1> QED
  BY <1>1, <1>2 DEF WorkflowInv

(***************************************************************************)
(* The step is bound to the effect, as it may have been before, and every  *)
(* other step keeps its row.                                               *)
(***************************************************************************)
Bound(step, effect) ==
    /\ ~EffectConflict(step, effect)
    /\ DOMAIN effects' = DOMAIN effects \cup {step}
    /\ effects'[step].effect = effect
    /\ \A s \in DOMAIN effects : s # step => effects'[s] = effects[s]

\* No receipt is claimed: a step bound before keeps its phase.
PhaseKept(step) ==
    effects'[step].phase = IF step \in DOMAIN effects THEN effects[step].phase
                           ELSE "ACCEPTED"

\* Every retained action was retained before, or is a command of the step.
BindingsKeptOr(step, effect) ==
    \A a \in DOMAIN actions' :
      \/ a \in DOMAIN actions /\ actions'[a].binding = actions[a].binding
      \/ actions'[a].binding = NoBinding
      \/ /\ actions'[a].binding.step = step
         /\ actions'[a].binding.effect = effect

LEMMA BindingKeepsWorkflow ==
    ASSUME WorkflowInv, NEW step, NEW effect, Bound(step, effect),
           BindingsKeptOr(step, effect)
    PROVE  WorkflowInv'
<1>1. /\ \A s \in DOMAIN effects : effects'[s].effect = effects[s].effect
      /\ \A s \in DOMAIN effects : effects[s].effect = effect => s = step
  BY DEF Bound, EffectConflict
<1>2. EffectsDistinct'
  BY <1>1 DEF WorkflowInv, EffectsDistinct, Bound
<1>3. BindingsHeld'
  BY <1>1 DEF WorkflowInv, BindingsHeld, Bound, BindingsKeptOr
<1> QED
  BY <1>2, <1>3 DEF WorkflowInv

LEMMA NewRowBinds ==
    ASSUME NEW step, NEW row, step \notin DOMAIN effects,
           ~EffectConflict(step, row.effect),
           effects' = WithRow(effects, step, row)
    PROVE  Bound(step, row.effect) /\ effects'[step].phase = row.phase
<1>1. /\ DOMAIN effects' = DOMAIN effects \cup {step}
      /\ effects'[step] = row
      /\ \A s \in DOMAIN effects : s # step => effects'[s] = effects[s]
  BY DEF WithRow
<1> QED
  BY <1>1 DEF Bound

LEMMA InitializationBinds ==
    ASSUME NEW effect, InitializeWorkflow(1, effect, FirstRevision)
    PROVE  Bound(1, effect) /\ PhaseKept(1)
BY NewRowBinds DEF InitializeWorkflow, PhaseKept

LEMMA CommandBinds ==
    ASSUME TypeOK, NEW action, NEW step, NEW effect, NEW revision, NEW mutating,
           BindWorkflowEffect(action, step, effect, revision, mutating)
    PROVE  Bound(step, effect) /\ PhaseKept(step)
<1>1. CASE step \notin DOMAIN effects
  <2> DEFINE row == [effect |-> effect, revision |-> revision,
                     canonical |-> IF mutating THEN action ELSE NoAction,
                     phase |-> "ACCEPTED"]
  <2>1. /\ ~EffectConflict(step, row.effect)
        /\ row.phase = "ACCEPTED" /\ row.effect = effect
        /\ effects' = WithRow(effects, step, row)
    BY <1>1 DEF BindWorkflowEffect
  <2> HIDE DEF row
  <2> QED
    BY <1>1, <2>1, NewRowBinds DEF PhaseKept
<1>2. CASE step \in DOMAIN effects /\ TakesEffect(step, mutating)
  <2>1. /\ effects' = [effects EXCEPT ![step].canonical = action]
        /\ effects[step] \in EffectRecords
        /\ ~EffectConflict(step, effect)
    BY <1>2 DEF BindWorkflowEffect, TypeOK
  <2>2. effects[step].effect = effect
    BY <1>2, <2>1 DEF EffectConflict
  <2>3. /\ effects'[step].effect = effect
        /\ effects'[step].phase = effects[step].phase
    BY <1>2, <2>1, <2>2 DEF EffectRecords
  <2> QED
    BY <1>2, <2>1, <2>3 DEF Bound, PhaseKept
<1>3. CASE step \in DOMAIN effects /\ ~TakesEffect(step, mutating)
  <2>1. UNCHANGED effects /\ ~EffectConflict(step, effect)
    BY <1>3 DEF BindWorkflowEffect
  <2> QED
    BY <1>3, <2>1 DEF Bound, EffectConflict, PhaseKept
<1> QED
  BY <1>1, <1>2, <1>3

\* An owner's report, whatever phase it names, which it stores.
LEMMA ProgressBinds ==
    ASSUME TypeOK, NEW epoch, NEW cursor, NEW step, NEW effect, NEW revision,
           NEW phase,
           RecordOwnerProgress(epoch, cursor, step, effect, revision, phase)
    PROVE  Bound(step, effect) /\ effects'[step].phase = phase
<1>1. CASE step \notin DOMAIN effects
  <2> DEFINE row == [effect |-> effect, revision |-> revision,
                     canonical |-> NoAction, phase |-> phase]
  <2>1. /\ ~EffectConflict(step, row.effect)
        /\ row.phase = phase /\ row.effect = effect
        /\ effects' = WithRow(effects, step, row)
    BY <1>1 DEF RecordOwnerProgress
  <2> HIDE DEF row
  <2> QED
    BY <1>1, <2>1, NewRowBinds
<1>2. CASE step \in DOMAIN effects
  BY <1>2 DEF RecordOwnerProgress, Bound, EffectConflict, TypeOK, EffectRecords
<1> QED
  BY <1>1, <1>2

(***************************************************************************)
(* A receipt marks the one row its action is bound to, which had none, and *)
(* its checkpoint binds a step to an effect, as it may have been before.   *)
(***************************************************************************)
Receipted(action, step, effect) ==
    LET binding == actions[action].binding
    IN  /\ action \in DOMAIN actions
        /\ binding # NoBinding
        /\ binding.step \in DOMAIN effects
        /\ effects[binding.step].effect = binding.effect
        /\ binding.effect \notin receipts
        /\ receipts' = receipts \cup {binding.effect}
        /\ ~EffectConflict(step, effect)
        /\ DOMAIN effects' = DOMAIN effects \cup {step}
        /\ \A s \in DOMAIN effects :
             /\ effects'[s].effect = effects[s].effect
             /\ effects'[s].canonical = effects[s].canonical
             /\ effects'[s].phase = IF s = binding.step THEN "RECEIPTED"
                                    ELSE effects[s].phase
        /\ step \notin DOMAIN effects =>
             /\ effects'[step].effect = effect
             /\ effects'[step].canonical = NoAction
             /\ effects'[step].phase = "ACCEPTED"

LEMMA ReceiptMarks ==
    ASSUME TypeOK, WorkflowInv, NEW c, NEW action, NEW cursor,
           NEW sent \in Checkpoints, NEW next \in EffectIds,
           RecordWorkflowReceipt(c, action, cursor, sent, next)
    PROVE  \E step \in Steps, effect \in EffectIds :
             Receipted(action, step, effect)
<1> DEFINE binding == actions[action].binding
           advance == sent.step = binding.step /\ binding.step # FinalStep
           stored  == IF advance THEN [step |-> binding.step + 1, effect |-> next]
                                 ELSE sent
           marked  == [s \in DOMAIN effects |->
                         IF s = binding.step /\ effects[s].effect = binding.effect
                         THEN [effects[s] EXCEPT !.phase = "RECEIPTED"]
                         ELSE effects[s]]
           row     == [effect |-> stored.effect, revision |-> binding.revision,
                       canonical |-> NoAction, phase |-> "ACCEPTED"]
<1>1. /\ action \in DOMAIN actions
      /\ binding # NoBinding
      /\ binding \in Bindings
  BY DEF RecordWorkflowReceipt, TypeOK, ActionRecords
<1>2. binding.step \in Steps
  BY <1>1 DEF Bindings
<1>3. stored \in Checkpoints
  BY <1>2, StepsAssumption DEF Checkpoints, Steps, FinalStep
<1>4. /\ binding.effect \notin receipts
      /\ ~EffectConflict(stored.step, stored.effect)
      /\ receipts' = receipts \cup {binding.effect}
      /\ effects' = IF stored.step \in DOMAIN effects THEN marked
                    ELSE WithRow(marked, stored.step, row)
  BY DEF RecordWorkflowReceipt
<1>5. /\ binding.step \in DOMAIN effects
      /\ effects[binding.step].effect = binding.effect
  BY <1>1 DEF WorkflowInv, BindingsHeld
<1>6. /\ DOMAIN marked = DOMAIN effects
      /\ \A s \in DOMAIN effects :
           /\ marked[s].effect = effects[s].effect
           /\ marked[s].canonical = effects[s].canonical
           /\ marked[s].phase = IF s = binding.step THEN "RECEIPTED"
                                ELSE effects[s].phase
  BY <1>5 DEF TypeOK, EffectRecords
<1>7. row.effect = stored.effect /\ row.canonical = NoAction /\ row.phase = "ACCEPTED"
  OBVIOUS
<1>8. stored.step \in Steps /\ stored.effect \in EffectIds
  BY <1>3 DEF Checkpoints
<1> HIDE DEF stored, marked, row
<1>9. /\ DOMAIN effects' = DOMAIN effects \cup {stored.step}
      /\ \A s \in DOMAIN effects : effects'[s] = marked[s]
      /\ stored.step \notin DOMAIN effects => effects'[stored.step] = row
  <2>1. CASE stored.step \in DOMAIN effects
    BY <1>4, <1>6, <2>1
  <2>2. CASE stored.step \notin DOMAIN effects
    <3>1. effects' = WithRow(marked, stored.step, row)
      BY <1>4, <2>2
    <3> QED
      BY <1>6, <2>2, <3>1 DEF WithRow
  <2> QED
    BY <2>1, <2>2
<1>10. Receipted(action, stored.step, stored.effect)
  BY <1>1, <1>4, <1>5, <1>6, <1>7, <1>9 DEF Receipted
<1> QED
  BY <1>8, <1>10

LEMMA ReceiptKeepsWorkflow ==
    ASSUME WorkflowInv, BindingsKept, NEW action, NEW step, NEW effect,
           Receipted(action, step, effect)
    PROVE  WorkflowInv'
<1>1. /\ DOMAIN effects' = DOMAIN effects \cup {step}
      /\ \A s \in DOMAIN effects : effects'[s].effect = effects[s].effect
      /\ step \notin DOMAIN effects => effects'[step].effect = effect
  BY DEF Receipted
<1>2. \A s \in DOMAIN effects : effects[s].effect = effect => s = step
  BY DEF Receipted, EffectConflict
<1>3. EffectsDistinct'
  BY <1>1, <1>2 DEF WorkflowInv, EffectsDistinct
<1>4. BindingsHeld'
  BY <1>1 DEF WorkflowInv, BindingsHeld, BindingsKept
<1> QED
  BY <1>3, <1>4 DEF WorkflowInv

\* A new command is bound to the step its call binds.
LEMMA RetainKeepsBindings ==
    ASSUME NEW c, NEW action, NEW epoch, NEW sequence, NEW now, NEW class,
           NEW binding, NEW step, NEW effect,
           Retain(c, action, epoch, sequence, now, class, binding),
           binding # NoBinding => binding.step = step /\ binding.effect = effect
    PROVE  BindingsKeptOr(step, effect)
<1> DEFINE row == [phase |-> "ACCEPTED", postcondition |-> "UNOBSERVED",
                   mutationClass |-> class, sequence |-> sequence,
                   window |-> Window(now), binding |-> binding]
<1>1. actions' = WithRow(actions, action, row) /\ row.binding = binding
  BY DEF Retain
<1> HIDE DEF row
<1>2. /\ DOMAIN actions' = DOMAIN actions \cup {action}
      /\ actions'[action] = row
      /\ \A a \in DOMAIN actions : a # action => actions'[a] = actions[a]
  BY <1>1 DEF WithRow
<1> QED
  BY <1>1, <1>2 DEF BindingsKeptOr

LEMMA WorkflowStep ==
    TypeInv /\ WorkflowInv /\ [AnyStep]_vars => WorkflowInv'
<1> SUFFICES ASSUME TypeInv, WorkflowInv, [AnyStep]_vars
             PROVE  WorkflowInv'
  OBVIOUS
<1> USE DEF workflowVars
<1>0. /\ TypeOK
      /\ UNCHANGED actions => BindingsKept
      /\ \A step, effect : UNCHANGED actions => BindingsKeptOr(step, effect)
  BY DEF TypeInv, BindingsKept, BindingsKeptOr
<1>1. CASE UNCHANGED vars
  BY <1>0, <1>1, WorkflowUntouched DEF vars
<1>2. CASE Initialize \/ Tick \/ AlarmFires
  <2>1. UNCHANGED <<effects, actions>>
    BY <1>2 DEF Initialize, Tick, AlarmFires
  <2> QED
    BY <1>0, <2>1, WorkflowUntouched
<1>3. CASE LeaseCall
  <2>1. ASSUME NEW c, NEW expiresAt, NEW sequence,
               ClaimAgentLease(c, expiresAt, sequence)
        PROVE  UNCHANGED <<effects, actions>>
    BY <2>1 DEF ClaimAgentLease
  <2>2. ASSUME NEW c, NEW epoch, NEW now, RenewAgentLease(c, epoch, now)
        PROVE  UNCHANGED <<effects, actions>>
    BY <2>2 DEF RenewAgentLease
  <2>3. ASSUME NEW c, NEW epoch, HostDisconnected(c, epoch)
        PROVE  UNCHANGED <<effects, actions>>
    BY <2>3 DEF HostDisconnected
  <2>4. ASSUME NEW now, HostReconnected(now)
        PROVE  UNCHANGED effects /\ BindingsKept
    BY <1>0, <2>4, ReconnectionKeepsBindings DEF HostReconnected
  <2> QED
    BY <1>0, <1>3, <2>1, <2>2, <2>3, <2>4, WorkflowUntouched DEF LeaseCall
<1>4. CASE CommandCall
  <2>1. ASSUME NEW c, NEW action, NEW epoch, NEW sequence, NEW now, NEW class,
               AcceptAuthenticationCommand(c, action, epoch, sequence, now, class)
        PROVE  WorkflowInv'
    <3>1. /\ UNCHANGED effects
          /\ Retain(c, action, epoch, sequence, now, class, NoBinding)
      BY <2>1 DEF AcceptAuthenticationCommand
    <3>2. \A step, effect : BindingsKeptOr(step, effect)
      BY <3>1, RetainKeepsBindings
    <3>3. BindingsHeld'
      BY <3>1, <3>2 DEF WorkflowInv, BindingsHeld, BindingsKeptOr
    <3> QED
      BY <3>1, <3>3 DEF WorkflowInv, EffectsDistinct
  <2>2. ASSUME NEW c, NEW action, NEW epoch, NEW sequence, NEW now, NEW step,
               NEW effect, NEW revision, NEW mutating,
               AcceptWorkflowCommand(c, action, epoch, sequence, now,
                                     step, effect, revision, mutating)
        PROVE  WorkflowInv'
    <3> DEFINE binding == [revision |-> revision, step |-> step,
                           effect |-> effect, leaseEpoch |-> epoch]
    <3>1. /\ Retain(c, action, epoch, sequence, now,
                    StepMutationClass(step, mutating), binding)
          /\ BindWorkflowEffect(action, step, effect, revision, mutating)
          /\ binding.step = step /\ binding.effect = effect
      BY <2>2 DEF AcceptWorkflowCommand
    <3> HIDE DEF binding
    <3>2. BindingsKeptOr(step, effect)
      BY <3>1, RetainKeepsBindings
    <3> QED
      BY <1>0, <3>1, <3>2, CommandBinds, BindingKeepsWorkflow
  <2>3. ASSUME NEW c, NEW action, NEW epoch, NEW sequence, NEW status,
               AcceptResult(c, action, epoch, sequence, status)
        PROVE  WorkflowInv'
    BY <1>0, <2>3, ResultKeepsBindings, WorkflowUntouched DEF AcceptResult
  <2> QED
    BY <1>4, <2>1, <2>2, <2>3 DEF CommandCall
<1>5. CASE WorkflowCall
  <2>1. ASSUME NEW effect, InitializeWorkflow(1, effect, FirstRevision)
        PROVE  WorkflowInv'
    <3>1. UNCHANGED actions
      BY <2>1 DEF InitializeWorkflow
    <3> QED
      BY <1>0, <2>1, <3>1, InitializationBinds, BindingKeepsWorkflow
  <2>2. ASSUME NEW c, NEW action, NEW cursor, NEW sent \in Checkpoints,
               NEW next \in EffectIds,
               RecordWorkflowReceipt(c, action, cursor, sent, next)
        PROVE  WorkflowInv'
    BY <1>0, <2>2, ReceiptMarks, ReceiptKeepsBindings, ReceiptKeepsWorkflow
  <2>3. ASSUME NEW c, NEW epoch, NEW cursor,
               TakeoverWorkflowControl(c, epoch, cursor)
        PROVE  UNCHANGED <<effects, actions>>
    BY <2>3 DEF TakeoverWorkflowControl
  <2>4. ASSUME NEW c, NEW epoch, NEW cursor, NEW now, NEW expiresAt,
               ClaimFreshWorkflowLease(c, epoch, cursor, now, expiresAt)
        PROVE  UNCHANGED <<effects, actions>>
    BY <2>4 DEF ClaimFreshWorkflowLease
  <2>5. ASSUME NEW epoch, NEW cursor, NEW step, NEW effect, NEW revision,
               NEW phase,
               RecordOwnerProgress(epoch, cursor, step, effect, revision, phase)
        PROVE  WorkflowInv'
    <3>1. UNCHANGED actions
      BY <2>5 DEF RecordOwnerProgress
    <3> QED
      BY <1>0, <2>5, <3>1, ProgressBinds, BindingKeepsWorkflow
  <2> QED
    BY <1>0, <1>5, <2>1, <2>2, <2>3, <2>4, <2>5, WorkflowUntouched
    DEF WorkflowCall, EffectCall, HandOverCall, AnyReport
<1>6. CASE OwnerCall
  <2>1. ASSUME NEW id, NEW expected, Cancel(id, expected)
        PROVE  UNCHANGED <<effects, actions>>
    BY <2>1 DEF Cancel, CancelControl
  <2>2. CancelLegacy \/ RequestDesktopNotification =>
          UNCHANGED <<effects, actions>>
    BY DEF CancelLegacy, CancelControl, RequestDesktopNotification
  <2>3. Destroy => WorkflowInv'
    BY DEF Destroy, EmptyTable, WorkflowInv, EffectsDistinct, BindingsHeld
  <2> QED
    BY <1>0, <1>6, <2>1, <2>2, <2>3, WorkflowUntouched DEF OwnerCall
<1> QED
  BY <1>1, <1>2, <1>3, <1>4, <1>5, <1>6 DEF AnyStep, OtherCall, WorkflowCall

LEMMA WorkflowInvariant == AnySpec => [](TypeInv /\ WorkflowInv)
<1>1. Init => TypeInv /\ WorkflowInv
  BY TypeInit, WorkflowInit
<1>2. TypeInv /\ WorkflowInv /\ [AnyStep]_vars => (TypeInv /\ WorkflowInv)'
  BY TypeStep, WorkflowStep
<1> QED
  BY <1>1, <1>2, PTL DEF AnySpec

-------------------------------------------------------------------------------
(***************************************************************************)
(* Recovery.                                                               *)
(***************************************************************************)
LEMMA ResultRecoverable ==
    ASSUME NEW action \in ActionRecords, NEW status
    PROVE  Recoverable(UpdateFromResult(action, status))
BY DEF ActionRecords, UpdateFromResult, Recoverable

LEMMA ReconciledRecoverable ==
    ASSUME NEW action \in ActionRecords, Recoverable(action)
    PROVE  Recoverable([action EXCEPT !.phase = ReconciledPhase(action)])
BY DEF ActionRecords, ReconciledPhase, Recoverable

LEMMA RetainedRecoverable ==
    ASSUME NEW c, NEW action, NEW epoch, NEW sequence, NEW now, NEW class,
           NEW binding,
           Retain(c, action, epoch, sequence, now, class, binding),
           ActionsRecoverable
    PROVE  ActionsRecoverable'
<1> DEFINE row == [phase |-> "ACCEPTED", postcondition |-> "UNOBSERVED",
                   mutationClass |-> class, sequence |-> sequence,
                   window |-> Window(now), binding |-> binding]
<1>1. actions' = WithRow(actions, action, row) /\ Recoverable(row)
  BY DEF Retain, Recoverable
<1> HIDE DEF row
<1>2. \A a \in DOMAIN actions' : actions'[a] = row \/
                                 (a \in DOMAIN actions /\ actions'[a] = actions[a])
  BY <1>1 DEF WithRow
<1> QED
  BY <1>1, <1>2 DEF ActionsRecoverable

LEMMA RecoverableStep ==
    TypeOK /\ ActionsRecoverable /\ [AnyStep]_vars => ActionsRecoverable'
<1> SUFFICES ASSUME TypeOK, ActionsRecoverable, [AnyStep]_vars
             PROVE  ActionsRecoverable'
  OBVIOUS
<1>0. UNCHANGED actions => ActionsRecoverable'
  BY DEF ActionsRecoverable
<1>1. CASE UNCHANGED vars \/ Initialize \/ Tick \/ AlarmFires
  BY <1>0, <1>1 DEF vars, Initialize, Tick, AlarmFires
<1>2. CASE LeaseCall
  <2>1. ASSUME NEW c, NEW now,
               \/ \E expiresAt, sequence : ClaimAgentLease(c, expiresAt, sequence)
               \/ \E epoch : RenewAgentLease(c, epoch, now)
               \/ \E epoch : HostDisconnected(c, epoch)
        PROVE  UNCHANGED actions
    BY <2>1 DEF ClaimAgentLease, RenewAgentLease, HostDisconnected
  <2>2. ASSUME NEW now, HostReconnected(now)
        PROVE  ActionsRecoverable'
    <3>1. /\ DOMAIN actions' = DOMAIN actions
          /\ \A a \in DOMAIN actions :
               actions'[a] =
                 [actions[a] EXCEPT !.phase = ReconciledPhase(actions[a])]
      BY <2>2 DEF HostReconnected
    <3> QED
      BY <3>1, ReconciledRecoverable DEF ActionsRecoverable, TypeOK
  <2> QED
    BY <1>0, <1>2, <2>1, <2>2 DEF LeaseCall
<1>3. CASE CommandCall
  <2>1. ASSUME NEW c, NEW action, NEW epoch, NEW sequence, NEW now, NEW class,
               AcceptAuthenticationCommand(c, action, epoch, sequence, now, class)
        PROVE  ActionsRecoverable'
    BY <2>1, RetainedRecoverable DEF AcceptAuthenticationCommand
  <2>2. ASSUME NEW c, NEW action, NEW epoch, NEW sequence, NEW now, NEW step,
               NEW effect, NEW revision, NEW mutating,
               AcceptWorkflowCommand(c, action, epoch, sequence, now,
                                     step, effect, revision, mutating)
        PROVE  ActionsRecoverable'
    BY <2>2, RetainedRecoverable DEF AcceptWorkflowCommand
  <2>3. ASSUME NEW c, NEW action, NEW epoch, NEW sequence, NEW status,
               AcceptResult(c, action, epoch, sequence, status)
        PROVE  ActionsRecoverable'
    <3>1. /\ action \in DOMAIN actions
          /\ actions' = [actions EXCEPT ![action] = UpdateFromResult(@, status)]
      BY <2>3 DEF AcceptResult
    <3> QED
      BY <3>1, ResultRecoverable DEF ActionsRecoverable, TypeOK
  <2> QED
    BY <1>3, <2>1, <2>2, <2>3 DEF CommandCall
<1>4. CASE WorkflowCall
  <2>1. ASSUME NEW c, NEW action, NEW cursor, NEW sent, NEW next,
               RecordWorkflowReceipt(c, action, cursor, sent, next)
        PROVE  ActionsRecoverable'
    <3>1. /\ action \in DOMAIN actions
          /\ actions' = [actions EXCEPT ![action].phase = "RECEIPTED",
                                        ![action].postcondition = "SATISFIED"]
      BY <2>1 DEF RecordWorkflowReceipt
    <3> QED
      BY <3>1 DEF ActionsRecoverable, TypeOK, ActionRecords, Recoverable
  <2>2. ASSUME \/ \E effect : InitializeWorkflow(1, effect, FirstRevision)
               \/ \E c, epoch, cursor : TakeoverWorkflowControl(c, epoch, cursor)
               \/ \E c, epoch, cursor, now, expiresAt :
                    ClaimFreshWorkflowLease(c, epoch, cursor, now, expiresAt)
               \/ \E epoch, cursor, step, effect, revision, phase :
                    RecordOwnerProgress(epoch, cursor, step, effect, revision, phase)
        PROVE  UNCHANGED actions
    BY <2>2
    DEF InitializeWorkflow, TakeoverWorkflowControl, ClaimFreshWorkflowLease,
        RecordOwnerProgress
  <2> QED
    BY <1>0, <1>4, <2>1, <2>2 DEF WorkflowCall, EffectCall, HandOverCall, AnyReport
<1>5. CASE OwnerCall
  <2>1. ASSUME \/ \E id, expected : Cancel(id, expected)
               \/ CancelLegacy
               \/ RequestDesktopNotification
        PROVE  UNCHANGED actions
    BY <2>1 DEF Cancel, CancelLegacy, CancelControl, RequestDesktopNotification
  <2>2. Destroy => ActionsRecoverable'
    BY DEF Destroy, EmptyTable, ActionsRecoverable
  <2> QED
    BY <1>0, <1>5, <2>1, <2>2 DEF OwnerCall
<1> QED
  BY <1>1, <1>2, <1>3, <1>4, <1>5 DEF AnyStep, OtherCall, WorkflowCall

(***************************************************************************)
(* No order of results, receipts and reconnections stores a row that       *)
(* retainedActions() rejects: RECOVERY_STATE_CORRUPT cannot arise from the *)
(* coordinator's own writes, and a session can always be recovered.        *)
(***************************************************************************)
THEOREM RecoveryNeverCorrupt == Spec => []ActionsRecoverable
<1>1. Init => ActionsRecoverable
  BY DEF Init, EmptyTable, ActionsRecoverable
<1> QED
  BY <1>1, RecoverableStep, TypeCorrect, SpecIsAny, PTL DEF AnySpec

-------------------------------------------------------------------------------
(***************************************************************************)
(* Cancellation.  A revision once canceled lies below the workflow's, and  *)
(* a command is accepted only for the workflow's revision: the cancel that *)
(* records the one also moves the other, in one transaction.               *)
(***************************************************************************)
CancellationsPassed ==
    \A id \in DOMAIN cancellations : cancellations[id] < jobRevision

LEMMA RevisionMoves ==
    ASSUME TypeOK, CancellationsPassed, NEW revision \in Nat,
           RevisionCurrent(revision)
    PROVE  \A id \in DOMAIN cancellations : cancellations[id] < revision
BY DEF TypeOK, CancellationsPassed, RevisionCurrent, NoRevision

LEMMA CommandSetsRevision ==
    ASSUME NEW action, NEW step, NEW effect, NEW revision, NEW mutating,
           BindWorkflowEffect(action, step, effect, revision, mutating)
    PROVE  RevisionCurrent(revision) /\ jobRevision' \in {jobRevision, revision}
<1>1. step \in DOMAIN effects => UNCHANGED jobRevision
  BY DEF BindWorkflowEffect
<1> QED
  BY <1>1 DEF BindWorkflowEffect

LEMMA CancellationStep ==
    TypeOK /\ CancellationsPassed /\ [AnyStep]_vars => CancellationsPassed'
<1> SUFFICES ASSUME TypeOK, CancellationsPassed, [AnyStep]_vars
             PROVE  CancellationsPassed'
  OBVIOUS
<1> USE DEF workflowVars, cancelVars
<1> DEFINE Same == UNCHANGED <<cancellations, jobRevision>>
<1>0. Same => CancellationsPassed'
  BY DEF CancellationsPassed
<1>a. ASSUME NEW revision \in Nat, RevisionCurrent(revision),
             UNCHANGED cancellations, jobRevision' \in {jobRevision, revision}
      PROVE  CancellationsPassed'
  BY <1>a, RevisionMoves DEF CancellationsPassed
<1>b. FirstRevision \in Nat /\ Revisions \subseteq Nat
  BY InputsTyped DEF FirstRevision
<1>1. CASE UNCHANGED vars \/ Initialize \/ Tick \/ AlarmFires
  BY <1>0, <1>1 DEF vars, Initialize, Tick, AlarmFires
<1>2. CASE LeaseCall
  <2>1. ASSUME NEW c, NEW now,
               \/ \E expiresAt, sequence : ClaimAgentLease(c, expiresAt, sequence)
               \/ \E epoch : RenewAgentLease(c, epoch, now)
               \/ \E epoch : HostDisconnected(c, epoch)
               \/ HostReconnected(now)
        PROVE  Same
    BY <2>1 DEF ClaimAgentLease, RenewAgentLease, HostDisconnected,
                HostReconnected
  <2> QED
    BY <1>0, <1>2, <2>1 DEF LeaseCall
<1>3. CASE CommandCall
  <2>1. ASSUME NEW c, NEW action, NEW epoch, NEW sequence,
               \/ \E now, class :
                    AcceptAuthenticationCommand(c, action, epoch, sequence, now,
                                                class)
               \/ \E status : AcceptResult(c, action, epoch, sequence, status)
        PROVE  Same
    BY <2>1 DEF AcceptAuthenticationCommand, AcceptResult
  <2>2. ASSUME NEW c, NEW action, NEW epoch, NEW sequence, NEW now, NEW step,
               NEW effect, NEW revision \in Revisions, NEW mutating,
               AcceptWorkflowCommand(c, action, epoch, sequence, now,
                                     step, effect, revision, mutating)
        PROVE  CancellationsPassed'
    BY <1>a, <1>b, <2>2, CommandSetsRevision DEF AcceptWorkflowCommand
  <2> QED
    BY <1>0, <1>3, <2>1, <2>2 DEF CommandCall
<1>4. CASE WorkflowCall
  <2>1. ASSUME NEW effect, InitializeWorkflow(1, effect, FirstRevision)
        PROVE  CancellationsPassed'
    BY <1>a, <1>b, <2>1 DEF InitializeWorkflow
  <2>2. ASSUME NEW c, NEW action, NEW cursor, NEW sent, NEW next,
               RecordWorkflowReceipt(c, action, cursor, sent, next)
        PROVE  Same
    BY <2>2 DEF RecordWorkflowReceipt
  <2>3. ASSUME \/ \E c, epoch, cursor : TakeoverWorkflowControl(c, epoch, cursor)
               \/ \E c, epoch, cursor, now, expiresAt :
                    ClaimFreshWorkflowLease(c, epoch, cursor, now, expiresAt)
               \/ \E epoch, cursor, step, effect, revision, phase :
                    RecordOwnerProgress(epoch, cursor, step, effect, revision, phase)
        PROVE  Same
    BY <2>3
    DEF TakeoverWorkflowControl, ClaimFreshWorkflowLease, RecordOwnerProgress
  <2> QED
    BY <1>0, <1>4, <2>1, <2>2, <2>3 DEF WorkflowCall, EffectCall, HandOverCall, AnyReport
<1>5. CASE OwnerCall
  <2>1. ASSUME NEW id, NEW expected \in Revisions, Cancel(id, expected)
        PROVE  CancellationsPassed'
    <3>1. /\ jobRevision' = expected + 1
          /\ cancellations' = WithRow(cancellations, id, expected)
          /\ \A k \in DOMAIN cancellations : cancellations[k] < expected
      BY <1>b, <2>1, RevisionMoves DEF Cancel
    <3>2. \A k \in DOMAIN cancellations' :
            \/ cancellations'[k] = expected
            \/ k \in DOMAIN cancellations /\ cancellations'[k] = cancellations[k]
      BY <3>1 DEF WithRow
    <3>3. expected \in Nat /\ \A k \in DOMAIN cancellations : cancellations[k] \in Nat
      BY <1>b DEF TypeOK
    <3> QED
      BY <3>1, <3>2, <3>3 DEF CancellationsPassed
  <2>2. CancelLegacy \/ RequestDesktopNotification => Same
    BY DEF CancelLegacy, CancelControl, RequestDesktopNotification
  <2>3. Destroy => CancellationsPassed'
    BY DEF Destroy, EmptyTable, CancellationsPassed
  <2> QED
    BY <1>0, <1>5, <2>1, <2>2, <2>3 DEF OwnerCall
<1> QED
  BY <1>1, <1>2, <1>3, <1>4, <1>5 DEF AnyStep, OtherCall, WorkflowCall

LEMMA CancellationInvariant == AnySpec => [](TypeInv /\ CancellationsPassed)
<1>1. Init => CancellationsPassed
  BY DEF Init, EmptyTable, CancellationsPassed
<1>2. TypeInv => TypeOK
  BY DEF TypeInv
<1> QED
  BY <1>1, <1>2, CancellationStep, TypeInvariant, PTL DEF AnySpec

\* Only a command of the current revision brings a new workflow action.
LEMMA NewActionIsCurrent ==
    ASSUME TypeInv, AnyStep, NEW a \in DOMAIN actions' \ DOMAIN actions,
           actions'[a].binding # NoBinding
    PROVE  /\ actions'[a].binding.revision \in Nat
           /\ RevisionCurrent(actions'[a].binding.revision)
<1> DEFINE Goal == /\ actions'[a].binding.revision \in Nat
                   /\ RevisionCurrent(actions'[a].binding.revision)
<1>0. TypeOK /\ ~UNCHANGED actions /\ ~BindingsKept
  BY DEF TypeInv, BindingsKept
<1>1. ASSUME NEW c, NEW action, NEW epoch, NEW sequence, NEW now, NEW class,
             NEW binding,
             Retain(c, action, epoch, sequence, now, class, binding)
      PROVE  actions'[a].binding = binding
  <2> DEFINE row == [phase |-> "ACCEPTED", postcondition |-> "UNOBSERVED",
                     mutationClass |-> class, sequence |-> sequence,
                     window |-> Window(now), binding |-> binding]
  <2>1. actions' = WithRow(actions, action, row) /\ row.binding = binding
    BY <1>1 DEF Retain
  <2> HIDE DEF row
  <2>2. a = action /\ actions'[a] = row
    BY <2>1 DEF WithRow
  <2> QED
    BY <2>1, <2>2
<1>2. CASE CommandCall
  <2>1. ASSUME NEW c, NEW action, NEW epoch, NEW sequence, NEW now, NEW class,
               AcceptAuthenticationCommand(c, action, epoch, sequence, now, class)
        PROVE  FALSE
    BY <1>1, <2>1 DEF AcceptAuthenticationCommand
  <2>2. ASSUME NEW c, NEW action, NEW epoch, NEW sequence, NEW now, NEW step,
               NEW effect, NEW revision \in Revisions, NEW mutating,
               AcceptWorkflowCommand(c, action, epoch, sequence, now,
                                     step, effect, revision, mutating)
        PROVE  Goal
    <3>1. /\ RevisionCurrent(revision)
          /\ actions'[a].binding = [revision |-> revision, step |-> step,
                                    effect |-> effect, leaseEpoch |-> epoch]
      BY <1>1, <2>2, CommandSetsRevision DEF AcceptWorkflowCommand
    <3>2. revision \in Nat
      BY <1>0, InputsTyped
    <3> QED
      BY <3>1, <3>2
  <2>3. ASSUME NEW c, NEW action, NEW epoch, NEW sequence, NEW status,
               AcceptResult(c, action, epoch, sequence, status)
        PROVE  FALSE
    BY <1>0, <2>3, ResultKeepsBindings
  <2> QED
    BY <1>2, <2>1, <2>2, <2>3 DEF CommandCall
<1>3. ~(Initialize \/ Tick \/ AlarmFires)
  BY <1>0 DEF Initialize, Tick, AlarmFires
<1>4. ~LeaseCall
  <2>1. ASSUME NEW c, NEW now,
               \/ \E expiresAt, sequence : ClaimAgentLease(c, expiresAt, sequence)
               \/ \E epoch : RenewAgentLease(c, epoch, now)
               \/ \E epoch : HostDisconnected(c, epoch)
        PROVE  UNCHANGED actions
    BY <2>1 DEF ClaimAgentLease, RenewAgentLease, HostDisconnected
  <2> QED
    BY <1>0, <2>1, ReconnectionKeepsBindings DEF LeaseCall
<1>5. ~WorkflowCall
  <2>1. ASSUME \/ \E effect : InitializeWorkflow(1, effect, FirstRevision)
               \/ \E c, epoch, cursor : TakeoverWorkflowControl(c, epoch, cursor)
               \/ \E c, epoch, cursor, now, expiresAt :
                    ClaimFreshWorkflowLease(c, epoch, cursor, now, expiresAt)
               \/ \E epoch, cursor, step, effect, revision, phase :
                    RecordOwnerProgress(epoch, cursor, step, effect, revision, phase)
        PROVE  UNCHANGED actions
    BY <2>1
    DEF InitializeWorkflow, TakeoverWorkflowControl, ClaimFreshWorkflowLease,
        RecordOwnerProgress
  <2> QED
    BY <1>0, <2>1, ReceiptKeepsBindings DEF WorkflowCall, EffectCall, HandOverCall, AnyReport
<1>6. ~OwnerCall
  <2>1. ASSUME \/ \E id, expected : Cancel(id, expected)
               \/ CancelLegacy
               \/ RequestDesktopNotification
        PROVE  UNCHANGED actions
    BY <2>1 DEF Cancel, CancelLegacy, CancelControl, RequestDesktopNotification
  <2>2. Destroy => DOMAIN actions' = {}
    BY DEF Destroy, EmptyTable
  <2> QED
    BY <1>0, <2>1, <2>2 DEF OwnerCall
<1> QED
  BY <1>2, <1>3, <1>4, <1>5, <1>6 DEF AnyStep, OtherCall, WorkflowCall

(***************************************************************************)
(* After a cancellation no command of the canceled revision, or of an      *)
(* older one, is ever accepted, whatever lease it arrives under.           *)
(***************************************************************************)
THEOREM CancellationFences == Spec => CanceledRevisionFenced
<1>1. ASSUME TypeInv, CancellationsPassed, [AnyStep]_vars,
             NEW a \in DOMAIN actions' \ DOMAIN actions,
             actions'[a].binding # NoBinding, NEW id \in DOMAIN cancellations
      PROVE  actions'[a].binding.revision > cancellations[id]
  <2>1. AnyStep
    BY <1>1 DEF vars
  <2>2. /\ actions'[a].binding.revision \in Nat
        /\ RevisionCurrent(actions'[a].binding.revision)
    BY <1>1, <2>1, NewActionIsCurrent
  <2>3. cancellations[id] < actions'[a].binding.revision
    BY <1>1, <2>2, RevisionMoves DEF TypeInv
  <2> QED
    BY <1>1, <2>2, <2>3 DEF TypeInv, TypeOK
<1>2. TypeInv /\ CancellationsPassed /\ [AnyStep]_vars =>
        [ \A a \in DOMAIN actions' \ DOMAIN actions :
            actions'[a].binding # NoBinding =>
              \A id \in DOMAIN cancellations :
                actions'[a].binding.revision > cancellations[id] ]_vars
  BY <1>1
<1> QED
  BY <1>2, CancellationInvariant, SpecIsAny, PTL
  DEF AnySpec, CanceledRevisionFenced

-------------------------------------------------------------------------------
(***************************************************************************)
(* The refinement.  What LogicalEffects sees of the coordinator: the       *)
(* effect and the performer of each row, the step of each retained         *)
(* workflow action, and the receipts.                                      *)
(***************************************************************************)
Progress ==
    [s \in DOMAIN effects |-> [effect    |-> effects[s].effect,
                               canonical |-> effects[s].canonical]]

WorkflowActions == {a \in DOMAIN actions : actions[a].binding # NoBinding}

Accepted == [a \in WorkflowActions |-> actions[a].binding.step]

LEMMA SameProgress ==
    ASSUME DOMAIN effects' = DOMAIN effects,
           \A s \in DOMAIN effects :
             /\ effects'[s].effect = effects[s].effect
             /\ effects'[s].canonical = effects[s].canonical
    PROVE  UNCHANGED Progress
BY DEF Progress

LEMMA SameAccepted ==
    ASSUME BindingsKept
    PROVE  UNCHANGED Accepted
<1>1. WorkflowActions' = WorkflowActions
  BY DEF BindingsKept, WorkflowActions
<1> QED
  BY <1>1 DEF BindingsKept, Accepted, WorkflowActions

LEMMA LogicalStutters ==
    ASSUME UNCHANGED Progress, UNCHANGED Accepted, UNCHANGED receipts
    PROVE  UNCHANGED Logical!effectVars
BY DEF Progress, Accepted, WorkflowActions, Logical!effectVars

\* A step bound without a command, if it was not bound before.
LEMMA LogicalBinds ==
    ASSUME NEW step \in Steps, NEW effect \in EffectIds, Bound(step, effect),
           UNCHANGED Accepted, UNCHANGED receipts,
           \A s \in DOMAIN effects : effects'[s].canonical = effects[s].canonical,
           step \notin DOMAIN effects => effects'[step].canonical = NoAction
    PROVE  [Logical!Next]_(Logical!effectVars)
<1>1. CASE step \in DOMAIN effects
  <2>1. /\ DOMAIN effects' = DOMAIN effects
        /\ \A s \in DOMAIN effects :
             /\ effects'[s].effect = effects[s].effect
             /\ effects'[s].canonical = effects[s].canonical
    BY <1>1 DEF Bound, EffectConflict
  <2> QED
    BY <2>1, SameProgress, LogicalStutters
<1>2. CASE step \notin DOMAIN effects
  <2>1. Progress' = Logical!WithEntry(Progress, step, Logical!Unperformed(effect))
    BY <1>2 DEF Bound, Progress, Logical!WithEntry, Logical!Unperformed
  <2>2. step \notin DOMAIN Progress /\ Logical!Binds(step, effect)
    BY <1>2 DEF Bound, EffectConflict, Progress, Logical!Binds
  <2>3. Logical!Bind(step, effect)
    BY <2>1, <2>2
    DEF Logical!Bind, Progress, Accepted, WorkflowActions
  <2> QED
    BY <2>3 DEF Logical!Next
<1> QED
  BY <1>1, <1>2

\* A command: who performs the effect of its step.
LEMMA CommandPerforms ==
    ASSUME TypeOK, NEW action, NEW step, NEW effect, NEW revision,
           NEW mutating \in BOOLEAN,
           BindWorkflowEffect(action, step, effect, revision, mutating)
    PROVE  /\ \A s \in DOMAIN effects :
                s # step => effects'[s].canonical = effects[s].canonical
           /\ step \in DOMAIN effects =>
                effects'[step].canonical =
                  IF TakesEffect(step, mutating) THEN action
                  ELSE effects[step].canonical
           /\ step \notin DOMAIN effects =>
                effects'[step].canonical = IF mutating THEN action ELSE NoAction
<1>1. CASE step \notin DOMAIN effects
  <2> DEFINE row == [effect |-> effect, revision |-> revision,
                     canonical |-> IF mutating THEN action ELSE NoAction,
                     phase |-> "ACCEPTED"]
  <2>1. /\ effects' = WithRow(effects, step, row)
        /\ row.canonical = IF mutating THEN action ELSE NoAction
    BY <1>1 DEF BindWorkflowEffect
  <2> HIDE DEF row
  <2> QED
    BY <1>1, <2>1 DEF WithRow
<1>2. CASE step \in DOMAIN effects /\ TakesEffect(step, mutating)
  <2>1. effects' = [effects EXCEPT ![step].canonical = action]
    BY <1>2 DEF BindWorkflowEffect
  <2>2. effects[step] \in EffectRecords
    BY <1>2 DEF TypeOK
  <2>3. effects'[step].canonical = action
    BY <1>2, <2>1, <2>2 DEF EffectRecords
  <2> QED
    BY <1>2, <2>1, <2>3
<1>3. CASE step \in DOMAIN effects /\ ~TakesEffect(step, mutating)
  <2>1. UNCHANGED effects
    BY <1>3 DEF BindWorkflowEffect
  <2> QED
    BY <1>3, <2>1
<1> QED
  BY <1>1, <1>2, <1>3

LEMMA LogicalAccepts ==
    ASSUME TypeOK, NEW action \in ActionIds, NEW step \in Steps,
           NEW effect \in EffectIds, NEW revision, NEW mutating \in BOOLEAN,
           action \notin DOMAIN actions,
           BindWorkflowEffect(action, step, effect, revision, mutating),
           Accepted' = Logical!WithEntry(Accepted, action, step),
           UNCHANGED receipts
    PROVE  \E performs \in BOOLEAN : Logical!Accept(action, step, effect, performs)
<1> DEFINE row == IF step \in DOMAIN Progress THEN Progress[step]
                  ELSE Logical!Unperformed(effect)
           performs == IF step \in DOMAIN effects
                       THEN TakesEffect(step, mutating) ELSE mutating
           new == IF performs THEN [row EXCEPT !.canonical = action] ELSE row
<1>1. Bound(step, effect)
  BY CommandBinds
<1>2. DOMAIN Progress = DOMAIN effects
  BY DEF Progress
<1>3. Logical!Binds(step, effect)
  BY <1>1 DEF Bound, EffectConflict, Progress, Logical!Binds
<1>4. /\ [effect |-> effects'[step].effect,
          canonical |-> effects'[step].canonical] = new
      /\ performs \in BOOLEAN
      /\ performs => row.canonical = NoAction
  <2>1. CASE step \in DOMAIN effects
    <3>1. row = [effect |-> effect, canonical |-> effects[step].canonical]
      BY <1>1, <2>1 DEF Progress, Bound, EffectConflict
    <3>2. /\ performs \in BOOLEAN
          /\ performs => row.canonical = NoAction
      BY <2>1, <3>1 DEF TakesEffect
    <3>3. /\ effects'[step].effect = effect
          /\ effects'[step].canonical =
               IF performs THEN action ELSE effects[step].canonical
      BY <1>1, <2>1, CommandPerforms DEF Bound
    <3> QED
      BY <3>1, <3>2, <3>3
  <2>2. CASE step \notin DOMAIN effects
    <3>1. row = [effect |-> effect, canonical |-> NoAction]
      BY <1>2, <2>2 DEF Logical!Unperformed
    <3>2. performs \in BOOLEAN
      BY <2>2
    <3>3. /\ effects'[step].effect = effect
          /\ effects'[step].canonical = IF performs THEN action ELSE NoAction
      BY <1>1, <2>2, CommandPerforms DEF Bound
    <3> QED
      BY <3>1, <3>2, <3>3
  <2> QED
    BY <2>1, <2>2
<1>5. \A s \in DOMAIN effects :
        s # step => effects'[s] = effects[s]
  BY <1>1 DEF Bound
<1>6. Progress' = Logical!WithEntry(Progress, step, new)
  <2> HIDE DEF new
  <2> QED
    BY <1>1, <1>4, <1>5 DEF Bound, Progress, Logical!WithEntry
<1>7. action \notin DOMAIN Accepted
  BY DEF Accepted, WorkflowActions
<1> HIDE DEF performs
<1> QED
  BY <1>3, <1>4, <1>6, <1>7
  DEF Logical!Accept, Progress, Accepted, WorkflowActions

\* A receipt of an action of the step it marks.
LEMMA LogicalReceipts ==
    ASSUME NEW action \in ActionIds, NEW step \in Steps, NEW effect \in EffectIds,
           Receipted(action, step, effect), UNCHANGED Accepted
    PROVE  Logical!Receipt(action, step, effect)
<1> DEFINE own == Accepted[action]
<1>1. /\ action \in DOMAIN Accepted
      /\ own = actions[action].binding.step
      /\ own \in DOMAIN effects
      /\ effects[own].effect \notin receipts
      /\ receipts' = receipts \cup {effects[own].effect}
  BY DEF Receipted, Accepted, WorkflowActions
<1>2. /\ Progress[own].effect \notin receipts
      /\ receipts' = receipts \cup {Progress[own].effect}
  BY <1>1 DEF Progress
<1>3. Logical!Binds(step, effect)
  BY DEF Receipted, EffectConflict, Progress, Logical!Binds
<1>4. /\ DOMAIN effects' = DOMAIN effects \cup {step}
      /\ \A s \in DOMAIN effects :
           /\ effects'[s].effect = effects[s].effect
           /\ effects'[s].canonical = effects[s].canonical
      /\ step \notin DOMAIN effects =>
           /\ effects'[step].effect = effect
           /\ effects'[step].canonical = NoAction
  BY DEF Receipted
<1> HIDE DEF own
<1>5. Progress' = IF step \in DOMAIN Progress THEN Progress
                  ELSE Logical!WithEntry(Progress, step, Logical!Unperformed(effect))
  <2>1. CASE step \in DOMAIN effects
    <3>1. Progress' = Progress
      BY <1>4, <2>1 DEF Progress
    <3> QED
      BY <2>1, <3>1 DEF Progress
  <2>2. CASE step \notin DOMAIN effects
    <3>1. Progress' =
            Logical!WithEntry(Progress, step, Logical!Unperformed(effect))
      BY <1>4, <2>2 DEF Progress, Logical!WithEntry, Logical!Unperformed
    <3> QED
      BY <2>2, <3>1 DEF Progress
  <2> QED
    BY <2>1, <2>2
<1> QED
  BY <1>1, <1>2, <1>3, <1>5
  DEF own, Logical!Receipt, Progress, Accepted, WorkflowActions

\* The discarded tables of a destroyed session.
LEMMA EmptyRows ==
    ASSUME effects = EmptyTable, actions = EmptyTable
    PROVE  Progress = [s \in {} |-> s] /\ Accepted = [a \in {} |-> a]
BY DEF EmptyTable, Progress, Accepted, WorkflowActions

LEMMA LogicalStep ==
    TypeInv /\ WorkflowInv /\ [AnyStep]_vars =>
      [Logical!Next]_(Logical!effectVars)
<1> DEFINE Goal == [Logical!Next]_(Logical!effectVars)
<1> SUFFICES ASSUME TypeInv, WorkflowInv, [AnyStep]_vars
             PROVE  Goal
  OBVIOUS
<1> USE DEF workflowVars
<1>0. /\ TypeOK
      /\ UNCHANGED actions => UNCHANGED Accepted
  BY DEF TypeInv, Accepted, WorkflowActions
<1>a. UNCHANGED <<effects, receipts>> /\ UNCHANGED Accepted => Goal
  BY LogicalStutters DEF Progress
<1>b. UNCHANGED <<effects, receipts, actions>> => Goal
  BY <1>0, <1>a
<1> HIDE DEF Goal
<1>1. CASE UNCHANGED vars \/ Initialize \/ Tick \/ AlarmFires
  BY <1>b, <1>1 DEF vars, Initialize, Tick, AlarmFires
<1>2. CASE LeaseCall
  <2>1. ASSUME NEW c, NEW now,
               \/ \E expiresAt, sequence : ClaimAgentLease(c, expiresAt, sequence)
               \/ \E epoch : RenewAgentLease(c, epoch, now)
               \/ \E epoch : HostDisconnected(c, epoch)
        PROVE  UNCHANGED <<effects, receipts, actions>>
    BY <2>1 DEF ClaimAgentLease, RenewAgentLease, HostDisconnected
  <2>2. ASSUME NEW now, HostReconnected(now)
        PROVE  Goal
    <3>1. UNCHANGED <<effects, receipts>>
      BY <2>2 DEF HostReconnected
    <3> QED
      BY <1>0, <1>a, <2>2, <3>1, ReconnectionKeepsBindings, SameAccepted
  <2> QED
    BY <1>b, <1>2, <2>1, <2>2 DEF LeaseCall
<1>3. CASE CommandCall
  <2>a. ASSUME NEW c, NEW action, NEW epoch, NEW sequence, NEW now, NEW class,
               NEW binding, action \notin DOMAIN actions,
               Retain(c, action, epoch, sequence, now, class, binding)
        PROVE  /\ binding = NoBinding => UNCHANGED Accepted
               /\ binding # NoBinding =>
                    Accepted' = Logical!WithEntry(Accepted, action, binding.step)
    <3> DEFINE row == [phase |-> "ACCEPTED", postcondition |-> "UNOBSERVED",
                       mutationClass |-> class, sequence |-> sequence,
                       window |-> Window(now), binding |-> binding]
    <3>1. actions' = WithRow(actions, action, row) /\ row.binding = binding
      BY <2>a DEF Retain
    <3> HIDE DEF row
    <3>2. /\ DOMAIN actions' = DOMAIN actions \cup {action}
          /\ actions'[action].binding = binding
          /\ \A a \in DOMAIN actions : actions'[a] = actions[a]
      BY <2>a, <3>1 DEF WithRow
    <3>3. WorkflowActions' = IF binding = NoBinding THEN WorkflowActions
                             ELSE WorkflowActions \cup {action}
      BY <3>2 DEF WorkflowActions
    <3>4. /\ action \notin WorkflowActions
          /\ \A a \in WorkflowActions :
               actions'[a].binding.step = actions[a].binding.step
      BY <2>a, <3>2 DEF WorkflowActions
    <3> QED
      BY <3>2, <3>3, <3>4 DEF Accepted, Logical!WithEntry
  <2>1. ASSUME NEW c, NEW action, NEW epoch, NEW sequence, NEW now, NEW class,
               AcceptAuthenticationCommand(c, action, epoch, sequence, now, class)
        PROVE  Goal
    <3>1. /\ UNCHANGED <<effects, receipts>>
          /\ action \notin DOMAIN actions
          /\ Retain(c, action, epoch, sequence, now, class, NoBinding)
      BY <2>1 DEF AcceptAuthenticationCommand, CommandAdmitted
    <3> QED
      BY <1>a, <2>a, <3>1
  <2>2. ASSUME NEW c, NEW action \in ActionIds, NEW epoch \in Epochs,
               NEW sequence, NEW now, NEW step \in Steps,
               NEW effect \in EffectIds, NEW revision \in Revisions,
               NEW mutating \in BOOLEAN,
               AcceptWorkflowCommand(c, action, epoch, sequence, now,
                                     step, effect, revision, mutating)
        PROVE  Goal
    <3> DEFINE binding == [revision |-> revision, step |-> step,
                           effect |-> effect, leaseEpoch |-> epoch]
    <3>1. /\ action \notin DOMAIN actions
          /\ Retain(c, action, epoch, sequence, now,
                    StepMutationClass(step, mutating), binding)
          /\ BindWorkflowEffect(action, step, effect, revision, mutating)
          /\ binding.step = step
          /\ UNCHANGED receipts
      BY <2>2 DEF AcceptWorkflowCommand, CommandAdmitted
    <3>2. binding \in Bindings
      BY <1>0, InputsTyped DEF Bindings
    <3>3. binding # NoBinding
      BY <3>2, BindingAssumption
    <3> HIDE DEF binding
    <3>4. Accepted' = Logical!WithEntry(Accepted, action, step)
      BY <2>a, <3>1, <3>3
    <3> QED
      BY <1>0, <3>1, <3>4, LogicalAccepts DEF Goal, Logical!Next
  <2>3. ASSUME NEW c, NEW action, NEW epoch, NEW sequence, NEW status,
               AcceptResult(c, action, epoch, sequence, status)
        PROVE  Goal
    <3>1. UNCHANGED <<effects, receipts>>
      BY <2>3 DEF AcceptResult
    <3> QED
      BY <1>0, <1>a, <2>3, <3>1, ResultKeepsBindings, SameAccepted
  <2> QED
    BY <1>3, <2>1, <2>2, <2>3 DEF CommandCall
<1>4. CASE WorkflowCall
  <2>1. ASSUME NEW effect \in EffectIds, 1 \in Steps,
               InitializeWorkflow(1, effect, FirstRevision)
        PROVE  Goal
    <3> DEFINE row == [effect |-> effect, revision |-> FirstRevision,
                       canonical |-> NoAction, phase |-> "ACCEPTED"]
    <3>1. /\ UNCHANGED <<actions, receipts>>
          /\ 1 \notin DOMAIN effects
          /\ effects' = WithRow(effects, 1, row)
          /\ row.canonical = NoAction
      BY <2>1 DEF InitializeWorkflow
    <3> HIDE DEF row
    <3>2. /\ \A s \in DOMAIN effects : effects'[s] = effects[s]
          /\ effects'[1].canonical = NoAction
      BY <3>1 DEF WithRow
    <3> QED
      BY <1>0, <2>1, <3>1, <3>2, InitializationBinds, LogicalBinds DEF Goal
  <2>2. ASSUME NEW c, NEW action \in ActionIds, NEW cursor,
               NEW sent \in Checkpoints, NEW next \in EffectIds,
               RecordWorkflowReceipt(c, action, cursor, sent, next)
        PROVE  Goal
    <3>1. PICK step \in Steps, effect \in EffectIds :
            Receipted(action, step, effect)
      BY <1>0, <2>2, ReceiptMarks
    <3>2. UNCHANGED Accepted
      BY <1>0, <2>2, ReceiptKeepsBindings, SameAccepted
    <3> QED
      BY <3>1, <3>2, LogicalReceipts DEF Goal, Logical!Next
  <2>3. ASSUME NEW c, NEW epoch, NEW cursor,
               \/ TakeoverWorkflowControl(c, epoch, cursor)
               \/ \E now, expiresAt :
                    ClaimFreshWorkflowLease(c, epoch, cursor, now, expiresAt)
        PROVE  UNCHANGED <<effects, receipts, actions>>
    BY <2>3 DEF TakeoverWorkflowControl, ClaimFreshWorkflowLease
  <2>4. ASSUME NEW epoch, NEW cursor, NEW step \in Steps,
               NEW effect \in EffectIds, NEW revision, NEW phase,
               RecordOwnerProgress(epoch, cursor, step, effect, revision, phase)
        PROVE  Goal
    <3> DEFINE row == [effect |-> effect, revision |-> revision,
                       canonical |-> NoAction, phase |-> phase]
    <3>1. /\ UNCHANGED <<actions, receipts>>
          /\ effects' = IF step \in DOMAIN effects
                        THEN [effects EXCEPT ![step].phase = phase]
                        ELSE WithRow(effects, step, row)
          /\ row.canonical = NoAction
      BY <2>4 DEF RecordOwnerProgress
    <3> HIDE DEF row
    <3>2. /\ \A s \in DOMAIN effects : effects'[s].canonical = effects[s].canonical
          /\ step \notin DOMAIN effects => effects'[step].canonical = NoAction
      BY <1>0, <3>1 DEF WithRow, TypeOK, EffectRecords
    <3> QED
      BY <1>0, <2>4, <3>1, <3>2, ProgressBinds, LogicalBinds DEF Goal
  <2>5. Steps # {} => 1 \in Steps
    BY StepsAssumption DEF Steps
  <2> QED
    BY <1>b, <1>4, <2>1, <2>2, <2>3, <2>4, <2>5
    DEF WorkflowCall, EffectCall, HandOverCall, AnyReport
<1>5. CASE OwnerCall
  <2>1. ASSUME \/ \E id, expected : Cancel(id, expected)
               \/ CancelLegacy
               \/ RequestDesktopNotification
        PROVE  UNCHANGED <<effects, receipts, actions>>
    BY <2>1 DEF Cancel, CancelLegacy, CancelControl, RequestDesktopNotification
  <2>2. Destroy => Goal
    <3>1. Destroy => /\ effects' = EmptyTable' /\ actions' = EmptyTable'
                     /\ receipts' = {}
      BY DEF Destroy, EmptyTable
    <3>2. Destroy => Progress' = [s \in {} |-> s] /\ Accepted' = [a \in {} |-> a]
      BY <3>1 DEF EmptyTable, Progress, Accepted, WorkflowActions
    <3> QED
      BY <3>1, <3>2
      DEF Goal, Logical!Next, Logical!Discard, Progress, Accepted,
          WorkflowActions
  <2> QED
    BY <1>b, <1>5, <2>1, <2>2 DEF OwnerCall
<1> QED
  BY <1>1, <1>2, <1>3, <1>4, <1>5 DEF AnyStep, OtherCall, WorkflowCall

(***************************************************************************)
(* The coordinator implements LogicalEffects: through every lease,         *)
(* revision, retry and hand-back a step is bound to one effect for good,   *)
(* performed by at most one retained action and receipted once, by an      *)
(* action of its own.                                                      *)
(***************************************************************************)
THEOREM CoordinatorImplementsEffects == Spec => ImplementsLogicalEffects
<1>1. Init => Logical!Init
  BY EmptyRows
  DEF Init, Logical!Init, Progress, Accepted, WorkflowActions
<1> QED
  BY <1>1, LogicalStep, WorkflowInvariant, SpecIsAny, PTL
  DEF AnySpec, ImplementsLogicalEffects, Logical!Spec
-------------------------------------------------------------------------------
(***************************************************************************)
(* Hand-backs.  The coordinator stores whatever phase a report names, so   *)
(* that the phase of an effect is proved of HandBack only, where a report  *)
(* names what one automation sync read.  The argument: a report is         *)
(* accepted from the user, under the current epoch; a user gets control    *)
(* only by a takeover, which starts an epoch; and nothing is receipted     *)
(* while the user has control.  What was read at the epoch of the report   *)
(* was therefore read after the takeover, and is still so.                 *)
(***************************************************************************)
ReadStates ==
    {NoRead}
    \cup [pc : {"RENEW", "WORKFLOW"}, epoch : Nat]
    \cup [pc : {"CURSOR"}, epoch : Nat, step : Steps, effect : EffectIds,
          revision : Nat, phase : ActionPhases]
    \cup [pc : {"ANSWERED"}, epoch : Nat, step : Steps, effect : EffectIds,
          revision : Nat, phase : ActionPhases, cursor : Nat]

ReadsTyped == reads \in [Readers -> ReadStates]

\* What was read of the effect agrees with the receipts stored.
Faithful(a) ==
    /\ a.step \in DOMAIN effects
    /\ effects[a.step].effect = a.effect
    /\ a.phase = "RECEIPTED" <=> a.effect \in receipts

HasEffect(a) == a.pc \in {"CURSOR", "ANSWERED"}

ReadInv(a) ==
    /\ a.pc # "IDLE" => a.epoch <= control.leaseEpoch
    /\ /\ HasEffect(a)
       /\ control.controller = "USER"
       /\ a.epoch = control.leaseEpoch
       => Faithful(a)

HandBackInv ==
    /\ TypeInv /\ LeaseInv /\ WorkflowInv
    /\ ReadsTyped
    /\ control.takeover # "QUIESCING"
    /\ ReceiptsMatchEffects
    /\ lifecycle = "ABSENT" => \A r \in Readers : reads[r] = NoRead
    /\ Serving => \A r \in Readers : ReadInv(reads[r])

\* Epochs do not go back, and control passes to a user only with a new one.
ControlMoves ==
    /\ control'.takeover # "QUIESCING"
    /\ control'.leaseEpoch >= control.leaseEpoch
    /\ /\ control'.controller = "USER"
       /\ control'.leaseEpoch = control.leaseEpoch
       => control.controller = "USER"

LEMMA ControlStays == control.takeover # "QUIESCING" /\ TypeOK /\ UNCHANGED control
                        => ControlMoves
BY DEF ControlMoves, TypeOK, ControlRecords

LEMMA OfflineMoves ==
    ASSUME TypeOK, control.takeover # "QUIESCING", control' = HostWentOffline(control)
    PROVE  ControlMoves
<1>1. /\ control \in ControlRecords
      /\ control' = [control EXCEPT !.connection = "OFFLINE", !.controller = "NONE",
                                    !.leaseExpiresAt = NoInstant,
                                    !.automationBlocked = TRUE, !.takeover = "NONE"]
  BY DEF TypeOK, HostWentOffline
<1> QED
  BY <1>1 DEF ControlMoves, ControlRecords

LEMMA ReconnectionMoves ==
    ASSUME TypeInv, NEW now, HostReconnected(now)
    PROVE  ControlMoves
<1> DEFINE online == [control EXCEPT !.connection = "ONLINE",
                                     !.takeover = "RECONCILING",
                                     !.automationBlocked = TRUE,
                                     !.leaseExpiresAt = NoInstant]
<1>1. /\ control \in ControlRecords
      /\ control.controller = "NONE"
      /\ control' = RecoveryControl(online, actions, now)
  BY DEF HostReconnected, TypeInv, TypeOK
<1>2. /\ online.controller = "NONE" /\ online.connection = "ONLINE"
      /\ online.takeover = "RECONCILING"
      /\ online.leaseEpoch = control.leaseEpoch
      /\ online \in ControlRecords
      /\ control.leaseEpoch \in Nat
  BY <1>1, NoInstantAssumption DEF ControlRecords, TakeoverStates, ConnectionStates
<1> HIDE DEF online
<1>3. control' = online \/ control' = FenceForReconciliation(online)
  BY <1>1 DEF RecoveryControl
<1>4. /\ FenceForReconciliation(online).controller = "NONE"
      /\ FenceForReconciliation(online).takeover = "RECONCILING"
      /\ FenceForReconciliation(online).leaseEpoch = online.leaseEpoch
  BY <1>2 DEF FenceForReconciliation, ControlRecords
<1> QED
  BY <1>2, <1>3, <1>4 DEF ControlMoves

LEMMA ControlStep ==
    ASSUME TypeInv, control.takeover # "QUIESCING", AnyStep
    PROVE  /\ control'.takeover # "QUIESCING"
           /\ Serving /\ Serving' => ControlMoves
           /\ Serving' => Serving \/ lifecycle = "ABSENT"
           /\ lifecycle' = "ABSENT" => lifecycle = "ABSENT"
<1> DEFINE Goal == /\ control'.takeover # "QUIESCING"
                   /\ Serving /\ Serving' => ControlMoves
                   /\ Serving' => Serving \/ lifecycle = "ABSENT"
                   /\ lifecycle' = "ABSENT" => lifecycle = "ABSENT"
           Kept == UNCHANGED lifecycle /\ ControlMoves
<1> SUFFICES Goal
  OBVIOUS
<1> USE DEF controlVars
<1>0. TypeOK /\ control \in ControlRecords
  BY DEF TypeInv, TypeOK
<1>a. Kept => Goal
  BY DEF ControlMoves, Serving
<1>b. UNCHANGED <<lifecycle, control>> => Goal
  BY <1>0, <1>a, ControlStays
<1>c. ASSUME control' = JobCanceled(control) \/ control' = HostWentOffline(control),
             UNCHANGED lifecycle
      PROVE  Goal
  <2>1. control' = JobCanceled(control) => ControlMoves
    BY <1>0 DEF JobCanceled, ControlMoves, ControlRecords
  <2> QED
    BY <1>0, <1>a, <1>c, <2>1, OfflineMoves
<1> HIDE DEF Goal
<1>1. CASE Initialize
  BY <1>1 DEF Initialize, InitialControl, Serving, Goal
<1>2. CASE LeaseCall
  <2>1. ASSUME NEW c, NEW expiresAt, NEW sequence,
               ClaimAgentLease(c, expiresAt, sequence)
        PROVE  Goal
    <3>1. control' = ClaimedControl(expiresAt, sequence) /\ UNCHANGED lifecycle
      BY <2>1 DEF ClaimAgentLease, Grant
    <3>2. ControlMoves
      BY <1>0, <3>1 DEF ClaimedControl, ControlMoves, ControlRecords
    <3> QED
      BY <1>a, <3>1, <3>2
  <2>2. ASSUME NEW c, NEW epoch, NEW now, RenewAgentLease(c, epoch, now)
        PROVE  Goal
    <3>1. ControlMoves /\ UNCHANGED lifecycle
      BY <1>0, <2>2 DEF RenewAgentLease, ControlMoves, ControlRecords
    <3> QED
      BY <1>a, <3>1
  <2>3. ASSUME NEW c, NEW epoch, HostDisconnected(c, epoch)
        PROVE  Goal
    BY <1>c, <2>3 DEF HostDisconnected, Fence
  <2>4. ASSUME NEW now, HostReconnected(now)
        PROVE  Goal
    <3>1. UNCHANGED lifecycle
      BY <2>4 DEF HostReconnected
    <3> QED
      BY <1>a, <2>4, <3>1, ReconnectionMoves
  <2> QED
    BY <1>2, <2>1, <2>2, <2>3, <2>4 DEF LeaseCall
<1>3. CASE CommandCall
  <2>1. ASSUME NEW c, NEW action, NEW epoch, NEW sequence, NEW now, NEW class,
               NEW binding,
               Retain(c, action, epoch, sequence, now, class, binding)
        PROVE  ControlMoves
    BY <1>0, <2>1 DEF Retain, ControlMoves, ControlRecords
  <2>2. ASSUME NEW c, NEW action, NEW epoch, NEW sequence, NEW now, NEW class,
               AcceptAuthenticationCommand(c, action, epoch, sequence, now, class)
        PROVE  Goal
    BY <1>a, <2>1, <2>2 DEF AcceptAuthenticationCommand
  <2>3. ASSUME NEW c, NEW action, NEW epoch, NEW sequence, NEW now, NEW step,
               NEW effect, NEW revision, NEW mutating,
               AcceptWorkflowCommand(c, action, epoch, sequence, now,
                                     step, effect, revision, mutating)
        PROVE  Goal
    BY <1>a, <2>1, <2>3 DEF AcceptWorkflowCommand
  <2>4. ASSUME NEW c, NEW action, NEW epoch, NEW sequence, NEW status,
               AcceptResult(c, action, epoch, sequence, status)
        PROVE  Goal
    BY <1>b, <2>4 DEF AcceptResult
  <2> QED
    BY <1>3, <2>2, <2>3, <2>4 DEF CommandCall
<1>4. CASE EffectCall \/ AnyReport
  <2>1. ASSUME NEW effect, InitializeWorkflow(1, effect, FirstRevision)
        PROVE  UNCHANGED <<lifecycle, control>>
    BY <2>1 DEF InitializeWorkflow
  <2>2. ASSUME NEW c, NEW action, NEW cursor, NEW sent, NEW next,
               RecordWorkflowReceipt(c, action, cursor, sent, next)
        PROVE  UNCHANGED <<lifecycle, control>>
    BY <2>2 DEF RecordWorkflowReceipt
  <2>3. ASSUME NEW epoch, NEW cursor, NEW step, NEW effect, NEW revision,
               NEW phase,
               RecordOwnerProgress(epoch, cursor, step, effect, revision, phase)
        PROVE  UNCHANGED <<lifecycle, control>>
    BY <2>3 DEF RecordOwnerProgress
  <2> QED
    BY <1>b, <1>4, <2>1, <2>2, <2>3 DEF EffectCall, AnyReport
<1>5. CASE HandOverCall
  <2>1. ASSUME NEW c, NEW epoch, NEW cursor,
               TakeoverWorkflowControl(c, epoch, cursor)
        PROVE  Goal
    <3>1. /\ UNCHANGED lifecycle
          /\ control' = TakeoverQuiesced(OnlineTakeoverRequested(control))
      BY <2>1 DEF TakeoverWorkflowControl, Fence
    <3>2. ControlMoves
      BY <1>0, <3>1
      DEF TakeoverQuiesced, OnlineTakeoverRequested, ControlMoves, ControlRecords
    <3> QED
      BY <1>a, <3>1, <3>2
  <2>2. ASSUME NEW c, NEW epoch, NEW cursor, NEW now, NEW expiresAt,
               ClaimFreshWorkflowLease(c, epoch, cursor, now, expiresAt)
        PROVE  Goal
    <3>1. /\ UNCHANGED lifecycle
          /\ control' = AgentReconciled(ReturnControlRequested(control), expiresAt)
      BY <2>2 DEF ClaimFreshWorkflowLease, Grant
    <3>2. ControlMoves
      BY <1>0, <3>1
      DEF AgentReconciled, ReturnControlRequested, ControlMoves, ControlRecords
    <3> QED
      BY <1>a, <3>1, <3>2
  <2> QED
    BY <1>5, <2>1, <2>2 DEF HandOverCall
<1>6. CASE OwnerCall
  <2>1. ASSUME \/ \E id, expected : Cancel(id, expected)
               \/ CancelLegacy
        PROVE  Goal
    BY <1>c, <2>1 DEF Cancel, CancelLegacy, CancelControl, Fence
  <2>2. ASSUME RequestDesktopNotification PROVE Goal
    BY <1>b, <2>2 DEF RequestDesktopNotification
  <2>3. ASSUME Destroy PROVE Goal
    BY <2>3 DEF Destroy, Fence, InitialControl, Serving, Goal
  <2> QED
    BY <1>6, <2>1, <2>2, <2>3 DEF OwnerCall
<1>7. CASE AlarmFires
  BY <1>b, <1>c, <1>7 DEF AlarmFires, Fence
<1>8. CASE Tick
  BY <1>b, <1>8 DEF Tick
<1> QED
  BY <1>1, <1>2, <1>3, <1>4, <1>5, <1>6, <1>7, <1>8 DEF AnyStep, OtherCall, Goal

(***************************************************************************)
(* What a call other than a report does to the effects and the receipts:   *)
(* it binds a step and no more, or it receipts an effect for the agent,    *)
(* which keeps control, or it deletes both.                                *)
(***************************************************************************)
RowsMove ==
    \/ UNCHANGED <<effects, receipts>>
    \/ \E step, effect :
         Bound(step, effect) /\ PhaseKept(step) /\ UNCHANGED receipts
    \/ /\ \E action, step, effect : Receipted(action, step, effect)
       /\ Leased
    \/ effects' = EmptyTable /\ receipts' = {} /\ ~Serving'

LEMMA RowStep ==
    ASSUME TypeInv, LeaseInv, WorkflowInv, OtherCall
    PROVE  RowsMove
<1> USE DEF workflowVars
<1>0. TypeOK /\ (holder # NoConnection => Leased)
  BY DEF TypeInv, LeaseInv, HolderIffAgent
<1>a. UNCHANGED <<effects, receipts>> => RowsMove
  BY DEF RowsMove
<1>1. CASE Initialize \/ Tick \/ AlarmFires
  BY <1>a, <1>1 DEF Initialize, Tick, AlarmFires
<1>2. CASE LeaseCall
  BY <1>a, <1>2 DEF LeaseCall, ClaimAgentLease, RenewAgentLease, HostDisconnected,
                    HostReconnected
<1>3. CASE CommandCall
  <2>1. ASSUME NEW c, NEW action, NEW epoch, NEW sequence, NEW now, NEW class,
               AcceptAuthenticationCommand(c, action, epoch, sequence, now, class)
        PROVE  RowsMove
    BY <1>a, <2>1 DEF AcceptAuthenticationCommand
  <2>2. ASSUME NEW c, NEW action, NEW epoch, NEW sequence, NEW now, NEW step,
               NEW effect, NEW revision, NEW mutating,
               AcceptWorkflowCommand(c, action, epoch, sequence, now,
                                     step, effect, revision, mutating)
        PROVE  RowsMove
    <3>1. /\ BindWorkflowEffect(action, step, effect, revision, mutating)
          /\ UNCHANGED receipts
      BY <2>2 DEF AcceptWorkflowCommand
    <3> QED
      BY <1>0, <3>1, CommandBinds DEF RowsMove
  <2>3. ASSUME NEW c, NEW action, NEW epoch, NEW sequence, NEW status,
               AcceptResult(c, action, epoch, sequence, status)
        PROVE  RowsMove
    BY <1>a, <2>3 DEF AcceptResult
  <2> QED
    BY <1>3, <2>1, <2>2, <2>3 DEF CommandCall
<1>4. CASE EffectCall
  <2>1. ASSUME NEW effect, InitializeWorkflow(1, effect, FirstRevision)
        PROVE  RowsMove
    <3>1. UNCHANGED receipts
      BY <2>1 DEF InitializeWorkflow
    <3> QED
      BY <2>1, <3>1, InitializationBinds DEF RowsMove
  <2>2. ASSUME NEW c \in Connections, NEW action, NEW cursor,
               NEW sent \in Checkpoints, NEW next \in EffectIds,
               RecordWorkflowReceipt(c, action, cursor, sent, next)
        PROVE  RowsMove
    <3>1. Leased
      BY <1>0, <2>2, ConnectionAssumption DEF RecordWorkflowReceipt
    <3> QED
      BY <1>0, <2>2, <3>1, ReceiptMarks DEF RowsMove
  <2> QED
    BY <1>4, <2>1, <2>2 DEF EffectCall
<1>5. CASE HandOverCall
  BY <1>a, <1>5 DEF HandOverCall, TakeoverWorkflowControl, ClaimFreshWorkflowLease
<1>6. CASE OwnerCall
  <2>1. ASSUME \/ \E id, expected : Cancel(id, expected)
               \/ CancelLegacy
               \/ RequestDesktopNotification
        PROVE  RowsMove
    BY <1>a, <2>1 DEF Cancel, CancelLegacy, CancelControl, RequestDesktopNotification
  <2>2. Destroy => RowsMove
    BY DEF Destroy, EmptyTable, Serving, RowsMove
  <2> QED
    BY <1>6, <2>1, <2>2 DEF OwnerCall
<1> QED
  BY <1>1, <1>2, <1>3, <1>4, <1>5, <1>6 DEF OtherCall

LEMMA RowsKeepMatch ==
    ASSUME WorkflowInv, ReceiptsMatchEffects, RowsMove
    PROVE  ReceiptsMatchEffects'
<1>1. CASE UNCHANGED <<effects, receipts>>
  BY <1>1 DEF ReceiptsMatchEffects
<1>2. ASSUME NEW step, NEW effect, Bound(step, effect), PhaseKept(step),
             UNCHANGED receipts
      PROVE  ReceiptsMatchEffects'
  <2>1. /\ \A s \in DOMAIN effects : effects'[s].effect = effects[s].effect
        /\ \A s \in DOMAIN effects : effects'[s].phase = effects[s].phase
    BY <1>2 DEF Bound, PhaseKept, EffectConflict
  <2>2. {s \in DOMAIN effects' : effects'[s].phase = "RECEIPTED"} =
          {s \in DOMAIN effects : effects[s].phase = "RECEIPTED"}
    BY <1>2, <2>1 DEF Bound, PhaseKept
  <2> QED
    BY <1>2, <2>1, <2>2 DEF ReceiptsMatchEffects
<1>3. ASSUME NEW action, NEW step, NEW effect, Receipted(action, step, effect)
      PROVE  ReceiptsMatchEffects'
  <2> DEFINE own == actions[action].binding.step
  <2>1. /\ own \in DOMAIN effects
        /\ receipts' = receipts \cup {effects[own].effect}
        /\ DOMAIN effects' = DOMAIN effects \cup {step}
        /\ \A s \in DOMAIN effects :
             /\ effects'[s].effect = effects[s].effect
             /\ effects'[s].phase = IF s = own THEN "RECEIPTED"
                                    ELSE effects[s].phase
        /\ step \notin DOMAIN effects => effects'[step].phase = "ACCEPTED"
    BY <1>3 DEF Receipted
  <2> HIDE DEF own
  <2>2. {s \in DOMAIN effects' : effects'[s].phase = "RECEIPTED"} =
          {s \in DOMAIN effects : effects[s].phase = "RECEIPTED"} \cup {own}
    BY <2>1
  <2> QED
    BY <2>1, <2>2 DEF ReceiptsMatchEffects
<1>4. ASSUME effects' = EmptyTable, receipts' = {}
      PROVE  ReceiptsMatchEffects'
  BY <1>4 DEF EmptyTable, ReceiptsMatchEffects
<1> QED
  BY <1>1, <1>2, <1>3, <1>4 DEF RowsMove

\* A report that names a phase agreeing with the receipts.
LEMMA ReportKeepsMatch ==
    ASSUME WorkflowInv, ReceiptsMatchEffects, NEW CONSTANT a, Faithful(a),
           Bound(a.step, a.effect), effects'[a.step].phase = a.phase,
           UNCHANGED receipts
    PROVE  ReceiptsMatchEffects'
<1>1. /\ DOMAIN effects' = DOMAIN effects
      /\ \A s \in DOMAIN effects : effects'[s].effect = effects[s].effect
  BY DEF Faithful, Bound
<1>2. effects[a.step].phase = "RECEIPTED" <=> a.effect \in receipts
  BY DEF Faithful, ReceiptsMatchEffects, WorkflowInv, EffectsDistinct
<1>3. \A s \in DOMAIN effects :
        effects'[s].phase = "RECEIPTED" <=> effects[s].phase = "RECEIPTED"
  BY <1>2 DEF Faithful, Bound
<1> QED
  BY <1>1, <1>3 DEF ReceiptsMatchEffects

\* What was read stays so under a call of anybody while the user has control.
LEMMA FaithfulKept ==
    ASSUME NEW CONSTANT a, Faithful(a), ~Leased, Serving',
           \/ RowsMove
           \/ \E step, effect : Bound(step, effect) /\ UNCHANGED receipts
    PROVE  Faithful(a)'
<1>1. /\ UNCHANGED receipts
      /\ \/ UNCHANGED effects
         \/ \E step, effect : Bound(step, effect)
  BY DEF RowsMove
<1>2. ASSUME NEW step, NEW effect, Bound(step, effect)
      PROVE  /\ a.step \in DOMAIN effects'
             /\ effects'[a.step].effect = effects[a.step].effect
  BY <1>2 DEF Bound, Faithful, EffectConflict
<1> QED
  BY <1>1, <1>2 DEF Faithful

LEMMA ReadKept ==
    ASSUME TypeInv, NEW CONSTANT a, a.pc # "IDLE" => a.epoch \in Nat,
           ReadInv(a), Serving', ControlMoves, control'.leaseEpoch \in Nat,
           \/ RowsMove
           \/ \E step, effect : Bound(step, effect) /\ UNCHANGED receipts
    PROVE  ReadInv(a)'
<1>1. control.leaseEpoch \in Nat
  BY DEF TypeInv, TypeOK, ControlRecords
<1>2. a.pc # "IDLE" => a.epoch <= control'.leaseEpoch
  BY <1>1 DEF ReadInv, ControlMoves
<1>3. ASSUME HasEffect(a), control'.controller = "USER",
             a.epoch = control'.leaseEpoch
      PROVE  Faithful(a)'
  <2>1. a.pc # "IDLE"
    BY <1>3 DEF HasEffect
  <2>2. control.controller = "USER" /\ a.epoch = control.leaseEpoch
    BY <1>1, <1>3, <2>1 DEF ReadInv, ControlMoves
  <2> QED
    BY <1>3, <2>2, FaithfulKept DEF ReadInv, Leased
<1> QED
  BY <1>2, <1>3 DEF ReadInv, HasEffect

(***************************************************************************)
(* The steps of HandBack: those of the sync are calls of the coordinator,  *)
(* and change no other read than their own.                                *)
(***************************************************************************)
LEMMA SyncTyped ==
    ASSUME TypeInv, ReadsTyped, NEW r \in Readers,
           ReadControl(r) \/ RenewRead(r) \/ ReadWorkflow(r) \/ ReadCursor(r)
             \/ ReportRead(r)
    PROVE  ReadsTyped'
<1> USE DEF ReadsTyped
<1>1. reads[r] \in ReadStates /\ TypeOK
  BY DEF TypeInv
<1>2. CASE ReadControl(r)
  <2>1. [pc |-> IF Leased THEN "RENEW" ELSE "WORKFLOW",
         epoch |-> control.leaseEpoch] \in ReadStates
    BY <1>1 DEF TypeOK, ControlRecords, ReadStates
  <2> QED
    BY <1>2, <2>1 DEF ReadControl
<1>3. CASE RenewRead(r)
  <2>1. [reads[r] EXCEPT !.pc = "WORKFLOW"] \in ReadStates
    BY <1>1, <1>3 DEF RenewRead, ReadStates, NoRead
  <2> QED
    BY <1>3, <2>1 DEF RenewRead
<1>4. CASE ReadWorkflow(r)
  <2>1. PICK s \in CurrentSteps :
          reads' = [reads EXCEPT
                      ![r] = [pc |-> "CURSOR", epoch |-> @.epoch, step |-> s,
                              effect |-> effects[s].effect,
                              revision |-> jobRevision,
                              phase |-> effects[s].phase]]
    BY <1>4 DEF ReadWorkflow
  <2>2. s \in Steps /\ effects[s] \in EffectRecords /\ jobRevision \in Nat
    BY <1>1 DEF CurrentSteps, TypeOK
  <2>3. reads[r].epoch \in Nat
    BY <1>1, <1>4 DEF ReadWorkflow, ReadStates, NoRead
  <2>4. [pc |-> "CURSOR", epoch |-> reads[r].epoch, step |-> s,
         effect |-> effects[s].effect, revision |-> jobRevision,
         phase |-> effects[s].phase] \in ReadStates
    BY <2>2, <2>3 DEF EffectRecords, ReadStates
  <2> QED
    BY <2>1, <2>4
<1>5. CASE ReadCursor(r)
  <2>1. reads[r] \in [pc : {"CURSOR"}, epoch : Nat, step : Steps,
                      effect : EffectIds, revision : Nat, phase : ActionPhases]
    BY <1>1, <1>5 DEF ReadCursor, ReadStates, NoRead
  <2>2. [pc |-> "ANSWERED", epoch |-> reads[r].epoch, step |-> reads[r].step,
         effect |-> reads[r].effect, revision |-> reads[r].revision,
         phase |-> reads[r].phase, cursor |-> eventSequence] \in ReadStates
    BY <1>1, <2>1 DEF TypeOK, ReadStates
  <2> QED
    BY <1>5, <2>2 DEF ReadCursor
<1>6. CASE ReportRead(r)
  BY <1>6 DEF ReportRead, ReadStates
<1> QED
  BY <1>2, <1>3, <1>4, <1>5, <1>6

\* What a step of the sync r leaves for the induction: every other read is
\* kept by ReadKept.
SyncKeeps(r) ==
    /\ [AnyStep]_vars
    /\ UNCHANGED lifecycle
    /\ ControlMoves
    /\ \/ RowsMove
       \/ \E step, effect : Bound(step, effect) /\ UNCHANGED receipts
    /\ ReceiptsMatchEffects'
    /\ \A q \in Readers : q # r => reads'[q] = reads[q]
    /\ ReadInv(reads[r])'

LEMMA ReadingKeeps ==
    ASSUME HandBackInv, NEW r \in Readers, Serving,
           ReadControl(r) \/ ReadWorkflow(r) \/ ReadCursor(r)
    PROVE  SyncKeeps(r)
<1> USE DEF HandBackInv, ReadsTyped
<1>1. /\ UNCHANGED vars
      /\ \E a : reads' = [reads EXCEPT ![r] = a]
  BY DEF ReadControl, ReadWorkflow, ReadCursor
<1>2. UNCHANGED <<lifecycle, control, effects, receipts, jobRevision>>
  BY <1>1 DEF vars, controlVars, workflowVars
<1>3. /\ control.leaseEpoch \in Nat
      /\ ReadInv(reads[r])
      /\ ControlMoves
  BY ControlStays, <1>2 DEF TypeInv, TypeOK, ControlRecords
<1>4. PICK a : a = reads[r]
  OBVIOUS
<1>5. PICK b : b = reads'[r]
  OBVIOUS
<1>6. ReadInv(b)
  <2>1. CASE ReadControl(r)
    BY <1>3, <1>5, <2>1 DEF ReadControl, ReadInv, HasEffect
  <2>2. CASE ReadWorkflow(r)
    <3>1. PICK s \in CurrentSteps :
            reads' = [reads EXCEPT
                        ![r] = [pc |-> "CURSOR", epoch |-> @.epoch, step |-> s,
                                effect |-> effects[s].effect,
                                revision |-> jobRevision,
                                phase |-> effects[s].phase]]
      BY <2>2 DEF ReadWorkflow
    <3>2. /\ b.pc = "CURSOR" /\ b.epoch = a.epoch /\ b.step = s
          /\ b.effect = effects[s].effect /\ b.phase = effects[s].phase
          /\ s \in DOMAIN effects
      BY <1>4, <1>5, <3>1 DEF CurrentSteps
    <3>3. Faithful(b)
      BY <3>2 DEF Faithful, ReceiptsMatchEffects, WorkflowInv, EffectsDistinct
    <3>4. a.epoch <= control.leaseEpoch
      BY <1>3, <1>4, <2>2 DEF ReadWorkflow, ReadInv
    <3> QED
      BY <3>2, <3>3, <3>4 DEF ReadInv
  <2>3. CASE ReadCursor(r)
    <3>1. /\ a.pc = "CURSOR" /\ b.pc = "ANSWERED"
          /\ b.epoch = a.epoch /\ b.step = a.step
          /\ b.effect = a.effect /\ b.phase = a.phase
      BY <1>4, <1>5, <2>3 DEF ReadCursor
    <3> QED
      BY <1>3, <1>4, <3>1 DEF ReadInv, HasEffect, Faithful
  <2> QED
    BY <2>1, <2>2, <2>3
<1>7. ReadInv(b)'
  BY <1>2, <1>6 DEF ReadInv, HasEffect, Faithful
<1> QED
  BY <1>1, <1>2, <1>3, <1>5, <1>7 DEF SyncKeeps, RowsMove, ReceiptsMatchEffects

LEMMA RenewingKeeps ==
    ASSUME HandBackInv, NEW r \in Readers, RenewRead(r)
    PROVE  SyncKeeps(r)
<1> USE DEF HandBackInv, ReadsTyped
<1>1. PICK c \in Connections, now \in RequestTimes :
        /\ now + LeaseSpan <= MaxClock
        /\ RenewAgentLease(c, reads[r].epoch, now)
  BY DEF RenewRead
<1>2. /\ Serving /\ UNCHANGED <<lifecycle, effects, receipts>>
      /\ reads[r].epoch = control.leaseEpoch
      /\ control' = [control EXCEPT !.leaseExpiresAt = now + LeaseSpan]
  BY <1>1 DEF RenewAgentLease, workflowVars
<1>3. control \in ControlRecords /\ control.leaseEpoch \in Nat
  BY DEF TypeInv, TypeOK, ControlRecords
<1>4. ControlMoves /\ control'.leaseEpoch = control.leaseEpoch
  BY <1>2, <1>3 DEF ControlMoves, ControlRecords
<1>5. LeaseCall
  BY <1>1, <1>2, <1>3 DEF LeaseCall, Epochs
<1>6. /\ reads[r] \in ReadStates /\ reads[r].pc = "RENEW"
      /\ reads' = [reads EXCEPT ![r].pc = "WORKFLOW"]
  BY DEF RenewRead
<1>7. /\ reads'[r].pc = "WORKFLOW" /\ reads'[r].epoch = reads[r].epoch
      /\ \A q \in Readers : q # r => reads'[q] = reads[q]
  BY <1>6 DEF ReadStates, NoRead
<1>8. ReadInv(reads[r])'
  BY <1>2, <1>3, <1>4, <1>7 DEF ReadInv, HasEffect
<1> QED
  BY <1>2, <1>4, <1>5, <1>7, <1>8
  DEF SyncKeeps, AnyStep, OtherCall, RowsMove, ReceiptsMatchEffects

LEMMA ReportKeeps ==
    ASSUME HandBackInv, NEW r \in Readers, ReportRead(r)
    PROVE  SyncKeeps(r)
<1> USE DEF HandBackInv, ReadsTyped
<1>1. PICK a : a = reads[r]
  OBVIOUS
<1>2. /\ a.pc = "ANSWERED" /\ a \in ReadStates
      /\ RecordOwnerProgress(a.epoch, a.cursor, a.step, a.effect, a.revision,
                             a.phase)
      /\ reads' = [reads EXCEPT ![r] = NoRead]
  BY <1>1 DEF ReportRead
<1>3. a.step \in Steps /\ a.effect \in EffectIds /\ a.phase \in ActionPhases
  BY <1>2 DEF ReadStates, NoRead
<1>4. AnyReport
  BY <1>2, <1>3 DEF AnyReport
<1>5. /\ Serving /\ UNCHANGED <<lifecycle, control, receipts>>
      /\ control.controller = "USER" /\ a.epoch = control.leaseEpoch
  BY <1>2 DEF RecordOwnerProgress, controlVars
<1>6. Faithful(a)
  BY <1>1, <1>2, <1>5 DEF ReadInv, HasEffect
<1>7. TypeOK
  BY DEF TypeInv
<1>8. Bound(a.step, a.effect) /\ effects'[a.step].phase = a.phase
  BY <1>2, <1>7, ProgressBinds
<1>9. ReceiptsMatchEffects'
  BY <1>5, <1>6, <1>8, ReportKeepsMatch
<1>10. ReadInv(reads[r])'
  BY <1>2 DEF ReadInv, HasEffect, NoRead
<1> QED
  BY <1>2, <1>4, <1>5, <1>7, <1>8, <1>9, <1>10, ControlStays DEF SyncKeeps, AnyStep

LEMMA HandBackStep ==
    HandBackInv /\ [HandBackNext]_handBackVars => HandBackInv'
<1> SUFFICES ASSUME HandBackInv, [HandBackNext]_handBackVars
             PROVE  HandBackInv'
  OBVIOUS
<1>0. /\ TypeInv /\ LeaseInv /\ WorkflowInv /\ ReadsTyped
      /\ control.takeover # "QUIESCING" /\ ReceiptsMatchEffects
  BY DEF HandBackInv
<1>a. [AnyStep]_vars =>
        TypeInv' /\ LeaseInv' /\ WorkflowInv' /\ control'.leaseEpoch \in Nat
  BY <1>0, TypeStep, LeaseStep, WorkflowStep DEF TypeInv, TypeOK, ControlRecords
<1>b. ASSUME NEW q \in Readers, Serving, Serving', reads'[q] = reads[q],
             ControlMoves, [AnyStep]_vars,
             \/ RowsMove
             \/ \E step, effect : Bound(step, effect) /\ UNCHANGED receipts
      PROVE  ReadInv(reads[q])'
  <2>1. PICK a : a = reads[q]
    OBVIOUS
  <2>2. ReadInv(a) /\ (a.pc # "IDLE" => a.epoch \in Nat)
    BY <1>0, <1>b, <2>1 DEF HandBackInv, ReadsTyped, ReadStates, NoRead
  <2>3. ReadInv(a)'
    BY <1>0, <1>a, <1>b, <2>2, ReadKept
  <2> QED
    BY <1>b, <2>1, <2>3
<1>1. CASE UNCHANGED handBackVars
  <2>1. /\ UNCHANGED <<lifecycle, control, effects, receipts, reads>>
        /\ [AnyStep]_vars
    BY <1>1 DEF handBackVars, vars, controlVars, workflowVars
  <2>2. /\ RowsMove /\ ControlMoves /\ ReceiptsMatchEffects'
        /\ Serving' => Serving
    BY <1>0, <2>1, ControlStays
    DEF TypeInv, RowsMove, ReceiptsMatchEffects, Serving
  <2>3. ASSUME Serving', NEW q \in Readers
        PROVE  ReadInv(reads[q])'
    BY <1>b, <2>1, <2>2, <2>3
  <2> QED
    BY <1>0, <1>a, <2>1, <2>2, <2>3 DEF HandBackInv, ReadsTyped
<1>2. CASE OtherCall /\ UNCHANGED reads
  <2>1. /\ AnyStep
        /\ control'.takeover # "QUIESCING"
        /\ Serving /\ Serving' => ControlMoves
        /\ Serving' => Serving \/ lifecycle = "ABSENT"
        /\ lifecycle' = "ABSENT" => lifecycle = "ABSENT"
    BY <1>0, <1>2, ControlStep DEF AnyStep
  <2>2. RowsMove /\ ReceiptsMatchEffects'
    BY <1>0, <1>2, RowStep, RowsKeepMatch
  <2>3. ASSUME Serving', NEW q \in Readers
        PROVE  ReadInv(reads[q])'
    <3>1. CASE Serving
      BY <1>2, <1>b, <2>1, <2>2, <2>3, <3>1
    <3>2. CASE lifecycle = "ABSENT"
      BY <1>2, <3>2 DEF HandBackInv, ReadInv, HasEffect, NoRead
    <3> QED
      BY <2>1, <2>3, <3>1, <3>2
  <2> QED
    BY <1>0, <1>2, <1>a, <2>1, <2>2, <2>3 DEF HandBackInv, ReadsTyped
<1>3. ASSUME NEW r \in Readers,
             ReadControl(r) \/ RenewRead(r) \/ ReadWorkflow(r) \/ ReadCursor(r)
               \/ ReportRead(r)
      PROVE  HandBackInv'
  <2>1. Serving
    BY <1>3 DEF ReadControl, RenewRead, RenewAgentLease, ReadWorkflow, ReadCursor,
                ReportRead, RecordOwnerProgress
  <2>2. SyncKeeps(r) /\ ReadsTyped'
    BY <1>0, <1>3, <2>1, ReadingKeeps, RenewingKeeps, ReportKeeps, SyncTyped
  <2>3. Serving' /\ lifecycle' # "ABSENT" /\ control'.takeover # "QUIESCING"
    BY <2>1, <2>2 DEF SyncKeeps, Serving, ControlMoves
  <2>4. ASSUME NEW q \in Readers
        PROVE  ReadInv(reads[q])'
    BY <1>b, <2>1, <2>2, <2>3 DEF SyncKeeps
  <2> QED
    BY <1>a, <2>2, <2>3, <2>4 DEF SyncKeeps, HandBackInv
<1> QED
  BY <1>1, <1>2, <1>3 DEF HandBackNext

LEMMA HandBackInitial == HandBackInit => HandBackInv
<1> SUFFICES ASSUME HandBackInit PROVE HandBackInv
  OBVIOUS
<1>1. Init /\ reads = [r \in Readers |-> NoRead]
  BY DEF HandBackInit
<1>2. TypeInv /\ LeaseInv /\ WorkflowInv
  BY <1>1, TypeInit, LeaseInit, WorkflowInit
<1>3. /\ ReceiptsMatchEffects
      /\ control.takeover # "QUIESCING"
      /\ ~Serving
  BY <1>1 DEF Init, EmptyTable, ReceiptsMatchEffects, InitialControl, Serving
<1> QED
  BY <1>1, <1>2, <1>3 DEF HandBackInv, ReadsTyped, ReadStates

\* What is proved of AnySpec holds of HandBack too.
LEMMA HandBackIsAny == HandBackSpec => AnySpec
<1>1. HandBackInv /\ [HandBackNext]_handBackVars => [AnyStep]_vars
  <2> SUFFICES ASSUME HandBackInv, [HandBackNext]_handBackVars
               PROVE  [AnyStep]_vars
    OBVIOUS
  <2>1. ASSUME NEW r \in Readers,
               ReadControl(r) \/ RenewRead(r) \/ ReadWorkflow(r) \/ ReadCursor(r)
                 \/ ReportRead(r)
        PROVE  [AnyStep]_vars
    BY <2>1, RenewingKeeps, ReportKeeps
    DEF ReadControl, ReadWorkflow, ReadCursor, SyncKeeps
  <2> QED
    BY <2>1 DEF HandBackNext, handBackVars, AnyStep
<1>2. HandBackInit => Init
  BY DEF HandBackInit
<1> QED
  BY <1>1, <1>2, HandBackInitial, HandBackStep, PTL DEF HandBackSpec, AnySpec

(***************************************************************************)
(* RECOVERY_STATE_CORRUPT does not arise either where every report is a    *)
(* hand-back of what a sync read.                                          *)
(***************************************************************************)
THEOREM HandBacksRecoverable == HandBackSpec => []ActionsRecoverable
<1>1. Init => ActionsRecoverable
  BY DEF Init, EmptyTable, ActionsRecoverable
<1> QED
  BY <1>1, RecoverableStep, TypeInvariant, HandBackIsAny, PTL DEF TypeInv, AnySpec

(***************************************************************************)
(* An effect reads RECEIPTED exactly when its receipt is stored, wherever  *)
(* in the sync's calls a takeover, a receipt or another hand-back comes:   *)
(* the epoch that a report is checked by also vouches for the phase,       *)
(* which is read in a later call.                                          *)
(***************************************************************************)
THEOREM ProgressIsReceipted == HandBackSpec => []ReceiptsMatchEffects
<1>1. HandBackInv => ReceiptsMatchEffects
  BY DEF HandBackInv
<1> QED
  BY <1>1, HandBackInitial, HandBackStep, PTL DEF HandBackSpec
===============================================================================
