--------------------------- MODULE EventProjection ----------------------------
(***************************************************************************)
(* The projection of a session's events into D1.  The coordinator appends  *)
(* every committed transition to its event log and its outbox; requests of *)
(* the owner copy the log into query tables, at least once:                *)
(*   project   reads the page of events not yet acknowledged, writes them  *)
(*             in one D1 batch and acknowledges them to the coordinator;   *)
(*   rebuild   reads the whole log, deletes the rows in one batch, writes  *)
(*             them again page by page and acknowledges.                   *)
(* A Worker awaits each of these calls, so that the steps of two requests  *)
(* interleave, and it may be stopped between any two of them.              *)
(*                                                                         *)
(* The coordinator's side is LogicalEffects, which SessionCoordinator      *)
(* implements.  The batch's update of the job row, which no other table    *)
(* here depends on, is modelled with the jobs, in SessionLife.             *)
(***************************************************************************)
EXTENDS Naturals, Sequences, FiniteSets

CONSTANTS
    Steps,                \* logical steps of the workflow
    ActionIds,            \* action identities
    NoAction,             \* canonical_action_id = NULL
    EffectIds,            \* effect identities
    CancellationIds,      \* cancellation identities
    NoActor,              \* the workflow_last_effect_actor table is empty
    Phases,               \* phases of an effect, as reports may name them
    Requests,             \* bound: projection requests under way at once
    PageSize,             \* events in one page (100 in the code)
    MaxEvents             \* bound: events of the session

ASSUME PageAssumption == PageSize \in Nat \ {0}

ASSUME EventsAssumption == MaxEvents \in Nat \ {0}

ASSUME PhasesAssumption == {"ACCEPTED", "RECEIPTED"} \subseteq Phases

ASSUME NullAssumption ==
    /\ NoAction \notin ActionIds
    /\ NoActor \notin [kind : {"AGENT", "OWNER"}, step : Steps, sequence : Nat]

VARIABLES
    progress, accepted,   \* the coordinator: see LogicalEffects
    receipted,            \*   (likewise)
    log,                  \* coordinator_events
    projectedSequence,    \* session_metadata.projected_sequence
    eventRows,            \* browser_session_event_projections: sequences
    tables,               \* the workflow tables of D1
    requests,             \* where each request stands, and its events
    rebuilds,             \* history: NONE, TORN by the last one, or WHOLE
    overlapped            \* history: two requests were under way at once

coordinatorVars == <<progress, accepted, receipted, log>>
d1Vars == <<eventRows, tables>>
vars == <<coordinatorVars, projectedSequence, d1Vars, requests,
          rebuilds, overlapped>>

Coordinator == INSTANCE LogicalEffects

WithEntry(table, key, entry) == Coordinator!WithEntry(table, key, entry)

-------------------------------------------------------------------------------
(***************************************************************************)
(* Events.                                                                 *)
(***************************************************************************)
Events ==
    [type : {"OTHER"}]
      \cup [type : {"WORKFLOW_ACTION_ACCEPTED"}, action : ActionIds,
            step : Steps, effect : EffectIds, canonical : ActionIds]
      \cup [type : {"WORKFLOW_CHECKPOINT_RECEIPTED"}, action : ActionIds,
            step : Steps, effect : EffectIds,
            next : Steps, nextEffect : EffectIds,
            nextPhase : {"ACCEPTED", "RECEIPTED"}]
      \cup [type : {"WORKFLOW_OWNER_PROGRESS_RECORDED"}, step : Steps,
            effect : EffectIds, phase : Phases]
      \cup [type : {"AUTOMATION_CANCELED"}, id : CancellationIds]

\* appendEventAt: the outbox row is written with the event.
AppendEvent(event) ==
    /\ Len(log) < MaxEvents
    /\ log' = Append(log, event)

-------------------------------------------------------------------------------
(***************************************************************************)
(* The statements one event adds to a batch.                               *)
(***************************************************************************)
EmptyTable == [k \in {} |-> k]

\* receipts: the event sequences whose receipt and checkpoint rows exist; an
\* effect's receipt is such a sequence, or 0.
EmptyTables ==
    [ actions       |-> EmptyTable,
      effects       |-> EmptyTable,
      actor         |-> NoActor,
      receipts      |-> {},
      cancellations |-> {} ]

EffectRow(effect, canonical, phase) ==
    [effect |-> effect, canonical |-> canonical, phase |-> phase, receipt |-> 0]

ProjectAccepted(t, e) ==
    LET row == IF e.step \in DOMAIN t.effects THEN t.effects[e.step]
               ELSE EffectRow(e.effect, NoAction, "ACCEPTED")
        kept == IF row.canonical = NoAction THEN e.canonical ELSE row.canonical
    IN  [t EXCEPT !.actions = WithEntry(@, e.action, "ACCEPTED"),
                  !.effects = WithEntry(@, e.step,
                      [row EXCEPT !.canonical = kept, !.phase = "ACCEPTED"])]

\* ON CONFLICT ... WHERE excluded.event_sequence > event_sequence.
LaterActor(actor, sequence, kind, step) ==
    IF actor = NoActor \/ sequence > actor.sequence
    THEN [kind |-> kind, step |-> step, sequence |-> sequence]
    ELSE actor

\* Seeded fault: the next step's row is overwritten.
WithNextEffectAnew(effects, e) ==
    WithEntry(effects, e.next, EffectRow(e.nextEffect, NoAction, e.nextPhase))

\* ON CONFLICT ... DO NOTHING.
WithNextEffect(effects, e) ==
    IF e.next \in DOMAIN effects THEN effects
    ELSE WithEntry(effects, e.next, EffectRow(e.nextEffect, NoAction, e.nextPhase))

ProjectReceipted(t, sequence, e) ==
    LET marked == [s \in DOMAIN t.effects |->
                     IF s = e.step /\ t.effects[s].effect = e.effect
                     THEN [t.effects[s] EXCEPT !.phase = "RECEIPTED",
                                               !.receipt = sequence]
                     ELSE t.effects[s]]
    IN  [t EXCEPT !.actor = LaterActor(@, sequence, "AGENT", e.step),
                  !.receipts = @ \cup {sequence},
                  !.actions = WithEntry(@, e.action, "RECEIPTED"),
                  !.effects = WithNextEffect(marked, e)]

ProjectOwnerProgress(t, sequence, e) ==
    LET written == IF e.step \notin DOMAIN t.effects
                   THEN WithEntry(t.effects, e.step,
                                  EffectRow(e.effect, NoAction, e.phase))
                   ELSE IF t.effects[e.step].effect = e.effect
                   THEN [t.effects EXCEPT ![e.step].phase = e.phase]
                   ELSE t.effects
    IN  [t EXCEPT !.actor = LaterActor(@, sequence, "OWNER", e.step),
                  !.effects = written]

WorkflowStatements(t, sequence, e) ==
    CASE e.type = "WORKFLOW_ACTION_ACCEPTED" -> ProjectAccepted(t, e)
      [] e.type = "WORKFLOW_CHECKPOINT_RECEIPTED" ->
           ProjectReceipted(t, sequence, e)
      [] e.type = "WORKFLOW_OWNER_PROGRESS_RECORDED" ->
           ProjectOwnerProgress(t, sequence, e)
      [] e.type = "AUTOMATION_CANCELED" ->
           [t EXCEPT !.cancellations = @ \cup {e.id}]
      [] e.type = "OTHER" -> t

\* The statements of the events first to last, in order, in one batch.
Statements(t, first, last) ==
    LET after[i \in (first - 1)..last] ==
          IF i < first THEN t ELSE WorkflowStatements(after[i - 1], i, log[i])
    IN  after[last]

\* action_receipts has a foreign key to browser_actions.
KeysHold(t, first, last) ==
    \A i \in first..last :
      log[i].type = "WORKFLOW_CHECKPOINT_RECEIPTED" =>
        \/ log[i].action \in DOMAIN t.actions
        \/ \E j \in first..(i - 1) :
             /\ log[j].type = "WORKFLOW_ACTION_ACCEPTED"
             /\ log[j].action = log[i].action

-------------------------------------------------------------------------------
(***************************************************************************)
(* Transitions of the coordinator, each with the event it commits.         *)
(***************************************************************************)
projectionVars == <<projectedSequence, d1Vars, requests, rebuilds, overlapped>>

Idle == [pc |-> "IDLE", first |-> 0, last |-> 0]

\* The session has been initialized, which is the first event.
Init ==
    /\ Coordinator!Init
    /\ log = <<[type |-> "OTHER"]>>
    /\ projectedSequence = 0
    /\ eventRows = {}
    /\ tables = EmptyTables
    /\ requests = [r \in Requests |-> Idle]
    /\ rebuilds = "NONE"
    /\ overlapped = FALSE

\* initializeWorkflow binds the first step; its event has no statements.
InitializeWorkflow(step, effect) ==
    /\ Coordinator!Bind(step, effect)
    /\ AppendEvent([type |-> "OTHER"])
    /\ UNCHANGED projectionVars

\* A command is retained; the event names the action it waits for.
AcceptCommand(action, step, effect, performs) ==
    /\ Coordinator!Accept(action, step, effect, performs)
    /\ AppendEvent(
         [type |-> "WORKFLOW_ACTION_ACCEPTED", action |-> action,
          step |-> step, effect |-> effect,
          canonical |-> IF progress'[step].canonical = NoAction THEN action
                        ELSE progress'[step].canonical])
    /\ UNCHANGED projectionVars

\* A receipt and its checkpoint: of the next step, with its effect not yet
\* performed, or as the desktop sent it.
RecordReceipt(action, next, effect, phase) ==
    /\ Coordinator!Receipt(action, next, effect)
    /\ phase = "ACCEPTED" => next # accepted[action]
    /\ AppendEvent(
         [type |-> "WORKFLOW_CHECKPOINT_RECEIPTED", action |-> action,
          step |-> accepted[action],
          effect |-> progress[accepted[action]].effect,
          next |-> next, nextEffect |-> effect, nextPhase |-> phase])
    /\ UNCHANGED projectionVars

\* The owner's progress names any phase of a bound effect, or binds it.
OwnerProgress(step, effect, phase) ==
    /\ \/ /\ step \in DOMAIN progress
          /\ progress[step].effect = effect
          /\ UNCHANGED <<progress, accepted, receipted>>
       \/ Coordinator!Bind(step, effect)
    /\ AppendEvent(
         [type |-> "WORKFLOW_OWNER_PROGRESS_RECORDED", step |-> step,
          effect |-> effect, phase |-> phase])
    /\ UNCHANGED projectionVars

CancelAutomation(id) ==
    /\ AppendEvent([type |-> "AUTOMATION_CANCELED", id |-> id])
    /\ UNCHANGED <<progress, accepted, receipted, projectionVars>>

\* Any other transition: leases, connections, results, notifications.
OtherEvent ==
    /\ AppendEvent([type |-> "OTHER"])
    /\ UNCHANGED <<progress, accepted, receipted, projectionVars>>

-------------------------------------------------------------------------------
(***************************************************************************)
(* The requests.                                                           *)
(***************************************************************************)
Lesser(m, n) == IF m <= n THEN m ELSE n

Starts(r, pc, first, last) ==
    /\ requests[r] = Idle
    /\ requests' = [requests EXCEPT
                      ![r] = [pc |-> pc, first |-> first, last |-> last]]
    /\ overlapped' = (overlapped \/ \E q \in Requests \ {r} : requests[q] # Idle)
    /\ UNCHANGED <<coordinatorVars, projectedSequence, d1Vars, rebuilds>>

\* pendingProjection: the first outbox row without projected_at.
FirstPending == projectedSequence + 1

StartProject(r) ==
    /\ FirstPending <= Len(log)
    /\ Starts(r, "PROJECT", FirstPending,
              Lesser(FirstPending + PageSize - 1, Len(log)))

WriteBatch(r) ==
    LET q == requests[r]
    IN  /\ q.pc = "PROJECT"
        /\ KeysHold(tables, q.first, q.last)
        /\ eventRows' = eventRows \cup q.first..q.last
        /\ tables' = Statements(tables, q.first, q.last)
        /\ requests' = [requests EXCEPT ![r].pc = "WRITTEN"]
        /\ UNCHANGED <<coordinatorVars, projectedSequence, rebuilds, overlapped>>

\* Seeded fault: what was appended since the page was read is included.
AckedLatest(r) == Len(log)

\* The last event of the page that was written.
Acked(r) == requests[r].last

\* markProjected: an acknowledgement that comes late changes nothing.
MarkProjected(r) ==
    /\ requests[r].pc = "WRITTEN"
    /\ projectedSequence' = IF Acked(r) <= projectedSequence
                            THEN projectedSequence ELSE Acked(r)
    /\ requests' = [requests EXCEPT ![r] = Idle]
    /\ UNCHANGED <<coordinatorVars, d1Vars, rebuilds, overlapped>>

\* The pages read are those of one instant: the log only grows.
StartRebuild(r) == Starts(r, "REBUILD", 1, Len(log))

ClearTables(r) ==
    /\ requests[r].pc = "REBUILD"
    /\ eventRows' = {}
    /\ tables' = EmptyTables
    /\ requests' = [requests EXCEPT ![r].pc = "CLEARED"]
    /\ rebuilds' = "TORN"
    /\ UNCHANGED <<coordinatorVars, projectedSequence, overlapped>>

\* A plain INSERT of the event rows: the batch fails if one is there.
InsertPage(r) ==
    LET q    == requests[r]
        last == Lesser(q.first + PageSize - 1, q.last)
    IN  /\ q.pc = "CLEARED"
        /\ q.first..last \cap eventRows = {}
        /\ KeysHold(tables, q.first, last)
        /\ eventRows' = eventRows \cup q.first..last
        /\ tables' = Statements(tables, q.first, last)
        /\ IF last = q.last
           THEN /\ requests' = [requests EXCEPT ![r].pc = "WRITTEN"]
                /\ rebuilds' = "WHOLE"
           ELSE /\ requests' = [requests EXCEPT ![r].first = last + 1]
                /\ UNCHANGED rebuilds
        /\ UNCHANGED <<coordinatorVars, projectedSequence, overlapped>>

\* The Worker stops, or a call fails: the request does nothing further.
Abandon(r) ==
    /\ requests[r] # Idle
    /\ requests' = [requests EXCEPT ![r] = Idle]
    /\ UNCHANGED <<coordinatorVars, projectedSequence, d1Vars, rebuilds,
                   overlapped>>

Next ==
    \/ \E step \in Steps, effect \in EffectIds :
         \/ InitializeWorkflow(step, effect)
         \/ \E phase \in Phases : OwnerProgress(step, effect, phase)
         \/ \E action \in ActionIds :
              \/ \E performs \in BOOLEAN :
                   AcceptCommand(action, step, effect, performs)
              \/ \E phase \in {"ACCEPTED", "RECEIPTED"} :
                   RecordReceipt(action, step, effect, phase)
    \/ \E id \in CancellationIds : CancelAutomation(id)
    \/ OtherEvent
    \/ \E r \in Requests :
         \/ StartProject(r) \/ WriteBatch(r) \/ MarkProjected(r)
         \/ StartRebuild(r) \/ ClearTables(r) \/ InsertPage(r)
         \/ Abandon(r)

Spec == Init /\ [][Next]_vars

-------------------------------------------------------------------------------
(***************************************************************************)
(* What the tables should hold of the first n events, said without the     *)
(* statements: from which events a row follows, and not how it was         *)
(* written.                                                                *)
(***************************************************************************)
Of(n, types) == {i \in 1..n : log[i].type \in types}

MaxOf(S) == CHOOSE m \in S : \A i \in S : i <= m

MinOf(S) == CHOOSE m \in S : \A i \in S : m <= i

ProgressTypes == {"WORKFLOW_ACTION_ACCEPTED", "WORKFLOW_CHECKPOINT_RECEIPTED",
                  "WORKFLOW_OWNER_PROGRESS_RECORDED"}

\* The events of a step, and those whose checkpoint introduces it.
About(n, step) == {i \in Of(n, ProgressTypes) : log[i].step = step}

Introducing(n, step) ==
    {i \in Of(n, {"WORKFLOW_CHECKPOINT_RECEIPTED"}) : log[i].next = step}

PhaseTold(e) ==
    CASE e.type = "WORKFLOW_ACTION_ACCEPTED" -> "ACCEPTED"
      [] e.type = "WORKFLOW_CHECKPOINT_RECEIPTED" -> "RECEIPTED"
      [] OTHER -> e.phase

ExpectedEffects(n) ==
    LET told == {s \in Steps : About(n, s) \cup Introducing(n, s) # {}}
        commands(s) == {i \in About(n, s) :
                          log[i].type = "WORKFLOW_ACTION_ACCEPTED"}
        receipts(s) == {i \in About(n, s) :
                          log[i].type = "WORKFLOW_CHECKPOINT_RECEIPTED"}
    IN  [s \in told |->
          [ effect    |-> progress[s].effect,
            canonical |-> IF commands(s) = {} THEN NoAction
                          ELSE log[MinOf(commands(s))].canonical,
            phase     |-> IF About(n, s) = {}
                          THEN log[MinOf(Introducing(n, s))].nextPhase
                          ELSE PhaseTold(log[MaxOf(About(n, s))]),
            receipt   |-> IF receipts(s) = {} THEN 0 ELSE MaxOf(receipts(s)) ]]

ExpectedActor(n) ==
    LET effective == Of(n, {"WORKFLOW_CHECKPOINT_RECEIPTED",
                            "WORKFLOW_OWNER_PROGRESS_RECORDED"})
        last == MaxOf(effective)
    IN  IF effective = {} THEN NoActor
        ELSE [kind |-> IF log[last].type = "WORKFLOW_CHECKPOINT_RECEIPTED"
                       THEN "AGENT" ELSE "OWNER",
              step |-> log[last].step, sequence |-> last]

ExpectedActions(n) ==
    LET commands == Of(n, {"WORKFLOW_ACTION_ACCEPTED"})
        receipts == Of(n, {"WORKFLOW_CHECKPOINT_RECEIPTED"})
    IN  [a \in {log[i].action : i \in commands} |->
          IF \E i \in receipts : log[i].action = a THEN "RECEIPTED"
          ELSE "ACCEPTED"]

Expected(n) ==
    [ actions       |-> ExpectedActions(n),
      effects       |-> ExpectedEffects(n),
      actor         |-> ExpectedActor(n),
      receipts      |-> Of(n, {"WORKFLOW_CHECKPOINT_RECEIPTED"}),
      cancellations |-> {log[i].id : i \in Of(n, {"AUTOMATION_CANCELED"})} ]

-------------------------------------------------------------------------------
(***************************************************************************)
(* Properties.                                                             *)
(***************************************************************************)
EffectRows == [effect : EffectIds, canonical : ActionIds \cup {NoAction}]

\* Type invariant: the outbox of appendEventAt and the rows that the batches
\* of projectSessionEvents and rebuildSessionProjection leave in D1.
TypeOK ==
    /\ progress \in UNION {[S -> EffectRows] : S \in SUBSET Steps}
    /\ accepted \in UNION {[A -> DOMAIN progress] : A \in SUBSET ActionIds}
    /\ receipted \subseteq EffectIds
    /\ log \in Seq(Events)
    /\ Len(log) <= MaxEvents
    /\ projectedSequence \in 0..Len(log)
    /\ eventRows \subseteq 1..Len(log)
    /\ requests \in [Requests ->
         [pc : {"IDLE", "PROJECT", "WRITTEN", "REBUILD", "CLEARED"},
          first : 0..Len(log) + 1, last : 0..Len(log)]]
    /\ rebuilds \in {"NONE", "TORN", "WHOLE"}
    /\ overlapped \in BOOLEAN

CaughtUp == projectedSequence = Len(log)

\* Only projections so far, however interleaved; or one request at a time,
\* the last rebuild complete.
Undisturbed == rebuilds = "NONE" \/ (~overlapped /\ rebuilds = "WHOLE")

\* An event acknowledged to the coordinator is in D1: no crash and no
\* interleaving of projecting requests loses one (projectSessionEvents
\* writes before it acknowledges, markProjected never goes back).
AckedEventsProjected ==
    Undisturbed => 1..projectedSequence \subseteq eventRows

\* With one request at a time, and whichever of them was abandoned at
\* whichever point, repeated pages and rebuilds leave exactly the rows that
\* the event log implies once they have caught up with it.
ProjectionConverges ==
    (~overlapped /\ rebuilds # "TORN" /\ CaughtUp)
      => /\ eventRows = 1..Len(log)
         /\ tables = Expected(Len(log))
===============================================================================
