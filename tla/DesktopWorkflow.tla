---------------------------- MODULE DesktopWorkflow ----------------------------
(***************************************************************************)
(* The delegated workflow of the desktop: the controller that runs one     *)
(* step at a time for the agent, the executor that fences it, the journal  *)
(* of what was dispatched, and the projection whose pump and whose owner's *)
(* commands all drive the one controller, each suspended at its own await. *)
(***************************************************************************)
EXTENDS ProofCoordinator, ActionJournal, FiniteSets

CONSTANTS
    Pump,           \* the pump of the projection
    Ops,            \* owner's commands that may be under way at a time
    MaxTurns,       \* maxProviderTurns
    MaxReconciles,  \* maxReconciliations
    MaxActions,     \* bound: action identities minted
    MaxCommands,    \* bound: owner's commands
    MaxFaults       \* bound: crashes, failed commits, lost answers

ASSUME WorkflowAssumption ==
    /\ Pump \notin Ops /\ None \notin Ops \union {Pump}
    /\ {MaxTurns, MaxReconciles, MaxActions, MaxCommands, MaxFaults} \subseteq Nat

\* The window awaits one command before it offers another.
ASSUME OneCommandAssumption == \A a, b \in Ops : a = b

Threads == Ops \union {Pump}

VARIABLES
    co,             \* the coordinator's memory
    disk,           \* its file
    fx,             \* the fixture service
    journal,        \* the journal's file
    page,           \* the step the fixture's page was loaded for
    exec,           \* the executor: lease, fence, action in flight
    ctl,            \* the controller: binding, generation, budgets
    ui,             \* the projection: published state, step, run generation
    th,             \* the calls under way
    owner,          \* outcome of the last takeover, while the owner has control
    budget          \* actions, commands and faults so far

wvars == <<co, disk, fx, journal, page, exec, ctl, ui, th, owner, budget>>

\* A call under way: where it waits, the action it performs (cap: the step
\* whose mutation it is, 0 to verify), the lease it was accepted under, the
\* turn and step its question was asked in, and for the pump its run, the
\* step it started from and the steps it may still take.  alone is history:
\* a retry was given while no pump ran.
Idle == [pc |-> "idle", kind |-> "RUN", action |-> 0, cap |-> 0, class |-> "MUTATION",
         epoch |-> 0, asked |-> FALSE, turn |-> 0, step |-> 0, run |-> 0, from |-> 0,
         left |-> 0, res |-> "NONE", alone |-> FALSE]

NewController(c) ==
    [step |-> c.step, epoch |-> c.epoch, generation |-> 0, turns |-> 0, reconciles |-> 0]

NewExecutor(c) == [epoch |-> c.epoch, blocked |-> FALSE, inFlight |-> None]

Init ==
    /\ co = NewCoordinator
    /\ disk = NewCoordinator
    /\ fx = NewFixture
    /\ journal = <<>>
    /\ page = 1
    /\ exec = NewExecutor(NewCoordinator)
    /\ ctl = NewController(NewCoordinator)
    /\ ui = [state |-> "READY", step |-> 1, run |-> 0]
    /\ th = [t \in Threads |-> Idle]
    /\ owner = "NONE"
    /\ budget = [actions |-> 0, commands |-> 0, faults |-> 0]

-----------------------------------------------------------------------------
(* Moves of one thread and the results it ends with.                       *)

At(t, pc) == th[t].pc = pc
Goto(t, pc) == th' = [th EXCEPT ![t].pc = pc]
EndsWith(t, res) == th' = [th EXCEPT ![t].pc = "done", ![t].res = res]

Fault == budget.faults < MaxFaults /\ budget' = [budget EXCEPT !.faults = @ + 1]

\* markOfflineTakeover.
Fenced(e) == [e EXCEPT !.blocked = TRUE]

\* The fence and the snapshot, read together: the local coordinator answers
\* both from memory.  A stale lease, a cancellation or an owner's control
\* blocks the executor.
FenceRefuses == co.epoch < ctl.epoch \/ Blocked(co) \/ co.controller # "AGENT"

FenceResult ==
    IF co.epoch >= ctl.epoch /\ co.canceled THEN "CANCELED" ELSE "FENCED"

\* cancelFutureAutomation, when the fence reports a cancellation.
FencedController ==
    [ctl EXCEPT !.generation = IF FenceResult = "CANCELED" THEN @ + 1 ELSE @]

FenceStops(t) ==
    /\ FenceRefuses
    /\ exec' = Fenced(exec)
    /\ ctl' = FencedController
    /\ EndsWith(t, FenceResult)

Bound(c) == [c EXCEPT !.step = co.step, !.epoch = co.epoch]

-----------------------------------------------------------------------------
(* The journal: what a thread records carries the controller's binding of  *)
(* that moment.                                                            *)

Class == IF ctl.step = Finalize THEN "NON_IDEMPOTENT" ELSE "IDEMPOTENT"

Entry(action, phase, class) ==
    [action |-> action, step |-> ctl.step, epoch |-> ctl.epoch, phase |-> phase,
     class |-> IF class = "READ_ONLY" THEN class ELSE Class]

\* The entry is appended and the thread goes on, or it is refused and the
\* error leaves the thread's call.
Records(t, e, goesOn) ==
    \/ CanRecord(journal, e) /\ journal' = Recorded(journal, e) /\ goesOn
    \/ ~CanRecord(journal, e) /\ UNCHANGED journal /\ EndsWith(t, "THREW")

RecordsPhase(t, phase, goesOn) ==
    Records(t, Entry(th[t].action, phase, th[t].class), goesOn)

\* Recorded without the class of the action, as an error path does.
RecordsDefault(t, phase, goesOn) ==
    Records(t, Entry(th[t].action, phase, "MUTATION"), goesOn)

-----------------------------------------------------------------------------
(* runOnce: observe, ask the provider, accept.                             *)

\* The page answers for the step it was loaded for.
PageAgrees == page = ctl.step

RunBegin(t) ==
    /\ At(t, "run")
    /\ \/ FenceStops(t)
       \/ /\ ~FenceRefuses
          /\ ctl' = Bound(ctl)
          /\ Goto(t, "observe")
          /\ UNCHANGED exec
    /\ UNCHANGED <<co, disk, fx, journal, page, ui, owner, budget>>

\* The clock has passed maxDurationMs.
TimeExhausted(t) ==
    /\ At(t, "run")
    /\ exec' = Fenced(exec)
    /\ EndsWith(t, "PROVIDER")
    /\ UNCHANGED <<co, disk, fx, journal, page, ctl, ui, owner, budget>>

Accepts(t, cap, class, pc) ==
    LET action == budget.actions + 1
    IN /\ action <= MaxActions
       /\ CanAccept(co, ctl'.step)
       /\ co' = AcceptAction(co, action, ctl'.step, cap)
       /\ budget' = [budget EXCEPT !.actions = action]
       /\ th' = [th EXCEPT ![t] = [@ EXCEPT !.pc = pc, !.action = action, !.cap = cap,
                                            !.class = class, !.epoch = co.epoch]]

ObserveStep(t) ==
    /\ At(t, "observe")
    /\ \/ /\ ~PageAgrees
          /\ EndsWith(t, "WAITING")
          /\ UNCHANGED <<co, ctl, budget>>
       \/ /\ PageAgrees /\ Satisfied(fx, page)
          /\ UNCHANGED ctl
          /\ \/ Accepts(t, 0, "READ_ONLY", "accepted")
             \/ /\ ~CanAccept(co, ctl.step)
                /\ EndsWith(t, "FENCED")
                /\ UNCHANGED <<co, budget>>
       \/ /\ PageAgrees /\ ~Satisfied(fx, page)
          /\ UNCHANGED <<co, budget>>
          /\ IF ctl.turns >= MaxTurns
             THEN EndsWith(t, "PROVIDER") /\ UNCHANGED ctl
             ELSE /\ ctl' = [ctl EXCEPT !.turns = @ + 1]
                  /\ th' = [th EXCEPT ![t] = [@ EXCEPT !.pc = "provider", !.asked = TRUE,
                                !.turn = ctl.generation, !.step = ctl.step,
                                !.epoch = ctl.epoch]]
    /\ UNCHANGED <<disk, fx, journal, page, exec, ui, owner>>

\* No takeover or cancellation came while the provider was asked.
TurnIsCurrent(t) == th[t].turn = ctl.generation

\* The answer is for the snapshot's step and lease.
MatchesSnapshot(t) == th[t].step = co.step /\ th[t].epoch = co.epoch

\* The provider fails, waits, or answers with the step's mutation or with
\* VERIFY_SETUP; what it answers is checked against the turn, the fence and
\* the snapshot before the coordinator is asked.
ProviderAnswers(t) ==
    /\ At(t, "provider")
    /\ \/ /\ EndsWith(t, "THREW")
          /\ UNCHANGED <<co, ctl, exec, budget>>
       \/ /\ ~TurnIsCurrent(t)
          /\ EndsWith(t, "WAITING")
          /\ UNCHANGED <<co, ctl, exec, budget>>
       \/ /\ TurnIsCurrent(t) /\ FenceStops(t)
          /\ UNCHANGED <<co, budget>>
       \/ /\ TurnIsCurrent(t) /\ ~FenceRefuses
          /\ ctl' = Bound(ctl)
          /\ UNCHANGED exec
          /\ \/ /\ \E res \in {"WAITING", "PROVIDER"} : EndsWith(t, res)
                /\ UNCHANGED <<co, budget>>
             \/ /\ MatchesSnapshot(t)
                /\ \E cap \in {0, th[t].step} : Accepts(t, cap, "MUTATION", "accepted")
             \/ /\ ~MatchesSnapshot(t)
                /\ EndsWith(t, "WAITING")
                /\ UNCHANGED <<co, budget>>
    /\ UNCHANGED <<disk, fx, journal, page, ui, owner>>

\* The acceptance is written: it is recorded, or its write failed.
AcceptReturns(t) ==
    /\ At(t, "accepted")
    /\ \/ /\ disk' = co
          /\ RecordsPhase(t, "ACCEPTED",
                 Goto(t, IF th[t].class = "READ_ONLY" THEN "verify" ELSE "execute"))
          /\ UNCHANGED budget
       \/ /\ Fault
          /\ EndsWith(t, "FENCED")
          /\ UNCHANGED <<disk, journal>>
    /\ UNCHANGED <<co, fx, page, exec, ctl, ui, owner>>

-----------------------------------------------------------------------------
(* The step found done: verified again and receipted.                      *)

VerifyDispatched(t) ==
    /\ At(t, "verify")
    /\ RecordsPhase(t, "DISPATCHED", Goto(t, "recheck"))
    /\ UNCHANGED <<co, disk, fx, page, exec, ctl, ui, owner, budget>>

-----------------------------------------------------------------------------
(* executeAccepted: the executor runs one action at a time, under its lease. *)

MayExecute == ~exec.blocked /\ ctl.epoch = exec.epoch

\* The action starts: it holds the executor while its dispatch is recorded;
\* one already in flight is an error, recorded as reconciliation required.
ExecuteAccepted(t) ==
    /\ At(t, "execute")
    /\ \/ FenceStops(t) /\ UNCHANGED journal
       \/ /\ ~FenceRefuses /\ ~MayExecute
          /\ EndsWith(t, "FENCED")
          /\ UNCHANGED <<journal, exec, ctl>>
       \/ /\ ~FenceRefuses /\ MayExecute
          /\ UNCHANGED ctl
          /\ LET e == Entry(th[t].action, "DISPATCHED", "MUTATION")
             IN IF exec.inFlight = None /\ CanRecord(journal, e)
                THEN /\ journal' = Recorded(journal, e)
                     /\ exec' = [exec EXCEPT !.inFlight = t]
                     /\ Goto(t, "dispatched")
                ELSE /\ RecordsDefault(t, "RECONCILIATION_REQUIRED", EndsWith(t, "WAITING"))
                     /\ UNCHANGED exec
    /\ UNCHANGED <<co, disk, fx, page, ui, owner, budget>>

\* The page performs the command it was loaded for; anything else throws in
\* the page or the adapter.
Perform(t) ==
    /\ At(t, "dispatched")
    /\ IF th[t].cap = page
       THEN /\ fx' = Execute(fx, page)
            /\ th' = [th EXCEPT ![t].pc = "performed",
                                ![t].res = IF page \in fx'.applied THEN "SATISFIED" ELSE "THREW"]
       ELSE /\ th' = [th EXCEPT ![t].pc = "performed", ![t].res = "THREW"]
            /\ UNCHANGED fx
    /\ UNCHANGED <<co, disk, journal, page, exec, ctl, ui, owner, budget>>

\* Its answer arrives, or is lost with the page.
PerformReturns(t) ==
    /\ At(t, "performed")
    /\ exec' = [exec EXCEPT !.inFlight = None]
    /\ \/ /\ th[t].res = "SATISFIED"
          /\ Goto(t, "recheck")
          /\ UNCHANGED <<journal, budget>>
       \/ /\ IF th[t].res = "THREW" \/ page # th[t].cap THEN UNCHANGED budget ELSE Fault
          /\ RecordsDefault(t, "RECONCILIATION_REQUIRED", EndsWith(t, "WAITING"))
    /\ UNCHANGED <<co, disk, fx, page, ctl, ui, owner>>

\* The live predicate decides, for a mutation and for a verification.
Recheck(t) ==
    /\ At(t, "recheck")
    /\ IF ~PageAgrees
       THEN EndsWith(t, "WAITING") /\ UNCHANGED journal
       ELSE IF Satisfied(fx, page)
            THEN RecordsPhase(t, "EFFECT_OBSERVED", Goto(t, "observed"))
            ELSE RecordsPhase(t, "RECONCILIATION_REQUIRED", EndsWith(t, "WAITING"))
    /\ UNCHANGED <<co, disk, fx, page, exec, ctl, ui, owner, budget>>

\* The receipt, of the step the controller is bound to by now.
Receipt(t) ==
    /\ At(t, "observed")
    /\ co' = RecordReceipt(co, ctl.step)
    /\ Goto(t, "receipted")
    /\ UNCHANGED <<disk, fx, journal, page, exec, ctl, ui, owner, budget>>

ReceiptReturns(t) ==
    /\ At(t, "receipted")
    /\ RecordsPhase(t, "RECEIPTED", EndsWith(t, "RECEIPTED"))
    /\ disk' = co
    /\ UNCHANGED <<co, fx, page, exec, ctl, ui, owner, budget>>

\* The write of the receipt failed, or the last one was interrupted before
\* it: recorded with the default class.
ReceiptFails(t) ==
    /\ Fault
    /\ \/ At(t, "receipted") /\ UNCHANGED <<co, disk>>
       \/ /\ At(t, "observed") /\ ctl.step = Finalize
          /\ co' = InterruptReceipt(co)
          /\ disk' = co'
    /\ RecordsDefault(t, "RECONCILIATION_REQUIRED", EndsWith(t, "FENCED"))
    /\ UNCHANGED <<fx, page, exec, ctl, ui, owner>>

-----------------------------------------------------------------------------
(* reconcile: the outstanding action, the journal's evidence of its effect *)
(* and the live predicate.                                                 *)

Evidence(s) ==
    CASE HasPhase(journal, s, {"RECEIPTED"}) -> "RECEIPTED"
      [] HasPhase(journal, s, {"EFFECT_OBSERVED"})
            /\ ~HasPhase(journal, s, {"RECEIPTED"}) -> "OBSERVED"
      [] OTHER -> IF HasPhase(journal, s, {"DISPATCHED"}) \/ co.phase # "ACCEPTED"
                  THEN "DISPATCHED" ELSE "NONE"

ReconcileBegin(t) ==
    /\ At(t, "reconcile")
    /\ \/ /\ ctl.reconciles >= MaxReconciles
          /\ EndsWith(t, "WAITING")
          /\ UNCHANGED <<ctl, exec>>
       \/ /\ ctl.reconciles < MaxReconciles /\ FenceRefuses
          /\ exec' = Fenced(exec)
          /\ ctl' = [FencedController EXCEPT !.reconciles = @ + 1]
          /\ EndsWith(t, FenceResult)
       \/ /\ ctl.reconciles < MaxReconciles /\ ~FenceRefuses
          /\ ctl' = [Bound(ctl) EXCEPT !.reconciles = @ + 1]
          /\ UNCHANGED exec
          /\ \/ co.outstanding = {} /\ Goto(t, "run")
             \/ \E o \in co.outstanding :
                   IF o.step # co.step \/ o.epoch # co.epoch
                   THEN EndsWith(t, "WAITING")
                   ELSE IF Evidence(o.step) = "RECEIPTED" THEN EndsWith(t, "RECEIPTED")
                   ELSE th' = [th EXCEPT ![t] = [@ EXCEPT !.pc = "reobserve",
                                  !.action = o.action, !.cap = o.cap, !.epoch = o.epoch,
                                  !.class = "MUTATION", !.res = Evidence(o.step)]]
    /\ UNCHANGED <<co, disk, fx, journal, page, ui, owner, budget>>

\* Seeded fault: an outcome nobody knows is tried again, the last step's too.
AwaitsOwnerNever(t) == FALSE

\* A finalization that was dispatched, or whose phase moved, and is not seen
\* done is left to the owner.
AwaitsOwner(t) == ctl.step = Finalize /\ th[t].res # "NONE"

ReconcileObserve(t) ==
    /\ At(t, "reobserve")
    /\ UNCHANGED ctl
    /\ \/ /\ ~PageAgrees \/ (~Satisfied(fx, page) /\ AwaitsOwner(t))
          /\ EndsWith(t, "WAITING")
          /\ UNCHANGED <<co, journal, budget>>
       \/ /\ PageAgrees /\ Satisfied(fx, page)
          /\ IF th[t].res = "OBSERVED" THEN Goto(t, "observed") /\ UNCHANGED journal
             ELSE RecordsDefault(t, "EFFECT_OBSERVED", Goto(t, "observed"))
          /\ UNCHANGED <<co, budget>>
       \/ /\ PageAgrees /\ ~Satisfied(fx, page) /\ ~AwaitsOwner(t)
          /\ UNCHANGED journal
          /\ IF th[t].res = "NONE"
             THEN Goto(t, "execute") /\ UNCHANGED <<co, budget>>
             ELSE \/ Accepts(t, ctl.step, "MUTATION", "accepted")
                  \/ /\ ~CanAccept(co, ctl.step)
                     /\ EndsWith(t, "FENCED")
                     /\ UNCHANGED <<co, budget>>
    /\ UNCHANGED <<disk, fx, page, exec, ui, owner>>

-----------------------------------------------------------------------------
(* The projection.                                                         *)

Projected(res) ==
    IF Terminal(co) THEN "RECEIPTED_SUCCESS"
    ELSE [RECEIPTED |-> "WORKING", OWNER_STATE_ACCEPTED |-> "WORKING",
          OWNER_CONTROL |-> "OWNER_CONTROL", WAITING |-> "HUMAN_GATE",
          PROVIDER |-> "FAILED", FENCED |-> "OFFLINE", CANCELED |-> "CANCELLED"][res]

\* after(): the canonical snapshot is published and the page follows its step.
Publishes(res) ==
    /\ page' = co.step
    /\ ui' = [ui EXCEPT !.state = Projected(res), !.step = co.step]

PumpAt(u, left) ==
    [Idle EXCEPT !.pc = "run", !.run = u.run, !.from = u.step, !.left = left]

PumpIsCurrent == th[Pump].run = ui.run

PumpGoesOn ==
    /\ th[Pump].res = "RECEIPTED" /\ Projected("RECEIPTED") = "WORKING"
    /\ co.step # th[Pump].from /\ th[Pump].left > 1

PumpAfter ==
    /\ At(Pump, "done")
    /\ \/ /\ ~PumpIsCurrent
          /\ th' = [th EXCEPT ![Pump] = Idle]
          /\ UNCHANGED <<ui, page>>
       \/ /\ PumpIsCurrent /\ th[Pump].res = "THREW"
          /\ ui' = [ui EXCEPT !.state = "FAILED"]
          /\ th' = [th EXCEPT ![Pump] = Idle]
          /\ UNCHANGED page
       \/ /\ PumpIsCurrent /\ th[Pump].res # "THREW"
          /\ Publishes(th[Pump].res)
          /\ th' = [th EXCEPT ![Pump] =
                       IF PumpGoesOn THEN PumpAt(ui', th[Pump].left - 1) ELSE Idle]
    /\ UNCHANGED <<co, disk, fx, journal, exec, ctl, owner, budget>>

\* The actions the window offers in a state.
Offered ==
    [READY |-> {"START"}, STARTING |-> {}, WORKING |-> {"TAKE_OVER", "CANCEL"},
     OWNER_CONTROL |-> {"HAND_BACK", "CANCEL"}, HUMAN_GATE |-> {"TAKE_OVER", "CANCEL"},
     OFFLINE |-> {"TAKE_OVER", "CANCEL"}, FAILED |-> {"RETRY", "CANCEL"},
     CANCELLED |-> {}, RECEIPTED_SUCCESS |-> {}, UNAVAILABLE |-> {}]

Counts ==
    /\ budget.commands < MaxCommands
    /\ budget' = [budget EXCEPT !.commands = @ + 1]

Command(t, action) ==
    /\ Counts
    /\ At(t, "idle")
    /\ action \in Offered[ui.state]

\* START: the pump, unless it runs.
Start ==
    /\ \E t \in Ops : Command(t, "START")
    /\ At(Pump, "idle")
    /\ ui' = [ui EXCEPT !.state = "STARTING", !.run = @ + 1]
    /\ th' = [th EXCEPT ![Pump] = PumpAt(ui', 4)]
    /\ UNCHANGED <<co, disk, fx, journal, page, exec, ctl, owner>>

Retry(t) ==
    /\ Command(t, "RETRY")
    /\ th' = [th EXCEPT ![t] = [Idle EXCEPT !.pc = "reconcile", !.kind = "RETRY",
                                             !.alone = At(Pump, "idle")]]
    /\ UNCHANGED <<co, disk, fx, journal, page, exec, ctl, ui, owner>>

\* cancel(), by the owner or after the observer's cancellation reached the
\* coordinator.
Cancel ==
    /\ \E t \in Ops : Command(t, "CANCEL")
    /\ \E observer \in BOOLEAN :
          co' = IF observer THEN CancelJob(co) ELSE co
    /\ disk' = IF co' = co THEN disk ELSE co'
    /\ ctl' = [ctl EXCEPT !.generation = @ + 1]
    /\ exec' = Fenced(exec)
    /\ page' = co.step
    /\ ui' = [state |-> Projected("CANCELED"), step |-> co.step, run |-> ui.run + 1]
    /\ UNCHANGED <<fx, journal, th, owner>>

\* fence(): another task is selected, or the window closes.
Fence ==
    /\ Counts
    /\ ui.state # "UNAVAILABLE"
    /\ ctl' = [ctl EXCEPT !.generation = @ + 1]
    /\ exec' = Fenced(exec)
    /\ page' = co.step
    /\ ui' = [state |-> Projected("OWNER_CONTROL"), step |-> co.step, run |-> ui.run + 1]
    /\ UNCHANGED <<co, disk, fx, journal, th, owner>>

-----------------------------------------------------------------------------
(* Takeover and hand-back.                                                 *)

\* Seeded fault: nothing in flight is waited for.
SettledAlways == TRUE

Settled == exec.inFlight = None

\* The fence comes first: turn, lease and block, then whatever is in flight.
TakeOver(t) ==
    /\ Command(t, "TAKE_OVER")
    /\ ui' = [ui EXCEPT !.run = @ + 1]
    /\ ctl' = [ctl EXCEPT !.generation = @ + 1]
    /\ IF ctl.epoch + 1 <= exec.epoch
       THEN UNCHANGED <<exec, th>>
       ELSE /\ exec' = [exec EXCEPT !.blocked = TRUE, !.epoch = ctl.epoch + 1]
            /\ th' = [th EXCEPT ![t] = [Idle EXCEPT !.pc = "quiesce", !.kind = "TAKE_OVER",
                                                     !.epoch = ctl.epoch + 1]]
    /\ UNCHANGED <<co, disk, fx, journal, page, owner>>

\* What was in flight settled, or the wait timed out; the coordinator's lease
\* moves in its memory.
Quiesce(t) ==
    /\ At(t, "quiesce")
    /\ owner' = IF Settled THEN "QUIESCED" ELSE "UNKNOWN"
    /\ co' = Takeover(co)
    /\ Goto(t, "takingover")
    /\ UNCHANGED <<disk, fx, journal, page, exec, ctl, ui, budget>>

TakeoverReturns(t) ==
    /\ At(t, "takingover")
    /\ \/ /\ disk' = co
          /\ ctl' = [ctl EXCEPT !.epoch = IF co.epoch >= th[t].epoch THEN co.epoch
                                          ELSE th[t].epoch]
          /\ UNCHANGED budget
       \/ /\ Fault
          /\ ctl' = [ctl EXCEPT !.epoch = th[t].epoch]
          /\ UNCHANGED disk
    /\ EndsWith(t, "OWNER_CONTROL")
    /\ UNCHANGED <<co, fx, journal, page, exec, ui, owner>>

HandBack(t) ==
    /\ Command(t, "HAND_BACK")
    /\ ctl' = Bound(ctl)
    /\ th' = [th EXCEPT ![t] = [Idle EXCEPT !.kind = "HAND_BACK",
                 !.pc = IF co.canceled THEN "done" ELSE "capture",
                 !.res = IF co.canceled THEN "CANCELED" ELSE "NONE"]]
    /\ UNCHANGED <<co, disk, fx, journal, page, exec, ui, owner>>

\* The form's values become the profile; an empty or unknown one is refused.
\* The owner's progress is that of the coordinator's step.
Capture(t) ==
    /\ At(t, "capture")
    /\ \/ /\ EndsWith(t, "WAITING")
          /\ UNCHANGED <<fx, co>>
       \/ /\ \E edit \in OwnerEdits : fx' = ApplyOwnerState(fx, edit)
          /\ co' = RecordOwnerProgress(co)
          /\ Goto(t, "progressed")
    /\ UNCHANGED <<disk, journal, page, exec, ctl, ui, owner, budget>>

ProgressReturns(t) ==
    /\ At(t, "progressed")
    /\ \/ /\ disk' = co
          /\ co' = ClaimFreshLease(co)
          /\ Goto(t, "claimed")
          /\ UNCHANGED budget
       \/ /\ Fault
          /\ EndsWith(t, "FENCED")
          /\ UNCHANGED <<co, disk>>
    /\ UNCHANGED <<fx, journal, page, exec, ctl, ui, owner>>

\* Seeded fault: the lease is handed to an executor that still runs an action.
MayReconcileOverAction == co.epoch > exec.epoch

\* reconcileAgentLease: a newer lease, and nothing in flight.
MayReconcileLease == co.epoch > exec.epoch /\ exec.inFlight = None

ClaimReturns(t) ==
    /\ At(t, "claimed")
    /\ \/ /\ disk' = co
          /\ UNCHANGED budget
          /\ IF MayReconcileLease
             THEN /\ exec' = [exec EXCEPT !.epoch = co.epoch, !.blocked = FALSE]
                  /\ ctl' = [ctl EXCEPT !.epoch = co.epoch]
                  /\ owner' = "NONE"
                  /\ EndsWith(t, "OWNER_STATE_ACCEPTED")
             ELSE /\ EndsWith(t, "THREW")
                  /\ UNCHANGED <<exec, ctl, owner>>
       \/ /\ Fault
          /\ EndsWith(t, "FENCED")
          /\ UNCHANGED <<disk, exec, ctl, owner>>
    /\ UNCHANGED <<co, fx, journal, page, ui>>

\* A command's answer is published; a working workflow is pumped again, a
\* hand-back's once the pump that was under way has ended.
CommandAfter(t) ==
    /\ t \in Ops /\ At(t, "done")
    /\ IF th[t].res = "THREW"
       THEN th' = [th EXCEPT ![t] = Idle] /\ UNCHANGED <<ui, page>>
       ELSE LET pumps == Projected(th[t].res) = "WORKING" /\ th[t].kind # "TAKE_OVER"
            IN /\ Publishes(th[t].res)
               /\ th' = [th EXCEPT ![t] = IF pumps THEN [@ EXCEPT !.pc = "join"] ELSE Idle]
    /\ UNCHANGED <<co, disk, fx, journal, exec, ctl, owner, budget>>

Join(t) ==
    /\ At(t, "join")
    /\ \/ /\ th[t].kind = "RETRY" /\ ~At(Pump, "idle")
          /\ th' = [th EXCEPT ![t] = Idle]
          /\ UNCHANGED ui
       \/ /\ At(Pump, "idle")
          /\ ui' = [ui EXCEPT !.run = @ + 1,
                              !.state = IF th[t].kind = "RETRY" THEN "STARTING" ELSE @]
          /\ th' = [th EXCEPT ![t] = Idle, ![Pump] = PumpAt(ui', 4)]
    /\ UNCHANGED <<co, disk, fx, journal, page, exec, ctl, owner, budget>>

-----------------------------------------------------------------------------
(* The process stops anywhere and is started again: the files remain.  A   *)
(* fixture file that does not parse leaves no workflow to command.         *)

Restart ==
    /\ Fault
    /\ co' = disk
    /\ page' = disk.step
    /\ exec' = NewExecutor(disk)
    /\ ctl' = NewController(disk)
    /\ ui' = [state |-> IF Restorable(fx) THEN "READY" ELSE "UNAVAILABLE",
              step |-> disk.step, run |-> 0]
    /\ th' = [t \in Threads |-> Idle]
    /\ owner' = "NONE"
    /\ UNCHANGED <<disk, fx, journal>>

RunStep(t) ==
    \/ RunBegin(t) \/ TimeExhausted(t) \/ ObserveStep(t) \/ ProviderAnswers(t)
    \/ AcceptReturns(t) \/ VerifyDispatched(t) \/ ExecuteAccepted(t) \/ Perform(t)
    \/ PerformReturns(t) \/ Recheck(t) \/ Receipt(t) \/ ReceiptReturns(t)
    \/ ReceiptFails(t)

CommandStep(t) ==
    \/ ReconcileBegin(t) \/ ReconcileObserve(t) \/ Retry(t) \/ TakeOver(t)
    \/ Quiesce(t) \/ TakeoverReturns(t) \/ HandBack(t) \/ Capture(t)
    \/ ProgressReturns(t) \/ ClaimReturns(t) \/ CommandAfter(t) \/ Join(t)

Next ==
    \/ \E t \in Threads : RunStep(t)
    \/ \E t \in Ops : CommandStep(t)
    \/ Start \/ PumpAfter \/ Cancel \/ Fence \/ Restart

Spec == Init /\ [][Next]_wvars

-----------------------------------------------------------------------------
(* Properties.                                                             *)

\* Owner control that began quiesced stays quiet: until the lease is handed
\* back no action of the agent is in flight, so the page is the owner's alone.
QuiescedIsQuiet == owner = "QUIESCED" => exec.inFlight = None

\* An action in flight runs under the lease all its entries were recorded under,
\* unless a takeover or a fence blocked the executor since: a lease is never
\* handed to the executor over the head of an action.
InFlightHoldsItsLease ==
    exec.inFlight # None =>
        \/ exec.blocked
        \/ \A i \in 1..Len(journal) :
              journal[i].action = th[exec.inFlight].action => journal[i].epoch = exec.epoch

\* A retry given while no pump runs never dispatches the finalization a second
\* time, whatever else the owner does meanwhile: only a fresh turn of the
\* provider does.
UnknownFinalizeWaits ==
    \A t \in Threads :
        At(t, "dispatched") /\ th[t].alone /\ ~th[t].asked /\ th[t].cap = Finalize =>
            Cardinality({i \in 1..Len(journal) :
                journal[i].step = Finalize /\ journal[i].phase = "DISPATCHED"
                /\ journal[i].class = "NON_IDEMPOTENT"}) = 1
=============================================================================
