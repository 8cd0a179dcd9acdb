------------------------------ MODULE RitualRuns -------------------------------
(***************************************************************************)
(* The desktop's Ritual runtime: the scheduler (ritual-scheduler.ts), the  *)
(* controller (ritual-builder-controller.ts), the drives of its runs and   *)
(* the orderly shutdown (ritual-runtime-shutdown.ts), over the store of    *)
(* RitualStore.                                                            *)
(*                                                                         *)
(* Three queues interleave.  The repository serves one call at a time: a   *)
(* step of this module is one call, or several with no effect of another   *)
(* between them.  The controller serves the operations it gave to          *)
(* enqueueRun one at a time: "task" is the one in service.  The scheduler  *)
(* runs one tick at a time: "tick".  The drives of active runs, and the    *)
(* approvals of revisions, are in none of the queues.                      *)
(*                                                                         *)
(* The process may crash at any step, a write of the file may fail, and    *)
(* the owner changes the schedule or the Ritual, cancels, retries, opens   *)
(* the workspace and quits: MaxEvents of these in all, in any order.       *)
(***************************************************************************)
EXTENDS RitualStore

CONSTANTS
    Ids,          \* identities of runs, 1 .. n, handed out in order
    MaxDay,
    MaxEvents     \* faults, and interventions of the owner

Schedules ==
    [ of : Nat \ {0}, state : {"ENABLED", "PAUSED"}, next : Nat \ {0},
      last : Nat, pending : {None} \cup [run : Ids, due : Nat \ {0}] ]

\* What an operation of enqueueRun, and a drive, hold between two steps.
Tasks ==
    [op : {"START"}, by : {"OWNER", "TICK"}, id : Ids, of : Nat \ {0},
     writes : {"QUEUED", "STARTED"}]
    \cup [op : {"COMPLETE"}, id : Ids]
    \cup [op : {"LOAD"}, run : RunsOf(Ids, Nat \ {0})]
    \cup [op : {"SCHEDULE"}, of : Nat \ {0}, schedule : Schedules, unmoved : BOOLEAN]
Drives ==
    [at : {"EXECUTING", "COMPLETING", "AWAITING_CANCELLATION"},
     run : RunsOf(Ids, Nat \ {0})]

ASSUME IdsAssumption == Ids \subseteq Nat \ {0}
ASSUME NoneAssumption == None \notin Tasks \cup Drives

VARIABLES
    store,      \* the file
    day,        \* the clock: the day whose local time has been reached
    app,        \* "UP", "QUITTING", "CLOSING" or "DOWN"
    task,       \* the operation of enqueueRun in service, or None
    tick,       \* the scheduler's tick
    drive,      \* activeRuns: the drive of each run, or None
    aborted,    \* runs whose abort signal is set
    canceling,  \* pendingRunCancellations
    \* history and bounds
    nextId, lost, lastClaim, events

durable == <<store, day, nextId, lastClaim>>
volatile == <<task, tick, drive, aborted, canceling>>
vars == <<store, day, app, task, tick, drive, aborted, canceling,
          nextId, lost, lastClaim, events>>

-------------------------------------------------------------------------------
NoTick == [at |-> "IDLE"]

\* The Ritual has been approved and tested, and an improvement proposed from
\* the test; its schedule is configured by the owner.
Init ==
    /\ store = [EmptyStore EXCEPT
          !.rituals = <<InitialRevision(1)>>,
          !.receipts = {TestReceipt(1, 1)},
          !.proposals = <<[id |-> 1, from |-> 1, receipt |-> <<"test", 1>>,
                           definition |-> 2]>>,
          !.schedules = {[of |-> 1, state |-> "ENABLED", next |-> 1, last |-> 0,
                          pending |-> None]}]
    /\ day = 0 /\ app = "UP" /\ nextId = 1 /\ lastClaim = 0
    /\ task = None /\ tick = NoTick
    /\ drive = [id \in Ids |-> None]
    /\ aborted = {} /\ canceling = {} /\ lost = {}
    /\ events = 0

Running == app # "DOWN"
ControllerOpen == app \in {"UP", "QUITTING"}
\* A fault or an intervention of the owner, as far as the bound goes.
Event == events < MaxEvents /\ events' = events + 1

IsActive(id) == drive[id] # None

\* The drive is over: its entry of activeRuns is deleted, its promise settled.
DriveEnds(id) ==
    /\ drive' = [drive EXCEPT ![id] = None]
    /\ aborted' = aborted \ {id}

\* A run that is open and that a failure left without anyone to drive it.
LoseIfOpen(ids) ==
    lost' = lost \cup {id \in ids : id \in RunIds(store) /\ ~IsTerminal(RunOf(store, id))}

MarkMoved(revision) ==
    IF task # None /\ task.op = "SCHEDULE" /\ task.of = revision
    THEN task' = [task EXCEPT !.unmoved = FALSE]
    ELSE UNCHANGED task

-------------------------------------------------------------------------------
(***************************************************************************)
(* The scheduler's tick.  A timer or a wake-up may begin one at any time;  *)
(* ticks wait for one another.                                             *)
(***************************************************************************)
Pending == {s \in EnabledSchedules(store) : s.pending # None}
Due == {s \in EnabledSchedules(store) : s.pending = None /\ s.next <= day}

TickBegins ==
    /\ app = "UP" /\ tick = NoTick
    /\ \/ \E s \in Pending :
             /\ tick' = [at |-> "START", of |-> s.of, run |-> s.pending.run,
                         retained |-> TRUE]
             /\ UNCHANGED nextId
       \/ /\ Pending = {} /\ nextId \in Ids
          /\ \E s \in Due :
                tick' = [at |-> "CLAIM", of |-> s.of, run |-> nextId,
                         due |-> s.next, now |-> day]
          /\ nextId' = nextId + 1
    /\ UNCHANGED <<store, day, app, task, drive, aborted, canceling, lost,
                   lastClaim, events>>

\* claimScheduleOccurrence: null ends the processing of the schedule.
TickClaims ==
    /\ Running /\ tick.at = "CLAIM"
    /\ LET after == ClaimOccurrence(store, tick)
           schedule == ScheduleOf(after, tick.of)
       IN  /\ store' = after
           /\ IF schedule = None \/ schedule.pending = None \/ after = store
              THEN tick' = NoTick /\ UNCHANGED lastClaim
              ELSE /\ tick' = [at |-> "START", of |-> tick.of,
                               run |-> schedule.pending.run, retained |-> FALSE]
                   /\ lastClaim' = schedule.pending.due
           /\ IF after = store THEN UNCHANGED task ELSE MarkMoved(tick.of)
    /\ UNCHANGED <<day, app, drive, aborted, canceling, nextId, lost, events>>

\* The acknowledgement of a claim the tick made itself has the claim's instant,
\* so it does not move the schedule for one who read it in between.
TickAcknowledges ==
    /\ Running /\ tick.at = "ACKNOWLEDGE"
    /\ store' = Acknowledge(store, tick.run)
    /\ tick' = NoTick
    /\ IF tick.retained /\ store' # store THEN MarkMoved(tick.of) ELSE UNCHANGED task
    /\ UNCHANGED <<day, app, drive, aborted, canceling, nextId, lost,
                   lastClaim, events>>

\* A claim or an acknowledgement that is not written: the tick fails and a
\* later one finds the schedule as it was.
TickFails ==
    /\ Running /\ tick.at \in {"CLAIM", "ACKNOWLEDGE"} /\ Event
    /\ tick' = NoTick
    /\ UNCHANGED <<store, day, app, task, drive, aborted, canceling, nextId,
                   lost, lastClaim>>

-------------------------------------------------------------------------------
(***************************************************************************)
(* Runs are started by the tick or by the owner.  The reads of a start are *)
(* one step and each of its writes another.                                *)
(***************************************************************************)
Free == Running /\ task = None

\* What becomes of the caller of a start: a tick waits for the drive, or goes
\* on to acknowledge when the call returned, or fails when it threw.
CallerDrives(t) ==
    tick' = IF t.by = "TICK" THEN [tick EXCEPT !.at = "DRIVE"] ELSE tick
CallerReturns(t) ==
    tick' = IF t.by = "TICK" THEN [tick EXCEPT !.at = "ACKNOWLEDGE"] ELSE tick
CallerFails(t) == tick' = IF t.by = "TICK" THEN NoTick ELSE tick

Activate(run) ==
    /\ drive' = [drive EXCEPT ![run.id] =
          [at |-> IF run.current = NoStep THEN "COMPLETING" ELSE "EXECUTING",
           run |-> run]]
    /\ aborted' = IF app = "CLOSING" \/ run.id \in canceling
                  THEN aborted \cup {run.id} ELSE aborted
    /\ lost' = lost \ {run.id}

StartTask(by, id, of, writes) ==
    [op |-> "START", by |-> by, id |-> id, of |-> of, writes |-> writes]

\* Seeded fault: a run the owner has started is not looked for.
StartScheduledRunBlindly ==
    /\ Free /\ ControllerOpen /\ tick.at = "START"
    /\ IF tick.run \in RunIds(store)
       THEN tick' = [tick EXCEPT !.at = "ACKNOWLEDGE"] /\ UNCHANGED task
       ELSE /\ task' = StartTask("TICK", tick.run, tick.of, "QUEUED")
            /\ tick' = [tick EXCEPT !.at = "STARTING"]
    /\ UNCHANGED <<durable, app, drive, aborted, canceling, lost, events>>

\* Seeded fault: an occurrence whose run exists already is refused.
StartScheduledRunOnce ==
    /\ Free /\ ControllerOpen /\ tick.at = "START"
    /\ IF tick.run \in RunIds(store)
       THEN tick' = NoTick /\ UNCHANGED task
       ELSE /\ task' = StartTask("TICK", tick.run, tick.of, "QUEUED")
            /\ tick' = [tick EXCEPT !.at = "STARTING"]
    /\ UNCHANGED <<durable, app, drive, aborted, canceling, lost, events>>

\* startScheduledRun.  The run of a replayed occurrence is taken up where it
\* is; another open run of the revision stands for the occurrence.  A revision
\* that is no longer the latest makes it stale: a tick that found the claim
\* acknowledges it, one that has just made it fails.
StartScheduledRun ==
    /\ Free /\ ControllerOpen /\ tick.at = "START"
    /\ LET exists == tick.run \in RunIds(store)
           run == RunOf(store, tick.run)
       IN  CASE exists /\ run.status = "QUEUED" ->
                  /\ task' = StartTask("TICK", tick.run, tick.of, "STARTED")
                  /\ tick' = [tick EXCEPT !.at = "STARTING"]
                  /\ UNCHANGED <<drive, aborted, lost>>
             [] exists /\ run.status = "RUNNING" ->
                  /\ IF IsActive(run.id)
                     THEN tick' = NoTick /\ UNCHANGED <<drive, aborted, lost>>
                     ELSE /\ Activate(run)
                          /\ tick' = [tick EXCEPT !.at = "DRIVE"]
                  /\ UNCHANGED task
             [] ~exists /\ tick.of = LatestRevision(store)
                  /\ OpenRuns(store, tick.of) = {} ->
                  /\ task' = StartTask("TICK", tick.run, tick.of, "QUEUED")
                  /\ tick' = [tick EXCEPT !.at = "STARTING"]
                  /\ UNCHANGED <<drive, aborted, lost>>
             [] ~exists /\ tick.of # LatestRevision(store) /\ ~tick.retained ->
                  /\ tick' = NoTick /\ UNCHANGED <<task, drive, aborted, lost>>
             [] OTHER ->
                  /\ tick' = [tick EXCEPT !.at = "ACKNOWLEDGE"]
                  /\ UNCHANGED <<task, drive, aborted, lost>>
    /\ UNCHANGED <<durable, app, canceling, events>>

\* startRun.  An open run is returned as it is, unless it waits for a resource.
OwnerStartsRun ==
    /\ Free /\ ControllerOpen
    /\ LET of == LatestRevision(store)
           waiting == {r \in OpenRuns(store, of) : CanRetryResource(r)}
       IN  \/ /\ OpenRuns(store, of) = {} /\ nextId \in Ids
              /\ task' = StartTask("OWNER", nextId, of, "QUEUED")
              /\ nextId' = nextId + 1
              /\ UNCHANGED <<store, drive, aborted, lost, events>>
           \/ \E r \in waiting :
              /\ Event
              /\ SaveRun(store, RetryResource(r)).ok
              /\ store' = SaveRun(store, RetryResource(r)).store
              /\ Activate(RetryResource(r))
              /\ UNCHANGED <<task, nextId>>
    /\ UNCHANGED <<day, app, tick, canceling, lastClaim>>

\* createAndStartRun: the queued run, then the started one, then the drive.
SaveQueued ==
    /\ Running /\ task # None /\ task.op = "START" /\ task.writes = "QUEUED"
    /\ LET saved == SaveRun(store, CreateRitualRun(task.id, task.of))
       IN  IF saved.ok
           THEN /\ store' = saved.store
                /\ task' = [task EXCEPT !.writes = "STARTED"]
                /\ UNCHANGED tick
           ELSE /\ task' = None /\ CallerFails(task) /\ UNCHANGED store
    /\ UNCHANGED <<day, app, drive, aborted, canceling, nextId, lost, lastClaim, events>>

\* A run whose first step is the owner's to approve is activated and, there being
\* nothing to execute, given back by its drive at once.
SaveStarted ==
    /\ Running /\ task # None /\ task.op = "START" /\ task.writes = "STARTED"
    /\ LET started == Start(RunOf(store, task.id))
           saved == SaveRun(store, started)
       IN  /\ saved.ok
           /\ store' = saved.store
           /\ IF started.status = "RUNNING"
              THEN Activate(started) /\ CallerDrives(task)
              ELSE CallerReturns(task) /\ UNCHANGED <<drive, aborted, lost>>
    /\ task' = None
    /\ UNCHANGED <<day, app, canceling, nextId, lastClaim, events>>

\* A write of a start fails.
StartFails ==
    /\ Running /\ task # None /\ task.op = "START" /\ Event
    /\ CallerFails(task) /\ LoseIfOpen({task.id})
    /\ task' = None
    /\ UNCHANGED <<durable, app, drive, aborted, canceling>>

\* approveRunStep.
OwnerApprovesStep ==
    /\ Free /\ ControllerOpen
    /\ \E r \in Elements(store.runs) :
          /\ CanApproveStep(r, r.current) /\ ~IsActive(r.id)
          /\ LET approved == ApproveStep(r, r.current)
                 saved == SaveRun(store, approved)
             IN  saved.ok /\ store' = saved.store /\ Activate(approved)
    /\ UNCHANGED <<day, app, task, tick, canceling, nextId, lastClaim, events>>

-------------------------------------------------------------------------------
(***************************************************************************)
(* driveRun: one turn of its loop is the executor's answer and the write   *)
(* that follows it.  The repository serves that write before anything asked *)
(* of it later, so the two are one step; a crash between them is a crash    *)
(* before the answer.                                                      *)
(***************************************************************************)
Executing(id) == Running /\ IsActive(id) /\ drive[id].at = "EXECUTING"

\* The drive of a tick's run is over: the call returned, or it threw.
TickReturns(id) ==
    tick' = IF tick.at = "DRIVE" /\ tick.run = id
            THEN [tick EXCEPT !.at = "ACKNOWLEDGE"] ELSE tick
TickThrows(id) ==
    tick' = IF tick.at = "DRIVE" /\ tick.run = id THEN NoTick ELSE tick

DriveStep(id) ==
    /\ Executing(id) /\ id \notin aborted
    /\ \E answer \in ExecutorAnswers(drive[id].run) :
          LET run == Follow(drive[id].run, answer)
              saved == SaveRun(store, run)
          IN  /\ saved.ok /\ store' = saved.store
              /\ IF run.status = "RUNNING"
                 THEN /\ drive' = [drive EXCEPT ![id] =
                          [at |-> IF run.current = NoStep THEN "COMPLETING"
                                  ELSE "EXECUTING", run |-> run]]
                      /\ UNCHANGED <<aborted, tick>>
                 ELSE DriveEnds(id) /\ TickReturns(id)
    /\ UNCHANGED <<day, app, task, canceling, nextId, lost, lastClaim, events>>

\* The executor throws, reports an effect, or the write after its answer fails:
\* the run fails from what is durable.
DriveFails(id) ==
    /\ Executing(id) /\ id \notin aborted
    /\ LET saved == SaveRun(store, Fail(drive[id].run))
       IN  saved.ok /\ store' = saved.store
    /\ DriveEnds(id) /\ TickReturns(id)
    /\ UNCHANGED <<day, app, task, canceling, nextId, lost, lastClaim, events>>

\* That write fails as well.
DriveIsLost(id) ==
    /\ Executing(id) /\ id \notin aborted /\ Event
    /\ DriveEnds(id) /\ TickThrows(id) /\ LoseIfOpen({id})
    /\ UNCHANGED <<durable, app, task, canceling>>

\* abortable rejects: the drive now waits for the outcome of the cancellation.
DriveIsAborted(id) ==
    /\ Executing(id) /\ id \in aborted
    /\ drive' = [drive EXCEPT ![id].at = "AWAITING_CANCELLATION"]
    /\ UNCHANGED <<durable, app, task, tick, aborted, canceling, lost, events>>

\* Seeded fault: a refused completion ends the drive at once.
CompletionBeginsOrEnds(id) ==
    /\ Free /\ IsActive(id) /\ drive[id].at = "COMPLETING"
    /\ IF id \in aborted \cup canceling
       THEN DriveEnds(id) /\ UNCHANGED task
       ELSE /\ task' = [op |-> "COMPLETE", id |-> id]
            /\ UNCHANGED <<drive, aborted>>
    /\ UNCHANGED <<durable, app, tick, canceling, lost, events>>

\* The completion is an operation of enqueueRun: refused if the run is being
\* canceled, begun otherwise.
CompletionBegins(id) ==
    /\ Free /\ IsActive(id) /\ drive[id].at = "COMPLETING"
    /\ IF id \in aborted \cup canceling
       THEN /\ drive' = [drive EXCEPT ![id].at = "AWAITING_CANCELLATION"]
            /\ UNCHANGED task
       ELSE /\ task' = [op |-> "COMPLETE", id |-> id]
            /\ UNCHANGED drive
    /\ UNCHANGED <<durable, app, tick, aborted, canceling, lost, events>>

Completing(id) == Running /\ task # None /\ task.op = "COMPLETE" /\ task.id = id

\* The rename is the commit point: until then a cancellation wins.
CompletionCommits(id) ==
    /\ Completing(id) /\ id \notin aborted
    /\ LET saved == SaveCompletion(store, CompleteRun(drive[id].run))
       IN  saved.ok /\ store' = saved.store
    /\ DriveEnds(id) /\ TickReturns(id)
    /\ canceling' = canceling \ {id}
    /\ task' = None
    /\ UNCHANGED <<day, app, nextId, lost, lastClaim, events>>

CompletionIsAborted(id) ==
    /\ Completing(id) /\ id \in aborted
    /\ drive' = [drive EXCEPT ![id].at = "AWAITING_CANCELLATION"]
    /\ task' = None
    /\ UNCHANGED <<durable, app, tick, aborted, canceling, lost, events>>

\* The terminal write fails or does not fit: the drive throws.
CompletionFails(id) ==
    /\ Completing(id) /\ id \notin aborted
    /\ \/ Event
       \/ ~SaveCompletion(store, CompleteRun(drive[id].run)).ok /\ UNCHANGED events
    /\ DriveEnds(id) /\ TickThrows(id) /\ LoseIfOpen({id})
    /\ task' = None
    /\ UNCHANGED <<durable, app, canceling>>

-------------------------------------------------------------------------------
(***************************************************************************)
(* cancelRun: the abort is immediate, the durable cancellation an operation *)
(* of enqueueRun, whose outcome is that of the drive as well.              *)
(***************************************************************************)
OwnerCancels(id) ==
    /\ ControllerOpen /\ id \notin canceling /\ Event
    /\ id \in RunIds(store) /\ ~IsTerminal(RunOf(store, id))
    /\ canceling' = canceling \cup {id}
    /\ aborted' = IF IsActive(id) THEN aborted \cup {id} ELSE aborted
    /\ UNCHANGED <<durable, app, task, tick, drive, lost>>

CancellationIsServed(id) ==
    /\ Free /\ id \in canceling
    /\ IF id \in RunIds(store) /\ CanStop(RunOf(store, id))
       THEN LET saved == SaveRun(store, Cancel(RunOf(store, id)))
            IN  /\ saved.ok /\ store' = saved.store /\ TickReturns(id)
       ELSE UNCHANGED store /\ TickThrows(id)
    /\ canceling' = canceling \ {id}
    /\ DriveEnds(id)
    /\ UNCHANGED <<day, app, task, nextId, lost, lastClaim, events>>

CancellationFails(id) ==
    /\ Free /\ id \in canceling /\ Event
    /\ canceling' = canceling \ {id}
    /\ DriveEnds(id) /\ TickThrows(id) /\ LoseIfOpen({id})
    /\ UNCHANGED <<durable, app, task>>

-------------------------------------------------------------------------------
(***************************************************************************)
(* Opening the workspace reconciles the latest run of the latest revision  *)
(* (reconcileLoadedSnapshot): one call reads it, one reads the schedules,  *)
(* and the run is then waiting or failed unless somebody answers for it.   *)
(***************************************************************************)
LoadReads ==
    /\ Free /\ Event
    /\ LastRun(store) # None /\ LastRun(store).status \in {"QUEUED", "RUNNING"}
    /\ task' = [op |-> "LOAD", run |-> LastRun(store)]
    /\ UNCHANGED <<durable, app, tick, drive, aborted, canceling, lost>>

IsPendingScheduleRun(id) ==
    \E s \in store.schedules : s.pending # None /\ s.pending.run = id

\* What an interrupted run becomes.
Reconciled(run) ==
    IF IsExecuting(run) /\ run.current = 1 /\ run.found # "none" /\ ~run.report
    THEN WaitForResource(run, run.found)
    ELSE Fail(run)

LoadReconciles ==
    /\ Running /\ task # None /\ task.op = "LOAD"
    /\ store' = IF IsActive(task.run.id) \/ IsPendingScheduleRun(task.run.id)
                THEN store
                ELSE SaveRun(store, Reconciled(task.run)).store
    /\ task' = None
    /\ UNCHANGED <<day, app, tick, drive, aborted, canceling, nextId, lost,
                   lastClaim, events>>

-------------------------------------------------------------------------------
(***************************************************************************)
(* The owner's schedule and revisions.                                     *)
(***************************************************************************)
ScheduleTask(schedule) ==
    [op |-> "SCHEDULE", of |-> schedule.of, schedule |-> schedule, unmoved |-> TRUE]

\* configureSchedule and pauseSchedule: what is read, and what will be saved.
ConfigureReads ==
    /\ Free /\ Event
    /\ LET of == LatestRevision(store)
           existing == ScheduleOf(store, of)
       IN  /\ existing # None => existing.pending = None
           /\ task' = ScheduleTask(
                [of |-> of, state |-> "ENABLED", next |-> day + 1, pending |-> None,
                 last |-> IF existing = None THEN 0 ELSE existing.last])
    /\ UNCHANGED <<durable, app, tick, drive, aborted, canceling, lost>>

PauseReads ==
    /\ Free /\ Event
    /\ \E s \in store.schedules :
          /\ s.of = LatestRevision(store)
          /\ task' = ScheduleTask([s EXCEPT !.state = "PAUSED", !.pending = None])
    /\ UNCHANGED <<durable, app, tick, drive, aborted, canceling, lost>>

\* The save, unless the schedule has moved since it was read.
ScheduleIsSaved ==
    /\ Running /\ task # None /\ task.op = "SCHEDULE"
    /\ store' = SaveSchedule(store, task.schedule, task.unmoved).store
    /\ task' = None
    /\ UNCHANGED <<day, app, tick, drive, aborted, canceling, nextId, lost,
                   lastClaim, events>>

\* approveLearning, outside of the controller's queue.
OwnerApprovesLearning ==
    /\ Running /\ Event
    /\ \E p \in Elements(store.proposals) :
          LET saved == Save(store, LearnedRevision(Latest(store), p))
          IN  saved.ok /\ saved.store # store /\ store' = saved.store
    /\ UNCHANGED <<day, app, volatile, nextId, lost, lastClaim>>

\* restoreRevision: refused while a run of the current revision is open.
OwnerRestores ==
    /\ Free /\ Event
    /\ OpenRuns(store, LatestRevision(store)) = {}
    /\ LearningReview(store) = None
    /\ \E origin \in Elements(store.rituals) :
          /\ origin.revision < LatestRevision(store)
          /\ LET saved == Save(store, RestoredRevision(Latest(store), origin))
             IN  saved.ok /\ store' = saved.store
    /\ UNCHANGED <<day, app, volatile, nextId, lost, lastClaim>>

-------------------------------------------------------------------------------
(***************************************************************************)
(* Shutdown, crash, restart.                                               *)
(***************************************************************************)
\* The scheduler closes first: no tick begins, the one in progress is awaited.
Quit ==
    /\ app = "UP" /\ app' = "QUITTING" /\ Event
    /\ UNCHANGED <<durable, volatile, lost>>

\* Then the controller closes: every active run is aborted.
ControllerCloses ==
    /\ app = "QUITTING" /\ tick = NoTick
    /\ app' = "CLOSING"
    /\ aborted' = aborted \cup {id \in Ids : IsActive(id)}
    /\ canceling' = canceling \cup {id \in Ids : IsActive(id)}
    /\ UNCHANGED <<durable, task, tick, drive, lost, events>>

\* Seeded fault: a run activated after the close began is not canceled.
CloseAdoptsNothing(id) == FALSE /\ UNCHANGED vars

\* A run that a start activated after the close began.
CloseAdopts(id) ==
    /\ Free /\ app = "CLOSING" /\ IsActive(id) /\ id \notin canceling
    /\ canceling' = canceling \cup {id}
    /\ UNCHANGED <<durable, app, task, tick, drive, aborted, lost, events>>

Forgets ==
    /\ task' = None /\ tick' = NoTick
    /\ drive' = [id \in Ids |-> None]
    /\ aborted' = {} /\ canceling' = {}

QuitEnds ==
    /\ app = "CLOSING" /\ task = None
    /\ \A id \in Ids : ~IsActive(id)
    /\ app' = "DOWN" /\ Forgets
    /\ UNCHANGED <<durable, lost, events>>

Unattended == {id \in RunIds(store) : RunOf(store, id).status \in {"QUEUED", "RUNNING"}}

Crash ==
    /\ Running /\ Event
    /\ app' = "DOWN" /\ Forgets /\ LoseIfOpen(Unattended)
    /\ UNCHANGED <<durable>>

Launch ==
    /\ app = "DOWN" /\ app' = "UP"
    /\ UNCHANGED <<durable, volatile, lost, events>>

DayPasses ==
    /\ day < MaxDay /\ day' = day + 1
    /\ UNCHANGED <<store, app, volatile, nextId, lost, lastClaim, events>>

-------------------------------------------------------------------------------
Next ==
    \/ TickBegins \/ TickClaims \/ TickAcknowledges \/ TickFails
    \/ StartScheduledRun \/ OwnerStartsRun \/ OwnerApprovesStep
    \/ SaveQueued \/ SaveStarted \/ StartFails
    \/ LoadReads \/ LoadReconciles
    \/ ConfigureReads \/ PauseReads \/ ScheduleIsSaved
    \/ OwnerApprovesLearning \/ OwnerRestores
    \/ Quit \/ ControllerCloses \/ QuitEnds \/ Crash \/ Launch \/ DayPasses
    \/ \E id \in Ids :
          \/ DriveStep(id) \/ DriveFails(id) \/ DriveIsLost(id) \/ DriveIsAborted(id)
          \/ CompletionBegins(id) \/ CompletionCommits(id)
          \/ CompletionIsAborted(id) \/ CompletionFails(id)
          \/ OwnerCancels(id) \/ CancellationIsServed(id) \/ CancellationFails(id)
          \/ CloseAdopts(id)

\* The steps of operations in service are taken; operations that wait for the
\* controller's queue get their turn, as the queue serves in order of arrival;
\* the executor answers, by its providers' time limits; timers fire.  Nothing
\* is assumed of the owner, of failures or of the clock.
Fairness ==
    /\ WF_vars(TickBegins) /\ WF_vars(TickClaims) /\ WF_vars(TickAcknowledges)
    /\ SF_vars(StartScheduledRun)
    /\ WF_vars(SaveQueued) /\ WF_vars(SaveStarted)
    /\ WF_vars(LoadReconciles) /\ WF_vars(ScheduleIsSaved)
    /\ WF_vars(ControllerCloses) /\ SF_vars(QuitEnds)
    /\ \A id \in Ids :
          /\ WF_vars(DriveStep(id) \/ DriveFails(id)) /\ WF_vars(DriveIsAborted(id))
          /\ SF_vars(CompletionBegins(id)) /\ WF_vars(CompletionCommits(id))
          /\ WF_vars(CompletionIsAborted(id)) /\ WF_vars(CompletionFails(id))
          /\ SF_vars(CancellationIsServed(id)) /\ SF_vars(CloseAdopts(id))

Spec == Init /\ [][Next]_vars

FairSpec == Spec /\ Fairness

-------------------------------------------------------------------------------
(***************************************************************************)
(* Properties.                                                             *)
(***************************************************************************)
RunWith(id) == RunOf(store, id)
Kept(id) == id \in RunIds(store)
\* A run is reviewed if and only if one receipt of it is kept: the terminal
\* write, a cancellation that races it, evictions and crashes never part them.
ReceiptIffReviewed ==
    /\ \A r \in store.runReceipts :
          Kept(r.run) /\ RunWith(r.run).status = r.outcome
    /\ \A r \in Elements(store.runs) : r.status = "NEEDS_REVIEW" =>
          \E receipt \in store.runReceipts : receipt.run = r.id

\* No revision has two open runs, whoever starts them: the owner, a tick, a
\* replay after a crash.
OneOpenRun ==
    \A r, q \in Elements(store.runs) :
        ~IsTerminal(r) /\ ~IsTerminal(q) /\ r.of = q.of => r = q

\* A run that should be executing is executed, being started or reserved for
\* the tick that will take it up, unless a crash or a failed write left it: no
\* interleaving of starts, cancellations, completions and loads strands it.
RunningIsAttended ==
    \A id \in Unattended :
        \/ IsActive(id) \/ id \in lost
        \/ task # None /\ task.op = "START" /\ task.id = id

\* Whatever was done, and in whichever order, the runs and schedules of the file
\* are such as its schema accepts: otherwise their next write would be refused.
StoreParses ==
    /\ Elements(store.runs) \subseteq RunsOf(Ids, Nat \ {0})
    /\ \A r \in Elements(store.runs) : RunSchema(r)
    /\ Cardinality(RunIds(store)) = Len(store.runs)
    /\ store.schedules \subseteq Schedules

\* An enabled schedule belongs to the latest revision, though revisions are
\* approved outside of the queue in which schedules are read and saved.
EnabledIsLatest ==
    \A s \in EnabledSchedules(store) : s.of = LatestRevision(store)

\* No occurrence is claimed twice, though wake-ups overlap, claims are replayed
\* after crashes and schedules are configured anew: due days only grow.
OccurrencesGrow == [][tick.at = "CLAIM" /\ tick'.at = "START" => lastClaim' > lastClaim]_vars

\* An occurrence that was claimed is served: acknowledged, or withdrawn with its
\* schedule, unless the application is quit or crashes.
ClaimIsServed == (Pending # {} /\ app = "UP") ~> (Pending = {} \/ app # "UP")

\* The quit that waits for the tick, for its run and for the cancellations ends.
QuitCompletes == app = "QUITTING" ~> app = "DOWN"
===============================================================================
