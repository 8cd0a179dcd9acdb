---------------------------- MODULE RitualRunsProofs ----------------------------
(***************************************************************************)
(* Theorems about RitualRuns, for any number of steps, gates, runs, days,  *)
(* faults and interventions and for any limits: the runs, schedules and    *)
(* receipts of the file stay consistent, and no run is stranded.           *)
(***************************************************************************)
EXTENDS RitualRuns, TLAPS, FiniteSetTheorems, SequenceTheorems,
        WellFoundedInduction

--------------------------------------------------------------------------------
(***************************************************************************)
(* The shape of a run.  The schema the code checks at each write does not  *)
(* say it: a run that executes has completed the steps before its current  *)
(* one and none after it, and all of them when it has no current one.      *)
(***************************************************************************)
InOrder(run) ==
  \/ /\ run.status = "QUEUED" /\ run.current = NoStep
     /\ \A k \in Steps : run.steps[k] = "PENDING"
  \/ /\ run.status \in ActiveStepStatuses /\ run.current \in Steps
     /\ run.steps[run.current] = run.status
     /\ \A k \in Steps : k < run.current => run.steps[k] = "COMPLETED"
     /\ \A k \in Steps : k > run.current => run.steps[k] = "PENDING"
  \/ /\ run.status \in {"RUNNING", "NEEDS_REVIEW"} /\ run.current = NoStep
     /\ \A k \in Steps : run.steps[k] = "COMPLETED"
  \/ /\ run.status \in {"FAILED", "CANCELED"} /\ run.current = NoStep
     /\ \A k \in Steps : run.steps[k] \notin ActiveStepStatuses

Grounded(run) == run.report => Resource = "gmail" \/ run.found = "sources"

OrderedRuns == {run \in RunsOf(Ids, Nat \ {0}) : InOrder(run) /\ Grounded(run)}

(***************************************************************************)
(* The file.                                                               *)
(***************************************************************************)
Receipts ==
  [id : {"run"} \X Ids, run : Ids, of : Nat \ {0}, outcome : {"NEEDS_REVIEW"}]

Revisions ==
  [revision : Nat \ {0}, definition : {1, 2}, source : {"INITIAL", "LEARNING", "RESTORE"},
   proposal : {None, 1}, restored : Nat]

Proposed ==
  [id |-> 1, from |-> 1, receipt |-> <<"test", 1>>, definition |-> 2]

Stores ==
  [rituals : Seq(Revisions), runs : Seq(OrderedRuns), runReceipts : SUBSET Receipts,
   receipts : {{TestReceipt(1, 1)}}, proposals : {<<Proposed>>}, decisions : {{}},
   schedules : SUBSET Schedules]

Runs(st) == Elements(st.runs)

\* Identities are of one run each, and the list is within its budget, so that
\* only a run that is new makes room by an eviction.
Distinct(st) ==
  \A i, j \in 1..Len(st.runs) : st.runs[i].id = st.runs[j].id => i = j

ListKept(st) == Distinct(st) /\ Len(st.runs) <= RunsByBytes

ReceiptsMatch(st) ==
  /\ \A c \in st.runReceipts : \E r \in Runs(st) : r.id = c.run /\ r.status = c.outcome
  /\ \A r \in Runs(st) : r.status = "NEEDS_REVIEW" => \E c \in st.runReceipts : c.run = r.id

OpenIsAlone(st) ==
  \A r, q \in Runs(st) : ~IsTerminal(r) /\ ~IsTerminal(q) /\ r.of = q.of => r = q

Consistent(st) == ListKept(st) /\ ReceiptsMatch(st) /\ OpenIsAlone(st)

RunsInv == Consistent(store)

\* One schedule for each revision there is; the enabled one is the latest's and
\* due later than any occurrence claimed.
SchedulesKept(st, claimed) ==
  /\ st.rituals # <<>>
  /\ \A s, t \in st.schedules : s.of = t.of => s = t
  /\ \A s \in st.schedules :
       /\ s.of <= LatestRevision(st)
       /\ s.state = "ENABLED" => s.of = LatestRevision(st) /\ s.next > claimed

SchedulesInv == SchedulesKept(store, lastClaim) /\ lastClaim <= day

\* Every identity that anyone holds has been handed out.
HandedOut ==
  /\ \A r \in Runs(store) : r.id < nextId
  /\ \A s \in store.schedules : s.pending # None => s.pending.run < nextId
  /\ tick # NoTick => tick.run < nextId
  /\ task # None /\ task.op = "START" => task.id < nextId

\* What an operation in service has read is still so when it writes.
TaskInv ==
  task # None =>
    /\ task.op = "START" =>
         /\ task.writes = "QUEUED" =>
              task.id \notin RunIds(store) /\ OpenRuns(store, task.of) = {}
         /\ task.writes = "STARTED" =>
              task.id \in RunIds(store) /\ RunWith(task.id).status = "QUEUED"
         /\ task.by = "TICK" => tick.at = "STARTING"
    /\ task.op = "COMPLETE" => IsActive(task.id) /\ drive[task.id].at = "COMPLETING"
    /\ task.op = "LOAD" =>
         /\ task.run \in OrderedRuns /\ task.run.status \in {"QUEUED", "RUNNING"}
         /\ task.run.id \in RunIds(store) /\ RunWith(task.run.id).of = task.run.of
    /\ task.op = "SCHEDULE" =>
         /\ task.of = task.schedule.of /\ task.of <= LatestRevision(store)
         /\ task.schedule.pending = None
         /\ task.unmoved /\ task.of = LatestRevision(store)
              /\ task.schedule.state = "ENABLED" => task.schedule.next > lastClaim

\* A drive holds its run as the file has it, which nobody else writes.
DriveInv ==
  \A id \in Ids : IsActive(id) =>
    /\ id \in RunIds(store) /\ drive[id].run = RunWith(id)
    /\ RunWith(id).status = "RUNNING"
    /\ drive[id].at = "EXECUTING" => RunWith(id).current # NoStep
    /\ drive[id].at = "COMPLETING" => RunWith(id).current = NoStep

Ticks ==
  {NoTick}
  \cup [at : {"CLAIM"}, of : Nat \ {0}, run : Ids, due : Nat \ {0}, now : Nat]
  \cup [at : {"START", "STARTING", "DRIVE", "ACKNOWLEDGE"}, of : Nat \ {0}, run : Ids,
        retained : BOOLEAN]

TypeOK ==
  /\ store \in Stores /\ day \in Nat /\ nextId \in Nat \ {0} /\ lastClaim \in Nat
  /\ task \in Tasks \cup {None} /\ tick \in Ticks
  /\ drive \in [Ids -> Drives \cup {None}]
  /\ tick.at = "CLAIM" => tick.now <= day

IInv ==
  /\ TypeOK /\ RunsInv /\ SchedulesInv /\ HandedOut /\ TaskInv /\ DriveInv
  /\ RunningIsAttended

--------------------------------------------------------------------------------
(***************************************************************************)
(* The reducer keeps the shape of a run, and the shape implies the schema. *)
(***************************************************************************)
LEMMA RunFields ==
  ASSUME NEW run \in OrderedRuns
  PROVE  /\ run \in RunsOf(Ids, Nat \ {0}) /\ InOrder(run) /\ Grounded(run)
         /\ run.id \in Ids /\ run.of \in Nat \ {0} /\ run.revision \in Nat \ {0}
         /\ run.current \in Steps \cup {NoStep} /\ run.steps \in [Steps -> StepStatuses]
         /\ run.found \in {"none", "empty", "sources"} /\ run.report \in BOOLEAN
         /\ run.status \in OpenStatuses \cup TerminalStatuses
BY DEF OrderedRuns, RunsOf

LEMMA StepNumbers ==
  /\ NSteps \in Nat \ {0} /\ 1 \in Steps /\ NSteps \in Steps /\ NoStep \notin Steps
  /\ \A k \in Steps : k \in Nat /\ 1 <= k /\ k <= NSteps
  /\ \A k \in Steps : k # NSteps => k + 1 \in Steps
BY StepsAssumption DEF Steps, NoStep

\* What a run in order looks like to the schema: its current step, if any, is
\* the one that is active.
LEMMA ActiveIsCurrent ==
  ASSUME NEW run \in OrderedRuns
  PROVE  ActiveSteps(run) = IF run.current = NoStep THEN {} ELSE {run.current}
<1>1. InOrder(run) /\ run.steps \in [Steps -> StepStatuses]
  BY RunFields
<1>2. CASE run.current = NoStep
  <2>1. \A k \in Steps : run.steps[k] \notin ActiveStepStatuses
    BY <1>1, <1>2, StepNumbers DEF InOrder, ActiveStepStatuses
  <2> QED
    BY <1>2, <2>1 DEF ActiveSteps
<1>3. CASE run.current # NoStep
  <2>1. /\ run.current \in Steps /\ run.steps[run.current] \in ActiveStepStatuses
        /\ \A k \in Steps : k < run.current => run.steps[k] = "COMPLETED"
        /\ \A k \in Steps : k > run.current => run.steps[k] = "PENDING"
    BY <1>1, <1>3 DEF InOrder
  <2>2. ASSUME NEW k \in Steps, k # run.current
        PROVE  run.steps[k] \notin ActiveStepStatuses
    <3>0. k \in Nat /\ run.current \in Nat
      BY <2>1, StepNumbers
    <3>1. k < run.current \/ k > run.current
      BY <2>2, <3>0
    <3>2. run.steps[k] \in {"COMPLETED", "PENDING"}
      BY <2>1, <3>1
    <3> QED
      BY <3>2 DEF ActiveStepStatuses
  <2> QED
    BY <1>3, <2>1, <2>2 DEF ActiveSteps
<1> QED
  BY <1>2, <1>3

LEMMA OrderParses ==
  ASSUME NEW run \in OrderedRuns
  PROVE  RunSchema(run)
<1>1. /\ InOrder(run) /\ Grounded(run) /\ run.current \in Steps \cup {NoStep}
      /\ ActiveSteps(run) = IF run.current = NoStep THEN {} ELSE {run.current}
  BY RunFields, ActiveIsCurrent
<1>2. CASE run.current = NoStep
  <2>1. ActiveSteps(run) = {} /\ Cardinality(ActiveSteps(run)) = 0
    BY <1>1, <1>2, FS_EmptySet
  <2>2. /\ run.status \notin {"WAITING_FOR_OWNER", "WAITING_FOR_RESOURCE"}
        /\ run.status \in {"COMPLETED", "NEEDS_REVIEW"} =>
             \A k \in Steps : run.steps[k] = "COMPLETED"
    BY <1>1, <1>2, StepNumbers DEF InOrder
  <2> QED
    BY <1>1, <1>2, <2>1, <2>2 DEF RunSchema, Grounded
<1>3. CASE run.current # NoStep
  <2>1. ActiveSteps(run) = {run.current} /\ Cardinality(ActiveSteps(run)) = 1
    BY <1>1, <1>3, FS_Singleton
  <2>2. run.current \in Steps /\ run.current = CHOOSE k \in Steps : k \in ActiveSteps(run)
    BY <1>1, <1>3, <2>1
  <2>3. run.status \in ActiveStepStatuses /\ run.steps[run.current] = run.status
    BY <1>1, <1>3 DEF InOrder
  <2> QED
    BY <1>1, <1>3, <2>1, <2>2, <2>3 DEF RunSchema, Grounded, ActiveStepStatuses
<1> QED
  BY <1>2, <1>3

\* The successor of a run, of which the repository asks the next revision.
Succeeds(run, next) ==
  /\ next \in OrderedRuns /\ next.id = run.id /\ next.of = run.of
  /\ next.status # "NEEDS_REVIEW" /\ next.revision = run.revision + 1

LEMMA CreatedIsOrdered ==
  ASSUME NEW id \in Ids, NEW of \in Nat \ {0}
  PROVE  /\ CreateRitualRun(id, of) \in OrderedRuns
         /\ CreateRitualRun(id, of).id = id /\ CreateRitualRun(id, of).of = of
         /\ CreateRitualRun(id, of).status = "QUEUED"
BY DEF CreateRitualRun, OrderedRuns, RunsOf, InOrder, Grounded, OpenStatuses, StepStatuses,
       TerminalStatuses

\* The step after the completed ones becomes the current one.
LEMMA ActivationOrders ==
  ASSUME NEW run \in RunsOf(Ids, Nat \ {0}), Grounded(run), NEW k \in Steps,
         \A j \in Steps : j < k => run.steps[j] = "COMPLETED",
         \A j \in Steps : j > k => run.steps[j] = "PENDING"
  PROVE  /\ ActivateStep(run, k) \in OrderedRuns
         /\ ActivateStep(run, k).id = run.id /\ ActivateStep(run, k).of = run.of
         /\ ActivateStep(run, k).revision = run.revision
         /\ ActivateStep(run, k).status \in {"RUNNING", "WAITING_FOR_OWNER"}
         /\ ActivateStep(run, k).current = k
<1> DEFINE status == IF k \in GatedSteps THEN "WAITING_FOR_OWNER" ELSE "RUNNING"
           next == ActivateStep(run, k)
<1>1. status \in {"RUNNING", "WAITING_FOR_OWNER"}
  OBVIOUS
<1>2. next = [run EXCEPT !.steps = [run.steps EXCEPT ![k] = status], !.status = status,
                         !.current = k]
  BY DEF ActivateStep
<1> HIDE DEF status, next
<1>3. /\ next.id = run.id /\ next.of = run.of /\ next.revision = run.revision
      /\ next.status = status /\ next.current = k /\ next.found = run.found
      /\ next.report = run.report /\ next.steps = [run.steps EXCEPT ![k] = status]
      /\ next \in RunsOf(Ids, Nat \ {0})
  BY <1>1, <1>2 DEF RunsOf, OpenStatuses, StepStatuses, ActiveStepStatuses
<1>4. run.steps \in [Steps -> StepStatuses]
  BY DEF RunsOf
<1>5. /\ next.steps[k] = status
      /\ \A j \in Steps : j # k => next.steps[j] = run.steps[j]
  BY <1>3, <1>4
<1>6. InOrder(next) /\ Grounded(next)
  <2>1. Grounded(next)
    BY <1>3 DEF Grounded
  <2>2. /\ \A j \in Steps : j < k => next.steps[j] = "COMPLETED"
        /\ \A j \in Steps : j > k => next.steps[j] = "PENDING"
    BY <1>5, StepNumbers
  <2> QED
    BY <1>1, <1>3, <1>5, <2>1, <2>2 DEF InOrder, ActiveStepStatuses
<1>7. next \in OrderedRuns
  BY <1>3, <1>6 DEF OrderedRuns
<1> QED
  BY <1>1, <1>3, <1>7 DEF next

LEMMA MovedFields ==
  ASSUME NEW run \in OrderedRuns
  PROVE  /\ Moved(run) \in RunsOf(Ids, Nat \ {0}) /\ Moved(run).revision = run.revision + 1
         /\ Moved(run).id = run.id /\ Moved(run).of = run.of
         /\ Moved(run).status = run.status /\ Moved(run).current = run.current
         /\ Moved(run).steps = run.steps /\ Moved(run).found = run.found
         /\ Moved(run).report = run.report
BY RunFields DEF Moved, RunsOf

LEMMA StartIsOrdered ==
  ASSUME NEW run \in OrderedRuns, run.status = "QUEUED"
  PROVE  /\ Succeeds(run, Start(run)) /\ Start(run).current = 1
         /\ Start(run).status \in {"RUNNING", "WAITING_FOR_OWNER"}
<1> DEFINE moved == Moved(run)
<1>1. /\ run \in RunsOf(Ids, Nat \ {0}) /\ Grounded(run) /\ run.revision \in Nat \ {0}
      /\ \A k \in Steps : run.steps[k] = "PENDING"
  BY RunFields DEF InOrder, ActiveStepStatuses
<1>2. /\ moved \in RunsOf(Ids, Nat \ {0}) /\ Grounded(moved) /\ moved.steps = run.steps
      /\ moved.id = run.id /\ moved.of = run.of /\ moved.revision = run.revision + 1
  BY <1>1 DEF Moved, RunsOf, Grounded
<1>3. /\ \A j \in Steps : j < 1 => moved.steps[j] = "COMPLETED"
      /\ \A j \in Steps : j > 1 => moved.steps[j] = "PENDING"
  BY <1>1, <1>2, StepNumbers
<1> HIDE DEF moved
<1>4. /\ ActivateStep(moved, 1) \in OrderedRuns
      /\ ActivateStep(moved, 1).id = moved.id /\ ActivateStep(moved, 1).of = moved.of
      /\ ActivateStep(moved, 1).revision = moved.revision
      /\ ActivateStep(moved, 1).status \in {"RUNNING", "WAITING_FOR_OWNER"}
      /\ ActivateStep(moved, 1).current = 1
  BY <1>2, <1>3, StepNumbers, ActivationOrders
<1>5. Start(run) = ActivateStep(moved, 1)
  BY DEF Start, moved
<1> QED
  BY <1>2, <1>4, <1>5 DEF Succeeds

\* The current step changes to an active status, and the run with it.
WithCurrent(run, status, found) ==
  [Moved(run) EXCEPT !.steps = [run.steps EXCEPT ![run.current] = status],
                     !.status = status, !.found = found]

LEMMA CurrentMoves ==
  ASSUME NEW run \in OrderedRuns, run.status \in ActiveStepStatuses, run.current # NoStep,
         NEW status \in ActiveStepStatuses, NEW found \in {"none", "empty", "sources"},
         run.report => found = run.found
  PROVE  /\ Succeeds(run, WithCurrent(run, status, found))
         /\ WithCurrent(run, status, found).status = status
         /\ WithCurrent(run, status, found).current = run.current
<1> DEFINE next == WithCurrent(run, status, found)
<1>1. /\ run \in RunsOf(Ids, Nat \ {0}) /\ Grounded(run) /\ run.revision \in Nat \ {0}
      /\ run.current \in Steps /\ run.steps \in [Steps -> StepStatuses]
      /\ \A k \in Steps : k < run.current => run.steps[k] = "COMPLETED"
      /\ \A k \in Steps : k > run.current => run.steps[k] = "PENDING"
  <2>1. InOrder(run)
    BY RunFields
  <2>2. run.current \in Steps /\ run.status \notin {"QUEUED", "FAILED", "CANCELED"}
    BY RunFields DEF ActiveStepStatuses
  <2> QED
    BY <2>1, <2>2, RunFields DEF InOrder
<1>2. status \in StepStatuses /\ status \in OpenStatuses
  BY DEF StepStatuses, ActiveStepStatuses, OpenStatuses
<1>3. /\ next.id = run.id /\ next.of = run.of /\ next.revision = run.revision + 1
      /\ next.status = status /\ next.current = run.current /\ next.found = found
      /\ next.report = run.report /\ next.steps = [run.steps EXCEPT ![run.current] = status]
      /\ next \in RunsOf(Ids, Nat \ {0})
  <2> DEFINE moved == Moved(run)
  <2>1. next = [moved EXCEPT !.steps = [run.steps EXCEPT ![run.current] = status],
                             !.status = status, !.found = found]
    BY DEF WithCurrent
  <2>2. /\ moved \in RunsOf(Ids, Nat \ {0}) /\ moved.revision = run.revision + 1
        /\ moved.id = run.id /\ moved.of = run.of /\ moved.current = run.current
        /\ moved.report = run.report
    BY MovedFields
  <2>3. [run.steps EXCEPT ![run.current] = status] \in [Steps -> StepStatuses]
    BY <1>1, <1>2
  <2> HIDE DEF moved, next
  <2> QED
    BY <1>2, <2>1, <2>2, <2>3 DEF RunsOf
<1> HIDE DEF next
<1>4. /\ next.steps[run.current] = status
      /\ \A j \in Steps : j # run.current => next.steps[j] = run.steps[j]
  BY <1>1, <1>3
<1>5. Grounded(next)
  BY <1>1, <1>3 DEF Grounded
<1>6. /\ \A j \in Steps : j < run.current => next.steps[j] = "COMPLETED"
      /\ \A j \in Steps : j > run.current => next.steps[j] = "PENDING"
  BY <1>1, <1>4, StepNumbers
<1>7. InOrder(next)
  BY <1>1, <1>3, <1>4, <1>6 DEF InOrder
<1>8. next.status # "NEEDS_REVIEW"
  BY <1>3 DEF ActiveStepStatuses
<1> QED
  BY <1>3, <1>5, <1>7, <1>8 DEF Succeeds, OrderedRuns, next

LEMMA ApprovalIsOrdered ==
  ASSUME NEW run \in OrderedRuns, CanApproveStep(run, run.current)
  PROVE  /\ Succeeds(run, ApproveStep(run, run.current))
         /\ ApproveStep(run, run.current).status = "RUNNING"
         /\ ApproveStep(run, run.current).current # NoStep
<1>1. run.status = "WAITING_FOR_OWNER" /\ run.status \in ActiveStepStatuses
  BY DEF CanApproveStep, ActiveStepStatuses
<1>2. run.current # NoStep
  BY <1>1, RunFields, StepNumbers DEF InOrder
<1>3. ApproveStep(run, run.current) = WithCurrent(run, "RUNNING", run.found)
  <2> DEFINE moved == Moved(run)
  <2>1. moved \in RunsOf(Ids, Nat \ {0}) /\ moved.steps = run.steps /\ moved.found = run.found
    BY MovedFields
  <2>2. ApproveStep(run, run.current) =
          [moved EXCEPT !.steps = [moved.steps EXCEPT ![run.current] = "RUNNING"],
                        !.status = "RUNNING"]
    BY DEF ApproveStep
  <2> HIDE DEF moved
  <2>3. ApproveStep(run, run.current) =
          [moved EXCEPT !.steps = [run.steps EXCEPT ![run.current] = "RUNNING"],
                        !.status = "RUNNING", !.found = run.found]
    BY <2>1, <2>2 DEF RunsOf
  <2> QED
    BY <2>3 DEF moved, WithCurrent
<1>4. "RUNNING" \in ActiveStepStatuses /\ run.found \in {"none", "empty", "sources"}
  BY RunFields DEF ActiveStepStatuses
<1> QED
  BY <1>1, <1>2, <1>3, <1>4, CurrentMoves

LEMMA RetryIsOrdered ==
  ASSUME NEW run \in OrderedRuns, CanRetryResource(run)
  PROVE  /\ Succeeds(run, RetryResource(run)) /\ RetryResource(run).status = "RUNNING"
         /\ RetryResource(run).current # NoStep
<1>1. run.status = "WAITING_FOR_RESOURCE" /\ run.status \in ActiveStepStatuses
  BY DEF CanRetryResource, ActiveStepStatuses
<1>2. run.current # NoStep
  BY <1>1, RunFields, StepNumbers DEF InOrder
<1>3. RetryResource(run) = WithCurrent(run, "RUNNING", run.found)
  <2> DEFINE moved == Moved(run)
  <2>1. moved \in RunsOf(Ids, Nat \ {0}) /\ moved.steps = run.steps /\ moved.found = run.found
    BY MovedFields
  <2>2. RetryResource(run) =
          [moved EXCEPT !.steps = [moved.steps EXCEPT ![run.current] = "RUNNING"],
                        !.status = "RUNNING"]
    BY DEF RetryResource
  <2> HIDE DEF moved
  <2>3. RetryResource(run) =
          [moved EXCEPT !.steps = [run.steps EXCEPT ![run.current] = "RUNNING"],
                        !.status = "RUNNING", !.found = run.found]
    BY <2>1, <2>2 DEF RunsOf
  <2> QED
    BY <2>3 DEF moved, WithCurrent
<1>4. "RUNNING" \in ActiveStepStatuses /\ run.found \in {"none", "empty", "sources"}
  BY RunFields DEF ActiveStepStatuses
<1> QED
  BY <1>1, <1>2, <1>3, <1>4, CurrentMoves

LEMMA WaitIsOrdered ==
  ASSUME NEW run \in OrderedRuns, run.status = "RUNNING", run.current # NoStep,
         NEW found \in {"none", "empty", "sources"}, run.report => found = run.found
  PROVE  /\ Succeeds(run, WaitForResource(run, found))
         /\ WaitForResource(run, found).status = "WAITING_FOR_RESOURCE"
<1>1. run.status \in ActiveStepStatuses /\ "WAITING_FOR_RESOURCE" \in ActiveStepStatuses
  BY DEF ActiveStepStatuses
<1>2. WaitForResource(run, found) = WithCurrent(run, "WAITING_FOR_RESOURCE", found)
  <2>1. Moved(run).steps = run.steps
    BY MovedFields
  <2> QED
    BY <2>1 DEF WaitForResource, WithCurrent
<1> QED
  BY <1>1, <1>2, CurrentMoves

LEMMA CheckpointIsOrdered ==
  ASSUME NEW run \in OrderedRuns, run.status = "RUNNING", run.current # NoStep,
         NEW found \in {"none", "empty", "sources"}, run.report => found = run.found
  PROVE  /\ Succeeds(run, CheckpointResearch(run, found))
         /\ CheckpointResearch(run, found).status = "RUNNING"
         /\ CheckpointResearch(run, found).current = run.current
<1>1. run.status \in ActiveStepStatuses
  BY DEF ActiveStepStatuses
<1>2. run.steps[run.current] = "RUNNING" /\ run.steps \in [Steps -> StepStatuses]
  BY RunFields DEF InOrder
<1>3. CheckpointResearch(run, found) = WithCurrent(run, "RUNNING", found)
  <2> DEFINE moved == Moved(run)
  <2>1. /\ moved \in RunsOf(Ids, Nat \ {0}) /\ moved.status = "RUNNING"
        /\ moved.steps = [run.steps EXCEPT ![run.current] = "RUNNING"]
    BY <1>2, MovedFields
  <2>2. CheckpointResearch(run, found) = [moved EXCEPT !.found = found]
    BY DEF CheckpointResearch
  <2> HIDE DEF moved
  <2>3. CheckpointResearch(run, found) =
          [moved EXCEPT !.steps = [run.steps EXCEPT ![run.current] = "RUNNING"],
                        !.status = "RUNNING", !.found = found]
    BY <2>1, <2>2 DEF RunsOf
  <2> QED
    BY <2>3 DEF moved, WithCurrent
<1> QED
  BY <1>1, <1>3, CurrentMoves DEF ActiveStepStatuses

LEMMA CompletedStepIsOrdered ==
  ASSUME NEW run \in OrderedRuns, run.status = "RUNNING", run.current # NoStep,
         NEW found \in {"none", "empty", "sources"}, NEW report \in BOOLEAN,
         run.report => found = run.found,
         report => Resource = "gmail" \/ found = "sources"
  PROVE  /\ Succeeds(run, CompleteStep(run, found, report))
         /\ CompleteStep(run, found, report).status \in {"RUNNING", "WAITING_FOR_OWNER"}
<1> DEFINE done == [Moved(run) EXCEPT !.steps[run.current] = "COMPLETED", !.found = found,
                                      !.report = @ \/ report]
           next == CompleteStep(run, found, report)
<1>1. /\ run \in RunsOf(Ids, Nat \ {0}) /\ Grounded(run) /\ run.revision \in Nat \ {0}
      /\ run.current \in Steps /\ run.steps \in [Steps -> StepStatuses]
      /\ run.report \in BOOLEAN
      /\ \A k \in Steps : k < run.current => run.steps[k] = "COMPLETED"
      /\ \A k \in Steps : k > run.current => run.steps[k] = "PENDING"
  BY RunFields DEF InOrder
<1>2. /\ done.id = run.id /\ done.of = run.of /\ done.revision = run.revision + 1
      /\ done.status = "RUNNING" /\ done.current = run.current /\ done.found = found
      /\ done.report = (run.report \/ report)
      /\ done.steps = [run.steps EXCEPT ![run.current] = "COMPLETED"]
      /\ done \in RunsOf(Ids, Nat \ {0})
  <2> DEFINE moved == Moved(run)
  <2>1. done = [moved EXCEPT !.steps = [moved.steps EXCEPT ![run.current] = "COMPLETED"],
                             !.found = found, !.report = moved.report \/ report]
    OBVIOUS
  <2>2. /\ moved \in RunsOf(Ids, Nat \ {0}) /\ moved.revision = run.revision + 1
        /\ moved.id = run.id /\ moved.of = run.of
        /\ moved.status = run.status /\ moved.current = run.current
        /\ moved.steps = run.steps /\ moved.found = run.found /\ moved.report = run.report
    BY MovedFields
  <2>3. /\ [run.steps EXCEPT ![run.current] = "COMPLETED"] \in [Steps -> StepStatuses]
        /\ (run.report \/ report) \in BOOLEAN
    BY <1>1 DEF StepStatuses
  <2> HIDE DEF moved, done
  <2> QED
    BY <2>1, <2>2, <2>3 DEF RunsOf
<1>3. Grounded(done)
  BY <1>1, <1>2 DEF Grounded
<1>4. \A j \in Steps : done.steps[j] = IF j = run.current THEN "COMPLETED" ELSE run.steps[j]
  BY <1>1, <1>2
<1>5. next = IF run.current = NSteps THEN [done EXCEPT !.current = NoStep]
             ELSE ActivateStep(done, run.current + 1)
  BY DEF CompleteStep
<1> HIDE DEF done, next
<1>6. CASE run.current = NSteps
  <2>1. next = [done EXCEPT !.current = NoStep]
    BY <1>5, <1>6
  <2>2. /\ next.id = run.id /\ next.of = run.of /\ next.revision = run.revision + 1
        /\ next.status = "RUNNING" /\ next.current = NoStep /\ next.steps = done.steps
        /\ next.found = done.found /\ next.report = done.report
        /\ next \in RunsOf(Ids, Nat \ {0})
    BY <1>2, <2>1 DEF RunsOf
  <2>3. \A j \in Steps : next.steps[j] = "COMPLETED"
    BY <1>1, <1>4, <1>6, <2>2, StepNumbers
  <2>4. InOrder(next) /\ Grounded(next)
    BY <1>3, <2>2, <2>3 DEF InOrder, Grounded
  <2> QED
    BY <2>2, <2>4 DEF Succeeds, OrderedRuns, next
<1>7. CASE run.current # NSteps
  <2> DEFINE k == run.current + 1
  <2>1. k \in Steps /\ next = ActivateStep(done, k)
    BY <1>1, <1>5, <1>7, StepNumbers
  <2>2. /\ \A j \in Steps : j < k => done.steps[j] = "COMPLETED"
        /\ \A j \in Steps : j > k => done.steps[j] = "PENDING"
    <3>1. \A j \in Steps :
             /\ j < k => j < run.current \/ j = run.current
             /\ j > k => j > run.current /\ j # run.current
      <4> SUFFICES ASSUME NEW j \in Steps
                   PROVE  /\ j < k => j < run.current \/ j = run.current
                          /\ j > k => j > run.current /\ j # run.current
        OBVIOUS
      <4>1. j \in Nat /\ run.current \in Nat
        BY <1>1, StepNumbers
      <4> QED
        BY <4>1
    <3> HIDE DEF k
    <3> QED
      BY <1>1, <1>4, <3>1
  <2> HIDE DEF k
  <2>3. /\ ActivateStep(done, k) \in OrderedRuns
        /\ ActivateStep(done, k).id = done.id /\ ActivateStep(done, k).of = done.of
        /\ ActivateStep(done, k).revision = done.revision
        /\ ActivateStep(done, k).status \in {"RUNNING", "WAITING_FOR_OWNER"}
    <3>1. done \in RunsOf(Ids, Nat \ {0}) /\ Grounded(done) /\ k \in Steps
      BY <1>2, <1>3, <2>1
    <3> QED
      BY <2>2, <3>1, ActivationOrders
  <2> QED
    BY <1>2, <2>1, <2>3 DEF Succeeds, next
<1> QED
  BY <1>6, <1>7

\* A run that is over: nothing of it is active any more.
LEMMA StopIsOrdered ==
  ASSUME NEW run \in OrderedRuns, NEW status \in {"FAILED", "CANCELED"}
  PROVE  Succeeds(run, Stop(run, status)) /\ Stop(run, status).status = status
<1> DEFINE next == Stop(run, status)
           stopped == StopOpenSteps(run, status)
<1>1. \A k \in Steps : stopped[k] \in {"COMPLETED", "FAILED", "CANCELED"}
  BY DEF StopOpenSteps
<1>2. stopped \in [Steps -> StepStatuses]
  BY <1>1 DEF StopOpenSteps, StepStatuses
<1>3. /\ run \in RunsOf(Ids, Nat \ {0}) /\ Grounded(run) /\ run.revision \in Nat \ {0}
  BY RunFields
<1>4. next = [Moved(run) EXCEPT !.status = status, !.current = NoStep, !.steps = stopped]
  BY DEF Stop
<1> HIDE DEF stopped, next
<1>5. /\ next.id = run.id /\ next.of = run.of /\ next.revision = run.revision + 1
      /\ next.status = status /\ next.current = NoStep /\ next.steps = stopped
      /\ next.found = run.found /\ next.report = run.report
      /\ next \in RunsOf(Ids, Nat \ {0})
  <2> DEFINE moved == Moved(run)
  <2>1. next = [moved EXCEPT !.status = status, !.current = NoStep, !.steps = stopped]
    BY <1>4
  <2>2. /\ moved \in RunsOf(Ids, Nat \ {0}) /\ moved.revision = run.revision + 1
        /\ moved.id = run.id /\ moved.of = run.of
        /\ moved.found = run.found /\ moved.report = run.report
    BY MovedFields
  <2> HIDE DEF moved
  <2> QED
    BY <1>2, <2>1, <2>2 DEF RunsOf, TerminalStatuses
<1>6. InOrder(next) /\ Grounded(next)
  BY <1>1, <1>3, <1>5 DEF InOrder, Grounded, ActiveStepStatuses
<1> QED
  BY <1>5, <1>6 DEF Succeeds, OrderedRuns, next

LEMMA CompletionIsOrdered ==
  ASSUME NEW run \in OrderedRuns, run.status = "RUNNING", run.current = NoStep
  PROVE  /\ CompleteRun(run) \in OrderedRuns /\ CompleteRun(run).status = "NEEDS_REVIEW"
         /\ CompleteRun(run).id = run.id /\ CompleteRun(run).of = run.of
         /\ CompleteRun(run).revision = run.revision + 1
<1> DEFINE next == CompleteRun(run)
<1>1. /\ run \in RunsOf(Ids, Nat \ {0}) /\ Grounded(run) /\ run.revision \in Nat \ {0}
      /\ \A k \in Steps : run.steps[k] = "COMPLETED"
  BY RunFields, StepNumbers DEF InOrder
<1>2. /\ next.id = run.id /\ next.of = run.of /\ next.revision = run.revision + 1
      /\ next.status = "NEEDS_REVIEW" /\ next.current = NoStep /\ next.steps = run.steps
      /\ next.found = run.found /\ next.report = run.report
      /\ next \in RunsOf(Ids, Nat \ {0})
  <2> DEFINE moved == Moved(run)
  <2>1. next = [moved EXCEPT !.status = "NEEDS_REVIEW"]
    BY DEF CompleteRun
  <2>2. /\ moved \in RunsOf(Ids, Nat \ {0}) /\ moved.revision = run.revision + 1
        /\ moved.id = run.id /\ moved.of = run.of /\ moved.current = run.current
        /\ moved.steps = run.steps /\ moved.found = run.found /\ moved.report = run.report
    BY MovedFields
  <2> HIDE DEF moved, next
  <2> QED
    BY <2>1, <2>2 DEF RunsOf, TerminalStatuses
<1> HIDE DEF next
<1>3. InOrder(next) /\ Grounded(next)
  BY <1>1, <1>2 DEF InOrder, Grounded
<1> QED
  BY <1>2, <1>3 DEF OrderedRuns, next

Fits(run, answer) ==
  /\ answer.status \in {"checkpointed", "waiting", "completed"}
  /\ answer.found \in {"none", "empty", "sources"} /\ answer.report \in BOOLEAN
  /\ run.report => answer.found = run.found
  /\ answer.report => Resource = "gmail" \/ answer.found = "sources"

LEMMA AnswerFits ==
  ASSUME NEW run, NEW status \in {"checkpointed", "waiting", "completed"},
         NEW found \in {"none", "empty", "sources"}, NEW report \in BOOLEAN,
         run.report => found = run.found,
         report => Resource = "gmail" \/ found = "sources"
  PROVE  Fits(run, Answer(status, found, report))
BY DEF Answer, Fits

\* Whatever the executor answers for the current step of a run.
LEMMA AnswersFollow ==
  ASSUME NEW run \in OrderedRuns, run.status = "RUNNING", run.current # NoStep,
         NEW answer \in ExecutorAnswers(run)
  PROVE  /\ Succeeds(run, Follow(run, answer))
         /\ Follow(run, answer).status \in
              {"RUNNING", "WAITING_FOR_OWNER", "WAITING_FOR_RESOURCE"}
<1>1. /\ Grounded(run) /\ run.found \in {"none", "empty", "sources"} /\ run.report \in BOOLEAN
      /\ Resource \in {"none", "research", "gmail"}
  BY RunFields, StepsAssumption
<1>2. Fits(run, answer)
  <2>1. CASE Resource = "gmail"
    <3>1. answer \in GmailAnswers(run)
      BY <2>1 DEF ExecutorAnswers
    <3>2. \/ answer = Answer("completed", run.found, FALSE)
          \/ ~run.report /\ answer = Answer("waiting", run.found, FALSE)
          \/ ~run.report /\ answer = Answer("completed", run.found, TRUE)
      BY <3>1 DEF GmailAnswers
    <3> QED
      BY <1>1, <2>1, <3>2, AnswerFits
  <2>2. CASE Resource = "research"
    <3>1. answer \in ResearchAnswers(run)
      BY <2>2 DEF ExecutorAnswers
    <3> QED
      <4>1. CASE run.report
        <5>1. answer = Answer("completed", run.found, FALSE)
          BY <3>1, <4>1 DEF ResearchAnswers
        <5> QED
          BY <1>1, <5>1, AnswerFits
      <4>2. CASE ~run.report /\ run.found = "none"
        <5>1. \/ answer = Answer("waiting", "none", FALSE)
              \/ answer = Answer("checkpointed", "empty", FALSE)
              \/ answer = Answer("checkpointed", "sources", FALSE)
          BY <3>1, <4>2 DEF ResearchAnswers
        <5> QED
          BY <4>2, <5>1, AnswerFits
      <4>3. CASE ~run.report /\ run.found = "empty"
        <5>1. answer = Answer("completed", "empty", FALSE)
          BY <3>1, <4>3 DEF ResearchAnswers
        <5> QED
          BY <4>3, <5>1, AnswerFits
      <4>4. CASE ~run.report /\ run.found = "sources"
        <5>1. \/ answer = Answer("waiting", "sources", FALSE)
              \/ answer = Answer("completed", "sources", TRUE)
          BY <3>1, <4>4 DEF ResearchAnswers
        <5> QED
          BY <4>4, <5>1, AnswerFits
      <4> QED
        BY <1>1, <4>1, <4>2, <4>3, <4>4
  <2>3. CASE Resource = "none"
    <3>1. answer = Answer("completed", run.found, FALSE)
      BY <2>3 DEF ExecutorAnswers
    <3> QED
      BY <1>1, <3>1, AnswerFits
  <2> QED
    BY <1>1, <2>1, <2>2, <2>3
<1>3. CASE answer.status = "checkpointed"
  <2>1. Follow(run, answer) = CheckpointResearch(run, answer.found)
    BY <1>3 DEF Follow
  <2> QED
    BY <1>2, <2>1, CheckpointIsOrdered DEF Fits
<1>4. CASE answer.status = "waiting"
  <2>1. Follow(run, answer) = WaitForResource(run, answer.found)
    BY <1>4 DEF Follow
  <2> QED
    BY <1>2, <2>1, WaitIsOrdered DEF Fits
<1>5. CASE answer.status = "completed"
  <2>1. Follow(run, answer) = CompleteStep(run, answer.found, answer.report)
    BY <1>5 DEF Follow
  <2> QED
    BY <1>2, <2>1, CompletedStepIsOrdered DEF Fits
<1> QED
  BY <1>2, <1>3, <1>4, <1>5 DEF Fits

\* What an interrupted run becomes waits or is over.
LEMMA ReconciledIsOrdered ==
  ASSUME NEW run \in OrderedRuns
  PROVE  /\ Succeeds(run, Reconciled(run))
         /\ Reconciled(run).status \in {"WAITING_FOR_RESOURCE", "FAILED"}
<1>1. CASE IsExecuting(run) /\ run.current = 1 /\ run.found # "none" /\ ~run.report
  <2>1. Reconciled(run) = WaitForResource(run, run.found)
    BY <1>1 DEF Reconciled
  <2> QED
    BY <1>1, <2>1, WaitIsOrdered, RunFields DEF IsExecuting
<1>2. CASE ~(IsExecuting(run) /\ run.current = 1 /\ run.found # "none" /\ ~run.report)
  <2>1. Reconciled(run) = Stop(run, "FAILED")
    BY <1>2 DEF Reconciled, Fail
  <2> QED
    BY <2>1, StopIsOrdered
<1> QED
  BY <1>1, <1>2

--------------------------------------------------------------------------------
(***************************************************************************)
(* The repository's operations on the list of runs.                        *)
(***************************************************************************)
LEMMA StoreFields ==
  ASSUME NEW st \in Stores
  PROVE  /\ st.rituals \in Seq(Revisions) /\ st.runs \in Seq(OrderedRuns)
         /\ st.runReceipts \in SUBSET Receipts /\ st.schedules \in SUBSET Schedules
         /\ Len(st.runs) \in Nat /\ Len(st.rituals) \in Nat
         /\ \A i \in 1..Len(st.runs) : st.runs[i] \in OrderedRuns
         /\ st.receipts = {TestReceipt(1, 1)} /\ st.proposals = <<Proposed>>
         /\ st.decisions = {}
BY DEF Stores

LEMMA RunsAreOrdered ==
  ASSUME NEW st \in Stores
  PROVE  /\ Runs(st) \subseteq OrderedRuns /\ RunIds(st) \subseteq Ids
         /\ \A r \in Runs(st) : \E i \in 1..Len(st.runs) : r = st.runs[i]
         /\ \A i \in 1..Len(st.runs) : st.runs[i] \in Runs(st)
<1>1. \A i \in 1..Len(st.runs) : st.runs[i] \in OrderedRuns
  BY StoreFields
<1> QED
  BY <1>1, RunFields DEF Runs, Elements, RunIds

\* An identity names one run.
LEMMA RunOfIdentity ==
  ASSUME NEW st \in Stores, Distinct(st)
  PROVE  /\ \A r, q \in Runs(st) : r.id = q.id => r = q
         /\ \A r \in Runs(st) : r.id \in RunIds(st) /\ RunOf(st, r.id) = r
         /\ \A id \in RunIds(st) : RunOf(st, id) \in Runs(st) /\ RunOf(st, id).id = id
<1>1. \A r, q \in Runs(st) : r.id = q.id => r = q
  BY RunsAreOrdered DEF Distinct
<1>2. \A id \in RunIds(st) : RunOf(st, id) \in Runs(st) /\ RunOf(st, id).id = id
  <2> TAKE id \in RunIds(st)
  <2>1. \E r \in Elements(st.runs) : r.id = id
    BY DEF RunIds, Runs
  <2> QED
    BY <2>1 DEF RunOf, Runs
<1>3. \A r \in Runs(st) : r.id \in RunIds(st)
  BY DEF RunIds, Runs
<1>4. \A r \in Runs(st) : RunOf(st, r.id) = r
  BY <1>1, <1>2, <1>3
<1> QED
  BY <1>1, <1>2, <1>3, <1>4

\* A run is replaced where it stands.
LEMMA ReplaceFacts ==
  ASSUME NEW st \in Stores, Distinct(st), NEW run \in OrderedRuns, run.id \in RunIds(st)
  PROVE  LET after == Replace(st, run) IN
         /\ after \in Stores /\ Distinct(after) /\ Len(after.runs) = Len(st.runs)
         /\ after.rituals = st.rituals /\ after.schedules = st.schedules
         /\ after.runReceipts = st.runReceipts
         /\ Runs(after) = (Runs(st) \ {RunOf(st, run.id)}) \cup {run}
<1> DEFINE at == FirstIndex(st.runs, LAMBDA r : r.id = run.id)
           after == Replace(st, run)
<1>1. \E i \in 1..Len(st.runs) : st.runs[i].id = run.id
  BY DEF RunIds, Elements
<1>2. at \in 1..Len(st.runs) /\ st.runs[at].id = run.id
  <2>1. \E i \in 1..Len(st.runs) :
          st.runs[i].id = run.id /\ \A j \in 1..i - 1 : st.runs[j].id # run.id
    <3>1. PICK i \in 1..Len(st.runs) : st.runs[i].id = run.id
      BY <1>1
    <3>2. \A j \in 1..i - 1 : j \in 1..Len(st.runs) /\ j # i
      BY StoreFields
    <3>3. \A j \in 1..i - 1 : st.runs[j].id # run.id
      BY <3>1, <3>2 DEF Distinct
    <3> QED
      BY <3>1, <3>3
  <2>2. at = CHOOSE i \in 1..Len(st.runs) :
               st.runs[i].id = run.id /\ \A j \in 1..i - 1 : ~(st.runs[j].id = run.id)
    BY DEF FirstIndex
  <2> HIDE DEF at
  <2> QED
    BY <2>1, <2>2
<1>3. after = [st EXCEPT !.runs = [st.runs EXCEPT ![at] = run]]
  BY DEF Replace
<1> HIDE DEF at, after
<1>4. /\ [st.runs EXCEPT ![at] = run] \in Seq(OrderedRuns)
      /\ Len([st.runs EXCEPT ![at] = run]) = Len(st.runs)
      /\ \A i \in 1..Len(st.runs) :
            [st.runs EXCEPT ![at] = run][i] = IF i = at THEN run ELSE st.runs[i]
  BY <1>2, StoreFields, ExceptSeq
<1>5. /\ after \in Stores /\ after.runs = [st.runs EXCEPT ![at] = run]
      /\ after.rituals = st.rituals /\ after.schedules = st.schedules
      /\ after.runReceipts = st.runReceipts
  BY <1>3, <1>4 DEF Stores
<1>6. /\ Len(after.runs) = Len(st.runs)
      /\ \A i \in 1..Len(st.runs) : after.runs[i] = IF i = at THEN run ELSE st.runs[i]
  BY <1>4, <1>5
<1>7. Distinct(after)
  BY <1>2, <1>6 DEF Distinct
<1>8. RunOf(st, run.id) = st.runs[at]
  BY <1>2, RunsAreOrdered, RunOfIdentity
<1>9. Runs(after) = (Runs(st) \ {st.runs[at]}) \cup {run}
  <2>1. \A i \in 1..Len(st.runs) : i # at => st.runs[i] # st.runs[at]
    BY <1>2 DEF Distinct
  <2>2. ASSUME NEW x \in Runs(after)
        PROVE  x \in (Runs(st) \ {st.runs[at]}) \cup {run}
    <3>1. PICK i \in 1..Len(st.runs) : x = after.runs[i]
      BY <1>6 DEF Runs, Elements
    <3> QED
      BY <1>6, <2>1, <3>1 DEF Runs, Elements
  <2>3. ASSUME NEW x \in (Runs(st) \ {st.runs[at]}) \cup {run}
        PROVE  x \in Runs(after)
    <3>1. CASE x = run
      BY <1>2, <1>6, <3>1 DEF Runs, Elements
    <3>2. CASE x # run
      <4>1. PICK i \in 1..Len(st.runs) : x = st.runs[i]
        BY <2>3, <3>2 DEF Runs, Elements
      <4>2. i # at
        BY <2>3, <3>2, <4>1
      <4> QED
        BY <1>6, <4>1, <4>2 DEF Runs, Elements
    <3> QED
      BY <3>1, <3>2
  <2> QED
    BY <2>2, <2>3
<1> QED
  BY <1>5, <1>6, <1>7, <1>8, <1>9 DEF after

\* One run and its receipts are evicted.
LEMMA EvictFacts ==
  ASSUME NEW st \in Stores, Distinct(st), NEW n \in 1..Len(st.runs)
  PROVE  LET after == Evict(st, n) IN
         /\ after \in Stores /\ Distinct(after) /\ Len(after.runs) = Len(st.runs) - 1
         /\ after.rituals = st.rituals /\ after.schedules = st.schedules
         /\ after.runReceipts = {c \in st.runReceipts : c.run # st.runs[n].id}
         /\ Runs(after) = Runs(st) \ {st.runs[n]}
<1> DEFINE s == st.runs
           left == SubSeq(s, 1, n - 1)
           right == SubSeq(s, n + 1, Len(s))
           rest == Remove(s, n)
           after == Evict(st, n)
<1>1. s \in Seq(OrderedRuns) /\ Len(s) \in Nat /\ \A i \in 1..Len(s) : s[i] \in OrderedRuns
  BY StoreFields
<1>2. /\ left \in Seq(OrderedRuns) /\ Len(left) = n - 1
      /\ \A i \in 1..n - 1 : left[i] = s[i]
  <2>1. \A i \in 1..n - 1 : s[i] \in OrderedRuns
    BY <1>1
  <2>2. 1 \in Int /\ n - 1 \in Int
    BY <1>1
  <2>3. /\ left \in Seq(OrderedRuns)
        /\ Len(left) = IF 1 <= n - 1 THEN (n - 1) - 1 + 1 ELSE 0
        /\ \A i \in 1..(n - 1) - 1 + 1 : left[i] = s[1 + i - 1]
    BY <2>1, <2>2, SubSeqProperties
  <2> HIDE DEF left, s
  <2> QED
    BY <1>1, <2>3
<1>3. /\ right \in Seq(OrderedRuns) /\ Len(right) = Len(s) - n
      /\ \A i \in 1..Len(s) - n : right[i] = s[n + i]
  <2>1. \A i \in n + 1..Len(s) : s[i] \in OrderedRuns
    BY <1>1
  <2>2. n + 1 \in Int /\ Len(s) \in Int
    BY <1>1
  <2>3. /\ right \in Seq(OrderedRuns)
        /\ Len(right) = IF n + 1 <= Len(s) THEN Len(s) - (n + 1) + 1 ELSE 0
        /\ \A i \in 1..Len(s) - (n + 1) + 1 : right[i] = s[(n + 1) + i - 1]
    BY <2>1, <2>2, SubSeqProperties
  <2>4. n \in 1..Len(s)
    OBVIOUS
  <2> HIDE DEF right, s
  <2> QED
    BY <1>1, <2>3, <2>4
<1>4. rest = left \o right
  BY DEF Remove
<1> HIDE DEF left, right, rest, s
<1>5. /\ rest \in Seq(OrderedRuns) /\ Len(rest) = Len(s) - 1
      /\ \A i \in 1..Len(s) - 1 : rest[i] = IF i < n THEN s[i] ELSE s[i + 1]
  <2>1. /\ left \o right \in Seq(OrderedRuns)
        /\ Len(left \o right) = Len(left) + Len(right)
        /\ \A i \in 1..Len(left) + Len(right) :
             (left \o right)[i] = IF i <= Len(left) THEN left[i] ELSE right[i - Len(left)]
    BY <1>2, <1>3, ConcatProperties
  <2>2. Len(s) \in Nat /\ n \in 1..Len(s)
    BY <1>1 DEF s
  <2>3. Len(left) + Len(right) = Len(s) - 1
    BY <1>2, <1>3, <2>2
  <2>4. ASSUME NEW i \in 1..Len(s) - 1
        PROVE  rest[i] = IF i < n THEN s[i] ELSE s[i + 1]
    <3>1. rest[i] = IF i <= n - 1 THEN left[i] ELSE right[i - (n - 1)]
      BY <1>2, <1>4, <2>1, <2>3
    <3>2. CASE i < n
      BY <1>2, <2>2, <3>1, <3>2
    <3>3. CASE ~(i < n)
      <4>1. i - (n - 1) \in 1..Len(s) - n /\ n + (i - (n - 1)) = i + 1
        BY <2>2, <3>3
      <4> QED
        BY <1>3, <2>2, <3>1, <3>3, <4>1
    <3> QED
      BY <3>2, <3>3
  <2> QED
    BY <1>4, <2>1, <2>3, <2>4
<1>6. /\ after = [st EXCEPT !.runs = rest,
                            !.runReceipts = {c \in st.runReceipts : c.run # s[n].id}]
  BY DEF Evict, rest, s
<1> HIDE DEF after
<1>7. /\ after \in Stores /\ after.runs = rest
      /\ after.rituals = st.rituals /\ after.schedules = st.schedules
      /\ after.runReceipts = {c \in st.runReceipts : c.run # s[n].id}
  BY <1>5, <1>6 DEF Stores
<1>8. Len(s) \in Nat /\ n \in 1..Len(s) /\ Len(rest) = Len(s) - 1
      /\ \A i, j \in 1..Len(s) : s[i].id = s[j].id => i = j
  BY <1>1, <1>5 DEF s, Distinct
<1>9. Distinct(after)
  <2> SUFFICES ASSUME NEW i \in 1..Len(rest), NEW j \in 1..Len(rest), rest[i].id = rest[j].id
               PROVE  i = j
    BY <1>7 DEF Distinct
  <2>1. /\ i + 1 \in 1..Len(s) /\ j + 1 \in 1..Len(s) /\ i \in 1..Len(s) /\ j \in 1..Len(s)
        /\ i \in 1..Len(s) - 1 /\ j \in 1..Len(s) - 1
    BY <1>8
  <2>2. /\ rest[i] = IF i < n THEN s[i] ELSE s[i + 1]
        /\ rest[j] = IF j < n THEN s[j] ELSE s[j + 1]
    BY <1>5, <2>1
  <2> QED
    BY <1>8, <2>1, <2>2
<1>10. Runs(after) = Runs(st) \ {s[n]}
  <2>1. Runs(after) = {rest[i] : i \in 1..Len(s) - 1} /\ Runs(st) = {s[i] : i \in 1..Len(s)}
    BY <1>7, <1>8 DEF Runs, Elements, s
  <2>2. \A i \in 1..Len(s) : i # n => s[i] # s[n]
    BY <1>8
  <2>3. ASSUME NEW i \in 1..Len(s) - 1
        PROVE  rest[i] \in Runs(st) \ {s[n]}
    <3>1. i \in 1..Len(s) /\ i + 1 \in 1..Len(s) /\ (i < n => i # n) /\ (~(i < n) => i + 1 # n)
      BY <1>8
    <3> QED
      BY <1>5, <2>1, <2>2, <3>1
  <2>4. ASSUME NEW i \in 1..Len(s), i # n
        PROVE  s[i] \in Runs(after)
    <3>1. CASE i < n
      <4>1. i \in 1..Len(s) - 1
        BY <1>8, <3>1
      <4> QED
        BY <1>5, <2>1, <3>1, <4>1
    <3>2. CASE ~(i < n)
      <4>1. i - 1 \in 1..Len(s) - 1 /\ ~(i - 1 < n) /\ (i - 1) + 1 = i
        BY <1>8, <2>4, <3>2
      <4> QED
        BY <1>5, <2>1, <4>1
    <3> QED
      BY <3>1, <3>2
  <2> QED
    BY <2>1, <2>2, <2>3, <2>4
<1> QED
  BY <1>7, <1>8, <1>9, <1>10 DEF after, s

(***************************************************************************)
(* What a write does to the rest of the file: an eviction takes runs that  *)
(* are over, the write of a run that is there already changes that one.    *)
(***************************************************************************)
Shrinks(before, after) ==
  /\ after \in Stores /\ Distinct(after) /\ ReceiptsMatch(after) /\ OpenIsAlone(after)
  /\ after.rituals = before.rituals /\ after.schedules = before.schedules
  /\ Len(after.runs) <= Len(before.runs) /\ Runs(after) \subseteq Runs(before)
  /\ \A r \in Runs(before) : ~IsTerminal(r) => r \in Runs(after)

LEMMA EvictionShrinks ==
  ASSUME NEW st \in Stores, Distinct(st), ReceiptsMatch(st), OpenIsAlone(st),
         NEW n \in 1..Len(st.runs), IsTerminal(st.runs[n])
  PROVE  Shrinks(st, Evict(st, n)) /\ Len(Evict(st, n).runs) = Len(st.runs) - 1
<1> DEFINE after == Evict(st, n)
<1>1. /\ after \in Stores /\ Distinct(after) /\ Len(after.runs) = Len(st.runs) - 1
      /\ after.rituals = st.rituals /\ after.schedules = st.schedules
      /\ after.runReceipts = {c \in st.runReceipts : c.run # st.runs[n].id}
      /\ Runs(after) = Runs(st) \ {st.runs[n]}
  BY EvictFacts
<1>2. st.runs[n] \in Runs(st) /\ Len(st.runs) \in Nat
  BY RunsAreOrdered, StoreFields
<1> HIDE DEF after
<1>3. ReceiptsMatch(after)
  <2>1. ASSUME NEW c \in after.runReceipts
        PROVE  \E r \in Runs(after) : r.id = c.run /\ r.status = c.outcome
    <3>1. PICK r \in Runs(st) : r.id = c.run /\ r.status = c.outcome
      BY <1>1, <2>1 DEF ReceiptsMatch
    <3>2. r # st.runs[n]
      BY <1>1, <2>1, <3>1
    <3> QED
      BY <1>1, <3>1, <3>2
  <2>2. ASSUME NEW r \in Runs(after), r.status = "NEEDS_REVIEW"
        PROVE  \E c \in after.runReceipts : c.run = r.id
    <3>1. PICK c \in st.runReceipts : c.run = r.id
      BY <1>1, <2>2 DEF ReceiptsMatch
    <3>2. r.id # st.runs[n].id
      BY <1>1, <1>2, <2>2, RunOfIdentity
    <3> QED
      BY <1>1, <3>1, <3>2
  <2> QED
    BY <2>1, <2>2 DEF ReceiptsMatch
<1>4. OpenIsAlone(after)
  BY <1>1 DEF OpenIsAlone
<1> QED
  BY <1>1, <1>2, <1>3, <1>4 DEF Shrinks, after

LEMMA FirstIsMember ==
  ASSUME NEW S, S \subseteq Nat, S # {}
  PROVE  FirstOf(S) \in S /\ \A j \in S : FirstOf(S) <= j
<1>1. \E i \in S : \A j \in S : i <= j
  <2> DEFINE R == {ss \in Nat \X Nat : ss[1] < ss[2]}
  <2>1. IsWellFoundedOn(R, Nat)
    BY NatLessThanWellFounded DEF OpToRel
  <2> HIDE DEF R
  <2>2. PICK i \in S : \A y \in S : ~(<<y, i>> \in R)
    BY <2>1, WFMin
  <2>3. ASSUME NEW j \in S
        PROVE  i <= j
    <3>1. ~(<<j, i>> \in R) /\ i \in Nat /\ j \in Nat
      BY <2>2
    <3> QED
      BY <3>1 DEF R
  <2> QED
    BY <2>3
<1> QED
  BY <1>1 DEF FirstOf

LEMMA EvictableIsOver ==
  ASSUME NEW st \in Stores, NEW kept, Evictable(st, kept) # {}
  PROVE  /\ FirstOf(Evictable(st, kept)) \in 1..Len(st.runs)
         /\ IsTerminal(st.runs[FirstOf(Evictable(st, kept))])
<1> DEFINE n == FirstOf(Evictable(st, kept))
<1>1. Evictable(st, kept) \subseteq 1..Len(st.runs)
  BY DEF Evictable
<1>2. n \in Evictable(st, kept)
  BY <1>1, StoreFields, FirstIsMember
<1> HIDE DEF n
<1>3. n \in 1..Len(st.runs) /\ IsTerminal(st.runs[n])
  BY <1>2 DEF Evictable
<1> QED
  BY <1>3 DEF n

LEMMA ShrinksAlready ==
  ASSUME NEW st \in Stores, Distinct(st), ReceiptsMatch(st), OpenIsAlone(st)
  PROVE  Shrinks(st, st)
BY StoreFields DEF Shrinks

\* The room made in the list for one more run.
LEMMA RoomShrinks ==
  ASSUME NEW st \in Stores, Distinct(st), ReceiptsMatch(st), OpenIsAlone(st), MakeRoom(st).ok
  PROVE  Shrinks(st, MakeRoom(st).store)
<1>0. StoreLimit \in Nat /\ Len(st.runs) \in Nat
  BY StoreAssumption, StoreFields
<1>1. CASE Len(st.runs) < StoreLimit
  <2>1. MakeRoom(st) = Written(st)
    BY <1>0, <1>1 DEF MakeRoom
  <2> QED
    BY <2>1, ShrinksAlready DEF Written
<1>2. CASE Len(st.runs) >= StoreLimit /\ Evictable(st, None) # {}
  <2> DEFINE n == FirstOf(Evictable(st, None))
  <2>1. MakeRoom(st) = Written(Evict(st, n))
    BY <1>0, <1>2 DEF MakeRoom
  <2>2. n \in 1..Len(st.runs) /\ IsTerminal(st.runs[n])
    BY <1>2, EvictableIsOver
  <2> HIDE DEF n
  <2> QED
    BY <2>1, <2>2, EvictionShrinks DEF Written
<1>3. CASE ~(Len(st.runs) < StoreLimit) /\ ~(Len(st.runs) >= StoreLimit /\ Evictable(st, None) # {})
  <2>1. MakeRoom(st) = Threw(st)
    BY <1>3 DEF MakeRoom
  <2> QED
    BY <2>1 DEF Threw
<1> QED
  BY <1>1, <1>2, <1>3

\* The room made in the file, of a list at most one run too long.
LEMMA RetentionShrinks ==
  ASSUME NEW before, NEW st \in Stores, Distinct(st), ReceiptsMatch(st), OpenIsAlone(st),
         NEW kept, Retain(before, st, kept).ok, Len(st.runs) <= RunsByBytes + 1
  PROVE  LET after == Retain(before, st, kept).store IN
         Shrinks(st, after) /\ Len(after.runs) <= RunsByBytes
<1>0. RunsByBytes \in Nat /\ Len(st.runs) \in Nat
  BY StoreAssumption, StoreFields
<1>1. CASE Len(st.runs) <= RunsByBytes
  <2>1. Retain(before, st, kept) = Written(st)
    BY <1>0, <1>1 DEF Retain
  <2> QED
    BY <1>1, <2>1, ShrinksAlready DEF Written
<1>2. CASE Len(st.runs) > RunsByBytes /\ Evictable(st, kept) # {}
  <2> DEFINE n == FirstOf(Evictable(st, kept))
  <2>1. Retain(before, st, kept) = Written(Evict(st, n))
    BY <1>0, <1>2 DEF Retain
  <2>2. n \in 1..Len(st.runs) /\ IsTerminal(st.runs[n])
    BY <1>2, EvictableIsOver
  <2> HIDE DEF n
  <2>3. Shrinks(st, Evict(st, n)) /\ Len(Evict(st, n).runs) = Len(st.runs) - 1
    BY <2>2, EvictionShrinks
  <2>4. Len(Evict(st, n).runs) <= RunsByBytes
    BY <1>0, <2>3
  <2> QED
    BY <2>1, <2>3, <2>4 DEF Written
<1>3. CASE /\ ~(Len(st.runs) <= RunsByBytes)
           /\ ~(Len(st.runs) > RunsByBytes /\ Evictable(st, kept) # {})
  <2>1. Retain(before, st, kept) = Threw(before)
    BY <1>3 DEF Retain
  <2> QED
    BY <2>1 DEF Threw
<1> QED
  BY <1>1, <1>2, <1>3

\* The write of a new run: it is there, and so is every run that is open.
Adds(before, after, run) ==
  /\ after \in Stores /\ Consistent(after)
  /\ after.rituals = before.rituals /\ after.schedules = before.schedules
  /\ run \in Runs(after) /\ Runs(after) \subseteq Runs(before) \cup {run}
  /\ \A r \in Runs(before) : ~IsTerminal(r) => r \in Runs(after)

LEMMA AppendConsistent ==
  ASSUME NEW st \in Stores, Distinct(st), ReceiptsMatch(st), OpenIsAlone(st),
         NEW run \in OrderedRuns, run.status = "QUEUED", run.id \notin RunIds(st),
         \A r \in Runs(st) : ~IsTerminal(r) => r.of # run.of
  PROVE  LET longer == [st EXCEPT !.runs = Append(@, run)] IN
         /\ longer \in Stores /\ Distinct(longer) /\ ReceiptsMatch(longer)
         /\ OpenIsAlone(longer) /\ Len(longer.runs) = Len(st.runs) + 1
         /\ longer.rituals = st.rituals /\ longer.schedules = st.schedules
         /\ Runs(longer) = Runs(st) \cup {run}
<1> DEFINE longer == [st EXCEPT !.runs = Append(@, run)]
           s == Append(st.runs, run)
<1>1. /\ s \in Seq(OrderedRuns) /\ Len(s) = Len(st.runs) + 1
      /\ \A i \in 1..Len(st.runs) : s[i] = st.runs[i]
      /\ s[Len(st.runs) + 1] = run
  BY StoreFields, AppendProperties
<1> HIDE DEF s
<1>2. longer = [st EXCEPT !.runs = s]
  BY DEF s
<1> HIDE DEF longer
<1>3. /\ longer \in Stores /\ longer.runs = s
      /\ longer.rituals = st.rituals /\ longer.schedules = st.schedules
      /\ longer.runReceipts = st.runReceipts
  BY <1>1, <1>2 DEF Stores
<1>4. Len(st.runs) \in Nat
  BY StoreFields
<1>5. Runs(longer) = Runs(st) \cup {run}
  <2>1. \A i \in 1..Len(s) : i \in 1..Len(st.runs) \/ i = Len(st.runs) + 1
    BY <1>1, <1>4
  <2>2. Len(st.runs) + 1 \in 1..Len(s) /\ 1..Len(st.runs) \subseteq 1..Len(s)
    BY <1>1, <1>4
  <2> QED
    BY <1>1, <1>3, <2>1, <2>2 DEF Runs, Elements
<1>6. \A i \in 1..Len(st.runs) : st.runs[i].id # run.id
  BY DEF RunIds, Elements
<1>7. Distinct(longer)
  <2> SUFFICES ASSUME NEW i \in 1..Len(s), NEW j \in 1..Len(s), s[i].id = s[j].id
               PROVE  i = j
    BY <1>3 DEF Distinct
  <2>1. \A k \in 1..Len(s) : k \in 1..Len(st.runs) \/ k = Len(st.runs) + 1
    BY <1>1, <1>4
  <2>2. CASE i \in 1..Len(st.runs) /\ j \in 1..Len(st.runs)
    BY <1>1, <2>2 DEF Distinct
  <2>3. CASE i = Len(st.runs) + 1 \/ j = Len(st.runs) + 1
    BY <1>1, <1>6, <2>1, <2>3
  <2> QED
    BY <2>1, <2>2, <2>3
<1>8. ReceiptsMatch(longer)
  BY <1>3, <1>5 DEF ReceiptsMatch
<1>9. OpenIsAlone(longer)
  BY <1>5 DEF OpenIsAlone
<1> QED
  BY <1>1, <1>3, <1>5, <1>7, <1>8, <1>9 DEF longer

LEMMA NewRunIsAdded ==
  ASSUME NEW st \in Stores, Consistent(st),
         NEW run \in OrderedRuns, run.status = "QUEUED", run.id \notin RunIds(st),
         OpenRuns(st, run.of) = {}, SaveRun(st, run).ok
  PROVE  Adds(st, SaveRun(st, run).store, run)
<1> DEFINE room == MakeRoom(st).store
           longer == [room EXCEPT !.runs = Append(@, run)]
           after == Retain(st, longer, None).store
<1>1. run \notin Elements(st.runs)
  BY DEF RunIds
<1>2. MakeRoom(st).ok /\ SaveRun(st, run) = Retain(st, longer, None)
  BY <1>1 DEF SaveRun, Threw
<1>3. Shrinks(st, room)
  BY <1>2, RoomShrinks DEF Consistent, ListKept
<1>4. Retain(st, longer, None).ok /\ SaveRun(st, run).store = after
  BY <1>2
<1> HIDE DEF room
<1>5. run.id \notin RunIds(room)
  BY <1>3 DEF Shrinks, Runs, RunIds
<1>6. \A r \in Runs(room) : ~IsTerminal(r) => r.of # run.of
  BY <1>3 DEF Shrinks, OpenRuns, Runs
<1>7. /\ longer \in Stores /\ Distinct(longer) /\ ReceiptsMatch(longer)
      /\ OpenIsAlone(longer) /\ Len(longer.runs) = Len(room.runs) + 1
      /\ longer.rituals = room.rituals /\ longer.schedules = room.schedules
      /\ Runs(longer) = Runs(room) \cup {run}
  BY <1>3, <1>5, <1>6, AppendConsistent DEF Shrinks
<1> HIDE DEF longer
<1>8. Len(longer.runs) <= RunsByBytes + 1
  <2>1. /\ Len(st.runs) \in Nat /\ Len(room.runs) \in Nat /\ RunsByBytes \in Nat
        /\ Len(room.runs) <= Len(st.runs) /\ Len(st.runs) <= RunsByBytes
    BY <1>3, StoreFields, StoreAssumption DEF Shrinks, Consistent, ListKept
  <2> QED
    BY <1>7, <2>1
<1>9. Shrinks(longer, after) /\ Len(after.runs) <= RunsByBytes
  BY <1>4, <1>7, <1>8, RetentionShrinks
<1> HIDE DEF after
<1>10. ~IsTerminal(run)
  BY DEF IsTerminal, TerminalStatuses
<1> QED
  BY <1>3, <1>4, <1>7, <1>9, <1>10 DEF Adds, Shrinks, Consistent, ListKept

\* The write of a run that is there and open changes that run alone.
Rewrites(before, after, run) ==
  /\ after \in Stores /\ Consistent(after)
  /\ after.rituals = before.rituals /\ after.schedules = before.schedules
  /\ run.id \in RunIds(before) /\ RunIds(after) = RunIds(before)
  /\ RunOf(after, run.id) = run /\ RunOf(before, run.id).of = run.of
  /\ ~IsTerminal(RunOf(before, run.id))
  /\ \A id \in RunIds(before) : id # run.id => RunOf(after, id) = RunOf(before, id)

\* The list of runs after such a write, whatever it does to the receipts.
LEMMA ListRewritten ==
  ASSUME NEW st \in Stores, Consistent(st), NEW run \in OrderedRuns, run.id \in RunIds(st),
         ~IsTerminal(RunOf(st, run.id)), RunOf(st, run.id).of = run.of,
         NEW after \in Stores, Distinct(after), Len(after.runs) = Len(st.runs),
         after.rituals = st.rituals, after.schedules = st.schedules,
         Runs(after) = (Runs(st) \ {RunOf(st, run.id)}) \cup {run},
         ReceiptsMatch(after)
  PROVE  Rewrites(st, after, run)
<1>1. Distinct(st) /\ OpenIsAlone(st) /\ Len(st.runs) <= RunsByBytes
  BY DEF Consistent, ListKept
<1>2. RunOf(st, run.id) \in Runs(st) /\ RunOf(st, run.id).id = run.id
  BY <1>1, RunOfIdentity
<1>3. OpenIsAlone(after)
  <2> SUFFICES ASSUME NEW r \in Runs(after), NEW q \in Runs(after),
                      ~IsTerminal(r), ~IsTerminal(q), r.of = q.of
               PROVE  r = q
    BY DEF OpenIsAlone
  <2>1. CASE r = run /\ q # run
    <3>1. q \in Runs(st) /\ q # RunOf(st, run.id)
      BY <2>1
    <3>2. q = RunOf(st, run.id)
      BY <1>1, <1>2, <2>1, <3>1 DEF OpenIsAlone
    <3> QED
      BY <3>1, <3>2
  <2>2. CASE q = run /\ r # run
    <3>1. r \in Runs(st) /\ r # RunOf(st, run.id)
      BY <2>2
    <3>2. r = RunOf(st, run.id)
      BY <1>1, <1>2, <2>2, <3>1 DEF OpenIsAlone
    <3> QED
      BY <3>1, <3>2
  <2>3. CASE r # run /\ q # run
    BY <1>1, <2>3 DEF OpenIsAlone
  <2> QED
    BY <2>1, <2>2, <2>3
<1>4. RunIds(after) = RunIds(st)
  <2>1. RunIds(after) = {r.id : r \in Runs(after)} /\ RunIds(st) = {r.id : r \in Runs(st)}
    BY DEF RunIds, Runs
  <2> QED
    BY <1>2, <2>1
<1>5. run \in Runs(after) /\ RunOf(after, run.id) = run
  BY RunOfIdentity
<1>6. ASSUME NEW id \in RunIds(st), id # run.id
      PROVE  RunOf(after, id) = RunOf(st, id)
  <2>1. RunOf(st, id) \in Runs(st) /\ RunOf(st, id).id = id
    BY <1>1, RunOfIdentity
  <2>2. RunOf(st, id) \in Runs(after)
    BY <1>2, <1>6, <2>1
  <2> QED
    BY <2>1, <2>2, RunOfIdentity
<1> QED
  BY <1>1, <1>3, <1>4, <1>5, <1>6 DEF Rewrites, Consistent, ListKept

LEMMA ReplaceRewrites ==
  ASSUME NEW st \in Stores, Consistent(st), NEW run \in OrderedRuns, run.id \in RunIds(st),
         ~IsTerminal(RunOf(st, run.id)), RunOf(st, run.id).of = run.of,
         run.status # "NEEDS_REVIEW"
  PROVE  /\ Rewrites(st, Replace(st, run), run)
         /\ Len(Replace(st, run).runs) <= RunsByBytes
<1> DEFINE after == Replace(st, run)
           old == RunOf(st, run.id)
<1>1. Distinct(st) /\ ReceiptsMatch(st) /\ Len(st.runs) <= RunsByBytes
  BY DEF Consistent, ListKept
<1>2. /\ after \in Stores /\ Distinct(after) /\ Len(after.runs) = Len(st.runs)
      /\ after.rituals = st.rituals /\ after.schedules = st.schedules
      /\ after.runReceipts = st.runReceipts
      /\ Runs(after) = (Runs(st) \ {old}) \cup {run}
  BY <1>1, ReplaceFacts
<1>3. old \in Runs(st) /\ old.id = run.id
  BY <1>1, RunOfIdentity
<1> HIDE DEF after, old
<1>4. ReceiptsMatch(after)
  <2>1. ASSUME NEW c \in after.runReceipts
        PROVE  \E r \in Runs(after) : r.id = c.run /\ r.status = c.outcome
    <3>1. c \in st.runReceipts /\ c.outcome = "NEEDS_REVIEW"
      BY <1>2, <2>1, StoreFields DEF Receipts
    <3>2. PICK r \in Runs(st) : r.id = c.run /\ r.status = c.outcome
      BY <1>1, <3>1 DEF ReceiptsMatch
    <3>3. ~IsTerminal(old)
      BY DEF old
    <3>4. r # old
      BY <3>1, <3>2, <3>3 DEF IsTerminal, TerminalStatuses
    <3> QED
      BY <1>2, <3>2, <3>4
  <2>2. ASSUME NEW r \in Runs(after), r.status = "NEEDS_REVIEW"
        PROVE  \E c \in after.runReceipts : c.run = r.id
    BY <1>1, <1>2, <2>2 DEF ReceiptsMatch
  <2> QED
    BY <2>1, <2>2 DEF ReceiptsMatch
<1> QED
  BY <1>1, <1>2, <1>4, ListRewritten DEF after, old

\* What saveRun does to a run that is there.
LEMMA SaveRewrites ==
  ASSUME NEW st \in Stores, Consistent(st), NEW run \in OrderedRuns, run.id \in RunIds(st),
         RunOf(st, run.id).of = run.of, run.status # "NEEDS_REVIEW"
  PROVE  LET saved == SaveRun(st, run) IN
         /\ saved.store = st \/ Rewrites(st, saved.store, run)
         /\ saved.ok => run \in Runs(st) \/ Rewrites(st, saved.store, run)
<1> DEFINE saved == SaveRun(st, run)
<1>1. CASE run \in Elements(st.runs)
  <2>1. saved = Written(st)
    BY <1>1 DEF SaveRun
  <2> QED
    BY <1>1, <2>1 DEF Written, Runs
<1>2. CASE run \notin Elements(st.runs) /\ IsSuccessor(RunOf(st, run.id), run)
  <2>1. saved = Retain(st, Replace(st, run), None)
    BY <1>2 DEF SaveRun
  <2>2. /\ Rewrites(st, Replace(st, run), run)
        /\ Len(Replace(st, run).runs) <= RunsByBytes
    BY <1>2, ReplaceRewrites DEF IsSuccessor
  <2>3. Retain(st, Replace(st, run), None) = Written(Replace(st, run))
    <3>1. RunsByBytes \in Nat /\ Len(Replace(st, run).runs) \in Nat
      BY <2>2, StoreAssumption, StoreFields DEF Rewrites
    <3> QED
      BY <2>2, <3>1 DEF Retain
  <2> QED
    BY <2>1, <2>2, <2>3 DEF Written
<1>3. CASE run \notin Elements(st.runs) /\ ~IsSuccessor(RunOf(st, run.id), run)
  <2>1. saved = Threw(st)
    BY <1>3 DEF SaveRun
  <2> QED
    BY <2>1 DEF Threw
<1> QED
  BY <1>1, <1>2, <1>3

\* A successor of the run that is there is saved as such or not at all.
LEMMA SuccessorRewrites ==
  ASSUME NEW st \in Stores, Consistent(st), NEW id \in RunIds(st), NEW run,
         Succeeds(RunOf(st, id), run), SaveRun(st, run).ok
  PROVE  run.id = id /\ Rewrites(st, SaveRun(st, run).store, run)
<1> DEFINE old == RunOf(st, id)
<1>1. Distinct(st) /\ old \in Runs(st) /\ old.id = id
  BY RunOfIdentity DEF Consistent, ListKept
<1>2. /\ run \in OrderedRuns /\ run.id = id /\ run.of = old.of /\ run.status # "NEEDS_REVIEW"
      /\ run.revision = old.revision + 1
  BY <1>1 DEF Succeeds
<1>3. old \in OrderedRuns /\ old.revision \in Nat
  BY <1>1, RunsAreOrdered, RunFields
<1>4. run \notin Runs(st)
  <2>1. run # old
    BY <1>2, <1>3
  <2> QED
    BY <1>1, <1>2, <2>1, RunOfIdentity
<1> QED
  BY <1>2, <1>4, SaveRewrites

\* completeRun: the run is over and has its receipt.
LEMMA CompletionRewrites ==
  ASSUME NEW st \in Stores, Consistent(st), NEW run \in OrderedRuns,
         RunOf(st, run.id).of = run.of, run.status = "NEEDS_REVIEW",
         SaveCompletion(st, run).ok
  PROVE  Rewrites(st, SaveCompletion(st, run).store, run)
<1> DEFINE replaced == Replace(st, run)
           full == [replaced EXCEPT !.runReceipts = @ \cup {RunReceipt(run)}]
           old == RunOf(st, run.id)
<1>1. /\ run.id \in RunIds(st) /\ IsSuccessor(old, run)
      /\ SaveCompletion(st, run) = Retain(st, full, run.id)
  BY DEF SaveCompletion, Threw
<1>2. Distinct(st) /\ ReceiptsMatch(st) /\ Len(st.runs) <= RunsByBytes
  BY DEF Consistent, ListKept
<1>3. /\ replaced \in Stores /\ Distinct(replaced) /\ Len(replaced.runs) = Len(st.runs)
      /\ replaced.rituals = st.rituals /\ replaced.schedules = st.schedules
      /\ replaced.runReceipts = st.runReceipts
      /\ Runs(replaced) = (Runs(st) \ {old}) \cup {run}
  BY <1>1, <1>2, ReplaceFacts
<1>4. old \in Runs(st) /\ old.id = run.id /\ ~IsTerminal(old)
  BY <1>1, <1>2, RunOfIdentity DEF IsSuccessor
<1>5. /\ RunReceipt(run) \in Receipts /\ RunReceipt(run).run = run.id
      /\ RunReceipt(run).outcome = "NEEDS_REVIEW"
  BY RunFields DEF RunReceipt, Receipts
<1> HIDE DEF replaced, old
<1>6. /\ full \in Stores /\ full.runs = replaced.runs
      /\ full.rituals = st.rituals /\ full.schedules = st.schedules
      /\ full.runReceipts = st.runReceipts \cup {RunReceipt(run)}
  BY <1>3, <1>5 DEF Stores
<1> HIDE DEF full
<1>7. /\ Distinct(full) /\ Len(full.runs) = Len(st.runs)
      /\ Runs(full) = (Runs(st) \ {old}) \cup {run}
  BY <1>3, <1>6 DEF Distinct, Runs
<1>8. ReceiptsMatch(full)
  <2>1. ASSUME NEW c \in full.runReceipts
        PROVE  \E r \in Runs(full) : r.id = c.run /\ r.status = c.outcome
    <3>1. CASE c = RunReceipt(run)
      BY <1>5, <1>7, <3>1
    <3>2. CASE c \in st.runReceipts
      <4>1. c.outcome = "NEEDS_REVIEW"
        BY <3>2, StoreFields DEF Receipts
      <4>2. PICK r \in Runs(st) : r.id = c.run /\ r.status = c.outcome
        BY <1>2, <3>2 DEF ReceiptsMatch
      <4>3. r # old
        BY <1>4, <4>1, <4>2 DEF IsTerminal, TerminalStatuses
      <4> QED
        BY <1>7, <4>2, <4>3
    <3> QED
      BY <1>6, <2>1, <3>1, <3>2
  <2>2. ASSUME NEW r \in Runs(full), r.status = "NEEDS_REVIEW"
        PROVE  \E c \in full.runReceipts : c.run = r.id
    <3>1. CASE r = run
      BY <1>5, <1>6, <3>1
    <3>2. CASE r \in Runs(st)
      BY <1>2, <1>6, <2>2, <3>2 DEF ReceiptsMatch
    <3> QED
      BY <1>7, <2>2, <3>1, <3>2
  <2> QED
    BY <2>1, <2>2 DEF ReceiptsMatch
<1>9. Rewrites(st, full, run)
  BY <1>1, <1>4, <1>6, <1>7, <1>8, ListRewritten DEF old
<1>10. Retain(st, full, run.id) = Written(full)
  <2>1. RunsByBytes \in Nat /\ Len(full.runs) \in Nat /\ Len(full.runs) <= RunsByBytes
    BY <1>2, <1>6, <1>7, StoreAssumption, StoreFields
  <2> QED
    BY <2>1 DEF Retain
<1> QED
  BY <1>1, <1>9, <1>10 DEF Written, full

--------------------------------------------------------------------------------
(***************************************************************************)
(* The repository's operations on schedules and revisions.                 *)
(***************************************************************************)
LEMMA ScheduleFields ==
  ASSUME NEW s \in Schedules
  PROVE  /\ s.of \in Nat \ {0} /\ s.state \in {"ENABLED", "PAUSED"} /\ s.next \in Nat \ {0}
         /\ s.last \in Nat /\ s.pending \in {None} \cup [run : Ids, due : Nat \ {0}]
         /\ s.pending # None => s.pending.run \in Ids /\ s.pending.due \in Nat \ {0}
BY DEF Schedules

LEMMA ScheduleOfRevision ==
  ASSUME NEW st \in Stores, \A s, t \in st.schedules : s.of = t.of => s = t
  PROVE  /\ \A s \in st.schedules : ScheduleOf(st, s.of) = s
         /\ \A of : ScheduleOf(st, of) # None =>
              ScheduleOf(st, of) \in st.schedules /\ ScheduleOf(st, of).of = of
<1>1. ASSUME NEW of, ScheduleOf(st, of) # None
      PROVE  ScheduleOf(st, of) \in st.schedules /\ ScheduleOf(st, of).of = of
  <2> DEFINE S == {s \in st.schedules : s.of = of}
  <2>1. S # {} /\ ScheduleOf(st, of) = CHOOSE s \in S : TRUE
    BY <1>1 DEF ScheduleOf
  <2>2. ScheduleOf(st, of) \in S
    <3> HIDE DEF S
    <3> QED
      BY <2>1
  <2> QED
    BY <2>2
<1>2. ASSUME NEW s \in st.schedules
      PROVE  ScheduleOf(st, s.of) = s
  <2> DEFINE S == {t \in st.schedules : t.of = s.of}
  <2>1. S = {s}
    OBVIOUS
  <2>2. ScheduleOf(st, s.of) = IF S = {} THEN None ELSE CHOOSE t \in S : TRUE
    BY DEF ScheduleOf
  <2> HIDE DEF S
  <2> QED
    BY <2>1, <2>2
<1> QED
  BY <1>1, <1>2

\* Who a schedule waits for is not changed by any operation but a claim.
PendingFrom(before, after) ==
  \A s \in after.schedules : s.pending # None =>
     \E t \in before.schedules : t.pending = s.pending

\* What an operation on schedules or revisions leaves as it is.
RunsUntouched(before, after) ==
  after \in Stores /\ after.runs = before.runs /\ after.runReceipts = before.runReceipts

LEMMA ScheduleReplaced ==
  ASSUME NEW st \in Stores, NEW claimed, NEW now, SchedulesKept(st, claimed),
         NEW new \in Schedules, new.of <= LatestRevision(st),
         new.state = "ENABLED" => new.of = LatestRevision(st) /\ new.next > now,
         \A s \in st.schedules : s.of # new.of /\ s.state = "ENABLED" => s.next > now
  PROVE  LET after == WithSchedule(st, new) IN
         /\ RunsUntouched(st, after) /\ SchedulesKept(after, now)
         /\ after.rituals = st.rituals
         /\ after.schedules = {s \in st.schedules : s.of # new.of} \cup {new}
         /\ ScheduleOf(after, new.of) = new
<1> DEFINE after == WithSchedule(st, new)
<1>1. /\ after \in Stores /\ after.runs = st.runs /\ after.runReceipts = st.runReceipts
      /\ after.rituals = st.rituals
      /\ after.schedules = {s \in st.schedules : s.of # new.of} \cup {new}
  BY DEF WithSchedule, Stores
<1> HIDE DEF after
<1>2. LatestRevision(after) = LatestRevision(st)
  BY <1>1 DEF LatestRevision
<1>3. \A s, t \in after.schedules : s.of = t.of => s = t
  BY <1>1 DEF SchedulesKept
<1>4. SchedulesKept(after, now)
  BY <1>1, <1>2, <1>3 DEF SchedulesKept
<1>5. ScheduleOf(after, new.of) = new
  BY <1>1, <1>3, ScheduleOfRevision
<1> QED
  BY <1>1, <1>4, <1>5 DEF RunsUntouched, after

\* A claim takes the occurrence the schedule is at and moves it past now.
LEMMA ClaimKeeps ==
  ASSUME NEW st \in Stores, NEW claimed \in Nat, SchedulesKept(st, claimed),
         NEW candidate, candidate.run \in Ids, candidate.now \in Nat,
         ClaimOccurrence(st, candidate) # st
  PROVE  LET after == ClaimOccurrence(st, candidate)
             schedule == ScheduleOf(after, candidate.of)
         IN  /\ RunsUntouched(st, after) /\ after.rituals = st.rituals
             /\ candidate.of = LatestRevision(st)
             /\ schedule.pending.run = candidate.run
             /\ schedule.pending.due \in Nat /\ schedule.pending.due > claimed
             /\ schedule.pending.due <= candidate.now
             /\ SchedulesKept(after, schedule.pending.due)
             /\ \A s \in after.schedules : s.pending # None =>
                  \/ \E t \in st.schedules : t.pending = s.pending
                  \/ s.pending.run = candidate.run
<1> DEFINE old == ScheduleOf(st, candidate.of)
           pending == [run |-> candidate.run, due |-> old.next]
           new == [old EXCEPT !.next = candidate.now + 1, !.pending = pending]
           after == ClaimOccurrence(st, candidate)
<1>1. /\ old # None /\ old.pending = None /\ old.state = "ENABLED"
      /\ old.next <= candidate.now /\ after = WithSchedule(st, new)
  BY DEF ClaimOccurrence
<1>2. /\ old \in st.schedules /\ old.of = candidate.of /\ old \in Schedules
      /\ old.next \in Nat \ {0} /\ old.of \in Nat \ {0} /\ old.last \in Nat
      /\ old.of = LatestRevision(st) /\ old.next > claimed
  <2>1. old \in st.schedules /\ old.of = candidate.of
    BY <1>1, ScheduleOfRevision DEF SchedulesKept
  <2>2. old \in Schedules
    BY <2>1, StoreFields
  <2> QED
    BY <1>1, <2>1, <2>2, ScheduleFields DEF SchedulesKept
<1> HIDE DEF old, after
<1>3. pending \in [run : Ids, due : Nat \ {0}] /\ pending.run = candidate.run
      /\ pending.due = old.next
  BY <1>2
<1> HIDE DEF pending
<1>4. /\ new \in Schedules /\ new.of = old.of /\ new.next = candidate.now + 1
      /\ new.pending = pending
  <2>1. candidate.now + 1 \in Nat \ {0}
    OBVIOUS
  <2>2. pending \in {None} \cup [run : Ids, due : Nat \ {0}]
    BY <1>3
  <2> QED
    BY <1>2, <2>1, <2>2 DEF Schedules
<1> HIDE DEF new
<1>5. /\ RunsUntouched(st, WithSchedule(st, new)) /\ after.rituals = st.rituals
      /\ SchedulesKept(WithSchedule(st, new), old.next)
      /\ after.schedules = {s \in st.schedules : s.of # new.of} \cup {new}
      /\ ScheduleOf(after, new.of) = new
  <2>1. new.of <= LatestRevision(st) /\ new.of = LatestRevision(st) /\ new.next > old.next
    BY <1>1, <1>2, <1>4
  <2>2. \A s \in st.schedules : s.of # new.of /\ s.state = "ENABLED" => s.next > old.next
    BY <1>2, <1>4 DEF SchedulesKept
  <2> QED
    BY <1>1, <1>4, <2>1, <2>2, ScheduleReplaced
<1>6. ScheduleOf(after, candidate.of) = new
  BY <1>2, <1>4, <1>5
<1>7. \A s \in after.schedules : s.pending # None =>
         \/ \E t \in st.schedules : t.pending = s.pending
         \/ s.pending.run = candidate.run
  BY <1>3, <1>4, <1>5
<1> QED
  BY <1>1, <1>2, <1>3, <1>4, <1>5, <1>6, <1>7 DEF after

LEMMA AcknowledgeKeeps ==
  ASSUME NEW st \in Stores, NEW claimed, SchedulesKept(st, claimed), NEW run
  PROVE  LET after == Acknowledge(st, run) IN
         /\ RunsUntouched(st, after) /\ after.rituals = st.rituals
         /\ SchedulesKept(after, claimed) /\ PendingFrom(st, after)
<1> DEFINE owed == {s \in st.schedules : s.pending # None /\ s.pending.run = run}
           old == CHOOSE s \in owed : TRUE
           new == [old EXCEPT !.pending = None, !.last = old.pending.due]
           after == Acknowledge(st, run)
<1>1. CASE owed = {}
  <2>1. after = st
    BY <1>1 DEF Acknowledge
  <2> QED
    BY <2>1 DEF RunsUntouched, PendingFrom
<1>2. CASE owed # {}
  <2>1. after = WithSchedule(st, new)
    BY <1>2 DEF Acknowledge
  <2>2. old \in owed
    <3> HIDE DEF owed
    <3> QED
      BY <1>2
  <2>3. /\ old \in st.schedules /\ old.pending # None /\ old \in Schedules
        /\ old.pending.due \in Nat
    BY <2>2, StoreFields, ScheduleFields
  <2> HIDE DEF old, after
  <2>4. /\ new \in Schedules /\ new.of = old.of /\ new.next = old.next
        /\ new.state = old.state /\ new.pending = None
    BY <2>3 DEF Schedules
  <2> HIDE DEF new
  <2>5. /\ new.of <= LatestRevision(st)
        /\ new.state = "ENABLED" => new.of = LatestRevision(st) /\ new.next > claimed
        /\ \A s \in st.schedules : s.of # new.of /\ s.state = "ENABLED" => s.next > claimed
    BY <2>3, <2>4 DEF SchedulesKept
  <2>6. /\ RunsUntouched(st, WithSchedule(st, new)) /\ after.rituals = st.rituals
        /\ SchedulesKept(WithSchedule(st, new), claimed)
        /\ after.schedules = {s \in st.schedules : s.of # new.of} \cup {new}
    BY <2>1, <2>4, <2>5, ScheduleReplaced
  <2>7. PendingFrom(st, after)
    BY <2>4, <2>6 DEF PendingFrom
  <2> QED
    BY <2>1, <2>6, <2>7 DEF after
<1> QED
  BY <1>1, <1>2

LEMMA SaveScheduleKeeps ==
  ASSUME NEW st \in Stores, NEW claimed, SchedulesKept(st, claimed),
         NEW schedule \in Schedules, NEW unmoved, schedule.pending = None,
         unmoved /\ schedule.of = LatestRevision(st) /\ schedule.state = "ENABLED"
           => schedule.next > claimed
  PROVE  LET after == SaveSchedule(st, schedule, unmoved).store IN
         /\ RunsUntouched(st, after) /\ after.rituals = st.rituals
         /\ SchedulesKept(after, claimed) /\ PendingFrom(st, after)
<1> DEFINE after == SaveSchedule(st, schedule, unmoved).store
<1>1. CASE schedule.of = LatestRevision(st) /\ unmoved
  <2>1. after = WithSchedule(st, schedule)
    BY <1>1 DEF SaveSchedule, Written
  <2> HIDE DEF after
  <2>2. /\ schedule.of <= LatestRevision(st)
        /\ \A s \in st.schedules : s.of # schedule.of /\ s.state = "ENABLED" => s.next > claimed
    BY <1>1, StoreFields DEF SchedulesKept, LatestRevision
  <2>3. /\ RunsUntouched(st, WithSchedule(st, schedule)) /\ after.rituals = st.rituals
        /\ SchedulesKept(WithSchedule(st, schedule), claimed)
        /\ after.schedules = {s \in st.schedules : s.of # schedule.of} \cup {schedule}
    BY <1>1, <2>1, <2>2, ScheduleReplaced
  <2>4. PendingFrom(st, after)
    BY <2>3 DEF PendingFrom
  <2> QED
    BY <2>1, <2>3, <2>4 DEF after
<1>2. CASE ~(schedule.of = LatestRevision(st) /\ unmoved)
  <2>1. after = st
    BY <1>2 DEF SaveSchedule, Threw
  <2> QED
    BY <2>1 DEF RunsUntouched, PendingFrom
<1> QED
  BY <1>1, <1>2

\* No schedule is enabled after a revision was added, and none is shared.
LEMMA RevisionPauses ==
  ASSUME NEW s \in Schedules, NEW ritual, ritual.revision \in Nat \ {0},
         s.of < ritual.revision
  PROVE  LET t == ScheduleAfter(s, ritual) IN
         /\ t \in Schedules /\ t.state # "ENABLED" /\ t.of <= ritual.revision
         /\ t.pending # None => t.pending = s.pending
         /\ t.of = IF ritual.source = "RESTORE" /\ s.of = ritual.revision - 1
                   THEN ritual.revision ELSE s.of
<1> DEFINE paused == [s EXCEPT !.state = "PAUSED", !.pending = None]
<1>1. /\ paused \in Schedules /\ paused.state = "PAUSED" /\ paused.pending = None
      /\ paused.of = s.of
  BY DEF Schedules
<1>2. s.of \in Nat /\ s.of # ritual.revision /\ s.state \in {"ENABLED", "PAUSED"}
  BY ScheduleFields
<1>3. CASE ritual.source = "RESTORE" /\ s.of = ritual.revision - 1
  <2>1. ScheduleAfter(s, ritual) = [paused EXCEPT !.of = ritual.revision]
    BY <1>3 DEF ScheduleAfter
  <2> HIDE DEF paused
  <2>2. /\ [paused EXCEPT !.of = ritual.revision] \in Schedules
        /\ [paused EXCEPT !.of = ritual.revision].state = "PAUSED"
        /\ [paused EXCEPT !.of = ritual.revision].pending = None
        /\ [paused EXCEPT !.of = ritual.revision].of = ritual.revision
    BY <1>1 DEF Schedules
  <2> QED
    BY <1>3, <2>1, <2>2
<1>4. CASE ~(ritual.source = "RESTORE" /\ s.of = ritual.revision - 1) /\ s.state = "ENABLED"
  <2>1. ScheduleAfter(s, ritual) = paused
    BY <1>2, <1>4 DEF ScheduleAfter
  <2> QED
    BY <1>1, <1>2, <1>4, <2>1
<1>5. CASE ~(ritual.source = "RESTORE" /\ s.of = ritual.revision - 1) /\ s.state # "ENABLED"
  <2>1. ScheduleAfter(s, ritual) = s
    BY <1>2, <1>5 DEF ScheduleAfter
  <2> QED
    BY <1>2, <1>5, <2>1
<1> QED
  BY <1>3, <1>4, <1>5

LEMMA SaveKeeps ==
  ASSUME NEW st \in Stores, NEW claimed, SchedulesKept(st, claimed), NEW ritual \in Revisions
  PROVE  LET after == Save(st, ritual).store IN
         /\ RunsUntouched(st, after) /\ SchedulesKept(after, claimed)
         /\ PendingFrom(st, after)
         /\ after = st \/ LatestRevision(after) = LatestRevision(st) + 1
<1> DEFINE longer == [st EXCEPT !.rituals = Append(@, ritual),
                                !.schedules = {ScheduleAfter(s, ritual) : s \in @}]
           after == Save(st, ritual).store
<1>1. CASE after = st
  BY <1>1 DEF RunsUntouched, PendingFrom
<1>2. CASE after # st
  <2>1. after = longer /\ ritual.revision = LatestRevision(st) + 1
    BY <1>2 DEF Save, Written, Threw
  <2> HIDE DEF after
  <2>2. /\ Append(st.rituals, ritual) \in Seq(Revisions) /\ Append(st.rituals, ritual) # <<>>
        /\ Len(Append(st.rituals, ritual)) = Len(st.rituals) + 1
    BY StoreFields, AppendProperties
  <2>3. LatestRevision(st) \in Nat /\ ritual.revision \in Nat \ {0}
    BY <2>1, StoreFields DEF LatestRevision, Revisions
  <2>4. \A s \in st.schedules : s \in Schedules /\ s.of \in Nat /\ s.of < ritual.revision
    BY <2>1, <2>3, StoreFields, ScheduleFields DEF SchedulesKept
  <2>5. ASSUME NEW s \in st.schedules
        PROVE  LET t == ScheduleAfter(s, ritual) IN
               /\ t \in Schedules /\ t.state # "ENABLED" /\ t.of <= ritual.revision
               /\ t.pending # None => t.pending = s.pending
               /\ t.of = IF ritual.source = "RESTORE" /\ s.of = ritual.revision - 1
                         THEN ritual.revision ELSE s.of
    BY <2>3, <2>4, RevisionPauses
  <2>6. {ScheduleAfter(s, ritual) : s \in st.schedules} \in SUBSET Schedules
    BY <2>5
  <2>7. /\ longer \in Stores /\ longer.runs = st.runs /\ longer.runReceipts = st.runReceipts
        /\ longer.rituals = Append(st.rituals, ritual)
        /\ longer.schedules = {ScheduleAfter(s, ritual) : s \in st.schedules}
    BY <2>2, <2>6 DEF Stores
  <2> HIDE DEF longer
  <2>8. LatestRevision(longer) = LatestRevision(st) + 1
    BY <2>2, <2>7 DEF LatestRevision
  <2>9. \A t, u \in longer.schedules : t.of = u.of => t = u
    <3> SUFFICES ASSUME NEW a \in st.schedules, NEW b \in st.schedules,
                        ScheduleAfter(a, ritual).of = ScheduleAfter(b, ritual).of
                 PROVE  ScheduleAfter(a, ritual) = ScheduleAfter(b, ritual)
      BY <2>7
    <3>1. a.of = b.of
      <4>1. /\ a.of \in Nat /\ b.of \in Nat /\ a.of < ritual.revision /\ b.of < ritual.revision
        BY <2>4
      <4>2. /\ ScheduleAfter(a, ritual).of =
                 IF ritual.source = "RESTORE" /\ a.of = ritual.revision - 1
                 THEN ritual.revision ELSE a.of
            /\ ScheduleAfter(b, ritual).of =
                 IF ritual.source = "RESTORE" /\ b.of = ritual.revision - 1
                 THEN ritual.revision ELSE b.of
        BY <2>5
      <4>3. CASE ritual.source = "RESTORE" /\ a.of = ritual.revision - 1
        <5>1. ScheduleAfter(b, ritual).of = ritual.revision
          BY <4>2, <4>3
        <5>2. b.of # ritual.revision
          BY <2>3, <4>1
        <5> QED
          BY <4>2, <4>3, <5>1, <5>2
      <4>4. CASE ~(ritual.source = "RESTORE" /\ a.of = ritual.revision - 1)
        <5>1. ScheduleAfter(b, ritual).of = a.of
          BY <4>2, <4>4
        <5>2. a.of # ritual.revision
          BY <2>3, <4>1
        <5> QED
          BY <4>2, <5>1, <5>2
      <4> QED
        BY <4>3, <4>4
    <3>2. a = b
      BY <3>1 DEF SchedulesKept
    <3> QED
      BY <3>2
  <2>10. SchedulesKept(longer, claimed)
    BY <2>1, <2>2, <2>5, <2>7, <2>8, <2>9 DEF SchedulesKept
  <2>11. PendingFrom(st, longer)
    BY <2>5, <2>7 DEF PendingFrom
  <2> QED
    BY <2>1, <2>7, <2>8, <2>10, <2>11 DEF RunsUntouched, after
<1> QED
  BY <1>1, <1>2

--------------------------------------------------------------------------------
(***************************************************************************)
(* The steps.  First what all of one kind keep.                            *)
(***************************************************************************)
LEMMA StateFacts ==
  ASSUME IInv
  PROVE  /\ store \in Stores /\ Consistent(store) /\ Distinct(store)
         /\ SchedulesKept(store, lastClaim) /\ lastClaim \in Nat /\ day \in Nat
         /\ lastClaim <= day /\ nextId \in Nat \ {0} /\ drive \in [Ids -> Drives \cup {None}]
         /\ task \in Tasks \cup {None} /\ tick \in Ticks
BY DEF IInv, TypeOK, RunsInv, SchedulesInv, Consistent, ListKept

LEMMA RunFacts ==
  ASSUME IInv, NEW id \in RunIds(store)
  PROVE  /\ id \in Ids /\ RunOf(store, id) \in OrderedRuns /\ RunOf(store, id).id = id
         /\ RunOf(store, id) \in Runs(store)
BY StateFacts, RunOfIdentity, RunsAreOrdered

LEMMA DriveFacts ==
  ASSUME IInv, NEW id \in Ids, IsActive(id)
  PROVE  /\ id \in RunIds(store) /\ drive[id].run = RunOf(store, id)
         /\ RunOf(store, id).status = "RUNNING" /\ RunOf(store, id) \in OrderedRuns
         /\ RunOf(store, id).id = id /\ drive[id] \in Drives
         /\ drive[id].at = "EXECUTING" => RunOf(store, id).current # NoStep
         /\ drive[id].at = "COMPLETING" => RunOf(store, id).current = NoStep
BY RunFacts, StateFacts DEF IInv, DriveInv, RunWith, IsActive

LEMMA TaskKinds ==
  ASSUME IInv, task # None
  PROVE  /\ task.op \in {"START", "COMPLETE", "LOAD", "SCHEDULE"}
         /\ task.op = "START" =>
              /\ task.by \in {"OWNER", "TICK"} /\ task.id \in Ids /\ task.of \in Nat \ {0}
              /\ task.writes \in {"QUEUED", "STARTED"} /\ task.id < nextId
              /\ \A w \in {"QUEUED", "STARTED"} : [task EXCEPT !.writes = w].writes = w
              /\ \A w \in {"QUEUED", "STARTED"} : [task EXCEPT !.writes = w] \in Tasks
              /\ \A w \in {"QUEUED", "STARTED"} :
                    /\ [task EXCEPT !.writes = w].op = "START"
                    /\ [task EXCEPT !.writes = w].id = task.id
                    /\ [task EXCEPT !.writes = w].by = task.by
         /\ task.op = "COMPLETE" => task.id \in Ids
         /\ task.op = "SCHEDULE" =>
              /\ task.of \in Nat \ {0} /\ task.schedule \in Schedules
              /\ task.unmoved \in BOOLEAN
              /\ [task EXCEPT !.unmoved = FALSE] \in Tasks
              /\ [task EXCEPT !.unmoved = FALSE].op = "SCHEDULE"
              /\ [task EXCEPT !.unmoved = FALSE].of = task.of
              /\ [task EXCEPT !.unmoved = FALSE].schedule = task.schedule
              /\ [task EXCEPT !.unmoved = FALSE].unmoved = FALSE
<1>1. /\ task \in Tasks
      /\ task.op = "START" => task.id < nextId
  BY StateFacts DEF IInv, HandedOut
<1> QED
  BY <1>1 DEF Tasks

LEMMA TickForms ==
  ASSUME NEW t \in Ticks
  PROVE  /\ NoTick.at = "IDLE"
         /\ \/ t = NoTick
            \/ t \in [at : {"CLAIM"}, of : Nat \ {0}, run : Ids, due : Nat \ {0}, now : Nat]
            \/ t \in [at : {"START", "STARTING", "DRIVE", "ACKNOWLEDGE"}, of : Nat \ {0},
                     run : Ids, retained : BOOLEAN]
<1>1. NoTick.at = "IDLE"
  BY DEF NoTick
<1> QED
  BY <1>1 DEF Ticks

LEMMA TickKinds ==
  ASSUME IInv
  PROVE  /\ tick = NoTick \/ tick.at \in {"CLAIM", "START", "STARTING", "DRIVE", "ACKNOWLEDGE"}
         /\ NoTick.at = "IDLE"
         /\ tick # NoTick => tick.run \in Ids /\ tick.of \in Nat \ {0} /\ tick.run < nextId
         /\ tick.at = "CLAIM" => tick.now \in Nat /\ tick.now <= day
<1>1. /\ tick \in Ticks /\ (tick.at = "CLAIM" => tick.now <= day)
      /\ tick # NoTick => tick.run < nextId
  BY StateFacts DEF IInv, HandedOut, TypeOK
<1>2. CASE tick = NoTick
  <2>1. NoTick.at = "IDLE"
    BY <1>1, TickForms
  <2> QED
    BY <1>2, <2>1
<1>3. CASE tick # NoTick
  <2>1. \/ tick \in [at : {"CLAIM"}, of : Nat \ {0}, run : Ids, due : Nat \ {0}, now : Nat]
        \/ tick \in [at : {"START", "STARTING", "DRIVE", "ACKNOWLEDGE"}, of : Nat \ {0},
                     run : Ids, retained : BOOLEAN]
    BY <1>1, <1>3, TickForms
  <2>2. NoTick.at = "IDLE"
    BY <1>1, TickForms
  <2>3. /\ tick.at \in {"CLAIM", "START", "STARTING", "DRIVE", "ACKNOWLEDGE"}
        /\ tick.run \in Ids /\ tick.of \in Nat \ {0}
        /\ tick.at = "CLAIM" => tick.now \in Nat
    BY <2>1
  <2> QED
    BY <1>1, <1>3, <2>2, <2>3
<1> QED
  BY <1>2, <1>3

\* What a step must leave of the tick.
TickKept ==
  /\ tick' \in Ticks /\ (tick'.at = "CLAIM" => tick'.now <= day')
  /\ tick' # NoTick => tick'.run < nextId'

LEMMA TickMoves ==
  ASSUME IInv, day' = day, nextId' = nextId,
         \/ tick' = tick \/ tick' = NoTick
         \/ /\ tick.at \in {"START", "STARTING", "DRIVE"}
            /\ \E at \in {"STARTING", "DRIVE", "ACKNOWLEDGE"} : tick' = [tick EXCEPT !.at = at]
  PROVE  TickKept
<1>1. /\ tick \in Ticks /\ (tick.at = "CLAIM" => tick.now <= day)
      /\ tick # NoTick => tick.run < nextId
  BY StateFacts DEF IInv, HandedOut, TypeOK
<1>2. CASE tick' = tick
  BY <1>1, <1>2 DEF TickKept
<1>3. CASE tick' = NoTick
  BY <1>3 DEF TickKept, Ticks, NoTick
<1>4. ASSUME tick.at \in {"START", "STARTING", "DRIVE"},
             NEW at \in {"STARTING", "DRIVE", "ACKNOWLEDGE"}, tick' = [tick EXCEPT !.at = at]
      PROVE  TickKept
  <2>1. tick \in [at : {"START", "STARTING", "DRIVE", "ACKNOWLEDGE"}, of : Nat \ {0},
                  run : Ids, retained : BOOLEAN]
    <3>1. tick # NoTick /\ tick.at # "CLAIM"
      BY <1>1, <1>4, TickForms
    <3> QED
      BY <1>1, <3>1, TickForms
  <2>2. /\ tick' \in [at : {"START", "STARTING", "DRIVE", "ACKNOWLEDGE"}, of : Nat \ {0},
                      run : Ids, retained : BOOLEAN]
        /\ tick'.at = at /\ tick'.run = tick.run
    BY <1>4, <2>1
  <2>3. tick # NoTick
    BY <1>4 DEF NoTick
  <2> QED
    BY <1>1, <2>2, <2>3 DEF TickKept, Ticks
<1> QED
  BY <1>2, <1>3, <1>4

\* The parts of the invariant, as a step must leave them.
FileKept ==
  /\ store' \in Stores /\ day' \in Nat /\ nextId' \in Nat \ {0} /\ lastClaim' \in Nat
  /\ RunsInv' /\ SchedulesInv'
  /\ \A r \in Runs(store') : r.id < nextId'
  /\ \A s \in store'.schedules : s.pending # None => s.pending.run < nextId'
TaskKept ==
  /\ task' \in Tasks \cup {None} /\ TaskInv'
  /\ task' # None /\ task'.op = "START" => task'.id < nextId'
DrivesKept == drive' \in [Ids -> Drives \cup {None}] /\ DriveInv'

LEMMA Assembled ==
  ASSUME FileKept, TaskKept, TickKept, DrivesKept, RunningIsAttended'
  PROVE  IInv'
<1>1. TypeOK'
  BY DEF FileKept, TaskKept, TickKept, DrivesKept, TypeOK
<1>2. HandedOut'
  BY DEF FileKept, TaskKept, TickKept, HandedOut
<1> QED
  BY <1>1, <1>2 DEF FileKept, TaskKept, DrivesKept, IInv

\* The file as it was.
LEMMA FileStands ==
  ASSUME IInv, store' = store, lastClaim' = lastClaim, day' \in Nat, day <= day',
         nextId' \in Nat \ {0}, nextId <= nextId'
  PROVE  FileKept
<1>1. /\ \A r \in Runs(store) : r.id < nextId /\ r.id \in Nat
      /\ \A s \in store.schedules : s.pending # None =>
           s.pending.run < nextId /\ s.pending.run \in Nat
  <2>1. \A r \in Runs(store) : r.id \in Ids
    BY StateFacts, RunsAreOrdered, RunFields
  <2>2. \A s \in store.schedules : s.pending # None => s.pending.run \in Ids
    BY StateFacts, StoreFields, ScheduleFields
  <2> QED
    BY <2>1, <2>2, IdsAssumption DEF IInv, HandedOut
<1>2. nextId \in Nat /\ nextId' \in Nat /\ lastClaim \in Nat /\ day \in Nat /\ lastClaim <= day
  BY StateFacts
<1>3. /\ \A r \in Runs(store) : r.id < nextId'
      /\ \A s \in store.schedules : s.pending # None => s.pending.run < nextId'
  BY <1>1, <1>2
<1>4. lastClaim <= day'
  BY <1>2
<1>5. RunsInv /\ SchedulesInv /\ store \in Stores
  BY StateFacts DEF IInv
<1>6. RunsInv' /\ SchedulesInv'
  BY <1>4, <1>5 DEF RunsInv, SchedulesInv
<1> QED
  BY <1>2, <1>3, <1>5, <1>6 DEF FileKept

\* The file after the write of a run that is there.
LEMMA FileRewritten ==
  ASSUME IInv, NEW run, Rewrites(store, store', run), lastClaim' = lastClaim, day' = day,
         nextId' = nextId
  PROVE  FileKept
<1>1. /\ store' \in Stores /\ Consistent(store') /\ store'.schedules = store.schedules
      /\ LatestRevision(store') = LatestRevision(store) /\ RunIds(store') = RunIds(store)
      /\ store'.rituals = store.rituals
  BY DEF Rewrites, LatestRevision
<1>2. SchedulesInv'
  BY <1>1, StateFacts DEF SchedulesInv, SchedulesKept
<1>3. \A r \in Runs(store') : r.id < nextId'
  <2>1. \A r \in Runs(store') : r.id \in RunIds(store')
    BY DEF RunIds, Runs
  <2>2. \A id \in RunIds(store) : id < nextId
    BY RunFacts DEF IInv, HandedOut
  <2> QED
    BY <1>1, <2>1, <2>2
<1>4. \A s \in store'.schedules : s.pending # None => s.pending.run < nextId'
  BY <1>1 DEF IInv, HandedOut
<1> QED
  BY <1>1, <1>2, <1>3, <1>4, StateFacts DEF RunsInv, FileKept

\* A drive is given the run that was written, or is over.
LEMMA DriveRewritten ==
  ASSUME IInv, NEW run, Rewrites(store, store', run),
         \/ drive' = [drive EXCEPT ![run.id] = None]
         \/ /\ run.status = "RUNNING"
            /\ drive' = [drive EXCEPT ![run.id] =
                  [at |-> IF run.current = NoStep THEN "COMPLETING" ELSE "EXECUTING",
                   run |-> run]]
  PROVE  /\ DrivesKept
         /\ \A id \in Ids : id # run.id => drive'[id] = drive[id]
<1>1. /\ run.id \in RunIds(store) /\ RunIds(store') = RunIds(store)
      /\ RunOf(store', run.id) = run
      /\ \A id \in RunIds(store) : id # run.id => RunOf(store', id) = RunOf(store, id)
      /\ drive \in [Ids -> Drives \cup {None}] /\ run.id \in Ids
  BY StateFacts, RunFacts DEF Rewrites
<1>2. run \in OrderedRuns
  <2>1. store' \in Stores /\ Distinct(store') /\ run.id \in RunIds(store')
    BY <1>1 DEF Rewrites, Consistent, ListKept
  <2>2. RunOf(store', run.id) \in Runs(store')
    BY <2>1, RunOfIdentity
  <2> QED
    BY <1>1, <2>1, <2>2, RunsAreOrdered
<1> DEFINE at == IF run.current = NoStep THEN "COMPLETING" ELSE "EXECUTING"
           given == [at |-> at, run |-> run]
<1>3. given \in Drives /\ given.at = at /\ given.run = run
  BY <1>2, RunFields DEF Drives
<1>4. /\ drive' \in [Ids -> Drives \cup {None}]
      /\ \A id \in Ids : id # run.id => drive'[id] = drive[id]
      /\ drive'[run.id] = None \/ (run.status = "RUNNING" /\ drive'[run.id] = given)
  BY <1>1, <1>3
<1>5. ASSUME NEW id \in Ids, drive'[id] # None
      PROVE  /\ id \in RunIds(store') /\ drive'[id].run = RunOf(store', id)
             /\ RunOf(store', id).status = "RUNNING"
             /\ drive'[id].at = "EXECUTING" => RunOf(store', id).current # NoStep
             /\ drive'[id].at = "COMPLETING" => RunOf(store', id).current = NoStep
  <2>1. CASE id = run.id
    BY <1>1, <1>3, <1>4, <1>5, <2>1
  <2>2. CASE id # run.id
    <3>1. drive[id] # None /\ drive'[id] = drive[id]
      BY <1>4, <1>5, <2>2
    <3>2. /\ id \in RunIds(store) /\ drive[id].run = RunOf(store, id)
          /\ RunOf(store, id).status = "RUNNING"
          /\ drive[id].at = "EXECUTING" => RunOf(store, id).current # NoStep
          /\ drive[id].at = "COMPLETING" => RunOf(store, id).current = NoStep
      BY <3>1, DriveFacts DEF IsActive
    <3> QED
      BY <1>1, <2>2, <3>1, <3>2
  <2> QED
    BY <2>1, <2>2
<1>6. DriveInv'
  BY <1>5 DEF DriveInv, IsActive, RunWith
<1> QED
  BY <1>4, <1>6 DEF DrivesKept

\* Nobody else's run is stranded by the write of one.
LEMMA RewriteAttended ==
  ASSUME IInv, NEW run, Rewrites(store, store', run),
         \A id \in Ids : id # run.id => drive'[id] = drive[id],
         \A id \in lost : id # run.id => id \in lost',
         task' = task \/ task = None \/ task.op # "START" \/ task.id = run.id,
         run.status \in {"QUEUED", "RUNNING"} => drive'[run.id] # None
  PROVE  RunningIsAttended'
<1> SUFFICES ASSUME NEW id \in RunIds(store'),
                    RunOf(store', id).status \in {"QUEUED", "RUNNING"}
             PROVE  \/ drive'[id] # None \/ id \in lost'
                    \/ task' # None /\ task'.op = "START" /\ task'.id = id
  BY DEF RunningIsAttended, Unattended, IsActive
<1>1. /\ id \in RunIds(store) /\ RunOf(store', run.id) = run
      /\ id # run.id => RunOf(store', id) = RunOf(store, id)
  BY DEF Rewrites
<1>2. CASE id = run.id
  BY <1>1, <1>2
<1>3. CASE id # run.id
  <2>1. id \in Unattended /\ id \in Ids
    BY <1>1, <1>3, RunFacts DEF Unattended
  <2>2. \/ drive[id] # None \/ id \in lost
        \/ task # None /\ task.op = "START" /\ task.id = id
    BY <2>1 DEF IInv, RunningIsAttended, IsActive
  <2> QED
    BY <1>3, <2>1, <2>2
<1> QED
  BY <1>2, <1>3

\* The drives when the file stands and at most one of them ends.
LEMMA DriveEnded ==
  ASSUME IInv, store' = store, NEW id \in Ids, drive' = [drive EXCEPT ![id] = None]
  PROVE  /\ DrivesKept
         /\ drive'[id] = None
         /\ \A i \in Ids : i # id => drive'[i] = drive[i]
<1>1. /\ drive' \in [Ids -> Drives \cup {None}]
      /\ drive'[id] = None
      /\ \A i \in Ids : i # id => drive'[i] = drive[i]
  BY StateFacts
<1>2. DriveInv'
  BY <1>1 DEF IInv, DriveInv, IsActive, RunWith
<1> QED
  BY <1>1, <1>2 DEF DrivesKept

\* An operation on schedules or revisions, and a step that writes nothing, leave the
\* runs as they are.
LEMMA SameRuns ==
  ASSUME NEW before, NEW after, after.runs = before.runs
  PROVE  /\ Runs(after) = Runs(before) /\ RunIds(after) = RunIds(before)
         /\ \A id : RunOf(after, id) = RunOf(before, id)
         /\ \A of : OpenRuns(after, of) = OpenRuns(before, of)
BY DEF Runs, RunIds, RunOf, OpenRuns

LEMMA DrivesStand ==
  ASSUME IInv, store'.runs = store.runs, drive' = drive
  PROVE  DrivesKept
BY SameRuns, StateFacts DEF IInv, DriveInv, DrivesKept, IsActive, RunWith

LEMMA AttendedStands ==
  ASSUME IInv, store'.runs = store.runs,
         \A id \in RunIds(store) : drive[id] # None =>
            \/ drive'[id] # None \/ id \in lost'
            \/ RunOf(store, id).status \notin {"QUEUED", "RUNNING"},
         \A id \in RunIds(store) : id \in lost => id \in lost' \/ drive'[id] # None,
         task # None /\ task.op = "START" =>
            \/ task' # None /\ task'.op = "START" /\ task'.id = task.id
            \/ task.id \in lost' \/ task.id \notin RunIds(store)
            \/ drive'[task.id] # None
  PROVE  RunningIsAttended'
<1> SUFFICES ASSUME NEW id \in RunIds(store'),
                    RunOf(store', id).status \in {"QUEUED", "RUNNING"}
             PROVE  \/ drive'[id] # None \/ id \in lost'
                    \/ task' # None /\ task'.op = "START" /\ task'.id = id
  BY DEF RunningIsAttended, Unattended, IsActive
<1>1. id \in RunIds(store) /\ RunOf(store', id) = RunOf(store, id)
  BY SameRuns
<1>2. id \in Unattended
  BY <1>1 DEF Unattended
<1>3. \/ drive[id] # None \/ id \in lost
      \/ task # None /\ task.op = "START" /\ task.id = id
  BY <1>2 DEF IInv, RunningIsAttended, IsActive
<1> QED
  BY <1>1, <1>3

LEMMA OpenIsLost ==
  ASSUME NEW ids, LoseIfOpen(ids)
  PROVE  /\ \A id \in lost : id \in lost'
         /\ \A id \in ids : id \in RunIds(store)
              /\ RunOf(store, id).status \in {"QUEUED", "RUNNING"} => id \in lost'
BY DEF LoseIfOpen, IsTerminal, TerminalStatuses

(***************************************************************************)
(* What the operation in service has read still holds.                     *)
(***************************************************************************)
LEMMA TaskGone == task' = None => TaskKept
BY DEF TaskKept, TaskInv

LEMMA TaskStands ==
  ASSUME IInv, store' = store, task' = task, lastClaim' = lastClaim, nextId' \in Nat,
         nextId <= nextId', tick' = tick \/ tick.at # "STARTING",
         \A id \in Ids : drive[id] # None /\ drive[id].at = "COMPLETING"
                           => drive'[id] = drive[id]
  PROVE  TaskKept
<1>1. task # None /\ task.op = "COMPLETE" => drive'[task.id] = drive[task.id]
  BY TaskKinds DEF IInv, TaskInv, IsActive
<1>2. TaskInv'
  BY <1>1 DEF IInv, TaskInv, IsActive, RunWith
<1>3. task # None /\ task.op = "START" => task.id < nextId'
  BY TaskKinds, StateFacts, IdsAssumption
<1> QED
  BY <1>2, <1>3, StateFacts DEF TaskKept

LEMMA TaskOverRewrite ==
  ASSUME IInv, NEW run, Rewrites(store, store', run), task' = task, lastClaim' = lastClaim,
         nextId' = nextId, RunOf(store, run.id).status # "QUEUED",
         tick' = tick \/ tick.at # "STARTING",
         \A id \in Ids : drive[id] # None /\ drive[id].at = "COMPLETING"
                           => drive'[id] = drive[id]
  PROVE  TaskKept
<1>1. /\ RunIds(store') = RunIds(store) /\ LatestRevision(store') = LatestRevision(store)
      /\ RunOf(store', run.id) = run /\ RunOf(store, run.id).of = run.of
      /\ ~IsTerminal(RunOf(store, run.id)) /\ run.id \in RunIds(store)
      /\ \A id \in RunIds(store) : id # run.id => RunOf(store', id) = RunOf(store, id)
      /\ store' \in Stores /\ Distinct(store')
  BY DEF Rewrites, LatestRevision, Consistent, ListKept
<1>2. ASSUME NEW of, OpenRuns(store, of) = {}
      PROVE  OpenRuns(store', of) = {}
  <2> SUFFICES ASSUME NEW r \in Runs(store'), r.of = of, ~IsTerminal(r)
               PROVE  FALSE
    BY DEF OpenRuns, Runs
  <2>1. r.id \in RunIds(store') /\ RunOf(store', r.id) = r
    BY <1>1, RunOfIdentity
  <2>2. CASE r.id = run.id
    <3>1. RunOf(store, run.id) \in Runs(store) /\ RunOf(store, run.id).of = of
      BY <1>1, <2>1, <2>2, RunFacts
    <3> QED
      BY <1>1, <1>2, <3>1 DEF OpenRuns, Runs
  <2>3. CASE r.id # run.id
    <3>1. r \in Runs(store)
      BY <1>1, <2>1, <2>3, RunFacts
    <3> QED
      BY <1>2, <3>1 DEF OpenRuns, Runs
  <2> QED
    BY <2>2, <2>3
<1>3. task # None /\ task.op = "COMPLETE" => drive'[task.id] = drive[task.id]
  BY TaskKinds DEF IInv, TaskInv, IsActive
<1>4. task # None /\ task.op = "START" =>
        /\ task.writes = "QUEUED" =>
             task.id \notin RunIds(store') /\ OpenRuns(store', task.of) = {}
        /\ task.writes = "STARTED" =>
             task.id \in RunIds(store') /\ RunOf(store', task.id).status = "QUEUED"
        /\ task.by = "TICK" => tick'.at = "STARTING"
  BY <1>1, <1>2 DEF IInv, TaskInv, RunWith
<1>5. task # None /\ task.op = "LOAD" =>
        /\ task.run.id \in RunIds(store')
        /\ RunOf(store', task.run.id).of = task.run.of
  BY <1>1 DEF IInv, TaskInv, RunWith
<1>6. TaskInv'
  BY <1>1, <1>3, <1>4, <1>5 DEF IInv, TaskInv, RunWith, IsActive
<1> QED
  BY <1>6, TaskKinds, StateFacts DEF TaskKept

LEMMA TaskOverSchedules ==
  ASSUME IInv, store'.runs = store.runs, drive' = drive, nextId' = nextId,
         tick' = tick \/ tick.at # "STARTING",
         \/ task' = task
         \/ task # None /\ task.op = "SCHEDULE" /\ task' = [task EXCEPT !.unmoved = FALSE],
         LatestRevision(store') \in Nat, LatestRevision(store) <= LatestRevision(store'),
         task' = task /\ task # None /\ task.op = "SCHEDULE" /\ task.unmoved
           /\ task.of = LatestRevision(store') /\ task.schedule.state = "ENABLED"
           => task.schedule.next > lastClaim'
  PROVE  TaskKept
<1>1. /\ RunIds(store') = RunIds(store)
      /\ \A id : RunOf(store', id) = RunOf(store, id)
      /\ \A of : OpenRuns(store', of) = OpenRuns(store, of)
  BY SameRuns
<1>2. LatestRevision(store) \in Nat
  BY StateFacts, StoreFields DEF LatestRevision
<1>3. CASE task = None
  BY <1>3, TaskGone
<1>4. CASE task' = task /\ task # None
  <2>1. task.op = "SCHEDULE" => task.of <= LatestRevision(store')
    BY <1>2, <1>4, TaskKinds DEF IInv, TaskInv
  <2>2. task.op = "START" =>
          /\ task.writes = "QUEUED" =>
               task.id \notin RunIds(store') /\ OpenRuns(store', task.of) = {}
          /\ task.writes = "STARTED" =>
               task.id \in RunIds(store') /\ RunOf(store', task.id).status = "QUEUED"
          /\ task.by = "TICK" => tick'.at = "STARTING"
    BY <1>1, <1>4 DEF IInv, TaskInv, RunWith
  <2>3. TaskInv'
    BY <1>1, <1>4, <2>1, <2>2 DEF IInv, TaskInv, RunWith, IsActive
  <2> QED
    BY <1>4, <2>3, TaskKinds, StateFacts DEF TaskKept
<1>5. CASE /\ task # None /\ task.op = "SCHEDULE"
           /\ task' = [task EXCEPT !.unmoved = FALSE]
  <2>1. /\ task' \in Tasks /\ task'.op = "SCHEDULE" /\ task'.of = task.of
        /\ task'.schedule = task.schedule /\ task'.unmoved = FALSE
    BY <1>5, TaskKinds
  <2>2. /\ task.of = task.schedule.of /\ task.of <= LatestRevision(store')
        /\ task.schedule.pending = None
    BY <1>2, <1>5, TaskKinds DEF IInv, TaskInv
  <2>3. TaskInv'
    BY <2>1, <2>2 DEF TaskInv
  <2> QED
    BY <2>1, <2>3 DEF TaskKept
<1> QED
  BY <1>3, <1>4, <1>5

\* Steps that touch none of what the invariant speaks of.
LEMMA IdleStep ==
  ASSUME IInv, UNCHANGED <<store, nextId, lastClaim, task, tick, drive, lost>>,
         day' = day \/ day' = day + 1
  PROVE  IInv'
<1>1. day' \in Nat /\ day <= day' /\ nextId \in Nat \ {0}
  BY StateFacts
<1>2. FileKept
  BY <1>1, StateFacts, FileStands
<1>3. TickKept
  BY <1>1, TickKinds, StateFacts DEF TickKept
<1>4. TaskKept
  BY <1>1, TaskStands
<1>5. DrivesKept
  BY DrivesStand
<1>6. RunningIsAttended'
  BY DEF IInv, RunningIsAttended, IsActive, RunWith, Unattended
<1> QED
  BY <1>2, <1>3, <1>4, <1>5, <1>6, Assembled

--------------------------------------------------------------------------------
(***************************************************************************)
(* The scheduler's tick.                                                   *)
(***************************************************************************)
LEMMA TickBeginsKeeps ==
  ASSUME IInv, TickBegins
  PROVE  IInv'
<1>1. /\ UNCHANGED <<store, day, task, drive, lost, lastClaim>>
      /\ nextId' = nextId \/ nextId' = nextId + 1
      /\ tick = NoTick /\ nextId \in Nat \ {0}
  BY StateFacts DEF TickBegins
<1>2. FileKept
  BY <1>1, StateFacts, FileStands
<1>3. TaskKept
  BY <1>1, TickKinds, TaskStands
<1>4. DrivesKept /\ RunningIsAttended'
  BY <1>1, DrivesStand, AttendedStands
<1>5. TickKept
  <2>1. ASSUME NEW s \in Pending, nextId' = nextId,
               tick' = [at |-> "START", of |-> s.of, run |-> s.pending.run, retained |-> TRUE]
        PROVE  TickKept
    <3>1. s \in Schedules /\ s.pending # None /\ s.pending.run < nextId
      BY StateFacts, StoreFields DEF Pending, EnabledSchedules, IInv, HandedOut
    <3> QED
      BY <2>1, <3>1, ScheduleFields DEF TickKept, Ticks
  <2>2. ASSUME NEW s \in Due, nextId \in Ids, nextId' = nextId + 1,
               tick' = [at |-> "CLAIM", of |-> s.of, run |-> nextId, due |-> s.next,
                        now |-> day]
        PROVE  TickKept
    <3>1. s \in Schedules
      BY StateFacts, StoreFields DEF Due, EnabledSchedules
    <3>2. day \in Nat /\ day <= day /\ nextId < nextId' /\ day' = day
      BY <1>1, <2>2, StateFacts
    <3> QED
      BY <2>2, <3>1, <3>2, ScheduleFields DEF TickKept, Ticks
  <2> QED
    BY <2>1, <2>2 DEF TickBegins
<1> QED
  BY <1>2, <1>3, <1>4, <1>5, Assembled

\* What the claim of an occurrence does to the schedules of the file.
LEMMA ClaimFacts ==
  ASSUME IInv, tick.at = "CLAIM", ClaimOccurrence(store, tick) # store
  PROVE  LET after == ClaimOccurrence(store, tick)
             due == ScheduleOf(after, tick.of).pending.due
         IN  /\ RunsUntouched(store, after) /\ after.rituals = store.rituals
             /\ tick.of = LatestRevision(store)
             /\ ScheduleOf(after, tick.of).pending.run = tick.run
             /\ due \in Nat /\ due > lastClaim /\ due <= day
             /\ SchedulesKept(after, due) /\ SchedulesKept(after, lastClaim)
             /\ \A s \in after.schedules : s.pending # None => s.pending.run < nextId
<1> DEFINE after == ClaimOccurrence(store, tick)
           due == ScheduleOf(after, tick.of).pending.due
<1>1. /\ store \in Stores /\ SchedulesKept(store, lastClaim)
      /\ lastClaim \in Nat /\ day \in Nat
      /\ tick # NoTick /\ tick.run \in Ids /\ tick.run < nextId
      /\ tick.now \in Nat /\ tick.now <= day
  BY StateFacts, TickKinds
<1>2. /\ RunsUntouched(store, after) /\ after.rituals = store.rituals
      /\ tick.of = LatestRevision(store)
      /\ ScheduleOf(after, tick.of).pending.run = tick.run
      /\ due \in Nat /\ due > lastClaim /\ due <= tick.now
      /\ SchedulesKept(after, due)
      /\ \A s \in after.schedules : s.pending # None =>
           \/ \E t \in store.schedules : t.pending = s.pending
           \/ s.pending.run = tick.run
  BY <1>1, ClaimKeeps
<1> HIDE DEF after, due
<1>3. due <= day
  BY <1>1, <1>2
<1>4. SchedulesKept(after, lastClaim)
  <2>1. \A s \in after.schedules : s.next \in Nat
    BY <1>2, StoreFields, ScheduleFields DEF RunsUntouched
  <2> QED
    BY <1>1, <1>2, <2>1 DEF SchedulesKept
<1>5. \A s \in after.schedules : s.pending # None => s.pending.run < nextId
  BY <1>1, <1>2 DEF IInv, HandedOut
<1> QED
  BY <1>2, <1>3, <1>4, <1>5 DEF after, due

LEMMA TickClaimsKeeps ==
  ASSUME IInv, TickClaims
  PROVE  IInv'
<1> DEFINE after == ClaimOccurrence(store, tick)
           schedule == ScheduleOf(after, tick.of)
<1>1. /\ tick.at = "CLAIM" /\ UNCHANGED <<day, drive, nextId, lost>> /\ store' = after
      /\ \/ tick' = NoTick /\ lastClaim' = lastClaim
         \/ /\ after # store /\ lastClaim' = schedule.pending.due
            /\ tick' = [at |-> "START", of |-> tick.of, run |-> schedule.pending.run,
                        retained |-> FALSE]
      /\ IF after = store THEN UNCHANGED task ELSE MarkMoved(tick.of)
  BY DEF TickClaims
<1>2. /\ tick # NoTick /\ tick.run \in Ids /\ tick.of \in Nat \ {0} /\ tick.run < nextId
      /\ lastClaim \in Nat /\ day \in Nat /\ nextId \in Nat \ {0} /\ lastClaim <= day
  BY <1>1, TickKinds, StateFacts
<1>3. CASE after = store
  <2> HIDE DEF after, schedule
  <2>1. UNCHANGED <<store, task, lastClaim>> /\ tick' = NoTick
    BY <1>1, <1>3
  <2>2. FileKept /\ TickKept
    BY <1>1, <1>2, <2>1, FileStands, TickMoves
  <2>3. TaskKept
    BY <1>1, <1>2, <2>1, TaskStands
  <2>4. DrivesKept /\ RunningIsAttended'
    BY <1>1, <2>1, DrivesStand, AttendedStands
  <2> QED
    BY <2>2, <2>3, <2>4, Assembled
<1>4. CASE after # store
  <2> DEFINE due == schedule.pending.due
  <2>1. /\ RunsUntouched(store, after) /\ after.rituals = store.rituals
        /\ tick.of = LatestRevision(store) /\ schedule.pending.run = tick.run
        /\ due \in Nat /\ due > lastClaim /\ due <= day
        /\ SchedulesKept(after, due) /\ SchedulesKept(after, lastClaim)
        /\ \A s \in after.schedules : s.pending # None => s.pending.run < nextId
    BY <1>1, <1>4, ClaimFacts
  <2> HIDE DEF after, schedule
  <2>2. store' = after /\ store'.runs = store.runs /\ store'.runReceipts = store.runReceipts
        /\ store' \in Stores /\ store'.rituals = store.rituals
    BY <1>1, <2>1 DEF RunsUntouched
  <2>3. /\ lastClaim' \in Nat /\ lastClaim' <= day /\ SchedulesKept(store', lastClaim')
    BY <1>1, <1>2, <2>1
  <2>4. FileKept
    <3>1. Runs(store') = Runs(store) /\ RunsInv'
      BY <2>2, SameRuns, StateFacts
         DEF RunsInv, Consistent, ListKept, ReceiptsMatch, OpenIsAlone, Distinct
    <3>2. SchedulesInv'
      BY <1>1, <2>3 DEF SchedulesInv
    <3> QED
      BY <1>1, <1>2, <2>1, <2>2, <2>3, <3>1, <3>2 DEF FileKept, IInv, HandedOut
  <2>5. TickKept
    <3>1. CASE tick' = NoTick
      BY <1>1, <3>1, TickMoves
    <3>2. CASE tick' = [at |-> "START", of |-> tick.of, run |-> tick.run,
                        retained |-> FALSE]
      BY <1>1, <1>2, <3>2 DEF TickKept, Ticks
    <3> QED
      BY <1>1, <2>1, <3>1, <3>2
  <2>6. TaskKept
    <3>1. /\ LatestRevision(store') = LatestRevision(store) /\ LatestRevision(store) \in Nat
      BY <2>2, StateFacts, StoreFields DEF LatestRevision
    <3>2. \/ task' = task /\ ~(task # None /\ task.op = "SCHEDULE"
                               /\ task.of = LatestRevision(store))
          \/ task # None /\ task.op = "SCHEDULE" /\ task' = [task EXCEPT !.unmoved = FALSE]
      BY <1>1, <1>4, <2>1 DEF MarkMoved
    <3>3. ~(task' = task /\ task # None /\ task.op = "SCHEDULE" /\ task.unmoved
              /\ task.of = LatestRevision(store'))
      BY <3>1, <3>2, TaskKinds
    <3> QED
      BY <1>1, <2>2, <3>1, <3>2, <3>3, TaskOverSchedules
  <2>7. DrivesKept
    BY <1>1, <2>2, DrivesStand
  <2>8. RunningIsAttended'
    <3>1. task # None /\ task.op = "START" => task' = task
      BY <1>1, <1>4 DEF MarkMoved
    <3> QED
      BY <1>1, <2>2, <3>1, AttendedStands
  <2> QED
    BY <2>4, <2>5, <2>6, <2>7, <2>8, Assembled
<1> QED
  BY <1>3, <1>4

\* The runs of the file when only schedules or revisions are written.
LEMMA FileOverSchedules ==
  ASSUME IInv, RunsUntouched(store, store'), SchedulesKept(store', lastClaim),
         PendingFrom(store, store'), UNCHANGED <<day, nextId, lastClaim>>
  PROVE  FileKept
<1>1. store'.runs = store.runs /\ store'.runReceipts = store.runReceipts /\ store' \in Stores
  BY DEF RunsUntouched
<1>2. Runs(store') = Runs(store) /\ RunsInv'
  BY <1>1, SameRuns, StateFacts
     DEF RunsInv, Consistent, ListKept, ReceiptsMatch, OpenIsAlone, Distinct
<1>3. SchedulesInv'
  BY StateFacts DEF SchedulesInv
<1>4. \A s \in store'.schedules : s.pending # None => s.pending.run < nextId'
  BY DEF PendingFrom, IInv, HandedOut
<1> QED
  BY <1>1, <1>2, <1>3, <1>4, StateFacts DEF FileKept, IInv, HandedOut

LEMMA TickAcknowledgesKeeps ==
  ASSUME IInv, TickAcknowledges
  PROVE  IInv'
<1>1. /\ tick.at = "ACKNOWLEDGE" /\ store' = Acknowledge(store, tick.run) /\ tick' = NoTick
      /\ UNCHANGED <<day, drive, nextId, lost, lastClaim>>
      /\ task' = task \/ MarkMoved(tick.of)
  BY DEF TickAcknowledges
<1>2. /\ RunsUntouched(store, store') /\ store'.rituals = store.rituals
      /\ SchedulesKept(store', lastClaim) /\ PendingFrom(store, store')
  BY <1>1, StateFacts, AcknowledgeKeeps
<1>3. store'.runs = store.runs
  BY <1>2 DEF RunsUntouched
<1>4. FileKept
  BY <1>1, <1>2, FileOverSchedules
<1>5. TickKept
  BY <1>1, TickMoves
<1>6. \/ task' = task
      \/ task # None /\ task.op = "SCHEDULE" /\ task' = [task EXCEPT !.unmoved = FALSE]
  BY <1>1 DEF MarkMoved
<1>7. TaskKept
  <2>1. LatestRevision(store') = LatestRevision(store) /\ LatestRevision(store) \in Nat
    BY <1>2, StateFacts, StoreFields DEF LatestRevision
  <2>2. task # None /\ task.op = "SCHEDULE" /\ task.unmoved
          /\ task.of = LatestRevision(store) /\ task.schedule.state = "ENABLED"
          => task.schedule.next > lastClaim
    BY DEF IInv, TaskInv
  <2> QED
    BY <1>1, <1>3, <1>6, <2>1, <2>2, TaskOverSchedules
<1>8. DrivesKept
  BY <1>1, <1>3, DrivesStand
<1>9. RunningIsAttended'
  BY <1>1, <1>3, <1>6, AttendedStands
<1> QED
  BY <1>4, <1>5, <1>7, <1>8, <1>9, Assembled

LEMMA TickFailsKeeps ==
  ASSUME IInv, TickFails
  PROVE  IInv'
<1>1. /\ tick.at \in {"CLAIM", "ACKNOWLEDGE"} /\ tick' = NoTick
      /\ UNCHANGED <<store, day, task, drive, nextId, lost, lastClaim>>
  BY DEF TickFails
<1>2. FileKept /\ TickKept
  BY <1>1, StateFacts, FileStands, TickMoves
<1>3. TaskKept
  BY <1>1, StateFacts, TaskStands
<1>4. DrivesKept /\ RunningIsAttended'
  BY <1>1, DrivesStand, AttendedStands
<1> QED
  BY <1>2, <1>3, <1>4, Assembled

--------------------------------------------------------------------------------
(***************************************************************************)
(* Runs that are taken up and runs that are let go.                        *)
(***************************************************************************)
LEMMA StartTaskFields ==
  ASSUME NEW by \in {"OWNER", "TICK"}, NEW id \in Ids, NEW of \in Nat \ {0},
         NEW writes \in {"QUEUED", "STARTED"}
  PROVE  LET t == StartTask(by, id, of, writes) IN
         /\ t \in Tasks /\ t # None /\ t.op = "START" /\ t.by = by /\ t.id = id
         /\ t.of = of /\ t.writes = writes
<1> DEFINE t == StartTask(by, id, of, writes)
<1>1. /\ t \in Tasks /\ t.op = "START" /\ t.by = by /\ t.id = id
      /\ t.of = of /\ t.writes = writes
  BY DEF StartTask, Tasks
<1> QED
  BY <1>1, NoneAssumption

LEMMA TickRecord ==
  ASSUME IInv, tick.at \in {"START", "STARTING", "DRIVE"},
         NEW at \in {"STARTING", "DRIVE", "ACKNOWLEDGE"}
  PROVE  [tick EXCEPT !.at = at].at = at
<1>1. tick \in Ticks /\ tick # NoTick /\ tick.at # "CLAIM"
  BY StateFacts, TickForms
<1>2. tick \in [at : {"START", "STARTING", "DRIVE", "ACKNOWLEDGE"}, of : Nat \ {0},
                run : Ids, retained : BOOLEAN]
  BY <1>1, TickForms
<1> QED
  BY <1>2

\* An activated run has a drive.
LEMMA DriveTaken ==
  ASSUME IInv, NEW run \in OrderedRuns, Activate(run)
  PROVE  /\ drive' \in [Ids -> Drives \cup {None}] /\ drive'[run.id] # None
         /\ drive'[run.id].run = run
         /\ drive'[run.id].at = IF run.current = NoStep THEN "COMPLETING" ELSE "EXECUTING"
         /\ \A id \in Ids : id # run.id => drive'[id] = drive[id]
         /\ \A id \in lost : id # run.id => id \in lost'
<1> DEFINE at == IF run.current = NoStep THEN "COMPLETING" ELSE "EXECUTING"
           given == [at |-> at, run |-> run]
<1>1. given \in Drives /\ given.at = at /\ given.run = run /\ run.id \in Ids
  BY RunFields DEF Drives, OrderedRuns
<1>2. given # None
  BY <1>1, NoneAssumption
<1>3. drive' = [drive EXCEPT ![run.id] = given] /\ lost' = lost \ {run.id}
  BY DEF Activate
<1> HIDE DEF given
<1> QED
  BY <1>1, <1>2, <1>3, StateFacts

LEMMA RunTakenUp ==
  ASSUME IInv, NEW id \in RunIds(store), NEW next, Succeeds(RunOf(store, id), next),
         SaveRun(store, next).ok, store' = SaveRun(store, next).store,
         next.status = "RUNNING", Activate(next), task' = None, TickKept,
         task # None /\ task.op = "START" => task.id = id,
         UNCHANGED <<day, nextId, lastClaim>>
  PROVE  IInv'
<1>1. next.id = id /\ Rewrites(store, store', next) /\ next \in OrderedRuns
  BY StateFacts, SuccessorRewrites DEF Succeeds
<1>2. FileKept
  BY <1>1, FileRewritten
<1>3. TaskKept
  BY TaskGone
<1>4. DrivesKept
  <2>1. drive' = [drive EXCEPT ![next.id] =
           [at |-> IF next.current = NoStep THEN "COMPLETING" ELSE "EXECUTING",
            run |-> next]]
    BY DEF Activate
  <2> QED
    BY <1>1, <2>1, DriveRewritten
<1>5. RunningIsAttended'
  BY <1>1, DriveTaken, RewriteAttended
<1> QED
  BY <1>2, <1>3, <1>4, <1>5, Assembled

LEMMA RunLetGo ==
  ASSUME IInv, NEW run, Rewrites(store, store', run),
         run.status \notin {"QUEUED", "RUNNING"},
         drive' = [drive EXCEPT ![run.id] = None], lost' = lost, TaskKept, TickKept,
         task' = task \/ task = None \/ task.op # "START" \/ task.id = run.id,
         UNCHANGED <<day, nextId, lastClaim>>
  PROVE  IInv'
<1>1. FileKept
  BY FileRewritten
<1>2. DrivesKept /\ \A id \in Ids : id # run.id => drive'[id] = drive[id]
  BY DriveRewritten
<1>3. RunningIsAttended'
  BY <1>2, RewriteAttended
<1> QED
  BY <1>1, <1>2, <1>3, Assembled

\* A run whose drive, if it has one, is not there.
LEMMA NoDrive ==
  ASSUME IInv, NEW id \in Ids, drive[id] = None, drive' = drive
  PROVE  drive' = [drive EXCEPT ![id] = None]
BY StateFacts

--------------------------------------------------------------------------------
(***************************************************************************)
(* The starts of runs.                                                     *)
(***************************************************************************)
LEMMA StartScheduledRunKeeps ==
  ASSUME IInv, StartScheduledRun
  PROVE  IInv'
<1> DEFINE exists == tick.run \in RunIds(store)
           run == RunOf(store, tick.run)
<1>1. /\ tick.at = "START" /\ task = None
      /\ UNCHANGED <<store, day, nextId, lastClaim>>
  BY DEF StartScheduledRun, Free, durable
<1>2. /\ tick # NoTick /\ tick.run \in Ids /\ tick.of \in Nat \ {0} /\ tick.run < nextId
      /\ nextId \in Nat \ {0} /\ day \in Nat
  BY <1>1, TickKinds, StateFacts
<1>3. FileKept
  BY <1>1, <1>2, FileStands
<1>4. \/ /\ exists /\ run.status = "QUEUED"
         /\ task' = StartTask("TICK", tick.run, tick.of, "STARTED")
         /\ tick' = [tick EXCEPT !.at = "STARTING"] /\ UNCHANGED <<drive, lost>>
      \/ /\ exists /\ run.status = "RUNNING" /\ Activate(run)
         /\ tick' = [tick EXCEPT !.at = "DRIVE"] /\ UNCHANGED task
      \/ /\ ~exists /\ OpenRuns(store, tick.of) = {}
         /\ task' = StartTask("TICK", tick.run, tick.of, "QUEUED")
         /\ tick' = [tick EXCEPT !.at = "STARTING"] /\ UNCHANGED <<drive, lost>>
      \/ tick' = NoTick /\ UNCHANGED <<task, drive, lost>>
      \/ tick' = [tick EXCEPT !.at = "ACKNOWLEDGE"] /\ UNCHANGED <<task, drive, lost>>
  BY DEF StartScheduledRun
<1>5. TickKept
  BY <1>1, <1>4, TickMoves
<1>6. ASSUME NEW writes \in {"QUEUED", "STARTED"},
             task' = StartTask("TICK", tick.run, tick.of, writes),
             tick' = [tick EXCEPT !.at = "STARTING"], UNCHANGED <<drive, lost>>,
             writes = "QUEUED" => ~exists /\ OpenRuns(store, tick.of) = {},
             writes = "STARTED" => exists /\ run.status = "QUEUED"
      PROVE  IInv'
  <2>1. /\ task' \in Tasks /\ task' # None /\ task'.op = "START" /\ task'.by = "TICK"
        /\ task'.id = tick.run /\ task'.of = tick.of /\ task'.writes = writes
    BY <1>2, <1>6, StartTaskFields
  <2>2. tick'.at = "STARTING"
    BY <1>1, <1>6, TickRecord
  <2>3. TaskKept
    BY <1>1, <1>2, <1>6, <2>1, <2>2 DEF TaskKept, TaskInv, RunWith
  <2>4. DrivesKept /\ RunningIsAttended'
    BY <1>1, <1>6, DrivesStand, AttendedStands
  <2> QED
    BY <1>3, <1>5, <2>3, <2>4, Assembled
<1>7. ASSUME UNCHANGED <<task, drive, lost>>
      PROVE  IInv'
  <2>1. TaskKept
    BY <1>1, <1>7, TaskGone
  <2>2. DrivesKept /\ RunningIsAttended'
    BY <1>1, <1>7, DrivesStand, AttendedStands
  <2> QED
    BY <1>3, <1>5, <2>1, <2>2, Assembled
<1>8. ASSUME exists, run.status = "RUNNING", Activate(run), UNCHANGED task
      PROVE  IInv'
  <2>1. run.id = tick.run /\ run \in OrderedRuns
    BY <1>8, RunFacts
  <2>2. /\ drive' \in [Ids -> Drives \cup {None}] /\ drive'[tick.run] # None
        /\ drive'[tick.run].run = run
        /\ drive'[tick.run].at = IF run.current = NoStep THEN "COMPLETING" ELSE "EXECUTING"
        /\ \A id \in Ids : id # tick.run => drive'[id] = drive[id]
        /\ \A id \in lost : id # tick.run => id \in lost'
    BY <1>8, <2>1, DriveTaken
  <2>3. TaskKept
    BY <1>1, <1>8, TaskGone
  <2>4. DrivesKept
    BY <1>1, <1>8, <2>1, <2>2 DEF DrivesKept, DriveInv, IInv, IsActive, RunWith
  <2>5. RunningIsAttended'
    <3>1. RunIds(store) \subseteq Ids
      BY RunFacts
    <3> QED
      BY <1>1, <1>2, <2>2, <3>1, AttendedStands
  <2> QED
    BY <1>3, <1>5, <2>3, <2>4, <2>5, Assembled
<1> HIDE DEF exists, run
<1> QED
  BY <1>4, <1>6, <1>7, <1>8

LEMMA OwnerStartsRunKeeps ==
  ASSUME IInv, OwnerStartsRun
  PROVE  IInv'
<1> DEFINE of == LatestRevision(store)
<1>1. task = None /\ UNCHANGED <<day, tick, lastClaim>>
  BY DEF OwnerStartsRun, Free
<1>2. CASE /\ OpenRuns(store, of) = {} /\ nextId \in Ids
           /\ task' = StartTask("OWNER", nextId, of, "QUEUED")
           /\ nextId' = nextId + 1 /\ UNCHANGED <<store, drive, lost>>
  <2>1. nextId \in Nat \ {0} /\ nextId' \in Nat /\ nextId < nextId' /\ nextId \in Ids
    BY <1>2, StateFacts
  <2>2. of \in Nat \ {0}
    <3>1. store.rituals \in Seq(Revisions) /\ store.rituals # <<>>
      BY StateFacts, StoreFields DEF SchedulesKept
    <3> QED
      BY <3>1 DEF LatestRevision
  <2> HIDE DEF of
  <2>3. /\ task' \in Tasks /\ task' # None /\ task'.op = "START" /\ task'.by = "OWNER"
        /\ task'.id = nextId /\ task'.of = of /\ task'.writes = "QUEUED"
    BY <1>2, <2>1, <2>2, StartTaskFields
  <2>4. nextId \notin RunIds(store)
    <3>1. nextId \in RunIds(store) => nextId < nextId
      BY RunFacts DEF IInv, HandedOut
    <3> QED
      BY <2>1, <3>1
  <2>5. TaskKept
    BY <1>2, <2>1, <2>3, <2>4 DEF TaskKept, TaskInv
  <2>6. FileKept
    BY <1>1, <1>2, <2>1, StateFacts, FileStands
  <2>7. TickKept
    <3>1. tick # NoTick => tick.run \in Nat /\ tick.run < nextId
      BY TickKinds, IdsAssumption
    <3>2. tick # NoTick => tick.run < nextId'
      BY <2>1, <3>1
    <3>3. tick \in Ticks /\ (tick.at = "CLAIM" => tick.now <= day)
      BY TickKinds, StateFacts
    <3> QED
      BY <1>1, <3>2, <3>3 DEF TickKept
  <2>8. DrivesKept /\ RunningIsAttended'
    BY <1>1, <1>2, DrivesStand, AttendedStands
  <2> QED
    BY <2>5, <2>6, <2>7, <2>8, Assembled
<1>3. ASSUME NEW r \in OpenRuns(store, of), CanRetryResource(r),
             SaveRun(store, RetryResource(r)).ok,
             store' = SaveRun(store, RetryResource(r)).store,
             Activate(RetryResource(r)), UNCHANGED <<task, nextId>>
      PROVE  IInv'
  <2>1. r \in Runs(store)
    BY <1>3 DEF OpenRuns, Runs
  <2>2. r.id \in RunIds(store) /\ RunOf(store, r.id) = r /\ r \in OrderedRuns
    BY <2>1, StateFacts, RunOfIdentity, RunsAreOrdered
  <2>3. Succeeds(r, RetryResource(r)) /\ RetryResource(r).status = "RUNNING"
    BY <1>3, <2>2, RetryIsOrdered
  <2>4. TickKept
    BY <1>1, <1>3, TickMoves
  <2> QED
    BY <1>1, <1>3, <2>2, <2>3, <2>4, RunTakenUp
<1> QED
  BY <1>2, <1>3 DEF OwnerStartsRun

LEMMA OwnerApprovesStepKeeps ==
  ASSUME IInv, OwnerApprovesStep
  PROVE  IInv'
<1>1. task = None /\ UNCHANGED <<day, task, tick, nextId, lastClaim>>
  BY DEF OwnerApprovesStep, Free
<1>2. PICK r \in Runs(store) :
        /\ CanApproveStep(r, r.current)
        /\ SaveRun(store, ApproveStep(r, r.current)).ok
        /\ store' = SaveRun(store, ApproveStep(r, r.current)).store
        /\ Activate(ApproveStep(r, r.current))
  BY DEF OwnerApprovesStep, Runs
<1>3. r.id \in RunIds(store) /\ RunOf(store, r.id) = r /\ r \in OrderedRuns
  BY StateFacts, RunOfIdentity, RunsAreOrdered
<1>4. /\ Succeeds(r, ApproveStep(r, r.current))
      /\ ApproveStep(r, r.current).status = "RUNNING"
  BY <1>2, <1>3, ApprovalIsOrdered
<1>5. TickKept
  BY <1>1, TickMoves
<1> QED
  BY <1>1, <1>2, <1>3, <1>4, <1>5, RunTakenUp

\* The run that a start asks for is written, and the start goes on to the next write.
LEMMA SaveQueuedKeeps ==
  ASSUME IInv, SaveQueued
  PROVE  IInv'
<1> DEFINE run == CreateRitualRun(task.id, task.of)
           saved == SaveRun(store, run)
<1>1. /\ task # None /\ task.op = "START" /\ task.writes = "QUEUED"
      /\ UNCHANGED <<day, drive, nextId, lost, lastClaim>>
      /\ \/ /\ saved.ok /\ store' = saved.store /\ UNCHANGED tick
            /\ task' = [task EXCEPT !.writes = "STARTED"]
         \/ task' = None /\ CallerFails(task) /\ UNCHANGED store
  BY DEF SaveQueued
<1>2. /\ task.id \in Ids /\ task.of \in Nat \ {0} /\ task.id < nextId
      /\ task.id \notin RunIds(store) /\ OpenRuns(store, task.of) = {}
      /\ task.by = "TICK" => tick.at = "STARTING"
  BY <1>1, TaskKinds DEF IInv, TaskInv
<1>3. /\ run \in OrderedRuns /\ run.id = task.id /\ run.of = task.of /\ run.status = "QUEUED"
  BY <1>2, CreatedIsOrdered
<1> HIDE DEF run
<1>4. CASE /\ saved.ok /\ store' = saved.store /\ UNCHANGED tick
           /\ task' = [task EXCEPT !.writes = "STARTED"]
  <2>1. Adds(store, store', run)
    BY <1>2, <1>3, <1>4, StateFacts, NewRunIsAdded
  <2>2. /\ store' \in Stores /\ Consistent(store') /\ Distinct(store')
        /\ store'.rituals = store.rituals /\ store'.schedules = store.schedules
        /\ run \in Runs(store') /\ Runs(store') \subseteq Runs(store) \cup {run}
        /\ \A r \in Runs(store) : ~IsTerminal(r) => r \in Runs(store')
    BY <2>1 DEF Adds, Consistent, ListKept
  <2>3. FileKept
    <3>1. SchedulesInv'
      BY <1>1, <2>2, StateFacts DEF SchedulesInv, SchedulesKept, LatestRevision
    <3>2. \A r \in Runs(store') : r.id < nextId'
      BY <1>1, <1>2, <1>3, <2>2 DEF IInv, HandedOut
    <3> QED
      BY <1>1, <2>2, <3>1, <3>2, StateFacts DEF FileKept, RunsInv, IInv, HandedOut
  <2>4. /\ run.id \in RunIds(store') /\ RunOf(store', run.id) = run
        /\ \A id \in RunIds(store') : RunOf(store', id) \in Runs(store')
                                      /\ RunOf(store', id).id = id
        /\ \A r \in Runs(store') : RunOf(store', r.id) = r /\ r.id \in RunIds(store')
    BY <2>2, RunOfIdentity
  <2>5. /\ task' \in Tasks /\ task'.op = "START" /\ task'.id = task.id
        /\ task'.by = task.by /\ task'.writes = "STARTED"
    BY <1>1, <1>4, TaskKinds
  <2>6. task' # None
    BY <2>5, NoneAssumption
  <2>7. TaskKept
    BY <1>1, <1>2, <1>3, <1>4, <2>4, <2>5 DEF TaskKept, TaskInv, RunWith
  <2>8. DrivesKept
    <3>1. ASSUME NEW id \in Ids, drive[id] # None
          PROVE  id \in RunIds(store') /\ RunOf(store', id) = RunOf(store, id)
      <4>1. /\ id \in RunIds(store) /\ RunOf(store, id).status = "RUNNING"
            /\ RunOf(store, id).id = id
        BY <3>1, DriveFacts DEF IsActive
      <4>2. RunOf(store, id) \in Runs(store) /\ ~IsTerminal(RunOf(store, id))
        BY <4>1, RunFacts DEF IsTerminal, TerminalStatuses
      <4> QED
        BY <2>2, <2>4, <4>1, <4>2
    <3>2. DriveInv'
      BY <1>1, <3>1 DEF IInv, DriveInv, IsActive, RunWith
    <3> QED
      BY <1>1, <3>2, StateFacts DEF DrivesKept
  <2>9. RunningIsAttended'
    <3> SUFFICES ASSUME NEW id \in RunIds(store'),
                        RunOf(store', id).status \in {"QUEUED", "RUNNING"}
                 PROVE  \/ drive'[id] # None \/ id \in lost'
                        \/ task' # None /\ task'.op = "START" /\ task'.id = id
      BY DEF RunningIsAttended, Unattended, IsActive
    <3>1. CASE id = task.id
      BY <2>5, <2>6, <3>1
    <3>2. CASE id # task.id
      <4>1. RunOf(store', id) \in Runs(store) /\ RunOf(store', id).id = id
        BY <1>3, <2>2, <2>4, <3>2
      <4>2. id \in RunIds(store) /\ RunOf(store, id) = RunOf(store', id)
        BY <4>1, StateFacts, RunOfIdentity
      <4>3. id \in Unattended
        BY <4>2 DEF Unattended
      <4> QED
        BY <1>1, <3>2, <4>3 DEF IInv, RunningIsAttended, IsActive
    <3> QED
      BY <3>1, <3>2
  <2> QED
    BY <1>1, <1>4, <2>3, <2>7, <2>8, <2>9, TickMoves, Assembled
<1>5. CASE task' = None /\ CallerFails(task) /\ UNCHANGED store
  <2>1. tick' = tick \/ tick' = NoTick
    BY <1>5 DEF CallerFails
  <2>2. FileKept /\ TickKept /\ TaskKept
    BY <1>1, <1>5, <2>1, StateFacts, FileStands, TickMoves, TaskGone
  <2>3. DrivesKept /\ RunningIsAttended'
    BY <1>1, <1>2, <1>5, DrivesStand, AttendedStands
  <2> QED
    BY <2>2, <2>3, Assembled
<1> HIDE DEF saved
<1> QED
  BY <1>1, <1>4, <1>5

LEMMA SaveStartedKeeps ==
  ASSUME IInv, SaveStarted
  PROVE  IInv'
<1> DEFINE run == RunOf(store, task.id)
           started == Start(run)
<1>1. /\ task # None /\ task.op = "START" /\ task.writes = "STARTED"
      /\ task' = None /\ UNCHANGED <<day, nextId, lastClaim>>
      /\ SaveRun(store, started).ok /\ store' = SaveRun(store, started).store
      /\ \/ started.status = "RUNNING" /\ Activate(started) /\ CallerDrives(task)
         \/ /\ started.status # "RUNNING" /\ CallerReturns(task)
            /\ UNCHANGED <<drive, lost>>
  BY DEF SaveStarted
<1>2. /\ task.id \in RunIds(store) /\ run.status = "QUEUED" /\ task.id \in Ids
      /\ task.by = "TICK" => tick.at = "STARTING"
  BY <1>1, TaskKinds DEF IInv, TaskInv, RunWith
<1>3. run \in OrderedRuns /\ run.id = task.id
  BY <1>2, RunFacts
<1> HIDE DEF run
<1>4. Succeeds(run, started) /\ started.status \in {"RUNNING", "WAITING_FOR_OWNER"}
  BY <1>2, <1>3, StartIsOrdered
<1> HIDE DEF started
<1>5. TickKept
  <2>1. \/ tick' = tick
        \/ task.by = "TICK" /\ \E at \in {"STARTING", "DRIVE", "ACKNOWLEDGE"} :
                                  tick' = [tick EXCEPT !.at = at]
    BY <1>1 DEF CallerDrives, CallerReturns
  <2> QED
    BY <1>1, <1>2, <2>1, TickMoves
<1>6. CASE started.status = "RUNNING" /\ Activate(started)
  BY <1>1, <1>2, <1>4, <1>5, <1>6, RunTakenUp DEF run
<1>7. CASE started.status # "RUNNING" /\ UNCHANGED <<drive, lost>>
  <2>1. started.id = task.id /\ Rewrites(store, store', started)
    BY <1>1, <1>2, <1>4, StateFacts, SuccessorRewrites DEF run
  <2>2. drive[task.id] = None
    BY <1>2, DriveFacts DEF IsActive, run
  <2>3. drive' = [drive EXCEPT ![started.id] = None]
    BY <1>2, <1>7, <2>1, <2>2, NoDrive
  <2> QED
    BY <1>1, <1>4, <1>5, <1>7, <2>1, <2>3, TaskGone, RunLetGo
<1> QED
  BY <1>1, <1>6, <1>7

LEMMA StartFailsKeeps ==
  ASSUME IInv, StartFails
  PROVE  IInv'
<1>1. /\ task # None /\ task.op = "START" /\ task' = None
      /\ UNCHANGED <<store, day, drive, nextId, lastClaim>>
      /\ CallerFails(task) /\ LoseIfOpen({task.id})
  BY DEF StartFails, durable
<1>2. tick' = tick \/ tick' = NoTick
  BY <1>1 DEF CallerFails
<1>3. FileKept /\ TickKept /\ TaskKept /\ DrivesKept
  BY <1>1, <1>2, StateFacts, FileStands, TickMoves, TaskGone, DrivesStand
<1>4. RunningIsAttended'
  <2> SUFFICES ASSUME NEW id \in RunIds(store),
                      RunOf(store, id).status \in {"QUEUED", "RUNNING"}
               PROVE  drive'[id] # None \/ id \in lost'
    BY <1>1, SameRuns DEF RunningIsAttended, Unattended, IsActive
  <2>1. \/ drive[id] # None \/ id \in lost \/ task.id = id
    BY DEF IInv, RunningIsAttended, Unattended, IsActive
  <2> QED
    BY <1>1, <2>1, OpenIsLost
<1> QED
  BY <1>3, <1>4, Assembled

(***************************************************************************)
(* Opening the workspace.                                                  *)
(***************************************************************************)
LEMMA LastIsMember ==
  ASSUME NEW S, NEW n \in Nat, S \subseteq 1..n, S # {}
  PROVE  (CHOOSE i \in S : \A j \in S : j <= i) \in S
<1> DEFINE T == {k \in Nat : \E j \in S : k = n - j}
<1>1. \A j \in S : j \in Nat /\ n - j \in Nat
  OBVIOUS
<1>2. T \subseteq Nat /\ T # {}
  BY <1>1
<1>3. FirstOf(T) \in T /\ \A k \in T : FirstOf(T) <= k
  BY <1>2, FirstIsMember
<1>4. PICK i \in S : FirstOf(T) = n - i
  BY <1>3
<1>5. \A j \in S : n - i <= n - j
  BY <1>1, <1>3, <1>4
<1>6. \A j \in S : j <= i
  BY <1>1, <1>5
<1> QED
  BY <1>6

LEMMA LastRunIsKept ==
  ASSUME NEW st \in Stores, LastRun(st) # None
  PROVE  LastRun(st) \in Runs(st)
<1> DEFINE S == {i \in 1..Len(st.runs) : st.runs[i].of = LatestRevision(st)}
           last == CHOOSE i \in S : \A j \in S : j <= i
<1>1. LastRun(st) = IF S = {} THEN None ELSE st.runs[last]
  BY DEF LastRun, FindLast
<1>2. S # {} => last \in S
  BY StoreFields, LastIsMember
<1> HIDE DEF last
<1>3. st.runs[last] \in Runs(st)
  BY <1>1, <1>2 DEF Runs, Elements
<1> QED
  BY <1>1, <1>3

LEMMA LoadReadsKeeps ==
  ASSUME IInv, LoadReads
  PROVE  IInv'
<1> DEFINE run == LastRun(store)
<1>1. /\ task = None /\ run # None /\ run.status \in {"QUEUED", "RUNNING"}
      /\ task' = [op |-> "LOAD", run |-> run]
      /\ UNCHANGED <<store, day, tick, drive, lost, nextId, lastClaim>>
  BY DEF LoadReads, Free, durable
<1>2. run \in Runs(store)
  BY <1>1, StateFacts, LastRunIsKept
<1> HIDE DEF run
<1>3. run \in OrderedRuns /\ run.id \in RunIds(store) /\ RunOf(store, run.id) = run
  BY <1>2, StateFacts, RunOfIdentity, RunsAreOrdered
<1>4. task' \in Tasks /\ task'.op = "LOAD" /\ task'.run = run
  BY <1>1, <1>3 DEF Tasks, OrderedRuns
<1>5. TaskKept
  BY <1>1, <1>3, <1>4 DEF TaskKept, TaskInv, RunWith
<1>6. FileKept /\ TickKept
  BY <1>1, StateFacts, FileStands, TickMoves
<1>7. DrivesKept /\ RunningIsAttended'
  BY <1>1, DrivesStand, AttendedStands
<1> QED
  BY <1>5, <1>6, <1>7, Assembled

LEMMA LoadReconcilesKeeps ==
  ASSUME IInv, LoadReconciles
  PROVE  IInv'
<1> DEFINE run == task.run
           next == Reconciled(run)
<1>1. /\ task # None /\ task.op = "LOAD" /\ task' = None
      /\ UNCHANGED <<day, tick, drive, lost, nextId, lastClaim>>
      /\ store' = store \/ (~IsActive(run.id) /\ store' = SaveRun(store, next).store)
  BY DEF LoadReconciles
<1>2. /\ run \in OrderedRuns /\ run.id \in RunIds(store) /\ RunOf(store, run.id).of = run.of
      /\ run.id \in Ids
  BY <1>1, RunFacts DEF IInv, TaskInv, RunWith
<1> HIDE DEF run
<1>3. /\ next \in OrderedRuns /\ next.id = run.id /\ next.of = run.of
      /\ next.status \in {"WAITING_FOR_RESOURCE", "FAILED"}
  BY <1>2, ReconciledIsOrdered DEF Succeeds
<1> HIDE DEF next
<1>4. TickKept /\ TaskKept
  BY <1>1, TickMoves, TaskGone
<1>5. CASE store' = store
  <2>1. FileKept
    BY <1>1, <1>5, StateFacts, FileStands
  <2>2. DrivesKept /\ RunningIsAttended'
    BY <1>1, <1>5, DrivesStand, AttendedStands
  <2> QED
    BY <1>4, <2>1, <2>2, Assembled
<1>6. CASE drive[run.id] = None /\ Rewrites(store, store', next)
  <2>1. drive' = [drive EXCEPT ![next.id] = None]
    BY <1>1, <1>2, <1>3, <1>6, NoDrive
  <2> QED
    BY <1>1, <1>3, <1>4, <1>6, <2>1, RunLetGo
<1>7. SaveRun(store, next).store = store \/ Rewrites(store, SaveRun(store, next).store, next)
  BY <1>2, <1>3, StateFacts, SaveRewrites
<1>8. store' = store \/ (drive[run.id] = None /\ Rewrites(store, store', next))
  BY <1>1, <1>7 DEF IsActive
<1> QED
  BY <1>5, <1>6, <1>8

--------------------------------------------------------------------------------
(***************************************************************************)
(* The owner's schedule and revisions.                                     *)
(***************************************************************************)
LEMMA ScheduleTaskFields ==
  ASSUME NEW schedule \in Schedules
  PROVE  LET t == ScheduleTask(schedule) IN
         /\ t \in Tasks /\ t # None /\ t.op = "SCHEDULE" /\ t.of = schedule.of
         /\ t.schedule = schedule /\ t.unmoved = TRUE
<1> DEFINE t == ScheduleTask(schedule)
<1>1. /\ t \in Tasks /\ t.op = "SCHEDULE" /\ t.of = schedule.of
      /\ t.schedule = schedule /\ t.unmoved = TRUE
  BY ScheduleFields DEF ScheduleTask, Tasks
<1> QED
  BY <1>1, NoneAssumption

\* A schedule is read that is the latest revision's and due after what was claimed.
LEMMA ScheduleIsRead ==
  ASSUME IInv, NEW schedule \in Schedules, task = None, task' = ScheduleTask(schedule),
         schedule.pending = None, schedule.of = LatestRevision(store),
         schedule.state = "ENABLED" => schedule.next > lastClaim,
         UNCHANGED <<store, day, tick, drive, lost, nextId, lastClaim>>
  PROVE  IInv'
<1>1. /\ task' \in Tasks /\ task' # None /\ task'.op = "SCHEDULE" /\ task'.of = schedule.of
      /\ task'.schedule = schedule
  BY ScheduleTaskFields
<1>2. LatestRevision(store) \in Nat
  BY StateFacts, StoreFields DEF LatestRevision
<1>3. TaskKept
  BY <1>1, <1>2 DEF TaskKept, TaskInv
<1>4. FileKept /\ TickKept
  BY StateFacts, FileStands, TickMoves
<1>5. DrivesKept /\ RunningIsAttended'
  BY DrivesStand, AttendedStands
<1> QED
  BY <1>3, <1>4, <1>5, Assembled

LEMMA ConfigureReadsKeeps ==
  ASSUME IInv, ConfigureReads
  PROVE  IInv'
<1> DEFINE of == LatestRevision(store)
           existing == ScheduleOf(store, of)
           schedule == [of |-> of, state |-> "ENABLED", next |-> day + 1, pending |-> None,
                        last |-> IF existing = None THEN 0 ELSE existing.last]
<1>1. /\ task = None /\ task' = ScheduleTask(schedule)
      /\ UNCHANGED <<store, day, tick, drive, lost, nextId, lastClaim>>
  BY DEF ConfigureReads, Free, durable
<1>2. of \in Nat \ {0}
  <2>1. store.rituals \in Seq(Revisions) /\ store.rituals # <<>>
    BY StateFacts, StoreFields DEF SchedulesKept
  <2> QED
    BY <2>1 DEF LatestRevision
<1>3. existing # None => existing.last \in Nat
  <2>1. existing # None => existing \in store.schedules
    BY StateFacts, ScheduleOfRevision DEF SchedulesKept
  <2> QED
    BY <2>1, StateFacts, StoreFields, ScheduleFields
<1> HIDE DEF existing
<1>4. day + 1 \in Nat \ {0} /\ day + 1 > lastClaim
  BY StateFacts
<1>5. /\ schedule \in Schedules /\ schedule.pending = None
      /\ schedule.of = LatestRevision(store) /\ schedule.next = day + 1
  <2> HIDE DEF of
  <2>1. schedule \in Schedules /\ schedule.pending = None
        /\ schedule.of = of /\ schedule.next = day + 1
    BY <1>2, <1>3, <1>4 DEF Schedules
  <2> QED
    BY <2>1 DEF of
<1> HIDE DEF schedule
<1> QED
  BY <1>1, <1>4, <1>5, ScheduleIsRead

LEMMA PauseReadsKeeps ==
  ASSUME IInv, PauseReads
  PROVE  IInv'
<1>1. /\ task = None
      /\ UNCHANGED <<store, day, tick, drive, lost, nextId, lastClaim>>
  BY DEF PauseReads, Free, durable
<1>2. PICK s \in store.schedules :
        /\ s.of = LatestRevision(store)
        /\ task' = ScheduleTask([s EXCEPT !.state = "PAUSED", !.pending = None])
  BY ZenonT(30) DEF PauseReads
<1> DEFINE paused == [s EXCEPT !.state = "PAUSED", !.pending = None]
<1>3. s \in Schedules
  BY StateFacts, StoreFields
<1>4. /\ paused \in Schedules /\ paused.pending = None /\ paused.of = s.of
      /\ paused.state = "PAUSED"
  BY <1>3 DEF Schedules
<1> HIDE DEF paused
<1>5. task' = ScheduleTask(paused)
  BY <1>2 DEF paused
<1> QED
  BY <1>1, <1>2, <1>4, <1>5, ScheduleIsRead

LEMMA ScheduleIsSavedKeeps ==
  ASSUME IInv, ScheduleIsSaved
  PROVE  IInv'
<1>1. /\ task # None /\ task.op = "SCHEDULE" /\ task' = None
      /\ store' = SaveSchedule(store, task.schedule, task.unmoved).store
      /\ UNCHANGED <<day, tick, drive, nextId, lost, lastClaim>>
  BY DEF ScheduleIsSaved
<1>2. /\ task.schedule \in Schedules /\ task.unmoved \in BOOLEAN
      /\ task.schedule.pending = None
      /\ task.unmoved /\ task.schedule.of = LatestRevision(store)
           /\ task.schedule.state = "ENABLED" => task.schedule.next > lastClaim
  BY <1>1, TaskKinds DEF IInv, TaskInv
<1>3. /\ RunsUntouched(store, store') /\ SchedulesKept(store', lastClaim)
      /\ PendingFrom(store, store')
  BY <1>1, <1>2, StateFacts, SaveScheduleKeeps
<1>4. store'.runs = store.runs
  BY <1>3 DEF RunsUntouched
<1>5. FileKept /\ TickKept /\ TaskKept
  BY <1>1, <1>3, FileOverSchedules, TickMoves, TaskGone
<1>6. DrivesKept /\ RunningIsAttended'
  BY <1>1, <1>4, DrivesStand, AttendedStands
<1> QED
  BY <1>5, <1>6, Assembled

\* A revision is saved: no task of the owner's holds the schedule of the new one.
LEMMA RevisionIsSaved ==
  ASSUME IInv, NEW ritual \in Revisions, store' = Save(store, ritual).store, store' # store,
         UNCHANGED <<day, task, tick, drive, nextId, lost, lastClaim>>
  PROVE  IInv'
<1>1. /\ RunsUntouched(store, store') /\ SchedulesKept(store', lastClaim)
      /\ PendingFrom(store, store')
      /\ LatestRevision(store') = LatestRevision(store) + 1
  BY StateFacts, SaveKeeps
<1>2. store'.runs = store.runs
  BY <1>1 DEF RunsUntouched
<1>3. /\ LatestRevision(store) \in Nat /\ LatestRevision(store') \in Nat
      /\ LatestRevision(store) <= LatestRevision(store')
  BY <1>1, StateFacts, StoreFields DEF LatestRevision
<1>4. ~(task # None /\ task.op = "SCHEDULE" /\ task.of = LatestRevision(store'))
  BY <1>1, <1>3, TaskKinds DEF IInv, TaskInv
<1>5. TaskKept
  BY <1>2, <1>3, <1>4, TaskOverSchedules
<1>6. FileKept /\ TickKept
  BY <1>1, FileOverSchedules, TickMoves
<1>7. DrivesKept /\ RunningIsAttended'
  BY <1>2, DrivesStand, AttendedStands
<1> QED
  BY <1>5, <1>6, <1>7, Assembled

LEMMA LatestIsRevision ==
  ASSUME NEW st \in Stores, st.rituals # <<>>
  PROVE  /\ Latest(st) \in Revisions
         /\ \A origin \in Elements(st.rituals) : origin \in Revisions
<1>1. st.rituals \in Seq(Revisions) /\ Len(st.rituals) \in 1..Len(st.rituals)
  BY StoreFields
<1> QED
  BY <1>1 DEF Latest, Elements

LEMMA OwnerApprovesLearningKeeps ==
  ASSUME IInv, OwnerApprovesLearning
  PROVE  IInv'
<1>1. UNCHANGED <<day, task, tick, drive, nextId, lost, lastClaim>>
  BY DEF OwnerApprovesLearning, volatile
<1>2. PICK p \in Elements(store.proposals) :
        /\ store' = Save(store, LearnedRevision(Latest(store), p)).store
        /\ store' # store
  BY DEF OwnerApprovesLearning
<1>3. p = Proposed
  BY StateFacts, StoreFields DEF Elements
<1>4. Latest(store) \in Revisions
  BY StateFacts, LatestIsRevision DEF SchedulesKept
<1>5. LearnedRevision(Latest(store), p) \in Revisions
  BY <1>3, <1>4 DEF LearnedRevision, Revisions, Proposed
<1> QED
  BY <1>1, <1>2, <1>5, RevisionIsSaved

LEMMA OwnerRestoresKeeps ==
  ASSUME IInv, OwnerRestores
  PROVE  IInv'
<1>1. /\ task = None /\ UNCHANGED <<day, task, tick, drive, nextId, lost, lastClaim>>
  BY DEF OwnerRestores, Free, volatile
<1>2. PICK origin \in Elements(store.rituals) :
        store' = Save(store, RestoredRevision(Latest(store), origin)).store
  BY DEF OwnerRestores
<1>3. Latest(store) \in Revisions /\ origin \in Revisions
  BY StateFacts, LatestIsRevision DEF SchedulesKept
<1>4. RestoredRevision(Latest(store), origin) \in Revisions
  BY <1>3 DEF RestoredRevision, Revisions
<1>5. CASE store' = store
  <2>1. UNCHANGED <<store, nextId, lastClaim, task, tick, drive, lost>>
    BY <1>1, <1>5
  <2> QED
    BY <1>1, <2>1, IdleStep
<1> QED
  BY <1>1, <1>2, <1>4, <1>5, RevisionIsSaved

--------------------------------------------------------------------------------
(***************************************************************************)
(* The drives of the runs.                                                 *)
(***************************************************************************)
\* What becomes of the tick when a drive is over.
LEMMA TickAfterDrive ==
  ASSUME IInv, NEW id \in Ids, TickReturns(id) \/ TickThrows(id), UNCHANGED <<day, nextId>>
  PROVE  TickKept /\ (tick' = tick \/ tick.at # "STARTING")
<1>1. \/ tick' = tick
      \/ tick.at = "DRIVE" /\ (tick' = NoTick \/ tick' = [tick EXCEPT !.at = "ACKNOWLEDGE"])
  BY DEF TickReturns, TickThrows
<1> QED
  BY <1>1, TickMoves

\* The drives of other runs do not change when one is over, nor does that of a
\* completion in service, which is not the one that executed.
LEMMA OthersComplete ==
  ASSUME IInv, NEW id \in Ids, drive[id] = None \/ drive[id].at # "COMPLETING",
         \A i \in Ids : i # id => drive'[i] = drive[i]
  PROVE  \A i \in Ids : drive[i] # None /\ drive[i].at = "COMPLETING"
                        => drive'[i] = drive[i]
OBVIOUS

LEMMA DriveStepKeeps ==
  ASSUME IInv, NEW id \in Ids, DriveStep(id)
  PROVE  IInv'
<1> DEFINE before == drive[id].run
<1>1. /\ IsActive(id) /\ drive[id].at = "EXECUTING"
      /\ UNCHANGED <<day, task, nextId, lost, lastClaim>>
  BY DEF DriveStep, Executing
<1>2. PICK answer \in ExecutorAnswers(before) :
        LET run == Follow(before, answer)
            saved == SaveRun(store, run)
        IN  /\ saved.ok /\ store' = saved.store
            /\ IF run.status = "RUNNING"
               THEN /\ drive' = [drive EXCEPT ![id] =
                        [at |-> IF run.current = NoStep THEN "COMPLETING"
                                ELSE "EXECUTING", run |-> run]]
                    /\ UNCHANGED <<aborted, tick>>
               ELSE DriveEnds(id) /\ TickReturns(id)
  BY DEF DriveStep
<1> DEFINE run == Follow(before, answer)
<1>3. /\ id \in RunIds(store) /\ before = RunOf(store, id) /\ before.status = "RUNNING"
      /\ before \in OrderedRuns /\ before.current # NoStep
  BY <1>1, DriveFacts
<1>4. /\ Succeeds(before, run)
      /\ run.status \in {"RUNNING", "WAITING_FOR_OWNER", "WAITING_FOR_RESOURCE"}
  BY <1>3, AnswersFollow
<1>5. /\ SaveRun(store, run).ok /\ store' = SaveRun(store, run).store
      /\ \/ /\ run.status = "RUNNING" /\ UNCHANGED tick
            /\ drive' = [drive EXCEPT ![id] =
                 [at |-> IF run.current = NoStep THEN "COMPLETING" ELSE "EXECUTING",
                  run |-> run]]
         \/ /\ run.status # "RUNNING" /\ TickReturns(id)
            /\ drive' = [drive EXCEPT ![id] = None]
  BY <1>2 DEF DriveEnds
<1> HIDE DEF run
<1>6. run.id = id /\ Rewrites(store, store', run)
  BY <1>3, <1>4, <1>5, StateFacts, SuccessorRewrites
<1>7. TickKept /\ (tick' = tick \/ tick.at # "STARTING")
  BY <1>1, <1>5, TickAfterDrive, TickMoves
<1>8. /\ DrivesKept
      /\ \A i \in Ids : i # id => drive'[i] = drive[i]
  BY <1>5, <1>6, DriveRewritten
<1>9. TaskKept
  BY <1>1, <1>3, <1>6, <1>7, <1>8, OthersComplete, TaskOverRewrite
<1>10. CASE run.status = "RUNNING"
  <2>1. drive'[id] # None
    <3>1. run \in OrderedRuns
      BY <1>4 DEF Succeeds
    <3>2. [at |-> IF run.current = NoStep THEN "COMPLETING" ELSE "EXECUTING",
           run |-> run] \in Drives
      BY <3>1 DEF Drives, OrderedRuns
    <3>3. drive'[id] \in Drives
      BY <1>5, <1>10, <3>2, StateFacts
    <3> QED
      BY <3>3, NoneAssumption
  <2>2. FileKept
    BY <1>1, <1>6, FileRewritten
  <2>3. RunningIsAttended'
    BY <1>1, <1>6, <1>8, <2>1, RewriteAttended
  <2> QED
    BY <1>7, <1>8, <1>9, <2>2, <2>3, Assembled
<1>11. CASE run.status # "RUNNING"
  BY <1>1, <1>4, <1>5, <1>6, <1>7, <1>9, <1>11, RunLetGo
<1> QED
  BY <1>10, <1>11

LEMMA DriveFailsKeeps ==
  ASSUME IInv, NEW id \in Ids, DriveFails(id)
  PROVE  IInv'
<1> DEFINE before == drive[id].run
           run == Fail(before)
<1>1. /\ IsActive(id) /\ drive[id].at = "EXECUTING"
      /\ UNCHANGED <<day, task, nextId, lost, lastClaim>>
      /\ SaveRun(store, run).ok /\ store' = SaveRun(store, run).store
      /\ drive' = [drive EXCEPT ![id] = None] /\ TickReturns(id)
  BY DEF DriveFails, Executing, DriveEnds
<1>2. /\ id \in RunIds(store) /\ before = RunOf(store, id) /\ before.status = "RUNNING"
      /\ before \in OrderedRuns
  BY <1>1, DriveFacts
<1>3. Succeeds(before, run) /\ run.status = "FAILED"
  BY <1>2, StopIsOrdered DEF Fail
<1> HIDE DEF run
<1>4. run.id = id /\ Rewrites(store, store', run)
  BY <1>1, <1>2, <1>3, StateFacts, SuccessorRewrites
<1>5. TickKept /\ (tick' = tick \/ tick.at # "STARTING")
  BY <1>1, TickAfterDrive
<1>6. \A i \in Ids : i # id => drive'[i] = drive[i]
  BY <1>1, StateFacts
<1>7. TaskKept
  BY <1>1, <1>2, <1>4, <1>5, <1>6, OthersComplete, TaskOverRewrite
<1> QED
  BY <1>1, <1>3, <1>4, <1>5, <1>7, RunLetGo

\* A drive ends, whatever has become of its run, and nothing is written: the run is
\* lost if it is open.
LEMMA DriveLost ==
  ASSUME IInv, NEW id \in Ids, drive' = [drive EXCEPT ![id] = None],
         TickThrows(id), LoseIfOpen({id}), TaskKept,
         task' = task \/ task = None \/ task.op # "START",
         UNCHANGED <<store, day, nextId, lastClaim>>
  PROVE  IInv'
<1>1. FileKept
  BY StateFacts, FileStands
<1>2. TickKept
  BY TickAfterDrive
<1>3. DrivesKept /\ \A i \in Ids : i # id => drive'[i] = drive[i]
  BY DriveEnded
<1>4. RunningIsAttended'
  <2>1. RunIds(store) \subseteq Ids
    BY RunFacts
  <2>2. \A i \in RunIds(store) : drive[i] # None =>
           \/ drive'[i] # None \/ i \in lost'
           \/ RunOf(store, i).status \notin {"QUEUED", "RUNNING"}
    BY <1>3, <2>1, OpenIsLost
  <2> QED
    BY <2>2, OpenIsLost, AttendedStands
<1> QED
  BY <1>1, <1>2, <1>3, <1>4, Assembled

LEMMA DriveIsLostKeeps ==
  ASSUME IInv, NEW id \in Ids, DriveIsLost(id)
  PROVE  IInv'
<1>1. /\ drive[id].at = "EXECUTING" /\ drive' = [drive EXCEPT ![id] = None]
      /\ TickThrows(id) /\ LoseIfOpen({id})
      /\ UNCHANGED <<store, day, task, nextId, lastClaim>>
  BY DEF DriveIsLost, Executing, DriveEnds, durable
<1>2. tick' = tick \/ tick.at # "STARTING"
  BY <1>1, TickAfterDrive
<1>3. \A i \in Ids : i # id => drive'[i] = drive[i]
  BY <1>1, StateFacts
<1>4. TaskKept
  BY <1>1, <1>2, <1>3, StateFacts, OthersComplete, TaskStands
<1> QED
  BY <1>1, <1>4, DriveLost

\* A drive that waits for its cancellation.
LEMMA DriveWaits ==
  ASSUME IInv, NEW id \in Ids, IsActive(id),
         drive' = [drive EXCEPT ![id].at = "AWAITING_CANCELLATION"], TaskKept,
         task' = task \/ task = None \/ task.op # "START",
         UNCHANGED <<store, day, tick, nextId, lost, lastClaim>>
  PROVE  IInv'
<1> DEFINE waiting == [drive[id] EXCEPT !.at = "AWAITING_CANCELLATION"]
<1>1. drive[id] \in Drives
  BY DriveFacts
<1>2. /\ waiting \in Drives /\ waiting.at = "AWAITING_CANCELLATION"
      /\ waiting.run = drive[id].run
  BY <1>1 DEF Drives
<1>3. waiting # None
  BY <1>2, NoneAssumption
<1>4. drive' = [drive EXCEPT ![id] = waiting]
  OBVIOUS
<1> HIDE DEF waiting
<1>5. /\ drive' \in [Ids -> Drives \cup {None}] /\ drive'[id] = waiting
      /\ \A i \in Ids : i # id => drive'[i] = drive[i]
  BY <1>2, <1>4, StateFacts
<1>6. DrivesKept
  <2>1. DriveInv'
    BY <1>2, <1>5 DEF IInv, DriveInv, IsActive, RunWith
  <2> QED
    BY <1>5, <2>1 DEF DrivesKept
<1>7. FileKept /\ TickKept
  BY StateFacts, FileStands, TickMoves
<1>8. RunningIsAttended'
  <2>1. RunIds(store) \subseteq Ids
    BY RunFacts
  <2> QED
    BY <1>3, <1>5, <2>1, AttendedStands
<1> QED
  BY <1>6, <1>7, <1>8, Assembled

LEMMA DriveIsAbortedKeeps ==
  ASSUME IInv, NEW id \in Ids, DriveIsAborted(id)
  PROVE  IInv'
<1>1. /\ IsActive(id) /\ drive[id].at = "EXECUTING"
      /\ drive' = [drive EXCEPT ![id].at = "AWAITING_CANCELLATION"]
      /\ UNCHANGED <<store, day, task, tick, nextId, lost, lastClaim>>
  BY DEF DriveIsAborted, Executing, durable
<1>2. \A i \in Ids : i # id => drive'[i] = drive[i]
  BY <1>1, StateFacts
<1>3. TaskKept
  BY <1>1, <1>2, StateFacts, OthersComplete, TaskStands
<1> QED
  BY <1>1, <1>3, DriveWaits

LEMMA CompletionBeginsKeeps ==
  ASSUME IInv, NEW id \in Ids, CompletionBegins(id)
  PROVE  IInv'
<1>1. /\ task = None /\ IsActive(id) /\ drive[id].at = "COMPLETING"
      /\ UNCHANGED <<store, day, tick, lost, nextId, lastClaim>>
      /\ \/ drive' = [drive EXCEPT ![id].at = "AWAITING_CANCELLATION"] /\ UNCHANGED task
         \/ task' = [op |-> "COMPLETE", id |-> id] /\ UNCHANGED drive
  BY DEF CompletionBegins, Free, durable
<1>2. CASE drive' = [drive EXCEPT ![id].at = "AWAITING_CANCELLATION"] /\ UNCHANGED task
  BY <1>1, <1>2, TaskGone, DriveWaits
<1>3. CASE task' = [op |-> "COMPLETE", id |-> id] /\ UNCHANGED drive
  <2>1. task' \in Tasks /\ task'.op = "COMPLETE" /\ task'.id = id
    BY <1>3 DEF Tasks
  <2>2. TaskKept
    BY <1>1, <1>3, <2>1 DEF TaskKept, TaskInv, IsActive
  <2>3. FileKept /\ TickKept
    BY <1>1, StateFacts, FileStands, TickMoves
  <2>4. DrivesKept /\ RunningIsAttended'
    BY <1>1, <1>3, DrivesStand, AttendedStands
  <2> QED
    BY <2>2, <2>3, <2>4, Assembled
<1> QED
  BY <1>1, <1>2, <1>3

LEMMA CompletionCommitsKeeps ==
  ASSUME IInv, NEW id \in Ids, CompletionCommits(id)
  PROVE  IInv'
<1> DEFINE before == drive[id].run
           run == CompleteRun(before)
<1>1. /\ task # None /\ task.op = "COMPLETE" /\ task.id = id /\ task' = None
      /\ SaveCompletion(store, run).ok /\ store' = SaveCompletion(store, run).store
      /\ drive' = [drive EXCEPT ![id] = None] /\ TickReturns(id)
      /\ UNCHANGED <<day, nextId, lost, lastClaim>>
  BY DEF CompletionCommits, Completing, DriveEnds
<1>2. IsActive(id) /\ drive[id].at = "COMPLETING"
  BY <1>1 DEF IInv, TaskInv
<1>3. /\ id \in RunIds(store) /\ before = RunOf(store, id) /\ before.status = "RUNNING"
      /\ before \in OrderedRuns /\ before.current = NoStep /\ before.id = id
  BY <1>2, DriveFacts
<1>4. /\ run \in OrderedRuns /\ run.id = before.id /\ run.of = before.of
      /\ run.status = "NEEDS_REVIEW"
  BY <1>3, CompletionIsOrdered
<1> HIDE DEF run
<1>5. Rewrites(store, store', run)
  BY <1>1, <1>3, <1>4, StateFacts, CompletionRewrites
<1>6. TickKept
  BY <1>1, TickAfterDrive
<1> QED
  BY <1>1, <1>3, <1>4, <1>5, <1>6, TaskGone, RunLetGo

LEMMA CompletionIsAbortedKeeps ==
  ASSUME IInv, NEW id \in Ids, CompletionIsAborted(id)
  PROVE  IInv'
<1>1. /\ task # None /\ task.op = "COMPLETE" /\ task.id = id /\ task' = None
      /\ drive' = [drive EXCEPT ![id].at = "AWAITING_CANCELLATION"]
      /\ UNCHANGED <<store, day, tick, nextId, lost, lastClaim>>
  BY DEF CompletionIsAborted, Completing, durable
<1>2. IsActive(id)
  BY <1>1 DEF IInv, TaskInv
<1> QED
  BY <1>1, <1>2, TaskGone, DriveWaits

LEMMA CompletionFailsKeeps ==
  ASSUME IInv, NEW id \in Ids, CompletionFails(id)
  PROVE  IInv'
<1>1. /\ task # None /\ task.op = "COMPLETE" /\ task' = None
      /\ drive' = [drive EXCEPT ![id] = None] /\ TickThrows(id) /\ LoseIfOpen({id})
      /\ UNCHANGED <<store, day, nextId, lastClaim>>
  BY DEF CompletionFails, Completing, DriveEnds, durable
<1> QED
  BY <1>1, TaskGone, DriveLost

(***************************************************************************)
(* Cancellation.                                                           *)
(***************************************************************************)
LEMMA OwnerCancelsKeeps ==
  ASSUME IInv, NEW id \in Ids, OwnerCancels(id)
  PROVE  IInv'
<1>1. UNCHANGED <<store, nextId, lastClaim, task, tick, drive, lost>> /\ day' = day
  BY DEF OwnerCancels, durable
<1> QED
  BY <1>1, IdleStep

LEMMA CancellationIsServedKeeps ==
  ASSUME IInv, NEW id \in Ids, CancellationIsServed(id)
  PROVE  IInv'
<1> DEFINE before == RunOf(store, id)
           run == Cancel(before)
<1>1. /\ task = None /\ drive' = [drive EXCEPT ![id] = None]
      /\ UNCHANGED <<day, task, nextId, lost, lastClaim>>
      /\ \/ /\ id \in RunIds(store) /\ SaveRun(store, run).ok
            /\ store' = SaveRun(store, run).store /\ TickReturns(id)
         \/ /\ ~(id \in RunIds(store) /\ CanStop(before))
            /\ UNCHANGED store /\ TickThrows(id)
  BY DEF CancellationIsServed, Free, DriveEnds
<1>2. TickKept /\ TaskKept
  BY <1>1, TickAfterDrive, TaskGone
<1>3. CASE /\ id \in RunIds(store) /\ SaveRun(store, run).ok
           /\ store' = SaveRun(store, run).store
  <2>1. before \in OrderedRuns
    BY <1>3, RunFacts
  <2>2. Succeeds(before, run) /\ run.status = "CANCELED"
    BY <2>1, StopIsOrdered DEF Cancel
  <2> HIDE DEF run
  <2>3. run.id = id /\ Rewrites(store, store', run)
    BY <1>3, <2>2, StateFacts, SuccessorRewrites
  <2> QED
    BY <1>1, <1>2, <2>2, <2>3, RunLetGo
<1>4. CASE ~(id \in RunIds(store) /\ CanStop(before)) /\ UNCHANGED store
  <2>1. FileKept
    BY <1>1, <1>4, StateFacts, FileStands
  <2>2. DrivesKept /\ \A i \in Ids : i # id => drive'[i] = drive[i]
    BY <1>1, <1>4, DriveEnded
  <2>3. RunIds(store) \subseteq Ids
    BY RunFacts
  <2>4. id \in RunIds(store) => before.status \notin {"QUEUED", "RUNNING"}
    BY <1>4 DEF CanStop, OpenStatuses
  <2>5. \A i \in RunIds(store) : drive[i] # None =>
           \/ drive'[i] # None \/ i \in lost'
           \/ RunOf(store, i).status \notin {"QUEUED", "RUNNING"}
    BY <2>2, <2>3, <2>4
  <2>6. RunningIsAttended'
    BY <1>1, <1>4, <2>5, AttendedStands
  <2> QED
    BY <1>2, <2>1, <2>2, <2>6, Assembled
<1> QED
  BY <1>1, <1>3, <1>4

LEMMA CancellationFailsKeeps ==
  ASSUME IInv, NEW id \in Ids, CancellationFails(id)
  PROVE  IInv'
<1>1. /\ task = None /\ drive' = [drive EXCEPT ![id] = None]
      /\ TickThrows(id) /\ LoseIfOpen({id})
      /\ UNCHANGED <<store, day, task, nextId, lastClaim>>
  BY DEF CancellationFails, Free, DriveEnds, durable
<1> QED
  BY <1>1, TaskGone, DriveLost

--------------------------------------------------------------------------------
(***************************************************************************)
(* Shutdown, crash, restart.                                               *)
(***************************************************************************)
LEMMA ForgettingKeeps ==
  ASSUME IInv, Forgets, UNCHANGED <<store, day, nextId, lastClaim>>,
         \A id \in Unattended : id \in lost'
  PROVE  IInv'
<1>1. task' = None /\ tick' = NoTick /\ drive' = [id \in Ids |-> None]
  BY DEF Forgets
<1>2. FileKept /\ TickKept /\ TaskKept
  BY <1>1, StateFacts, FileStands, TickMoves, TaskGone
<1>3. DrivesKept
  BY <1>1 DEF DrivesKept, DriveInv, IsActive
<1>4. RunningIsAttended'
  BY SameRuns DEF RunningIsAttended, Unattended
<1> QED
  BY <1>2, <1>3, <1>4, Assembled

LEMMA QuitEndsKeeps ==
  ASSUME IInv, QuitEnds
  PROVE  IInv'
<1>1. /\ task = None /\ \A id \in Ids : ~IsActive(id)
      /\ Forgets /\ UNCHANGED <<store, day, nextId, lastClaim, lost>>
  BY DEF QuitEnds, durable
<1>2. \A id \in Unattended : id \in lost
  BY <1>1, RunFacts DEF IInv, RunningIsAttended, Unattended
<1> QED
  BY <1>1, <1>2, ForgettingKeeps

LEMMA CrashKeeps ==
  ASSUME IInv, Crash
  PROVE  IInv'
<1>1. /\ Forgets /\ UNCHANGED <<store, day, nextId, lastClaim>> /\ LoseIfOpen(Unattended)
  BY DEF Crash, durable
<1>2. \A id \in Unattended : id \in lost'
  BY <1>1, OpenIsLost DEF Unattended
<1> QED
  BY <1>1, <1>2, ForgettingKeeps

\* Quitting, closing, restarting and the passing of days touch nothing of it.
LEMMA IdleKeeps ==
  ASSUME IInv,
         \/ Quit \/ ControllerCloses \/ Launch \/ DayPasses
         \/ \E id \in Ids : CloseAdopts(id)
  PROVE  IInv'
<1>1. /\ UNCHANGED <<store, nextId, lastClaim, task, tick, drive, lost>>
      /\ day' = day \/ day' = day + 1
  BY DEF Quit, ControllerCloses, Launch, DayPasses, CloseAdopts, durable, volatile
<1> QED
  BY <1>1, IdleStep

--------------------------------------------------------------------------------
(***************************************************************************)
(* The invariant.                                                          *)
(***************************************************************************)
LEMMA InitKeeps == Init => IInv
<1> SUFFICES ASSUME Init
             PROVE  IInv
  OBVIOUS
<1> DEFINE schedule == [of |-> 1, state |-> "ENABLED", next |-> 1, last |-> 0,
                        pending |-> None]
<1>1. /\ store.rituals = <<InitialRevision(1)>> /\ store.runs = <<>>
      /\ store.runReceipts = {} /\ store.schedules = {schedule}
      /\ store.receipts = {TestReceipt(1, 1)} /\ store.decisions = {}
      /\ store.proposals = <<Proposed>>
      /\ store = [rituals |-> store.rituals, runs |-> store.runs,
                  runReceipts |-> store.runReceipts, receipts |-> store.receipts,
                  proposals |-> store.proposals, decisions |-> store.decisions,
                  schedules |-> store.schedules]
  BY DEF Init, EmptyStore, Proposed
<1>2. /\ day = 0 /\ nextId = 1 /\ lastClaim = 0 /\ task = None /\ tick = NoTick
      /\ drive = [id \in Ids |-> None] /\ lost = {}
  BY DEF Init
<1>3. schedule \in Schedules /\ schedule.of = 1 /\ schedule.next = 1 /\ schedule.pending = None
  BY DEF Schedules
<1> HIDE DEF schedule
<1>4. InitialRevision(1) \in Revisions
  BY DEF InitialRevision, Revisions
<1>5. store \in Stores
  <2>1. store.rituals \in Seq(Revisions) /\ store.runs \in Seq(OrderedRuns)
    BY <1>1, <1>4
  <2>2. store.schedules \subseteq Schedules /\ store.runReceipts \subseteq Receipts
    BY <1>1, <1>3
  <2> QED
    BY <1>1, <2>1, <2>2 DEF Stores
<1>6. Runs(store) = {} /\ RunIds(store) = {}
  BY <1>1 DEF Runs, RunIds, Elements
<1>7. RunsInv
  <2>1. Len(store.runs) = 0
    BY <1>1
  <2> QED
    BY <1>1, <1>6, <2>1, StoreAssumption
       DEF RunsInv, Consistent, ListKept, Distinct, ReceiptsMatch, OpenIsAlone
<1>8. SchedulesInv
  <2>1. LatestRevision(store) = 1 /\ store.rituals # <<>>
    BY <1>1 DEF LatestRevision
  <2> QED
    BY <1>1, <1>2, <1>3, <2>1 DEF SchedulesInv, SchedulesKept
<1>9. TypeOK
  BY <1>2, <1>5, TickForms DEF TypeOK, Ticks
<1>10. HandedOut /\ TaskInv
  BY <1>1, <1>2, <1>3, <1>6 DEF HandedOut, TaskInv
<1>11. DriveInv
  BY <1>2 DEF DriveInv, IsActive
<1>12. RunningIsAttended
  BY <1>6 DEF RunningIsAttended, Unattended
<1> QED
  BY <1>7, <1>8, <1>9, <1>10, <1>11, <1>12 DEF IInv

LEMMA NextKeeps == IInv /\ [Next]_vars => IInv'
<1> SUFFICES ASSUME IInv, [Next]_vars
             PROVE  IInv'
  OBVIOUS
<1>1. CASE TickBegins \/ TickClaims \/ TickAcknowledges \/ TickFails
  BY <1>1, TickBeginsKeeps, TickClaimsKeeps, TickAcknowledgesKeeps, TickFailsKeeps
<1>2. CASE \/ StartScheduledRun \/ OwnerStartsRun \/ OwnerApprovesStep
           \/ SaveQueued \/ SaveStarted \/ StartFails
  BY <1>2, StartScheduledRunKeeps, OwnerStartsRunKeeps, OwnerApprovesStepKeeps,
     SaveQueuedKeeps, SaveStartedKeeps, StartFailsKeeps
<1>3. CASE \/ LoadReads \/ LoadReconciles \/ ConfigureReads \/ PauseReads
           \/ ScheduleIsSaved \/ OwnerApprovesLearning \/ OwnerRestores
  BY <1>3, LoadReadsKeeps, LoadReconcilesKeeps, ConfigureReadsKeeps, PauseReadsKeeps,
     ScheduleIsSavedKeeps, OwnerApprovesLearningKeeps, OwnerRestoresKeeps
<1>4. CASE Quit \/ ControllerCloses \/ QuitEnds \/ Crash \/ Launch \/ DayPasses
  BY <1>4, IdleKeeps, QuitEndsKeeps, CrashKeeps
<1>5. ASSUME NEW id \in Ids,
             \/ DriveStep(id) \/ DriveFails(id) \/ DriveIsLost(id) \/ DriveIsAborted(id)
             \/ CompletionBegins(id) \/ CompletionCommits(id)
             \/ CompletionIsAborted(id) \/ CompletionFails(id)
             \/ OwnerCancels(id) \/ CancellationIsServed(id) \/ CancellationFails(id)
             \/ CloseAdopts(id)
      PROVE  IInv'
  BY <1>5, DriveStepKeeps, DriveFailsKeeps, DriveIsLostKeeps, DriveIsAbortedKeeps,
     CompletionBeginsKeeps, CompletionCommitsKeeps, CompletionIsAbortedKeeps,
     CompletionFailsKeeps, OwnerCancelsKeeps, CancellationIsServedKeeps,
     CancellationFailsKeeps, IdleKeeps
<1>6. CASE UNCHANGED vars
  <2>1. UNCHANGED <<store, nextId, lastClaim, task, tick, drive, lost>> /\ day' = day
    BY <1>6 DEF vars
  <2> QED
    BY <2>1, IdleStep
<1> QED
  BY <1>1, <1>2, <1>3, <1>4, <1>5, <1>6 DEF Next

\* In every reachable state: the file is consistent, what an operation in service has
\* read still holds, a drive holds its run as the file has it, and identities that are
\* given out next are nobody's.
THEOREM RuntimeInvariant == Spec => []IInv
BY InitKeeps, NextKeeps, PTL DEF Spec

\* A run is reviewed if and only if a receipt of it is kept.
THEOREM ReceiptsAreOfReviewedRuns == Spec => []ReceiptIffReviewed
<1>1. IInv => ReceiptIffReviewed
  <2> SUFFICES ASSUME IInv
               PROVE  ReceiptIffReviewed
    OBVIOUS
  <2>1. ReceiptsMatch(store)
    BY StateFacts DEF Consistent
  <2>2. \A r \in Runs(store) : r.id \in RunIds(store) /\ RunOf(store, r.id) = r
    BY StateFacts, RunOfIdentity
  <2> QED
    BY <2>1, <2>2 DEF ReceiptIffReviewed, ReceiptsMatch, Kept, RunWith, Runs
<1> QED
  BY <1>1, RuntimeInvariant, PTL

\* No revision has two open runs.
THEOREM OpenRunIsAlone == Spec => []OneOpenRun
<1>1. IInv => OneOpenRun
  BY StateFacts DEF OneOpenRun, Consistent, OpenIsAlone, Runs
<1> QED
  BY <1>1, RuntimeInvariant, PTL

\* No run that should be executing is stranded, unless a failure has left it.
THEOREM NoRunIsStranded == Spec => []RunningIsAttended
<1>1. IInv => RunningIsAttended
  BY DEF IInv
<1> QED
  BY <1>1, RuntimeInvariant, PTL

\* An enabled schedule is the latest revision's.
THEOREM EnabledScheduleIsLatest == Spec => []EnabledIsLatest
<1>1. IInv => EnabledIsLatest
  BY StateFacts DEF EnabledIsLatest, EnabledSchedules, SchedulesKept
<1> QED
  BY <1>1, RuntimeInvariant, PTL

\* The file is always such as its schema accepts.
THEOREM FileParses == Spec => []StoreParses
<1>1. IInv => StoreParses
  <2> SUFFICES ASSUME IInv
               PROVE  StoreParses
    OBVIOUS
  <2> DEFINE n == Len(store.runs)
             identity == [i \in 1..n |-> store.runs[i].id]
  <2>1. /\ store \in Stores /\ Distinct(store) /\ n \in Nat
        /\ store.schedules \subseteq Schedules
    BY StateFacts, StoreFields
  <2>2. Runs(store) \subseteq OrderedRuns
    BY <2>1, RunsAreOrdered
  <2>3. \A r \in Runs(store) : RunSchema(r)
    BY <2>2, OrderParses
  <2>4. Cardinality(RunIds(store)) = n
    <3>1. identity \in Bijection(1..n, RunIds(store))
      <4>1. identity \in [1..n -> RunIds(store)]
        BY DEF RunIds, Elements
      <4>2. \A i, j \in 1..n : identity[i] = identity[j] => i = j
        BY <2>1 DEF Distinct
      <4>3. \A id \in RunIds(store) : \E i \in 1..n : identity[i] = id
        BY DEF RunIds, Elements
      <4> HIDE DEF identity
      <4> QED
        <5>1. identity \in Injection(1..n, RunIds(store))
          BY <4>1, <4>2 DEF Injection, IsInjective
        <5>2. identity \in Surjection(1..n, RunIds(store))
          BY <4>1, <4>3 DEF Surjection
        <5> QED
          BY <5>1, <5>2 DEF Bijection
    <3>2. IsFiniteSet(1..n) /\ Cardinality(1..n) = n
      <4>1. n \in Nat /\ 1 \in Int /\ n \in Int
        BY <2>1
      <4> HIDE DEF n
      <4>2. IsFiniteSet(1..n) /\ Cardinality(1..n) = IF 1 > n THEN 0 ELSE n - 1 + 1
        BY <4>1, FS_Interval
      <4> QED
        BY <4>1, <4>2
    <3>3. ExistsBijection(1..n, RunIds(store))
      BY <3>1 DEF ExistsBijection
    <3> QED
      BY <3>2, <3>3, FS_Bijection
  <2> QED
    BY <2>1, <2>2, <2>3, <2>4 DEF StoreParses, OrderedRuns, Runs
<1> QED
  BY <1>1, RuntimeInvariant, PTL

\* The due days of the occurrences that are claimed only grow.
THEOREM ClaimsGrow == Spec => OccurrencesGrow
<1>1. IInv /\ [Next]_vars
        => [tick.at = "CLAIM" /\ tick'.at = "START" => lastClaim' > lastClaim]_vars
  <2> SUFFICES ASSUME IInv, Next, tick.at = "CLAIM", tick'.at = "START"
               PROVE  lastClaim' > lastClaim
    OBVIOUS
  <2>1. NoTick.at = "IDLE"
    BY TickKinds
  <2>2. tick' # tick /\ tick' # NoTick
    BY <2>1
  <2>3. ~(TickBegins \/ TickAcknowledges \/ TickFails \/ StartScheduledRun \/ OwnerStartsRun
          \/ OwnerApprovesStep)
    BY <2>1, <2>2 DEF TickBegins, TickAcknowledges, TickFails, StartScheduledRun,
         OwnerStartsRun, OwnerApprovesStep
  <2>4. ~(SaveQueued \/ StartFails)
    BY <2>2 DEF SaveQueued, StartFails, CallerFails
  <2>5. ~SaveStarted
    <3>1. SaveStarted => task # None /\ task.op = "START" /\ task.by = "TICK"
      BY <2>2 DEF SaveStarted, CallerDrives, CallerReturns
    <3> QED
      BY <3>1 DEF IInv, TaskInv
  <2>6. ~(LoadReads \/ LoadReconciles \/ ConfigureReads \/ PauseReads \/ ScheduleIsSaved
          \/ OwnerApprovesLearning \/ OwnerRestores)
    <3>1. PauseReads => UNCHANGED tick
      BY ZenonT(30) DEF PauseReads
    <3> QED
      BY <2>2, <3>1 DEF LoadReads, LoadReconciles, ConfigureReads, ScheduleIsSaved,
           OwnerApprovesLearning, OwnerRestores, volatile
  <2>7. ~(Quit \/ ControllerCloses \/ QuitEnds \/ Crash \/ Launch \/ DayPasses)
    BY <2>2 DEF Quit, ControllerCloses, QuitEnds, Crash, Launch, DayPasses, Forgets, volatile
  <2>8. ASSUME NEW id \in Ids
        PROVE  ~(\/ DriveStep(id) \/ DriveFails(id) \/ DriveIsLost(id) \/ DriveIsAborted(id)
                 \/ CompletionBegins(id) \/ CompletionCommits(id)
                 \/ CompletionIsAborted(id) \/ CompletionFails(id)
                 \/ OwnerCancels(id) \/ CancellationIsServed(id) \/ CancellationFails(id)
                 \/ CloseAdopts(id))
    <3>1. ~TickReturns(id) /\ ~TickThrows(id)
      BY <2>2 DEF TickReturns, TickThrows
    <3> QED
      BY <2>2, <3>1 DEF DriveStep, DriveFails, DriveIsLost, DriveIsAborted,
           CompletionBegins, CompletionCommits, CompletionIsAborted, CompletionFails,
           OwnerCancels, CancellationIsServed, CancellationFails, CloseAdopts
  <2>9. TickClaims
    BY <2>3, <2>4, <2>5, <2>6, <2>7, <2>8 DEF Next
  <2> QED
    BY <2>1, <2>9, ClaimFacts DEF TickClaims
<1> QED
  BY <1>1, RuntimeInvariant, PTL DEF Spec, OccurrencesGrow
===============================================================================
