------------------------------ MODULE RitualRun --------------------------------
(***************************************************************************)
(* The durable record of one execution of an approved Ritual, the reducer  *)
(* that moves it and the answers of the step executor                      *)
(* (packages/contracts/src/rituals.ts, ritual-run-executor.ts).            *)
(*                                                                         *)
(* A step is its index.  The texts of steps, reports and receipts are left *)
(* out; of the evidence is kept whether a search was recorded and whether  *)
(* it found a source, and whether a report was written.  Instants are left *)
(* out: the reducer only copies them.                                      *)
(***************************************************************************)
EXTENDS Integers, FiniteSets

CONSTANTS
    NSteps,      \* number of approved steps
    GatedSteps,  \* the steps whose approval is OWNER_REQUIRED
    Resource     \* what the Ritual reads: "none", "research" or "gmail"

ASSUME StepsAssumption ==
    /\ NSteps \in Nat \ {0}
    /\ GatedSteps \subseteq 1 .. NSteps
    /\ Resource \in {"none", "research", "gmail"}

Steps == 1 .. NSteps

OpenStatuses == {"QUEUED", "RUNNING", "WAITING_FOR_OWNER", "WAITING_FOR_RESOURCE"}
TerminalStatuses == {"COMPLETED", "NEEDS_REVIEW", "FAILED", "CANCELED"}
ActiveStepStatuses == {"WAITING_FOR_OWNER", "WAITING_FOR_RESOURCE", "RUNNING"}
StepStatuses == ActiveStepStatuses \cup {"PENDING", "COMPLETED", "FAILED", "CANCELED"}

\* currentStepKey is null: no step is active.
NoStep == 0

\* found: the retained search (none yet, one without sources, one with);
\* report: a research or a mail report is retained in some step.
RunsOf(ids, ritualRevisions) ==
    [ id : ids, of : ritualRevisions, revision : Nat \ {0},
      status : OpenStatuses \cup TerminalStatuses,
      current : Steps \cup {NoStep}, steps : [Steps -> StepStatuses],
      found : {"none", "empty", "sources"}, report : BOOLEAN ]

IsTerminal(run) == run.status \in TerminalStatuses

ActiveSteps(run) == {k \in Steps : run.steps[k] \in ActiveStepStatuses}

\* The refinements of ritualRunSchema, parsed on every read and every write: at
\* most one active step, which is the current one and agrees with the run's
\* status, and a run that succeeded completed every step.
RunSchema(run) ==
    /\ Cardinality(ActiveSteps(run)) <= 1
    /\ run.current = IF ActiveSteps(run) = {} THEN NoStep
                     ELSE CHOOSE k \in Steps : k \in ActiveSteps(run)
    /\ run.status = "RUNNING" =>
          \A k \in ActiveSteps(run) : run.steps[k] = "RUNNING"
    /\ run.status # "RUNNING" =>
          \A k \in ActiveSteps(run) : run.steps[k] = run.status
    /\ run.status \in {"WAITING_FOR_OWNER", "WAITING_FOR_RESOURCE"} =>
          ActiveSteps(run) # {}
    /\ run.status \in {"COMPLETED", "NEEDS_REVIEW"} =>
          \A k \in Steps : run.steps[k] = "COMPLETED"
    /\ run.report => Resource = "gmail" \/ run.found = "sources"

-------------------------------------------------------------------------------
(***************************************************************************)
(* createRitualRun and reduceRitualRun.  Each event is an operator with the *)
(* guard under which the reducer does not throw.                           *)
(***************************************************************************)
CreateRitualRun(id, ritualRevision) ==
    [ id |-> id, of |-> ritualRevision, revision |-> 1, status |-> "QUEUED",
      current |-> NoStep, steps |-> [k \in Steps |-> "PENDING"],
      found |-> "none", report |-> FALSE ]

Moved(run) == [run EXCEPT !.revision = @ + 1]

\* activateStep: the step after the completed ones waits for the owner or runs.
ActivateStep(run, k) ==
    LET status == IF k \in GatedSteps THEN "WAITING_FOR_OWNER" ELSE "RUNNING"
    IN  [run EXCEPT !.steps[k] = status, !.status = status, !.current = k]

CanStart(run) == run.status = "QUEUED"
Start(run) == ActivateStep(Moved(run), 1)

CanApproveStep(run, k) ==
    /\ run.status = "WAITING_FOR_OWNER"
    /\ run.current = k /\ run.steps[k] = "WAITING_FOR_OWNER"
ApproveStep(run, k) ==
    [Moved(run) EXCEPT !.steps[k] = "RUNNING", !.status = "RUNNING"]

IsExecuting(run) ==
    run.status = "RUNNING" /\ run.current # NoStep /\ run.steps[run.current] = "RUNNING"

WaitForResource(run, found) ==
    [Moved(run) EXCEPT !.steps[run.current] = "WAITING_FOR_RESOURCE",
                       !.status = "WAITING_FOR_RESOURCE", !.found = found]

CheckpointResearch(run, found) == [Moved(run) EXCEPT !.found = found]

CanRetryResource(run) == run.status = "WAITING_FOR_RESOURCE"
RetryResource(run) ==
    [Moved(run) EXCEPT !.steps[run.current] = "RUNNING", !.status = "RUNNING"]

\* Seeded fault: the last step remains the current one.
CompleteStepInPlace(run, found, report) ==
    LET completed == [Moved(run) EXCEPT !.steps[run.current] = "COMPLETED",
                                        !.found = found,
                                        !.report = @ \/ report]
    IN  IF run.current = NSteps THEN completed
        ELSE ActivateStep(completed, run.current + 1)

CompleteStep(run, found, report) ==
    LET completed == [Moved(run) EXCEPT !.steps[run.current] = "COMPLETED",
                                        !.found = found,
                                        !.report = @ \/ report]
    IN  IF run.current = NSteps THEN [completed EXCEPT !.current = NoStep]
        ELSE ActivateStep(completed, run.current + 1)

CanCompleteRun(run) ==
    /\ run.status = "RUNNING" /\ run.current = NoStep
    /\ \A k \in Steps : run.steps[k] = "COMPLETED"
CompleteRun(run) == [Moved(run) EXCEPT !.status = "NEEDS_REVIEW"]

CanStop(run) == run.status \in OpenStatuses

\* stopOpenSteps.
StopOpenSteps(run, status) ==
    [k \in Steps |->
        CASE run.steps[k] = "COMPLETED" -> "COMPLETED"
          [] status = "FAILED" /\ run.steps[k] \in ActiveStepStatuses -> "FAILED"
          [] OTHER -> "CANCELED"]

Stop(run, status) ==
    [Moved(run) EXCEPT !.status = status, !.current = NoStep,
                       !.steps = StopOpenSteps(run, status)]
Fail(run) == Stop(run, "FAILED")
Cancel(run) == Stop(run, "CANCELED")

-------------------------------------------------------------------------------
(***************************************************************************)
(* LocalRitualRunExecutor.completeCurrentStep: what it can answer for the  *)
(* current step of a run.  A provider that is absent or does not answer    *)
(* well makes the run wait; its retained evidence is not asked for again.  *)
(***************************************************************************)
Answer(status, found, report) == [status |-> status, found |-> found, report |-> report]

GmailAnswers(run) ==
    IF run.report THEN {Answer("completed", run.found, FALSE)}
    ELSE {Answer("waiting", run.found, FALSE), Answer("completed", run.found, TRUE)}

ResearchAnswers(run) ==
    CASE run.report -> {Answer("completed", run.found, FALSE)}
      [] ~run.report /\ run.found = "none" ->
            {Answer("waiting", "none", FALSE),
             Answer("checkpointed", "empty", FALSE),
             Answer("checkpointed", "sources", FALSE)}
      [] ~run.report /\ run.found = "empty" -> {Answer("completed", "empty", FALSE)}
      [] ~run.report /\ run.found = "sources" ->
            {Answer("waiting", "sources", FALSE), Answer("completed", "sources", TRUE)}

ExecutorAnswers(run) ==
    CASE Resource = "gmail" -> GmailAnswers(run)
      [] Resource = "research" -> ResearchAnswers(run)
      [] Resource = "none" -> {Answer("completed", run.found, FALSE)}

\* What driveRun makes of an answer.
Follow(run, answer) ==
    CASE answer.status = "checkpointed" -> CheckpointResearch(run, answer.found)
      [] answer.status = "waiting" -> WaitForResource(run, answer.found)
      [] answer.status = "completed" -> CompleteStep(run, answer.found, answer.report)
===============================================================================
