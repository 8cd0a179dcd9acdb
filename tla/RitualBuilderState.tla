-------------------------- MODULE RitualBuilderState ---------------------------
(***************************************************************************)
(* What the Ritual builder shows: reduceRitualBuilder, an operator for     *)
(* each event.  A shown state s is a record of                             *)
(*   phase     what the owner is asked or told                             *)
(*   draft     the revision of the draft being shaped, 0 before one        *)
(*   request   the question to the Steward that is awaited                 *)
(*   approved  the Ritual's revision, [ritual, rev], or None               *)
(*   receipt   the revision that was tested, or None                       *)
(*   run       the run, [of, status], or None                              *)
(*   source    what is learned from, [kind, of, run], or None              *)
(*   deciding  the decision being saved, or None                           *)
(*   next      the revision being saved, or None                           *)
(*   error     whether a message asks to try again                         *)
(* Texts are left out.  An event outside its phases leaves the state.      *)
(***************************************************************************)
EXTENDS Naturals

CONSTANT None

Blank ==
    [phase |-> "DESCRIBE_PURPOSE", draft |-> 0, request |-> 0, approved |-> None,
     receipt |-> None, run |-> None, source |-> None, deciding |-> None, next |-> None,
     error |-> FALSE]

Editable == {"CHOOSE_TRIGGER", "CHOOSE_REVIEW", "READY_FOR_APPROVAL"}
Restorable == {"APPROVED", "REVIEW_TEST", "REVIEW_RUN", "RUN_FAILED", "RUN_CANCELED"}
Startable == Restorable \union {"RUN_WAITING_FOR_RESOURCE"}
Followed == {"RUNNING_RITUAL", "RUN_WAITING_FOR_OWNER", "RUN_WAITING_FOR_RESOURCE"}

In(s, phases) == s.phase \in phases
To(s, phase) == [s EXCEPT !.phase = phase, !.error = FALSE]
Fails(s) == [s EXCEPT !.error = TRUE]

\* The approved revision and nothing else of it.
Approved(s, revision) ==
    [Blank EXCEPT !.phase = "APPROVED", !.approved = revision, !.request = s.request]

-------------------------------------------------------------------------------
(* Shaping a draft.                                                        *)

SubmitPurpose(s, valid) ==
    IF ~In(s, {"DESCRIBE_PURPOSE"}) THEN s
    ELSE IF ~valid THEN Fails(s)
    ELSE [To(s, "DRAFTING") EXCEPT !.request = @ + 1]

\* Back to the purpose, with what went wrong.
Restated(s) == [Blank EXCEPT !.request = s.request, !.error = TRUE]

StewardAsked(s, request) ==
    IF ~In(s, {"DRAFTING"}) THEN s
    ELSE IF request # s.request THEN Restated(s) ELSE To(s, "CLARIFYING")

AnswerClarification(s, valid) ==
    IF ~In(s, {"CLARIFYING"}) THEN s
    ELSE IF ~valid THEN Fails(s)
    ELSE [To(s, "DRAFTING") EXCEPT !.request = @ + 1]

\* A proposal that does not make a valid draft is refused like a stale one.
StewardProposed(s, request, valid) ==
    IF ~In(s, {"DRAFTING"}) THEN s
    ELSE IF request # s.request \/ ~valid THEN Restated(s)
    ELSE [To(s, "CHOOSE_TRIGGER") EXCEPT !.draft = 1]

StewardFailed(s) == IF In(s, {"DRAFTING"}) THEN Restated(s) ELSE s

Revised(s) == [s EXCEPT !.draft = @ + 1, !.error = FALSE]

SelectTrigger(s, valid) ==
    IF ~In(s, {"CHOOSE_TRIGGER"}) THEN s
    ELSE IF valid THEN To(Revised(s), "CHOOSE_REVIEW") ELSE Fails(s)

SelectReview(s) ==
    IF In(s, {"CHOOSE_REVIEW"}) THEN To(Revised(s), "READY_FOR_APPROVAL") ELSE s

\* The value typed is the one there was, another, or not a valid one.
EditField(s, value) ==
    IF ~In(s, Editable) \/ value = "SAME" THEN s
    ELSE IF value = "INVALID" THEN Fails(s) ELSE Revised(s)

\* The owner approves the revision that was displayed.
Approve(s, ritual, displayed) ==
    IF ~In(s, {"READY_FOR_APPROVAL"}) THEN s
    ELSE IF displayed # s.draft THEN Fails(s)
    ELSE [To(s, "SAVING_APPROVAL") EXCEPT !.next = [ritual |-> ritual, rev |-> 1]]

ApprovalSaved(s) ==
    IF In(s, {"SAVING_APPROVAL"}) THEN Approved(s, s.next) ELSE s

ApprovalSaveFailed(s) ==
    IF In(s, {"SAVING_APPROVAL"})
    THEN [To(s, "READY_FOR_APPROVAL") EXCEPT !.next = None] ELSE s

-------------------------------------------------------------------------------
(* Opening a Ritual: its revision, and what was last recorded of it.       *)

HydrateApprovedRevision(s, revision) ==
    IF In(s, {"DESCRIBE_PURPOSE"}) THEN Approved(s, revision) ELSE s

RevisionRestoreSaved(s, revision) ==
    IF In(s, Restorable) THEN Approved(s, revision) ELSE s

RestoreReceipt(s, of) ==
    IF ~In(s, {"APPROVED"}) THEN s
    ELSE IF of # s.approved THEN Fails(s)
    ELSE [To(s, "REVIEW_TEST") EXCEPT !.receipt = of]

RunStatuses ==
    {"QUEUED", "RUNNING", "WAITING_FOR_OWNER", "WAITING_FOR_RESOURCE", "FAILED", "CANCELED",
     "COMPLETED", "NEEDS_REVIEW"}

PhaseForRun(status) ==
    [QUEUED |-> "RUNNING_RITUAL", RUNNING |-> "RUNNING_RITUAL",
     WAITING_FOR_OWNER |-> "RUN_WAITING_FOR_OWNER",
     WAITING_FOR_RESOURCE |-> "RUN_WAITING_FOR_RESOURCE", FAILED |-> "RUN_FAILED",
     CANCELED |-> "RUN_CANCELED", COMPLETED |-> "RUN_FAILED",
     NEEDS_REVIEW |-> "RUN_FAILED"][status]

Ended == {"COMPLETED", "NEEDS_REVIEW"}

Shows(s, run) ==
    [To(s, PhaseForRun(run.status)) EXCEPT !.run = run, !.source = None]

\* A finished run without its receipt is an error until the receipt follows.
RestoreRun(s, run) ==
    IF ~In(s, {"APPROVED", "REVIEW_TEST", "REVIEW_RUN"}) THEN s
    ELSE IF run.of # s.approved THEN Fails(s)
    ELSE [Shows(s, run) EXCEPT !.error = run.status \in Ended]

\* A receipt of the run shown, with its outcome.
RestoreRunReceipt(s, of, outcome) ==
    IF ~In(s, {"RUNNING_RITUAL", "RUN_FAILED", "RUN_CANCELED"}) THEN s
    ELSE IF of # s.approved \/ outcome # s.run.status THEN Fails(s)
    ELSE To(s, "REVIEW_RUN")

RestoreLearningReview(s, source) ==
    IF ~In(s, {"APPROVED", "REVIEW_TEST", "REVIEW_RUN"}) THEN s
    ELSE IF source.of # s.approved THEN Fails(s)
    ELSE [To(s, "REVIEW_LEARNING") EXCEPT !.source = source, !.receipt = None, !.run = None]

StartNewRitual(s) ==
    IF In(s, Startable)
    THEN [Blank EXCEPT !.phase = "STARTING_NEW_RITUAL", !.approved = s.approved,
                       !.request = s.request]
    ELSE s

NewRitualReady(s) == IF In(s, {"STARTING_NEW_RITUAL"}) THEN Blank ELSE s

-------------------------------------------------------------------------------
(* Tests and runs.                                                         *)

StartTest(s) ==
    IF In(s, {"APPROVED", "REVIEW_TEST"}) THEN To(s, "PREPARING_TEST") ELSE s

SubmitTestSample(s, valid) ==
    IF ~In(s, {"PREPARING_TEST"}) THEN s
    ELSE IF valid THEN To(s, "RUNNING_TEST") ELSE Fails(s)

TestRunReceipt(s, of) ==
    IF ~In(s, {"RUNNING_TEST"}) THEN s
    ELSE IF of # s.approved THEN Fails(To(s, "PREPARING_TEST"))
    ELSE [To(s, "REVIEW_TEST") EXCEPT !.receipt = of]

TestRunFailed(s) ==
    IF In(s, {"RUNNING_TEST"}) THEN Fails(To(s, "PREPARING_TEST")) ELSE s

\* A run that waits for a resource is retried, any other is a new one.
StartRun(s) ==
    IF In(s, Startable)
    THEN [To(s, "STARTING_RUN") EXCEPT
             !.run = IF In(s, {"RUN_WAITING_FOR_RESOURCE"}) THEN @ ELSE None]
    ELSE s

RunUpdated(s, run) ==
    IF ~In(s, Followed \union {"STARTING_RUN"}) THEN s
    ELSE IF run.of # s.approved THEN Fails(s) ELSE Shows(s, run)

ApproveRunStep(s) ==
    IF In(s, {"RUN_WAITING_FOR_OWNER"}) THEN [s EXCEPT !.error = FALSE] ELSE s

CanCancel(s) == In(s, Followed) \/ (In(s, {"STARTING_RUN"}) /\ s.run # None)

CancelRun(s) == IF CanCancel(s) THEN [s EXCEPT !.error = FALSE] ELSE s

RunReceipt(s, run) ==
    IF ~In(s, {"STARTING_RUN", "RUNNING_RITUAL", "RUN_WAITING_FOR_OWNER"}) THEN s
    ELSE IF run.of # s.approved THEN Fails(s)
    ELSE [To(s, "REVIEW_RUN") EXCEPT !.run = run]

\* A start that failed shows what there was before it.
RunCommandFailed(s) ==
    IF ~In(s, {"STARTING_RUN"}) THEN Fails(s)
    ELSE Fails([s EXCEPT !.phase = IF s.run # None THEN PhaseForRun(s.run.status)
                                   ELSE IF s.receipt # None THEN "REVIEW_TEST"
                                   ELSE "APPROVED"])

-------------------------------------------------------------------------------
(* Learning.                                                               *)

StartFeedback(s) ==
    IF In(s, {"REVIEW_TEST", "REVIEW_RUN"})
    THEN [To(s, "GIVE_FEEDBACK") EXCEPT !.receipt = None, !.run = None,
             !.source = [kind |-> IF In(s, {"REVIEW_RUN"}) THEN "RUN" ELSE "TEST",
                         of |-> s.approved]]
    ELSE s

SubmitFeedback(s, valid) ==
    IF ~In(s, {"GIVE_FEEDBACK"}) THEN s
    ELSE IF valid THEN To(s, "SHAPING_LEARNING") ELSE Fails(s)

LearningProposed(s, of) ==
    IF ~In(s, {"SHAPING_LEARNING"}) THEN s
    ELSE IF of = s.approved THEN To(s, "REVIEW_LEARNING") ELSE Fails(To(s, "GIVE_FEEDBACK"))

LearningFailed(s) ==
    IF In(s, {"SHAPING_LEARNING"}) THEN Fails(To(s, "GIVE_FEEDBACK")) ELSE s

ApproveLearning(s) ==
    IF In(s, {"REVIEW_LEARNING"})
    THEN [To(s, "SAVING_LEARNING") EXCEPT
             !.next = [ritual |-> s.approved.ritual, rev |-> s.approved.rev + 1]]
    ELSE s

LearningSaved(s) ==
    IF In(s, {"SAVING_LEARNING"}) THEN Approved(s, s.next) ELSE s

LearningSaveFailed(s) ==
    IF In(s, {"SAVING_LEARNING"})
    THEN [To(s, "REVIEW_LEARNING") EXCEPT !.next = None] ELSE s

Decide(s, decision) ==
    IF In(s, {"REVIEW_LEARNING"})
    THEN [To(s, "SAVING_LEARNING_DECISION") EXCEPT !.deciding = decision] ELSE s

\* Sent back, the source is what the next proposal learns from; rejected, it
\* is reviewed again.
LearningDecisionSaved(s) ==
    IF ~In(s, {"SAVING_LEARNING_DECISION"}) THEN s
    ELSE LET done == [s EXCEPT !.deciding = None]
         IN IF s.deciding = "REVISION_REQUESTED" THEN To(done, "GIVE_FEEDBACK")
            ELSE IF s.source.kind = "RUN"
            THEN [To(done, "REVIEW_RUN") EXCEPT !.source = None,
                     !.run = [of |-> s.source.of, status |-> "NEEDS_REVIEW"]]
            ELSE [To(done, "REVIEW_TEST") EXCEPT !.source = None, !.receipt = s.source.of]

LearningDecisionFailed(s) ==
    IF In(s, {"SAVING_LEARNING_DECISION"})
    THEN [To(s, "REVIEW_LEARNING") EXCEPT !.deciding = None] ELSE s

-------------------------------------------------------------------------------
(* hydrateRitualSnapshot: everything recorded of one Ritual.  A pending    *)
(* review of a proposal stands before the rest.                            *)

Snapshots(revision) ==
    [approved : {revision}, review : {None, "TEST", "RUN"}, receipt : BOOLEAN,
     run : {None, "RUNNING", "WAITING_FOR_OWNER", "WAITING_FOR_RESOURCE", "FAILED",
            "CANCELED", "NEEDS_REVIEW"},
     runReceipt : BOOLEAN]

\* A run's receipt is that of the finished run.
Consistent(snapshot) ==
    /\ snapshot.review # None => ~snapshot.receipt /\ snapshot.run = None
    /\ snapshot.runReceipt <=> snapshot.run \in Ended

\* Nothing was recorded.
Recorded(revision) ==
    [approved |-> revision, review |-> None, receipt |-> FALSE, run |-> None,
     runReceipt |-> FALSE]

HydrateRitualSnapshot(snapshot) ==
    LET of == snapshot.approved
        opened == HydrateApprovedRevision(Blank, of)
        tested == IF snapshot.receipt THEN RestoreReceipt(opened, of) ELSE opened
        ran == IF snapshot.run = None THEN tested
               ELSE RestoreRun(tested, [of |-> of, status |-> snapshot.run])
    IN IF snapshot.review # None
       THEN RestoreLearningReview(opened, [kind |-> snapshot.review, of |-> of])
       ELSE IF snapshot.runReceipt THEN RestoreRunReceipt(ran, of, snapshot.run) ELSE ran
===============================================================================
