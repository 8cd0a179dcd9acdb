---------------------------- MODULE RitualWorkspace ----------------------------
(***************************************************************************)
(* The Ritual builder's window: the renderer (RitualBuilderWorkspace and   *)
(* the controls RitualBuilder offers), the main process behind it          *)
(* (ritual-builder-window), and the calls between them.  Calls arrive in   *)
(* the order they are sent in, and what the main process does before it    *)
(* receives one does not depend on it: sending and receiving are one step. *)
(* Answers come later, and are taken in the order they were given in.      *)
(*                                                                         *)
(*   service  of the main process: the stored revision of every Ritual     *)
(*            (0 before its approval), the schedule of each revision, the  *)
(*            identity the next approval must carry, the Ritual selected   *)
(*   view     of the renderer: what it shows (state), the identity it      *)
(*            drafts under, the schedule shown, [ritual, rev, state] or    *)
(*            None, the revisions whose follow-up talk is shown and, as    *)
(*            history, whether a draft was stranded (LearningReturns)      *)
(*   calls    by slot, the call it holds: its kind, the revision it is of  *)
(*            (for a draft: the identity and the request), its answer, and *)
(*              live     no later command changed the renderer's           *)
(*                       generation                                        *)
(*              fresh    nothing changed automationMutation since (for a   *)
(*                       follow-up: it is the active one)                  *)
(*              current  nothing changed the main process's selectionEpoch *)
(*   queued   the slots in the controller's queue                          *)
(*   replies  the slots answered                                           *)
(* Identities are the Rituals' numbers.  The list of Rituals, the inbox    *)
(* and the audit history are left out.                                     *)
(***************************************************************************)
EXTENDS RitualBuilderState, Sequences, FiniteSets

CONSTANTS
    Slots,       \* the calls outstanding at a time
    Stored,      \* Rituals 1 .. Stored are approved when the window opens ...
    MaxRitual,   \* the last identity
    StoredRev,   \* ... at this revision
    LastRev,     \* by Ritual, its last revision
    MaxDraft,    \* the last revision of a draft
    MaxRequest,  \* the questions to the Steward
    Scheduled,   \* the revisions the owner schedules
    Statuses     \* the statuses a run is reported in

Rituals == 1 .. MaxRitual

ASSUME WorkspaceAssumption ==
    /\ MaxRitual \in Nat /\ Stored \in Rituals /\ StoredRev \in Nat
    /\ Statuses \subseteq RunStatuses
    /\ None \notin {"DRAFT", "APPROVE", "NEW", "TEST", "RUN", "STEP", "CANCEL", "LEARN", "SAVE",
                    "DECIDE", "FOLLOW", "RESTORE", "RESTORED", "SELECT", "REFRESH",
                    "CONFIGURE", "PAUSE"}
    /\ None \notin [ritual : Nat, rev : Nat]
    /\ None \notin [kind : {"TEST", "RUN"}, of : [ritual : Nat, rev : Nat]]

VARIABLES service, view, calls, queued, replies

vars == <<service, view, calls, queued, replies>>

Revision(r, n) == [ritual |-> r, rev |-> n]

NoCall == [kind |-> None, of |-> None, live |-> FALSE, fresh |-> FALSE, current |-> FALSE,
           answer |-> None, failed |-> FALSE]

Init ==
    /\ service = [rev |-> [r \in Rituals |-> IF r <= Stored THEN StoredRev ELSE 0],
                  schedule |-> [r \in Rituals |-> [n \in 1 .. LastRev[r] |-> "OFF"]],
                  identity |-> Stored + 1, selected |-> 1]
    /\ view = [state |-> HydrateRitualSnapshot(Recorded(Revision(1, StoredRev))),
               identity |-> Stored + 1, schedule |-> None, talk |-> {}, stranded |-> FALSE]
    /\ calls = [c \in Slots |-> NoCall]
    /\ queued = <<>> /\ replies = <<>>

-------------------------------------------------------------------------------
(* The references that tell a call it was overtaken.                       *)

\* Another generation.
Overtaken(cs) == [c \in Slots |-> [cs[c] EXCEPT !.live = FALSE]]

\* Another automationMutation.
Moved(cs) ==
    [c \in Slots |-> [cs[c] EXCEPT !.fresh = @ /\ cs[c].kind = "FOLLOW"]]

\* Seeded fault: the question asked stays active.
HushedLater(cs) == cs

\* resetFollowUp: no question is active.
Hushed(cs) ==
    [c \in Slots |-> [cs[c] EXCEPT !.fresh = @ /\ cs[c].kind # "FOLLOW"]]

Awaiting(kinds) == \E c \in Slots : calls[c].kind \in kinds

\* A restoration lasts until the refresh after it.
Restoring == Awaiting({"RESTORE", "RESTORED"})

Free(c) == calls[c].kind = None

-------------------------------------------------------------------------------
(* The main process's handlers, up to their first await.                   *)

\* What the controller does in its queue.
Queued == {"SELECT", "REFRESH", "RESTORED", "RESTORE", "CONFIGURE", "PAUSE"}

\* A draft or an approval of another identity, a question about another Ritual.
Refused(kind, of) ==
    \/ kind \in {"DRAFT", "APPROVE"} /\ of.ritual # service.identity
    \/ kind = "FOLLOW" /\ of.ritual # service.selected

\* A refresh reads the Ritual that is selected now.
Received(kind, of) ==
    [NoCall EXCEPT !.kind = kind, !.live = TRUE, !.fresh = TRUE, !.current = TRUE,
        !.failed = Refused(kind, of),
        !.of = IF kind \in {"REFRESH", "RESTORED"} THEN service.selected ELSE of,
        !.answer = IF kind = "NEW" THEN service.identity + 1 ELSE None]

AnsweredAtOnce(call) ==
    \/ call.failed \/ call.kind = "NEW"
    \/ call.kind \in {"REFRESH", "RESTORED"} /\ call.of = None

\* The call goes out while `back` is on its way back.
Sends(cs, back, c, kind, of) ==
    LET call == Received(kind, of)
        selects == kind \in {"SELECT", "NEW"}
    IN /\ calls' = [b \in Slots |-> IF b = c THEN call
                                    ELSE [cs[b] EXCEPT !.current = @ /\ ~selects]]
       /\ service' = IF kind = "NEW"
                     THEN [service EXCEPT !.identity = @ + 1, !.selected = None] ELSE service
       /\ replies' = IF AnsweredAtOnce(call) THEN Append(back, c) ELSE back
       /\ queued' = IF kind \in Queued /\ ~AnsweredAtOnce(call)
                    THEN Append(queued, c) ELSE queued

Asks(cs, c, kind, of) == Sends(cs, replies, c, kind, of)

-------------------------------------------------------------------------------
(* What the owner does with what is shown.                                 *)

\* The controls, by what they are shown with.
OffersPurpose(s) == In(s, {"DESCRIBE_PURPOSE"})
OffersAnswer(s) == In(s, {"CLARIFYING"})
OffersSample(s) == In(s, {"PREPARING_TEST"})
OffersFeedback(s) == In(s, {"GIVE_FEEDBACK"})
OffersChoices(s) == In(s, {"CHOOSE_TRIGGER", "CHOOSE_REVIEW"})
OffersFields(s) == In(s, Editable)
OffersApproval(s) == In(s, {"READY_FOR_APPROVAL"}) /\ ~s.error
OffersRun(s) == In(s, {"APPROVED", "RUN_WAITING_FOR_RESOURCE", "RUN_FAILED", "RUN_CANCELED"})
OffersStep(s) == In(s, {"RUN_WAITING_FOR_OWNER"})
OffersCancel(s) == CanCancel(s)
OffersRunReview(s) == In(s, {"REVIEW_RUN"})
OffersTestReview(s) == In(s, {"REVIEW_TEST"})
OffersReview(s) == OffersRunReview(s) \/ OffersTestReview(s)
OffersDecision(s) == In(s, {"REVIEW_LEARNING"})

\* An event is taken while no restoration is under way, and no call of the same
\* flag; the answer is one to the generation it starts.
Starts(c, kind, lane, of) ==
    /\ Free(c) /\ ~Restoring /\ ~Awaiting(lane)
    /\ Asks(Overtaken(calls), c, kind, of)

Becomes(next) == next # view.state /\ view' = [view EXCEPT !.state = next]

\* SUBMIT_PURPOSE, SUBMIT_STARTER and ANSWER_CLARIFICATION.
RequestDraft(c) ==
    \E next \in {SubmitPurpose(view.state, TRUE), AnswerClarification(view.state, TRUE)} :
        /\ OffersPurpose(view.state) \/ OffersAnswer(view.state)
        /\ next.request <= MaxRequest
        /\ Becomes(next)
        /\ Starts(c, "DRAFT", {"DRAFT"}, Revision(view.identity, next.request))

\* APPROVE, which leaves the generation.
ApproveDraft(c) ==
    /\ OffersApproval(view.state)
    /\ LET next == Approve(view.state, view.identity, view.state.draft)
       IN Becomes(next) /\ Free(c) /\ ~Restoring /\ Asks(calls, c, "APPROVE", next.next)

\* START_NEW_RITUAL.
RequestNew(c) ==
    /\ In(view.state, {"APPROVED"}) \/ OffersReview(view.state)
    /\ service.identity < MaxRitual
    /\ Becomes(StartNewRitual(view.state)) /\ Starts(c, "NEW", {}, None)

\* SUBMIT_TEST_SAMPLE.
RequestTest(c) ==
    /\ OffersSample(view.state)
    /\ Becomes(SubmitTestSample(view.state, TRUE))
    /\ Starts(c, "TEST", {"TEST"}, view.state.approved)

\* START_RUN.
RequestRun(c) ==
    /\ OffersRun(view.state) \/ OffersReview(view.state)
    /\ Becomes(StartRun(view.state))
    /\ Starts(c, "RUN", {"RUN", "STEP"}, view.state.approved)

\* APPROVE_RUN_STEP.
RequestStep(c) ==
    /\ OffersStep(view.state)
    /\ view' = [view EXCEPT !.state = ApproveRunStep(@)]
    /\ Starts(c, "STEP", {"RUN", "STEP"}, view.state.approved)

\* CANCEL_RUN.
RequestCancel(c) ==
    /\ OffersCancel(view.state)
    /\ view' = [view EXCEPT !.state = CancelRun(@)]
    /\ Starts(c, "CANCEL", {"CANCEL"}, view.state.approved)

Learning == {"LEARN", "SAVE", "DECIDE"}

\* SUBMIT_FEEDBACK.
RequestLearning(c) ==
    /\ OffersFeedback(view.state)
    /\ Becomes(SubmitFeedback(view.state, TRUE))
    /\ Starts(c, "LEARN", Learning, view.state.approved)

\* APPROVE_LEARNING, which leaves the generation.
RequestSave(c) ==
    /\ OffersDecision(view.state) /\ Free(c) /\ ~Restoring /\ ~Awaiting(Learning)
    /\ view.state.approved.rev < LastRev[view.state.approved.ritual]
    /\ Becomes(ApproveLearning(view.state))
    /\ Asks(calls, c, "SAVE", view.state.approved)

\* REVISE_LEARNING and REJECT_LEARNING.
RequestDecision(c) ==
    /\ OffersDecision(view.state)
    /\ \E d \in {"REVISION_REQUESTED", "REJECTED"} : Becomes(Decide(view.state, d))
    /\ Starts(c, "DECIDE", Learning, view.state.approved)

\* The events that call nothing, and the inputs that are not valid.
Local(s) ==
    (IF OffersChoices(s)
     THEN {SelectReview(s)} \union {SelectTrigger(s, valid) : valid \in BOOLEAN} ELSE {})
    \union (IF OffersFields(s)
            THEN {EditField(s, value) : value \in {"SAME", "OTHER", "INVALID"}} ELSE {})
    \union (IF In(s, {"APPROVED"}) \/ OffersTestReview(s) THEN {StartTest(s)} ELSE {})
    \union (IF OffersReview(s) THEN {StartFeedback(s)} ELSE {})
    \union {SubmitPurpose(s, FALSE), AnswerClarification(s, FALSE), SubmitTestSample(s, FALSE),
            SubmitFeedback(s, FALSE)}

OwnerShapes ==
    /\ ~Restoring
    /\ \E next \in Local(view.state) : next.draft <= MaxDraft /\ Becomes(next)
    /\ UNCHANGED <<service, calls, queued, replies>>

\* Seeded fault: only a draft with fields to edit counts.
UnsavedFields == In(view.state, Editable)

UnsavedDraft == view.state.approved = None /\ ~In(view.state, {"DESCRIBE_PURPOSE"})

SelectRitual(c, r) ==
    /\ Free(c) /\ ~Awaiting({"SELECT"}) /\ ~UnsavedDraft
    /\ service.rev[r] > 0
    /\ view.state.approved # None => view.state.approved.ritual # r
    /\ Asks(Moved(Overtaken(calls)), c, "SELECT", Revision(r, 0))
    /\ UNCHANGED view

SubmitFollowUp(c) ==
    /\ Free(c) /\ view.state.approved # None
    /\ ~\E b \in Slots : calls[b].kind = "FOLLOW" /\ calls[b].fresh
    /\ view' = [view EXCEPT !.talk = @ \union {view.state.approved}]
    /\ Asks(calls, c, "FOLLOW", view.state.approved)

\* An earlier revision is restored as a new one.
RestoreRevision(c) ==
    /\ Free(c) /\ ~Restoring /\ In(view.state, Restorable)
    /\ view.state.approved.rev \in 2 .. LastRev[view.state.approved.ritual] - 1
    /\ Asks(Overtaken(calls), c, "RESTORE", view.state.approved)
    /\ UNCHANGED view

Scheduling(c) ==
    Free(c) /\ ~Awaiting({"SELECT", "CONFIGURE", "PAUSE"}) /\ view.state.approved # None

ConfigureSchedule(c) ==
    /\ Scheduling(c) /\ view.state.approved \in Scheduled
    /\ Asks(Moved(calls), c, "CONFIGURE", view.state.approved)
    /\ UNCHANGED view

\* What is paused is the schedule shown.
PauseSchedule(c) ==
    /\ Scheduling(c) /\ view.schedule # None /\ view.schedule.state = "ENABLED"
    /\ Asks(Moved(calls), c, "PAUSE", Revision(view.schedule.ritual, view.schedule.rev))
    /\ UNCHANGED view

\* The timer of an enabled schedule.
RefreshAutomation(c) ==
    /\ Free(c) /\ ~Awaiting({"SELECT"})
    /\ view.schedule # None /\ view.schedule.state = "ENABLED"
    /\ Asks(calls, c, "REFRESH", None)
    /\ UNCHANGED view
-------------------------------------------------------------------------------
(* What the controller does.                                               *)

\* A revision was stored: the Ritual is selected unless a selection came later.
Chosen(call, s) == IF call.current THEN [s EXCEPT !.selected = call.of.ritual] ELSE s

ScheduleOf(r, n) ==
    LET state == service.schedule[r][n]
    IN IF state = "OFF" THEN None ELSE [ritual |-> r, rev |-> n, state |-> state]

\* What a call does once the controller gets to it, as pairs of the service
\* after it and the answer.
Outcomes(call) ==
    LET r == call.of.ritual
        n == call.of.rev
        latest == service.rev[r]
        Stores(schedules) ==
            {<<Chosen(call, [service EXCEPT !.rev[r] = latest + 1, !.schedule[r] = schedules]),
               None>>}
        Schedules(state) ==
            {<<[service EXCEPT !.schedule[r][n] = state],
               [ritual |-> r, rev |-> n, state |-> state]>>}
        paused == [k \in 1 .. LastRev[r] |->
                       IF service.schedule[r][k] = "OFF" THEN "OFF" ELSE "PAUSED"]
    IN CASE call.kind = "SELECT" ->
              {<<Chosen(call, service), [rev |-> latest, schedule |-> ScheduleOf(r, latest)]>>}
         [] call.kind \in {"REFRESH", "RESTORED"} ->
              {<<service, ScheduleOf(call.of, service.rev[call.of])>>}
         [] call.kind = "APPROVE" -> IF latest = 0 THEN Stores(paused) ELSE {}
         [] call.kind = "SAVE" -> IF latest = n THEN Stores(paused) ELSE {}
         [] call.kind = "RESTORE" ->
              IF latest = n
              THEN Stores([paused EXCEPT ![n + 1] = paused[n], ![n] = "OFF"]) ELSE {}
         [] call.kind = "CONFIGURE" -> IF latest = n THEN Schedules("ENABLED") ELSE {}
         [] call.kind = "PAUSE" ->
              IF service.schedule[r][n] # "OFF" THEN Schedules("PAUSED") ELSE {}
         [] OTHER -> {<<service, None>>}

\* Calls of which a failure is another thing than an answer that says so.
Fallible == Queued \union {"APPROVE", "RUN", "STEP", "CANCEL", "SAVE", "DECIDE"}

InService(c) ==
    /\ ~Free(c) /\ \A k \in DOMAIN replies : replies[k] # c
    /\ calls[c].kind \in Queued => queued # <<>> /\ c = Head(queued)

Settle(c) ==
    /\ InService(c)
    /\ queued' = IF calls[c].kind \in Queued THEN Tail(queued) ELSE queued
    /\ replies' = Append(replies, c)
    /\ \/ \E outcome \in Outcomes(calls[c]) :
             service' = outcome[1] /\ calls' = [calls EXCEPT ![c].answer = outcome[2]]
       \/ /\ calls[c].kind \in Fallible
          /\ calls' = [calls EXCEPT ![c].failed = TRUE] /\ UNCHANGED service
    /\ UNCHANGED view

-------------------------------------------------------------------------------
(* The answers, in the renderer.                                           *)

Done(cs, c) ==
    /\ calls' = [cs EXCEPT ![c] = NoCall]
    /\ replies' = Tail(replies)
    /\ UNCHANGED <<service, queued>>

\* refreshAutomation, unless a Ritual is being opened.
Refreshes(cs, c, kind) ==
    IF \E b \in Slots : cs[b].kind = "SELECT" THEN Done(cs, c)
    ELSE Sends(cs, Tail(replies), c, kind, None)

\* The first answer to come, to a call of this kind.
Takes(c, kinds) ==
    replies # <<>> /\ c = Head(replies) /\ calls[c].kind \in kinds

Dropped(c) ==
    /\ Takes(c, {"SELECT", "NEW", "DRAFT", "TEST", "RUN", "STEP", "CANCEL", "LEARN", "DECIDE",
                 "RESTORE"})
    /\ ~calls[c].live
    /\ Done(calls, c) /\ UNCHANGED view

\* A Ritual opens with everything recorded of it.
RitualOpened(c) ==
    /\ Takes(c, {"SELECT"}) /\ calls[c].live
    /\ IF calls[c].failed THEN Done(calls, c) /\ UNCHANGED view
       ELSE /\ Done(Moved(Hushed(calls)), c)
            /\ \E snapshot \in Snapshots(Revision(calls[c].of.ritual, calls[c].answer.rev)) :
                  /\ Consistent(snapshot) /\ snapshot.run \in Statuses \union {None}
                  /\ view' = [view EXCEPT !.state = HydrateRitualSnapshot(snapshot),
                                          !.schedule = calls[c].answer.schedule,
                                          !.talk = {}]

NewRitual(c) ==
    /\ Takes(c, {"NEW"}) /\ calls[c].live
    /\ Done(Moved(Hushed(calls)), c)
    /\ view' = [view EXCEPT !.state = NewRitualReady(@), !.identity = calls[c].answer,
                            !.schedule = None, !.talk = {}]

\* The answers that only change what is shown.
Answered(call, s) ==
    CASE call.kind = "DRAFT" ->
           IF call.failed THEN {StewardFailed(s)}
           ELSE {StewardFailed(s), StewardAsked(s, call.of.rev)} \union
                {StewardProposed(s, call.of.rev, valid) : valid \in BOOLEAN}
      [] call.kind = "TEST" ->
           {TestRunFailed(s)} \union IF call.failed THEN {} ELSE {TestRunReceipt(s, call.of)}
      [] call.kind = "LEARN" ->
           {LearningFailed(s)} \union IF call.failed THEN {} ELSE {LearningProposed(s, call.of)}
      [] call.kind = "DECIDE" ->
           {IF call.failed THEN LearningDecisionFailed(s) ELSE LearningDecisionSaved(s)}

Shown(c) ==
    /\ Takes(c, {"DRAFT", "TEST", "LEARN", "DECIDE"}) /\ calls[c].live
    /\ \E next \in Answered(calls[c], view.state) : view' = [view EXCEPT !.state = next]
    /\ Done(calls, c)

\* publishRunResult: a finished run comes with its receipt.
RunReported(c) ==
    /\ Takes(c, {"RUN", "STEP", "CANCEL"}) /\ calls[c].live
    /\ IF calls[c].failed
       THEN view' = [view EXCEPT !.state = RunCommandFailed(@)] /\ Done(calls, c)
       ELSE /\ \E status \in Statuses :
                  LET run == [of |-> calls[c].of, status |-> status]
                  IN view' = [view EXCEPT !.state = IF status \in Ended THEN RunReceipt(@, run)
                                                    ELSE RunUpdated(@, run)]
            /\ Refreshes(calls, c, "REFRESH")

\* The answers to an approval are taken whatever came between.
ApprovalReturns(c) ==
    /\ Takes(c, {"APPROVE"})
    /\ IF calls[c].failed
       THEN view' = [view EXCEPT !.state = ApprovalSaveFailed(@)] /\ Done(calls, c)
       ELSE /\ view' = [view EXCEPT !.state = ApprovalSaved(@)]
            /\ Refreshes(Moved(calls), c, "REFRESH")

\* A saved revision moves the generation whatever is shown when it is saved: a
\* draft that the owner began meanwhile loses its answer.
LearningReturns(c) ==
    /\ Takes(c, {"SAVE"})
    /\ IF calls[c].failed
       THEN view' = [view EXCEPT !.state = LearningSaveFailed(@)] /\ Done(calls, c)
       ELSE /\ view' = [view EXCEPT !.state = LearningSaved(@), !.talk = {},
                                    !.stranded = @ \/ In(view.state, {"DRAFTING"})]
            /\ Refreshes(Moved(Hushed(Overtaken(calls))), c, "REFRESH")

RevisionRestored(c) ==
    /\ Takes(c, {"RESTORE"}) /\ calls[c].live
    /\ IF calls[c].failed THEN Done(calls, c) /\ UNCHANGED view
       ELSE /\ view' = [view EXCEPT !.talk = {},
                          !.state = RevisionRestoreSaved(@, Revision(calls[c].of.ritual,
                                                                     calls[c].of.rev + 1))]
            /\ Refreshes(Moved(Hushed(calls)), c, "RESTORED")

\* A schedule read or saved is shown unless something moved it since.
ScheduleReturns(c) ==
    /\ Takes(c, {"REFRESH", "RESTORED", "CONFIGURE", "PAUSE"})
    /\ view' = IF calls[c].fresh /\ ~calls[c].failed
               THEN [view EXCEPT !.schedule = calls[c].answer] ELSE view
    /\ Done(calls, c)

FollowUpReturns(c) ==
    /\ Takes(c, {"FOLLOW"})
    /\ view' = IF calls[c].live /\ calls[c].fresh /\ ~calls[c].failed
               THEN [view EXCEPT !.talk = @ \union {calls[c].of}] ELSE view
    /\ Done(calls, c)

Owner(c) ==
    \/ RequestDraft(c) \/ ApproveDraft(c) \/ RequestNew(c) \/ RequestTest(c) \/ RequestRun(c)
    \/ RequestStep(c) \/ RequestCancel(c) \/ RequestLearning(c) \/ RequestSave(c)
    \/ RequestDecision(c) \/ SubmitFollowUp(c) \/ RestoreRevision(c)
    \/ \E r \in Rituals : SelectRitual(c, r)
    \/ ConfigureSchedule(c) \/ PauseSchedule(c) \/ RefreshAutomation(c)

Returns(c) ==
    \/ Dropped(c) \/ RitualOpened(c) \/ NewRitual(c) \/ Shown(c) \/ RunReported(c)
    \/ ApprovalReturns(c) \/ LearningReturns(c) \/ RevisionRestored(c)
    \/ ScheduleReturns(c) \/ FollowUpReturns(c)

Next == OwnerShapes \/ \E c \in Slots : Owner(c) \/ Settle(c) \/ Returns(c)

Spec == Init /\ [][Next]_vars

-------------------------------------------------------------------------------
(* Properties.                                                             *)

Revisions == UNION {[ritual : {r}, rev : 1 .. LastRev[r]] : r \in Rituals}

\* What is on the desk is of one revision: the test's receipt, the run, what is
\* learned from and the follow-up talk all belong to the revision shown, and
\* none is shown with a draft - however late an answer, whichever Ritual was
\* opened, learned or restored meanwhile.
ShownIsOneRevision ==
    LET s == view.state
        OfShown(revision) == s.approved # None /\ revision = s.approved
    IN /\ s.receipt # None => OfShown(s.receipt)
       /\ s.run # None => OfShown(s.run.of)
       /\ s.source # None => OfShown(s.source.of)
       /\ \A revision \in view.talk : OfShown(revision)

\* A draft, an approval or a learned revision shown as being saved has a call
\* whose answer will be taken: no later command, opening or restoration of
\* another Ritual leaves the owner before a screen that waits for nothing, but
\* the late answer to a save of another Ritual's learning strands a draft.
SavesAreAwaited ==
    LET Taken(kind) == \E c \in Slots : calls[c].kind = kind
    IN /\ In(view.state, {"DRAFTING"}) /\ ~view.stranded =>
             \E c \in Slots : calls[c].kind = "DRAFT" /\ calls[c].live
       /\ In(view.state, {"SAVING_APPROVAL"}) => Taken("APPROVE")
       /\ In(view.state, {"SAVING_LEARNING"}) => Taken("SAVE")
===============================================================================
