------------------------- MODULE RitualWorkspaceProofs -------------------------
(***************************************************************************)
(* Proofs about RitualWorkspace: whatever the owner opens, and however     *)
(* late answers come, what is shown is of one revision, and what is shown  *)
(* as being saved is waited for.                                           *)
(***************************************************************************)
EXTENDS RitualWorkspace, TLAPS

-------------------------------------------------------------------------------
(***************************************************************************)
(* What is shown.  A phase in which a draft is shaped shows no revision,   *)
(* any other shows one, to which the rest belongs.                         *)
(***************************************************************************)
Revs == [ritual : Nat, rev : Nat]
Runs == [of : Revs, status : RunStatuses]
Sources == [kind : {"TEST", "RUN"}, of : Revs]

Drafting ==
    {"DESCRIBE_PURPOSE", "DRAFTING", "CLARIFYING", "CHOOSE_TRIGGER", "CHOOSE_REVIEW",
     "READY_FOR_APPROVAL", "SAVING_APPROVAL"}
Running ==
    {"STARTING_RUN", "RUNNING_RITUAL", "RUN_WAITING_FOR_OWNER", "RUN_WAITING_FOR_RESOURCE",
     "RUN_FAILED", "RUN_CANCELED", "REVIEW_RUN"}
Learns ==
    {"GIVE_FEEDBACK", "SHAPING_LEARNING", "REVIEW_LEARNING", "SAVING_LEARNING",
     "SAVING_LEARNING_DECISION"}
Phases ==
    Drafting \union Running \union Learns \union
    {"APPROVED", "STARTING_NEW_RITUAL", "PREPARING_TEST", "RUNNING_TEST", "REVIEW_TEST"}

Shapes ==
    [phase : Phases, draft : Nat, request : Nat, approved : Revs \union {None},
     receipt : Revs \union {None}, run : Runs \union {None}, source : Sources \union {None},
     deciding : {None, "REJECTED", "REVISION_REQUESTED"}, next : Revs \union {None},
     error : BOOLEAN]

OfOne(s) ==
    /\ s \in Shapes
    /\ s.phase \in Drafting =>
          s.approved = None /\ s.receipt = None /\ s.run = None /\ s.source = None
    /\ s.phase \notin Drafting => s.approved \in Revs
    /\ s.receipt # None => s.receipt = s.approved
    /\ s.run # None => s.run.of = s.approved
    /\ s.source # None => s.source.of = s.approved
    /\ s.phase \in Learns => s.source \in Sources
    /\ s.phase \in {"SAVING_APPROVAL", "SAVING_LEARNING"} => s.next \in Revs

Waiting == {"DRAFTING", "SAVING_APPROVAL", "SAVING_LEARNING"}

\* What an event may do to what is shown that opens no revision and saves nothing.
Keeps(s, t) ==
    OfOne(t) /\ t.approved = s.approved /\ (t.phase \in Waiting => t.phase = s.phase)

\* What one may do that opens a revision, or none.
Opens(t) == OfOne(t) /\ t.phase \notin Waiting

USE DEF In, To, Fails, Approved

\* Nothing is taken for a source or a revision.
LEMMA NoneApart ==
    /\ \A source \in Sources : source # None
    /\ \A revision \in Revs : revision # None
BY WorkspaceAssumption DEF Revs, Sources

\* Which phase is of which kind.
LEMMA Kinds ==
    /\ \A p \in {"DESCRIBE_PURPOSE", "CLARIFYING", "CHOOSE_TRIGGER", "CHOOSE_REVIEW",
                 "READY_FOR_APPROVAL"} :
          p \in Phases /\ p \in Drafting /\ p \notin Learns /\ p \notin Waiting
    /\ \A p \in {"DRAFTING", "SAVING_APPROVAL"} :
          p \in Phases /\ p \in Drafting /\ p \notin Learns
    /\ \A p \in {"GIVE_FEEDBACK", "SHAPING_LEARNING", "REVIEW_LEARNING",
                 "SAVING_LEARNING_DECISION"} :
          p \in Phases /\ p \notin Drafting /\ p \in Learns /\ p \notin Waiting
    /\ "SAVING_LEARNING" \in Phases /\ "SAVING_LEARNING" \notin Drafting
    /\ "SAVING_LEARNING" \in Learns
    /\ \A p \in {"STARTING_RUN", "RUNNING_RITUAL", "RUN_WAITING_FOR_OWNER",
                 "RUN_WAITING_FOR_RESOURCE", "RUN_FAILED", "RUN_CANCELED", "REVIEW_RUN",
                 "APPROVED", "STARTING_NEW_RITUAL", "PREPARING_TEST", "RUNNING_TEST",
                 "REVIEW_TEST"} :
          p \in Phases /\ p \notin Drafting /\ p \notin Learns /\ p \notin Waiting
BY DEF Phases, Drafting, Learns, Running, Waiting

\* The fields of what is shown.
LEMMA Fields ==
    ASSUME NEW s, OfOne(s)
    PROVE  /\ s \in Shapes /\ s.phase \in Phases /\ s.draft \in Nat /\ s.request \in Nat
           /\ s.draft + 1 \in Nat /\ s.request + 1 \in Nat /\ s.error \in BOOLEAN
           /\ s.approved \in Revs \union {None} /\ s.next \in Revs \union {None}
           /\ s.deciding \in {None, "REJECTED", "REVISION_REQUESTED"}
           /\ s.run \in Runs \union {None} /\ s.source \in Sources \union {None}
           /\ s.receipt \in Revs \union {None} /\ Keeps(s, s)
BY DEF OfOne, Shapes, Keeps

\* Another phase, draft or message with the rest as it was.
Put(s, p, d, q, e) ==
    [s EXCEPT !.phase = p, !.draft = d, !.request = q, !.error = e]

LEMMA PutsOne ==
    ASSUME NEW s, OfOne(s), NEW p \in Phases, NEW d \in Nat, NEW q \in Nat, NEW e \in BOOLEAN,
           p \in Drafting <=> s.phase \in Drafting,
           p \in Learns => s.phase \in Learns,
           p \in {"SAVING_APPROVAL", "SAVING_LEARNING"} => p = s.phase
    PROVE  /\ OfOne(Put(s, p, d, q, e)) /\ Put(s, p, d, q, e).approved = s.approved
           /\ Put(s, p, d, q, e).phase = p
<1> DEFINE t == Put(s, p, d, q, e)
<1>1. /\ t \in Shapes /\ t.approved = s.approved /\ t.receipt = s.receipt /\ t.run = s.run
      /\ t.source = s.source /\ t.next = s.next /\ t.phase = p
  BY DEF OfOne, Shapes, Put
<1> HIDE DEF t
<1>2. OfOne(t) /\ t.approved = s.approved /\ t.phase = p
  BY <1>1 DEF OfOne
<1> QED
  BY <1>2 DEF t

LEMMA Puts ==
    ASSUME NEW s, OfOne(s), NEW p \in Phases, NEW d \in Nat, NEW q \in Nat, NEW e \in BOOLEAN,
           p \in Drafting <=> s.phase \in Drafting,
           p \in Learns => s.phase \in Learns,
           p \in Waiting => p = s.phase
    PROVE  Keeps(s, Put(s, p, d, q, e))
BY PutsOne DEF Keeps, Waiting

-------------------------------------------------------------------------------
(***************************************************************************)
(* Shaping a draft.                                                        *)
(***************************************************************************)
LEMMA FailsKeeps ==
    ASSUME NEW s, OfOne(s)
    PROVE  Keeps(s, Fails(s))
<1>1. Fails(s) = Put(s, s.phase, s.draft, s.request, TRUE)
  BY Fields DEF Put, Shapes
<1>2. /\ s.phase \in Phases /\ s.draft \in Nat /\ s.request \in Nat
      /\ s.phase \in Learns => s.phase \in Learns
  BY Fields
<1> HIDE DEF Fails
<1> QED
  BY <1>1, <1>2, Puts

\* The owner's words send a draft to the Steward, with a question of its own.
LEMMA Submitted ==
    ASSUME NEW s, OfOne(s),
           NEW t \in {SubmitPurpose(s, TRUE), AnswerClarification(s, TRUE)}
    PROVE  t = s \/ (OfOne(t) /\ t.approved = s.approved /\ t.phase = "DRAFTING")
<1>1. t = s \/ (/\ t = Put(s, "DRAFTING", s.draft, s.request + 1, FALSE)
                /\ s.phase \in {"DESCRIBE_PURPOSE", "CLARIFYING"})
  BY Fields DEF SubmitPurpose, AnswerClarification, Put, Shapes
<1>2. /\ s.draft \in Nat /\ s.request + 1 \in Nat
  BY Fields
<1>3. CASE /\ t = Put(s, "DRAFTING", s.draft, s.request + 1, FALSE)
           /\ s.phase \in {"DESCRIBE_PURPOSE", "CLARIFYING"}
  <2>1. /\ s.phase \in Drafting /\ "DRAFTING" \in Drafting /\ "DRAFTING" \in Phases
        /\ "DRAFTING" \notin Learns
    BY <1>3, Kinds
  <2> DEFINE u == Put(s, "DRAFTING", s.draft, s.request + 1, FALSE)
  <2>2. OfOne(u) /\ u.approved = s.approved /\ u.phase = "DRAFTING"
    BY <1>2, <2>1, PutsOne
  <2> QED
    BY <1>3, <2>2
<1> QED
  BY <1>1, <1>3

LEMMA RestatedKeeps ==
    ASSUME NEW s, OfOne(s), s.phase \in Drafting
    PROVE  Keeps(s, Restated(s)) /\ Restated(s).phase = "DESCRIBE_PURPOSE"
<1> DEFINE t == Restated(s)
<1>1. /\ t \in Shapes /\ t.approved = None /\ t.receipt = None /\ t.run = None
      /\ t.source = None /\ t.phase = "DESCRIBE_PURPOSE"
  BY Fields, Kinds DEF Restated, Blank, Shapes
<1>2. s.approved = None
  BY DEF OfOne
<1> HIDE DEF t
<1>3. Keeps(s, t)
  BY <1>1, <1>2, Kinds DEF Keeps, OfOne
<1> QED
  BY <1>1, <1>3 DEF t

\* The Steward's answer ends the draft's wait.
LEMMA StewardKeeps ==
    ASSUME NEW s, OfOne(s), NEW request, NEW valid \in BOOLEAN,
           NEW t \in {StewardFailed(s), StewardAsked(s, request),
                      StewardProposed(s, request, valid)}
    PROVE  Keeps(s, t) /\ t.phase # "DRAFTING"
<1>1. CASE s.phase # "DRAFTING"
  BY <1>1, Fields DEF StewardFailed, StewardAsked, StewardProposed
<1>2. CASE s.phase = "DRAFTING"
  <2>1. \/ t = Restated(s) \/ t = Put(s, "CLARIFYING", s.draft, s.request, FALSE)
        \/ t = Put(s, "CHOOSE_TRIGGER", 1, s.request, FALSE)
    BY <1>2, Fields DEF StewardFailed, StewardAsked, StewardProposed, Put, Shapes
  <2>2. s.draft \in Nat /\ s.request \in Nat /\ 1 \in Nat
    BY Fields
  <2>3. CASE t = Restated(s)
    BY <1>2, <2>3, Kinds, RestatedKeeps
  <2>4. ASSUME NEW p \in {"CLARIFYING", "CHOOSE_TRIGGER"}, NEW d \in Nat,
               t = Put(s, p, d, s.request, FALSE)
        PROVE  Keeps(s, t) /\ t.phase # "DRAFTING"
    <3>1. /\ s.phase \in Drafting /\ p \in Drafting /\ p \in Phases
          /\ p \notin Learns /\ p \notin Waiting
      BY <1>2, Kinds
    <3>2. Keeps(s, t)
      BY <2>2, <2>4, <3>1, Puts
    <3>3. t.phase = p
      BY <2>4, Fields DEF Put, Shapes
    <3> QED
      BY <3>2, <3>3
  <2> QED
    BY <2>1, <2>2, <2>3, <2>4
<1> QED
  BY <1>1, <1>2

\* The owner's choices, and the fields typed.
Choosing == {"CHOOSE_TRIGGER", "CHOOSE_REVIEW", "READY_FOR_APPROVAL"}

LEMMA ShapingKeeps ==
    ASSUME NEW s, OfOne(s), NEW valid \in BOOLEAN, NEW value,
           NEW t \in {SelectTrigger(s, valid), SelectReview(s), EditField(s, value),
                      SubmitPurpose(s, FALSE), AnswerClarification(s, FALSE)}
    PROVE  Keeps(s, t)
<1>1. \/ t = s \/ t = Fails(s)
      \/ /\ s.phase \in Choosing
         /\ \E p \in Choosing : t = Put(s, p, s.draft + 1, s.request, FALSE)
  <2>1. CASE t = SelectTrigger(s, valid)
    BY <2>1, Fields DEF SelectTrigger, Revised, Put, Shapes, Choosing
  <2>2. CASE t = SelectReview(s)
    BY <2>2, Fields DEF SelectReview, Revised, Put, Shapes, Choosing
  <2>3. CASE t = EditField(s, value)
    <3>1. t = s \/ t = Fails(s) \/ (s.phase \in Choosing /\ t = Revised(s))
      BY <2>3 DEF EditField, Editable, Choosing
    <3>2. Revised(s) = Put(s, s.phase, s.draft + 1, s.request, FALSE)
      BY Fields DEF Revised, Put, Shapes
    <3> QED
      BY <3>1, <3>2
  <2>4. CASE t \in {SubmitPurpose(s, FALSE), AnswerClarification(s, FALSE)}
    BY <2>4 DEF SubmitPurpose, AnswerClarification
  <2> QED
    BY <2>1, <2>2, <2>3, <2>4
<1>2. s.draft + 1 \in Nat /\ s.request \in Nat
  BY Fields
<1>3. ASSUME NEW p \in Choosing, s.phase \in Choosing,
             t = Put(s, p, s.draft + 1, s.request, FALSE)
      PROVE  Keeps(s, t)
  BY <1>2, <1>3, Kinds, Puts DEF Choosing
<1> HIDE DEF Fails
<1> QED
  BY <1>1, <1>3, Fields, FailsKeeps

-------------------------------------------------------------------------------
(***************************************************************************)
(* Tests, runs and learning.                                               *)
(***************************************************************************)
Testing == {"APPROVED", "PREPARING_TEST", "RUNNING_TEST", "REVIEW_TEST"}
Teaching == {"GIVE_FEEDBACK", "SHAPING_LEARNING", "REVIEW_LEARNING"}

\* Another phase of the same group, and a message or none.
Turns(s, t) ==
    \/ \E e \in BOOLEAN : t = Put(s, s.phase, s.draft, s.request, e)
    \/ /\ s.phase \in Testing
       /\ \E p \in Testing, e \in BOOLEAN : t = Put(s, p, s.draft, s.request, e)
    \/ /\ s.phase \in Teaching
       /\ \E p \in Teaching, e \in BOOLEAN : t = Put(s, p, s.draft, s.request, e)

LEMMA TurnsKeeps ==
    ASSUME NEW s, OfOne(s), NEW t, Turns(s, t)
    PROVE  Keeps(s, t)
<1>1. /\ s.phase \in Phases /\ s.draft \in Nat /\ s.request \in Nat
  BY Fields
<1>2. ASSUME NEW p, NEW e \in BOOLEAN, t = Put(s, p, s.draft, s.request, e),
             \/ p = s.phase \/ (p \in Testing /\ s.phase \in Testing)
             \/ (p \in Teaching /\ s.phase \in Teaching)
      PROVE  Keeps(s, t)
  <2>1. /\ p \in Phases
        /\ p \in Drafting <=> s.phase \in Drafting
        /\ p \in Learns => s.phase \in Learns
        /\ p \in Waiting => p = s.phase
    BY <1>1, <1>2 DEF Testing, Teaching, Phases, Drafting, Learns, Waiting
  <2> QED
    BY <1>1, <1>2, <2>1, Puts
<1> QED
  BY <1>2 DEF Turns

LEMMA TurnEvents ==
    ASSUME NEW s, OfOne(s), NEW valid \in BOOLEAN, NEW of,
           NEW t \in {StartTest(s), SubmitTestSample(s, valid), TestRunFailed(s),
                      SubmitFeedback(s, valid), LearningProposed(s, of), LearningFailed(s),
                      ApproveRunStep(s), CancelRun(s)}
    PROVE  Keeps(s, t)
<1>1. t = s \/ Turns(s, t)
  <2>1. CASE t = StartTest(s)
    BY <2>1, Fields DEF StartTest, Turns, Testing, Put, Shapes
  <2>2. CASE t = SubmitTestSample(s, valid)
    BY <2>2, Fields DEF SubmitTestSample, Turns, Testing, Put, Shapes
  <2>3. CASE t = TestRunFailed(s)
    BY <2>3, Fields DEF TestRunFailed, Turns, Testing, Put, Shapes
  <2>4. CASE t = SubmitFeedback(s, valid)
    BY <2>4, Fields DEF SubmitFeedback, Turns, Teaching, Put, Shapes
  <2>5. CASE t = LearningProposed(s, of)
    BY <2>5, Fields DEF LearningProposed, Turns, Teaching, Put, Shapes
  <2>6. CASE t = LearningFailed(s)
    BY <2>6, Fields DEF LearningFailed, Turns, Teaching, Put, Shapes
  <2>7. CASE t \in {ApproveRunStep(s), CancelRun(s)}
    BY <2>7, Fields DEF ApproveRunStep, CancelRun, Turns, Put, Shapes
  <2> QED
    BY <2>1, <2>2, <2>3, <2>4, <2>5, <2>6, <2>7
<1> QED
  BY <1>1, Fields, TurnsKeeps

\* A test's receipt.
LEMMA TestKeeps ==
    ASSUME NEW s, OfOne(s), NEW of
    PROVE  /\ Keeps(s, TestRunReceipt(s, of)) /\ Keeps(s, RestoreReceipt(s, of))
           /\ s.phase = "APPROVED" => RestoreReceipt(s, of).phase \in Testing
<1> DEFINE t == [To(s, "REVIEW_TEST") EXCEPT !.receipt = of]
<1>1. ASSUME of = s.approved, s.phase \in Testing
      PROVE  Keeps(s, t) /\ t.phase = "REVIEW_TEST"
  <2>1. s.phase \notin Drafting /\ s.approved \in Revs
    BY <1>1, Kinds DEF OfOne, Testing
  <2>2. /\ t \in Shapes /\ t.approved = s.approved /\ t.receipt = s.approved
        /\ t.run = s.run /\ t.source = s.source /\ t.phase = "REVIEW_TEST"
    <3>1. s \in Shapes /\ of \in Revs \union {None} /\ "REVIEW_TEST" \in Phases
      BY <1>1, <2>1, Fields, Kinds
    <3> QED
      BY <1>1, <3>1 DEF Shapes
  <2> HIDE DEF t
  <2> QED
    BY <2>1, <2>2, Kinds DEF Keeps, OfOne
<1>2. Keeps(s, TestRunReceipt(s, of))
  <2>1. CASE s.phase # "RUNNING_TEST"
    BY <2>1, Fields DEF TestRunReceipt
  <2>2. CASE s.phase = "RUNNING_TEST" /\ of # s.approved
    <3>1. TestRunReceipt(s, of) = TestRunFailed(s)
      BY <2>2 DEF TestRunReceipt, TestRunFailed
    <3> QED
      BY <3>1, TurnEvents
  <2>3. CASE s.phase = "RUNNING_TEST" /\ of = s.approved
    <3>1. TestRunReceipt(s, of) = t
      BY <2>3 DEF TestRunReceipt
    <3> QED
      BY <1>1, <2>3, <3>1 DEF Testing
  <2> QED
    BY <2>1, <2>2, <2>3
<1>3. /\ Keeps(s, RestoreReceipt(s, of))
      /\ s.phase = "APPROVED" => RestoreReceipt(s, of).phase \in Testing
  <2>1. CASE s.phase # "APPROVED"
    BY <2>1, Fields DEF RestoreReceipt
  <2>2. CASE s.phase = "APPROVED" /\ of # s.approved
    <3>1. RestoreReceipt(s, of) = Fails(s)
      BY <2>2 DEF RestoreReceipt
    <3>2. Fails(s).phase = s.phase
      BY Fields DEF Shapes
    <3> HIDE DEF Fails
    <3> QED
      BY <2>2, <3>1, <3>2, FailsKeeps DEF Testing
  <2>3. CASE s.phase = "APPROVED" /\ of = s.approved
    <3>1. RestoreReceipt(s, of) = t
      BY <2>3 DEF RestoreReceipt
    <3> QED
      BY <1>1, <2>3, <3>1 DEF Testing
  <2> QED
    BY <2>1, <2>2, <2>3
<1> QED
  BY <1>2, <1>3

\* A run, as it is reported.
LEMMA ShowsKeeps ==
    ASSUME NEW s, OfOne(s), s.phase \notin Drafting, NEW run \in Runs, run.of = s.approved,
           NEW e \in BOOLEAN
    PROVE  /\ Keeps(s, Shows(s, run)) /\ Keeps(s, [Shows(s, run) EXCEPT !.error = e])
           /\ Shows(s, run).run = run /\ [Shows(s, run) EXCEPT !.error = e].run = run
<1> DEFINE t == Shows(s, run)
           u == [Shows(s, run) EXCEPT !.error = e]
<1>1. PhaseForRun(run.status) \in {"RUNNING_RITUAL", "RUN_WAITING_FOR_OWNER",
                                   "RUN_WAITING_FOR_RESOURCE", "RUN_FAILED", "RUN_CANCELED"}
  BY DEF PhaseForRun, Runs, RunStatuses
<1>2. s.approved \in Revs
  BY DEF OfOne
<1> HIDE DEF PhaseForRun
<1>3. /\ t \in Shapes /\ t.approved = s.approved /\ t.receipt = s.receipt /\ t.run = run
      /\ t.source = None /\ t.phase = PhaseForRun(run.status)
  BY <1>1, Kinds, Fields DEF Shows, Shapes
<1>4. /\ u \in Shapes /\ u.approved = s.approved /\ u.receipt = s.receipt /\ u.run = run
      /\ u.source = None /\ u.phase = PhaseForRun(run.status)
  BY <1>3 DEF Shapes
<1>5. ASSUME NEW x, x \in Shapes, x.approved = s.approved, x.receipt = s.receipt, x.run = run,
             x.source = None, x.phase = PhaseForRun(run.status)
      PROVE  Keeps(s, x)
  <2>1. /\ x.phase \notin Drafting /\ x.phase \notin Learns /\ x.phase \notin Waiting
    BY <1>1, <1>5, Kinds
  <2>2. s.receipt # None => s.receipt = s.approved
    BY DEF OfOne
  <2>3. OfOne(x)
    BY <1>2, <1>5, <2>1, <2>2 DEF OfOne, Waiting
  <2> QED
    BY <1>5, <2>1, <2>3 DEF Keeps
<1> QED
  BY <1>3, <1>4, <1>5

\* What is shown of an approved revision after any event that keeps it.
LEMMA Belongs ==
    ASSUME NEW s, OfOne(s), s.phase \notin Drafting, NEW t \in Shapes, t.approved = s.approved,
           t.phase \notin Drafting, t.phase \notin Waiting,
           t.receipt \in {None, s.receipt, s.approved},
           t.run = s.run \/ t.run = None \/ t.run.of = s.approved,
           t.source = s.source \/ t.source = None \/ t.source.of = s.approved,
           t.phase \in Learns => t.source \in Sources
    PROVE  Keeps(s, t)
<1>1. s.approved \in Revs
  BY DEF OfOne
<1>2. t.receipt # None => t.receipt = t.approved
  BY DEF OfOne
<1>3. /\ t.run # None => t.run.of = t.approved
      /\ t.source # None => t.source.of = t.approved
  BY DEF OfOne
<1>4. t.phase \notin {"SAVING_APPROVAL", "SAVING_LEARNING"}
  BY DEF Waiting
<1>5. OfOne(t)
  BY <1>1, <1>2, <1>3, <1>4 DEF OfOne
<1> QED
  BY <1>5 DEF Keeps

LEMMA RunEvents ==
    ASSUME NEW s, OfOne(s), NEW run \in Runs, NEW of, NEW outcome,
           NEW t \in {RestoreRun(s, run), RunUpdated(s, run), RunReceipt(s, run), StartRun(s),
                      RunCommandFailed(s), RestoreRunReceipt(s, of, outcome)}
    PROVE  Keeps(s, t)
<1>1. CASE t \in {RestoreRun(s, run), RunUpdated(s, run)}
  <2> DEFINE e == run.status \in Ended
             u == [Shows(s, run) EXCEPT !.error = e]
  <2>1. CASE t = s \/ t = Fails(s)
    <3> HIDE DEF Fails
    <3> QED
      BY <2>1, Fields, FailsKeeps
  <2>2. CASE t # s /\ t # Fails(s)
    <3>1. s.phase \notin Drafting /\ run.of = s.approved
      BY <1>1, <2>2, Kinds DEF RestoreRun, RunUpdated, Followed
    <3>2. t = Shows(s, run) \/ t = u
      BY <1>1, <2>2 DEF RestoreRun, RunUpdated
    <3>3. e \in BOOLEAN
      BY DEF Ended
    <3> HIDE DEF e
    <3>4. Keeps(s, Shows(s, run)) /\ Keeps(s, u)
      BY <3>1, <3>3, ShowsKeeps
    <3> HIDE DEF u
    <3> QED
      BY <3>2, <3>4
  <2> QED
    BY <2>1, <2>2
<1>2. CASE t = RunReceipt(s, run)
  <2> DEFINE u == [To(s, "REVIEW_RUN") EXCEPT !.run = run]
  <2>1. \/ t = s \/ t = Fails(s)
        \/ s.phase \notin Drafting /\ run.of = s.approved /\ t = u
    BY <1>2, Kinds DEF RunReceipt
  <2>2. CASE s.phase \notin Drafting /\ run.of = s.approved
    <3>1. s \in Shapes /\ "REVIEW_RUN" \in Phases
      BY Fields, Kinds
    <3>2. /\ u \in Shapes /\ u.approved = s.approved /\ u.run = run /\ u.receipt = s.receipt
          /\ u.source = s.source /\ u.phase = "REVIEW_RUN"
      BY <3>1 DEF Shapes
    <3> HIDE DEF u
    <3> QED
      BY <2>1, <2>2, <3>2, Kinds, Belongs, Fields, FailsKeeps
  <2> HIDE DEF Fails, u
  <2> QED
    BY <2>1, <2>2, Fields, FailsKeeps
<1>3. CASE t = StartRun(s)
  <2>1. CASE ~In(s, Startable)
    BY <1>3, <2>1, Fields DEF StartRun
  <2>2. CASE In(s, Startable)
    <3>1. s \in Shapes /\ "STARTING_RUN" \in Phases /\ s.phase \notin Drafting
      BY <2>2, Fields, Kinds DEF Startable, Restorable
    <3>2. /\ t \in Shapes /\ t.approved = s.approved /\ t.run \in {None, s.run}
          /\ t.receipt = s.receipt /\ t.source = s.source /\ t.phase = "STARTING_RUN"
      BY <1>3, <2>2, <3>1 DEF StartRun, Shapes
    <3> QED
      BY <3>1, <3>2, Kinds, Belongs
  <2> QED
    BY <2>1, <2>2
<1>4. CASE t = RunCommandFailed(s)
  <2>1. CASE s.phase # "STARTING_RUN"
    <3>1. t = Fails(s)
      BY <1>4, <2>1 DEF RunCommandFailed
    <3> HIDE DEF Fails
    <3> QED
      BY <3>1, FailsKeeps
  <2>2. CASE s.phase = "STARTING_RUN"
    <3>1. s \in Shapes /\ s.phase \notin Drafting
      BY <2>2, Fields, Kinds
    <3>2. \E p \in {"RUNNING_RITUAL", "RUN_WAITING_FOR_OWNER", "RUN_WAITING_FOR_RESOURCE",
                    "RUN_FAILED", "RUN_CANCELED", "REVIEW_TEST", "APPROVED"} :
             t = Put(s, p, s.draft, s.request, TRUE)
      <4>1. s.run # None => PhaseForRun(s.run.status) \in
               {"RUNNING_RITUAL", "RUN_WAITING_FOR_OWNER", "RUN_WAITING_FOR_RESOURCE",
                "RUN_FAILED", "RUN_CANCELED"}
        BY Fields DEF PhaseForRun, Runs, RunStatuses
      <4> DEFINE p == IF s.run # None THEN PhaseForRun(s.run.status)
                      ELSE IF s.receipt # None THEN "REVIEW_TEST" ELSE "APPROVED"
      <4> HIDE DEF PhaseForRun
      <4>2. t = [[s EXCEPT !.phase = p] EXCEPT !.error = TRUE]
        BY <1>4, <2>2 DEF RunCommandFailed
      <4>3. t = Put(s, p, s.draft, s.request, TRUE)
        <5> HIDE DEF p
        <5> QED
          BY <4>2, <3>1 DEF Put, Shapes
      <4> QED
        BY <4>1, <4>3
    <3>3. PICK p \in {"RUNNING_RITUAL", "RUN_WAITING_FOR_OWNER", "RUN_WAITING_FOR_RESOURCE",
                      "RUN_FAILED", "RUN_CANCELED", "REVIEW_TEST", "APPROVED"} :
             t = Put(s, p, s.draft, s.request, TRUE)
      BY <3>2
    <3>4. /\ p \in Phases /\ p \notin Drafting /\ p \notin Learns /\ p \notin Waiting
          /\ s.draft \in Nat /\ s.request \in Nat
      BY Kinds, Fields
    <3> QED
      BY <3>1, <3>3, <3>4, Puts
  <2> QED
    BY <2>1, <2>2
<1>5. CASE t = RestoreRunReceipt(s, of, outcome)
  <2>1. \/ t = s \/ t = Fails(s)
        \/ /\ s.phase \in {"RUNNING_RITUAL", "RUN_FAILED", "RUN_CANCELED"}
           /\ t = Put(s, "REVIEW_RUN", s.draft, s.request, FALSE)
    BY <1>5, Fields DEF RestoreRunReceipt, Put, Shapes
  <2>2. ASSUME s.phase \in {"RUNNING_RITUAL", "RUN_FAILED", "RUN_CANCELED"}
        PROVE  Keeps(s, Put(s, "REVIEW_RUN", s.draft, s.request, FALSE))
    <3>1. /\ s.phase \notin Drafting /\ "REVIEW_RUN" \notin Drafting
          /\ "REVIEW_RUN" \in Phases /\ "REVIEW_RUN" \notin Learns
          /\ "REVIEW_RUN" \notin Waiting
      BY <2>2, Kinds
    <3>2. s.draft \in Nat /\ s.request \in Nat
      BY Fields
    <3> QED
      BY <3>1, <3>2, Puts
  <2> HIDE DEF Fails
  <2> QED
    BY <2>1, <2>2, Fields, FailsKeeps
<1> QED
  BY <1>1, <1>2, <1>3, <1>4, <1>5

\* What is learned, from what was shown.
LEMMA LearningEvents ==
    ASSUME NEW s, OfOne(s), NEW source \in Sources,
           NEW decision \in {"REJECTED", "REVISION_REQUESTED"},
           NEW t \in {StartFeedback(s), RestoreLearningReview(s, source), Decide(s, decision),
                      LearningSaveFailed(s), LearningDecisionSaved(s),
                      LearningDecisionFailed(s)}
    PROVE  Keeps(s, t) /\ (t = LearningSaveFailed(s) => t.phase # "SAVING_LEARNING")
<1>1. CASE t = s
  <2>1. ASSUME LearningSaveFailed(s) = s, s.phase = "SAVING_LEARNING"
        PROVE  FALSE
    <3>1. LearningSaveFailed(s).phase = "REVIEW_LEARNING"
      BY <2>1, Fields DEF LearningSaveFailed, Shapes
    <3> QED
      BY <2>1, <3>1
  <2>2. Keeps(s, s)
    BY Fields
  <2> QED
    BY <1>1, <2>1, <2>2
<1>2. CASE t = Fails(s)
  <2>1. t.phase = s.phase
    BY <1>2, Fields DEF Shapes
  <2>2. t = LearningSaveFailed(s) => s.phase # "SAVING_LEARNING"
    BY <2>1, Fields DEF LearningSaveFailed, Shapes
  <2> HIDE DEF Fails
  <2> QED
    BY <1>2, <2>1, <2>2, FailsKeeps
<1>3. ASSUME t # s, t # Fails(s)
      PROVE  /\ s.phase \notin Drafting /\ t \in Shapes /\ t.approved = s.approved
             /\ t.phase \in {"GIVE_FEEDBACK", "REVIEW_LEARNING", "REVIEW_RUN", "REVIEW_TEST",
                             "SAVING_LEARNING_DECISION"}
             /\ t.receipt \in {None, s.receipt, s.approved}
             /\ t.run = s.run \/ t.run = None \/ t.run.of = s.approved
             /\ t.source = s.source \/ t.source = None \/ t.source.of = s.approved
             /\ t.phase \in Learns => t.source \in Sources
  <2>0. s \in Shapes
    BY Fields
  <2>1. CASE t = StartFeedback(s)
    <3>1. s.phase \in {"REVIEW_TEST", "REVIEW_RUN"}
      BY <1>3, <2>1 DEF StartFeedback
    <3>2. s.approved \in Revs /\ s.phase \notin Drafting /\ "GIVE_FEEDBACK" \in Phases
      BY <3>1, Kinds DEF OfOne
    <3>3. [kind |-> IF In(s, {"REVIEW_RUN"}) THEN "RUN" ELSE "TEST", of |-> s.approved]
             \in Sources
      BY <3>2 DEF Sources
    <3> QED
      BY <2>0, <2>1, <3>1, <3>2, <3>3 DEF StartFeedback, Shapes
  <2>2. CASE t = RestoreLearningReview(s, source)
    <3>1. s.phase \in {"APPROVED", "REVIEW_TEST", "REVIEW_RUN"} /\ source.of = s.approved
      BY <1>3, <2>2 DEF RestoreLearningReview
    <3>2. s.phase \notin Drafting /\ "REVIEW_LEARNING" \in Phases
      BY <3>1, Kinds
    <3> QED
      BY <2>0, <2>2, <3>1, <3>2 DEF RestoreLearningReview, Shapes
  <2>3. CASE t \in {Decide(s, decision), LearningSaveFailed(s), LearningDecisionFailed(s)}
    <3>1. s.phase \in {"REVIEW_LEARNING", "SAVING_LEARNING", "SAVING_LEARNING_DECISION"}
      BY <1>3, <2>3 DEF Decide, LearningSaveFailed, LearningDecisionFailed
    <3>2. s.phase \notin Drafting /\ s.phase \in Learns
      BY <3>1, Kinds
    <3>3. s.source \in Sources /\ {"REVIEW_LEARNING", "SAVING_LEARNING_DECISION"} \subseteq Phases
      BY <3>2, Kinds DEF OfOne
    <3>4. CASE t = Decide(s, decision)
      BY <1>3, <2>0, <3>2, <3>3, <3>4 DEF Decide, Shapes
    <3>5. CASE t = LearningSaveFailed(s)
      BY <1>3, <2>0, <3>2, <3>3, <3>5 DEF LearningSaveFailed, Shapes
    <3>6. CASE t = LearningDecisionFailed(s)
      BY <1>3, <2>0, <3>2, <3>3, <3>6 DEF LearningDecisionFailed, Shapes
    <3> QED
      BY <2>3, <3>4, <3>5, <3>6
  <2>4. CASE t = LearningDecisionSaved(s)
    <3>1. s.phase = "SAVING_LEARNING_DECISION"
      BY <1>3, <2>4 DEF LearningDecisionSaved
    <3>2. s.phase \notin Drafting /\ s.phase \in Learns
      BY <3>1, Kinds
    <3>3. /\ s.source \in Sources /\ s.approved \in Revs /\ s.source.of = s.approved
          /\ {"GIVE_FEEDBACK", "REVIEW_RUN", "REVIEW_TEST"} \subseteq Phases
          /\ "REVIEW_RUN" \notin Learns /\ "REVIEW_TEST" \notin Learns
      <4>1. /\ s.source \in Sources /\ s.approved \in Revs
            /\ s.source # None => s.source.of = s.approved
        BY <3>2 DEF OfOne
      <4>2. s.source # None
        BY <4>1, NoneApart
      <4> QED
        BY <4>1, <4>2, Kinds
    <3>4. [of |-> s.source.of, status |-> "NEEDS_REVIEW"] \in Runs
      BY <3>3 DEF Runs, RunStatuses
    <3>5. CASE s.deciding = "REVISION_REQUESTED"
      BY <2>0, <2>4, <3>1, <3>2, <3>3, <3>5 DEF LearningDecisionSaved, Shapes
    <3>6. CASE s.deciding # "REVISION_REQUESTED" /\ s.source.kind = "RUN"
      BY <2>0, <2>4, <3>1, <3>2, <3>3, <3>4, <3>6 DEF LearningDecisionSaved, Shapes
    <3>7. CASE s.deciding # "REVISION_REQUESTED" /\ s.source.kind # "RUN"
      BY <2>0, <2>4, <3>1, <3>2, <3>3, <3>7 DEF LearningDecisionSaved, Shapes
    <3> QED
      BY <3>5, <3>6, <3>7
  <2> QED
    BY <2>1, <2>2, <2>3, <2>4
<1>4. ASSUME t # s, t # Fails(s)
      PROVE  Keeps(s, t) /\ t.phase # "SAVING_LEARNING"
  <2>1. t.phase \notin Drafting /\ t.phase \notin Waiting
    BY <1>3, <1>4, Kinds
  <2> QED
    BY <1>3, <1>4, <2>1, Belongs
<1> QED
  BY <1>1, <1>2, <1>4

\* A revision is sent to be saved.
LEMMA SavingEvents ==
    ASSUME NEW s, OfOne(s), NEW ritual \in Nat
    PROVE  /\ LET t == Approve(s, ritual, s.draft)
              IN t = s \/ (OfOne(t) /\ t.approved = s.approved /\ t.phase = "SAVING_APPROVAL")
           /\ LET t == ApproveLearning(s)
              IN t = s \/ (OfOne(t) /\ t.approved = s.approved /\ t.phase = "SAVING_LEARNING")
<1>0. s \in Shapes
  BY Fields
<1>1. ASSUME s.phase = "READY_FOR_APPROVAL"
      PROVE  LET t == Approve(s, ritual, s.draft)
             IN OfOne(t) /\ t.approved = s.approved /\ t.phase = "SAVING_APPROVAL"
  <2> DEFINE t == Approve(s, ritual, s.draft)
  <2>1. [ritual |-> ritual, rev |-> 1] \in Revs
    BY DEF Revs
  <2>2. /\ t \in Shapes /\ t.approved = s.approved /\ t.receipt = s.receipt
        /\ t.run = s.run /\ t.source = s.source /\ t.next \in Revs
        /\ t.phase = "SAVING_APPROVAL"
    BY <1>0, <1>1, <2>1, Kinds DEF Approve, Shapes
  <2>3. s.phase \in Drafting /\ t.phase \in Drafting /\ t.phase \notin Learns
    BY <1>1, <2>2, Kinds
  <2> HIDE DEF t
  <2>4. OfOne(t)
    BY <2>2, <2>3 DEF OfOne
  <2> QED
    BY <2>2, <2>4 DEF t
<1>2. ASSUME s.phase = "REVIEW_LEARNING"
      PROVE  LET t == ApproveLearning(s)
             IN OfOne(t) /\ t.approved = s.approved /\ t.phase = "SAVING_LEARNING"
  <2> DEFINE t == ApproveLearning(s)
  <2>1. s.approved \in Revs /\ s.source \in Sources
    BY <1>2, Kinds DEF OfOne
  <2>2. [ritual |-> s.approved.ritual, rev |-> s.approved.rev + 1] \in Revs
    BY <2>1 DEF Revs
  <2>3. /\ t \in Shapes /\ t.approved = s.approved /\ t.receipt = s.receipt
        /\ t.run = s.run /\ t.source = s.source /\ t.next \in Revs
        /\ t.phase = "SAVING_LEARNING"
    BY <1>0, <1>2, <2>2, Kinds DEF ApproveLearning, Shapes
  <2>4. s.phase \notin Drafting /\ t.phase \notin Drafting
    BY <1>2, <2>3, Kinds
  <2> HIDE DEF t
  <2>5. OfOne(t)
    BY <2>1, <2>3, <2>4 DEF OfOne
  <2> QED
    BY <2>3, <2>5 DEF t
<1> QED
  BY <1>1, <1>2 DEF Approve, ApproveLearning

-------------------------------------------------------------------------------
(***************************************************************************)
(* Opening a revision, or none.                                            *)
(***************************************************************************)
LEMMA ApprovedOpens ==
    ASSUME NEW s, OfOne(s), NEW revision \in Revs
    PROVE  Opens(Approved(s, revision)) /\ Approved(s, revision).phase = "APPROVED"
<1> DEFINE t == Approved(s, revision)
<1>1. s.request \in Nat
  BY Fields
<1>2. /\ t \in Shapes /\ t.approved = revision /\ t.receipt = None /\ t.run = None
      /\ t.source = None /\ t.phase = "APPROVED"
  BY <1>1, Kinds DEF Blank, Shapes
<1> HIDE DEF t
<1>3. Opens(t)
  BY <1>2, Kinds DEF Opens, OfOne
<1> QED
  BY <1>2, <1>3 DEF t

LEMMA BlankOpens == Opens(Blank) /\ Blank.phase = "DESCRIBE_PURPOSE"
<1>1. /\ Blank \in Shapes /\ Blank.approved = None /\ Blank.receipt = None /\ Blank.run = None
      /\ Blank.source = None /\ Blank.phase = "DESCRIBE_PURPOSE"
  BY Kinds DEF Blank, Shapes
<1> QED
  BY <1>1, Kinds DEF Opens, OfOne

LEMMA ApprovalEvents ==
    ASSUME NEW s, OfOne(s)
    PROVE  /\ Keeps(s, ApprovalSaveFailed(s))
           /\ ApprovalSaveFailed(s).phase # "SAVING_APPROVAL"
           /\ ApprovalSaved(s).phase # "SAVING_APPROVAL"
           /\ \/ Keeps(s, ApprovalSaved(s))
              \/ s.approved = None /\ Opens(ApprovalSaved(s))
<1>1. CASE s.phase # "SAVING_APPROVAL"
  BY <1>1, Fields DEF ApprovalSaveFailed, ApprovalSaved
<1>2. CASE s.phase = "SAVING_APPROVAL"
  <2> DEFINE t == ApprovalSaveFailed(s)
  <2>1. /\ s \in Shapes /\ s.approved = None /\ s.next \in Revs
        /\ "READY_FOR_APPROVAL" \in Phases
    BY <1>2, Fields, Kinds DEF OfOne
  <2>2. /\ t \in Shapes /\ t.approved = s.approved /\ t.receipt = s.receipt
        /\ t.run = s.run /\ t.source = s.source /\ t.phase = "READY_FOR_APPROVAL"
    <3>1. t = [[s EXCEPT !.phase = "READY_FOR_APPROVAL", !.error = FALSE] EXCEPT !.next = None]
      BY <1>2 DEF ApprovalSaveFailed
    <3> QED
      BY <2>1, <3>1 DEF Shapes
  <2> HIDE DEF t
  <2>3. Keeps(s, t)
    BY <1>2, <2>2, Kinds DEF Keeps, OfOne
  <2>4. ApprovalSaved(s) = Approved(s, s.next)
    BY <1>2 DEF ApprovalSaved
  <2> HIDE DEF Approved
  <2>5. Opens(ApprovalSaved(s)) /\ ApprovalSaved(s).phase = "APPROVED"
    BY <2>1, <2>4, ApprovedOpens
  <2> QED
    BY <2>1, <2>2, <2>3, <2>5 DEF t
<1> QED
  BY <1>1, <1>2

\* What opens another revision, or none, if it changes anything.
LEMMA OpeningEvents ==
    ASSUME NEW s, OfOne(s), NEW revision \in Revs,
           NEW t \in {LearningSaved(s), RevisionRestoreSaved(s, revision), NewRitualReady(s)}
    PROVE  /\ OfOne(t) /\ (t.phase \in Waiting => t.phase = s.phase)
           /\ t = LearningSaved(s) => t.phase # "SAVING_LEARNING"
<1>1. CASE t = LearningSaved(s)
  <2>1. CASE s.phase # "SAVING_LEARNING"
    BY <1>1, <2>1, Fields DEF LearningSaved
  <2>2. CASE s.phase = "SAVING_LEARNING"
    <3>1. s.next \in Revs /\ t = Approved(s, s.next)
      BY <1>1, <2>2 DEF OfOne, LearningSaved
    <3> HIDE DEF Approved
    <3>2. Opens(t) /\ t.phase = "APPROVED"
      BY <3>1, ApprovedOpens
    <3> QED
      BY <3>2 DEF Opens
  <2> QED
    BY <2>1, <2>2
<1>2. CASE t = RevisionRestoreSaved(s, revision)
  <2>1. t = s \/ t = Approved(s, revision)
    BY <1>2 DEF RevisionRestoreSaved
  <2> HIDE DEF Approved
  <2>2. t = s \/ (Opens(t) /\ t.phase = "APPROVED")
    BY <2>1, ApprovedOpens
  <2>3. t = LearningSaved(s) => t.phase # "SAVING_LEARNING"
    BY <1>1
  <2> QED
    BY <2>2, <2>3 DEF Opens
<1>3. CASE t = NewRitualReady(s)
  <2>1. t = s \/ t = Blank
    BY <1>3 DEF NewRitualReady
  <2>2. t = LearningSaved(s) => t.phase # "SAVING_LEARNING"
    BY <1>1
  <2> QED
    BY <2>1, <2>2, BlankOpens DEF Opens
<1> QED
  BY <1>1, <1>2, <1>3

LEMMA NewEvents ==
    ASSUME NEW s, OfOne(s)
    PROVE  Keeps(s, StartNewRitual(s))
<1>1. CASE ~In(s, Startable)
  BY <1>1, Fields DEF StartNewRitual
<1>2. CASE In(s, Startable)
  <2> DEFINE t == StartNewRitual(s)
  <2>1. s \in Shapes /\ s.phase \notin Drafting
    BY <1>2, Fields, Kinds DEF Startable, Restorable
  <2>2. /\ t \in Shapes /\ t.approved = s.approved /\ t.receipt = None /\ t.run = None
        /\ t.source = None /\ t.phase = "STARTING_NEW_RITUAL"
    BY <1>2, <2>1, Kinds DEF StartNewRitual, Blank, Shapes
  <2> HIDE DEF t
  <2>3. Keeps(s, t)
    BY <2>1, <2>2, Kinds, Belongs
  <2> QED
    BY <2>3 DEF t
<1> QED
  BY <1>1, <1>2

\* However much is recorded of a revision, it is of that revision.
LEMMA SnapshotOpens ==
    ASSUME NEW revision \in Revs, NEW snapshot \in Snapshots(revision)
    PROVE  Opens(HydrateRitualSnapshot(snapshot))
<1> DEFINE of == snapshot.approved
           opened == HydrateApprovedRevision(Blank, of)
           tested == IF snapshot.receipt THEN RestoreReceipt(opened, of) ELSE opened
           ran == IF snapshot.run = None THEN tested
                  ELSE RestoreRun(tested, [of |-> of, status |-> snapshot.run])
<1>1. of \in Revs
  BY DEF Snapshots
<1>2. Opens(opened)
  <2>1. opened = Approved(Blank, of)
    BY BlankOpens DEF HydrateApprovedRevision
  <2> HIDE DEF opened, Approved
  <2> QED
    BY <1>1, <2>1, BlankOpens, ApprovedOpens DEF Opens
<1> HIDE DEF opened
<1>3. ASSUME NEW s, Opens(s), NEW t, Keeps(s, t)
      PROVE  Opens(t)
  BY <1>3 DEF Keeps, Opens
<1>4. Opens(tested)
  <2>1. Keeps(opened, RestoreReceipt(opened, of)) /\ OfOne(opened)
    BY <1>2, TestKeeps DEF Opens
  <2> QED
    BY <1>2, <1>3, <2>1
<1> HIDE DEF tested
<1>5. Opens(ran)
  <2>1. CASE snapshot.run = None
    BY <1>4, <2>1
  <2>2. CASE snapshot.run # None
    <3> DEFINE run == [of |-> of, status |-> snapshot.run]
    <3>1. snapshot.run \in RunStatuses
      BY <2>2 DEF Snapshots, RunStatuses
    <3>2. run \in Runs
      BY <1>1, <3>1 DEF Runs
    <3> HIDE DEF run
    <3>3. Keeps(tested, RestoreRun(tested, run))
      BY <1>4, <3>2, RunEvents DEF Opens
    <3> QED
      BY <1>3, <1>4, <2>2, <3>3 DEF run
  <2> QED
    BY <2>1, <2>2
<1> HIDE DEF ran
<1>6. Opens(RestoreRunReceipt(ran, of, snapshot.run))
  <2>1. [of |-> of, status |-> "RUNNING"] \in Runs
    BY <1>1 DEF Runs, RunStatuses
  <2>2. Keeps(ran, RestoreRunReceipt(ran, of, snapshot.run))
    BY <1>5, <2>1, RunEvents DEF Opens
  <2> QED
    BY <1>3, <1>5, <2>2
<1>7. snapshot.review # None =>
         Opens(RestoreLearningReview(opened, [kind |-> snapshot.review, of |-> of]))
  <2> DEFINE source == [kind |-> snapshot.review, of |-> of]
  <2>1. snapshot.review # None => source \in Sources
    BY <1>1 DEF Sources, Snapshots
  <2> HIDE DEF source
  <2>2. snapshot.review # None => Keeps(opened, RestoreLearningReview(opened, source))
    BY <1>2, <2>1, LearningEvents DEF Opens
  <2> QED
    BY <1>2, <1>3, <2>2 DEF source
<1> QED
  BY <1>5, <1>6, <1>7 DEF HydrateRitualSnapshot, ran, tested, opened

-------------------------------------------------------------------------------
(***************************************************************************)
(* The calls.  An answer is taken from the head of the replies, which hold *)
(* calls that were answered, each once; a call sent takes a slot of its    *)
(* own or that of the call just taken.                                     *)
(***************************************************************************)
CallKinds ==
    {"DRAFT", "APPROVE", "NEW", "TEST", "RUN", "STEP", "CANCEL", "LEARN", "SAVE", "DECIDE",
     "FOLLOW", "RESTORE", "RESTORED", "SELECT", "REFRESH", "CONFIGURE", "PAUSE"}

\* What a call of this kind is of.
OfKind(kind, of) ==
    /\ kind \in {"RESTORE", "FOLLOW"} => of \in Revs
    /\ kind = "SELECT" => of.ritual \in Rituals

Sound(call) ==
    /\ DOMAIN call = {"kind", "of", "live", "fresh", "current", "answer", "failed"}
    /\ call.kind \in CallKinds \union {None}
    /\ call.live \in BOOLEAN /\ call.fresh \in BOOLEAN /\ call.failed \in BOOLEAN
    /\ OfKind(call.kind, call.of)
    /\ call.kind = "NEW" => call.answer \in Nat

Ready(call) ==
    /\ call.kind # None
    /\ call.kind = "SELECT" /\ ~call.failed => call.answer.rev \in Nat

\* The calls in the slots `rest`, of which the replies `back` are.
Held(cs, back, rest) ==
    /\ DOMAIN cs = Slots
    /\ back \in Seq(rest)
    /\ \A i, j \in 1 .. Len(back) : back[i] = back[j] => i = j
    /\ \A i \in 1 .. Len(back) : Ready(cs[back[i]])
    /\ \A b \in rest :
          /\ Sound(cs[b])
          /\ cs[b].kind = "NEW" => \E i \in 1 .. Len(back) : back[i] = b

ServiceOK(s) ==
    /\ DOMAIN s = {"rev", "schedule", "identity", "selected"}
    /\ s.rev \in [Rituals -> Nat] /\ s.identity \in Nat

\* The same calls, of which some were overtaken.
Dims(cs, ds, rest) ==
    /\ DOMAIN ds = Slots
    /\ \A b \in rest :
          /\ DOMAIN ds[b] = DOMAIN cs[b] /\ ds[b].kind = cs[b].kind /\ ds[b].of = cs[b].of
          /\ ds[b].answer = cs[b].answer /\ ds[b].failed = cs[b].failed
          /\ ds[b].live \in BOOLEAN /\ ds[b].fresh \in BOOLEAN
          /\ ds[b].live => cs[b].live
          /\ ds[b].fresh => cs[b].fresh

LEMMA HeldDims ==
    ASSUME NEW cs, NEW ds, NEW back, NEW rest, Held(cs, back, rest), Dims(cs, ds, rest)
    PROVE  Held(ds, back, rest)
<1>1. \A i \in 1 .. Len(back) : back[i] \in rest
  BY DEF Held
<1>2. \A i \in 1 .. Len(back) : Ready(ds[back[i]])
  BY <1>1 DEF Held, Dims, Ready
<1>3. \A b \in rest : Sound(ds[b])
  BY DEF Held, Dims, Sound
<1> QED
  BY <1>2, <1>3 DEF Held, Dims

LEMMA DimsTwice ==
    ASSUME NEW cs, NEW ds, NEW es, NEW rest, Dims(cs, ds, rest), Dims(ds, es, rest)
    PROVE  Dims(cs, es, rest)
BY DEF Dims

\* What overtakes calls leaves them what they are.
LEMMA Overtaking ==
    ASSUME NEW cs, NEW rest, rest \subseteq Slots, DOMAIN cs = Slots, \A b \in rest : Sound(cs[b])
    PROVE  /\ Dims(cs, cs, rest) /\ Dims(cs, Overtaken(cs), rest)
           /\ Dims(cs, Moved(cs), rest) /\ Dims(cs, Hushed(cs), rest)
           /\ \A b \in rest : /\ ~Overtaken(cs)[b].live
                              /\ Moved(cs)[b].live = cs[b].live
                              /\ Hushed(cs)[b].live = cs[b].live
                              /\ Hushed(cs)[b].kind = "FOLLOW" => ~Hushed(cs)[b].fresh
<1>1. Dims(cs, cs, rest)
  BY DEF Dims, Sound
<1>2. Dims(cs, Overtaken(cs), rest) /\ \A b \in rest : ~Overtaken(cs)[b].live
  BY DEF Dims, Sound, Overtaken
<1>3. Dims(cs, Moved(cs), rest) /\ \A b \in rest : Moved(cs)[b].live = cs[b].live
  BY DEF Dims, Sound, Moved
<1>4. /\ Dims(cs, Hushed(cs), rest)
      /\ \A b \in rest : /\ Hushed(cs)[b].live = cs[b].live
                         /\ Hushed(cs)[b].kind = "FOLLOW" => ~Hushed(cs)[b].fresh
  BY DEF Dims, Sound, Hushed
<1> QED
  BY <1>1, <1>2, <1>3, <1>4

\* The call in c is another, or none; the others are as they are in ds.
After(c, ds, es) ==
    \A b \in Slots \ {c} :
        es[b].kind = ds[b].kind /\ es[b].of = ds[b].of /\ es[b].live = ds[b].live
        /\ es[b].fresh = ds[b].fresh

\* A slot that is free, or whose call was just taken.
LEMMA FreeHeld ==
    ASSUME NEW c \in Slots, Held(calls, replies, Slots), Free(c)
    PROVE  Held(calls, replies, Slots \ {c})
<1>1. \A i \in 1 .. Len(replies) : replies[i] # c
  BY DEF Held, Ready, Free
<1>2. replies \in Seq(Slots \ {c})
  <2>1. replies \in Seq(Slots)
    BY DEF Held
  <2>2. \A i \in 1 .. Len(replies) : replies[i] \in Slots \ {c}
    BY <1>1, <2>1
  <2> QED
    BY <2>1, <2>2
<1> QED
  BY <1>2 DEF Held

LEMMA TakenHeld ==
    ASSUME NEW c \in Slots, Held(calls, replies, Slots), replies # <<>>, c = Head(replies)
    PROVE  Held(calls, Tail(replies), Slots \ {c})
<1> DEFINE back == Tail(replies)
<1>1. replies \in Seq(Slots) /\ back \in Seq(Slots) /\ Len(back) = Len(replies) - 1
  BY DEF Held
<1>2. \A i \in 1 .. Len(back) : i + 1 \in 1 .. Len(replies) /\ back[i] = replies[i + 1]
  BY <1>1
<1>3. c = replies[1] /\ 1 \in 1 .. Len(replies)
  BY <1>1
<1>4. \A i \in 1 .. Len(back) : back[i] \in Slots \ {c}
  <2> TAKE i \in 1 .. Len(back)
  <2>1. i + 1 # 1 /\ i + 1 \in 1 .. Len(replies) /\ back[i] = replies[i + 1]
    BY <1>1, <1>2
  <2>2. replies[i + 1] # replies[1]
    BY <1>3, <2>1 DEF Held
  <2>3. back[i] \in Slots
    BY <1>1
  <2> QED
    BY <1>3, <2>1, <2>2, <2>3
<1> HIDE DEF back
<1>5. back \in Seq(Slots \ {c})
  BY <1>1, <1>4
<1>6. \A i, j \in 1 .. Len(back) : back[i] = back[j] => i = j
  <2> TAKE i, j \in 1 .. Len(back)
  <2> HAVE back[i] = back[j]
  <2>1. /\ i + 1 \in 1 .. Len(replies) /\ j + 1 \in 1 .. Len(replies)
        /\ replies[i + 1] = replies[j + 1]
    BY <1>2
  <2>2. i + 1 = j + 1
    BY <2>1 DEF Held
  <2> QED
    BY <1>1, <2>2
<1>7. \A i \in 1 .. Len(back) : Ready(calls[back[i]])
  BY <1>2 DEF Held
<1>8. ASSUME NEW b \in Slots \ {c}, calls[b].kind = "NEW"
      PROVE  \E i \in 1 .. Len(back) : back[i] = b
  <2>1. PICK k \in 1 .. Len(replies) : replies[k] = b
    BY <1>8 DEF Held
  <2>2. k # 1
    BY <1>3, <2>1
  <2>3. k - 1 \in 1 .. Len(back) /\ (k - 1) + 1 = k
    BY <1>1, <2>2
  <2> QED
    BY <1>2, <2>1, <2>3
<1> QED
  BY <1>5, <1>6, <1>7, <1>8 DEF Held, back

\* A call that is given its slot.
LEMMA Placed ==
    ASSUME NEW c \in Slots, NEW ds, NEW back, Held(ds, back, Slots \ {c}),
           NEW es, DOMAIN es = Slots, After(c, ds, es), NEW away, away \in {back, Append(back, c)},
           \A b \in Slots \ {c} : /\ es[b].answer = ds[b].answer /\ es[b].failed = ds[b].failed
                                  /\ DOMAIN es[b] = DOMAIN ds[b],
           Sound(es[c]), away # back => Ready(es[c]),
           es[c].kind = "NEW" => away # back
    PROVE  Held(es, away, Slots)
<1>1. \A b \in Slots \ {c} : Sound(es[b]) /\ (Ready(ds[b]) => Ready(es[b]))
  BY DEF Held, After, Sound, Ready
<1>2. \A i \in 1 .. Len(back) : back[i] \in Slots \ {c}
  BY DEF Held
<1>3. back \in Seq(Slots)
  BY <1>2 DEF Held
<1>4. CASE away = back
  BY <1>1, <1>2, <1>3, <1>4 DEF Held, After
<1>5. CASE away # back
  <2>1. /\ away \in Seq(Slots) /\ Len(away) = Len(back) + 1 /\ away[Len(back) + 1] = c
        /\ \A i \in 1 .. Len(back) : away[i] = back[i]
    BY <1>3, <1>5
  <2>2. \A i \in 1 .. Len(away) : i \in 1 .. Len(back) \/ i = Len(back) + 1
    BY <1>3, <2>1
  <2>3. \A i, j \in 1 .. Len(away) : away[i] = away[j] => i = j
    BY <1>2, <2>1, <2>2 DEF Held
  <2>4. \A i \in 1 .. Len(away) : Ready(es[away[i]])
    BY <1>1, <1>2, <1>5, <2>1, <2>2 DEF Held
  <2>5. \A i \in 1 .. Len(back) : i \in 1 .. Len(away)
    BY <1>3, <2>1
  <2>6. Len(back) + 1 \in 1 .. Len(away)
    BY <1>3, <2>1
  <2>7. \A b \in Slots : es[b].kind = "NEW" => \E i \in 1 .. Len(away) : away[i] = b
    <3> TAKE b \in Slots
    <3>1. CASE b = c
      BY <2>1, <2>6, <3>1
    <3>2. CASE b # c
      BY <2>1, <2>5, <3>2 DEF Held, After
    <3> QED
      BY <3>1, <3>2
  <2> QED
    BY <1>1, <2>1, <2>3, <2>4, <2>7 DEF Held
<1> QED
  BY <1>4, <1>5

LEMMA SendsAfter ==
    ASSUME NEW c \in Slots, NEW ds, NEW back, Held(ds, back, Slots \ {c}), ServiceOK(service),
           NEW kind \in CallKinds, NEW of, OfKind(kind, of), Sends(ds, back, c, kind, of)
    PROVE  /\ Held(calls', replies', Slots) /\ ServiceOK(service') /\ After(c, ds, calls')
           /\ calls'[c].kind = kind /\ calls'[c].live
           /\ kind \notin {"REFRESH", "RESTORED"} => calls'[c].of = of
<1> DEFINE call == Received(kind, of)
           es == calls'
<1>1. /\ DOMAIN call = {"kind", "of", "live", "fresh", "current", "answer", "failed"}
      /\ call.kind = kind /\ call.live = TRUE /\ call.fresh = TRUE
      /\ call.failed = Refused(kind, of)
      /\ kind \notin {"REFRESH", "RESTORED"} => call.of = of
      /\ kind = "NEW" => call.answer = service.identity + 1
  BY DEF Received, NoCall
<1>2. Refused(kind, of) \in BOOLEAN
  BY DEF Refused
<1>3. kind = "SELECT" => ~Refused(kind, of)
  BY DEF Refused
<1>4. Sound(call)
  <2>1. OfKind(call.kind, call.of)
    BY <1>1 DEF OfKind
  <2>2. call.kind = "NEW" => call.answer \in Nat
    BY <1>1 DEF ServiceOK
  <2> QED
    BY <1>1, <1>2, <2>1, <2>2 DEF Sound
<1>5. /\ DOMAIN es = Slots /\ es[c] = call
      /\ \A b \in Slots \ {c} :
           es[b] = [ds[b] EXCEPT !.current = @ /\ kind \notin {"SELECT", "NEW"}]
  BY DEF Sends
<1> HIDE DEF es
<1>6. \A b \in Slots \ {c} :
         /\ es[b].kind = ds[b].kind /\ es[b].of = ds[b].of /\ es[b].live = ds[b].live
         /\ es[b].fresh = ds[b].fresh /\ es[b].answer = ds[b].answer
         /\ es[b].failed = ds[b].failed /\ DOMAIN es[b] = DOMAIN ds[b]
  <2> TAKE b \in Slots \ {c}
  <2> DEFINE current == ds[b].current /\ kind \notin {"SELECT", "NEW"}
  <2>1. es[b] = [ds[b] EXCEPT !.current = current]
    BY <1>5
  <2> HIDE DEF current, call
  <2> QED
    BY <2>1
<1>7. replies' = IF AnsweredAtOnce(call) THEN Append(back, c) ELSE back
  BY DEF Sends
<1>8. call.kind = "NEW" => AnsweredAtOnce(call)
  BY DEF AnsweredAtOnce
<1>9. Ready(call) \/ ~AnsweredAtOnce(call)
  <2>1. kind # None
    BY WorkspaceAssumption DEF CallKinds
  <2>2. CASE kind # "SELECT"
    BY <1>1, <2>1, <2>2 DEF Ready
  <2>3. CASE kind = "SELECT"
    BY <1>1, <1>3, <2>3 DEF AnsweredAtOnce
  <2> QED
    BY <2>2, <2>3
<1> HIDE DEF call
<1>10. back \in Seq(Slots) /\ Append(back, c) # back
  <2>1. back \in Seq(Slots)
    <3>1. back \in Seq(Slots \ {c})
      BY DEF Held
    <3> QED
      BY <3>1
  <2>2. Len(Append(back, c)) = Len(back) + 1 /\ Len(back) \in Nat
    BY <2>1
  <2> QED
    BY <2>1, <2>2
<1>11. After(c, ds, es)
  BY <1>6 DEF After
<1>12. Held(es, replies', Slots)
  <2> DEFINE away == replies'
  <2>1. away \in {back, Append(back, c)} /\ (away # back => Ready(es[c]))
    BY <1>5, <1>7, <1>9
  <2>2. es[c].kind = "NEW" => away # back
    BY <1>5, <1>7, <1>8, <1>10
  <2> HIDE DEF away
  <2>3. Held(es, away, Slots)
    BY <1>4, <1>5, <1>6, <1>11, <2>1, <2>2, Placed
  <2> QED
    BY <2>3 DEF away
<1>13. ServiceOK(service')
  BY DEF Sends, ServiceOK
<1> QED
  BY <1>1, <1>5, <1>11, <1>12, <1>13 DEF es

LEMMA DoneAfter ==
    ASSUME NEW c \in Slots, NEW ds, Held(ds, Tail(replies), Slots \ {c}), ServiceOK(service),
           Done(ds, c)
    PROVE  /\ Held(calls', replies', Slots) /\ ServiceOK(service') /\ After(c, ds, calls')
           /\ calls'[c].kind = None
<1> DEFINE back == Tail(replies)
           es == calls'
<1>1. DOMAIN es = Slots /\ es[c] = NoCall /\ \A b \in Slots \ {c} : es[b] = ds[b]
  BY DEF Done, Held
<1>2. NoCall.kind = None /\ Sound(NoCall)
  BY WorkspaceAssumption DEF NoCall, Sound, OfKind
<1>3. replies' = back /\ service' = service
  BY DEF Done
<1> HIDE DEF es, back
<1>4. After(c, ds, es)
  BY <1>1 DEF After
<1>5. NoCall.kind # "NEW"
  BY <1>2, WorkspaceAssumption
<1>6. Held(es, back, Slots)
  BY <1>1, <1>2, <1>4, <1>5, Placed DEF back
<1> QED
  BY <1>1, <1>2, <1>3, <1>4, <1>6 DEF es

\* The slot of a call taken is free, or holds a refresh.
LEMMA RefreshesAfter ==
    ASSUME NEW c \in Slots, NEW ds, Held(ds, Tail(replies), Slots \ {c}), ServiceOK(service),
           NEW kind \in {"REFRESH", "RESTORED"}, Refreshes(ds, c, kind)
    PROVE  /\ Held(calls', replies', Slots) /\ ServiceOK(service') /\ After(c, ds, calls')
           /\ calls'[c].kind \in {None, "REFRESH", "RESTORED"}
<1>1. CASE Done(ds, c)
  BY <1>1, DoneAfter
<1>2. CASE Sends(ds, Tail(replies), c, kind, None)
  <2>1. kind \in CallKinds /\ OfKind(kind, None)
    BY DEF CallKinds, OfKind
  <2> QED
    BY <1>2, <2>1, SendsAfter
<1> QED
  BY <1>1, <1>2 DEF Refreshes

\* The controller's answer.
LEMMA OutcomesSound ==
    ASSUME NEW call, Sound(call), ServiceOK(service), NEW outcome \in Outcomes(call)
    PROVE  ServiceOK(outcome[1]) /\ (call.kind = "SELECT" => outcome[2].rev \in Nat)
<1> DEFINE r == call.of.ritual
           n == call.of.rev
           latest == service.rev[r]
<1>1. ASSUME NEW s, ServiceOK(s)
      PROVE  ServiceOK(Chosen(call, s))
  BY <1>1 DEF Chosen, ServiceOK
<1>2. ASSUME NEW schedules
      PROVE  ServiceOK([service EXCEPT !.rev[r] = latest + 1, !.schedule[r] = schedules])
  <2> DEFINE s == [service EXCEPT !.rev[r] = latest + 1, !.schedule[r] = schedules]
  <2>1. /\ DOMAIN s = {"rev", "schedule", "identity", "selected"}
        /\ s.rev = [service.rev EXCEPT ![r] = latest + 1] /\ s.identity = service.identity
    BY DEF ServiceOK
  <2>2. [service.rev EXCEPT ![r] = latest + 1] \in [Rituals -> Nat]
    <3>1. CASE r \in Rituals
      BY <3>1 DEF ServiceOK
    <3>2. CASE r \notin Rituals
      BY <3>2 DEF ServiceOK
    <3> QED
      BY <3>1, <3>2
  <2> HIDE DEF s
  <2> QED
    BY <2>1, <2>2 DEF ServiceOK, s
<1>3. ASSUME NEW state
      PROVE  ServiceOK([service EXCEPT !.schedule[r][n] = state])
  BY DEF ServiceOK
<1>4. CASE call.kind = "SELECT"
  <2>1. outcome = <<Chosen(call, service), [rev |-> latest, schedule |-> ScheduleOf(r, latest)]>>
    BY <1>4 DEF Outcomes
  <2>2. latest \in Nat
    BY <1>4 DEF Sound, OfKind, ServiceOK
  <2> QED
    BY <1>1, <2>1, <2>2
<1>5. CASE call.kind # "SELECT"
  <2> DEFINE Saved(schedules) ==
                 Chosen(call, [service EXCEPT !.rev[r] = latest + 1, !.schedule[r] = schedules])
             Set(state) == [service EXCEPT !.schedule[r][n] = state]
             paused == [k \in 1 .. LastRev[r] |->
                            IF service.schedule[r][k] = "OFF" THEN "OFF" ELSE "PAUSED"]
             moved == [paused EXCEPT ![n + 1] = paused[n], ![n] = "OFF"]
  <2>1. /\ ServiceOK(Saved(paused)) /\ ServiceOK(Saved(moved))
        /\ ServiceOK(Set("ENABLED")) /\ ServiceOK(Set("PAUSED"))
    BY <1>1, <1>2, <1>3
  <2>2. CASE call.kind \in {"APPROVE", "SAVE"}
    <3>1. outcome[1] = Saved(paused)
      BY <2>2 DEF Outcomes
    <3> QED
      BY <1>5, <2>1, <3>1
  <2>3. CASE call.kind = "RESTORE"
    <3>1. outcome[1] = Saved(moved)
      BY <2>3 DEF Outcomes
    <3> QED
      BY <1>5, <2>1, <3>1
  <2>4. CASE call.kind \in {"CONFIGURE", "PAUSE"}
    <3>1. outcome[1] \in {Set("ENABLED"), Set("PAUSED")}
      BY <2>4 DEF Outcomes
    <3> QED
      BY <1>5, <2>1, <3>1
  <2>5. CASE call.kind \notin {"APPROVE", "SAVE", "RESTORE", "CONFIGURE", "PAUSE"}
    <3>1. outcome[1] = service
      BY <1>5, <2>5 DEF Outcomes
    <3> QED
      BY <1>5, <3>1
  <2> QED
    BY <2>2, <2>3, <2>4, <2>5
<1> QED
  BY <1>4, <1>5

-------------------------------------------------------------------------------
(***************************************************************************)
(* The inductive invariant.  What is shown is of one revision, and so is   *)
(* the talk; a follow-up whose answer will be taken asks about that        *)
(* revision; and what is shown as being saved has its call.                *)
(***************************************************************************)
ViewOK(v) ==
    /\ DOMAIN v = {"state", "identity", "schedule", "talk", "stranded"}
    /\ OfOne(v.state) /\ v.identity \in Nat /\ v.stranded \in BOOLEAN
    /\ \A revision \in v.talk : v.state.approved \in Revs /\ revision = v.state.approved

Talks(cs, s) ==
    \A b \in Slots : cs[b].kind = "FOLLOW" /\ cs[b].live /\ cs[b].fresh =>
                        s.approved \in Revs /\ cs[b].of = s.approved

Waits(cs, s, stranded) ==
    /\ s.phase = "DRAFTING" /\ ~stranded => \E b \in Slots : cs[b].kind = "DRAFT" /\ cs[b].live
    /\ s.phase = "SAVING_APPROVAL" => \E b \in Slots : cs[b].kind = "APPROVE"
    /\ s.phase = "SAVING_LEARNING" => \E b \in Slots : cs[b].kind = "SAVE"

DeskInv ==
    /\ ViewOK(view) /\ ServiceOK(service) /\ Held(calls, replies, Slots)
    /\ Talks(calls, view.state) /\ Waits(calls, view.state, view.stranded)

\* A step of one slot.
LEMMA SlotStep ==
    ASSUME DeskInv, NEW c \in Slots, NEW ds, Dims(calls, ds, Slots \ {c}),
           After(c, ds, calls'), Held(calls', replies', Slots), ServiceOK(service'),
           ViewOK(view'),
           calls'[c].kind = "FOLLOW" =>
              view'.state.approved \in Revs /\ calls'[c].of = view'.state.approved,
           \/ view'.state.approved = view.state.approved \/ view.state.approved = None
           \/ \A b \in Slots \ {c} : ds[b].kind = "FOLLOW" => ~(ds[b].live /\ ds[b].fresh),
           view'.state.phase = "DRAFTING" /\ ~view'.stranded =>
              \/ calls'[c].kind = "DRAFT" /\ calls'[c].live
              \/ /\ view.state.phase = "DRAFTING" /\ ~view.stranded
                 /\ ~(calls[c].kind = "DRAFT" /\ calls[c].live)
                 /\ \A b \in Slots \ {c} : ds[b].live = calls[b].live,
           view'.state.phase = "SAVING_APPROVAL" =>
              \/ calls'[c].kind = "APPROVE"
              \/ view.state.phase = "SAVING_APPROVAL" /\ calls[c].kind # "APPROVE",
           view'.state.phase = "SAVING_LEARNING" =>
              \/ calls'[c].kind = "SAVE"
              \/ view.state.phase = "SAVING_LEARNING" /\ calls[c].kind # "SAVE"
    PROVE  DeskInv'
<1> DEFINE es == calls'
           s == view.state
           t == view'.state
           lost == view'.stranded
<1>1. \A b \in Slots \ {c} :
         /\ es[b].kind = calls[b].kind /\ es[b].of = calls[b].of /\ es[b].live = ds[b].live
         /\ es[b].live => calls[b].live
         /\ es[b].live /\ es[b].fresh => ds[b].live /\ ds[b].fresh
         /\ es[b].live /\ es[b].fresh => calls[b].live /\ calls[b].fresh
         /\ ds[b].kind = calls[b].kind
  BY DEF After, Dims
<1>2. Talks(calls, s) /\ Waits(calls, s, view.stranded)
  BY DEF DeskInv
<1>3. s.approved = None => s.approved \notin Revs
  BY NoneApart
<1> HIDE DEF es, s, t, lost
<1>4. Talks(es, t)
  <2> SUFFICES ASSUME NEW b \in Slots, es[b].kind = "FOLLOW", es[b].live, es[b].fresh
               PROVE  t.approved \in Revs /\ es[b].of = t.approved
    BY DEF Talks
  <2>1. CASE b = c
    BY <2>1 DEF es, t
  <2>2. CASE b # c
    <3>1. s.approved \in Revs /\ calls[b].of = s.approved
      BY <1>1, <1>2, <2>2 DEF Talks
    <3>2. ds[b].kind = "FOLLOW" /\ ds[b].live /\ ds[b].fresh
      BY <1>1, <2>2
    <3>3. t.approved = s.approved
      BY <1>3, <2>2, <3>1, <3>2 DEF s, t
    <3> QED
      BY <1>1, <2>2, <3>1, <3>3
  <2> QED
    BY <2>1, <2>2
<1>5. t.phase = "DRAFTING" /\ ~lost => \E b \in Slots : es[b].kind = "DRAFT" /\ es[b].live
  <2> HAVE t.phase = "DRAFTING" /\ ~lost
  <2>1. CASE es[c].kind = "DRAFT" /\ es[c].live
    BY <2>1
  <2>2. CASE ~(es[c].kind = "DRAFT" /\ es[c].live)
    <3>1. /\ s.phase = "DRAFTING" /\ ~view.stranded
          /\ ~(calls[c].kind = "DRAFT" /\ calls[c].live)
          /\ \A b \in Slots \ {c} : ds[b].live = calls[b].live
      BY <2>2 DEF s, t, es, lost
    <3>2. PICK b \in Slots : calls[b].kind = "DRAFT" /\ calls[b].live
      BY <1>2, <3>1 DEF Waits
    <3> QED
      BY <1>1, <3>1, <3>2
  <2> QED
    BY <2>1, <2>2
<1>6. t.phase = "SAVING_APPROVAL" => \E b \in Slots : es[b].kind = "APPROVE"
  BY <1>1, <1>2 DEF Waits, s, t, es
<1>7. t.phase = "SAVING_LEARNING" => \E b \in Slots : es[b].kind = "SAVE"
  BY <1>1, <1>2 DEF Waits, s, t, es
<1> QED
  BY <1>4, <1>5, <1>6, <1>7 DEF DeskInv, Waits, es, t, lost

LEMMA DeskInit == Init => DeskInv
<1> SUFFICES ASSUME Init PROVE DeskInv
  OBVIOUS
<1>0. Stored \in Nat /\ StoredRev \in Nat /\ MaxRitual \in Nat
  BY WorkspaceAssumption DEF Rituals
<1>1. Revision(1, StoredRev) \in Revs
  BY <1>0 DEF Revision, Revs
<1>2. Recorded(Revision(1, StoredRev)) \in Snapshots(Revision(1, StoredRev))
  BY DEF Recorded, Snapshots
<1>3. Opens(view.state)
  <2>1. Opens(HydrateRitualSnapshot(Recorded(Revision(1, StoredRev))))
    BY <1>1, <1>2, SnapshotOpens
  <2> QED
    BY <2>1 DEF Init
<1>4. ViewOK(view)
  BY <1>0, <1>3 DEF Init, ViewOK, Opens
<1>5. ServiceOK(service)
  BY <1>0 DEF Init, ServiceOK
<1>6. /\ calls = [c \in Slots |-> NoCall] /\ replies = <<>> /\ NoCall.kind = None
  BY DEF Init, NoCall
<1>7. Sound(NoCall) /\ None \notin CallKinds
  BY WorkspaceAssumption DEF NoCall, Sound, OfKind, CallKinds
<1>8. Held(calls, replies, Slots)
  <2>1. \A c \in Slots : calls[c] = NoCall
    BY <1>6
  <2>2. NoCall.kind # "NEW" /\ replies \in Seq(Slots) /\ Len(replies) = 0
    BY <1>6, <1>7 DEF CallKinds
  <2> QED
    BY <1>6, <1>7, <2>1, <2>2 DEF Held
<1>9. \A c \in Slots : calls[c].kind \notin {"FOLLOW"}
  BY <1>6, <1>7 DEF CallKinds
<1>10. Talks(calls, view.state) /\ Waits(calls, view.state, view.stranded)
  BY <1>3, <1>9 DEF Talks, Waits, Opens, Waiting
<1> QED
  BY <1>4, <1>5, <1>8, <1>10 DEF DeskInv

-------------------------------------------------------------------------------
(***************************************************************************)
(* What the owner does keeps it.                                           *)
(***************************************************************************)

\* A call sent from a free slot, while these calls are overtaken.
LEMMA AsksAfter ==
    ASSUME DeskInv, NEW c \in Slots, Free(c), NEW ds, Dims(calls, ds, Slots \ {c}),
           NEW kind \in CallKinds, NEW of, OfKind(kind, of), Asks(ds, c, kind, of)
    PROVE  /\ Held(calls', replies', Slots) /\ ServiceOK(service') /\ After(c, ds, calls')
           /\ calls'[c].kind = kind /\ calls'[c].live
           /\ kind \notin {"REFRESH", "RESTORED"} => calls'[c].of = of
           /\ calls[c].kind \notin {"DRAFT", "APPROVE", "SAVE"}
<1>1. Held(calls, replies, Slots \ {c})
  BY FreeHeld DEF DeskInv
<1>2. Held(ds, replies, Slots \ {c})
  BY <1>1, HeldDims
<1>3. ServiceOK(service) /\ Sends(ds, replies, c, kind, of)
  BY DEF DeskInv, Asks
<1>4. calls[c].kind \notin {"DRAFT", "APPROVE", "SAVE"}
  BY WorkspaceAssumption DEF Free
<1> QED
  BY <1>2, <1>3, <1>4, SendsAfter

\* The calls that can be overtaken.
LEMMA OwnerDims ==
    ASSUME DeskInv, NEW c \in Slots
    PROVE  /\ Dims(calls, calls, Slots \ {c}) /\ Dims(calls, Overtaken(calls), Slots \ {c})
           /\ Dims(calls, Moved(calls), Slots \ {c})
           /\ Dims(calls, Moved(Overtaken(calls)), Slots \ {c})
           /\ \A b \in Slots \ {c} : Moved(calls)[b].live = calls[b].live
<1>1. DOMAIN calls = Slots /\ \A b \in Slots : Sound(calls[b])
  BY DEF DeskInv, Held
<1>2. /\ Dims(calls, Overtaken(calls), Slots \ {c})
      /\ \A b \in Slots \ {c} : Sound(Overtaken(calls)[b])
  <2>1. Dims(calls, Overtaken(calls), Slots \ {c})
    BY <1>1, Overtaking
  <2> QED
    BY <1>1, <2>1 DEF Dims, Sound
<1>3. DOMAIN Overtaken(calls) = Slots
  BY DEF Overtaken
<1>4. Dims(Overtaken(calls), Moved(Overtaken(calls)), Slots \ {c})
  BY <1>2, <1>3, Overtaking
<1>5. Dims(calls, Moved(Overtaken(calls)), Slots \ {c})
  BY <1>2, <1>4, DimsTwice
<1> QED
  BY <1>1, <1>2, <1>5, Overtaking

\* A command that starts a generation.
LEMMA Started ==
    ASSUME DeskInv, NEW c \in Slots, NEW kind \in CallKinds \ {"FOLLOW"}, NEW lane, NEW of,
           OfKind(kind, of), Starts(c, kind, lane, of), NEW t,
           view' = [view EXCEPT !.state = t], OfOne(t), t.approved = view.state.approved,
           t.phase \in Waiting => t.phase = "DRAFTING" /\ kind = "DRAFT"
    PROVE  DeskInv'
<1> DEFINE ds == Overtaken(calls)
<1>1. Free(c) /\ Asks(ds, c, kind, of) /\ Dims(calls, ds, Slots \ {c})
  BY OwnerDims DEF Starts
<1> HIDE DEF ds
<1>2. /\ Held(calls', replies', Slots) /\ ServiceOK(service') /\ After(c, ds, calls')
      /\ calls'[c].kind = kind /\ calls'[c].live
  BY <1>1, AsksAfter
<1>3. view'.state = t /\ ViewOK(view')
  BY DEF DeskInv, ViewOK
<1> QED
  BY <1>1, <1>2, <1>3, SlotStep DEF Waiting

\* The commands, each from the phases that offer it.
LEMMA CommandsKeep ==
    ASSUME DeskInv, NEW c \in Slots,
           \/ RequestDraft(c) \/ RequestNew(c) \/ RequestTest(c) \/ RequestRun(c)
           \/ RequestStep(c) \/ RequestCancel(c) \/ RequestLearning(c) \/ RequestDecision(c)
    PROVE  DeskInv'
<1> DEFINE s == view.state
<1>1. OfOne(s)
  BY DEF DeskInv, ViewOK
<1>2. ASSUME NEW kind \in {"NEW", "TEST", "RUN", "STEP", "CANCEL", "LEARN", "DECIDE"},
             NEW lane, NEW of, Starts(c, kind, lane, of), NEW t,
             view' = [view EXCEPT !.state = t], Keeps(s, t), s.phase \notin Waiting
      PROVE  DeskInv'
  <2>1. kind \in CallKinds \ {"FOLLOW"} /\ OfKind(kind, of)
    BY DEF CallKinds, OfKind
  <2>2. OfOne(t) /\ t.approved = s.approved /\ t.phase \notin Waiting
    BY <1>2 DEF Keeps
  <2> QED
    BY <1>2, <2>1, <2>2, Started
<1>3. CASE RequestDraft(c)
  <2>1. PICK t \in {SubmitPurpose(s, TRUE), AnswerClarification(s, TRUE)} :
           Becomes(t) /\ Starts(c, "DRAFT", {"DRAFT"}, Revision(view.identity, t.request))
    BY <1>3 DEF RequestDraft
  <2>2. t # s /\ view' = [view EXCEPT !.state = t]
    BY <2>1 DEF Becomes
  <2>3. OfOne(t) /\ t.approved = s.approved /\ t.phase = "DRAFTING"
    BY <1>1, <2>2, Submitted
  <2>4. "DRAFT" \in CallKinds \ {"FOLLOW"} /\ \A of : OfKind("DRAFT", of)
    BY DEF CallKinds, OfKind
  <2> HIDE DEF s
  <2> QED
    BY <2>1, <2>2, <2>3, <2>4, Started DEF s
<1>4. CASE RequestNew(c)
  <2>1. s.phase \notin Waiting
    BY <1>4, Kinds DEF RequestNew, OffersReview, OffersRunReview, OffersTestReview
  <2>2. /\ view' = [view EXCEPT !.state = StartNewRitual(s)] /\ Starts(c, "NEW", {}, None)
    BY <1>4 DEF RequestNew, Becomes
  <2> QED
    BY <1>1, <1>2, <2>1, <2>2, NewEvents
<1>5. CASE RequestTest(c)
  <2>1. s.phase \notin Waiting
    BY <1>5, Kinds DEF RequestTest, OffersSample
  <2>2. /\ view' = [view EXCEPT !.state = SubmitTestSample(s, TRUE)]
        /\ Starts(c, "TEST", {"TEST"}, s.approved)
    BY <1>5 DEF RequestTest, Becomes
  <2> QED
    BY <1>1, <1>2, <2>1, <2>2, TurnEvents
<1>6. CASE RequestRun(c)
  <2>1. s.phase \notin Waiting
    BY <1>6, Kinds
    DEF RequestRun, OffersRun, OffersReview, OffersRunReview, OffersTestReview
  <2>2. /\ view' = [view EXCEPT !.state = StartRun(s)]
        /\ Starts(c, "RUN", {"RUN", "STEP"}, s.approved) /\ s.approved \in Revs
    BY <1>1, <1>6, Kinds
    DEF RequestRun, Becomes, OffersRun, OffersReview, OffersRunReview, OffersTestReview, OfOne
  <2>3. [of |-> s.approved, status |-> "RUNNING"] \in Runs
    BY <2>2 DEF Runs, RunStatuses
  <2>4. Keeps(s, StartRun(s))
    BY <1>1, <2>3, RunEvents
  <2> QED
    BY <1>2, <2>1, <2>2, <2>4
<1>7. CASE RequestStep(c)
  <2>1. s.phase \notin Waiting
    BY <1>7, Kinds DEF RequestStep, OffersStep
  <2>2. /\ view' = [view EXCEPT !.state = ApproveRunStep(s)]
        /\ Starts(c, "STEP", {"RUN", "STEP"}, s.approved)
    BY <1>7 DEF RequestStep
  <2> QED
    BY <1>1, <1>2, <2>1, <2>2, TurnEvents
<1>8. CASE RequestCancel(c)
  <2>1. s.phase \notin Waiting
    BY <1>8, Kinds DEF RequestCancel, OffersCancel, CanCancel, Followed
  <2>2. /\ view' = [view EXCEPT !.state = CancelRun(s)]
        /\ Starts(c, "CANCEL", {"CANCEL"}, s.approved)
    BY <1>8 DEF RequestCancel
  <2> QED
    BY <1>1, <1>2, <2>1, <2>2, TurnEvents
<1>9. CASE RequestLearning(c)
  <2>1. s.phase \notin Waiting
    BY <1>9, Kinds DEF RequestLearning, OffersFeedback
  <2>2. /\ view' = [view EXCEPT !.state = SubmitFeedback(s, TRUE)]
        /\ Starts(c, "LEARN", Learning, s.approved)
    BY <1>9 DEF RequestLearning, Becomes
  <2> QED
    BY <1>1, <1>2, <2>1, <2>2, TurnEvents
<1>10. CASE RequestDecision(c)
  <2>1. s.phase \notin Waiting
    BY <1>10, Kinds DEF RequestDecision, OffersDecision
  <2>2. PICK d \in {"REVISION_REQUESTED", "REJECTED"} : view' = [view EXCEPT !.state = Decide(s, d)]
    BY <1>10 DEF RequestDecision, Becomes
  <2>3. Starts(c, "DECIDE", Learning, s.approved)
    BY <1>10 DEF RequestDecision
  <2>4. s.source \in Sources
    BY <1>1, <1>10, Kinds DEF RequestDecision, OffersDecision, OfOne
  <2>5. Keeps(s, Decide(s, d))
    BY <1>1, <2>4, LearningEvents
  <2> QED
    BY <1>2, <2>1, <2>2, <2>3, <2>5
<1> QED
  BY <1>3, <1>4, <1>5, <1>6, <1>7, <1>8, <1>9, <1>10

\* What is sent to be saved.
LEMMA SavesKeep ==
    ASSUME DeskInv, NEW c \in Slots, ApproveDraft(c) \/ RequestSave(c)
    PROVE  DeskInv'
<1> DEFINE s == view.state
<1>1. OfOne(s) /\ view.identity \in Nat /\ Dims(calls, calls, Slots \ {c})
  BY OwnerDims DEF DeskInv, ViewOK
<1>2. ASSUME NEW kind \in {"APPROVE", "SAVE"}, NEW of, Free(c), Asks(calls, c, kind, of), NEW t,
             view' = [view EXCEPT !.state = t], OfOne(t), t.approved = s.approved,
             t.phase = IF kind = "APPROVE" THEN "SAVING_APPROVAL" ELSE "SAVING_LEARNING"
      PROVE  DeskInv'
  <2>1. kind \in CallKinds /\ OfKind(kind, of)
    BY DEF CallKinds, OfKind
  <2>2. /\ Held(calls', replies', Slots) /\ ServiceOK(service') /\ After(c, calls, calls')
        /\ calls'[c].kind = kind
    BY <1>1, <1>2, <2>1, AsksAfter
  <2>3. view'.state = t /\ ViewOK(view')
    BY <1>2 DEF DeskInv, ViewOK
  <2> QED
    BY <1>1, <1>2, <2>2, <2>3, SlotStep
<1>3. CASE ApproveDraft(c)
  <2> DEFINE t == Approve(s, view.identity, s.draft)
  <2>1. /\ t # s /\ view' = [view EXCEPT !.state = t] /\ Free(c)
        /\ Asks(calls, c, "APPROVE", t.next)
    BY <1>3 DEF ApproveDraft, Becomes
  <2>2. OfOne(t) /\ t.approved = s.approved /\ t.phase = "SAVING_APPROVAL"
    BY <1>1, <2>1, SavingEvents
  <2> HIDE DEF t
  <2> QED
    BY <1>2, <2>1, <2>2
<1>4. CASE RequestSave(c)
  <2> DEFINE t == ApproveLearning(s)
  <2>1. /\ t # s /\ view' = [view EXCEPT !.state = t] /\ Free(c)
        /\ Asks(calls, c, "SAVE", s.approved)
    BY <1>4 DEF RequestSave, Becomes
  <2>2. OfOne(t) /\ t.approved = s.approved /\ t.phase = "SAVING_LEARNING"
    BY <1>1, <2>1, SavingEvents
  <2> HIDE DEF t
  <2> QED
    BY <1>2, <2>1, <2>2
<1> QED
  BY <1>3, <1>4

\* A call that leaves what is shown, while a draft's call is not overtaken.
LEMMA CallsKeep ==
    ASSUME DeskInv, NEW c \in Slots, Free(c), NEW kind \in CallKinds \ {"FOLLOW"}, NEW of,
           OfKind(kind, of), UNCHANGED view,
           \/ Asks(calls, c, kind, of) \/ Asks(Moved(calls), c, kind, of)
           \/ /\ Asks(Overtaken(calls), c, kind, of) \/ Asks(Moved(Overtaken(calls)), c, kind, of)
              /\ view.state.phase # "DRAFTING"
    PROVE  DeskInv'
<1>1. ASSUME NEW ds, Dims(calls, ds, Slots \ {c}), Asks(ds, c, kind, of),
             \/ view.state.phase # "DRAFTING"
             \/ \A b \in Slots \ {c} : ds[b].live = calls[b].live
      PROVE  DeskInv'
  <2>1. /\ Held(calls', replies', Slots) /\ ServiceOK(service') /\ After(c, ds, calls')
        /\ calls'[c].kind = kind /\ calls[c].kind \notin {"DRAFT", "APPROVE", "SAVE"}
    BY <1>1, AsksAfter
  <2>2. view' = view /\ ViewOK(view')
    BY DEF DeskInv
  <2> QED
    BY <1>1, <2>1, <2>2, SlotStep
<1> QED
  BY <1>1, OwnerDims

LEMMA LooksKeep ==
    ASSUME DeskInv, NEW c \in Slots,
           \/ \E r \in Rituals : SelectRitual(c, r)
           \/ RestoreRevision(c) \/ ConfigureSchedule(c) \/ PauseSchedule(c)
           \/ RefreshAutomation(c)
    PROVE  DeskInv'
<1>1. OfOne(view.state)
  BY DEF DeskInv, ViewOK
<1>2. CASE \E r \in Rituals : SelectRitual(c, r)
  <2>1. PICK r \in Rituals : SelectRitual(c, r)
    BY <1>2
  <2>2. view.state.phase # "DRAFTING"
    BY <1>1, <2>1, Kinds DEF SelectRitual, UnsavedDraft, OfOne
  <2>3. "SELECT" \in CallKinds \ {"FOLLOW"} /\ OfKind("SELECT", Revision(r, 0))
    BY DEF CallKinds, OfKind, Revision
  <2> QED
    BY <2>1, <2>2, <2>3, CallsKeep DEF SelectRitual
<1>3. CASE RestoreRevision(c)
  <2>1. view.state.phase # "DRAFTING"
    BY <1>3 DEF RestoreRevision, Restorable
  <2>2. view.state.approved \in Revs
    BY <1>1, <1>3, Kinds DEF RestoreRevision, Restorable, OfOne
  <2>3. "RESTORE" \in CallKinds \ {"FOLLOW"} /\ OfKind("RESTORE", view.state.approved)
    BY <2>2 DEF CallKinds, OfKind
  <2> QED
    BY <1>3, <2>1, <2>3, CallsKeep DEF RestoreRevision
<1>4. ASSUME NEW kind \in {"CONFIGURE", "PAUSE", "REFRESH"}
      PROVE  kind \in CallKinds \ {"FOLLOW"} /\ \A of : OfKind(kind, of)
  BY DEF CallKinds, OfKind
<1>5. CASE ConfigureSchedule(c)
  BY <1>4, <1>5, CallsKeep DEF ConfigureSchedule, Scheduling
<1>6. CASE PauseSchedule(c)
  BY <1>4, <1>6, CallsKeep DEF PauseSchedule, Scheduling
<1>7. CASE RefreshAutomation(c)
  BY <1>4, <1>7, CallsKeep DEF RefreshAutomation
<1> QED
  BY <1>2, <1>3, <1>5, <1>6, <1>7

\* A follow-up is about what is shown when it is asked.
LEMMA FollowUpKeeps ==
    ASSUME DeskInv, NEW c \in Slots, SubmitFollowUp(c)
    PROVE  DeskInv'
<1> DEFINE s == view.state
<1>1. OfOne(s)
  BY DEF DeskInv, ViewOK
<1>2. s.approved \in Revs
  BY <1>1, Fields DEF SubmitFollowUp
<1>3. /\ Free(c) /\ Asks(calls, c, "FOLLOW", s.approved)
      /\ view' = [view EXCEPT !.talk = @ \union {s.approved}]
  BY DEF SubmitFollowUp
<1>4. "FOLLOW" \in CallKinds /\ OfKind("FOLLOW", s.approved)
  BY <1>2 DEF CallKinds, OfKind
<1>5. Dims(calls, calls, Slots \ {c})
  BY OwnerDims
<1>6. /\ Held(calls', replies', Slots) /\ ServiceOK(service') /\ After(c, calls, calls')
      /\ calls'[c].kind = "FOLLOW" /\ calls'[c].of = s.approved
      /\ calls[c].kind \notin {"DRAFT", "APPROVE", "SAVE"}
  BY <1>3, <1>4, <1>5, AsksAfter
<1>7. /\ view'.state = s /\ view'.stranded = view.stranded /\ ViewOK(view')
  <2>1. DOMAIN view = {"state", "identity", "schedule", "talk", "stranded"}
    BY DEF DeskInv, ViewOK
  <2>2. /\ view'.state = s /\ view'.stranded = view.stranded /\ DOMAIN view' = DOMAIN view
        /\ view'.identity = view.identity /\ view'.talk = view.talk \union {s.approved}
    BY <1>3, <2>1
  <2> QED
    BY <1>2, <2>2 DEF DeskInv, ViewOK
<1> QED
  BY <1>2, <1>5, <1>6, <1>7, SlotStep

\* What only changes what is shown.
LEMMA ShapesKeep ==
    ASSUME DeskInv, OwnerShapes
    PROVE  DeskInv'
<1> DEFINE s == view.state
<1>1. OfOne(s)
  BY DEF DeskInv, ViewOK
<1>2. PICK t \in Local(s) : view' = [view EXCEPT !.state = t]
  BY DEF OwnerShapes, Becomes
<1>3. Keeps(s, t)
  <2>1. CASE \E valid \in BOOLEAN, value \in {"SAME", "OTHER", "INVALID"} :
                t \in {SelectTrigger(s, valid), SelectReview(s), EditField(s, value),
                       SubmitPurpose(s, FALSE), AnswerClarification(s, FALSE)}
    BY <1>1, <2>1, ShapingKeeps
  <2>2. CASE t \in {StartTest(s), SubmitTestSample(s, FALSE), SubmitFeedback(s, FALSE)}
    BY <1>1, <2>2, TurnEvents
  <2>3. CASE OffersReview(s) /\ t = StartFeedback(s)
    <3>1. s.approved \in Revs
      BY <1>1, <2>3, Kinds DEF OffersReview, OffersRunReview, OffersTestReview, OfOne
    <3>2. [kind |-> "RUN", of |-> s.approved] \in Sources
      BY <3>1 DEF Sources
    <3> QED
      BY <1>1, <2>3, <3>2, LearningEvents
  <2>4. \/ \E valid \in BOOLEAN, value \in {"SAME", "OTHER", "INVALID"} :
              t \in {SelectTrigger(s, valid), SelectReview(s), EditField(s, value),
                     SubmitPurpose(s, FALSE), AnswerClarification(s, FALSE)}
        \/ t \in {StartTest(s), SubmitTestSample(s, FALSE), SubmitFeedback(s, FALSE)}
        \/ OffersReview(s) /\ t = StartFeedback(s)
    BY DEF Local
  <2> QED
    BY <2>1, <2>2, <2>3, <2>4
<1>4. /\ OfOne(t) /\ t.approved = s.approved
      /\ t.phase \in Waiting => t.phase = s.phase
  BY <1>3 DEF Keeps
<1>5. view'.state = t /\ view'.stranded = view.stranded /\ ViewOK(view')
  BY <1>2, <1>4 DEF DeskInv, ViewOK
<1>6. UNCHANGED <<service, calls, replies>>
  BY DEF OwnerShapes
<1> HIDE DEF s
<1>7. Talks(calls, t) /\ Waits(calls, t, view.stranded)
  BY <1>4 DEF DeskInv, Talks, Waits, Waiting, s
<1> QED
  BY <1>5, <1>6, <1>7 DEF DeskInv

\* What the controller does.
LEMMA SettleKeeps ==
    ASSUME DeskInv, NEW c \in Slots, Settle(c)
    PROVE  DeskInv'
<1> DEFINE es == calls'
<1>1. /\ DOMAIN calls = Slots /\ Sound(calls[c]) /\ ServiceOK(service)
      /\ replies \in Seq(Slots)
  BY DEF DeskInv, Held
<1>2. /\ calls[c].kind # None /\ \A i \in 1 .. Len(replies) : replies[i] # c
  BY <1>1 DEF Settle, InService, Free
<1>3. calls[c].kind # "NEW"
  BY <1>2 DEF DeskInv, Held
<1>4. Held(calls, replies, Slots \ {c})
  <2>1. \A i \in 1 .. Len(replies) : replies[i] \in Slots \ {c}
    BY <1>1, <1>2
  <2>2. replies \in Seq(Slots \ {c})
    BY <1>1, <2>1
  <2> QED
    BY <2>2 DEF DeskInv, Held
<1>5. /\ DOMAIN es = Slots /\ \A b \in Slots \ {c} : es[b] = calls[b]
      /\ es[c].kind = calls[c].kind /\ es[c].of = calls[c].of /\ es[c].live = calls[c].live
      /\ es[c].fresh = calls[c].fresh /\ Sound(es[c]) /\ Ready(es[c]) /\ ServiceOK(service')
  <2>1. CASE \E outcome \in Outcomes(calls[c]) :
                service' = outcome[1] /\ calls' = [calls EXCEPT ![c].answer = outcome[2]]
    <3>1. PICK outcome \in Outcomes(calls[c]) :
             service' = outcome[1] /\ calls' = [calls EXCEPT ![c].answer = outcome[2]]
      BY <2>1
    <3>2. ServiceOK(service') /\ (calls[c].kind = "SELECT" => outcome[2].rev \in Nat)
      BY <1>1, <3>1, OutcomesSound
    <3>3. /\ DOMAIN es = Slots /\ \A b \in Slots \ {c} : es[b] = calls[b]
          /\ es[c] = [calls[c] EXCEPT !.answer = outcome[2]]
      BY <1>1, <3>1
    <3> HIDE DEF es
    <3>4. /\ DOMAIN es[c] = DOMAIN calls[c] /\ es[c].kind = calls[c].kind
          /\ es[c].of = calls[c].of /\ es[c].live = calls[c].live
          /\ es[c].fresh = calls[c].fresh /\ es[c].failed = calls[c].failed
          /\ es[c].answer = outcome[2]
      BY <1>1, <3>3 DEF Sound
    <3> QED
      BY <1>1, <1>2, <1>3, <3>2, <3>3, <3>4 DEF Sound, Ready
  <2>2. CASE calls' = [calls EXCEPT ![c].failed = TRUE] /\ UNCHANGED service
    <3>1. /\ DOMAIN es = Slots /\ \A b \in Slots \ {c} : es[b] = calls[b]
          /\ es[c] = [calls[c] EXCEPT !.failed = TRUE] /\ service' = service
      BY <1>1, <2>2
    <3> HIDE DEF es
    <3>2. /\ DOMAIN es[c] = DOMAIN calls[c] /\ es[c].kind = calls[c].kind
          /\ es[c].of = calls[c].of /\ es[c].live = calls[c].live
          /\ es[c].fresh = calls[c].fresh /\ es[c].failed = TRUE
          /\ es[c].answer = calls[c].answer
      BY <1>1, <3>1 DEF Sound
    <3> QED
      BY <1>1, <1>2, <1>3, <3>1, <3>2 DEF Sound, Ready
  <2> QED
    BY <2>1, <2>2 DEF Settle
<1>6. replies' = Append(replies, c) /\ view' = view
  BY DEF Settle
<1> HIDE DEF es
<1>7. After(c, calls, es)
  BY <1>5 DEF After
<1>8. Append(replies, c) # replies
  <2>1. Len(Append(replies, c)) = Len(replies) + 1 /\ Len(replies) \in Nat
    BY <1>1
  <2> QED
    BY <2>1
<1>9. Held(es, Append(replies, c), Slots)
  <2> DEFINE away == Append(replies, c)
  <2>1. /\ \A b \in Slots \ {c} : /\ es[b].answer = calls[b].answer
                                  /\ es[b].failed = calls[b].failed
                                  /\ DOMAIN es[b] = DOMAIN calls[b]
        /\ away \in {replies, Append(replies, c)}
    BY <1>5
  <2>2. es[c].kind = "NEW" => away # replies
    BY <1>8
  <2> HIDE DEF away
  <2>3. Held(es, away, Slots)
    BY <1>4, <1>5, <1>7, <2>1, <2>2, Placed
  <2> QED
    BY <2>3 DEF away
<1>10. \A b \in Slots : /\ es[b].kind = calls[b].kind /\ es[b].of = calls[b].of
                        /\ es[b].live = calls[b].live /\ es[b].fresh = calls[b].fresh
  BY <1>5
<1>11. Talks(es, view.state) /\ Waits(es, view.state, view.stranded)
  BY <1>10 DEF DeskInv, Talks, Waits
<1> QED
  BY <1>5, <1>6, <1>9, <1>11 DEF DeskInv, es

-------------------------------------------------------------------------------
(***************************************************************************)
(* What the answers do keeps it.                                           *)
(***************************************************************************)

\* The calls that an answer finds, and those it overtakes.
LEMMA AnswerDims ==
    ASSUME DeskInv, NEW c \in Slots, NEW kinds, Takes(c, kinds),
           NEW ds \in {calls, Moved(calls), Moved(Hushed(calls)),
                       Moved(Hushed(Overtaken(calls)))}
    PROVE  /\ Dims(calls, ds, Slots \ {c}) /\ Held(ds, Tail(replies), Slots \ {c})
           /\ ServiceOK(service)
           /\ ds \in {calls, Moved(calls), Moved(Hushed(calls))} =>
                 \A b \in Slots \ {c} : ds[b].live = calls[b].live
           /\ ds \in {Moved(Hushed(calls)), Moved(Hushed(Overtaken(calls)))} =>
                 \A b \in Slots \ {c} : ds[b].kind = "FOLLOW" => ~ds[b].fresh
<1> DEFINE rest == Slots \ {c}
           Fair(es) == /\ Dims(calls, es, rest) /\ DOMAIN es = Slots
                       /\ \A b \in rest : Sound(es[b])
           Quiet(es) == \A b \in rest : es[b].kind = "FOLLOW" => ~es[b].fresh
           Alive(es) == \A b \in rest : es[b].live = calls[b].live
<1>1. Fair(calls) /\ Alive(calls)
  <2>1. DOMAIN calls = Slots /\ \A b \in rest : Sound(calls[b])
    BY DEF DeskInv, Held
  <2> QED
    BY <2>1, Overtaking
<1>2. ASSUME NEW es, Fair(es), NEW fs \in {Overtaken(es), Moved(es), Hushed(es)}
      PROVE  Fair(fs)
  <2>1. Dims(es, fs, rest) /\ DOMAIN fs = Slots
    <3>1. /\ Dims(es, Overtaken(es), rest) /\ Dims(es, Moved(es), rest)
          /\ Dims(es, Hushed(es), rest)
      BY <1>2, Overtaking
    <3>2. Dims(es, fs, rest)
      BY <3>1
    <3> QED
      BY <3>2 DEF Dims
  <2>2. Dims(calls, fs, rest)
    BY <1>2, <2>1, DimsTwice
  <2> QED
    BY <1>2, <2>1, <2>2 DEF Dims, Sound
<1>3. ASSUME NEW es, Fair(es)
      PROVE  /\ Alive(es) => Alive(Moved(es)) /\ Alive(Hushed(es))
             /\ Quiet(Hushed(es)) /\ (Quiet(es) => Quiet(Moved(es)))
  <2>1. /\ \A b \in rest : /\ Moved(es)[b].live = es[b].live
                           /\ Hushed(es)[b].live = es[b].live
                           /\ Hushed(es)[b].kind = "FOLLOW" => ~Hushed(es)[b].fresh
        /\ Dims(es, Moved(es), rest)
    BY <1>3, Overtaking
  <2> QED
    BY <2>1 DEF Dims
<1> HIDE DEF Fair, Quiet, Alive
<1>4. Fair(Hushed(calls)) /\ Alive(Hushed(calls)) /\ Quiet(Hushed(calls))
  BY <1>1, <1>2, <1>3
<1>5. Fair(Hushed(Overtaken(calls))) /\ Quiet(Hushed(Overtaken(calls)))
  BY <1>1, <1>2, <1>3
<1>6. /\ Fair(Moved(calls)) /\ Alive(Moved(calls))
      /\ Fair(Moved(Hushed(calls))) /\ Alive(Moved(Hushed(calls)))
      /\ Quiet(Moved(Hushed(calls)))
      /\ Fair(Moved(Hushed(Overtaken(calls)))) /\ Quiet(Moved(Hushed(Overtaken(calls))))
  BY <1>1, <1>2, <1>3, <1>4, <1>5
<1>7. Fair(ds)
  BY <1>1, <1>6
<1>8. Held(calls, Tail(replies), rest)
  BY TakenHeld DEF DeskInv, Takes
<1>9. Held(ds, Tail(replies), rest)
  BY <1>7, <1>8, HeldDims DEF Fair
<1>10. ds \in {calls, Moved(calls), Moved(Hushed(calls))} => Alive(ds)
  BY <1>1, <1>6
<1>11. ds \in {Moved(Hushed(calls)), Moved(Hushed(Overtaken(calls)))} => Quiet(ds)
  BY <1>6
<1> QED
  BY <1>7, <1>9, <1>10, <1>11 DEF Fair, Quiet, Alive, DeskInv

\* An answer that keeps the revision shown, or quiets the talk.
LEMMA AnswerStep ==
    ASSUME DeskInv, NEW c \in Slots, NEW kinds, Takes(c, kinds),
           NEW ds \in {calls, Moved(calls), Moved(Hushed(calls)),
                       Moved(Hushed(Overtaken(calls)))},
           Done(ds, c) \/ \E kind \in {"REFRESH", "RESTORED"} : Refreshes(ds, c, kind),
           ViewOK(view'),
           \/ view'.state.approved = view.state.approved \/ view.state.approved = None
           \/ ds \in {Moved(Hushed(calls)), Moved(Hushed(Overtaken(calls)))},
           view'.state.phase \in Waiting => view'.state.phase = view.state.phase,
           view'.state.phase = "DRAFTING" /\ ~view'.stranded =>
              /\ ~view.stranded /\ ~(calls[c].kind = "DRAFT" /\ calls[c].live)
              /\ ds \in {calls, Moved(calls), Moved(Hushed(calls))},
           view'.state.phase = "SAVING_APPROVAL" => calls[c].kind # "APPROVE",
           view'.state.phase = "SAVING_LEARNING" => calls[c].kind # "SAVE"
    PROVE  DeskInv'
<1>1. /\ Dims(calls, ds, Slots \ {c}) /\ Held(ds, Tail(replies), Slots \ {c})
      /\ ServiceOK(service)
      /\ ds \in {calls, Moved(calls), Moved(Hushed(calls))} =>
            \A b \in Slots \ {c} : ds[b].live = calls[b].live
      /\ ds \in {Moved(Hushed(calls)), Moved(Hushed(Overtaken(calls)))} =>
            \A b \in Slots \ {c} : ds[b].kind = "FOLLOW" => ~ds[b].fresh
  BY AnswerDims
<1>2. /\ Held(calls', replies', Slots) /\ ServiceOK(service') /\ After(c, ds, calls')
      /\ calls'[c].kind \in {None, "REFRESH", "RESTORED"}
  BY <1>1, DoneAfter, RefreshesAfter
<1>3. calls'[c].kind # "FOLLOW"
  BY <1>2, WorkspaceAssumption
<1>4. /\ view'.state.phase = "DRAFTING" => view.state.phase = "DRAFTING"
      /\ view'.state.phase = "SAVING_APPROVAL" => view.state.phase = "SAVING_APPROVAL"
      /\ view'.state.phase = "SAVING_LEARNING" => view.state.phase = "SAVING_LEARNING"
  BY DEF Waiting
<1> QED
  BY <1>1, <1>2, <1>3, <1>4, SlotStep

\* The answers that leave the revision shown.
LEMMA ShownKeeps ==
    ASSUME DeskInv, NEW c \in Slots,
           Dropped(c) \/ Shown(c) \/ RunReported(c) \/ ScheduleReturns(c) \/ FollowUpReturns(c)
    PROVE  DeskInv'
<1> DEFINE s == view.state
<1>1. /\ OfOne(s) /\ DOMAIN view = {"state", "identity", "schedule", "talk", "stranded"}
      /\ view.stranded \in BOOLEAN /\ ViewOK(view)
  BY DEF DeskInv, ViewOK
<1>2. ASSUME NEW kinds, Takes(c, kinds), kinds \cap {"APPROVE", "SAVE"} = {},
             Done(calls, c) \/ \E kind \in {"REFRESH", "RESTORED"} : Refreshes(calls, c, kind),
             ViewOK(view'), Keeps(s, view'.state), view'.stranded = view.stranded,
             calls[c].kind = "DRAFT" /\ calls[c].live => view'.state.phase # "DRAFTING"
      PROVE  DeskInv'
  <2>1. calls[c].kind # "APPROVE" /\ calls[c].kind # "SAVE"
    BY <1>2 DEF Takes
  <2> HIDE DEF s
  <2>2. /\ view'.state.approved = s.approved
        /\ view'.state.phase \in Waiting => view'.state.phase = s.phase
    BY <1>2 DEF Keeps
  <2> QED
    BY <1>2, <2>1, <2>2, AnswerStep DEF s
<1>3. ASSUME NEW t, Keeps(s, t), view' = [view EXCEPT !.state = t]
      PROVE  /\ ViewOK(view') /\ Keeps(s, view'.state) /\ view'.stranded = view.stranded
             /\ view'.state = t
  <2>1. /\ view'.state = t /\ view'.stranded = view.stranded /\ view'.talk = view.talk
        /\ view'.identity = view.identity /\ DOMAIN view' = DOMAIN view
    BY <1>1, <1>3
  <2>2. OfOne(t) /\ t.approved = s.approved
    BY <1>3 DEF Keeps
  <2> QED
    BY <1>1, <1>3, <2>1, <2>2 DEF ViewOK
<1>4. ASSUME NEW kinds, Takes(c, kinds), kinds \cap {"APPROVE", "SAVE"} = {}, Done(calls, c),
             view'.state = s, view'.stranded = view.stranded, ViewOK(view'),
             ~(calls[c].kind = "DRAFT" /\ calls[c].live)
      PROVE  DeskInv'
  <2>1. Keeps(s, view'.state)
    BY <1>1, <1>4, Fields
  <2> QED
    BY <1>2, <1>4, <2>1
<1>5. CASE Dropped(c)
  <2> DEFINE kinds == {"SELECT", "NEW", "DRAFT", "TEST", "RUN", "STEP", "CANCEL", "LEARN",
                       "DECIDE", "RESTORE"}
  <2>1. Takes(c, kinds) /\ ~calls[c].live /\ Done(calls, c) /\ view' = view
    BY <1>5 DEF Dropped
  <2>2. kinds \cap {"APPROVE", "SAVE"} = {}
    OBVIOUS
  <2> HIDE DEF kinds
  <2> QED
    BY <1>1, <1>4, <2>1, <2>2
<1>6. CASE Shown(c)
  <2> DEFINE kinds == {"DRAFT", "TEST", "LEARN", "DECIDE"}
             call == calls[c]
  <2>1. Takes(c, kinds) /\ Done(calls, c)
    BY <1>6 DEF Shown
  <2>2. PICK t \in Answered(call, s) : view' = [view EXCEPT !.state = t]
    BY <1>6 DEF Shown
  <2>3. call.kind = "DRAFT" => Keeps(s, t) /\ t.phase # "DRAFTING"
    <3> SUFFICES ASSUME call.kind = "DRAFT" PROVE Keeps(s, t) /\ t.phase # "DRAFTING"
      OBVIOUS
    <3>1. \E valid \in BOOLEAN : t \in {StewardFailed(s), StewardAsked(s, call.of.rev),
                                       StewardProposed(s, call.of.rev, valid)}
      BY <2>2 DEF Answered
    <3> QED
      BY <1>1, <3>1, StewardKeeps
  <2>4. call.kind = "TEST" => Keeps(s, t)
    <3>1. call.kind = "TEST" => t \in {TestRunFailed(s), TestRunReceipt(s, call.of)}
      BY <2>2 DEF Answered
    <3> QED
      BY <1>1, <3>1, TurnEvents, TestKeeps
  <2>5. call.kind = "LEARN" => Keeps(s, t)
    <3>1. call.kind = "LEARN" => t \in {LearningFailed(s), LearningProposed(s, call.of)}
      BY <2>2 DEF Answered
    <3> QED
      BY <1>1, <3>1, TurnEvents
  <2>6. call.kind = "DECIDE" => Keeps(s, t)
    <3>1. call.kind = "DECIDE" => t \in {LearningDecisionFailed(s), LearningDecisionSaved(s)}
      BY <2>2 DEF Answered
    <3>2. [kind |-> "RUN", of |-> [ritual |-> 0, rev |-> 0]] \in Sources
      BY DEF Sources, Revs
    <3> QED
      BY <1>1, <3>1, <3>2, LearningEvents
  <2>7. Keeps(s, t) /\ (call.kind = "DRAFT" => t.phase # "DRAFTING")
    BY <2>1, <2>3, <2>4, <2>5, <2>6 DEF Takes
  <2>8. kinds \cap {"APPROVE", "SAVE"} = {}
    OBVIOUS
  <2> HIDE DEF kinds
  <2> QED
    BY <1>2, <1>3, <2>1, <2>2, <2>7, <2>8
<1>7. CASE RunReported(c)
  <2> DEFINE kinds == {"RUN", "STEP", "CANCEL"}
  <2>1. Takes(c, kinds) /\ kinds \cap {"APPROVE", "SAVE"} = {} /\ calls[c].kind # "DRAFT"
    BY <1>7 DEF RunReported, Takes
  <2>2. CASE calls[c].failed
    <3>1. Done(calls, c) /\ view' = [view EXCEPT !.state = RunCommandFailed(s)]
      BY <1>7, <2>2 DEF RunReported
    <3>2. [of |-> [ritual |-> 0, rev |-> 0], status |-> "RUNNING"] \in Runs
      BY DEF Runs, Revs, RunStatuses
    <3>3. Keeps(s, RunCommandFailed(s))
      BY <1>1, <3>2, RunEvents
    <3> HIDE DEF kinds
    <3> QED
      BY <1>2, <1>3, <2>1, <3>1, <3>3
  <2>3. CASE ~calls[c].failed
    <3>1. PICK status \in Statuses :
             view' = [view EXCEPT !.state =
                         IF status \in Ended
                         THEN RunReceipt(s, [of |-> calls[c].of, status |-> status])
                         ELSE RunUpdated(s, [of |-> calls[c].of, status |-> status])]
      BY <1>7, <2>3 DEF RunReported
    <3>2. Refreshes(calls, c, "REFRESH")
      BY <1>7, <2>3 DEF RunReported
    <3> DEFINE run == [of |-> calls[c].of, status |-> status]
               t == IF status \in Ended THEN RunReceipt(s, run) ELSE RunUpdated(s, run)
    <3>3. Keeps(s, t)
      <4>1. CASE calls[c].of \in Revs
        <5>1. run \in Runs
          BY <4>1, WorkspaceAssumption DEF Runs
        <5> HIDE DEF run
        <5> QED
          BY <1>1, <5>1, RunEvents
      <4>2. CASE calls[c].of \notin Revs
        <5>1. run.of = calls[c].of
          OBVIOUS
        <5>2. t = s \/ (t = Fails(s) /\ s.phase \notin Drafting)
          <6>1. s.phase \notin Drafting => run.of # s.approved
            BY <1>1, <4>2, <5>1 DEF OfOne
          <6>2. \/ In(s, Followed \union {"STARTING_RUN"})
                \/ s.phase \in {"STARTING_RUN", "RUNNING_RITUAL", "RUN_WAITING_FOR_OWNER"}
                => s.phase \notin Drafting
            BY Kinds DEF Followed
          <6> HIDE DEF run, Fails
          <6> QED
            BY <6>1, <6>2 DEF RunReceipt, RunUpdated
        <5> HIDE DEF t, Fails
        <5> QED
          BY <1>1, <5>2, Fields, FailsKeeps
      <4> QED
        BY <4>1, <4>2
    <3>4. view' = [view EXCEPT !.state = t]
      BY <3>1
    <3> HIDE DEF kinds, t
    <3> QED
      BY <1>2, <1>3, <2>1, <3>2, <3>3, <3>4
  <2> QED
    BY <2>2, <2>3
<1>8. CASE ScheduleReturns(c)
  <2> DEFINE kinds == {"REFRESH", "RESTORED", "CONFIGURE", "PAUSE"}
  <2>1. Takes(c, kinds) /\ kinds \cap {"APPROVE", "SAVE"} = {} /\ calls[c].kind # "DRAFT"
    BY <1>8 DEF ScheduleReturns, Takes
  <2>2. Done(calls, c) /\ (view' = view \/ view' = [view EXCEPT !.schedule = calls[c].answer])
    BY <1>8 DEF ScheduleReturns
  <2>3. view'.state = s /\ view'.stranded = view.stranded /\ ViewOK(view')
    BY <1>1, <2>2 DEF ViewOK
  <2> HIDE DEF kinds
  <2> QED
    BY <1>4, <2>1, <2>2, <2>3
<1>9. CASE FollowUpReturns(c)
  <2>1. Takes(c, {"FOLLOW"}) /\ Done(calls, c) /\ calls[c].kind = "FOLLOW"
    BY <1>9 DEF FollowUpReturns, Takes
  <2>2. CASE ~(calls[c].live /\ calls[c].fresh /\ ~calls[c].failed)
    <3>1. view' = view
      BY <1>9, <2>2 DEF FollowUpReturns
    <3> QED
      BY <1>1, <1>4, <2>1, <3>1
  <2>3. CASE calls[c].live /\ calls[c].fresh /\ ~calls[c].failed
    <3>1. view' = [view EXCEPT !.talk = @ \union {calls[c].of}]
      BY <1>9, <2>3 DEF FollowUpReturns
    <3>2. s.approved \in Revs /\ calls[c].of = s.approved
      BY <2>1, <2>3 DEF DeskInv, Talks
    <3>3. /\ view'.state = s /\ view'.stranded = view.stranded /\ DOMAIN view' = DOMAIN view
          /\ view'.identity = view.identity /\ view'.talk = view.talk \union {s.approved}
      BY <1>1, <3>1, <3>2
    <3>4. ViewOK(view')
      BY <1>1, <3>2, <3>3 DEF ViewOK
    <3> QED
      BY <1>4, <2>1, <3>3, <3>4
  <2> QED
    BY <2>2, <2>3
<1> QED
  BY <1>5, <1>6, <1>7, <1>8, <1>9

\* The answers that open a revision, or none.
LEMMA OpenedKeeps ==
    ASSUME DeskInv, NEW c \in Slots,
           \/ RitualOpened(c) \/ NewRitual(c) \/ ApprovalReturns(c) \/ LearningReturns(c)
           \/ RevisionRestored(c)
    PROVE  DeskInv'
<1> DEFINE s == view.state
<1>1. /\ OfOne(s) /\ DOMAIN view = {"state", "identity", "schedule", "talk", "stranded"}
      /\ view.stranded \in BOOLEAN /\ view.identity \in Nat /\ ViewOK(view)
      /\ Held(calls, replies, Slots) /\ Sound(calls[c])
  BY DEF DeskInv, ViewOK, Held
\* An answer that opens nothing.
<1>2. ASSUME NEW kind \in {"SELECT", "RESTORE"}, Takes(c, {kind}), Done(calls, c),
             UNCHANGED view
      PROVE  DeskInv'
  <2>1. calls[c].kind \notin {"DRAFT", "APPROVE", "SAVE"}
    BY <1>2 DEF Takes
  <2> HIDE DEF s
  <2> QED
    BY <1>1, <1>2, <2>1, AnswerStep DEF s
\* One that quiets the talk.
<1>3. ASSUME NEW kinds, Takes(c, kinds), NEW t, OfOne(t),
             view'.state = t, view'.stranded = view.stranded, view'.talk = {},
             view'.identity \in Nat, DOMAIN view' = DOMAIN view,
             t.phase \in Waiting => t.phase = s.phase,
             calls[c].kind \in {"SELECT", "NEW", "RESTORE"},
             \/ Done(Moved(Hushed(calls)), c)
             \/ Refreshes(Moved(Hushed(calls)), c, "RESTORED")
      PROVE  DeskInv'
  <2>1. calls[c].kind \notin {"DRAFT", "APPROVE", "SAVE"}
    BY <1>3
  <2>2. ViewOK(view')
    BY <1>1, <1>3 DEF ViewOK
  <2> HIDE DEF s
  <2> QED
    BY <1>3, <2>1, <2>2, AnswerStep DEF s
<1>4. CASE RitualOpened(c)
  <2>1. Takes(c, {"SELECT"}) /\ calls[c].kind = "SELECT"
    BY <1>4 DEF RitualOpened, Takes
  <2>2. CASE calls[c].failed
    BY <1>2, <1>4, <2>1, <2>2 DEF RitualOpened
  <2>3. CASE ~calls[c].failed
    <3> DEFINE revision == Revision(calls[c].of.ritual, calls[c].answer.rev)
    <3>1. PICK snapshot \in Snapshots(revision) :
             view' = [view EXCEPT !.state = HydrateRitualSnapshot(snapshot),
                                  !.schedule = calls[c].answer.schedule, !.talk = {}]
      BY <1>4, <2>3 DEF RitualOpened
    <3>2. Done(Moved(Hushed(calls)), c)
      BY <1>4, <2>3 DEF RitualOpened
    <3>3. revision \in Revs
      <4>1. calls[c].of.ritual \in Nat
        BY <1>1, <2>1, WorkspaceAssumption DEF Sound, OfKind, Rituals
      <4>2. 1 \in 1 .. Len(replies) /\ replies[1] = c
        BY <1>1, <2>1 DEF Takes, Held
      <4>3. Ready(calls[c])
        BY <1>1, <4>2 DEF Held
      <4>4. calls[c].answer.rev \in Nat
        BY <2>1, <2>3, <4>3 DEF Ready
      <4> QED
        BY <4>1, <4>4 DEF Revision, Revs
    <3> DEFINE t == HydrateRitualSnapshot(snapshot)
    <3>4. OfOne(t) /\ t.phase \notin Waiting
      BY <3>3, SnapshotOpens DEF Opens
    <3>5. /\ view'.state = t /\ view'.stranded = view.stranded /\ view'.talk = {}
          /\ view'.identity = view.identity /\ DOMAIN view' = DOMAIN view
      BY <1>1, <3>1
    <3> HIDE DEF t
    <3> QED
      BY <1>1, <1>3, <2>1, <3>2, <3>4, <3>5
  <2> QED
    BY <2>2, <2>3
<1>5. CASE NewRitual(c)
  <2> DEFINE t == NewRitualReady(s)
  <2>1. /\ Takes(c, {"NEW"}) /\ calls[c].kind = "NEW" /\ Done(Moved(Hushed(calls)), c)
        /\ calls[c].answer \in Nat
    BY <1>1, <1>5 DEF NewRitual, Takes, Sound
  <2>2. [ritual |-> 0, rev |-> 0] \in Revs
    BY DEF Revs
  <2>3. OfOne(t) /\ (t.phase \in Waiting => t.phase = s.phase)
    BY <1>1, <2>2, OpeningEvents
  <2>4. view' = [view EXCEPT !.state = t, !.identity = calls[c].answer, !.schedule = None,
                             !.talk = {}]
    BY <1>5 DEF NewRitual
  <2>5. /\ view'.state = t /\ view'.stranded = view.stranded /\ view'.talk = {}
        /\ view'.identity = calls[c].answer /\ DOMAIN view' = DOMAIN view
    BY <1>1, <2>4
  <2> HIDE DEF t
  <2> QED
    BY <1>1, <1>3, <2>1, <2>3, <2>5
<1>6. CASE RevisionRestored(c)
  <2>1. Takes(c, {"RESTORE"}) /\ calls[c].kind = "RESTORE"
    BY <1>6 DEF RevisionRestored, Takes
  <2>2. CASE calls[c].failed
    BY <1>2, <1>6, <2>1, <2>2 DEF RevisionRestored
  <2>3. CASE ~calls[c].failed
    <3> DEFINE revision == Revision(calls[c].of.ritual, calls[c].of.rev + 1)
               t == RevisionRestoreSaved(s, revision)
    <3>1. /\ Refreshes(Moved(Hushed(calls)), c, "RESTORED")
          /\ view' = [view EXCEPT !.talk = {}, !.state = t]
      BY <1>6, <2>3 DEF RevisionRestored
    <3>2. revision \in Revs
      BY <1>1, <2>1 DEF Sound, OfKind, Revs, Revision
    <3>3. OfOne(t) /\ (t.phase \in Waiting => t.phase = s.phase)
      BY <1>1, <3>2, OpeningEvents
    <3>4. /\ view'.state = t /\ view'.stranded = view.stranded /\ view'.talk = {}
          /\ view'.identity = view.identity /\ DOMAIN view' = DOMAIN view
      BY <1>1, <3>1
    <3> HIDE DEF t
    <3> QED
      BY <1>1, <1>3, <2>1, <3>1, <3>3, <3>4
  <2> QED
    BY <2>2, <2>3
<1>7. CASE ApprovalReturns(c)
  <2>1. Takes(c, {"APPROVE"}) /\ calls[c].kind = "APPROVE"
    BY <1>7 DEF ApprovalReturns, Takes
  <2>2. ASSUME NEW t, OfOne(t), t.approved = s.approved \/ s.approved = None,
               t.phase \in Waiting => t.phase = s.phase, t.phase # "SAVING_APPROVAL",
               view' = [view EXCEPT !.state = t],
               Done(calls, c) \/ Refreshes(Moved(calls), c, "REFRESH")
        PROVE  DeskInv'
    <3>1. /\ view'.state = t /\ view'.stranded = view.stranded /\ view'.talk = view.talk
          /\ view'.identity = view.identity /\ DOMAIN view' = DOMAIN view
      BY <1>1, <2>2
    <3>2. s.approved = None => view.talk = {}
      BY <1>1, NoneApart DEF ViewOK
    <3>3. ViewOK(view')
      BY <1>1, <2>2, <3>1, <3>2 DEF ViewOK
    <3> HIDE DEF s
    <3> QED
      BY <2>1, <2>2, <3>1, <3>3, AnswerStep DEF s
  <2>3. CASE calls[c].failed
    <3>1. view' = [view EXCEPT !.state = ApprovalSaveFailed(s)] /\ Done(calls, c)
      BY <1>7, <2>3 DEF ApprovalReturns
    <3> QED
      BY <1>1, <2>2, <3>1, ApprovalEvents DEF Keeps
  <2>4. CASE ~calls[c].failed
    <3>1. /\ view' = [view EXCEPT !.state = ApprovalSaved(s)]
          /\ Refreshes(Moved(calls), c, "REFRESH")
      BY <1>7, <2>4 DEF ApprovalReturns
    <3> QED
      BY <1>1, <2>2, <3>1, ApprovalEvents DEF Keeps, Opens
  <2> QED
    BY <2>3, <2>4
<1>8. CASE LearningReturns(c)
  <2>1. Takes(c, {"SAVE"}) /\ calls[c].kind = "SAVE"
    BY <1>8 DEF LearningReturns, Takes
  <2>2. CASE calls[c].failed
    <3> DEFINE t == LearningSaveFailed(s)
    <3>1. view' = [view EXCEPT !.state = t] /\ Done(calls, c)
      BY <1>8, <2>2 DEF LearningReturns
    <3>2. [kind |-> "RUN", of |-> [ritual |-> 0, rev |-> 0]] \in Sources
      BY DEF Sources, Revs
    <3>3. Keeps(s, t) /\ t.phase # "SAVING_LEARNING"
      BY <1>1, <3>2, LearningEvents
    <3>4. /\ view'.state = t /\ view'.stranded = view.stranded /\ view'.talk = view.talk
          /\ view'.identity = view.identity /\ DOMAIN view' = DOMAIN view
      BY <1>1, <3>1
    <3>5. /\ OfOne(t) /\ t.approved = s.approved
          /\ t.phase \in Waiting => t.phase = s.phase
      BY <3>3 DEF Keeps
    <3>6. ViewOK(view')
      BY <1>1, <3>4, <3>5 DEF ViewOK
    <3> HIDE DEF t, s
    <3> QED
      BY <2>1, <3>1, <3>3, <3>4, <3>5, <3>6, AnswerStep DEF s
  <2>3. CASE ~calls[c].failed
    <3> DEFINE t == LearningSaved(s)
               lost == view.stranded \/ In(s, {"DRAFTING"})
    <3>1. /\ view' = [view EXCEPT !.state = t, !.talk = {}, !.stranded = lost]
          /\ Refreshes(Moved(Hushed(Overtaken(calls))), c, "REFRESH")
      BY <1>8, <2>3 DEF LearningReturns
    <3>2. [ritual |-> 0, rev |-> 0] \in Revs
      BY DEF Revs
    <3>3. /\ OfOne(t) /\ (t.phase \in Waiting => t.phase = s.phase)
          /\ t.phase # "SAVING_LEARNING"
      BY <1>1, <3>2, OpeningEvents
    <3>4. lost \in BOOLEAN /\ (s.phase = "DRAFTING" => lost)
      BY <1>1
    <3> HIDE DEF t, lost
    <3>5. /\ view'.state = t /\ view'.stranded = lost /\ view'.talk = {}
          /\ view'.identity = view.identity /\ DOMAIN view' = DOMAIN view
      BY <1>1, <3>1
    <3>6. ViewOK(view')
      BY <1>1, <3>3, <3>4, <3>5 DEF ViewOK
    <3>7. t.phase = "DRAFTING" => lost
      BY <3>3, <3>4 DEF Waiting
    <3> HIDE DEF s
    <3> QED
      BY <2>1, <3>1, <3>3, <3>5, <3>6, <3>7, AnswerStep DEF s
  <2> QED
    BY <2>2, <2>3
<1> QED
  BY <1>4, <1>5, <1>6, <1>7, <1>8

-------------------------------------------------------------------------------
(***************************************************************************)
(* The theorems.                                                           *)
(***************************************************************************)

\* Every step of the window, of the main process and of an answer keeps it.
THEOREM DeskHolds == Spec => []DeskInv
<1>1. ASSUME DeskInv, [Next]_vars
      PROVE  DeskInv'
  <2>1. CASE OwnerShapes
    BY <1>1, <2>1, ShapesKeep
  <2>2. ASSUME NEW c \in Slots, Owner(c)
        PROVE  DeskInv'
    BY <1>1, <2>2, CommandsKeep, SavesKeep, FollowUpKeeps, LooksKeep DEF Owner
  <2>3. ASSUME NEW c \in Slots, Settle(c)
        PROVE  DeskInv'
    BY <1>1, <2>3, SettleKeeps
  <2>4. ASSUME NEW c \in Slots, Returns(c)
        PROVE  DeskInv'
    BY <1>1, <2>4, ShownKeeps, OpenedKeeps DEF Returns
  <2>5. CASE UNCHANGED vars
    BY <1>1, <2>5 DEF vars, DeskInv
  <2> QED
    BY <1>1, <2>1, <2>2, <2>3, <2>4, <2>5 DEF Next
<1> QED
  BY <1>1, DeskInit, PTL DEF Spec

\* What is on the desk is of one revision, whatever the revisions and however many
\* calls are outstanding: see ShownIsOneRevision.
THEOREM DeskIsOfOneRevision == Spec => []ShownIsOneRevision
<1>1. DeskInv => ShownIsOneRevision
  <2> SUFFICES ASSUME DeskInv PROVE ShownIsOneRevision
    OBVIOUS
  <2> DEFINE s == view.state
  <2>1. OfOne(s) /\ \A revision \in view.talk : s.approved \in Revs /\ revision = s.approved
    BY DEF DeskInv, ViewOK
  <2>2. s.receipt # None \/ s.run # None \/ s.source # None => s.approved \in Revs
    BY <2>1 DEF OfOne
  <2>3. /\ s.receipt # None => s.receipt = s.approved
        /\ s.run # None => s.run.of = s.approved
        /\ s.source # None => s.source.of = s.approved
    BY <2>1 DEF OfOne
  <2> QED
    BY <2>1, <2>2, <2>3, NoneApart DEF ShownIsOneRevision
<1> QED
  BY <1>1, DeskHolds, PTL

\* What is shown as being saved is waited for: see SavesAreAwaited.
THEOREM SavesHaveTheirCalls == Spec => []SavesAreAwaited
<1>1. DeskInv => SavesAreAwaited
  BY DEF DeskInv, Waits, SavesAreAwaited
<1> QED
  BY <1>1, DeskHolds, PTL
===============================================================================
