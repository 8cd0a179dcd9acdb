------------------------------ MODULE RitualStore ------------------------------
(***************************************************************************)
(* The private file of the desktop in which Rituals, their runs, schedules *)
(* and learning are kept, and the operations of RitualRepository           *)
(* (ritual-repository.ts, ritual-snapshot-projections.ts).  Every          *)
(* operation reads the whole file, checks, and replaces it by one rename,  *)
(* in the order of the repository's queue: it is a function of the store.  *)
(*                                                                         *)
(* The store is that of one Ritual, so the conjuncts that compare Ritual   *)
(* identities hold.  Records have fresh identities.  The definition of a   *)
(* revision is a member of Definitions.                                    *)
(***************************************************************************)
EXTENDS RitualRun, Sequences

CONSTANTS
    StoreLimit,   \* entries each list of the file may have
    RunsByBytes,  \* runs, with their receipts, that fit the byte budget
    None          \* null

ASSUME StoreAssumption == StoreLimit \in Nat \ {0} /\ RunsByBytes \in Nat \ {0}

EmptyStore ==
    [ rituals |-> <<>>, runs |-> <<>>, runReceipts |-> {}, receipts |-> {},
      proposals |-> <<>>, decisions |-> {}, schedules |-> {} ]

\* The result of an operation: the store it leaves and whether it threw.
Written(store) == [ok |-> TRUE, store |-> store]
Threw(store) == [ok |-> FALSE, store |-> store]

Elements(s) == {s[i] : i \in 1 .. Len(s)}

\* findLast: the last entry of a list for which Test holds, or None.
FindLast(s, Test(_)) ==
    LET at == {i \in 1 .. Len(s) : Test(s[i])}
    IN  IF at = {} THEN None ELSE s[CHOOSE i \in at : \A j \in at : j <= i]

\* findIndex, of an entry known to be there.
FirstIndex(s, Test(_)) ==
    CHOOSE i \in 1 .. Len(s) :
        Test(s[i]) /\ \A j \in 1 .. i - 1 : ~Test(s[j])

-------------------------------------------------------------------------------
(***************************************************************************)
(* Revisions of the Ritual.                                                *)
(***************************************************************************)
Latest(store) == store.rituals[Len(store.rituals)]

LatestRevision(store) == Len(store.rituals)

\* approveRitualDraft, and approveRitualLearningProposal of a proposal.
InitialRevision(definition) ==
    [revision |-> 1, definition |-> definition, source |-> "INITIAL",
     proposal |-> None, restored |-> 0]
LearnedRevision(current, proposal) ==
    [revision |-> current.revision + 1, definition |-> proposal.definition,
     source |-> "LEARNING", proposal |-> proposal.id, restored |-> 0]
RestoredRevision(current, origin) ==
    [revision |-> current.revision + 1, definition |-> origin.definition,
     source |-> "RESTORE", proposal |-> None, restored |-> origin.revision]

\* findLearningReceipt: test and run receipts have distinct identities.
LearningReceipts(store) == store.receipts \cup store.runReceipts
HasReceipt(store, receipt, revision) ==
    \E r \in LearningReceipts(store) : r.id = receipt /\ r.of = revision

Decided(store) == {d.proposal : d \in store.decisions}

\* Seeded fault: a decision taken meanwhile is not looked for.
LearningLineageUndecided(store, ritual) ==
    ritual.source = "LEARNING" =>
        \E p \in Elements(store.proposals) :
            /\ p.id = ritual.proposal
            /\ p.from = LatestRevision(store)
            /\ HasReceipt(store, p.receipt, LatestRevision(store))

LearningLineage(store, ritual) ==
    ritual.source = "LEARNING" =>
        \E p \in Elements(store.proposals) :
            /\ p.id = ritual.proposal /\ p.id \notin Decided(store)
            /\ p.from = LatestRevision(store)
            /\ HasReceipt(store, p.receipt, LatestRevision(store))

RestoreLineage(store, ritual) ==
    ritual.source = "RESTORE" =>
        \E origin \in Elements(store.rituals) :
            /\ origin.revision = ritual.restored
            /\ origin.definition = ritual.definition
            /\ origin.definition # Latest(store).definition

\* What a new revision does to a schedule: a restored revision takes over that
\* of the revision before, any other enabled one is paused.
ScheduleAfter(schedule, ritual) ==
    LET paused == [schedule EXCEPT !.state = "PAUSED", !.pending = None]
    IN  CASE ritual.source = "RESTORE" /\ schedule.of = ritual.revision - 1 ->
                [paused EXCEPT !.of = ritual.revision]
          [] ~(ritual.source = "RESTORE" /\ schedule.of = ritual.revision - 1)
             /\ schedule.of # ritual.revision /\ schedule.state = "ENABLED" -> paused
          [] OTHER -> schedule

\* Seeded fault: a revision is appended whatever was appended meanwhile.
SaveUnordered(store, ritual) ==
    IF Len(store.rituals) < StoreLimit
    THEN Written([store EXCEPT
            !.rituals = Append(@, ritual),
            !.schedules = {ScheduleAfter(s, ritual) : s \in @}])
    ELSE Threw(store)

\* save: the identical revision is stored already, or the next one is appended.
Save(store, ritual) ==
    CASE ritual \in Elements(store.rituals) -> Written(store)
      [] /\ ritual \notin Elements(store.rituals)
         /\ ritual.revision = LatestRevision(store) + 1
         /\ LearningLineage(store, ritual) /\ RestoreLineage(store, ritual)
         /\ Len(store.rituals) < StoreLimit ->
            Written([store EXCEPT
                !.rituals = Append(@, ritual),
                !.schedules = {ScheduleAfter(s, ritual) : s \in @}])
      [] OTHER -> Threw(store)

-------------------------------------------------------------------------------
(***************************************************************************)
(* Retention of runs.                                                      *)
(***************************************************************************)
\* learningLineageRunIds: the receipts that proposals and revisions cite, and
\* the runs those are the receipts of.
CitedReceipts(store) == {p.receipt : p \in Elements(store.proposals)}
\* Seeded fault: only the receipts revisions are based on are protected.
LineageOfRevisions(store) ==
    {r.run : r \in {x \in store.runReceipts :
        \E v \in Elements(store.rituals), p \in Elements(store.proposals) :
            v.proposal = p.id /\ p.receipt = x.id}}

LineageRunIds(store) ==
    {r.run : r \in {x \in store.runReceipts : x.id \in CitedReceipts(store)}}

LatestApprovedRunId(store) ==
    LET run == FindLast(store.runs, LAMBDA r : r.of = LatestRevision(store))
    IN  IF run = None THEN None ELSE run.id

Evictable(store, kept) ==
    {i \in 1 .. Len(store.runs) :
        /\ IsTerminal(store.runs[i])
        /\ store.runs[i].id \notin
              {kept, LatestApprovedRunId(store)} \cup LineageRunIds(store)}

Remove(s, i) == SubSeq(s, 1, i - 1) \o SubSeq(s, i + 1, Len(s))

Evict(store, i) ==
    [store EXCEPT !.runs = Remove(@, i),
                  !.runReceipts = {r \in @ : r.run # store.runs[i].id}]

FirstOf(indices) == CHOOSE i \in indices : \A j \in indices : i <= j

\* evictTerminalRunsForNewRun: make room in the list for one more.
MakeRoom(store) ==
    CASE Len(store.runs) < StoreLimit -> Written(store)
      [] Len(store.runs) >= StoreLimit /\ Evictable(store, None) # {} ->
            Written(Evict(store, FirstOf(Evictable(store, None))))
      [] OTHER -> Threw(store)

\* retainStoreWithinByteBudget: make the file small enough, at every write.
Retain(before, store, kept) ==
    CASE Len(store.runs) <= RunsByBytes -> Written(store)
      [] Len(store.runs) > RunsByBytes /\ Evictable(store, kept) # {} ->
            Written(Evict(store, FirstOf(Evictable(store, kept))))
      [] OTHER -> Threw(before)

-------------------------------------------------------------------------------
(***************************************************************************)
(* Runs.                                                                   *)
(***************************************************************************)
RunIds(store) == {r.id : r \in Elements(store.runs)}
RunOf(store, id) == CHOOSE r \in Elements(store.runs) : r.id = id
OpenRuns(store, revision) ==
    {r \in Elements(store.runs) : r.of = revision /\ ~IsTerminal(r)}
LastRun(store) == FindLast(store.runs, LAMBDA r : r.of = LatestRevision(store))

\* assertRunSuccessor.
IsSuccessor(stored, run) == ~IsTerminal(stored) /\ run.revision = stored.revision + 1

Replace(store, run) ==
    [store EXCEPT !.runs =
        [@ EXCEPT ![FirstIndex(store.runs, LAMBDA r : r.id = run.id)] = run]]

SaveRun(store, run) ==
    CASE run \in Elements(store.runs) -> Written(store)
      [] /\ run \notin Elements(store.runs) /\ run.id \in RunIds(store)
         /\ IsSuccessor(RunOf(store, run.id), run) ->
            Retain(store, Replace(store, run), None)
      [] run.id \notin RunIds(store) /\ MakeRoom(store).ok ->
            LET room == MakeRoom(store).store
            IN  Retain(store, [room EXCEPT !.runs = Append(@, run)], None)
      [] OTHER -> Threw(store)

RunReceipt(run) ==
    [id |-> <<"run", run.id>>, run |-> run.id, of |-> run.of, outcome |-> run.status]

TestReceipt(id, revision) == [id |-> <<"test", id>>, of |-> revision]

\* Seeded fault: the run is completed in one write and its receipt in another.
SaveCompletionAlone(store, run) ==
    IF run.id \in RunIds(store) /\ IsSuccessor(RunOf(store, run.id), run)
    THEN Retain(store, Replace(store, run), run.id)
    ELSE Threw(store)

\* completeRun: the terminal run and its receipt in one write.
SaveCompletion(store, run) ==
    IF /\ run.id \in RunIds(store) /\ IsSuccessor(RunOf(store, run.id), run)
       /\ \A r \in store.runReceipts : r.run # run.id
       /\ Cardinality(store.runReceipts) < StoreLimit
    THEN Retain(store,
                [Replace(store, run) EXCEPT !.runReceipts = @ \cup {RunReceipt(run)}],
                run.id)
    ELSE Threw(store)

-------------------------------------------------------------------------------
(***************************************************************************)
(* Schedules, one for each revision that has one.  An instant is the day   *)
(* of an occurrence.                                                       *)
(***************************************************************************)
ScheduleOf(store, revision) ==
    LET of == {s \in store.schedules : s.of = revision}
    IN  IF of = {} THEN None ELSE CHOOSE s \in of : TRUE

EnabledSchedules(store) == {s \in store.schedules : s.state = "ENABLED"}

WithSchedule(store, schedule) ==
    [store EXCEPT !.schedules = {s \in @ : s.of # schedule.of} \cup {schedule}]

\* Seeded fault: the claim of an occurrence leaves it due.
ClaimOccurrenceAgain(store, candidate) ==
    LET schedule == ScheduleOf(store, candidate.of)
    IN  IF schedule # None /\ schedule.state = "ENABLED" /\ schedule.pending = None
        THEN WithSchedule(store, [schedule EXCEPT
                !.pending = [run |-> candidate.run, due |-> candidate.due]])
        ELSE store

\* claimScheduleOccurrence: the claim that is pending already, or a new one if
\* the schedule still is as the scheduler read it.
ClaimOccurrence(store, candidate) ==
    LET schedule == ScheduleOf(store, candidate.of)
    IN  IF /\ schedule # None /\ schedule.pending = None
           /\ schedule.state = "ENABLED" /\ schedule.next = candidate.due
           /\ schedule.next <= candidate.now
        THEN WithSchedule(store, [schedule EXCEPT
                !.next = candidate.now + 1,
                !.pending = [run |-> candidate.run, due |-> schedule.next]])
        ELSE store

\* acknowledgeScheduleOccurrence.
Acknowledge(store, run) ==
    LET claimed == {s \in store.schedules : s.pending # None /\ s.pending.run = run}
    IN  IF claimed = {} THEN store
        ELSE LET schedule == CHOOSE s \in claimed : TRUE
             IN  WithSchedule(store, [schedule EXCEPT
                    !.pending = None, !.last = schedule.pending.due])

\* Seeded fault: the schedule is saved whatever happened to it meanwhile.
SaveScheduleBlindly(store, schedule, unmoved) == Written(WithSchedule(store, schedule))

\* saveSchedule: of the latest revision only and, for a caller that read the
\* schedule, only if its updatedAt has not moved.
SaveSchedule(store, schedule, unmoved) ==
    IF schedule.of = LatestRevision(store) /\ unmoved
    THEN Written(WithSchedule(store, schedule))
    ELSE Threw(store)

-------------------------------------------------------------------------------
(***************************************************************************)
(* Learning: evidence, proposals and the owner's decisions about them.     *)
(***************************************************************************)
SaveReceipt(store, receipt) ==
    IF /\ receipt.of \in 1 .. LatestRevision(store)
       /\ receipt \notin store.receipts
       /\ Cardinality(store.receipts) < StoreLimit
    THEN Written([store EXCEPT !.receipts = @ \cup {receipt}])
    ELSE Threw(store)

SaveProposal(store, proposal) ==
    IF /\ HasReceipt(store, proposal.receipt, proposal.from)
       /\ Len(store.proposals) < StoreLimit
    THEN Written([store EXCEPT !.proposals = Append(@, proposal)])
    ELSE Threw(store)

ProposalsFrom(store, revision) ==
    FindLast(store.proposals, LAMBDA p : p.from = revision)

\* decideLearning: only the last proposal for the current revision is decided.
DecideLearning(store, id, from, decision) ==
    LET last == ProposalsFrom(store, from)
        stored == {d \in store.decisions : d.proposal = id}
    IN  IF /\ last # None /\ last.id = id /\ LatestRevision(store) = from
           /\ stored = {} /\ Cardinality(store.decisions) < StoreLimit
        THEN Written([store EXCEPT !.decisions =
                @ \cup {[proposal |-> id, from |-> from, decision |-> decision]}])
        ELSE Threw(store)

\* pendingLearningReview of a snapshot: the last undecided proposal for the
\* current revision.
LearningReview(store) ==
    LET last == ProposalsFrom(store, LatestRevision(store))
    IN  IF last # None /\ last.id \notin Decided(store) THEN last ELSE None
===============================================================================
