----------------------------- MODULE RitualLearning ----------------------------
(***************************************************************************)
(* How a Ritual learns: evidence of tests and runs, proposals of the       *)
(* provider, and the owner's approvals, decisions and restorations         *)
(* (ritual-builder-controller.ts), over the store of RitualStore.          *)
(*                                                                         *)
(* A test, a proposal and an approval read the store, wait (for a          *)
(* provider, or for the reads of others) and write; none is in the         *)
(* controller's queue.  A restoration reads and writes within that queue,  *)
(* in which decisions and the starts and completions of runs take turns.   *)
(* Runs complete and are evicted under pressure while all this goes on.    *)
(***************************************************************************)
EXTENDS RitualStore, LearningAuthority

CONSTANTS
    Calls,              \* calls that may be under way together
    InitialDefinition,  \* what the owner approved first
    Definitions,        \* what the provider may propose
    MaxId               \* records created: receipts, proposals and runs

ASSUME LearningAssumption ==
    /\ MaxId \in Nat /\ None \notin Nat
    /\ Definitions \cup {InitialDefinition} \subseteq RitualDefinition

VARIABLES
    store,   \* the file
    calls,   \* what each call has read
    busy,    \* the call that the controller's queue serves, or None
    lastId

vars == <<store, calls, busy, lastId>>

Idle == [at |-> "IDLE"]

Init ==
    /\ store = [EmptyStore EXCEPT !.rituals = <<InitialRevision(InitialDefinition)>>]
    /\ calls = [c \in Calls |-> Idle]
    /\ busy = None /\ lastId = 0

Fresh == lastId' = lastId + 1 /\ lastId < MaxId
Reads(c, read) == calls[c] = Idle /\ calls' = [calls EXCEPT ![c] = read]
Returns(c) == calls' = [calls EXCEPT ![c] = Idle]

-------------------------------------------------------------------------------
(***************************************************************************)
(* testRun and proposeLearning: what is read, and what the answer becomes. *)
(***************************************************************************)
TestReads(c) ==
    /\ Reads(c, [at |-> "TEST", of |-> LatestRevision(store)])
    /\ UNCHANGED <<store, busy, lastId>>

TestArrives(c) ==
    /\ calls[c].at = "TEST" /\ Fresh
    /\ store' = SaveReceipt(store, TestReceipt(lastId', calls[c].of)).store
    /\ Returns(c) /\ UNCHANGED busy

FeedbackReads(c) ==
    /\ \E r \in LearningReceipts(store) :
          /\ r.of = LatestRevision(store)
          /\ Reads(c, [at |-> "LEARN", of |-> r.of, receipt |-> r.id])
    /\ UNCHANGED <<store, busy, lastId>>

ProposalArrives(c) ==
    /\ calls[c].at = "LEARN" /\ Fresh
    /\ \E definition \in Definitions :
          /\ IsNoBroader(store.rituals[calls[c].of].definition, definition)
          /\ store' = SaveProposal(store,
                 [id |-> lastId', from |-> calls[c].of, receipt |-> calls[c].receipt,
                  definition |-> definition]).store
    /\ Returns(c) /\ UNCHANGED busy

\* The provider waits or answers badly, or the process ends and starts again.
GivesUp(c) ==
    /\ calls[c] # Idle /\ Returns(c)
    /\ busy' = IF busy = c THEN None ELSE busy
    /\ UNCHANGED <<store, lastId>>

-------------------------------------------------------------------------------
(***************************************************************************)
(* approveLearning, decideLearning, restoreRevision.                       *)
(***************************************************************************)
ApprovalReads(c) ==
    /\ \E p \in Elements(store.proposals) :
          /\ p.from = LatestRevision(store)
          /\ Reads(c, [at |-> "APPROVE", ritual |-> LearnedRevision(Latest(store), p)])
    /\ UNCHANGED <<store, busy, lastId>>

ApprovalSaves(c) ==
    /\ calls[c].at = "APPROVE"
    /\ store' = Save(store, calls[c].ritual).store
    /\ Returns(c) /\ UNCHANGED <<busy, lastId>>

OwnerDecides ==
    /\ busy = None
    /\ \E p \in Elements(store.proposals), decision \in {"REJECTED", "REVISION_REQUESTED"} :
          /\ DecideLearning(store, p.id, p.from, decision).ok
          /\ store' = DecideLearning(store, p.id, p.from, decision).store
    /\ UNCHANGED <<calls, busy, lastId>>

RestorationReads(c) ==
    /\ busy = None /\ busy' = c
    /\ OpenRuns(store, LatestRevision(store)) = {}
    /\ LearningReview(store) = None
    /\ \E origin \in Elements(store.rituals) :
          /\ origin.definition # Latest(store).definition
          /\ Reads(c, [at |-> "RESTORE",
                       ritual |-> RestoredRevision(Latest(store), origin)])
    /\ UNCHANGED <<store, lastId>>

RestorationSaves(c) ==
    /\ calls[c].at = "RESTORE" /\ busy = c /\ busy' = None
    /\ store' = Save(store, calls[c].ritual).store
    /\ Returns(c) /\ UNCHANGED lastId

-------------------------------------------------------------------------------
(***************************************************************************)
(* Runs, whose receipts are evidence as well: started and completed in the *)
(* controller's queue, driven outside of it.                               *)
(***************************************************************************)
RunStarts ==
    /\ busy = None /\ OpenRuns(store, LatestRevision(store)) = {} /\ Fresh
    /\ store' = SaveRun(store, CreateRitualRun(lastId', LatestRevision(store))).store
    /\ UNCHANGED <<calls, busy>>

RunProceeds ==
    /\ \E r \in Elements(store.runs) :
          \/ /\ CanStart(r) /\ store' = SaveRun(store, Start(r)).store
          \/ /\ IsExecuting(r)
             /\ \E answer \in ExecutorAnswers(r) :
                   store' = SaveRun(store, Follow(r, answer)).store
    /\ UNCHANGED <<calls, busy, lastId>>

RunEnds ==
    /\ busy = None
    /\ \E r \in Elements(store.runs) :
          \/ CanCompleteRun(r) /\ store' = SaveCompletion(store, CompleteRun(r)).store
          \/ CanStop(r) /\ store' = SaveRun(store, Cancel(r)).store
    /\ UNCHANGED <<calls, busy, lastId>>

Next ==
    \/ OwnerDecides \/ RunStarts \/ RunProceeds \/ RunEnds
    \/ \E c \in Calls :
          \/ TestReads(c) \/ TestArrives(c) \/ FeedbackReads(c) \/ ProposalArrives(c)
          \/ GivesUp(c) \/ ApprovalReads(c) \/ ApprovalSaves(c)
          \/ RestorationReads(c) \/ RestorationSaves(c)

Spec == Init /\ [][Next]_vars

-------------------------------------------------------------------------------
(***************************************************************************)
(* Properties.                                                             *)
(***************************************************************************)

\* What a proposal was learned from is kept as long as the proposal, and the
\* run of a run's receipt with it, whatever is evicted to make room; otherwise
\* opening the workspace throws RITUAL_LEARNING_LINEAGE_CORRUPT.
LineageRetained ==
    \A p \in Elements(store.proposals) :
        /\ HasReceipt(store, p.receipt, p.from)
        /\ \A r \in store.runReceipts : r.id = p.receipt => r.run \in RunIds(store)

\* A proposal the owner rejected or sent back never becomes a revision, and one
\* that became a revision is never decided, in whichever order approval and
\* decision, which do not wait for one another, reach the file.
DecidedNeverApplied ==
    \A v \in Elements(store.rituals) : v.proposal \notin Decided(store)

\* Every learned revision is what a proposal for the revision before it says:
\* two approvals, or an approval and a restoration, never build on one revision.
RevisionsAreGoverned ==
    \A i \in 1 .. Len(store.rituals) :
        store.rituals[i].source = "LEARNING" =>
            \E p \in Elements(store.proposals) :
                /\ p.id = store.rituals[i].proposal /\ p.from = i - 1
                /\ p.definition = store.rituals[i].definition

\* However often a Ritual learns and is restored, it may do no more than what
\* the owner approved first: each proposal is compared with the one revision it
\* is learned from, whatever was approved while the provider thought.
AuthorityNeverGrows ==
    \A i \in 1 .. Len(store.rituals) :
        MayDoNoMore(store.rituals[i].definition, InitialDefinition)
===============================================================================
