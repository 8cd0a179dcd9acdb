-------------------------- MODULE RitualLearningProofs -------------------------
(***************************************************************************)
(* Proofs about RitualLearning: learning never grows what a Ritual may do, *)
(* a decided proposal never becomes a revision, every learned revision is  *)
(* what a proposal for the one before it says, and what a proposal was     *)
(* learned from outlives every eviction.                                   *)
(***************************************************************************)
EXTENDS RitualLearning, TLAPS, SequenceTheorems, WellFoundedInduction

-------------------------------------------------------------------------------
(***************************************************************************)
(* What the code compares bounds what a definition lets a run do.          *)
(***************************************************************************)

\* Steps: no step is new, and none loses its gate, also where a key is used twice.
LEMMA AuthorityBoundsSteps ==
    ASSUME NEW a, NEW b, IsLearningAuthorityNoBroader(a, b),
           \A i \in 1 .. Len(a.steps) : a.steps[i].approval \in {"OWNER_REQUIRED", "NONE"}
    PROVE  Taken(b) \subseteq Taken(a) /\ Ungated(b) \subseteq Ungated(a)
<1>1. ASSUME NEW i \in 1 .. Len(b.steps)
      PROVE  \E j \in 1 .. Len(a.steps) :
                /\ a.steps[j].key = b.steps[i].key /\ a.steps[j].actor = b.steps[i].actor
                /\ b.steps[i].approval = "NONE" => a.steps[j].approval = "NONE"
  BY DEF IsLearningAuthorityNoBroader, IsStepOf, IsStepNoBroader
<1> QED
  BY <1>1 DEF Taken, Ungated

\* Searches: the topic stays, the numbers fall, the domains are never widened.
LEMMA ResearchBoundsSearches ==
    ASSUME NEW a, NEW b, IsResearchNoBroader(a.research, b.research),
           a.research \subseteq Research, b.research \subseteq Research
    PROVE  Searches(b) \subseteq Searches(a)
<1>1. ASSUME NEW p \in b.research
      PROVE  \E r \in a.research :
                [query : {p.query}, domain : Searched(p),
                 result : 1 .. p.maxResults, age : 1 .. p.lookbackDays]
                \subseteq
                [query : {r.query}, domain : Searched(r),
                 result : 1 .. r.maxResults, age : 1 .. r.lookbackDays]
  <2>1. PICK r \in a.research :
            /\ p.query = r.query
            /\ p.maxResults <= r.maxResults /\ p.lookbackDays <= r.lookbackDays
            /\ r.includeDomains # {} =>
                  p.includeDomains # {} /\ p.includeDomains \subseteq r.includeDomains
    BY DEF IsResearchNoBroader
  <2>2. p \in Research /\ r \in Research
    OBVIOUS
  <2>3. Searched(p) \subseteq Searched(r)
    BY <2>1, <2>2 DEF Searched, Research
  <2>4. /\ 1 .. p.maxResults \subseteq 1 .. r.maxResults
        /\ 1 .. p.lookbackDays \subseteq 1 .. r.lookbackDays
    BY <2>1, <2>2 DEF Research
  <2> QED
    BY <2>1, <2>3, <2>4
<1> QED
  BY <1>1 DEF Searches

\* Mail: fewer messages of fewer days, and unread ones only once it was so.
LEMMA GmailBoundsMessages ==
    ASSUME NEW a, NEW b, IsGmailReviewNoBroader(a.gmailReview, b.gmailReview),
           a.gmailReview \subseteq GmailReview, b.gmailReview \subseteq GmailReview
    PROVE  Messages(b) \subseteq Messages(a)
<1> DEFINE Read(m) == [unread : Unread(m), message : 1 .. m.maxMessages,
                       age : 1 .. m.lookbackDays]
<1>1. ASSUME NEW p \in b.gmailReview
      PROVE  \E r \in a.gmailReview : Read(p) \subseteq Read(r)
  <2>1. PICK r \in a.gmailReview :
            /\ p.maxMessages <= r.maxMessages /\ p.lookbackDays <= r.lookbackDays
            /\ r.unreadOnly => p.unreadOnly
    BY DEF IsGmailReviewNoBroader
  <2>2. p \in GmailReview /\ r \in GmailReview
    OBVIOUS
  <2>3. Unread(p) \subseteq Unread(r)
    BY <2>1 DEF Unread
  <2>4. /\ 1 .. p.maxMessages \subseteq 1 .. r.maxMessages
        /\ 1 .. p.lookbackDays \subseteq 1 .. r.lookbackDays
    BY <2>1, <2>2 DEF GmailReview
  <2> QED
    BY <2>3, <2>4
<1> QED
  BY <1>1 DEF Messages

\* A proposal that validateRitualLearningResult lets through may do no more than
\* the revision it is learned from.
THEOREM NoBroaderMayDoNoMore ==
    ASSUME NEW a \in RitualDefinition, NEW b \in RitualDefinition, IsNoBroader(a, b)
    PROVE  MayDoNoMore(b, a)
<1>1. /\ a.research \subseteq Research /\ b.research \subseteq Research
      /\ a.gmailReview \subseteq GmailReview /\ b.gmailReview \subseteq GmailReview
  BY DEF RitualDefinition, Optional
<1>2. \A i \in 1 .. Len(a.steps) : a.steps[i].approval \in {"OWNER_REQUIRED", "NONE"}
  <2>1. a.steps \in Seq(RitualStep)
    BY DEF RitualDefinition
  <2>2. \A i \in 1 .. Len(a.steps) : a.steps[i] \in RitualStep
    BY <2>1
  <2> QED
    BY <2>2 DEF RitualStep
<1>3. Taken(b) \subseteq Taken(a) /\ Ungated(b) \subseteq Ungated(a)
  BY <1>2, AuthorityBoundsSteps DEF IsNoBroader
<1>4. Searches(b) \subseteq Searches(a)
  BY <1>1, ResearchBoundsSearches DEF IsNoBroader
<1>5. Messages(b) \subseteq Messages(a)
  BY <1>1, GmailBoundsMessages DEF IsNoBroader
<1>6. /\ b.trigger = a.trigger /\ b.permissions \subseteq a.permissions
      /\ b.ownerReview = "EXCEPTIONS_ONLY" => a.ownerReview = "EXCEPTIONS_ONLY"
      /\ b.learning = "PROPOSE_ONLY" => a.learning = "PROPOSE_ONLY"
  BY DEF IsNoBroader, IsLearningAuthorityNoBroader, RitualDefinition
<1> QED
  BY <1>3, <1>4, <1>5, <1>6 DEF MayDoNoMore

-------------------------------------------------------------------------------
(***************************************************************************)
(* The inductive invariant: every definition that is stored, proposed or   *)
(* about to be saved is governed by the one the owner approved first.      *)
(***************************************************************************)
Governed ==
    {d \in RitualDefinition : MayDoNoMore(d, InitialDefinition)}

IsList(s) == \E S : s \in Seq(S)

Fields == {"rituals", "runs", "runReceipts", "receipts", "proposals", "decisions",
           "schedules"}

StoreGoverned(file) ==
    /\ DOMAIN file = Fields
    /\ IsList(file.rituals) /\ Len(file.rituals) >= 1
    /\ IsList(file.proposals)
    /\ \A i \in 1 .. Len(file.rituals) : file.rituals[i].definition \in Governed
    /\ \A i \in 1 .. Len(file.proposals) : file.proposals[i].definition \in Governed

CallsGoverned ==
    /\ DOMAIN calls = Calls
    /\ \A c \in Calls :
          /\ calls[c].at \in {"APPROVE", "RESTORE"} =>
                calls[c].ritual.definition \in Governed
          /\ calls[c].at = "LEARN" => calls[c].of \in 1 .. Len(store.rituals)

IInv == StoreGoverned(store) /\ CallsGoverned

\* An operation that touches neither the revisions nor the proposals, nor what
\* was decided about them.
Spares(file, left) ==
    /\ DOMAIN left = DOMAIN file
    /\ left.rituals = file.rituals /\ left.proposals = file.proposals
    /\ left.decisions = file.decisions

\* Such an operation leaves a governed file governed.
LEMMA SparedIsGoverned ==
    ASSUME NEW file, NEW left, StoreGoverned(file), Spares(file, left)
    PROVE  StoreGoverned(left) /\ Len(left.rituals) = Len(file.rituals)
BY DEF StoreGoverned, Spares

\* A list to which an entry is appended.
LEMMA AppendToList ==
    ASSUME NEW s, IsList(s), NEW x
    PROVE  /\ IsList(Append(s, x)) /\ Len(s) \in Nat
           /\ Len(Append(s, x)) = Len(s) + 1
           /\ \A i \in 1 .. Len(s) + 1 :
                  Append(s, x)[i] = IF i = Len(s) + 1 THEN x ELSE s[i]
<1>1. PICK S : s \in Seq(S)
  BY DEF IsList
<1>2. s \in Seq(S \cup {x}) /\ x \in S \cup {x}
  BY <1>1
<1>3. Append(s, x) \in Seq(S \cup {x})
  BY <1>2
<1> QED
  BY <1>2, <1>3 DEF IsList

\* What is proposed from a governed definition, and no broader, is governed.
LEMMA NoBroaderIsGoverned ==
    ASSUME NEW d \in Governed, NEW e \in RitualDefinition, IsNoBroader(d, e)
    PROVE  e \in Governed
<1>1. MayDoNoMore(e, d) /\ MayDoNoMore(d, InitialDefinition)
  BY NoBroaderMayDoNoMore DEF Governed
<1> QED
  BY <1>1 DEF MayDoNoMore, Governed

-------------------------------------------------------------------------------
(***************************************************************************)
(* The operations of the file.                                             *)
(***************************************************************************)

\* Retention evicts runs and their receipts, nothing else.
LEMMA RetentionSpares ==
    ASSUME NEW file, NEW before, NEW kept, Fields \subseteq DOMAIN file
    PROVE  /\ Spares(file, MakeRoom(file).store)
           /\ \/ Spares(file, Retain(before, file, kept).store)
              \/ Retain(before, file, kept).store = before
<1>1. ASSUME NEW i
      PROVE  Spares(file, Evict(file, i))
  BY DEF Evict, Spares, Fields
<1>2. Spares(file, file)
  BY DEF Spares
<1> QED
  BY <1>1, <1>2 DEF MakeRoom, Retain, Written, Threw

\* A run is created or replaced.
LEMMA SaveRunSpares ==
    ASSUME NEW file, NEW run, Fields \subseteq DOMAIN file
    PROVE  Spares(file, SaveRun(file, run).store)
<1>1. Spares(file, file)
  BY DEF Spares
<1>2. /\ Fields \subseteq DOMAIN Replace(file, run)
      /\ Spares(file, Replace(file, run))
  BY DEF Replace, FirstIndex, Spares, Fields
<1>3. Spares(file, Retain(file, Replace(file, run), None).store)
  BY <1>1, <1>2, RetentionSpares DEF Spares
<1>4. ASSUME NEW room, Spares(file, room)
      PROVE  Spares(file, Retain(file, [room EXCEPT !.runs = Append(@, run)], None).store)
  <2> DEFINE longer == [room EXCEPT !.runs = Append(@, run)]
  <2>1. Fields \subseteq DOMAIN longer /\ Spares(file, longer)
    BY <1>4 DEF Spares, Fields
  <2> HIDE DEF longer
  <2>2. Spares(file, Retain(file, longer, None).store)
    BY <1>1, <2>1, RetentionSpares DEF Spares
  <2> QED
    BY <2>2 DEF longer
<1>5. Spares(file, MakeRoom(file).store)
  BY RetentionSpares
<1>6. CASE run \in Elements(file.runs)
  BY <1>1, <1>6 DEF SaveRun, Written, RunIds
<1>7. CASE /\ run \notin Elements(file.runs) /\ run.id \in RunIds(file)
           /\ IsSuccessor(RunOf(file, run.id), run)
  BY <1>3, <1>7 DEF SaveRun
<1>8. CASE run \notin Elements(file.runs) /\ run.id \notin RunIds(file)
  BY <1>1, <1>4, <1>5, <1>8 DEF SaveRun, Threw
<1>9. CASE /\ run \notin Elements(file.runs) /\ run.id \in RunIds(file)
           /\ ~IsSuccessor(RunOf(file, run.id), run)
  BY <1>1, <1>9 DEF SaveRun, Threw
<1> QED
  BY <1>6, <1>7, <1>8, <1>9

\* A run is completed together with its receipt.
LEMMA SaveCompletionSpares ==
    ASSUME NEW file, NEW run, Fields \subseteq DOMAIN file
    PROVE  Spares(file, SaveCompletion(file, run).store)
<1> DEFINE completed ==
        [Replace(file, run) EXCEPT !.runReceipts = @ \cup {RunReceipt(run)}]
<1>1. Spares(file, file)
  BY DEF Spares
<1>2. Fields \subseteq DOMAIN completed /\ Spares(file, completed)
  BY DEF Replace, FirstIndex, Spares, Fields
<1> HIDE DEF completed
<1>3. Spares(file, Retain(file, completed, run.id).store)
  BY <1>1, <1>2, RetentionSpares DEF Spares
<1>4. CASE SaveCompletion(file, run) = Retain(file, completed, run.id)
  BY <1>3, <1>4
<1>5. CASE SaveCompletion(file, run) = Threw(file)
  BY <1>1, <1>5 DEF Threw
<1> QED
  BY <1>4, <1>5 DEF SaveCompletion, completed

\* Evidence is recorded.
LEMMA SaveReceiptSpares ==
    ASSUME NEW file, Fields \subseteq DOMAIN file, NEW receipt
    PROVE  Spares(file, SaveReceipt(file, receipt).store)
<1>1. Spares(file, file)
  BY DEF Spares
<1>2. Spares(file, [file EXCEPT !.receipts = @ \cup {receipt}])
  BY DEF Spares, Fields
<1> QED
  BY <1>1, <1>2 DEF SaveReceipt, Written, Threw

\* A decision is added to the decisions, of a proposal for the last revision.
LEMMA DecideAdds ==
    ASSUME NEW file, StoreGoverned(file), NEW id, NEW from, NEW decision,
           DecideLearning(file, id, from, decision).ok
    PROVE  LET left == DecideLearning(file, id, from, decision).store
           IN  /\ StoreGoverned(left)
               /\ left.rituals = file.rituals /\ left.proposals = file.proposals
               /\ from = LatestRevision(file)
               /\ left.decisions = file.decisions \cup
                     {[proposal |-> id, from |-> from, decision |-> decision]}
<1> DEFINE added == [proposal |-> id, from |-> from, decision |-> decision]
           left == [file EXCEPT !.decisions = @ \cup {added}]
<1>1. /\ DecideLearning(file, id, from, decision) = Written(left)
      /\ from = LatestRevision(file)
  BY DEF DecideLearning, ProposalsFrom, FindLast, Written, Threw
<1>2. /\ left.rituals = file.rituals /\ left.proposals = file.proposals
      /\ left.decisions = file.decisions \cup {added} /\ DOMAIN left = DOMAIN file
  BY DEF StoreGoverned, Fields
<1> HIDE DEF left
<1>3. StoreGoverned(left)
  BY <1>2 DEF StoreGoverned
<1> QED
  BY <1>1, <1>2, <1>3 DEF Written

\* A governed proposal leaves the file governed.
LEMMA SaveProposalIsGoverned ==
    ASSUME NEW file, StoreGoverned(file), NEW proposal, proposal.definition \in Governed
    PROVE  /\ StoreGoverned(SaveProposal(file, proposal).store)
           /\ SaveProposal(file, proposal).store.rituals = file.rituals
<1> DEFINE longer == [file EXCEPT !.proposals = Append(@, proposal)]
<1>1. StoreGoverned(longer) /\ longer.rituals = file.rituals
  <2>1. /\ DOMAIN longer = Fields /\ longer.rituals = file.rituals
        /\ longer.proposals = Append(file.proposals, proposal)
    BY DEF StoreGoverned, Fields
  <2>2. /\ IsList(longer.proposals)
        /\ \A i \in 1 .. Len(longer.proposals) :
              longer.proposals[i].definition \in Governed
    BY <2>1, AppendToList DEF StoreGoverned
  <2> QED
    BY <2>1, <2>2 DEF StoreGoverned
<1> QED
  BY <1>1 DEF SaveProposal, Written, Threw

\* A governed revision leaves the file governed, and no revision goes.
LEMMA SaveIsGoverned ==
    ASSUME NEW file, StoreGoverned(file), NEW ritual, ritual.definition \in Governed
    PROVE  /\ StoreGoverned(Save(file, ritual).store)
           /\ Len(file.rituals) <= Len(Save(file, ritual).store.rituals)
<1> DEFINE longer == [file EXCEPT
        !.rituals = Append(@, ritual),
        !.schedules = {ScheduleAfter(x, ritual) : x \in @}]
<1>1. Len(file.rituals) \in Nat
  BY AppendToList DEF StoreGoverned
<1>2. StoreGoverned(longer) /\ Len(file.rituals) <= Len(longer.rituals)
  <2>1. /\ DOMAIN longer = Fields /\ longer.proposals = file.proposals
        /\ longer.rituals = Append(file.rituals, ritual)
    BY DEF StoreGoverned, Fields
  <2>2. /\ IsList(longer.rituals)
        /\ Len(longer.rituals) >= 1 /\ Len(file.rituals) <= Len(longer.rituals)
        /\ \A i \in 1 .. Len(longer.rituals) : longer.rituals[i].definition \in Governed
    BY <1>1, <2>1, AppendToList DEF StoreGoverned
  <2> QED
    BY <2>1, <2>2 DEF StoreGoverned
<1>3. \/ Save(file, ritual).store = file \/ Save(file, ritual).store = longer
  BY DEF Save, Written, Threw
<1> HIDE DEF longer
<1> QED
  BY <1>1, <1>2, <1>3

-------------------------------------------------------------------------------
(***************************************************************************)
(* The steps.                                                              *)
(***************************************************************************)

\* The file of the start holds the one revision the owner approved.
LEMMA InitGoverned == Init => IInv
<1> SUFFICES ASSUME Init PROVE IInv
  OBVIOUS
<1> DEFINE first == InitialRevision(InitialDefinition)
<1>1. /\ DOMAIN store = Fields
      /\ store.rituals = <<first>> /\ store.proposals = <<>>
  BY DEF Init, EmptyStore, Fields
<1>2. first.definition \in Governed
  BY LearningAssumption DEF InitialRevision, Governed, MayDoNoMore
<1> HIDE DEF first
<1>3. IsList(store.rituals) /\ IsList(store.proposals)
  <2>1. <<first>> \in Seq({first}) /\ <<>> \in Seq({first})
    OBVIOUS
  <2> QED
    BY <1>1, <2>1 DEF IsList
<1>4. StoreGoverned(store)
  BY <1>1, <1>2, <1>3 DEF StoreGoverned
<1>5. CallsGoverned
  BY DEF Init, CallsGoverned, Idle
<1> QED
  BY <1>4, <1>5 DEF IInv

\* What a call holds stays governed when no revision goes.
LEMMA CallsStayGoverned ==
    ASSUME IInv, UNCHANGED calls, StoreGoverned(store'),
           Len(store.rituals) <= Len(store'.rituals)
    PROVE  CallsGoverned'
<1>1. Len(store.rituals) \in Nat /\ Len(store'.rituals) \in Nat
  BY AppendToList DEF IInv, StoreGoverned
<1> QED
  BY <1>1 DEF IInv, CallsGoverned

\* A call that returns holds nothing.
LEMMA ReturnsGoverned ==
    ASSUME IInv, NEW c \in Calls, Returns(c), StoreGoverned(store'),
           Len(store.rituals) <= Len(store'.rituals)
    PROVE  CallsGoverned'
<1>1. Len(store.rituals) \in Nat /\ Len(store'.rituals) \in Nat
  BY AppendToList DEF IInv, StoreGoverned
<1>2. calls' = [calls EXCEPT ![c] = Idle] /\ DOMAIN calls = Calls
  BY DEF Returns, IInv, CallsGoverned
<1>3. \A d \in Calls : calls'[d] = IF d = c THEN Idle ELSE calls[d]
  BY <1>2
<1>4. Idle.at = "IDLE"
  BY DEF Idle
<1> QED
  BY <1>1, <1>2, <1>3, <1>4 DEF IInv, CallsGoverned

\* A call reads: what it holds is governed if what it has read is.
LEMMA ReadsGoverned ==
    ASSUME IInv, NEW c \in Calls, NEW read, Reads(c, read), UNCHANGED store,
           read.at \in {"APPROVE", "RESTORE"} => read.ritual.definition \in Governed,
           read.at = "LEARN" => read.of \in 1 .. Len(store.rituals)
    PROVE  IInv'
<1>1. calls' = [calls EXCEPT ![c] = read] /\ DOMAIN calls = Calls
  BY DEF Reads, IInv, CallsGoverned
<1>2. \A d \in Calls : calls'[d] = IF d = c THEN read ELSE calls[d]
  BY <1>1
<1>3. CallsGoverned'
  BY <1>1, <1>2 DEF IInv, CallsGoverned
<1> QED
  BY <1>3 DEF IInv

\* The revision that is the latest is governed.
LEMMA LatestIsGoverned ==
    ASSUME StoreGoverned(store)
    PROVE  /\ LatestRevision(store) \in 1 .. Len(store.rituals)
           /\ Latest(store).definition \in Governed
BY AppendToList DEF StoreGoverned, LatestRevision, Latest

\* Evidence, decisions and runs do not touch what is governed.
LEMMA SparingStep ==
    ASSUME IInv, Spares(store, store'),
           UNCHANGED calls \/ \E c \in Calls : Returns(c)
    PROVE  IInv'
<1>1. StoreGoverned(store') /\ Len(store'.rituals) = Len(store.rituals)
  BY SparedIsGoverned DEF IInv
<1>2. Len(store.rituals) <= Len(store'.rituals)
  BY <1>1, AppendToList DEF IInv, StoreGoverned
<1>3. CallsGoverned'
  BY <1>1, <1>2, CallsStayGoverned, ReturnsGoverned
<1> QED
  BY <1>1, <1>3 DEF IInv

\* The provider's answer is compared with the revision it was asked about.
LEMMA ProposalGoverned ==
    ASSUME IInv, NEW c \in Calls, ProposalArrives(c)
    PROVE  IInv'
<1>1. PICK definition \in Definitions :
          /\ IsNoBroader(store.rituals[calls[c].of].definition, definition)
          /\ store' = SaveProposal(store,
                [id |-> lastId', from |-> calls[c].of, receipt |-> calls[c].receipt,
                 definition |-> definition]).store
  BY DEF ProposalArrives
<1>2. definition \in Governed
  <2>1. store.rituals[calls[c].of].definition \in Governed
    BY DEF ProposalArrives, IInv, CallsGoverned, StoreGoverned
  <2>2. definition \in RitualDefinition
    BY LearningAssumption
  <2> QED
    BY <1>1, <2>1, <2>2, NoBroaderIsGoverned
<1> DEFINE proposal ==
        [id |-> lastId', from |-> calls[c].of, receipt |-> calls[c].receipt,
         definition |-> definition]
<1>3. proposal.definition \in Governed
  BY <1>2
<1> HIDE DEF proposal
<1>4. StoreGoverned(store') /\ store'.rituals = store.rituals
  BY <1>1, <1>3, SaveProposalIsGoverned DEF IInv, proposal
<1>5. Returns(c)
  BY DEF ProposalArrives
<1>6. Len(store.rituals) <= Len(store'.rituals)
  <2>1. Len(store.rituals) \in Nat
    BY AppendToList DEF IInv, StoreGoverned
  <2> QED
    BY <1>4, <2>1
<1> QED
  BY <1>4, <1>5, <1>6, ReturnsGoverned DEF IInv

\* An approval or a restoration saves what its call has read.
LEMMA SavesGoverned ==
    ASSUME IInv, NEW c \in Calls, calls[c].at \in {"APPROVE", "RESTORE"},
           store' = Save(store, calls[c].ritual).store, Returns(c)
    PROVE  IInv'
<1>1. calls[c].ritual.definition \in Governed
  BY DEF IInv, CallsGoverned
<1>2. StoreGoverned(store') /\ Len(store.rituals) <= Len(store'.rituals)
  BY <1>1, SaveIsGoverned DEF IInv
<1> QED
  BY <1>2, ReturnsGoverned DEF IInv

\* Each action preserves the invariant.
LEMMA NextGoverned == IInv /\ [Next]_vars => IInv'
<1> SUFFICES ASSUME IInv, [Next]_vars PROVE IInv'
  OBVIOUS
<1> USE DEF IInv
<1>1. Fields \subseteq DOMAIN store /\ Spares(store, store)
  BY DEF StoreGoverned, Spares
<1>2. CASE UNCHANGED vars
  BY <1>2 DEF vars, StoreGoverned, CallsGoverned
<1>3. CASE OwnerDecides
  BY <1>3, DecideAdds, CallsStayGoverned, AppendToList DEF OwnerDecides, StoreGoverned
<1>4. CASE RunStarts
  BY <1>1, <1>4, SaveRunSpares, SparingStep DEF RunStarts
<1>5. CASE RunProceeds
  BY <1>1, <1>5, SaveRunSpares, SparingStep DEF RunProceeds
<1>6. CASE RunEnds
  BY <1>1, <1>6, SaveRunSpares, SaveCompletionSpares, SparingStep DEF RunEnds
<1>7. ASSUME NEW c \in Calls, TestReads(c)
      PROVE  IInv'
  BY <1>7, ReadsGoverned DEF TestReads
<1>8. ASSUME NEW c \in Calls, TestArrives(c)
      PROVE  IInv'
  BY <1>1, <1>8, SaveReceiptSpares, SparingStep DEF TestArrives
<1>9. ASSUME NEW c \in Calls, FeedbackReads(c)
      PROVE  IInv'
  BY <1>9, ReadsGoverned, LatestIsGoverned DEF FeedbackReads
<1>10. ASSUME NEW c \in Calls, GivesUp(c)
       PROVE  IInv'
  BY <1>1, <1>10, SparingStep DEF GivesUp
<1>11. ASSUME NEW c \in Calls, ApprovalReads(c)
       PROVE  IInv'
  <2>1. PICK p \in Elements(store.proposals) :
            Reads(c, [at |-> "APPROVE", ritual |-> LearnedRevision(Latest(store), p)])
    BY <1>11 DEF ApprovalReads
  <2>2. LearnedRevision(Latest(store), p).definition \in Governed
    BY DEF LearnedRevision, StoreGoverned, Elements
  <2> QED
    BY <1>11, <2>1, <2>2, ReadsGoverned DEF ApprovalReads
<1>12. ASSUME NEW c \in Calls, RestorationReads(c)
       PROVE  IInv'
  <2>1. PICK origin \in Elements(store.rituals) :
            Reads(c, [at |-> "RESTORE", ritual |-> RestoredRevision(Latest(store), origin)])
    BY <1>12 DEF RestorationReads
  <2>2. RestoredRevision(Latest(store), origin).definition \in Governed
    BY DEF RestoredRevision, StoreGoverned, Elements
  <2> QED
    BY <1>12, <2>1, <2>2, ReadsGoverned DEF RestorationReads
<1>13. ASSUME NEW c \in Calls, ApprovalSaves(c) \/ RestorationSaves(c)
       PROVE  IInv'
  BY <1>13, SavesGoverned DEF ApprovalSaves, RestorationSaves
<1> QED
  BY <1>2, <1>3, <1>4, <1>5, <1>6, <1>7, <1>8, <1>9, <1>10, <1>11, <1>12, <1>13,
     ProposalGoverned DEF Next

-------------------------------------------------------------------------------
(***************************************************************************)
(* The theorem.                                                            *)
(***************************************************************************)

\* Whatever is learned, approved, rejected and restored, in whichever order of
\* calls and crashes, no revision may do more than the first one approved.
THEOREM LearningNeverGrows == Spec => []AuthorityNeverGrows
<1>1. IInv => AuthorityNeverGrows
  BY DEF IInv, StoreGoverned, Governed, AuthorityNeverGrows
<1> QED
  BY <1>1, InitGoverned, NextGoverned, PTL DEF Spec

-------------------------------------------------------------------------------
(***************************************************************************)
(* Lineage: which proposal each revision came from, and that no decided    *)
(* proposal became one.                                                    *)
(***************************************************************************)

\* What a revision or a call takes from the proposal stored at place k.
FromProposal(proposals, k, ritual) ==
    /\ proposals[k].id = ritual.proposal
    /\ proposals[k].definition = ritual.definition

ProposalsOrdered ==
    /\ lastId \in Nat
    /\ \A k \in 1 .. Len(store.proposals) :
          /\ store.proposals[k].id \in Nat /\ store.proposals[k].id <= lastId
          /\ store.proposals[k].from \in Nat
    /\ \A k, l \in 1 .. Len(store.proposals) :
          store.proposals[k].id = store.proposals[l].id => k = l

RevisionFromProposal(i) ==
    LET v == store.rituals[i]
    IN  /\ v.revision = i
        /\ \/ v.source # "LEARNING" /\ v.proposal = None
           \/ /\ v.source = "LEARNING"
              /\ \E k \in 1 .. Len(store.proposals) :
                    FromProposal(store.proposals, k, v) /\ store.proposals[k].from = i - 1

CallFromProposal(c) ==
    LET v == calls[c].ritual
    IN  /\ calls[c].at = "APPROVE" =>
              /\ v.source = "LEARNING"
              /\ \E k \in 1 .. Len(store.proposals) :
                    /\ FromProposal(store.proposals, k, v)
                    /\ store.proposals[k].from + 1 = v.revision
        /\ calls[c].at = "RESTORE" => v.source = "RESTORE" /\ v.proposal = None

LInv ==
    /\ IInv
    /\ ProposalsOrdered
    /\ \A i \in 1 .. Len(store.rituals) : RevisionFromProposal(i)
    /\ \A c \in Calls : CallFromProposal(c)
    /\ \A d \in store.decisions : d.proposal \in Nat
    /\ DecidedNeverApplied

\* The first revision came from no proposal.
LEMMA InitLineage == Init => LInv
<1> SUFFICES ASSUME Init PROVE LInv
  OBVIOUS
<1> DEFINE first == InitialRevision(InitialDefinition)
<1>1. /\ store.rituals = <<first>> /\ store.proposals = <<>> /\ store.decisions = {}
      /\ lastId = 0
  BY DEF Init, EmptyStore
<1>2. first.revision = 1 /\ first.source = "INITIAL" /\ first.proposal = None
  BY DEF InitialRevision
<1> HIDE DEF first
<1>3. ProposalsOrdered
  BY <1>1 DEF ProposalsOrdered
<1>4. \A i \in 1 .. Len(store.rituals) : RevisionFromProposal(i)
  BY <1>1, <1>2 DEF RevisionFromProposal
<1>5. \A c \in Calls : CallFromProposal(c)
  BY DEF Init, Idle, CallFromProposal
<1>6. DecidedNeverApplied
  BY <1>1 DEF DecidedNeverApplied, Decided
<1> QED
  BY <1>1, <1>3, <1>4, <1>5, <1>6, InitGoverned DEF LInv

\* A step that leaves revisions, proposals and decisions alone, and in which a
\* call holds what it held or nothing to be saved.
LEMMA LineageSpared ==
    ASSUME LInv, IInv', Spares(store, store'), lastId' \in {lastId, lastId + 1},
           \A c \in Calls : calls'[c] = calls[c] \/ CallFromProposal(c)'
    PROVE  LInv'
<1>1. /\ store'.rituals = store.rituals /\ store'.proposals = store.proposals
      /\ store'.decisions = store.decisions
  BY DEF Spares
<1>2. ProposalsOrdered'
  BY <1>1 DEF LInv, ProposalsOrdered
<1>3. \A i \in 1 .. Len(store'.rituals) : RevisionFromProposal(i)'
  BY <1>1 DEF LInv, RevisionFromProposal
<1>4. \A c \in Calls : CallFromProposal(c)'
  BY <1>1 DEF LInv, CallFromProposal
<1>5. DecidedNeverApplied'
  BY <1>1 DEF LInv, DecidedNeverApplied, Decided, Elements
<1> QED
  BY <1>1, <1>2, <1>3, <1>4, <1>5 DEF LInv

\* A call that returns, and one that does nothing, hold nothing new.
LEMMA ReturnsNothing ==
    ASSUME IInv, NEW c \in Calls, Returns(c)
    PROVE  \A d \in Calls : calls'[d] = calls[d] \/ CallFromProposal(d)'
<1>1. \A d \in Calls : calls'[d] = IF d = c THEN Idle ELSE calls[d]
  BY DEF Returns, IInv, CallsGoverned
<1>2. Idle.at = "IDLE"
  BY DEF Idle
<1> QED
  BY <1>1, <1>2 DEF CallFromProposal

\* A call that reads what is not to be saved.
LEMMA ReadsNothing ==
    ASSUME IInv, NEW c \in Calls, NEW read, Reads(c, read),
           read.at \notin {"APPROVE", "RESTORE"}
    PROVE  \A d \in Calls : calls'[d] = calls[d] \/ CallFromProposal(d)'
<1>1. \A d \in Calls : calls'[d] = IF d = c THEN read ELSE calls[d]
  BY DEF Reads, IInv, CallsGoverned
<1> QED
  BY <1>1 DEF CallFromProposal

\* A decision is about a proposal for the latest revision: it became none yet.
LEMMA DecisionLineage ==
    ASSUME LInv, IInv', OwnerDecides
    PROVE  LInv'
<1>1. PICK p \in Elements(store.proposals), decision \in {"REJECTED", "REVISION_REQUESTED"} :
          /\ DecideLearning(store, p.id, p.from, decision).ok
          /\ store' = DecideLearning(store, p.id, p.from, decision).store
  BY DEF OwnerDecides
<1> DEFINE added == [proposal |-> p.id, from |-> p.from, decision |-> decision]
<1>2. /\ store'.rituals = store.rituals /\ store'.proposals = store.proposals
      /\ p.from = Len(store.rituals)
      /\ store'.decisions = store.decisions \cup {added} /\ added.proposal = p.id
  BY <1>1, DecideAdds DEF LInv, IInv, LatestRevision
<1> HIDE DEF added
<1>3. PICK l \in 1 .. Len(store.proposals) : p = store.proposals[l]
  BY DEF Elements
<1>4. /\ ProposalsOrdered' /\ UNCHANGED calls
      /\ \A i \in 1 .. Len(store'.rituals) : RevisionFromProposal(i)'
  BY <1>2 DEF LInv, ProposalsOrdered, RevisionFromProposal, OwnerDecides
<1>5. \A c \in Calls : CallFromProposal(c)'
  BY <1>2, <1>4 DEF LInv, CallFromProposal
<1>6. p.id \in Nat /\ Len(store.rituals) \in Nat
  BY <1>3, AppendToList DEF LInv, ProposalsOrdered, IInv, StoreGoverned
<1>7. Decided(store') = Decided(store) \cup {p.id}
  BY <1>2 DEF Decided
<1>8. ASSUME NEW i \in 1 .. Len(store.rituals)
      PROVE  store.rituals[i].proposal # p.id
  <2>1. CASE store.rituals[i].proposal = None
    BY <1>6, <2>1, LearningAssumption
  <2>2. CASE store.rituals[i].proposal # None
    <3>1. PICK k \in 1 .. Len(store.proposals) :
              /\ store.proposals[k].id = store.rituals[i].proposal
              /\ store.proposals[k].from = i - 1
      BY <2>2 DEF LInv, RevisionFromProposal, FromProposal
    <3>2. CASE k = l
      BY <1>2, <1>3, <1>6, <3>1, <3>2
    <3>3. CASE k # l
      BY <1>3, <3>1, <3>3 DEF LInv, ProposalsOrdered
    <3> QED
      BY <3>2, <3>3
  <2> QED
    BY <2>1, <2>2
<1>9. DecidedNeverApplied'
  BY <1>2, <1>7, <1>8 DEF LInv, DecidedNeverApplied, Elements
<1> QED
  BY <1>2, <1>4, <1>5, <1>6, <1>9 DEF LInv

\* A proposal is stored under an identity that no other one has.
LEMMA ProposalLineage ==
    ASSUME LInv, IInv', NEW c \in Calls, ProposalArrives(c)
    PROVE  LInv'
<1>1. PICK definition \in Definitions :
          store' = SaveProposal(store,
              [id |-> lastId', from |-> calls[c].of, receipt |-> calls[c].receipt,
               definition |-> definition]).store
  BY DEF ProposalArrives
<1> DEFINE proposal == [id |-> lastId', from |-> calls[c].of,
                        receipt |-> calls[c].receipt, definition |-> definition]
<1>2. /\ proposal.id = lastId' /\ proposal.from = calls[c].of
      /\ store' = SaveProposal(store, proposal).store
  BY <1>1
<1> HIDE DEF proposal
<1>3. /\ lastId' = lastId + 1 /\ Returns(c)
      /\ \A d \in Calls : calls'[d] = calls[d] \/ CallFromProposal(d)'
  BY ReturnsNothing DEF ProposalArrives, Fresh, LInv
<1>4. CASE store' = store
  BY <1>3, <1>4, LineageSpared DEF Spares
<1>5. CASE store' = [store EXCEPT !.proposals = Append(@, proposal)]
  <2>1. /\ store'.rituals = store.rituals /\ store'.decisions = store.decisions
        /\ store'.proposals = Append(store.proposals, proposal)
    BY <1>5 DEF LInv, IInv, StoreGoverned, Fields
  <2>2. /\ Len(store.proposals) \in Nat /\ Len(store'.proposals) = Len(store.proposals) + 1
        /\ \A k \in 1 .. Len(store.proposals) : store'.proposals[k] = store.proposals[k]
        /\ store'.proposals[Len(store.proposals) + 1] = proposal
    BY <2>1, AppendToList DEF LInv, IInv, StoreGoverned
  <2>3. calls[c].of \in Nat
    <3>1. calls[c].of \in 1 .. Len(store.rituals)
      BY DEF ProposalArrives, LInv, IInv, CallsGoverned
    <3>2. Len(store.rituals) \in Nat
      BY AppendToList DEF LInv, IInv, StoreGoverned
    <3> QED
      BY <3>1, <3>2
  <2>4. ProposalsOrdered'
    <3>1. lastId \in Nat /\ lastId' \in Nat
      BY <1>3 DEF LInv, ProposalsOrdered
    <3> DEFINE n == Len(store.proposals)
    <3>2. /\ 1 .. Len(store'.proposals) = 1 .. n \cup {n + 1} /\ n + 1 \notin 1 .. n
          /\ store'.proposals[n + 1].id = lastId + 1
          /\ store'.proposals[n + 1].from \in Nat
      BY <1>2, <1>3, <2>2, <2>3
    <3>3. \A k \in 1 .. n :
             /\ store'.proposals[k].id = store.proposals[k].id
             /\ store'.proposals[k].from \in Nat
             /\ store.proposals[k].id \in Nat /\ store.proposals[k].id <= lastId
      BY <2>2 DEF LInv, ProposalsOrdered
    <3>4. \A k, l \in 1 .. n : store'.proposals[k].id = store'.proposals[l].id => k = l
      BY <3>3 DEF LInv, ProposalsOrdered
    <3> HIDE DEF n
    <3>5. \A k \in 1 .. Len(store'.proposals) :
             /\ store'.proposals[k].id \in Nat /\ store'.proposals[k].id <= lastId'
             /\ store'.proposals[k].from \in Nat
      BY <1>3, <3>1, <3>2, <3>3
    <3>6. \A k, l \in 1 .. Len(store'.proposals) :
             store'.proposals[k].id = store'.proposals[l].id => k = l
      <4> SUFFICES ASSUME NEW k \in 1 .. n \cup {n + 1}, NEW l \in 1 .. n \cup {n + 1},
                          store'.proposals[k].id = store'.proposals[l].id
                   PROVE  k = l
        BY <3>2
      <4>1. \A i \in 1 .. n : store'.proposals[i].id # lastId + 1
        BY <3>1, <3>3
      <4>2. CASE k \in 1 .. n /\ l \in 1 .. n
        BY <3>4, <4>2
      <4>3. CASE k = n + 1 \/ l = n + 1
        BY <3>2, <4>1, <4>3
      <4> QED
        BY <4>2, <4>3
    <3> QED
      BY <3>1, <3>5, <3>6 DEF ProposalsOrdered
  <2>8. ASSUME NEW ritual, NEW k \in 1 .. Len(store.proposals)
        PROVE  /\ k \in 1 .. Len(store'.proposals)
               /\ store'.proposals[k].from = store.proposals[k].from
               /\ FromProposal(store.proposals, k, ritual) =>
                     FromProposal(store'.proposals, k, ritual)
    BY <2>2 DEF FromProposal
  <2>5. \A i \in 1 .. Len(store'.rituals) : RevisionFromProposal(i)'
    <3> SUFFICES ASSUME NEW i \in 1 .. Len(store'.rituals)
                 PROVE  RevisionFromProposal(i)'
      OBVIOUS
    <3>1. i \in 1 .. Len(store.rituals) /\ store'.rituals[i] = store.rituals[i]
      BY <2>1
    <3>2. RevisionFromProposal(i)
      BY <3>1 DEF LInv
    <3> QED
      BY <2>8, <3>1, <3>2 DEF RevisionFromProposal
  <2>6. \A d \in Calls : CallFromProposal(d)'
    BY <1>3, <2>8 DEF LInv, CallFromProposal
  <2>7. DecidedNeverApplied'
    BY <2>1 DEF LInv, DecidedNeverApplied, Decided, Elements
  <2> QED
    BY <2>1, <2>4, <2>5, <2>6, <2>7 DEF LInv
<1> QED
  BY <1>2, <1>4, <1>5 DEF SaveProposal, Written, Threw

\* The next revision is saved: its proposal is for the revision before, and no
\* decision about it came first.
LEMMA SaveLineage ==
    ASSUME LInv, IInv', NEW c \in Calls, calls[c].at \in {"APPROVE", "RESTORE"},
           store' = Save(store, calls[c].ritual).store, Returns(c), UNCHANGED lastId
    PROVE  LInv'
<1> DEFINE ritual == calls[c].ritual
           longer == [store EXCEPT
               !.rituals = Append(@, ritual),
               !.schedules = {ScheduleAfter(x, ritual) : x \in @}]
<1>1. \/ store' = store
      \/ /\ store' = longer /\ ritual.revision = Len(store.rituals) + 1
         /\ LearningLineage(store, ritual)
  BY DEF Save, Written, Threw, LatestRevision
<1>2. \A d \in Calls : calls'[d] = calls[d] \/ CallFromProposal(d)'
  BY ReturnsNothing DEF LInv
<1>3. CASE store' = store
  BY <1>2, <1>3, LineageSpared DEF Spares, LInv, ProposalsOrdered
<1>4. CASE /\ store' = longer /\ ritual.revision = Len(store.rituals) + 1
           /\ LearningLineage(store, ritual)
  <2>1. /\ store'.proposals = store.proposals /\ store'.decisions = store.decisions
        /\ store'.rituals = Append(store.rituals, ritual)
    BY <1>4 DEF LInv, IInv, StoreGoverned, Fields
  <2>2. CallFromProposal(c)
    BY DEF LInv
  <2> HIDE DEF longer, ritual
  <2>3. /\ Len(store.rituals) \in Nat /\ Len(store'.rituals) = Len(store.rituals) + 1
        /\ \A i \in 1 .. Len(store.rituals) : store'.rituals[i] = store.rituals[i]
        /\ store'.rituals[Len(store.rituals) + 1] = ritual
    BY <2>1, AppendToList DEF LInv, IInv, StoreGoverned
  <2>4. \/ ritual.source # "LEARNING" /\ ritual.proposal = None
        \/ /\ ritual.source = "LEARNING"
           /\ \E k \in 1 .. Len(store.proposals) :
                 /\ FromProposal(store.proposals, k, ritual)
                 /\ store.proposals[k].from = Len(store.rituals) + 1 - 1
    <3>1. CASE calls[c].at = "RESTORE"
      BY <2>2, <3>1 DEF CallFromProposal, ritual
    <3>2. CASE calls[c].at = "APPROVE"
      <4>1. PICK k \in 1 .. Len(store.proposals) :
                /\ FromProposal(store.proposals, k, ritual)
                /\ store.proposals[k].from + 1 = ritual.revision
        BY <2>2, <3>2 DEF CallFromProposal, ritual
      <4>2. store.proposals[k].from = Len(store.rituals) + 1 - 1
        BY <1>4, <2>3, <4>1 DEF LInv, ProposalsOrdered
      <4> QED
        BY <2>2, <3>2, <4>1, <4>2 DEF CallFromProposal, ritual
    <3> QED
      BY <3>1, <3>2
  <2>5. ASSUME NEW i \in 1 .. Len(store'.rituals)
        PROVE  RevisionFromProposal(i)'
    <3>1. CASE i = Len(store.rituals) + 1
      BY <1>4, <2>1, <2>3, <2>4, <3>1 DEF RevisionFromProposal
    <3>2. CASE i \in 1 .. Len(store.rituals)
      BY <2>1, <2>3, <3>2 DEF LInv, RevisionFromProposal
    <3> QED
      BY <2>3, <3>1, <3>2
  <2>6. \A d \in Calls : CallFromProposal(d)'
    BY <1>2, <2>1 DEF LInv, CallFromProposal
  <2>7. ritual.proposal \notin Decided(store)
    BY <1>4, <2>2, LearningAssumption
       DEF CallFromProposal, LearningLineage, LInv, Decided, ritual
  <2>8. DecidedNeverApplied'
    BY <2>1, <2>3, <2>7 DEF LInv, DecidedNeverApplied, Decided, Elements
  <2> QED
    BY <2>1, <2>5, <2>6, <2>8 DEF LInv, ProposalsOrdered
<1> QED
  BY <1>1, <1>3, <1>4

\* An approval reads a proposal for the latest revision; a restoration reads none.
LEMMA SaveReadsLineage ==
    ASSUME LInv, NEW c \in Calls, ApprovalReads(c) \/ RestorationReads(c)
    PROVE  \A d \in Calls : calls'[d] = calls[d] \/ CallFromProposal(d)'
<1>1. ASSUME NEW read, Reads(c, read)
      PROVE  \A d \in Calls : calls'[d] = IF d = c THEN read ELSE calls[d]
  BY <1>1 DEF Reads, LInv, IInv, CallsGoverned
<1>2. CASE ApprovalReads(c)
  <2>1. PICK p \in Elements(store.proposals) :
            /\ p.from = LatestRevision(store)
            /\ Reads(c, [at |-> "APPROVE", ritual |-> LearnedRevision(Latest(store), p)])
    BY <1>2 DEF ApprovalReads
  <2>2. PICK k \in 1 .. Len(store.proposals) : p = store.proposals[k]
    BY DEF Elements
  <2> DEFINE ritual == LearnedRevision(Latest(store), p)
  <2>3. /\ ritual.source = "LEARNING" /\ ritual.proposal = p.id
        /\ ritual.definition = p.definition
        /\ ritual.revision = Latest(store).revision + 1
    BY DEF LearnedRevision
  <2>4. Latest(store).revision = LatestRevision(store)
    BY LatestIsGoverned DEF LInv, IInv, RevisionFromProposal, Latest, LatestRevision
  <2> QED
    BY <1>1, <1>2, <2>1, <2>2, <2>3, <2>4
       DEF ApprovalReads, CallFromProposal, FromProposal
<1>3. CASE RestorationReads(c)
  <2>1. PICK origin \in Elements(store.rituals) :
            Reads(c, [at |-> "RESTORE", ritual |-> RestoredRevision(Latest(store), origin)])
    BY <1>3 DEF RestorationReads
  <2> QED
    BY <1>1, <2>1 DEF CallFromProposal, RestoredRevision
<1> QED
  BY <1>2, <1>3

\* Each action preserves the lineage.
LEMMA NextLineage == LInv /\ [Next]_vars => LInv'
<1> SUFFICES ASSUME LInv, [Next]_vars PROVE LInv'
  OBVIOUS
<1>1. IInv /\ IInv' /\ Fields \subseteq DOMAIN store /\ Spares(store, store)
  BY NextGoverned DEF LInv, IInv, StoreGoverned, Spares
<1>2. lastId \in Nat
  BY DEF LInv, ProposalsOrdered
<1>3. CASE UNCHANGED vars
  BY <1>1, <1>3, LineageSpared DEF vars, Spares
<1>4. CASE OwnerDecides
  BY <1>1, <1>4, DecisionLineage
<1>5. CASE RunStarts
  BY <1>1, <1>5, SaveRunSpares, LineageSpared DEF RunStarts, Fresh
<1>6. CASE RunProceeds
  BY <1>1, <1>6, SaveRunSpares, LineageSpared DEF RunProceeds
<1>7. CASE RunEnds
  BY <1>1, <1>7, SaveRunSpares, SaveCompletionSpares, LineageSpared DEF RunEnds
<1>8. ASSUME NEW c \in Calls, TestReads(c) \/ FeedbackReads(c)
      PROVE  LInv'
  BY <1>1, <1>8, ReadsNothing, LineageSpared DEF TestReads, FeedbackReads
<1>9. ASSUME NEW c \in Calls, TestArrives(c)
      PROVE  LInv'
  BY <1>1, <1>9, SaveReceiptSpares, ReturnsNothing, LineageSpared DEF TestArrives, Fresh
<1>10. ASSUME NEW c \in Calls, GivesUp(c)
       PROVE  LInv'
  BY <1>1, <1>10, ReturnsNothing, LineageSpared DEF GivesUp
<1>11. ASSUME NEW c \in Calls, ApprovalReads(c) \/ RestorationReads(c)
       PROVE  LInv'
  BY <1>1, <1>11, SaveReadsLineage, LineageSpared DEF ApprovalReads, RestorationReads
<1>12. ASSUME NEW c \in Calls, ApprovalSaves(c) \/ RestorationSaves(c)
       PROVE  LInv'
  BY <1>1, <1>12, SaveLineage DEF ApprovalSaves, RestorationSaves
<1>13. ASSUME NEW c \in Calls, ProposalArrives(c)
       PROVE  LInv'
  BY <1>1, <1>13, ProposalLineage
<1> QED
  BY <1>3, <1>4, <1>5, <1>6, <1>7, <1>8, <1>9, <1>10, <1>11, <1>12, <1>13 DEF Next

\* A proposal that was rejected or sent back never becomes a revision, and one
\* that became a revision is never decided.
THEOREM DecisionsHold == Spec => []DecidedNeverApplied
<1>1. LInv => DecidedNeverApplied
  BY DEF LInv
<1> QED
  BY <1>1, InitLineage, NextLineage, PTL DEF Spec

\* Every learned revision is what a proposal for the revision before it says.
THEOREM RevisionsComeFromProposals == Spec => []RevisionsAreGoverned
<1>1. LInv => RevisionsAreGoverned
  <2> SUFFICES ASSUME LInv, NEW i \in 1 .. Len(store.rituals),
                      store.rituals[i].source = "LEARNING"
               PROVE  \E p \in Elements(store.proposals) :
                         /\ p.id = store.rituals[i].proposal /\ p.from = i - 1
                         /\ p.definition = store.rituals[i].definition
    BY DEF RevisionsAreGoverned
  <2>1. PICK k \in 1 .. Len(store.proposals) :
            /\ FromProposal(store.proposals, k, store.rituals[i])
            /\ store.proposals[k].from = i - 1
    BY DEF LInv, RevisionFromProposal
  <2> QED
    BY <2>1 DEF FromProposal, Elements
<1> QED
  BY <1>1, InitLineage, NextLineage, PTL DEF Spec

-------------------------------------------------------------------------------
(***************************************************************************)
(* Evidence: what proposals were learned from outlives every eviction.     *)
(***************************************************************************)

\* A receipt of a run is kept no longer than its run.
ReceiptsHaveRuns(file) ==
    /\ DOMAIN file = Fields /\ IsList(file.runs)
    /\ \A r \in file.runReceipts : r.run \in RunIds(file)

\* An operation after which the receipts that proposals cite are still there.
Retains(file, left) ==
    /\ ReceiptsHaveRuns(left) /\ left.proposals = file.proposals
    /\ file.receipts \subseteq left.receipts
    /\ \A r \in file.runReceipts : r.id \in CitedReceipts(file) => r \in left.runReceipts

\* Operations that retain what is cited follow one another.
LEMMA RetainsAgain ==
    ASSUME NEW first, NEW second, NEW third, Retains(first, second), Retains(second, third)
    PROVE  Retains(first, third)
BY DEF Retains, CitedReceipts

LEMMA RetainsItself ==
    ASSUME NEW file, ReceiptsHaveRuns(file)
    PROVE  Retains(file, file)
BY DEF Retains

\* What is removed from a list is one entry.
LEMMA RemoveLeaves ==
    ASSUME NEW s, IsList(s), NEW n \in 1 .. Len(s)
    PROVE  /\ IsList(Remove(s, n))
           /\ \A j \in 1 .. Len(s) : j # n => s[j] \in Elements(Remove(s, n))
<1>1. PICK S : s \in Seq(S)
  BY DEF IsList
<1> DEFINE before == SubSeq(s, 1, n - 1)
           after == SubSeq(s, n + 1, Len(s))
           m == Len(s)
<1>2. m \in Nat /\ n \in 1 .. m /\ \A i \in 1 .. m : s[i] \in S
  BY <1>1
<1>3. before \in Seq(S) /\ Len(before) = n - 1 /\ \A i \in 1 .. n - 1 : before[i] = s[i]
  <2>1. 1 \in Int /\ n - 1 \in Int /\ \A i \in 1 .. n - 1 : s[i] \in S
    BY <1>2
  <2>2. /\ before \in Seq(S)
        /\ Len(before) = IF 1 <= n - 1 THEN (n - 1) - 1 + 1 ELSE 0
        /\ \A i \in 1 .. (n - 1) - 1 + 1 : before[i] = s[1 + i - 1]
    BY <2>1, SubSeqProperties
  <2> HIDE DEF before, m
  <2> QED
    BY <1>2, <2>2
<1>4. /\ after \in Seq(S) /\ Len(after) = m - n
      /\ \A i \in 1 .. m - n : after[i] = s[n + i]
  <2>1. n + 1 \in Int /\ m \in Int /\ \A i \in n + 1 .. m : s[i] \in S
    BY <1>2
  <2>2. /\ after \in Seq(S)
        /\ Len(after) = IF n + 1 <= m THEN m - (n + 1) + 1 ELSE 0
        /\ \A i \in 1 .. m - (n + 1) + 1 : after[i] = s[(n + 1) + i - 1]
    BY <2>1, SubSeqProperties
  <2> HIDE DEF after, m
  <2> QED
    BY <1>2, <2>2
<1> HIDE DEF before, after, m
<1> DEFINE rest == before \o after
<1>5. /\ rest \in Seq(S) /\ Len(rest) = m - 1
      /\ \A i \in 1 .. m - 1 : rest[i] = IF i <= n - 1 THEN before[i] ELSE after[i - (n - 1)]
  <2>1. /\ rest \in Seq(S) /\ Len(rest) = Len(before) + Len(after)
        /\ \A i \in 1 .. Len(before) + Len(after) :
              rest[i] = IF i <= Len(before) THEN before[i] ELSE after[i - Len(before)]
    BY <1>3, <1>4, ConcatProperties
  <2> HIDE DEF rest
  <2>2. Len(before) + Len(after) = m - 1
    BY <1>2, <1>3, <1>4
  <2> QED
    BY <1>3, <2>1, <2>2
<1>6. rest = Remove(s, n)
  BY DEF Remove, before, after
<1> HIDE DEF rest
<1>7. ASSUME NEW j \in 1 .. m, j # n
      PROVE  \E i \in 1 .. m - 1 : rest[i] = s[j]
  <2>1. CASE j < n
    <3>1. j \in 1 .. m - 1 /\ j <= n - 1 /\ j \in 1 .. n - 1
      BY <1>2, <2>1
    <3>2. rest[j] = before[j] /\ before[j] = s[j]
      BY <1>3, <1>5, <3>1
    <3> QED
      BY <3>1, <3>2
  <2>2. CASE ~(j < n)
    <3>1. /\ j - 1 \in 1 .. m - 1 /\ ~(j - 1 <= n - 1)
          /\ (j - 1) - (n - 1) = j - n /\ j - n \in 1 .. m - n /\ n + (j - n) = j
      BY <1>2, <1>7, <2>2
    <3>2. rest[j - 1] = after[j - n] /\ after[j - n] = s[j]
      BY <1>4, <1>5, <3>1
    <3> QED
      BY <3>1, <3>2
  <2> QED
    BY <2>1, <2>2
<1> QED
  BY <1>5, <1>6, <1>7 DEF IsList, Elements, m

\* Among some places there is a first one.
LEMMA LeastPlace ==
    ASSUME NEW S, S \subseteq Nat, S # {}
    PROVE  \E i \in S : \A j \in S : i <= j
<1> DEFINE R == {pair \in Nat \X Nat : pair[1] < pair[2]}
<1>1. IsWellFoundedOn(R, Nat)
  BY NatLessThanWellFounded DEF OpToRel
<1> HIDE DEF R
<1>2. PICK i \in S : \A j \in S : ~(<<j, i>> \in R)
  BY <1>1, WFMin
<1>3. \A j \in S : i \in Nat /\ j \in Nat /\ ~(j < i)
  BY <1>2 DEF R
<1> QED
  BY <1>3

\* An eviction spares the runs whose receipts proposals cite.
LEMMA EvictionRetains ==
    ASSUME NEW file, ReceiptsHaveRuns(file), NEW kept, Evictable(file, kept) # {}
    PROVE  Retains(file, Evict(file, FirstOf(Evictable(file, kept))))
<1> DEFINE n == FirstOf(Evictable(file, kept))
           left == Evict(file, n)
<1>1. Len(file.runs) \in Nat
  BY DEF ReceiptsHaveRuns, IsList
<1>2. Evictable(file, kept) \subseteq Nat
  BY <1>1 DEF Evictable
<1>3. n \in Evictable(file, kept)
  <2>1. \E i \in Evictable(file, kept) : \A j \in Evictable(file, kept) : i <= j
    BY <1>2, LeastPlace
  <2> QED
    BY <2>1 DEF FirstOf
<1> HIDE DEF n
<1>4. n \in 1 .. Len(file.runs) /\ file.runs[n].id \notin LineageRunIds(file)
  BY <1>3 DEF Evictable
<1>5. /\ DOMAIN left = Fields /\ left.runs = Remove(file.runs, n)
      /\ left.proposals = file.proposals /\ left.receipts = file.receipts
      /\ left.runReceipts = {r \in file.runReceipts : r.run # file.runs[n].id}
  BY DEF Evict, ReceiptsHaveRuns, Fields
<1> HIDE DEF left
<1>6. /\ IsList(left.runs)
      /\ \A j \in 1 .. Len(file.runs) : j # n => file.runs[j] \in Elements(left.runs)
  BY <1>4, <1>5, RemoveLeaves DEF ReceiptsHaveRuns
<1>7. ASSUME NEW r \in left.runReceipts
      PROVE  r.run \in RunIds(left)
  <2>1. PICK j \in 1 .. Len(file.runs) : file.runs[j].id = r.run
    BY <1>5, <1>7 DEF ReceiptsHaveRuns, RunIds, Elements
  <2> QED
    BY <1>5, <1>6, <1>7, <2>1 DEF RunIds
<1>8. ASSUME NEW r \in file.runReceipts, r.id \in CitedReceipts(file)
      PROVE  r \in left.runReceipts
  BY <1>4, <1>5, <1>8 DEF LineageRunIds
<1> QED
  BY <1>5, <1>6, <1>7, <1>8 DEF Retains, ReceiptsHaveRuns, left, n

\* Room made in the list, and in the file.
LEMMA RetentionRetains ==
    ASSUME NEW file, ReceiptsHaveRuns(file), NEW kept, NEW before
    PROVE  /\ Retains(file, MakeRoom(file).store)
           /\ \/ Retains(file, Retain(before, file, kept).store)
              \/ Retain(before, file, kept).store = before
<1>1. \A other : Evictable(file, other) # {} =>
                     Retains(file, Evict(file, FirstOf(Evictable(file, other))))
  BY EvictionRetains
<1>2. Retains(file, file)
  BY RetainsItself
<1> QED
  BY <1>1, <1>2 DEF MakeRoom, Retain, Written, Threw

\* A run that is there is replaced in its place, under its identity.
LEMMA ReplacementRetains ==
    ASSUME NEW file, ReceiptsHaveRuns(file), NEW run, run.id \in RunIds(file)
    PROVE  /\ Retains(file, Replace(file, run))
           /\ Replace(file, run).runReceipts = file.runReceipts
           /\ RunIds(file) \subseteq RunIds(Replace(file, run))
<1> DEFINE at == FirstIndex(file.runs, LAMBDA r : r.id = run.id)
           left == Replace(file, run)
           s == [file.runs EXCEPT ![at] = run]
<1>1. at \in 1 .. Len(file.runs) /\ file.runs[at].id = run.id
  <2> DEFINE places == {i \in 1 .. Len(file.runs) : file.runs[i].id = run.id}
  <2>1. places \subseteq Nat /\ places # {}
    BY DEF RunIds, Elements, ReceiptsHaveRuns, IsList
  <2>2. PICK i \in places : \A j \in places : i <= j
    BY <2>1, LeastPlace
  <2>3. Len(file.runs) \in Nat
    BY DEF ReceiptsHaveRuns, IsList
  <2>4. \A j \in 1 .. i - 1 : ~(file.runs[j].id = run.id)
    BY <2>2, <2>3
  <2>5. at = CHOOSE k \in 1 .. Len(file.runs) :
                 file.runs[k].id = run.id /\ \A j \in 1 .. k - 1 : ~(file.runs[j].id = run.id)
    BY DEF FirstIndex
  <2> HIDE DEF at
  <2> QED
    BY <2>2, <2>4, <2>5
<1>2. left = [file EXCEPT !.runs = s]
  BY DEF Replace
<1> HIDE DEF at, left
<1>3. /\ IsList(s) /\ Len(s) = Len(file.runs)
      /\ \A i \in 1 .. Len(file.runs) : s[i] = IF i = at THEN run ELSE file.runs[i]
  <2>1. PICK S : file.runs \in Seq(S)
    BY DEF ReceiptsHaveRuns, IsList
  <2>2. file.runs \in Seq(S \cup {run}) /\ run \in S \cup {run}
    BY <2>1
  <2> QED
    BY <1>1, <2>2, ExceptSeq DEF IsList
<1> HIDE DEF s
<1>4. /\ DOMAIN left = Fields /\ left.runs = s /\ left.proposals = file.proposals
      /\ left.receipts = file.receipts /\ left.runReceipts = file.runReceipts
  BY <1>2 DEF ReceiptsHaveRuns, Fields
<1>5. RunIds(file) \subseteq RunIds(left)
  <2>1. \A i \in 1 .. Len(s) : s[i].id = file.runs[i].id
    BY <1>1, <1>3
  <2> QED
    BY <1>3, <1>4, <2>1 DEF RunIds, Elements
<1> QED
  BY <1>3, <1>4, <1>5 DEF Retains, ReceiptsHaveRuns, left

\* A run is added at the end of the list.
LEMMA AppendRetains ==
    ASSUME NEW file, ReceiptsHaveRuns(file), NEW run
    PROVE  Retains(file, [file EXCEPT !.runs = Append(@, run)])
<1> DEFINE left == [file EXCEPT !.runs = Append(@, run)]
           s == Append(file.runs, run)
<1>1. /\ DOMAIN left = Fields /\ left.runs = s /\ left.proposals = file.proposals
      /\ left.receipts = file.receipts /\ left.runReceipts = file.runReceipts
  BY DEF ReceiptsHaveRuns, Fields
<1>2. /\ IsList(s) /\ Len(file.runs) \in Nat /\ Len(s) = Len(file.runs) + 1
      /\ \A i \in 1 .. Len(file.runs) : s[i] = file.runs[i]
  BY AppendToList DEF ReceiptsHaveRuns
<1> HIDE DEF left, s
<1>3. RunIds(file) \subseteq RunIds(left)
  <2>1. \A i \in 1 .. Len(file.runs) : i \in 1 .. Len(s)
    BY <1>2
  <2> QED
    BY <1>1, <1>2, <2>1 DEF RunIds, Elements
<1>4. Retains(file, left)
  BY <1>1, <1>2, <1>3 DEF Retains, ReceiptsHaveRuns
<1> QED
  BY <1>4 DEF left

\* A run is created or moved.
LEMMA SaveRunRetains ==
    ASSUME NEW file, ReceiptsHaveRuns(file), NEW run
    PROVE  Retains(file, SaveRun(file, run).store)
<1>1. Retains(file, file)
  BY RetainsItself
<1>2. ASSUME NEW left, Retains(file, left)
      PROVE  Retains(file, Retain(file, left, None).store)
  BY <1>1, <1>2, RetentionRetains, RetainsAgain DEF Retains
<1>3. CASE run \in Elements(file.runs)
  BY <1>1, <1>3 DEF SaveRun, Written, RunIds
<1>4. CASE /\ run \notin Elements(file.runs) /\ run.id \in RunIds(file)
           /\ IsSuccessor(RunOf(file, run.id), run)
  <2>1. SaveRun(file, run) = Retain(file, Replace(file, run), None)
    BY <1>4 DEF SaveRun
  <2> QED
    BY <1>2, <1>4, <2>1, ReplacementRetains
<1>5. CASE /\ run \notin Elements(file.runs) /\ run.id \notin RunIds(file)
           /\ MakeRoom(file).ok
  <2> DEFINE room == MakeRoom(file).store
             longer == [room EXCEPT !.runs = Append(@, run)]
  <2>1. SaveRun(file, run) = Retain(file, longer, None)
    BY <1>5 DEF SaveRun
  <2>2. Retains(file, room)
    BY RetentionRetains
  <2> HIDE DEF room
  <2>3. Retains(room, longer)
    BY <2>2, AppendRetains DEF Retains
  <2>4. Retains(file, longer)
    BY <2>2, <2>3, RetainsAgain
  <2> HIDE DEF longer
  <2> QED
    BY <1>2, <2>1, <2>4
<1>6. CASE SaveRun(file, run) = Threw(file)
  BY <1>1, <1>6 DEF Threw
<1>7. \/ run \in Elements(file.runs)
      \/ /\ run \notin Elements(file.runs) /\ run.id \in RunIds(file)
         /\ IsSuccessor(RunOf(file, run.id), run)
      \/ /\ run \notin Elements(file.runs) /\ run.id \notin RunIds(file)
         /\ MakeRoom(file).ok
      \/ SaveRun(file, run) = Threw(file)
  BY DEF SaveRun, RunIds
<1> QED
  BY <1>3, <1>4, <1>5, <1>6, <1>7

\* A run is completed, with a receipt that has its run.
LEMMA SaveCompletionRetains ==
    ASSUME NEW file, ReceiptsHaveRuns(file), NEW run
    PROVE  Retains(file, SaveCompletion(file, run).store)
<1>1. CASE SaveCompletion(file, run) = Threw(file)
  BY <1>1, RetainsItself DEF Threw
<1>2. CASE SaveCompletion(file, run) # Threw(file)
  <2> DEFINE replaced == Replace(file, run)
             completed == [replaced EXCEPT !.runReceipts = @ \cup {RunReceipt(run)}]
  <2>1. /\ run.id \in RunIds(file)
        /\ SaveCompletion(file, run) = Retain(file, completed, run.id)
    BY <1>2 DEF SaveCompletion
  <2>2. /\ Retains(file, replaced) /\ replaced.runReceipts = file.runReceipts
        /\ RunIds(file) \subseteq RunIds(replaced)
    BY <2>1, ReplacementRetains
  <2> HIDE DEF replaced
  <2>3. /\ DOMAIN completed = Fields /\ completed.runs = replaced.runs
        /\ completed.proposals = replaced.proposals
        /\ completed.receipts = replaced.receipts
        /\ completed.runReceipts = replaced.runReceipts \cup {RunReceipt(run)}
    BY <2>2 DEF Retains, ReceiptsHaveRuns, Fields
  <2> HIDE DEF completed
  <2>4. RunReceipt(run).run = run.id /\ RunIds(completed) = RunIds(replaced)
    BY <2>3 DEF RunReceipt, RunIds
  <2>5. Retains(file, completed)
    BY <2>1, <2>2, <2>3, <2>4 DEF Retains, ReceiptsHaveRuns
  <2> QED
    BY <2>1, <2>5, RetainsItself, RetentionRetains, RetainsAgain DEF Retains
<1> QED
  BY <1>1, <1>2

EvidenceInv == IInv /\ ReceiptsHaveRuns(store) /\ LineageRetained

\* Nothing was learned yet.
LEMMA InitEvidence == Init => EvidenceInv
<1> SUFFICES ASSUME Init PROVE EvidenceInv
  OBVIOUS
<1>1. /\ DOMAIN store = Fields /\ store.runs = <<>> /\ store.runReceipts = {}
      /\ store.proposals = <<>>
  BY DEF Init, EmptyStore, Fields
<1>2. IsList(store.runs)
  <2>1. <<>> \in Seq({})
    OBVIOUS
  <2> QED
    BY <1>1, <2>1 DEF IsList
<1> QED
  BY <1>1, <1>2, InitGoverned DEF EvidenceInv, ReceiptsHaveRuns, LineageRetained, Elements

\* A step that retains what is cited, and proposes nothing.
LEMMA RetainedEvidence ==
    ASSUME EvidenceInv, IInv', Retains(store, store')
    PROVE  EvidenceInv'
<1>1. ReceiptsHaveRuns(store') /\ store'.proposals = store.proposals
  BY DEF Retains
<1>2. ASSUME NEW p \in Elements(store.proposals)
      PROVE  HasReceipt(store', p.receipt, p.from)
  <2>1. PICK r \in LearningReceipts(store) : r.id = p.receipt /\ r.of = p.from
    BY <1>2 DEF EvidenceInv, LineageRetained, HasReceipt
  <2>2. p.receipt \in CitedReceipts(store)
    BY <1>2 DEF CitedReceipts
  <2>3. r \in LearningReceipts(store')
    BY <2>1, <2>2 DEF Retains, LearningReceipts
  <2> QED
    BY <2>1, <2>3 DEF HasReceipt
<1>3. LineageRetained'
  BY <1>1, <1>2 DEF LineageRetained, ReceiptsHaveRuns
<1> QED
  BY <1>1, <1>3 DEF EvidenceInv

\* What is appended to the revisions, or decided, touches no evidence.
LEMMA SaveRetains ==
    ASSUME NEW file, ReceiptsHaveRuns(file), NEW ritual
    PROVE  Retains(file, Save(file, ritual).store)
<1> DEFINE left == [file EXCEPT !.rituals = Append(@, ritual),
                                !.schedules = {ScheduleAfter(x, ritual) : x \in @}]
<1>1. /\ DOMAIN left = Fields /\ left.runs = file.runs /\ left.proposals = file.proposals
      /\ left.receipts = file.receipts /\ left.runReceipts = file.runReceipts
  BY DEF ReceiptsHaveRuns, Fields
<1> HIDE DEF left
<1>2. Retains(file, left)
  BY <1>1 DEF Retains, ReceiptsHaveRuns, RunIds
<1>3. Save(file, ritual).store \in {file, left}
  BY DEF Save, Written, Threw, left
<1> QED
  BY <1>2, <1>3, RetainsItself

LEMMA DecideRetains ==
    ASSUME NEW file, ReceiptsHaveRuns(file), NEW id, NEW from, NEW decision
    PROVE  Retains(file, DecideLearning(file, id, from, decision).store)
<1> DEFINE added == [proposal |-> id, from |-> from, decision |-> decision]
           left == [file EXCEPT !.decisions = @ \cup {added}]
<1>1. /\ DOMAIN left = Fields /\ left.runs = file.runs /\ left.proposals = file.proposals
      /\ left.receipts = file.receipts /\ left.runReceipts = file.runReceipts
  BY DEF ReceiptsHaveRuns, Fields
<1>2. DecideLearning(file, id, from, decision).store \in {file, left}
  BY DEF DecideLearning, Written, Threw
<1> HIDE DEF left
<1>3. Retains(file, left)
  BY <1>1 DEF Retains, ReceiptsHaveRuns, RunIds
<1> QED
  BY <1>2, <1>3, RetainsItself

\* The evidence of a test is added.
LEMMA SaveReceiptRetains ==
    ASSUME NEW file, ReceiptsHaveRuns(file), NEW receipt
    PROVE  Retains(file, SaveReceipt(file, receipt).store)
<1> DEFINE left == [file EXCEPT !.receipts = @ \cup {receipt}]
<1>1. /\ DOMAIN left = Fields /\ left.runs = file.runs /\ left.proposals = file.proposals
      /\ left.receipts = file.receipts \cup {receipt}
      /\ left.runReceipts = file.runReceipts
  BY DEF ReceiptsHaveRuns, Fields
<1>2. SaveReceipt(file, receipt).store \in {file, left}
  BY DEF SaveReceipt, Written, Threw
<1> HIDE DEF left
<1>3. Retains(file, left)
  BY <1>1 DEF Retains, ReceiptsHaveRuns, RunIds
<1> QED
  BY <1>2, <1>3, RetainsItself

\* A proposal is stored only while what it was learned from is there, and the
\* provider may have thought while runs were evicted.
LEMMA ProposalEvidence ==
    ASSUME EvidenceInv, IInv', NEW c \in Calls, ProposalArrives(c)
    PROVE  EvidenceInv'
<1>1. PICK proposal : store' = SaveProposal(store, proposal).store
  BY DEF ProposalArrives
<1>2. CASE store' = store
  BY <1>2, RetainsItself, RetainedEvidence DEF EvidenceInv
<1>3. CASE store' # store
  <2>1. /\ HasReceipt(store, proposal.receipt, proposal.from)
        /\ store' = [store EXCEPT !.proposals = Append(@, proposal)]
    BY <1>1, <1>3 DEF SaveProposal, Written, Threw
  <2>2. /\ DOMAIN store' = Fields /\ store'.runs = store.runs
        /\ store'.proposals = Append(store.proposals, proposal)
        /\ store'.receipts = store.receipts /\ store'.runReceipts = store.runReceipts
    BY <2>1 DEF EvidenceInv, ReceiptsHaveRuns, Fields
  <2>3. RunIds(store') = RunIds(store)
    BY <2>2 DEF RunIds
  <2>4. ASSUME NEW p \in Elements(store'.proposals)
        PROVE  p \in Elements(store.proposals) \/ p = proposal
    <3>1. PICK i \in 1 .. Len(store'.proposals) : p = store'.proposals[i]
      BY <2>4 DEF Elements
    <3>2. /\ Len(store.proposals) \in Nat /\ Len(store'.proposals) = Len(store.proposals) + 1
          /\ \A k \in 1 .. Len(store.proposals) + 1 :
                store'.proposals[k] = IF k = Len(store.proposals) + 1
                                      THEN proposal ELSE store.proposals[k]
      BY <2>2, AppendToList DEF EvidenceInv, IInv, StoreGoverned
    <3> QED
      BY <3>1, <3>2 DEF Elements
  <2>5. \A p \in Elements(store'.proposals) : HasReceipt(store', p.receipt, p.from)
    BY <2>1, <2>2, <2>4 DEF EvidenceInv, LineageRetained, HasReceipt, LearningReceipts
  <2>6. ReceiptsHaveRuns(store')
    BY <2>2, <2>3 DEF EvidenceInv, ReceiptsHaveRuns
  <2> QED
    BY <2>5, <2>6 DEF EvidenceInv, LineageRetained, ReceiptsHaveRuns
<1> QED
  BY <1>2, <1>3

\* Each action keeps the evidence.
LEMMA NextEvidence == EvidenceInv /\ [Next]_vars => EvidenceInv'
<1> SUFFICES ASSUME EvidenceInv, [Next]_vars PROVE EvidenceInv'
  OBVIOUS
<1>1. IInv' /\ ReceiptsHaveRuns(store) /\ Retains(store, store)
  BY NextGoverned, RetainsItself DEF EvidenceInv
<1>2. CASE store' = store
  BY <1>1, <1>2, RetainedEvidence
<1>3. CASE OwnerDecides
  BY <1>1, <1>3, DecideRetains, RetainedEvidence DEF OwnerDecides
<1>4. CASE RunStarts
  BY <1>1, <1>4, SaveRunRetains, RetainedEvidence DEF RunStarts
<1>5. CASE RunProceeds
  BY <1>1, <1>5, SaveRunRetains, RetainedEvidence DEF RunProceeds
<1>6. CASE RunEnds
  BY <1>1, <1>6, SaveRunRetains, SaveCompletionRetains, RetainedEvidence DEF RunEnds
<1>7. ASSUME NEW c \in Calls, TestArrives(c)
      PROVE  EvidenceInv'
  BY <1>1, <1>7, SaveReceiptRetains, RetainedEvidence DEF TestArrives
<1>8. ASSUME NEW c \in Calls, ApprovalSaves(c) \/ RestorationSaves(c)
      PROVE  EvidenceInv'
  BY <1>1, <1>8, SaveRetains, RetainedEvidence DEF ApprovalSaves, RestorationSaves
<1>9. ASSUME NEW c \in Calls, ProposalArrives(c)
      PROVE  EvidenceInv'
  BY <1>1, <1>9, ProposalEvidence
<1>10. ASSUME NEW c \in Calls, \/ TestReads(c) \/ FeedbackReads(c) \/ GivesUp(c)
                               \/ ApprovalReads(c) \/ RestorationReads(c)
       PROVE  store' = store
  BY <1>10 DEF TestReads, FeedbackReads, GivesUp, ApprovalReads, RestorationReads
<1> QED
  BY <1>2, <1>3, <1>4, <1>5, <1>6, <1>7, <1>8, <1>9, <1>10 DEF Next, vars

\* What a proposal was learned from is kept as long as the proposal, and the run
\* of a run's receipt with it, however often runs are evicted.
THEOREM EvidenceIsKept == Spec => []LineageRetained
<1>1. EvidenceInv => LineageRetained
  BY DEF EvidenceInv
<1> QED
  BY <1>1, InitEvidence, NextEvidence, PTL DEF Spec
===============================================================================
