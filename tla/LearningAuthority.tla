--------------------------- MODULE LearningAuthority ---------------------------
(***************************************************************************)
(* What a Ritual may do, and when a learned definition may do no more than *)
(* the one it is learned from (packages/contracts/src/rituals.ts).         *)
(*                                                                         *)
(* Of a definition are kept the fields that grant something; names, texts  *)
(* and the providers and the scope, of which there is one each, are left   *)
(* out.  An optional field is a set of at most one element.  A list of     *)
(* domains is never empty: the empty set is a search without one.          *)
(***************************************************************************)
EXTENDS Integers, Sequences

CONSTANTS
    Permissions, StepKeys, Actors, Queries, Domains

Optional(S) == {s \in SUBSET S : \A x, y \in s : x = y}

RitualStep ==
    [key : StepKeys, actor : Actors, approval : {"OWNER_REQUIRED", "NONE"}]
Research ==
    [query : Queries, maxResults : Nat, lookbackDays : Nat, includeDomains : SUBSET Domains]
GmailReview ==
    [maxMessages : Nat, lookbackDays : Nat, unreadOnly : BOOLEAN]
RitualDefinition ==
    [trigger : {"ON_DEMAND", "SCHEDULED", "EVENT"}, permissions : SUBSET Permissions,
     steps : Seq(RitualStep), ownerReview : {"EVERY_RUN", "EXCEPTIONS_ONLY"},
     learning : {"PROPOSE_ONLY", "OFF"}, research : Optional(Research),
     gmailReview : Optional(GmailReview)]

\* The step a key stands for: of equal keys, which the schema of a definition
\* does not exclude, the Map built from the steps keeps the last.
IsStepOf(steps, j, key) ==
    /\ j \in 1 .. Len(steps) /\ steps[j].key = key
    /\ \A k \in 1 .. Len(steps) : steps[k].key = key => k <= j

IsStepNoBroader(current, step) ==
    /\ step.actor = current.actor
    /\ current.approval = "OWNER_REQUIRED" => step.approval = "OWNER_REQUIRED"

\* isLearningAuthorityNoBroader.
IsLearningAuthorityNoBroader(current, proposed) ==
    /\ proposed.trigger = current.trigger
    /\ proposed.permissions \subseteq current.permissions
    /\ current.ownerReview = "EVERY_RUN" => proposed.ownerReview = "EVERY_RUN"
    /\ current.learning = "OFF" => proposed.learning = "OFF"
    /\ \A i \in 1 .. Len(proposed.steps) :
          \E j \in 1 .. Len(current.steps) :
              /\ IsStepOf(current.steps, j, proposed.steps[i].key)
              /\ IsStepNoBroader(current.steps[j], proposed.steps[i])

\* Seeded fault: a search that names no domain passes for one that names fewer.
IsResearchNoBroaderUnlessNamed(current, proposed) ==
    \A p \in proposed : \E c \in current :
        /\ p.query = c.query
        /\ p.maxResults <= c.maxResults /\ p.lookbackDays <= c.lookbackDays
        /\ c.includeDomains # {} => p.includeDomains \subseteq c.includeDomains

\* isResearchNoBroader.
IsResearchNoBroader(current, proposed) ==
    \A p \in proposed : \E c \in current :
        /\ p.query = c.query
        /\ p.maxResults <= c.maxResults /\ p.lookbackDays <= c.lookbackDays
        /\ c.includeDomains # {} =>
              p.includeDomains # {} /\ p.includeDomains \subseteq c.includeDomains

\* isGmailReviewNoBroader.
IsGmailReviewNoBroader(current, proposed) ==
    \A p \in proposed : \E c \in current :
        /\ p.maxMessages <= c.maxMessages /\ p.lookbackDays <= c.lookbackDays
        /\ c.unreadOnly => p.unreadOnly

\* What validateRitualLearningResult demands of a proposal.
IsNoBroader(current, proposed) ==
    /\ IsLearningAuthorityNoBroader(current, proposed)
    /\ IsResearchNoBroader(current.research, proposed.research)
    /\ IsGmailReviewNoBroader(current.gmailReview, proposed.gmailReview)

-------------------------------------------------------------------------------
(***************************************************************************)
(* What a definition lets a run do, said without comparing definitions.    *)
(***************************************************************************)
\* The steps, those among them that no owner is asked about, the searches and
\* the messages.
Taken(d) == {<<d.steps[i].key, d.steps[i].actor>> : i \in 1 .. Len(d.steps)}
Ungated(d) ==
    {<<d.steps[i].key, d.steps[i].actor>> :
        i \in {j \in 1 .. Len(d.steps) : d.steps[j].approval = "NONE"}}
Searched(r) == IF r.includeDomains = {} THEN Domains ELSE r.includeDomains
Searches(d) ==
    UNION {[query : {r.query}, domain : Searched(r),
            result : 1 .. r.maxResults, age : 1 .. r.lookbackDays] : r \in d.research}
Unread(m) == IF m.unreadOnly THEN {TRUE} ELSE BOOLEAN
Messages(d) ==
    UNION {[unread : Unread(m),
            message : 1 .. m.maxMessages, age : 1 .. m.lookbackDays] : m \in d.gmailReview}

\* Under d a Ritual may do nothing that it may not do under e.
MayDoNoMore(d, e) ==
    /\ d.trigger = e.trigger
    /\ d.permissions \subseteq e.permissions
    /\ d.ownerReview = "EXCEPTIONS_ONLY" => e.ownerReview = "EXCEPTIONS_ONLY"
    /\ d.learning = "PROPOSE_ONLY" => e.learning = "PROPOSE_ONLY"
    /\ Taken(d) \subseteq Taken(e) /\ Ungated(d) \subseteq Ungated(e)
    /\ Searches(d) \subseteq Searches(e) /\ Messages(d) \subseteq Messages(e)
===============================================================================
