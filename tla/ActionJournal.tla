----------------------------- MODULE ActionJournal -----------------------------
(***************************************************************************)
(* The desktop's evidence of dispatch: a file of entries, appended one at  *)
(* a time behind a queue, each checked against the last one of its action. *)
(***************************************************************************)
EXTENDS Naturals, Sequences

CONSTANTS
    None,           \* no entry, no action, nothing
    JournalLimit    \* entries the file keeps

ASSUME JournalLimitAssumption == JournalLimit \in Nat \ {0}

Phases ==
    {"ACCEPTED", "DISPATCHED", "EFFECT_OBSERVED", "RECEIPTED", "RECONCILIATION_REQUIRED"}

\* Where the last entry of an action is: in one place, or nowhere.
LastOf(journal, action) ==
    {i \in 1..Len(journal) :
        /\ journal[i].action = action
        /\ \A j \in 1..Len(journal) : journal[j].action = action => j <= i}

NextPhases ==
    [ACCEPTED |-> {"DISPATCHED", "RECONCILIATION_REQUIRED"},
     DISPATCHED |-> {"EFFECT_OBSERVED", "RECONCILIATION_REQUIRED"},
     EFFECT_OBSERVED |-> {"RECEIPTED", "RECONCILIATION_REQUIRED"},
     RECEIPTED |-> {},
     RECONCILIATION_REQUIRED |-> {"DISPATCHED", "EFFECT_OBSERVED", "RECEIPTED"}]

\* The binding of an action's entries never changes.
SameBinding(last, e) ==
    last.step = e.step /\ last.epoch = e.epoch /\ last.class = e.class

CanRecord(journal, e) ==
    /\ LastOf(journal, e.action) = {} => e.phase # "RECEIPTED"
    /\ \A i \in LastOf(journal, e.action) :
          SameBinding(journal[i], e) /\ e.phase \in NextPhases[journal[i].phase]

\* An accepted entry is appended, and the oldest ones go at the limit.
Recorded(journal, e) ==
    LET all == Append(journal, e)
    IN IF Len(all) > JournalLimit THEN SubSeq(all, Len(all) - JournalLimit + 1, Len(all))
       ELSE all

HasPhase(journal, s, phases) ==
    \E i \in 1..Len(journal) : journal[i].step = s /\ journal[i].phase \in phases
===============================================================================
