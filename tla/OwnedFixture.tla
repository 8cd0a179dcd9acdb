----------------------------- MODULE OwnedFixture ------------------------------
(***************************************************************************)
(* The site the delegated workflow works on: LocalOwnedFixtureService, a   *)
(* persistent profile behind the page's four calls.  Steps are numbered;   *)
(* every step but the last fills one field of the profile, the last one    *)
(* finalizes it, and a step's number is also its effect's identity (one    *)
(* grant for each, of the same binding).                                   *)
(***************************************************************************)
EXTENDS Naturals

CONSTANTS
    NSteps,         \* steps of the workflow, the last one FINALIZE_SETUP
    MaxAttempts     \* maxAttemptsPerEffect

ASSUME NStepsAssumption == NSteps \in Nat \ {0, 1}
ASSUME MaxAttemptsAssumption == MaxAttempts \in 1..10

Steps == 1..NSteps
Finalize == NSteps
Fields == 1..(NSteps - 1)

\* What a field holds: nothing, the desired value, or another valid one.
Values == {"missing", "desired", "other"}

NewFixture ==
    [field |-> [f \in Fields |-> "missing"], finalized |-> FALSE,
     attempts |-> [s \in Steps |-> 0], applied |-> {}]

CompleteProfile(fx) == \A f \in Fields : fx.field[f] = "desired"

\* The predicate of a step, as observe() reports it.
Satisfied(fx, s) ==
    IF s = Finalize THEN fx.finalized ELSE fx.field[s] = "desired"

\* A replay of an applied effect is answered from its record; anything else
\* consumes an attempt, even when it is then refused.
Attempted(fx, s) ==
    [fx EXCEPT !.attempts[s] = IF @ < MaxAttempts THEN @ + 1 ELSE @]

Refused(fx, s) ==
    /\ s \notin fx.applied
    /\ \/ fx.attempts[s] >= MaxAttempts
       \/ fx.finalized
       \/ s = Finalize /\ ~CompleteProfile(fx)

Execute(fx, s) ==
    LET tried == Attempted(fx, s)
    IN CASE s \in fx.applied \/ Refused(fx, s) -> tried
         [] s = Finalize /\ ~Refused(fx, s) /\ s \notin fx.applied ->
                [tried EXCEPT !.finalized = TRUE, !.applied = @ \union {s}]
         [] OTHER -> [tried EXCEPT !.field[s] = "desired", !.applied = @ \union {s}]

\* The owner's three form values, all valid, over the profile as it stands.
OwnerEdits == [Fields -> Values \ {"missing"}]

ApplyOwnerState(fx, edit) == [fx EXCEPT !.field = edit]

\* What restore() accepts of a file it wrote.
Restorable(fx) ==
    /\ (Finalize \in fx.applied) <=> fx.finalized
    /\ fx.finalized => CompleteProfile(fx)
===============================================================================
