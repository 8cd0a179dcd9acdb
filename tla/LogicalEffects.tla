---------------------------- MODULE LogicalEffects ----------------------------
(***************************************************************************)
(* What a session coordinator promises of a workflow's progress, and       *)
(* nothing of leases, sequences or revisions: a logical step is bound to   *)
(* one effect for good, at most one retained action performs that effect,  *)
(* and the effect is receipted once, by an action of its own step.  It     *)
(* does not mention the phase of an effect, which an owner's report may    *)
(* set to anything, receipted or not: none of this rests on it.            *)
(* SessionCoordinator implements it; EventProjection builds on it.         *)
(***************************************************************************)
EXTENDS Naturals

CONSTANTS
    Steps,                \* the logical steps of the workflow
    ActionIds,            \* action identities a desktop may mint
    NoAction,             \* no action performs the effect yet
    EffectIds             \* effect identities

VARIABLES
    progress,             \* the bound steps: effect and performer
    accepted,             \* retained workflow actions: the step of each
    receipted             \* the effects with a receipt

effectVars == <<progress, accepted, receipted>>

WithEntry(table, key, entry) ==
    [k \in DOMAIN table \cup {key} |-> IF k = key THEN entry ELSE table[k]]

Unperformed(effect) == [effect |-> effect, canonical |-> NoAction]

\* The step may be bound to the effect, or is bound to it already.
Binds(step, effect) ==
    IF step \in DOMAIN progress
    THEN progress[step].effect = effect
    ELSE \A s \in DOMAIN progress : progress[s].effect # effect

-------------------------------------------------------------------------------
Init ==
    /\ progress = [s \in {} |-> s]
    /\ accepted = [a \in {} |-> a]
    /\ receipted = {}

\* A step is bound without a command: by the session's creation, by a
\* checkpoint or by the owner's progress.
Bind(step, effect) ==
    /\ step \notin DOMAIN progress
    /\ Binds(step, effect)
    /\ progress' = WithEntry(progress, step, Unperformed(effect))
    /\ UNCHANGED <<accepted, receipted>>

\* A command is retained.  It performs the effect of its step only if no
\* other command does.
Accept(action, step, effect, performs) ==
    /\ action \notin DOMAIN accepted
    /\ Binds(step, effect)
    /\ LET row == IF step \in DOMAIN progress THEN progress[step]
                  ELSE Unperformed(effect)
       IN  /\ performs => row.canonical = NoAction
           /\ progress' = WithEntry(progress, step,
                            IF performs THEN [row EXCEPT !.canonical = action]
                                        ELSE row)
    /\ accepted' = WithEntry(accepted, action, step)
    /\ UNCHANGED receipted

\* A receipt of a retained action; its checkpoint may bind a step.
Receipt(action, step, effect) ==
    /\ action \in DOMAIN accepted
    /\ progress[accepted[action]].effect \notin receipted
    /\ Binds(step, effect)
    /\ receipted' = receipted \cup {progress[accepted[action]].effect}
    /\ progress' = IF step \in DOMAIN progress THEN progress
                   ELSE WithEntry(progress, step, Unperformed(effect))
    /\ UNCHANGED accepted

\* The session's storage is deleted.
Discard ==
    /\ progress' = [s \in {} |-> s]
    /\ accepted' = [a \in {} |-> a]
    /\ receipted' = {}

Next ==
    \/ \E step \in Steps, effect \in EffectIds : Bind(step, effect)
    \/ \E action \in ActionIds, step \in Steps, effect \in EffectIds,
          performs \in BOOLEAN : Accept(action, step, effect, performs)
    \/ \E action \in ActionIds, step \in Steps, effect \in EffectIds :
         Receipt(action, step, effect)
    \/ Discard

Spec == Init /\ [][Next]_effectVars
===============================================================================
