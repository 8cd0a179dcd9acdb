------------------------- MODULE BrowserControlState -------------------------
(***************************************************************************)
(* The control record of one browser session and the pure functions over   *)
(* it: the refinements of browserControlStateSchema, the transitions of    *)
(* transitionBrowserControl and the admission test of acceptBrowserCommand.*)
(*                                                                         *)
(* Each transition has a guard (the code's "ok: true" branch) and a result *)
(* (the state that branch returns).  Instants are natural numbers; the     *)
(* identity fields and "profile", which no transition reads or writes, are *)
(* left out: a module models one session of one principal and device.      *)
(***************************************************************************)
EXTENDS Naturals

CONSTANT NoInstant        \* leaseExpiresAt = null

ASSUME NoInstantAssumption == NoInstant \notin Nat

Controllers == {"NONE", "AGENT", "USER"}

ConnectionStates == {"ONLINE", "OFFLINE", "ABSENT"}

TakeoverStates == {"NONE", "QUIESCING", "OFFLINE_MARKED", "RECONCILING"}

ControlRecords ==
    [ controller           : Controllers,
      connection           : ConnectionStates,
      leaseEpoch           : Nat,
      leaseExpiresAt       : Nat \cup {NoInstant},
      lastAcceptedSequence : Nat,
      automationBlocked    : BOOLEAN,
      takeover             : TakeoverStates ]

(***************************************************************************)
(* The six cross-field refinements of browserControlStateSchema.           *)
(***************************************************************************)
AgentHoldsLiveLease(s) ==
    s.controller = "AGENT" =>
        /\ s.connection = "ONLINE"
        /\ s.leaseExpiresAt # NoInstant
        /\ ~s.automationBlocked
        /\ s.takeover = "NONE"

UserIsFenced(s) ==
    s.controller = "USER" =>
        s.leaseExpiresAt = NoInstant /\ s.automationBlocked

AbsentHasNoController(s) ==
    s.connection = "ABSENT" => s.controller = "NONE"

QuiescingIsFenced(s) ==
    s.takeover = "QUIESCING" =>
        /\ s.connection = "ONLINE"
        /\ s.controller = "NONE"
        /\ s.automationBlocked

OfflineMarkIsUser(s) ==
    s.takeover = "OFFLINE_MARKED" =>
        s.connection = "OFFLINE" /\ s.controller = "USER"

ReconcilingIsUnowned(s) ==
    s.takeover = "RECONCILING" =>
        s.connection = "ONLINE" /\ s.controller = "NONE"

SchemaValid(s) ==
    /\ AgentHoldsLiveLease(s)
    /\ UserIsFenced(s)
    /\ AbsentHasNoController(s)
    /\ QuiescingIsFenced(s)
    /\ OfflineMarkIsUser(s)
    /\ ReconcilingIsUnowned(s)

ControlStates == {s \in ControlRecords : SchemaValid(s)}

(***************************************************************************)
(* The control a session is created with.                                  *)
(***************************************************************************)
InitialControl ==
    [ controller           |-> "NONE",
      connection           |-> "ONLINE",
      leaseEpoch           |-> 0,
      leaseExpiresAt       |-> NoInstant,
      lastAcceptedSequence |-> 0,
      automationBlocked    |-> TRUE,
      takeover             |-> "NONE" ]

(***************************************************************************)
(* transitionBrowserControl, one guard and one result per event.           *)
(***************************************************************************)
OnlineTakeoverAllowed(s) ==
    s.controller = "AGENT" /\ s.connection = "ONLINE" /\ s.takeover = "NONE"

\* Seeded fault: a takeover keeps the epoch of the lease it revokes.
OnlineTakeoverSameEpoch(s) ==
    [s EXCEPT !.controller = "NONE", !.leaseExpiresAt = NoInstant,
              !.automationBlocked = TRUE, !.takeover = "QUIESCING"]

OnlineTakeoverRequested(s) ==
    [s EXCEPT !.controller = "NONE", !.leaseEpoch = @ + 1,
              !.leaseExpiresAt = NoInstant, !.automationBlocked = TRUE,
              !.takeover = "QUIESCING"]

QuiesceAllowed(s) == s.controller = "NONE" /\ s.takeover = "QUIESCING"

TakeoverQuiesced(s) == [s EXCEPT !.controller = "USER", !.takeover = "NONE"]

\* Seeded fault: going offline is refused while an agent is in control.
HostOfflineUnlessLeased(s) == s.connection = "ONLINE" /\ s.controller # "AGENT"

HostOfflineAllowed(s) == s.connection = "ONLINE"

HostWentOffline(s) ==
    LET quiescing == s.takeover = "QUIESCING"
    IN  [s EXCEPT !.connection = "OFFLINE",
                  !.controller = IF quiescing THEN "USER" ELSE "NONE",
                  !.leaseExpiresAt = NoInstant,
                  !.automationBlocked = TRUE,
                  !.takeover = IF quiescing THEN "OFFLINE_MARKED" ELSE "NONE"]

OfflineTakeoverAllowed(s) ==
    s.connection = "OFFLINE" /\ s.controller = "NONE" /\ s.takeover = "NONE"

OfflineTakeoverRequested(s) ==
    [s EXCEPT !.controller = "USER", !.takeover = "OFFLINE_MARKED"]

HostReconnectAllowed(s) ==
    /\ s.connection = "OFFLINE"
    /\ s.controller = "USER"
    /\ s.takeover = "OFFLINE_MARKED"

HostReconnect(s) ==
    [s EXCEPT !.connection = "ONLINE", !.leaseEpoch = @ + 1,
              !.takeover = "NONE"]

ReturnControlAllowed(s) ==
    s.connection = "ONLINE" /\ s.controller = "USER" /\ s.takeover = "NONE"

ReturnControlRequested(s) ==
    [s EXCEPT !.controller = "NONE", !.takeover = "RECONCILING"]

AgentReconcileAllowed(s) ==
    /\ s.connection = "ONLINE"
    /\ s.controller = "NONE"
    /\ s.takeover = "RECONCILING"

AgentReconciled(s, expiresAt) ==
    [s EXCEPT !.controller = "AGENT", !.leaseEpoch = @ + 1,
              !.leaseExpiresAt = expiresAt, !.automationBlocked = FALSE,
              !.takeover = "NONE"]

JobCanceled(s) ==
    [s EXCEPT !.controller = "NONE",
              !.leaseEpoch = IF s.connection = "ONLINE" THEN @ + 1 ELSE @,
              !.leaseExpiresAt = NoInstant,
              !.automationBlocked = TRUE,
              !.takeover = "NONE"]

(***************************************************************************)
(* The tests of acceptBrowserCommand that read the control record.  The    *)
(* caller has matched the site and the identities, and the envelope's own  *)
(* validity window holds "now".                                            *)
(***************************************************************************)
CommandAccepted(s, epoch, sequence, now) ==
    /\ epoch = s.leaseEpoch
    /\ s.controller = "AGENT"
    /\ s.connection = "ONLINE"
    /\ ~s.automationBlocked
    /\ s.leaseExpiresAt # NoInstant
    /\ s.leaseExpiresAt > now
    /\ sequence > s.lastAcceptedSequence
==============================================================================
