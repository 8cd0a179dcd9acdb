----------------------------- MODULE LeaseGrants -----------------------------
(***************************************************************************)
(* What a session coordinator promises of its leases, and nothing of how:  *)
(* authority is granted to one connection at a time, each grant carries an *)
(* epoch larger than every earlier one, and a command is dispatched only   *)
(* by the connection that owns the current grant, under its epoch.         *)
(* This is the "Lease" and the "Lease Epoch" of the project's glossary.    *)
(***************************************************************************)
EXTENDS Naturals

CONSTANTS Connections, NoConnection

VARIABLES
    owner,     \* the connection that may dispatch, or NoConnection
    issued,    \* the epoch of the last grant
    log        \* the <<epoch, connection>> pairs commands were dispatched under

grantVars == <<owner, issued, log>>

Init ==
    /\ owner = NoConnection
    /\ issued = 0
    /\ log = {}

Issue ==
    /\ owner = NoConnection
    /\ owner' \in Connections
    /\ issued' \in Nat
    /\ issued' > issued
    /\ UNCHANGED log

Revoke ==
    /\ owner # NoConnection
    /\ owner' = NoConnection
    /\ UNCHANGED <<issued, log>>

Dispatch ==
    /\ owner # NoConnection
    /\ log' = log \cup {<<issued, owner>>}
    /\ UNCHANGED <<owner, issued>>

Next == Issue \/ Revoke \/ Dispatch

Spec == Init /\ [][Next]_grantVars

(***************************************************************************)
(* No two connections ever dispatch under one epoch.                       *)
(***************************************************************************)
OneSenderPerEpoch ==
    \A p, q \in log : p[1] = q[1] => p[2] = q[2]
==============================================================================
