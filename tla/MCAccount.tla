----------------------------- MODULE MCAccount -----------------------------
(***************************************************************************)
(* A small instance of the account's control plane: pairing, quotas and    *)
(* erasure.  They share no row that one of them would find changed by      *)
(* another except the account and its devices, which AccountErasure models *)
(* itself, so each behaviour is of one of the three parts.                 *)
(***************************************************************************)
EXTENDS Pairing, Quotas, AccountErasure

VARIABLE part  \* the part whose behaviour this is

vars == <<pairing, quotas, erasure, part>>

Parts == {"pairing", "quotas", "erasure"}

Init ==
  /\ part \in Parts
  /\ PairingInit /\ ErasureInit
  /\ IF part = "quotas" THEN QuotaInit
     ELSE /\ principalUsage = 0 /\ deviceUsage = [d \in Devices |-> 0]
          /\ quotaCalls = [k \in Calls |-> [at |-> "ends", device |-> CHOOSE d \in Devices : TRUE]]
          /\ allowed = {} /\ lost = 0

Next ==
  \/ part = "pairing" /\ PairingNext /\ UNCHANGED <<quotas, erasure, part>>
  \/ part = "quotas" /\ QuotaNext /\ UNCHANGED <<pairing, erasure, part>>
  \/ part = "erasure" /\ ErasureNext /\ UNCHANGED <<pairing, quotas, part>>

Spec == Init /\ [][Next]_vars /\ ErasureFairness
=============================================================================
