------------------------------- MODULE Quotas -------------------------------
(***************************************************************************)
(* The authenticated quotas of worker/limits/quotas.ts: one budget (a kind *)
(* in one minute) of one principal, counted in two rows of D1 by two       *)
(* statements, the principal's first.  A call refused or failed at the     *)
(* device's row gives the principal's count back in a third statement.     *)
(* Calls of several devices interleave, a statement may fail, and a call   *)
(* may be cut short between two statements; what it counted is then lost   *)
(* to the minute.  Rows of another minute are other rows, so one minute    *)
(* is modelled.  A device's row may already hold counts when the           *)
(* principal's row is first written (a minute begun before the migration   *)
(* that added the latter).                                                 *)
(***************************************************************************)
EXTENDS Naturals, FiniteSets

CONSTANTS
  Devices,
  Calls,     \* ids of calls of consumeAuthenticatedQuota
  Limit,     \* authenticatedQuotaLimits: the same for a device and its principal
  MaxCount   \* bound: the counts a device may bring from before the migration

ASSUME QuotaAssumption == Limit \in Nat \ {0} /\ MaxCount \in 0..Limit

VARIABLES
  principalUsage,  \* the principal's count of the minute
  deviceUsage,     \* each device's
  quotaCalls,      \* each call: its place and the device it is of
  allowed,         \* history: the calls that were let through
  lost             \* history: counts of calls cut short or failed while giving back

quotas == <<principalUsage, deviceUsage, quotaCalls, allowed, lost>>

QuotaInit ==
  /\ principalUsage = 0
  /\ deviceUsage \in [Devices -> 0..MaxCount]
  /\ quotaCalls \in [Calls -> [at : {"starts"}, device : Devices]]
  /\ allowed = {}
  /\ lost = 0

QuotaAt(k, place) == quotaCalls[k].at = place
QuotaGoes(k, place) == quotaCalls' = [quotaCalls EXCEPT ![k].at = place]

\* The principal's statement: counts the call, or answers backpressure.
CountPrincipal(k) ==
  /\ QuotaAt(k, "starts")
  /\ \/ /\ principalUsage < Limit
        /\ principalUsage' = principalUsage + 1
        /\ QuotaGoes(k, "counted")
     \/ /\ principalUsage >= Limit
        /\ QuotaGoes(k, "ends")
        /\ UNCHANGED principalUsage
  /\ UNCHANGED <<deviceUsage, allowed, lost>>

\* The device's statement: allows the call, or finds the device full.
CountDevice(k) ==
  LET d == quotaCalls[k].device IN
  /\ QuotaAt(k, "counted")
  /\ \/ /\ deviceUsage[d] < Limit
        /\ deviceUsage' = [deviceUsage EXCEPT ![d] = @ + 1]
        /\ allowed' = allowed \union {k}
        /\ QuotaGoes(k, "ends")
     \/ /\ deviceUsage[d] >= Limit
        /\ QuotaGoes(k, "releases")
        /\ UNCHANGED <<deviceUsage, allowed>>
  /\ UNCHANGED <<principalUsage, lost>>

\* Seeded fault: a failed statement of the device's row ends the call at once.
FailsAtOnce(k) ==
  /\ QuotaAt(k, "counted")
  /\ QuotaGoes(k, "ends")
  /\ UNCHANGED <<principalUsage, deviceUsage, allowed, lost>>

\* The device's statement fails, whether or not it counted the call: the catch gives
\* the principal's count back before it throws.
DeviceFails(k) ==
  LET d == quotaCalls[k].device IN
  /\ QuotaAt(k, "counted")
  /\ \/ UNCHANGED deviceUsage
     \/ deviceUsage[d] < Limit /\ deviceUsage' = [deviceUsage EXCEPT ![d] = @ + 1]
  /\ QuotaGoes(k, "releases")
  /\ UNCHANGED <<principalUsage, allowed, lost>>

ReleasePrincipalQuota(k) ==
  /\ QuotaAt(k, "releases")
  /\ principalUsage' = IF principalUsage > 0 THEN principalUsage - 1 ELSE 0
  /\ QuotaGoes(k, "ends")
  /\ UNCHANGED <<deviceUsage, allowed, lost>>

\* A call cut short after it was counted, or whose release fails.
QuotaCutShort(k) ==
  /\ quotaCalls[k].at \in {"counted", "releases"}
  /\ QuotaGoes(k, "ends")
  /\ lost' = lost + 1
  /\ UNCHANGED <<principalUsage, deviceUsage, allowed>>

QuotaNext ==
  \E k \in Calls :
    \/ CountPrincipal(k) \/ CountDevice(k) \/ DeviceFails(k)
    \/ ReleasePrincipalQuota(k) \/ QuotaCutShort(k)

QuotaSpec == QuotaInit /\ [][QuotaNext]_quotas

-----------------------------------------------------------------------------
\* The calls the principal's row counts and its device's row has not decided yet, or
\* whose count is to be given back.
Undecided == {k \in Calls : quotaCalls[k].at \in {"counted", "releases"}}

\* The principal's count is what its devices were allowed, what is being decided and
\* what was lost, whatever the calls of its devices do between each other's two
\* statements: no refusal or failure costs the owner a call, and none is given back
\* twice (the release in both exits of consumeAuthenticatedQuota).
BudgetBalances ==
  principalUsage = Cardinality(allowed) + Cardinality(Undecided) + lost
=============================================================================
