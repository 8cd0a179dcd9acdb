--------------------------- MODULE AccountErasure ---------------------------
(***************************************************************************)
(* The deletion of one owner's account over the stores that hold it: the   *)
(* rows of D1 and the objects its browser sessions and continuity grants   *)
(* live in (worker/retention/deletion.ts, driven by server/routes.ts and   *)
(* server/auth.ts), against the requests that create what it deletes: a    *)
(* session (handlers/browser-control.ts), a grant                          *)
(* (site-session-continuity/grants.ts), and any authenticated request,     *)
(* which creates the account it does not find.  The retention job's        *)
(* removal of finished grants (retention/policy.ts) runs along.            *)
(*                                                                         *)
(* Each handler is a call with a place; its steps are its statements of D1 *)
(* and its calls of an object, and it may be cut short between two of      *)
(* them.  An object is "wiped" when deleteAll has dropped its tables while *)
(* its instance is still in memory: until it is evicted, a coordinator     *)
(* answers every further destroy or initialize with an error.              *)
(* Devices are paired as Pairing shows; jobs exist for the sessions that   *)
(* ask for them; the rows of every other table cascade with the account.   *)
(***************************************************************************)
EXTENDS Naturals, FiniteSets

CONSTANTS
  MaxSessions, \* bound: browser sessions, numbered in the order they are asked for
  Grants,      \* continuity grant ids
  Plans,       \* deletion request ids
  MaxHandlers, \* bound: calls the Worker serves at a time
  MaxCuts,     \* bound: calls cut short
  Nothing

ASSUME ErasureAssumption ==
  MaxSessions \in Nat \ {0} /\ MaxHandlers \in Nat \ {0} /\ MaxCuts \in Nat

Sessions == 1..MaxSessions
Handlers == 1..MaxHandlers

Places ==
  {"finds", "enrolls", "starts", "inserts", "initializes", "activates", "destroys", "revokes",
   "writes", "sessions", "grants", "mailboxes", "coordinators", "checks", "drops", "cascades",
   "verifies", "records"}

\* A call in flight: of a session, of a grant, or of a deletion.
CallRecords ==
  {call \in [kind : {"session", "grant", "delete", "revoke", "retire", "plan", "confirm"},
             of : Sessions \cup Grants \cup Plans, at : Places,
             sessions : SUBSET Sessions, grants : SUBSET Grants, on : Sessions \cup {Nothing},
             verified : BOOLEAN, alone : BOOLEAN, owed : SUBSET (Sessions \cup Grants)] :
     /\ call.kind = "session" => call.of \in Sessions
     /\ call.kind \in {"grant", "delete", "revoke", "retire"} => call.of \in Grants
     /\ call.kind \in {"plan", "confirm"} => call.of \in Plans}

\* Ids of different kinds differ, and no id or call is taken for the absence of one.
ASSUME IdAssumption == Grants \cap Sessions = {} /\ Nothing \notin CallRecords

VARIABLES
  account,      \* the rows of principals and principal_identities
  device,       \* the account has an active device
  rows,         \* table browser_sessions
  grants,       \* table continuity_grants: the state of each row
  coordinators, \* the coordinator object of each session
  mailboxes,    \* the mailbox object of each grant
  plans,        \* table principal_deletion_plans, which outlives the account
  handlers,     \* the calls in flight
  asked,        \* the sessions and grants a request was sent for
  cuts,
  told          \* history: what was created with no deletion under way

erasure == <<account, device, rows, grants, coordinators, mailboxes, plans, handlers,
             asked, cuts, told>>
d1 == <<account, device, rows, grants, plans>>
objects == <<coordinators, mailboxes>>
bounds == <<asked, cuts>>

Absent == "ABSENT"
Finished == {"REVOKED", "DELETED"}

\* An account with a paired device and one session.
ErasureInit ==
  /\ account = TRUE /\ device = TRUE
  /\ rows = {1}
  /\ grants = [g \in Grants |-> Absent]
  /\ coordinators = [s \in Sessions |-> IF s = 1 THEN "PRESENT" ELSE Absent]
  /\ mailboxes = [g \in Grants |-> Absent]
  /\ plans = [r \in Plans |-> Absent]
  /\ handlers = [h \in Handlers |-> Nothing]
  /\ asked = {1} /\ cuts = 0
  /\ told = {1}

-----------------------------------------------------------------------------
\* The calls and their places.

AtPlace(h, kind, at) == handlers[h] # Nothing /\ handlers[h].kind = kind /\ handlers[h].at = at
Goes(h, at) == handlers' = [handlers EXCEPT ![h].at = at]
Ends(h) == handlers' = [handlers EXCEPT ![h] = Nothing]

Confirms(h) == handlers[h] # Nothing /\ handlers[h].kind = "confirm"

\* principalWasDeleted: some deletion of the account was verified.
Tombstone == \E r \in Plans : plans[r] = "COMPLETED"

\* No deletion runs, and none ran while this call did.
Undisturbed(h) == handlers[h].alone

Call(kind, of) ==
  [kind |-> kind, of |-> of, at |-> "finds", sessions |-> {}, grants |-> {}, on |-> Nothing,
   verified |-> FALSE, alone |-> \A h \in Handlers : ~Confirms(h), owed |-> {}]

\* A call takes the first free place; a deletion that starts disturbs the calls in flight.
Sends(h, call) ==
  /\ handlers[h] = Nothing
  /\ \A k \in 1..(h - 1) : handlers[k] # Nothing
  /\ handlers' = [k \in Handlers |->
       IF k = h THEN call
       ELSE IF call.kind = "confirm" /\ handlers[k] # Nothing
            THEN [handlers[k] EXCEPT !.alone = FALSE] ELSE handlers[k]]

CreateSession(h, s) ==
  /\ s \notin asked
  /\ \A earlier \in 1..(s - 1) : earlier \in asked
  /\ Sends(h, Call("session", s))
  /\ asked' = asked \cup {s}
  /\ UNCHANGED <<d1, objects, cuts, told>>

\* Some call in flight is of this grant, or of this plan.
Served(x) == \E k \in Handlers : handlers[k] # Nothing /\ handlers[k].of = x

\* A grant is asked for once, and again when the call for it was cut short.
CreateGrant(h, g) ==
  /\ g \notin asked
  /\ ~Served(g)
  /\ Sends(h, Call("grant", g))
  /\ asked' = asked \cup {g}
  /\ UNCHANGED <<d1, objects, cuts, told>>

EndGrant(h, g, kind) ==
  /\ kind \in {"delete", "revoke", "retire"}
  /\ ~Served(g)
  /\ CASE kind = "delete" -> grants[g] \notin {Absent, "DELETED"}
       [] kind = "revoke" -> grants[g] = "ACTIVE"
       [] kind = "retire" -> grants[g] \in Finished
  /\ Sends(h, Call(kind, g))
  /\ UNCHANGED <<d1, objects, bounds, told>>

PlanDeletion(h, r) ==
  /\ plans[r] = Absent
  /\ Sends(h, Call("plan", r))
  /\ UNCHANGED <<d1, objects, bounds, told>>

\* The owner confirms again only when the last answer came or was lost: two confirmations
\* at once can create the account under each other's verification for ever.
ConfirmDeletion(h, r) ==
  /\ plans[r] # Absent
  /\ ~Served(r)
  /\ Sends(h, [Call("confirm", r) EXCEPT !.owed = told])
  /\ UNCHANGED <<d1, objects, bounds, told>>

-----------------------------------------------------------------------------
\* Authentication: an account with a tombstone is refused, except to confirm its deletion
\* (allowDeleted).  principalForSubject reads the identity and the tombstone, and
\* inserts the account it did not find in a later batch.

Owners == {"session", "grant", "delete", "revoke", "plan", "confirm"}

FindsAccount(h) ==
  /\ handlers[h] # Nothing
  /\ handlers[h].at = "finds"
  /\ LET kind == handlers[h].kind IN
     IF kind \notin Owners THEN Goes(h, "starts")
     ELSE IF Tombstone /\ kind # "confirm" THEN Ends(h)
     ELSE Goes(h, IF account \/ Tombstone THEN "starts" ELSE "enrolls")
  /\ UNCHANGED <<d1, objects, bounds, told>>

EnrollsAccount(h) ==
  /\ handlers[h] # Nothing
  /\ handlers[h].at = "enrolls"
  /\ account' = TRUE
  /\ Goes(h, "starts")
  /\ UNCHANGED <<device, rows, grants, plans, objects, bounds, told>>

-----------------------------------------------------------------------------
\* createOwnedBrowserSession: eligibility, rows of D1 in one batch, the object.

SessionStarts(h) ==
  /\ AtPlace(h, "session", "starts")
  /\ IF account /\ device THEN Goes(h, "inserts") ELSE Ends(h)
  /\ UNCHANGED <<d1, objects, bounds, told>>

\* The foreign keys refuse a row of an account or device that has gone.
SessionInserts(h) ==
  /\ AtPlace(h, "session", "inserts")
  /\ IF account /\ device
     THEN rows' = rows \cup {handlers[h].of} /\ Goes(h, "initializes")
     ELSE Ends(h) /\ UNCHANGED rows
  /\ UNCHANGED <<account, device, grants, plans, objects, bounds, told>>

SessionInitializes(h) ==
  /\ AtPlace(h, "session", "initializes")
  /\ LET s == handlers[h].of IN
     /\ coordinators[s] = Absent
     /\ coordinators' = [coordinators EXCEPT ![s] = "PRESENT"]
     /\ told' = IF Undisturbed(h) THEN told \cup {s} ELSE told
  /\ Ends(h)
  /\ UNCHANGED <<d1, mailboxes, bounds>>

-----------------------------------------------------------------------------
\* createContinuityGrant: eligibility of the two sessions, the row, the mailbox.

Eligible == account /\ device /\ rows = Sessions

GrantStarts(h) ==
  /\ AtPlace(h, "grant", "starts")
  /\ IF Eligible THEN Goes(h, "inserts") ELSE Ends(h)
  /\ UNCHANGED <<d1, objects, bounds, told>>

\* INSERT OR IGNORE, and the row read back: only a pending one goes on.
GrantInserts(h) ==
  /\ AtPlace(h, "grant", "inserts")
  /\ LET g == handlers[h].of IN
     IF grants[g] = Absent /\ Eligible
     THEN grants' = [grants EXCEPT ![g] = "PENDING"] /\ Goes(h, "initializes")
     ELSE /\ IF grants[g] = "PENDING" THEN Goes(h, "initializes") ELSE Ends(h)
          /\ UNCHANGED grants
  /\ UNCHANGED <<account, device, rows, plans, objects, bounds, told>>

GrantInitializes(h) ==
  /\ AtPlace(h, "grant", "initializes")
  /\ LET g == handlers[h].of IN
     \/ /\ mailboxes[g] = "WIPED"
        /\ Ends(h)
        /\ UNCHANGED mailboxes
     \/ /\ mailboxes[g] # "WIPED"
        /\ mailboxes' = [mailboxes EXCEPT ![g] = "PRESENT"]
        /\ Goes(h, "activates")
  /\ UNCHANGED <<d1, coordinators, bounds, told>>

GrantActivates(h) ==
  /\ AtPlace(h, "grant", "activates")
  /\ LET g == handlers[h].of IN
     /\ grants' = [grants EXCEPT ![g] = IF @ = "PENDING" THEN "ACTIVE" ELSE @]
     /\ told' = IF Undisturbed(h) THEN told \cup {g} ELSE told
  /\ Ends(h)
  /\ UNCHANGED <<account, device, rows, plans, objects, bounds>>

-----------------------------------------------------------------------------
\* The end of a grant: deleteContinuityGrant, revokeContinuityGrant, the retention job.

\* destroy drops the tables; revoke keeps the object.
Destroys(g) == mailboxes' = [mailboxes EXCEPT ![g] = IF @ = "PRESENT" THEN "WIPED" ELSE @]

GrantEndStarts(h) ==
  /\ handlers[h] # Nothing
  /\ handlers[h].kind \in {"delete", "revoke", "retire"}
  /\ handlers[h].at = "starts"
  /\ LET g == handlers[h].of IN
     CASE handlers[h].kind = "delete" /\ grants[g] \notin {Absent, "DELETED"} ->
            /\ grants' = [grants EXCEPT ![g] = "DELETING"]
            /\ Goes(h, "destroys")
       [] handlers[h].kind = "revoke" /\ grants[g] = "ACTIVE" ->
            Goes(h, "revokes") /\ UNCHANGED grants
       [] handlers[h].kind = "retire" /\ grants[g] \in Finished ->
            Goes(h, "destroys") /\ UNCHANGED grants
       [] OTHER -> Ends(h) /\ UNCHANGED grants
  /\ UNCHANGED <<account, device, rows, plans, objects, bounds, told>>

GrantEndDestroys(h) ==
  /\ AtPlace(h, "delete", "destroys") \/ AtPlace(h, "retire", "destroys")
  /\ Destroys(handlers[h].of)
  /\ Goes(h, "writes")
  /\ UNCHANGED <<d1, coordinators, bounds, told>>

\* A mailbox that is not there refuses to be revoked.
GrantRevokes(h) ==
  /\ AtPlace(h, "revoke", "revokes")
  /\ IF mailboxes[handlers[h].of] = "PRESENT" THEN Goes(h, "writes") ELSE Ends(h)
  /\ UNCHANGED <<d1, objects, bounds, told>>

\* Each last write names the states it may find; a row that has gone stays gone.
GrantEndWrites(h) ==
  /\ handlers[h] # Nothing
  /\ handlers[h].at = "writes"
  /\ handlers[h].kind \in {"delete", "revoke", "retire"}
  /\ LET g == handlers[h].of
         kind == handlers[h].kind IN
     grants' = [grants EXCEPT ![g] =
       CASE kind = "delete" /\ @ # Absent -> "DELETED"
         [] kind = "revoke" /\ @ = "ACTIVE" -> "REVOKED"
         [] kind = "retire" /\ @ \in Finished -> Absent
         [] OTHER -> @]
  /\ Ends(h)
  /\ UNCHANGED <<account, device, rows, plans, objects, bounds, told>>

-----------------------------------------------------------------------------
\* planPrincipalDeletion and executePrincipalDeletion.

PlanStarts(h) ==
  /\ AtPlace(h, "plan", "starts")
  /\ LET r == handlers[h].of IN
     plans' = [plans EXCEPT ![r] = IF account /\ @ = Absent THEN "PLANNED" ELSE @]
  /\ Ends(h)
  /\ UNCHANGED <<account, device, rows, grants, objects, bounds, told>>

ConfirmStarts(h) ==
  /\ AtPlace(h, "confirm", "starts")
  /\ Goes(h, IF plans[handlers[h].of] = "COMPLETED" THEN "verifies" ELSE "sessions")
  /\ UNCHANGED <<d1, objects, bounds, told>>

ListsSessions(h) ==
  /\ AtPlace(h, "confirm", "sessions")
  /\ handlers' = [handlers EXCEPT ![h].sessions = rows, ![h].at = "grants"]
  /\ UNCHANGED <<d1, objects, bounds, told>>

\* Seeded fault: a revoked grant is taken for a deleted one.
ListsActiveGrants(h) ==
  /\ AtPlace(h, "confirm", "grants")
  /\ handlers' = [handlers EXCEPT
       ![h].grants = {g \in Grants : grants[g] \notin {Absent} \cup Finished},
       ![h].at = "mailboxes"]
  /\ UNCHANGED <<d1, objects, bounds, told>>

ListsGrants(h) ==
  /\ AtPlace(h, "confirm", "grants")
  /\ handlers' = [handlers EXCEPT
       ![h].grants = {g \in Grants : grants[g] \notin {Absent, "DELETED"}},
       ![h].at = "mailboxes"]
  /\ UNCHANGED <<d1, objects, bounds, told>>

DestroysMailboxes(h) ==
  /\ AtPlace(h, "confirm", "mailboxes")
  /\ \/ \E g \in handlers[h].grants :
          /\ Destroys(g)
          /\ handlers' = [handlers EXCEPT ![h].grants = @ \ {g}]
     \/ /\ handlers[h].grants = {}
        /\ Goes(h, "coordinators")
        /\ UNCHANGED mailboxes
  /\ UNCHANGED <<d1, coordinators, bounds, told>>

\* Seeded fault: a coordinator that has gone raises like one whose tables are dropped.
DestroysOnce(h) ==
  /\ AtPlace(h, "confirm", "coordinators")
  /\ \/ \E s \in handlers[h].sessions :
          \/ /\ coordinators[s] # "PRESENT"
             /\ Ends(h)
             /\ UNCHANGED coordinators
          \/ /\ coordinators[s] = "PRESENT"
             /\ coordinators' = [coordinators EXCEPT ![s] = "WIPED"]
             /\ handlers' = [handlers EXCEPT ![h].on = s, ![h].at = "checks"]
     \/ /\ handlers[h].sessions = {}
        /\ Goes(h, "drops")
        /\ UNCHANGED coordinators
  /\ UNCHANGED <<d1, mailboxes, bounds, told>>

\* A coordinator whose tables are dropped raises, and the whole call with it.
DestroysCoordinators(h) ==
  /\ AtPlace(h, "confirm", "coordinators")
  /\ \/ \E s \in handlers[h].sessions :
          \/ /\ coordinators[s] = "WIPED"
             /\ Ends(h)
             /\ UNCHANGED coordinators
          \/ /\ coordinators[s] # "WIPED"
             /\ coordinators' =
                  [coordinators EXCEPT ![s] = IF @ = "PRESENT" THEN "WIPED" ELSE @]
             /\ handlers' = [handlers EXCEPT ![h].on = s, ![h].at = "checks"]
     \/ /\ handlers[h].sessions = {}
        /\ Goes(h, "drops")
        /\ UNCHANGED coordinators
  /\ UNCHANGED <<d1, mailboxes, bounds, told>>

\* lifecycleStatus: a coordinator that was initialized meanwhile stops the deletion.
ChecksCoordinator(h) ==
  /\ AtPlace(h, "confirm", "checks")
  /\ LET s == handlers[h].on IN
     IF coordinators[s] = "PRESENT" THEN Ends(h)
     ELSE handlers' = [handlers EXCEPT ![h].sessions = @ \ {s}, ![h].on = Nothing,
                                       ![h].at = "coordinators"]
  /\ UNCHANGED <<d1, objects, bounds, told>>

DropsGrants(h) ==
  /\ AtPlace(h, "confirm", "drops")
  /\ grants' = [g \in Grants |-> Absent]
  /\ Goes(h, "cascades")
  /\ UNCHANGED <<account, device, rows, plans, objects, bounds, told>>

\* A grant inserted meanwhile restricts the deletion of its device: the call raises.
DropsAccount(h) ==
  /\ AtPlace(h, "confirm", "cascades")
  /\ IF \A g \in Grants : grants[g] = Absent
     THEN /\ account' = FALSE /\ device' = FALSE /\ rows' = {}
          /\ Goes(h, "verifies")
     ELSE Ends(h) /\ UNCHANGED <<account, device, rows>>
  /\ UNCHANGED <<grants, plans, objects, bounds, told>>

\* verifyPrincipalDeletion counts the rows of every table in one batch.
NoRowsRemain == ~account /\ ~device /\ rows = {} /\ \A g \in Grants : grants[g] = Absent

VerifiesDeletion(h) ==
  /\ AtPlace(h, "confirm", "verifies")
  /\ handlers' = [handlers EXCEPT ![h].verified = NoRowsRemain, ![h].at = "records"]
  /\ UNCHANGED <<d1, objects, bounds, told>>

RecordsDeletion(h) ==
  /\ AtPlace(h, "confirm", "records")
  /\ plans' = [plans EXCEPT ![handlers[h].of] =
                 IF handlers[h].verified THEN "COMPLETED" ELSE "VERIFICATION_FAILED"]
  /\ Ends(h)
  /\ UNCHANGED <<account, device, rows, grants, objects, bounds, told>>

-----------------------------------------------------------------------------
\* What the platform does, and the next step.

CutShort(h) ==
  /\ handlers[h] # Nothing
  /\ cuts < MaxCuts
  /\ cuts' = cuts + 1
  /\ Ends(h)
  /\ asked' = IF handlers[h].kind = "grant" THEN asked \ {handlers[h].of} ELSE asked
  /\ UNCHANGED <<d1, objects, told>>

EvictsCoordinator(s) ==
  /\ coordinators[s] = "WIPED"
  /\ coordinators' = [coordinators EXCEPT ![s] = Absent]
  /\ UNCHANGED <<d1, mailboxes, handlers, bounds, told>>

EvictsMailbox(g) ==
  /\ mailboxes[g] = "WIPED"
  /\ mailboxes' = [mailboxes EXCEPT ![g] = Absent]
  /\ UNCHANGED <<d1, coordinators, handlers, bounds, told>>

\* A pairing completes (Pairing): a device row needs the account's.
PairsDevice ==
  /\ account /\ ~device
  /\ device' = TRUE
  /\ UNCHANGED <<account, rows, grants, plans, objects, handlers, bounds, told>>

\* One step of a call's handler.
Serves(h) ==
  \/ FindsAccount(h) \/ EnrollsAccount(h)
  \/ SessionStarts(h) \/ SessionInserts(h) \/ SessionInitializes(h)
  \/ GrantStarts(h) \/ GrantInserts(h) \/ GrantInitializes(h) \/ GrantActivates(h)
  \/ GrantEndStarts(h) \/ GrantEndDestroys(h) \/ GrantRevokes(h) \/ GrantEndWrites(h)
  \/ PlanStarts(h)
  \/ ConfirmStarts(h) \/ ListsSessions(h) \/ ListsGrants(h) \/ DestroysMailboxes(h)
  \/ DestroysCoordinators(h) \/ ChecksCoordinator(h) \/ DropsGrants(h) \/ DropsAccount(h)
  \/ VerifiesDeletion(h) \/ RecordsDeletion(h)

ErasureNext ==
  \/ \E h \in Handlers :
       \/ Serves(h) \/ CutShort(h)
       \/ \E s \in Sessions : CreateSession(h, s)
       \/ \E g \in Grants :
            CreateGrant(h, g) \/ \E kind \in {"delete", "revoke", "retire"} : EndGrant(h, g, kind)
       \/ \E r \in Plans : PlanDeletion(h, r) \/ ConfirmDeletion(h, r)
  \/ \E s \in Sessions : EvictsCoordinator(s)
  \/ \E g \in Grants : EvictsMailbox(g)
  \/ PairsDevice

ErasureSpec == ErasureInit /\ [][ErasureNext]_erasure

\* The platform serves a call it took and evicts an idle object; an owner who planned a
\* deletion goes on confirming it until a confirmation is answered as completed.
ErasureFairness ==
  /\ \A h \in Handlers : WF_erasure(Serves(h))
  /\ WF_erasure(\E s \in Sessions : EvictsCoordinator(s))
  /\ \A r \in Plans : WF_erasure(\E h \in Handlers : ConfirmDeletion(h, r))

-----------------------------------------------------------------------------
\* When the rows of the account are verified to be gone, so is every object the owner
\* had been told was created before any deletion ran: an attempt cut short anywhere
\* leaves the rows that name the objects it has not destroyed, and the next attempt
\* finds them (the order of executePrincipalDeletion's steps).
VerifiedMeansErased ==
  \A h \in Handlers :
    AtPlace(h, "confirm", "records") /\ handlers[h].verified =>
      /\ \A s \in handlers[h].owed \cap Sessions : coordinators[s] # "PRESENT"
      /\ \A g \in handlers[h].owed \cap Grants : mailboxes[g] # "PRESENT"

\* A planned deletion is completed in the end, though calls are cut short, objects of an
\* earlier attempt raise until they are evicted, and requests let in before the tombstone
\* create the account again (authenticateRequest's allowDeleted, the retry of a
\* verification that failed).
DeletionCompletes ==
  \A r \in Plans : (plans[r] # Absent) ~> (plans[r] = "COMPLETED")
=============================================================================
