------------------------------ MODULE SessionLife ------------------------------
(***************************************************************************)
(* The life of one delegated job over the two stores that hold it: its row *)
(* in D1 (jobs, job_events, browser_sessions, devices) and the coordinator *)
(* object of the browser session that performs it.  The requests that move *)
(* both are made of several awaited calls, interleave with one another and *)
(* may stop after any of them.                                             *)
(*                                                                         *)
(* A coordinator is reduced to what these requests read and write of it:   *)
(* whether it is initialized, whether an agent holds its lease, its job    *)
(* revision and its cancellations.  SessionCoordinator models the rest.    *)
(* The job is an account set-up on the owned fixture, as every job with an *)
(* objective is; quotas, signatures and identities of other owners, which  *)
(* only refuse, are left out.                                              *)
(***************************************************************************)
EXTENDS Integers

CONSTANTS
    Sessions,             \* identities a client may create a session under
    CancelIds,            \* identities a client may cancel under
    Handlers,             \* requests the Worker serves at one time
    NoSession,            \* jobs.browser_session_id is null
    NoRevision            \* workflow_job_revision is null

ASSUME SessionLifeAssumption ==
    /\ NoSession \notin Sessions
    /\ NoRevision \notin Nat

VARIABLES
    job,                  \* the row of jobs: state, version, session
    jobEvents,            \* the sequences of job_events
    rows,                 \* the rows of browser_sessions
    deviceActive,         \* devices.credential_status = 'ACTIVE'
    coordinator,          \* per session: the object's part of the job
    handlers              \* per request: its progress and what it was sent

lifeVars == <<job, jobEvents, rows, deviceActive, coordinator, handlers>>

-------------------------------------------------------------------------------
JobStates == {"QUEUED", "WAITING_FOR_BROWSER", "RUNNING_AGENT", "CANCELED"}

\* The row of a session's job is at version 2 or later.
Revisions == Nat \ {0, 1}

Cancellations == [id : CancelIds, expected : Revisions]

Coordinators ==
    [ initialized   : BOOLEAN,
      leased        : BOOLEAN,
      revision      : Revisions \cup {NoRevision},
      cancellations : SUBSET Cancellations ]

\* The request is served; nothing is kept of it.
Served == [at |-> "IDLE"]

\* A creation or an opening of a session that is at some call of its handler.
Serving(at, session) == [at |-> at, session |-> session]

HandlerCalls ==
    {"CREATE_ROWS", "INITIALIZE", "INITIALIZE_WORKFLOW",
     "FIND_SESSION", "CLAIM", "READ_JOB", "MOVE_JOB"}

RequestStates ==
    {Served} \cup [at : HandlerCalls, session : Sessions]
           \cup [at : {"CANCEL"}, session : Sessions, cancellation : Cancellations]

LifeTypeOK ==
    /\ job \in [state : JobStates, version : Nat \ {0},
                session : Sessions \cup {NoSession}]
    /\ jobEvents \subseteq 1 .. 3
    /\ rows \subseteq Sessions
    /\ deviceActive \in BOOLEAN
    /\ coordinator \in [Sessions -> Coordinators]
    /\ handlers \in [Handlers -> RequestStates]

LifeInit ==
    /\ job = [state |-> "QUEUED", version |-> 1, session |-> NoSession]
    /\ jobEvents = {1}
    /\ rows = {}
    /\ deviceActive = TRUE
    /\ coordinator = [b \in Sessions |->
          [initialized |-> FALSE, leased |-> FALSE,
           revision |-> NoRevision, cancellations |-> {}]]
    /\ handlers = [r \in Handlers |-> Served]

At(r, call) == handlers[r].at = call

Goes(r, call) == handlers' = [handlers EXCEPT ![r] = Serving(call, @.session)]

Ends(r) == handlers' = [handlers EXCEPT ![r] = Served]

d1 == <<job, jobEvents, rows, deviceActive>>

-------------------------------------------------------------------------------
(***************************************************************************)
(* createOwnedBrowserSession.                                              *)
(***************************************************************************)
CreateSession(r, b) ==
    /\ At(r, "IDLE")
    /\ job.state = "QUEUED" /\ deviceActive
    /\ handlers' = [handlers EXCEPT ![r] = Serving("CREATE_ROWS", b)]
    /\ UNCHANGED <<d1, coordinator>>

\* The batch's inserts collide with a session of the same identity, with one
\* of the same job or with an event of the same sequence.
RowsCollide == rows # {} \/ 2 \in jobEvents

\* Seeded fault: the handler goes on when the batch has failed.
CreateRowsRegardless(r) ==
    /\ At(r, "CREATE_ROWS")
    /\ rows' = IF RowsCollide THEN rows ELSE rows \cup {handlers[r].session}
    /\ jobEvents' = jobEvents \cup {2}
    /\ job' = IF ~RowsCollide /\ job.state = "QUEUED" /\ job.version = 1
              THEN [state |-> "WAITING_FOR_BROWSER", version |-> 2,
                    session |-> handlers[r].session]
              ELSE job
    /\ Goes(r, "INITIALIZE")
    /\ UNCHANGED <<deviceActive, coordinator>>

CreateRows(r) ==
    /\ At(r, "CREATE_ROWS")
    /\ IF RowsCollide
       THEN Ends(r) /\ UNCHANGED <<rows, jobEvents, job>>
       ELSE /\ rows' = rows \cup {handlers[r].session}
            /\ jobEvents' = jobEvents \cup {2}
            /\ job' = IF job.state = "QUEUED" /\ job.version = 1
                      THEN [state |-> "WAITING_FOR_BROWSER", version |-> 2,
                            session |-> handlers[r].session]
                      ELSE job
            /\ Goes(r, "INITIALIZE")
    /\ UNCHANGED <<deviceActive, coordinator>>

Initialize(r) ==
    /\ At(r, "INITIALIZE")
    /\ coordinator' = [coordinator EXCEPT ![handlers[r].session].initialized = TRUE]
    /\ Goes(r, "INITIALIZE_WORKFLOW")
    /\ UNCHANGED d1

InitializeJobWorkflow(r) ==
    /\ At(r, "INITIALIZE_WORKFLOW")
    /\ coordinator' =
         [coordinator EXCEPT ![handlers[r].session].revision =
            IF @ = NoRevision THEN 2 ELSE @]
    /\ Ends(r)
    /\ UNCHANGED d1

-------------------------------------------------------------------------------
(***************************************************************************)
(* dispatchAuthenticatedSessionOpen.                                       *)
(***************************************************************************)
OpenSession(r, b) ==
    /\ At(r, "IDLE")
    /\ deviceActive
    /\ handlers' = [handlers EXCEPT ![r] = Serving("FIND_SESSION", b)]
    /\ UNCHANGED <<d1, coordinator>>

FindSession(r) ==
    /\ At(r, "FIND_SESSION")
    /\ IF handlers[r].session \in rows THEN Goes(r, "CLAIM") ELSE Ends(r)
    /\ UNCHANGED <<d1, coordinator>>

\* snapshot, hostReconnected where the host was offline, claimAgentLease.
ClaimLease(r) ==
    LET b == handlers[r].session
    IN  /\ At(r, "CLAIM")
        /\ IF coordinator[b].initialized /\ ~coordinator[b].leased
           THEN /\ coordinator' = [coordinator EXCEPT ![b].leased = TRUE]
                /\ Goes(r, "READ_JOB")
           ELSE Ends(r) /\ UNCHANGED coordinator
        /\ UNCHANGED d1

AwaitsBrowser == job.state = "WAITING_FOR_BROWSER" /\ job.version = 2

ReadJob(r) ==
    /\ At(r, "READ_JOB")
    /\ IF AwaitsBrowser THEN Goes(r, "MOVE_JOB") ELSE Ends(r)
    /\ UNCHANGED <<d1, coordinator>>

\* Seeded fault: the update does not test the row again.
MoveJobAsRead(r) ==
    /\ At(r, "MOVE_JOB")
    /\ IF 3 \in jobEvents
       THEN UNCHANGED <<job, jobEvents>>
       ELSE /\ job' = [job EXCEPT !.state = "RUNNING_AGENT", !.version = 3]
            /\ jobEvents' = jobEvents \cup {3}
    /\ Ends(r)
    /\ UNCHANGED <<rows, deviceActive, coordinator>>

\* The batch fails as a whole where the event is present; its update may find
\* that the row has moved, and the event is inserted all the same.
MoveJob(r) ==
    /\ At(r, "MOVE_JOB")
    /\ IF 3 \in jobEvents
       THEN UNCHANGED <<job, jobEvents>>
       ELSE /\ job' = IF AwaitsBrowser
                      THEN [job EXCEPT !.state = "RUNNING_AGENT", !.version = 3]
                      ELSE job
            /\ jobEvents' = jobEvents \cup {3}
    /\ Ends(r)
    /\ UNCHANGED <<rows, deviceActive, coordinator>>

-------------------------------------------------------------------------------
(***************************************************************************)
(* The cancel route, the object's cancel and its projection.               *)
(***************************************************************************)
CancelCall(b, id, expected) ==
    [at |-> "CANCEL", session |-> b,
     cancellation |-> [id |-> id, expected |-> expected]]

\* The route refuses a revision that is not the row's version.
RequestCancel(r, b, id) ==
    /\ At(r, "IDLE")
    /\ b \in rows
    /\ handlers' = [handlers EXCEPT ![r] = CancelCall(b, id, job.version)]
    /\ UNCHANGED <<d1, coordinator>>

\* cancel: a known identity is answered from its record, and a request whose
\* revision is not the object's is refused.
Cancel(r) ==
    /\ At(r, "CANCEL")
    /\ LET b     == handlers[r].session
           c     == handlers[r].cancellation
           known == \E k \in coordinator[b].cancellations : k.id = c.id
       IN  IF /\ coordinator[b].initialized
              /\ ~known
              /\ coordinator[b].revision \in {NoRevision, c.expected}
           THEN coordinator' =
                  [coordinator EXCEPT ![b].leased = FALSE,
                                      ![b].revision = c.expected + 1,
                                      ![b].cancellations = @ \cup {c}]
           ELSE UNCHANGED coordinator
    /\ Ends(r)
    /\ UNCHANGED d1

\* The lease ends for any other reason: its expiry, a disconnection, the owner
\* or the cancellation of a client that names no revision.
LeaseEnds(b) ==
    /\ coordinator[b].leased
    /\ coordinator' = [coordinator EXCEPT ![b].leased = FALSE]
    /\ UNCHANGED <<d1, handlers>>

\* The event is projected at least once (EventProjection).
ProjectCancellation(b, c) ==
    /\ c \in coordinator[b].cancellations
    /\ job.version = c.expected
    /\ job' = [job EXCEPT !.state = "CANCELED", !.version = c.expected + 1]
    /\ UNCHANGED <<jobEvents, rows, deviceActive, coordinator, handlers>>

-------------------------------------------------------------------------------
RevokeDevice ==
    /\ deviceActive
    /\ deviceActive' = FALSE
    /\ UNCHANGED <<job, jobEvents, rows, coordinator, handlers>>

\* The Worker is evicted, or a call of the handler fails.
RequestStops(r) ==
    /\ ~At(r, "IDLE")
    /\ Ends(r)
    /\ UNCHANGED <<d1, coordinator>>

RequestStep(r) ==
    \/ \E b \in Sessions : CreateSession(r, b) \/ OpenSession(r, b)
    \/ CreateRows(r) \/ Initialize(r) \/ InitializeJobWorkflow(r)
    \/ FindSession(r) \/ ClaimLease(r) \/ ReadJob(r) \/ MoveJob(r)
    \/ \E b \in Sessions, id \in CancelIds : RequestCancel(r, b, id)
    \/ Cancel(r)
    \/ RequestStops(r)

LifeNext ==
    \/ \E r \in Handlers : RequestStep(r)
    \/ \E b \in Sessions :
          \/ LeaseEnds(b)
          \/ \E c \in coordinator[b].cancellations : ProjectCancellation(b, c)
    \/ RevokeDevice

LifeSpec == LifeInit /\ [][LifeNext]_lifeVars

-------------------------------------------------------------------------------
(***************************************************************************)
(* Properties.                                                             *)
(***************************************************************************)

\* A coordinator is initialized only for the session the job's row names,
\* however many creations ran for the job at one time and wherever they
\* stopped (createOwnedBrowserSession).
OneCoordinatorPerJob ==
    \A b \in Sessions :
        coordinator[b].initialized => b \in rows /\ job.session = b

\* A job whose row reads CANCELED is never put back to work by a request that
\* read the row earlier (dispatchAuthenticatedSessionOpen).
CanceledJobStays == [][job.state = "CANCELED" => job'.state = "CANCELED"]_lifeVars

\* Whatever is repeated or late, the row of a job changes only together with
\* its version, and by one: a version names one content of the row, which is
\* what every later compare-and-set of it relies on.
VersionCountsChanges == [][job' # job => job'.version = job.version + 1]_lifeVars

\* The coordinator's revision is never set back, neither by a creation that
\* finishes after a cancellation nor by a cancellation that comes late.
RevisionNeverBack ==
    [][\A b \in Sessions :
         coordinator[b].revision # NoRevision =>
            /\ coordinator'[b].revision # NoRevision
            /\ coordinator'[b].revision >= coordinator[b].revision]_lifeVars
==============================================================================
