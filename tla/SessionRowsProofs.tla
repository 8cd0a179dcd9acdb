--------------------------- MODULE SessionRowsProofs ---------------------------
(***************************************************************************)
(* Theorems about the rows D1 keeps of a session, which MCSessionRows      *)
(* checks on small instances.  Of SessionLife: for any number of sessions, *)
(* cancellations and concurrent requests, a job has one coordinator, its   *)
(* row is never put back to work after a cancellation, and a coordinator   *)
(* accepts one cancellation of a revision.  Of EventProjection: no         *)
(* acknowledged event is missing in D1, and what requests that do not      *)
(* overlap leave there is what the log implies, for any number of          *)
(* requests, any page size and any length of the log.                      *)
(***************************************************************************)
EXTENDS SessionLife, EventProjection, TLAPS, WellFoundedInduction

CreateCalls == {"INITIALIZE", "INITIALIZE_WORKFLOW"}

OpenCalls == {"CLAIM", "READ_JOB", "MOVE_JOB"}

-------------------------------------------------------------------------------
(***************************************************************************)
(* Types.                                                                  *)
(***************************************************************************)

\* What a step writes of one request.
LEMMA RequestTypes ==
    ASSUME LifeTypeOK, NEW r \in Handlers
    PROVE  /\ handlers[r] \in RequestStates
           /\ handlers[r].at = "CANCEL" =>
                /\ handlers[r].session \in Sessions
                /\ handlers[r].cancellation \in Cancellations
           /\ handlers[r].at \in HandlerCalls => handlers[r].session \in Sessions
BY DEF LifeTypeOK, RequestStates, HandlerCalls, Served

LEMMA HandlersTyped ==
    ASSUME LifeTypeOK, NEW r \in Handlers, NEW s \in RequestStates,
           handlers' = [handlers EXCEPT ![r] = s]
    PROVE  handlers' \in [Handlers -> RequestStates]
BY DEF LifeTypeOK

\* The states a step gives a request are states of a request.
LEMMA ServingTyped ==
    /\ Served \in RequestStates
    /\ \A call \in HandlerCalls, b \in Sessions : Serving(call, b) \in RequestStates
    /\ \A b \in Sessions, id \in CancelIds, n \in Revisions :
          CancelCall(b, id, n) \in RequestStates
BY DEF RequestStates, Served, Serving, CancelCall, Cancellations, HandlerCalls

-------------------------------------------------------------------------------
(***************************************************************************)
(* The rows that back what a request or an object holds.                   *)
(***************************************************************************)

\* The calls a handler makes once it has written or found the session's row.
RowCalls ==
    {"INITIALIZE", "INITIALIZE_WORKFLOW", "CLAIM", "READ_JOB", "MOVE_JOB", "CANCEL"}

\* Before the session's row is written the job's is as it was created, after
\* that it has moved on.
JobMovesWithRows ==
    IF rows = {} THEN job.version = 1 /\ job.state = "QUEUED" ELSE job.version >= 2

RowsNameJob == \A b \in rows : job.session = b

RequestsNameRows ==
    \A r \in Handlers : handlers[r].at \in RowCalls => handlers[r].session \in rows

CoordinatorsNameRows ==
    \A b \in Sessions :
        \/ coordinator[b].initialized
        \/ coordinator[b].revision # NoRevision
        \/ coordinator[b].cancellations # {}
        => b \in rows

RowsInv ==
    LifeTypeOK /\ JobMovesWithRows /\ RowsNameJob /\ RequestsNameRows /\ CoordinatorsNameRows

LEMMA RowsInit == LifeInit => RowsInv
BY SessionLifeAssumption
   DEF LifeInit, RowsInv, LifeTypeOK, RequestStates, Served, Coordinators, JobStates, RowCalls,
       JobMovesWithRows, RowsNameJob, RequestsNameRows, CoordinatorsNameRows

\* A request that moves to another call, or ends, keeps RequestsNameRows as
\* long as the call it moves to is backed by a row.
LEMMA RequestMoves ==
    ASSUME LifeTypeOK, RequestsNameRows, NEW r \in Handlers, NEW s \in RequestStates,
           handlers' = [handlers EXCEPT ![r] = s],
           rows \subseteq rows',
           s.at \in RowCalls => s.session \in rows'
    PROVE  handlers' \in [Handlers -> RequestStates] /\ RequestsNameRows'
BY DEF LifeTypeOK, RequestsNameRows

\* Serving and Idle as seen by RequestMoves.
LEMMA CallsSeen ==
    /\ Served.at \notin RowCalls
    /\ \A call, b : Serving(call, b).at = call /\ Serving(call, b).session = b
    /\ \A b, id, n : CancelCall(b, id, n).session = b
BY DEF Served, Serving, CancelCall, RowCalls

\* A step that changes one object, whose session has a row.
LEMMA ObjectMoves ==
    ASSUME LifeTypeOK, CoordinatorsNameRows, NEW b \in rows, NEW o \in Coordinators,
           coordinator' = [coordinator EXCEPT ![b] = o], rows \subseteq rows'
    PROVE  coordinator' \in [Sessions -> Coordinators] /\ CoordinatorsNameRows'
BY DEF LifeTypeOK, CoordinatorsNameRows

\* The ways a handler's step moves its request on.
LEMMA HandlerMoves ==
    ASSUME LifeTypeOK, RequestsNameRows, NEW r \in Handlers, rows' = rows,
           handlers[r].at \in HandlerCalls,
           NEW call \in HandlerCalls, Goes(r, call),
           call \in RowCalls => handlers[r].session \in rows
    PROVE  handlers' \in [Handlers -> RequestStates] /\ RequestsNameRows'
<1>1. PICK b \in Sessions : b = handlers[r].session
  BY RequestTypes
<1>2. Serving(call, b) \in RequestStates
  BY <1>1, ServingTyped
<1>3. handlers' = [handlers EXCEPT ![r] = Serving(call, b)]
  BY <1>1 DEF LifeTypeOK, Goes
<1>4. Serving(call, b).at \in RowCalls => Serving(call, b).session \in rows'
  BY <1>1, CallsSeen
<1> QED
  BY <1>2, <1>3, <1>4, RequestMoves

LEMMA EndMoves ==
    ASSUME LifeTypeOK, RequestsNameRows, NEW r \in Handlers, rows \subseteq rows', Ends(r)
    PROVE  handlers' \in [Handlers -> RequestStates] /\ RequestsNameRows'
BY ServingTyped, CallsSeen, RequestMoves DEF Ends

\* Steps that leave both stores alone.
LEMMA StoresKept ==
    ASSUME RowsInv, UNCHANGED <<d1, coordinator>>,
           handlers' \in [Handlers -> RequestStates], RequestsNameRows'
    PROVE  RowsInv'
BY DEF RowsInv, LifeTypeOK, d1, JobMovesWithRows, RowsNameJob, CoordinatorsNameRows

\* Steps that change one object.
LEMMA RowsKept ==
    ASSUME RowsInv, UNCHANGED d1, coordinator' \in [Sessions -> Coordinators],
           CoordinatorsNameRows',
           handlers' \in [Handlers -> RequestStates], RequestsNameRows'
    PROVE  RowsInv'
BY DEF RowsInv, LifeTypeOK, d1, JobMovesWithRows, RowsNameJob

\* What the handlers make of an object is an object.
LEMMA ObjectTypes ==
    ASSUME NEW o \in Coordinators
    PROVE  /\ [o EXCEPT !.initialized = TRUE] \in Coordinators
           /\ \A leased \in BOOLEAN : [o EXCEPT !.leased = leased] \in Coordinators
           /\ [o EXCEPT !.revision = IF @ = NoRevision THEN 2 ELSE @] \in Coordinators
           /\ \A c \in Cancellations :
                 [o EXCEPT !.leased = FALSE, !.revision = c.expected + 1,
                           !.cancellations = @ \cup {c}] \in Coordinators
<1>1. 2 \in Revisions /\ \A n \in Revisions : n + 1 \in Revisions
  BY DEF Revisions
<1>2. \A c \in Cancellations : c.expected \in Revisions
  BY DEF Cancellations
<1> QED
  BY <1>1, <1>2 DEF Coordinators

LEMMA CreationKeepsRows ==
    ASSUME RowsInv, NEW r \in Handlers,
           \/ \E b \in Sessions : CreateSession(r, b)
           \/ CreateRows(r) \/ Initialize(r) \/ InitializeJobWorkflow(r)
    PROVE  RowsInv'
<1>0. LifeTypeOK /\ RequestsNameRows /\ CoordinatorsNameRows
  BY DEF RowsInv
<1>1. ASSUME NEW b \in Sessions, CreateSession(r, b) PROVE RowsInv'
  <2>1. /\ handlers' = [handlers EXCEPT ![r] = Serving("CREATE_ROWS", b)]
        /\ UNCHANGED <<d1, coordinator>>
    BY <1>1 DEF CreateSession
  <2>2. Serving("CREATE_ROWS", b) \in RequestStates
    BY ServingTyped DEF HandlerCalls
  <2>3. Serving("CREATE_ROWS", b).at \notin RowCalls
    BY CallsSeen DEF RowCalls
  <2>4. rows \subseteq rows'
    BY <2>1 DEF d1
  <2>5. handlers' \in [Handlers -> RequestStates] /\ RequestsNameRows'
    BY <1>0, <2>1, <2>2, <2>3, <2>4, RequestMoves
  <2> QED
    BY <2>1, <2>5, StoresKept
<1>2. CASE CreateRows(r)
  <2>1. handlers[r].at \in HandlerCalls
    BY <1>2 DEF CreateRows, At, HandlerCalls
  <2>2. CASE RowsCollide
    <3>1. Ends(r) /\ UNCHANGED <<d1, coordinator>>
      BY <1>2, <2>2 DEF CreateRows, d1
    <3>2. rows \subseteq rows'
      BY <3>1 DEF d1
    <3> QED
      BY <1>0, <3>1, <3>2, EndMoves, StoresKept
  <2>3. CASE ~RowsCollide
    <3>1. PICK b \in Sessions : b = handlers[r].session
      BY <1>0, <2>1, RequestTypes
    <3>2. /\ rows = {} /\ rows' = {b}
          /\ jobEvents' = jobEvents \cup {2}
          /\ handlers' = [handlers EXCEPT ![r] = Serving("INITIALIZE", b)]
          /\ UNCHANGED <<deviceActive, coordinator>>
      BY <1>2, <2>3, <3>1 DEF CreateRows, RowsCollide, Goes
    <3>3. job' = [state |-> "WAITING_FOR_BROWSER", version |-> 2, session |-> b]
      BY <1>2, <2>3, <3>1, <3>2 DEF CreateRows, RowsInv, JobMovesWithRows
    <3>4. Serving("INITIALIZE", b) \in RequestStates
      BY ServingTyped DEF HandlerCalls
    <3>5. Serving("INITIALIZE", b).session \in rows' /\ rows \subseteq rows'
      BY <3>2, CallsSeen
    <3>6. handlers' \in [Handlers -> RequestStates] /\ RequestsNameRows'
      BY <1>0, <3>2, <3>4, <3>5, RequestMoves
    <3>7. JobMovesWithRows' /\ RowsNameJob'
      BY <3>2, <3>3 DEF JobMovesWithRows, RowsNameJob
    <3>8. CoordinatorsNameRows'
      BY <1>0, <3>2 DEF CoordinatorsNameRows
    <3>9. LifeTypeOK'
      BY <1>0, <3>2, <3>3, <3>6 DEF LifeTypeOK, JobStates
    <3> QED
      BY <3>6, <3>7, <3>8, <3>9 DEF RowsInv
  <2> QED
    BY <2>2, <2>3
<1>3. CASE Initialize(r)
  <2>1. handlers[r].at = "INITIALIZE" /\ Goes(r, "INITIALIZE_WORKFLOW") /\ UNCHANGED d1
    BY <1>3 DEF Initialize, At
  <2>2. handlers[r].session \in rows
    BY <1>0, <2>1 DEF RequestsNameRows, RowCalls
  <2>3. PICK b \in rows : b = handlers[r].session
    BY <2>2
  <2>4. b \in Sessions
    BY <1>0 DEF LifeTypeOK
  <2>5. PICK o \in Coordinators : o = [coordinator[b] EXCEPT !.initialized = TRUE]
    BY <1>0, <2>4, ObjectTypes DEF LifeTypeOK
  <2>6. coordinator' = [coordinator EXCEPT ![b] = o]
    BY <1>0, <1>3, <2>3, <2>4, <2>5 DEF Initialize, LifeTypeOK
  <2>7. rows' = rows
    BY <2>1 DEF d1
  <2>8. coordinator' \in [Sessions -> Coordinators] /\ CoordinatorsNameRows'
    BY <1>0, <2>6, <2>7, ObjectMoves
  <2>9. handlers' \in [Handlers -> RequestStates] /\ RequestsNameRows'
    BY <1>0, <2>1, <2>2, <2>7, HandlerMoves DEF HandlerCalls
  <2> QED
    BY <2>1, <2>8, <2>9, RowsKept
<1>4. CASE InitializeJobWorkflow(r)
  <2>1. handlers[r].at = "INITIALIZE_WORKFLOW" /\ Ends(r) /\ UNCHANGED d1
    BY <1>4 DEF InitializeJobWorkflow, At
  <2>2. PICK b \in rows : b = handlers[r].session
    BY <1>0, <2>1 DEF RequestsNameRows, RowCalls
  <2>3. b \in Sessions
    BY <1>0 DEF LifeTypeOK
  <2>4. PICK o \in Coordinators : o = [coordinator[b] EXCEPT !.revision =
                                         IF @ = NoRevision THEN 2 ELSE @]
    BY <1>0, <2>3, ObjectTypes DEF LifeTypeOK
  <2>5. coordinator' = [coordinator EXCEPT ![b] = o]
    BY <1>0, <1>4, <2>2, <2>3, <2>4 DEF InitializeJobWorkflow, LifeTypeOK
  <2>6. rows' = rows
    BY <2>1 DEF d1
  <2>7. coordinator' \in [Sessions -> Coordinators] /\ CoordinatorsNameRows'
    BY <1>0, <2>5, <2>6, ObjectMoves
  <2>8. handlers' \in [Handlers -> RequestStates] /\ RequestsNameRows'
    BY <1>0, <2>1, <2>6, EndMoves
  <2> QED
    BY <2>1, <2>7, <2>8, RowsKept
<1> QED
  BY <1>1, <1>2, <1>3, <1>4

JobRows ==
    [state : JobStates, version : Nat \ {0}, session : Sessions \cup {NoSession}]

\* A row whose state and version are set is a row.
LEMMA JobTypes ==
    ASSUME job \in JobRows, NEW s \in JobStates, NEW n \in Nat \ {0},
           job' = [job EXCEPT !.state = s, !.version = n]
    PROVE  /\ job' \in JobRows
           /\ job'.session = job.session
           /\ job'.version = n
           /\ job'.state = s
BY DEF JobRows

LEMMA OpeningKeepsRows ==
    ASSUME RowsInv, NEW r \in Handlers,
           \/ \E b \in Sessions : OpenSession(r, b)
           \/ FindSession(r) \/ ClaimLease(r) \/ ReadJob(r) \/ MoveJob(r)
    PROVE  RowsInv'
<1>0. LifeTypeOK /\ RequestsNameRows /\ CoordinatorsNameRows /\ rows \subseteq Sessions
  BY DEF RowsInv, LifeTypeOK
<1>1. ASSUME NEW b \in Sessions, OpenSession(r, b) PROVE RowsInv'
  <2>1. /\ handlers' = [handlers EXCEPT ![r] = Serving("FIND_SESSION", b)]
        /\ UNCHANGED <<d1, coordinator>>
    BY <1>1 DEF OpenSession
  <2>2. Serving("FIND_SESSION", b) \in RequestStates
    BY ServingTyped DEF HandlerCalls
  <2>3. Serving("FIND_SESSION", b).at \notin RowCalls
    BY CallsSeen DEF RowCalls
  <2>4. rows \subseteq rows'
    BY <2>1 DEF d1
  <2>5. handlers' \in [Handlers -> RequestStates] /\ RequestsNameRows'
    BY <1>0, <2>1, <2>2, <2>3, <2>4, RequestMoves
  <2> QED
    BY <2>1, <2>5, StoresKept
<1>2. CASE FindSession(r)
  <2>1. UNCHANGED <<d1, coordinator>> /\ rows' = rows
    BY <1>2 DEF FindSession, d1
  <2>2. CASE handlers[r].session \in rows
    <3>1. handlers[r].at \in HandlerCalls /\ Goes(r, "CLAIM")
      BY <1>2, <2>2 DEF FindSession, At, HandlerCalls
    <3>2. handlers' \in [Handlers -> RequestStates] /\ RequestsNameRows'
      BY <1>0, <2>1, <2>2, <3>1, HandlerMoves DEF HandlerCalls
    <3> QED
      BY <2>1, <3>2, StoresKept
  <2>3. CASE handlers[r].session \notin rows
    <3>1. Ends(r)
      BY <1>2, <2>3 DEF FindSession
    <3> QED
      BY <1>0, <2>1, <3>1, EndMoves, StoresKept
  <2> QED
    BY <2>2, <2>3
<1>3. CASE ClaimLease(r)
  <2>1. /\ UNCHANGED d1 /\ rows' = rows
        /\ handlers[r].at \in HandlerCalls
        /\ handlers[r].session \in rows
    BY <1>0, <1>3 DEF ClaimLease, At, d1, HandlerCalls, RequestsNameRows, RowCalls
  <2>2. PICK b \in rows : b = handlers[r].session
    BY <2>1
  <2>3. CASE coordinator[b].initialized /\ ~coordinator[b].leased
    <3>1. Goes(r, "READ_JOB")
      BY <1>3, <2>2, <2>3 DEF ClaimLease
    <3>2. PICK o \in Coordinators : o = [coordinator[b] EXCEPT !.leased = TRUE]
      BY <1>0, ObjectTypes DEF LifeTypeOK
    <3>3. coordinator' = [coordinator EXCEPT ![b] = o]
      BY <1>0, <1>3, <2>2, <2>3, <3>2 DEF ClaimLease, LifeTypeOK
    <3>4. coordinator' \in [Sessions -> Coordinators] /\ CoordinatorsNameRows'
      BY <1>0, <2>1, <3>3, ObjectMoves
    <3>5. handlers' \in [Handlers -> RequestStates] /\ RequestsNameRows'
      BY <1>0, <2>1, <3>1, HandlerMoves DEF HandlerCalls
    <3> QED
      BY <2>1, <3>4, <3>5, RowsKept
  <2>4. CASE ~(coordinator[b].initialized /\ ~coordinator[b].leased)
    <3>1. Ends(r) /\ UNCHANGED <<d1, coordinator>>
      BY <1>3, <2>2, <2>4 DEF ClaimLease, d1
    <3> QED
      BY <1>0, <2>1, <3>1, EndMoves, StoresKept
  <2> QED
    BY <2>3, <2>4
<1>4. CASE ReadJob(r)
  <2>1. /\ UNCHANGED <<d1, coordinator>> /\ rows' = rows
        /\ handlers[r].at \in HandlerCalls
        /\ handlers[r].session \in rows
    BY <1>0, <1>4 DEF ReadJob, At, d1, HandlerCalls, RequestsNameRows, RowCalls
  <2>2. Goes(r, "MOVE_JOB") \/ Ends(r)
    BY <1>4 DEF ReadJob
  <2>3. handlers' \in [Handlers -> RequestStates] /\ RequestsNameRows'
    BY <1>0, <2>1, <2>2, HandlerMoves, EndMoves DEF HandlerCalls
  <2> QED
    BY <2>1, <2>3, StoresKept
<1>5. CASE MoveJob(r)
  <2>1. /\ UNCHANGED <<rows, deviceActive, coordinator>> /\ Ends(r)
        /\ handlers[r].session \in rows
    BY <1>0, <1>5 DEF MoveJob, At, RequestsNameRows, RowCalls
  <2>2. handlers' \in [Handlers -> RequestStates] /\ RequestsNameRows'
    BY <1>0, <2>1, EndMoves
  <2>3. jobEvents' \subseteq 1 .. 3
    BY <1>0, <1>5 DEF MoveJob, LifeTypeOK
  <2>4. \/ job' = job
        \/ job' = [job EXCEPT !.state = "RUNNING_AGENT", !.version = 3]
    BY <1>5 DEF MoveJob
  <2>5. /\ job' \in JobRows
        /\ job'.session = job.session
        /\ job'.version = job.version \/ job'.version = 3
    <3>1. job \in JobRows
      BY <1>0 DEF LifeTypeOK, JobRows
    <3>2. "RUNNING_AGENT" \in JobStates /\ 3 \in Nat \ {0}
      BY DEF JobStates
    <3>3. CASE job' = job
      BY <3>1, <3>3
    <3>4. CASE job' = [job EXCEPT !.state = "RUNNING_AGENT", !.version = 3]
      BY <3>1, <3>2, <3>4, JobTypes
    <3> QED
      BY <2>4, <3>3, <3>4
  <2>6. LifeTypeOK'
    BY <1>0, <2>1, <2>2, <2>3, <2>5 DEF LifeTypeOK, JobRows
  <2>7. JobMovesWithRows' /\ RowsNameJob'
    BY <2>1, <2>5 DEF RowsInv, JobMovesWithRows, RowsNameJob
  <2>8. CoordinatorsNameRows'
    BY <1>0, <2>1 DEF CoordinatorsNameRows
  <2> QED
    BY <2>2, <2>6, <2>7, <2>8 DEF RowsInv
<1> QED
  BY <1>1, <1>2, <1>3, <1>4, <1>5

LEMMA CancellationKeepsRows ==
    ASSUME RowsInv,
           \/ \E r \in Handlers, b \in Sessions, id \in CancelIds :
                 RequestCancel(r, b, id)
           \/ \E r \in Handlers : Cancel(r)
           \/ \E b \in Sessions : \E c \in coordinator[b].cancellations :
                 ProjectCancellation(b, c)
    PROVE  RowsInv'
<1>0. LifeTypeOK /\ RequestsNameRows /\ CoordinatorsNameRows /\ rows \subseteq Sessions
  BY DEF RowsInv, LifeTypeOK
<1>1. ASSUME NEW r \in Handlers, NEW b \in Sessions, NEW id \in CancelIds,
             RequestCancel(r, b, id)
      PROVE  RowsInv'
  <2>1. job.version \in Revisions /\ rows' = rows /\ b \in rows
    BY <1>1 DEF RequestCancel, d1, RowsInv, JobMovesWithRows, LifeTypeOK, Revisions
  <2>2. PICK n \in Revisions : n = job.version
    BY <2>1
  <2>3. /\ handlers' = [handlers EXCEPT ![r] = CancelCall(b, id, n)]
        /\ UNCHANGED <<d1, coordinator>>
    BY <1>1, <2>2 DEF RequestCancel
  <2>4. CancelCall(b, id, n) \in RequestStates /\ CancelCall(b, id, n).session \in rows'
    BY <2>1, ServingTyped, CallsSeen
  <2>5. handlers' \in [Handlers -> RequestStates] /\ RequestsNameRows'
    BY <1>0, <2>1, <2>3, <2>4, RequestMoves
  <2> QED
    BY <2>3, <2>5, StoresKept
<1>2. ASSUME NEW r \in Handlers, Cancel(r) PROVE RowsInv'
  <2>1. /\ handlers[r].at = "CANCEL" /\ Ends(r) /\ UNCHANGED d1 /\ rows' = rows
        /\ handlers[r].session \in rows
    BY <1>0, <1>2 DEF Cancel, At, d1, RequestsNameRows, RowCalls
  <2>2. PICK b \in rows, c \in Cancellations :
          b = handlers[r].session /\ c = handlers[r].cancellation
    BY <1>0, <2>1, RequestTypes
  <2>3. handlers' \in [Handlers -> RequestStates] /\ RequestsNameRows'
    BY <1>0, <2>1, EndMoves
  <2>4. CASE coordinator' = coordinator
    BY <2>1, <2>3, <2>4, StoresKept
  <2>5. CASE coordinator' # coordinator
    <3>1. PICK o \in Coordinators :
            o = [coordinator[b] EXCEPT !.leased = FALSE, !.revision = c.expected + 1,
                                       !.cancellations = @ \cup {c}]
      BY <1>0, ObjectTypes DEF LifeTypeOK
    <3>2. coordinator' = [coordinator EXCEPT ![b] = o]
      BY <1>0, <1>2, <2>2, <2>5, <3>1 DEF Cancel, LifeTypeOK
    <3>3. coordinator' \in [Sessions -> Coordinators] /\ CoordinatorsNameRows'
      BY <1>0, <2>1, <3>2, ObjectMoves
    <3> QED
      BY <2>1, <2>3, <3>3, RowsKept
  <2> QED
    BY <2>4, <2>5
<1>3. ASSUME NEW b \in Sessions, NEW c \in coordinator[b].cancellations,
             ProjectCancellation(b, c)
      PROVE  RowsInv'
  <2>1. /\ UNCHANGED <<jobEvents, rows, deviceActive, coordinator, handlers>>
        /\ job' = [job EXCEPT !.state = "CANCELED", !.version = c.expected + 1]
    BY <1>3 DEF ProjectCancellation
  <2>2. c \in Cancellations
    BY <1>0 DEF LifeTypeOK, Coordinators
  <2>3. /\ job \in JobRows /\ "CANCELED" \in JobStates
        /\ c.expected + 1 \in Nat \ {0} /\ c.expected + 1 >= 2
    BY <1>0, <2>2 DEF LifeTypeOK, JobRows, JobStates, Cancellations, Revisions
  <2>4. job' \in JobRows /\ job'.session = job.session /\ job'.version >= 2
    <3>1. PICK n \in Nat \ {0} : n = c.expected + 1 /\ n >= 2
      BY <2>3
    <3>2. job' = [job EXCEPT !.state = "CANCELED", !.version = n]
      BY <2>1, <3>1
    <3> QED
      BY <2>3, <3>1, <3>2, JobTypes
  <2>5. b \in rows
    BY <1>0 DEF CoordinatorsNameRows
  <2>6. LifeTypeOK'
    BY <1>0, <2>1, <2>4 DEF LifeTypeOK, JobRows
  <2>7. JobMovesWithRows' /\ RowsNameJob'
    BY <2>1, <2>4, <2>5 DEF RowsInv, JobMovesWithRows, RowsNameJob
  <2>8. RequestsNameRows' /\ CoordinatorsNameRows'
    BY <1>0, <2>1 DEF RequestsNameRows, CoordinatorsNameRows
  <2> QED
    BY <2>6, <2>7, <2>8 DEF RowsInv
<1> QED
  BY <1>1, <1>2, <1>3

LEMMA EnvironmentKeepsRows ==
    ASSUME RowsInv,
           \/ \E r \in Handlers : RequestStops(r)
           \/ \E b \in Sessions : LeaseEnds(b)
           \/ RevokeDevice
    PROVE  RowsInv'
<1>0. LifeTypeOK /\ RequestsNameRows /\ CoordinatorsNameRows
  BY DEF RowsInv
<1>1. ASSUME NEW r \in Handlers, RequestStops(r) PROVE RowsInv'
  <2>1. Ends(r) /\ UNCHANGED <<d1, coordinator>> /\ rows' = rows
    BY <1>1 DEF RequestStops, d1
  <2> QED
    BY <1>0, <2>1, EndMoves, StoresKept
<1>2. ASSUME NEW b \in Sessions, LeaseEnds(b) PROVE RowsInv'
  <2>1. UNCHANGED <<d1, handlers>>
    BY <1>2 DEF LeaseEnds
  <2>2. PICK o \in Coordinators : o = [coordinator[b] EXCEPT !.leased = FALSE]
    BY <1>0, ObjectTypes DEF LifeTypeOK
  <2>3. coordinator' = [coordinator EXCEPT ![b] = o]
    BY <1>0, <1>2, <2>2 DEF LeaseEnds, LifeTypeOK
  <2>4. coordinator' \in [Sessions -> Coordinators]
    BY <1>0, <2>3 DEF LifeTypeOK
  <2>5. CoordinatorsNameRows'
    BY <1>0, <2>1, <2>2, <2>3 DEF CoordinatorsNameRows, LifeTypeOK, Coordinators, d1
  <2>6. handlers' \in [Handlers -> RequestStates] /\ RequestsNameRows'
    BY <1>0, <2>1 DEF LifeTypeOK, RequestsNameRows, d1
  <2> QED
    BY <2>1, <2>4, <2>5, <2>6, RowsKept
<1>3. CASE RevokeDevice
  BY <1>0, <1>3 DEF RevokeDevice, RowsInv, LifeTypeOK, JobMovesWithRows, RowsNameJob,
                    RequestsNameRows, CoordinatorsNameRows
<1> QED
  BY <1>1, <1>2, <1>3

LEMMA RowsStep == RowsInv /\ [LifeNext]_lifeVars => RowsInv'
<1>1. ASSUME RowsInv, LifeNext PROVE RowsInv'
  BY <1>1, CreationKeepsRows, OpeningKeepsRows, CancellationKeepsRows,
     EnvironmentKeepsRows DEF LifeNext, RequestStep
<1>2. ASSUME RowsInv, UNCHANGED lifeVars PROVE RowsInv'
  BY <1>2 DEF lifeVars, RowsInv, LifeTypeOK, JobMovesWithRows, RowsNameJob,
              RequestsNameRows, CoordinatorsNameRows
<1> QED
  BY <1>1, <1>2

LEMMA RowsHold == LifeSpec => []RowsInv
BY RowsInit, RowsStep, PTL DEF LifeSpec

\* The rows and the objects keep their shape, and a cancellation is sent for a
\* revision a row can have (createOwnedBrowserSession, cancel).
THEOREM LifeTypeCorrect == LifeSpec => []LifeTypeOK
<1>1. RowsInv => LifeTypeOK
  BY DEF RowsInv
<1> QED
  BY <1>1, RowsHold, PTL

\* However many creations run for the job and wherever they stop, only the
\* object of the session its row names is initialized.
THEOREM OneCoordinator == LifeSpec => []OneCoordinatorPerJob
<1>1. RowsInv => OneCoordinatorPerJob
  BY DEF RowsInv, CoordinatorsNameRows, RowsNameJob, OneCoordinatorPerJob
<1> QED
  BY <1>1, RowsHold, PTL

-------------------------------------------------------------------------------
(***************************************************************************)
(* The job's row.                                                          *)
(***************************************************************************)

\* Every write of the row is a compare-and-set on its version.
LEMMA JobStep ==
    ASSUME RowsInv, [LifeNext]_lifeVars
    PROVE  \/ job' = job
           \/ /\ job'.version = job.version + 1
              /\ job.state = "CANCELED" => job'.state = "CANCELED"
<1>0. job \in JobRows
  BY DEF RowsInv, LifeTypeOK, JobRows
<1>1. ASSUME NEW r \in Handlers, CreateRows(r)
      PROVE  \/ job' = job
             \/ job'.version = job.version + 1 /\ job.state = "QUEUED"
  BY <1>1 DEF CreateRows
<1>2. ASSUME NEW r \in Handlers, MoveJob(r)
      PROVE  \/ job' = job
             \/ job'.version = job.version + 1 /\ job.state = "WAITING_FOR_BROWSER"
  <2>1. \/ job' = job
        \/ /\ job' = [job EXCEPT !.state = "RUNNING_AGENT", !.version = 3]
           /\ job.state = "WAITING_FOR_BROWSER" /\ job.version = 2
    BY <1>2 DEF MoveJob, AwaitsBrowser
  <2>2. "RUNNING_AGENT" \in JobStates /\ 3 \in Nat \ {0}
    BY DEF JobStates
  <2>3. CASE job' = [job EXCEPT !.state = "RUNNING_AGENT", !.version = 3]
    <3>1. job'.version = 3
      BY <1>0, <2>2, <2>3, JobTypes
    <3> QED
      BY <2>1, <3>1
  <2> QED
    BY <2>1, <2>3
<1>3. ASSUME NEW b \in Sessions, NEW c \in coordinator[b].cancellations,
             ProjectCancellation(b, c)
      PROVE  job'.version = job.version + 1 /\ job'.state = "CANCELED"
  BY <1>0, <1>3 DEF ProjectCancellation, JobRows
<1>4. \/ job' = job
      \/ \E r \in Handlers : CreateRows(r) \/ MoveJob(r)
      \/ \E b \in Sessions : \E c \in coordinator[b].cancellations :
            ProjectCancellation(b, c)
  BY DEF LifeNext, lifeVars, RequestStep, CreateSession, OpenSession, Initialize,
         InitializeJobWorkflow, FindSession, ClaimLease, ReadJob, RequestCancel, Cancel,
         RequestStops, LeaseEnds, RevokeDevice, d1
<1> QED
  BY <1>1, <1>2, <1>3, <1>4

\* A canceled job's row is never moved by a request that read it before.
THEOREM CanceledStays == LifeSpec => CanceledJobStays
<1>1. RowsInv /\ [LifeNext]_lifeVars => [job.state = "CANCELED" => job'.state = "CANCELED"]_lifeVars
  BY JobStep
<1> QED
  BY <1>1, RowsHold, PTL DEF LifeSpec, CanceledJobStays

\* The row of a job never changes without the next version.
THEOREM VersionsCount == LifeSpec => VersionCountsChanges
<1>1. RowsInv /\ [LifeNext]_lifeVars => [job' # job => job'.version = job.version + 1]_lifeVars
  BY JobStep
<1> QED
  BY <1>1, RowsHold, PTL DEF LifeSpec, VersionCountsChanges

-------------------------------------------------------------------------------
(***************************************************************************)
(* The revision a coordinator keeps of its job.                            *)
(***************************************************************************)

\* How a step moves what an object knows of its job.
ObjectStep(b) ==
    \/ /\ coordinator'[b].revision = coordinator[b].revision
       /\ coordinator'[b].cancellations = coordinator[b].cancellations
    \/ /\ coordinator[b].revision = NoRevision
       /\ coordinator'[b].revision = 2
       /\ coordinator'[b].cancellations = coordinator[b].cancellations
       /\ b \in rows /\ job' = job /\ rows' = rows
    \/ \E r \in Handlers :
         /\ handlers[r].at = "CANCEL" /\ handlers[r].session = b
         /\ coordinator[b].revision \in {NoRevision, handlers[r].cancellation.expected}
         /\ coordinator'[b].revision = handlers[r].cancellation.expected + 1
         /\ coordinator'[b].cancellations =
              coordinator[b].cancellations \cup {handlers[r].cancellation}
         /\ b \in rows /\ job' = job /\ rows' = rows

LEMMA ObjectSteps ==
    ASSUME RowsInv, [LifeNext]_lifeVars
    PROVE  \A b \in Sessions : ObjectStep(b)
<1>0. /\ coordinator \in [Sessions -> Coordinators]
      /\ \A b \in Sessions :
            coordinator[b] = [initialized   |-> coordinator[b].initialized,
                              leased        |-> coordinator[b].leased,
                              revision      |-> coordinator[b].revision,
                              cancellations |-> coordinator[b].cancellations]
  BY DEF RowsInv, LifeTypeOK, Coordinators
<1>1. ASSUME coordinator' = coordinator PROVE \A b \in Sessions : ObjectStep(b)
  BY <1>1 DEF ObjectStep
<1>2. ASSUME NEW r \in Handlers, Initialize(r) PROVE \A b \in Sessions : ObjectStep(b)
  BY <1>0, <1>2 DEF Initialize, ObjectStep
<1>3. ASSUME NEW r \in Handlers, ClaimLease(r) PROVE \A b \in Sessions : ObjectStep(b)
  BY <1>0, <1>3 DEF ClaimLease, ObjectStep
<1>4. ASSUME NEW d \in Sessions, LeaseEnds(d) PROVE \A b \in Sessions : ObjectStep(b)
  BY <1>0, <1>4 DEF LeaseEnds, ObjectStep
<1>5. ASSUME NEW r \in Handlers, InitializeJobWorkflow(r)
      PROVE  \A b \in Sessions : ObjectStep(b)
  <2>1. handlers[r].session \in rows /\ job' = job /\ rows' = rows
    BY <1>5 DEF InitializeJobWorkflow, At, RowsInv, RequestsNameRows, RowCalls, d1
  <2> QED
    BY <1>0, <1>5, <2>1 DEF InitializeJobWorkflow, ObjectStep
<1>6. ASSUME NEW r \in Handlers, Cancel(r) PROVE \A b \in Sessions : ObjectStep(b)
  <2>1. /\ handlers[r].at = "CANCEL"
        /\ handlers[r].session \in rows /\ job' = job /\ rows' = rows
    BY <1>6 DEF Cancel, At, RowsInv, RequestsNameRows, RowCalls, d1
  <2>2. CASE coordinator' = coordinator
    BY <1>1, <2>2
  <2>3. CASE coordinator' # coordinator
    <3>1. /\ coordinator[handlers[r].session].revision
                \in {NoRevision, handlers[r].cancellation.expected}
          /\ coordinator' =
               [coordinator EXCEPT
                  ![handlers[r].session].leased = FALSE,
                  ![handlers[r].session].revision = handlers[r].cancellation.expected + 1,
                  ![handlers[r].session].cancellations = @ \cup {handlers[r].cancellation}]
      BY <1>6, <2>3 DEF Cancel
    <3> DEFINE a == handlers[r].session
               expected == handlers[r].cancellation.expected
               held == coordinator[a]
    <3>3. /\ a \in rows => \A b \in Sessions : b # a => coordinator'[b] = coordinator[b]
          /\ a \in Sessions =>
               /\ coordinator'[a].revision = expected + 1
               /\ coordinator'[a].cancellations
                    = held.cancellations \cup {handlers[r].cancellation}
      BY <1>0, <3>1
    <3> QED
      BY <2>1, <3>1, <3>3 DEF ObjectStep
  <2> QED
    BY <2>2, <2>3
<1>7. \/ coordinator' = coordinator
      \/ \E r \in Handlers :
            Initialize(r) \/ ClaimLease(r) \/ InitializeJobWorkflow(r) \/ Cancel(r)
      \/ \E d \in Sessions : LeaseEnds(d)
  BY DEF LifeNext, lifeVars, RequestStep, CreateSession, OpenSession, CreateRows, FindSession,
         ReadJob, MoveJob, RequestCancel, RequestStops, ProjectCancellation, RevokeDevice
<1> QED
  BY <1>1, <1>2, <1>3, <1>4, <1>5, <1>6, <1>7

\* The object's revision is set once and then only grows, whatever creation or
\* cancellation comes late.
THEOREM RevisionGrows == LifeSpec => RevisionNeverBack
<1> DEFINE Grows ==
      \A b \in Sessions :
         coordinator[b].revision # NoRevision =>
            /\ coordinator'[b].revision # NoRevision
            /\ coordinator'[b].revision >= coordinator[b].revision
<1>1. ASSUME RowsInv, [LifeNext]_lifeVars PROVE Grows
  <2>1. SUFFICES ASSUME NEW b \in Sessions, coordinator[b].revision # NoRevision
                 PROVE  /\ coordinator'[b].revision # NoRevision
                        /\ coordinator'[b].revision >= coordinator[b].revision
    OBVIOUS
  <2>2. coordinator[b].revision \in Nat
    BY <1>1, <2>1 DEF RowsInv, LifeTypeOK, Coordinators, Revisions
  <2>3. ObjectStep(b)
    BY <1>1, ObjectSteps
  <2> QED
    BY <2>1, <2>2, <2>3, SessionLifeAssumption DEF ObjectStep
<1>2. RowsInv /\ [LifeNext]_lifeVars => [Grows]_lifeVars
  BY <1>1
<1> QED
  BY <1>2, RowsHold, PTL DEF LifeSpec, RevisionNeverBack

\* An accepted cancellation has moved the object past the revision it named.
CancellationsCounted ==
    \A b \in Sessions : \A c \in coordinator[b].cancellations :
        /\ coordinator[b].revision # NoRevision
        /\ c.expected < coordinator[b].revision

OneCancellationEach ==
    \A b \in Sessions : \A c, d \in coordinator[b].cancellations :
        c.expected = d.expected => c = d

LEMMA CancellationStep ==
    ASSUME RowsInv, CancellationsCounted, OneCancellationEach, [LifeNext]_lifeVars
    PROVE  CancellationsCounted' /\ OneCancellationEach'
<1>1. SUFFICES ASSUME NEW b \in Sessions
               PROVE  /\ \A c \in coordinator'[b].cancellations :
                           /\ coordinator'[b].revision # NoRevision
                           /\ c.expected < coordinator'[b].revision
                      /\ \A c, d \in coordinator'[b].cancellations :
                           c.expected = d.expected => c = d
  BY DEF CancellationsCounted, OneCancellationEach
<1>2. ObjectStep(b)
  BY ObjectSteps
<1> DEFINE past == coordinator[b].cancellations
<1>3. /\ coordinator[b].revision \in Revisions \cup {NoRevision}
      /\ past \subseteq Cancellations
      /\ Revisions \subseteq Nat
  BY DEF RowsInv, LifeTypeOK, Coordinators, Revisions
<1>4. /\ \A c \in past : /\ coordinator[b].revision # NoRevision
                         /\ c.expected < coordinator[b].revision
      /\ \A c, d \in past : c.expected = d.expected => c = d
  BY DEF CancellationsCounted, OneCancellationEach
<1>5. CASE /\ coordinator'[b].revision = coordinator[b].revision
           /\ coordinator'[b].cancellations = past
  BY <1>4, <1>5
<1>6. CASE coordinator[b].revision = NoRevision /\ coordinator'[b].cancellations = past
  BY <1>4, <1>6
<1>7. ASSUME NEW r \in Handlers, handlers[r].at = "CANCEL",
             coordinator[b].revision \in {NoRevision, handlers[r].cancellation.expected},
             coordinator'[b].revision = handlers[r].cancellation.expected + 1,
             coordinator'[b].cancellations = past \cup {handlers[r].cancellation}
      PROVE  /\ \A c \in coordinator'[b].cancellations :
                  /\ coordinator'[b].revision # NoRevision
                  /\ c.expected < coordinator'[b].revision
             /\ \A c, d \in coordinator'[b].cancellations :
                  c.expected = d.expected => c = d
  <2>1. PICK new \in Cancellations : new = handlers[r].cancellation
    BY <1>7, RequestTypes DEF RowsInv
  <2>2. new.expected \in Revisions
    BY DEF Cancellations
  <2>3. new.expected \in Nat /\ new.expected + 1 \in Nat
    BY <2>2 DEF Revisions
  <2>4. \A c \in past : c.expected \in Nat /\ c.expected < new.expected
    BY <1>3, <1>4, <1>7, <2>1 DEF Cancellations
  <2> HIDE DEF past
  <2> QED
    BY <1>4, <1>7, <2>1, <2>3, <2>4, SessionLifeAssumption
<1> QED
  BY <1>2, <1>5, <1>6, <1>7 DEF ObjectStep

\* Whatever identities clients cancel under, and however their requests repeat,
\* overlap or come late, a coordinator accepts one cancellation of a revision.
THEOREM RevisionCanceledOnce == LifeSpec => []OneCancellationEach
<1>1. LifeInit => CancellationsCounted /\ OneCancellationEach
  BY DEF LifeInit, CancellationsCounted, OneCancellationEach
<1>2. /\ RowsInv /\ CancellationsCounted /\ OneCancellationEach
      /\ [LifeNext]_lifeVars
      => CancellationsCounted' /\ OneCancellationEach'
  BY CancellationStep
<1> QED
  BY <1>1, <1>2, RowsHold, PTL DEF LifeSpec

-------------------------------------------------------------------------------
(***************************************************************************)
(* Types.                                                                  *)
(***************************************************************************)
\* The coordinator's tables, said without enumerating their domains.
TablesTyped ==
    /\ DOMAIN progress \subseteq Steps
    /\ progress = [s \in DOMAIN progress |-> progress[s]]
    /\ \A s \in DOMAIN progress : progress[s] \in EffectRows
    /\ DOMAIN accepted \subseteq ActionIds
    /\ accepted = [a \in DOMAIN accepted |-> accepted[a]]
    /\ \A a \in DOMAIN accepted : accepted[a] \in DOMAIN progress
    /\ receipted \subseteq EffectIds

CoordinatorTyped ==
    /\ progress \in UNION {[S -> EffectRows] : S \in SUBSET Steps}
    /\ accepted \in UNION {[A -> DOMAIN progress] : A \in SUBSET ActionIds}
    /\ receipted \subseteq EffectIds

LogTyped ==
    /\ log \in Seq(Events)
    /\ Len(log) <= MaxEvents

RequestsTyped ==
    /\ projectedSequence \in 0..Len(log)
    /\ eventRows \subseteq 1..Len(log)
    /\ requests \in [Requests ->
         [pc : {"IDLE", "PROJECT", "WRITTEN", "REBUILD", "CLEARED"},
          first : 0..Len(log) + 1, last : 0..Len(log)]]
    /\ rebuilds \in {"NONE", "TORN", "WHOLE"}
    /\ overlapped \in BOOLEAN

LEMMA TypeParts == TypeOK <=> CoordinatorTyped /\ LogTyped /\ RequestsTyped
BY DEF TypeOK, CoordinatorTyped, LogTyped, RequestsTyped

LEMMA TablesTypedEquivalent == CoordinatorTyped <=> TablesTyped
<1>1. CoordinatorTyped => TablesTyped
  BY DEF CoordinatorTyped, TablesTyped
<1>2. ASSUME TablesTyped PROVE CoordinatorTyped
  <2>1. /\ progress \in [DOMAIN progress -> EffectRows]
        /\ DOMAIN progress \in SUBSET Steps
    BY <1>2 DEF TablesTyped
  <2>2. /\ accepted \in [DOMAIN accepted -> DOMAIN progress]
        /\ DOMAIN accepted \in SUBSET ActionIds
    BY <1>2 DEF TablesTyped
  <2>3. receipted \subseteq EffectIds
    BY <1>2 DEF TablesTyped
  <2> QED
    BY <2>1, <2>2, <2>3 DEF CoordinatorTyped
<1> QED
  BY <1>1, <1>2

\* appendEventAt extends a typed log by a typed event.
LEMMA AppendTyped ==
    ASSUME LogTyped, NEW e \in Events, AppendEvent(e)
    PROVE  /\ LogTyped'
           /\ Len(log') = Len(log) + 1
BY EventsAssumption DEF LogTyped, AppendEvent

\* A longer log leaves the requests and the rows of D1 typed.
LEMMA LongerLog ==
    ASSUME RequestsTyped, Len(log) \in Nat, Len(log') = Len(log) + 1,
           UNCHANGED projectionVars
    PROVE  RequestsTyped'
<1>1. /\ 0..Len(log) \subseteq 0..Len(log')
      /\ 1..Len(log) \subseteq 1..Len(log')
      /\ 0..Len(log) + 1 \subseteq 0..Len(log') + 1
  OBVIOUS
<1>2. UNCHANGED <<projectedSequence, eventRows, requests, rebuilds, overlapped>>
  BY DEF projectionVars, d1Vars
<1> QED
  BY <1>1, <1>2 DEF RequestsTyped

\* The three steps of LogicalEffects keep its tables typed.
LEMMA BindTyped ==
    ASSUME TablesTyped, NEW step \in Steps, NEW effect \in EffectIds,
           Coordinator!Bind(step, effect)
    PROVE  TablesTyped' /\ step \in DOMAIN progress'
BY DEF TablesTyped, Coordinator!Bind, Coordinator!WithEntry,
       Coordinator!Unperformed, EffectRows

LEMMA AcceptTyped ==
    ASSUME TablesTyped, NEW action \in ActionIds, NEW step \in Steps,
           NEW effect \in EffectIds, NEW performs \in BOOLEAN,
           Coordinator!Accept(action, step, effect, performs)
    PROVE  TablesTyped' /\ step \in DOMAIN progress'
<1> DEFINE row == IF step \in DOMAIN progress THEN progress[step]
                  ELSE Coordinator!Unperformed(effect)
           entry == IF performs THEN [row EXCEPT !.canonical = action] ELSE row
<1>1. row \in EffectRows
  BY DEF TablesTyped, Coordinator!Unperformed, EffectRows
<1>2. entry \in EffectRows
  BY <1>1 DEF EffectRows
<1>3. /\ progress' = Coordinator!WithEntry(progress, step, entry)
      /\ accepted' = Coordinator!WithEntry(accepted, action, step)
      /\ receipted' = receipted
  BY DEF Coordinator!Accept
<1> HIDE DEF row, entry
<1>4. /\ DOMAIN progress' = DOMAIN progress \cup {step}
      /\ progress' = [s \in DOMAIN progress' |-> progress'[s]]
      /\ \A s \in DOMAIN progress' : progress'[s] \in EffectRows
  BY <1>2, <1>3 DEF TablesTyped, Coordinator!WithEntry
<1>5. /\ DOMAIN accepted' = DOMAIN accepted \cup {action}
      /\ accepted' = [a \in DOMAIN accepted' |-> accepted'[a]]
  BY <1>3, <1>4 DEF TablesTyped, Coordinator!WithEntry
<1>6. \A a \in DOMAIN accepted' : accepted'[a] \in DOMAIN progress'
  BY <1>3, <1>4 DEF TablesTyped, Coordinator!WithEntry
<1> QED
  BY <1>3, <1>4, <1>5, <1>6 DEF TablesTyped

LEMMA ReceiptTyped ==
    ASSUME TablesTyped, NEW action \in ActionIds, NEW step \in Steps,
           NEW effect \in EffectIds, Coordinator!Receipt(action, step, effect)
    PROVE  /\ TablesTyped'
           /\ accepted[action] \in Steps
           /\ progress[accepted[action]].effect \in EffectIds
<1> DEFINE own == accepted[action]
<1>1. own \in DOMAIN progress /\ own \in Steps
  BY DEF TablesTyped, Coordinator!Receipt
<1>2. progress[own].effect \in EffectIds
  BY <1>1 DEF TablesTyped, EffectRows
<1>3. /\ progress' = IF step \in DOMAIN progress THEN progress
                     ELSE Coordinator!WithEntry(progress, step,
                                             Coordinator!Unperformed(effect))
      /\ accepted' = accepted
      /\ receipted' \subseteq EffectIds
  BY <1>2 DEF Coordinator!Receipt, TablesTyped
<1>4. Coordinator!Unperformed(effect) \in EffectRows
  BY DEF Coordinator!Unperformed, EffectRows
<1>5. /\ DOMAIN progress' \subseteq Steps
      /\ DOMAIN progress \subseteq DOMAIN progress'
      /\ progress' = [s \in DOMAIN progress' |-> progress'[s]]
      /\ \A s \in DOMAIN progress' : progress'[s] \in EffectRows
  BY <1>3, <1>4 DEF TablesTyped, Coordinator!WithEntry
<1> QED
  BY <1>1, <1>2, <1>3, <1>5 DEF TablesTyped

-------------------------------------------------------------------------------
(***************************************************************************)
(* The type invariant, step by step.                                       *)
(***************************************************************************)
(***************************************************************************)
(* TypeOK alone is not inductive: that the rows written are events of the  *)
(* log needs every request under way to start at an event of the log.      *)
(***************************************************************************)
StartsAtEvent ==
    \A r \in Requests : requests[r].pc # "IDLE" => requests[r].first >= 1

TypeInv == TablesTyped /\ LogTyped /\ RequestsTyped /\ StartsAtEvent

LEMMA TypeInvTypesAll == TypeInv => TypeOK
BY TypeParts, TablesTypedEquivalent DEF TypeInv

\* A step of the coordinator whose event is typed.
LEMMA CoordinatorStepTyped ==
    ASSUME TypeInv, TablesTyped', NEW e \in Events, AppendEvent(e),
           UNCHANGED projectionVars
    PROVE  TypeInv'
<1>1. LogTyped' /\ Len(log') = Len(log) + 1
  BY AppendTyped DEF TypeInv
<1>2. Len(log) \in Nat
  BY DEF TypeInv, LogTyped
<1>3. RequestsTyped'
  BY <1>1, <1>2, LongerLog DEF TypeInv
<1>4. StartsAtEvent'
  BY DEF TypeInv, StartsAtEvent, projectionVars
<1> QED
  BY <1>1, <1>3, <1>4 DEF TypeInv

RequestRows ==
    [pc : {"IDLE", "PROJECT", "WRITTEN", "REBUILD", "CLEARED"},
     first : 0..Len(log) + 1, last : 0..Len(log)]

\* A step of one request leaves the coordinator alone.
LEMMA RequestStepTyped ==
    ASSUME TypeInv, NEW r \in Requests, NEW q \in RequestRows,
           q.pc # "IDLE" => q.first >= 1,
           requests' = [requests EXCEPT ![r] = q],
           UNCHANGED coordinatorVars,
           projectedSequence' \in 0..Len(log),
           eventRows' \subseteq 1..Len(log),
           rebuilds' \in {"NONE", "TORN", "WHOLE"},
           overlapped' \in BOOLEAN
    PROVE  TypeInv'
<1>1. UNCHANGED <<progress, accepted, receipted, log>>
  BY DEF coordinatorVars
<1>2. TablesTyped' /\ LogTyped'
  BY <1>1 DEF TypeInv, TablesTyped, LogTyped
<1>3. requests \in [Requests -> RequestRows]
  BY DEF TypeInv, RequestsTyped, RequestRows
<1>4. requests' \in [Requests -> RequestRows]
  BY <1>3
<1>5. RequestsTyped'
  BY <1>1, <1>4 DEF RequestsTyped, RequestRows
<1>6. StartsAtEvent'
  BY <1>3 DEF TypeInv, StartsAtEvent
<1> QED
  BY <1>2, <1>5, <1>6 DEF TypeInv

LEMMA TypeInit == Init => TypeInv
<1> SUFFICES ASSUME Init PROVE TypeInv
  OBVIOUS
<1>1. TablesTyped
  BY DEF Init, Coordinator!Init, TablesTyped
<1>2. LogTyped
  <2>1. [type |-> "OTHER"] \in Events
    BY DEF Events
  <2> QED
    BY <2>1, EventsAssumption DEF Init, LogTyped
<1>3. Len(log) = 1
  BY DEF Init
<1>4. Idle \in RequestRows
  BY <1>3 DEF Idle, RequestRows
<1>5. RequestsTyped
  <2>1. requests \in [Requests -> RequestRows]
    BY <1>4 DEF Init
  <2>2. /\ projectedSequence \in 0..Len(log)
        /\ eventRows \subseteq 1..Len(log)
        /\ rebuilds \in {"NONE", "TORN", "WHOLE"}
    BY <1>3 DEF Init
  <2>3. overlapped \in BOOLEAN
    BY DEF Init
  <2> QED
    BY <2>1, <2>2, <2>3 DEF RequestsTyped, RequestRows
<1>6. StartsAtEvent
  BY DEF Init, StartsAtEvent, Idle
<1> QED
  BY <1>1, <1>2, <1>5, <1>6 DEF TypeInv

\* The coordinator's transitions.
LEMMA CoordinatorTypeStep ==
    ASSUME TypeInv,
           \/ \E step \in Steps, effect \in EffectIds :
                \/ InitializeWorkflow(step, effect)
                \/ \E phase \in Phases : OwnerProgress(step, effect, phase)
                \/ \E action \in ActionIds :
                     \/ \E performs \in BOOLEAN :
                          AcceptCommand(action, step, effect, performs)
                     \/ \E phase \in {"ACCEPTED", "RECEIPTED"} :
                          RecordReceipt(action, step, effect, phase)
           \/ \E id \in CancellationIds : CancelAutomation(id)
           \/ OtherEvent
    PROVE  TypeInv' /\ UNCHANGED projectionVars
<1> DEFINE other == [type |-> "OTHER"]
<1>1. other \in Events
  BY DEF Events
<1>2. ASSUME NEW step \in Steps, NEW effect \in EffectIds,
             InitializeWorkflow(step, effect)
      PROVE  TypeInv' /\ UNCHANGED projectionVars
  <2>1. TablesTyped'
    BY <1>2, BindTyped DEF InitializeWorkflow, TypeInv
  <2> QED
    BY <1>1, <1>2, <2>1, CoordinatorStepTyped DEF InitializeWorkflow
<1>3. ASSUME NEW step \in Steps, NEW effect \in EffectIds, NEW phase \in Phases,
             OwnerProgress(step, effect, phase)
      PROVE  TypeInv' /\ UNCHANGED projectionVars
  <2>1. TablesTyped' /\ step \in DOMAIN progress'
    BY <1>3, BindTyped DEF OwnerProgress, TypeInv, TablesTyped
  <2> DEFINE e == [type |-> "WORKFLOW_OWNER_PROGRESS_RECORDED", step |-> step,
                   effect |-> effect, phase |-> phase]
  <2>2. e \in Events
    BY DEF Events
  <2> QED
    BY <1>3, <2>1, <2>2, CoordinatorStepTyped DEF OwnerProgress
<1>4. ASSUME NEW step \in Steps, NEW effect \in EffectIds,
             NEW action \in ActionIds, NEW performs \in BOOLEAN,
             AcceptCommand(action, step, effect, performs)
      PROVE  TypeInv' /\ UNCHANGED projectionVars
  <2>1. TablesTyped' /\ step \in DOMAIN progress'
    BY <1>4, AcceptTyped DEF AcceptCommand, TypeInv
  <2> DEFINE canonical == IF progress'[step].canonical = NoAction THEN action
                          ELSE progress'[step].canonical
             e == [type |-> "WORKFLOW_ACTION_ACCEPTED", action |-> action,
                   step |-> step, effect |-> effect, canonical |-> canonical]
  <2>2. canonical \in ActionIds
    BY <2>1 DEF TablesTyped, EffectRows
  <2>3. e \in Events
    BY <2>2 DEF Events
  <2> QED
    BY <1>4, <2>1, <2>3, CoordinatorStepTyped DEF AcceptCommand
<1>5. ASSUME NEW step \in Steps, NEW effect \in EffectIds,
             NEW action \in ActionIds, NEW phase \in {"ACCEPTED", "RECEIPTED"},
             RecordReceipt(action, step, effect, phase)
      PROVE  TypeInv' /\ UNCHANGED projectionVars
  <2>1. /\ TablesTyped'
        /\ accepted[action] \in Steps
        /\ progress[accepted[action]].effect \in EffectIds
    BY <1>5, ReceiptTyped DEF RecordReceipt, TypeInv
  <2> DEFINE e == [type |-> "WORKFLOW_CHECKPOINT_RECEIPTED", action |-> action,
                   step |-> accepted[action],
                   effect |-> progress[accepted[action]].effect,
                   next |-> step, nextEffect |-> effect, nextPhase |-> phase]
  <2>2. e \in Events
    BY <2>1 DEF Events
  <2> QED
    BY <1>5, <2>1, <2>2, CoordinatorStepTyped DEF RecordReceipt
<1>6. ASSUME NEW id \in CancellationIds, CancelAutomation(id)
      PROVE  TypeInv' /\ UNCHANGED projectionVars
  <2>1. [type |-> "AUTOMATION_CANCELED", id |-> id] \in Events
    BY DEF Events
  <2>2. TablesTyped'
    BY <1>6 DEF CancelAutomation, TypeInv, TablesTyped
  <2> QED
    BY <1>6, <2>1, <2>2, CoordinatorStepTyped DEF CancelAutomation
<1>7. ASSUME OtherEvent
      PROVE  TypeInv' /\ UNCHANGED projectionVars
  <2>1. TablesTyped'
    BY <1>7 DEF OtherEvent, TypeInv, TablesTyped
  <2> QED
    BY <1>1, <1>7, <2>1, CoordinatorStepTyped DEF OtherEvent
<1> QED
  BY <1>2, <1>3, <1>4, <1>5, <1>6, <1>7

\* The page that a batch writes next lies within the log.
LEMMA PageTyped ==
    ASSUME NEW first \in Nat, NEW end \in Nat
    PROVE  /\ Lesser(first + PageSize - 1, end) \in Nat
           /\ Lesser(first + PageSize - 1, end) <= end
BY PageAssumption DEF Lesser

\* What the invariant says of one request, for use in the steps below.
LEMMA RequestFacts ==
    ASSUME TypeInv, NEW r \in Requests
    PROVE  /\ Len(log) \in Nat
           /\ projectedSequence \in 0..Len(log)
           /\ eventRows \subseteq 1..Len(log)
           /\ rebuilds \in {"NONE", "TORN", "WHOLE"}
           /\ overlapped \in BOOLEAN
           /\ requests \in [Requests -> RequestRows]
           /\ requests[r] \in RequestRows
           /\ requests[r].first \in 0..Len(log) + 1
           /\ requests[r].last \in 0..Len(log)
           /\ requests[r].pc # "IDLE" => requests[r].first >= 1
           /\ Idle \in RequestRows
<1>1. Len(log) \in Nat
  BY DEF TypeInv, LogTyped
<1>2. requests \in [Requests -> RequestRows]
  BY DEF TypeInv, RequestsTyped, RequestRows
<1>3. requests[r] \in RequestRows
  BY <1>2
<1> QED
  BY <1>1, <1>2, <1>3
  DEF TypeInv, RequestsTyped, StartsAtEvent, RequestRows, Idle

LEMMA StartTyped ==
    ASSUME TypeInv, NEW r \in Requests, NEW pc \in {"PROJECT", "REBUILD"},
           NEW first \in 1..Len(log) + 1, NEW last \in 0..Len(log),
           Starts(r, pc, first, last)
    PROVE  TypeInv'
<1> DEFINE q == [pc |-> pc, first |-> first, last |-> last]
<1>1. /\ requests' = [requests EXCEPT ![r] = q]
      /\ overlapped' \in BOOLEAN
      /\ UNCHANGED <<coordinatorVars, projectedSequence, eventRows, rebuilds>>
  BY RequestFacts DEF Starts, d1Vars
<1>2. q \in RequestRows /\ q.first >= 1
  BY RequestFacts DEF RequestRows
<1> HIDE DEF q
<1> QED
  BY <1>1, <1>2, RequestFacts, RequestStepTyped

LEMMA RequestTypeStep ==
    ASSUME TypeInv, NEW r \in Requests,
           \/ StartProject(r) \/ WriteBatch(r) \/ MarkProjected(r)
           \/ StartRebuild(r) \/ ClearTables(r) \/ InsertPage(r)
           \/ Abandon(r)
    PROVE  TypeInv'
<1> DEFINE written == [requests[r] EXCEPT !.pc = "WRITTEN"]
           cleared == [requests[r] EXCEPT !.pc = "CLEARED"]
<1>1. /\ written \in RequestRows /\ written.first = requests[r].first
      /\ cleared \in RequestRows /\ cleared.first = requests[r].first
  BY RequestFacts DEF RequestRows
<1>2. requests[r].pc # "IDLE" => requests[r].first..requests[r].last
                                   \subseteq 1..Len(log)
  BY RequestFacts
<1>3. CASE StartProject(r)
  <2>1. FirstPending \in 1..Len(log) + 1
    BY RequestFacts DEF FirstPending
  <2>2. Lesser(FirstPending + PageSize - 1, Len(log)) \in 0..Len(log)
    BY <2>1, RequestFacts, PageTyped
  <2> QED
    BY <1>3, <2>1, <2>2, StartTyped DEF StartProject
<1>4. CASE WriteBatch(r)
  <2>1. /\ requests' = [requests EXCEPT ![r] = written]
        /\ eventRows' = eventRows \cup requests[r].first..requests[r].last
        /\ requests[r].pc = "PROJECT"
        /\ UNCHANGED <<coordinatorVars, projectedSequence, rebuilds, overlapped>>
    BY <1>4, RequestFacts DEF WriteBatch
  <2> HIDE DEF written, cleared
  <2> QED
    BY <1>1, <1>2, <2>1, RequestFacts, RequestStepTyped
<1>5. CASE MarkProjected(r)
  <2>1. /\ requests' = [requests EXCEPT ![r] = Idle]
        /\ projectedSequence' \in 0..Len(log)
        /\ Idle.pc = "IDLE"
        /\ UNCHANGED <<coordinatorVars, eventRows, rebuilds, overlapped>>
    BY <1>5, RequestFacts DEF MarkProjected, Acked, d1Vars, Idle
  <2> QED
    BY <2>1, RequestFacts, RequestStepTyped
<1>6. CASE StartRebuild(r)
  <2>1. 1 \in 1..Len(log) + 1 /\ Len(log) \in 0..Len(log)
    BY RequestFacts
  <2> QED
    BY <1>6, <2>1, StartTyped DEF StartRebuild
<1>7. CASE ClearTables(r)
  <2>1. /\ requests' = [requests EXCEPT ![r] = cleared]
        /\ eventRows' = {}
        /\ rebuilds' \in {"NONE", "TORN", "WHOLE"}
        /\ requests[r].pc = "REBUILD"
        /\ UNCHANGED <<coordinatorVars, projectedSequence, overlapped>>
    BY <1>7, RequestFacts DEF ClearTables
  <2> HIDE DEF written, cleared
  <2> QED
    BY <1>1, <2>1, RequestFacts, RequestStepTyped
<1>8. CASE InsertPage(r)
  <2> DEFINE last == Lesser(requests[r].first + PageSize - 1, requests[r].last)
             moved == [requests[r] EXCEPT !.first = last + 1]
  <2>0. requests[r].first \in Nat /\ requests[r].last \in Nat
    BY RequestFacts
  <2>1. last \in 0..Len(log)
    <3>1. last \in Nat /\ last <= requests[r].last
      BY <2>0, PageTyped
    <3> HIDE DEF last
    <3> QED
      BY <3>1, RequestFacts
  <2> HIDE DEF last
  <2>2. moved \in RequestRows /\ moved.first >= 1
    <3>1. last + 1 \in 0..Len(log) + 1 /\ last + 1 >= 1
      BY <2>1, RequestFacts
    <3> QED
      BY <3>1, RequestFacts DEF RequestRows
  <2>3. requests[r].first..last \subseteq 1..Len(log)
    BY <1>8, <2>1, RequestFacts DEF InsertPage
  <2>4. /\ \/ requests' = [requests EXCEPT ![r] = written]
           \/ requests' = [requests EXCEPT ![r] = moved]
        /\ eventRows' = eventRows \cup requests[r].first..last
        /\ rebuilds' \in {"NONE", "TORN", "WHOLE"}
        /\ requests[r].pc = "CLEARED"
        /\ UNCHANGED <<coordinatorVars, projectedSequence, overlapped>>
    BY <1>8, RequestFacts DEF InsertPage, last
  <2> HIDE DEF written, cleared, moved
  <2> QED
    BY <1>1, <2>2, <2>3, <2>4, RequestFacts, RequestStepTyped
<1>9. CASE Abandon(r)
  <2>1. /\ requests' = [requests EXCEPT ![r] = Idle]
        /\ Idle.pc = "IDLE"
        /\ UNCHANGED <<coordinatorVars, projectedSequence, eventRows, rebuilds,
                       overlapped>>
    BY <1>9 DEF Abandon, d1Vars, Idle
  <2> QED
    BY <2>1, RequestFacts, RequestStepTyped
<1> QED
  BY <1>3, <1>4, <1>5, <1>6, <1>7, <1>8, <1>9

\* The stored rows keep their shape, for any number of requests, any page
\* size and any length of the log.
THEOREM ProjectionTypeCorrect == Spec => []TypeOK
<1>1. TypeInv /\ [Next]_vars => TypeInv'
  <2> SUFFICES ASSUME TypeInv, [Next]_vars PROVE TypeInv'
    OBVIOUS
  <2>1. CASE UNCHANGED vars
    BY <2>1 DEF TypeInv, TablesTyped, LogTyped, RequestsTyped, StartsAtEvent,
                vars, coordinatorVars, d1Vars
  <2>2. CASE Next
    BY <2>2, CoordinatorTypeStep, RequestTypeStep DEF Next
  <2> QED
    BY <2>1, <2>2
<1> QED
  BY <1>1, TypeInit, TypeInvTypesAll, PTL DEF Spec

-------------------------------------------------------------------------------
(***************************************************************************)
(* No acknowledged event is missing.                                       *)
(*                                                                         *)
(* AckedEventsProjected is not inductive.  A request acknowledges events   *)
(* it wrote some steps before, and starts at an event whose predecessors   *)
(* were there when it started: both facts have to survive what the other   *)
(* requests do.  A rebuild, which deletes rows that are acknowledged, must *)
(* put back as many as were acknowledged when it began; that is so because *)
(* no other request, if it is alone, acknowledges any in between.          *)
(***************************************************************************)
PagesFollowRows ==
    Undisturbed => \A r \in Requests :
      /\ requests[r].pc = "PROJECT" => 1..requests[r].first - 1 \subseteq eventRows
      /\ requests[r].pc = "WRITTEN" => 1..requests[r].last \subseteq eventRows

RunsAlone ==
    ~overlapped => \A r, q \in Requests :
      requests[r].pc # "IDLE" /\ requests[q].pc # "IDLE" => r = q

RebuildsCover ==
    ~overlapped => \A r \in Requests :
      /\ requests[r].pc \in {"REBUILD", "CLEARED"} =>
           projectedSequence <= requests[r].last
      /\ requests[r].pc = "REBUILD" => requests[r].first = 1
      /\ requests[r].pc = "CLEARED" => 1..requests[r].first - 1 \subseteq eventRows

AckInv ==
    /\ AckedEventsProjected
    /\ PagesFollowRows
    /\ RunsAlone
    /\ RebuildsCover

LEMMA AckInit == Init => AckInv
BY DEF Init, Idle, AckInv, AckedEventsProjected, PagesFollowRows, RunsAlone,
       RebuildsCover

\* A step of the coordinator or a stutter.
LEMMA AckUntouched ==
    ASSUME AckInv, UNCHANGED projectionVars
    PROVE  AckInv'
BY DEF AckInv, AckedEventsProjected, PagesFollowRows, RunsAlone, RebuildsCover,
       Undisturbed, projectionVars, d1Vars

LEMMA AckAbandon ==
    ASSUME TypeInv, AckInv, NEW r \in Requests, Abandon(r)
    PROVE  AckInv'
<1>1. /\ requests'[r].pc = "IDLE"
      /\ \A s \in Requests : s # r => requests'[s] = requests[s]
      /\ UNCHANGED <<projectedSequence, eventRows, rebuilds, overlapped>>
  BY RequestFacts DEF Abandon, Idle, d1Vars
<1> QED
  BY <1>1 DEF AckInv, AckedEventsProjected, PagesFollowRows, RunsAlone,
              RebuildsCover, Undisturbed

LEMMA AckStart ==
    ASSUME TypeInv, AckInv, NEW r \in Requests,
           StartProject(r) \/ StartRebuild(r)
    PROVE  AckInv'
<1>1. /\ requests[r].pc = "IDLE"
      /\ \A s \in Requests : s # r => requests'[s] = requests[s]
      /\ \/ /\ requests'[r].pc = "PROJECT"
            /\ requests'[r].first = projectedSequence + 1
         \/ /\ requests'[r].pc = "REBUILD"
            /\ requests'[r].first = 1
            /\ requests'[r].last = Len(log)
      /\ UNCHANGED <<projectedSequence, eventRows, rebuilds>>
  BY RequestFacts
  DEF StartProject, StartRebuild, Starts, FirstPending, Idle, d1Vars
<1>2. ~overlapped' => ~overlapped
  BY DEF StartProject, StartRebuild, Starts
<1>3. ~overlapped' => \A s \in Requests : s # r => requests[s].pc = "IDLE"
  <2>1. ~overlapped' => \A s \in Requests \ {r} : requests[s] = Idle
    BY DEF StartProject, StartRebuild, Starts
  <2>2. Idle.pc = "IDLE"
    BY DEF Idle
  <2> QED
    BY <2>1, <2>2
<1>4. Undisturbed' => Undisturbed
  BY <1>1, <1>2 DEF Undisturbed
<1>5. projectedSequence \in Nat /\ projectedSequence <= Len(log)
  BY RequestFacts
<1>6. AckedEventsProjected' /\ PagesFollowRows'
  BY <1>1, <1>4, <1>5 DEF AckInv, AckedEventsProjected, PagesFollowRows
<1>7. RunsAlone'
  BY <1>1, <1>3 DEF RunsAlone
<1>8. RebuildsCover'
  BY <1>1, <1>3, <1>5 DEF RebuildsCover
<1> QED
  BY <1>6, <1>7, <1>8 DEF AckInv

LEMMA AckWrite ==
    ASSUME TypeInv, AckInv, NEW r \in Requests, WriteBatch(r)
    PROVE  AckInv'
<1>1. /\ requests[r].pc = "PROJECT" /\ requests'[r].pc = "WRITTEN"
      /\ requests'[r].last = requests[r].last
      /\ \A s \in Requests : s # r => requests'[s] = requests[s]
      /\ eventRows' = eventRows \cup requests[r].first..requests[r].last
      /\ UNCHANGED <<projectedSequence, rebuilds, overlapped>>
  BY RequestFacts DEF WriteBatch, RequestRows
<1>2. /\ requests[r].first \in Nat /\ requests[r].last \in Nat
      /\ 1..requests[r].last \subseteq
           (1..requests[r].first - 1) \cup requests[r].first..requests[r].last
  BY RequestFacts
<1>3. AckedEventsProjected' /\ PagesFollowRows'
  BY <1>1, <1>2
  DEF AckInv, AckedEventsProjected, PagesFollowRows, Undisturbed
<1>4. RunsAlone' /\ RebuildsCover'
  BY <1>1 DEF AckInv, RunsAlone, RebuildsCover
<1> QED
  BY <1>3, <1>4 DEF AckInv

LEMMA AckMark ==
    ASSUME TypeInv, AckInv, NEW r \in Requests, MarkProjected(r)
    PROVE  AckInv'
<1>1. /\ requests[r].pc = "WRITTEN" /\ requests'[r].pc = "IDLE"
      /\ \A s \in Requests : s # r => requests'[s] = requests[s]
      /\ projectedSequence' \in {projectedSequence, requests[r].last}
      /\ UNCHANGED <<eventRows, rebuilds, overlapped>>
  BY RequestFacts DEF MarkProjected, Acked, Idle, d1Vars
<1>2. AckedEventsProjected' /\ PagesFollowRows'
  BY <1>1 DEF AckInv, AckedEventsProjected, PagesFollowRows, Undisturbed
<1>3. RunsAlone' /\ RebuildsCover'
  BY <1>1 DEF AckInv, RunsAlone, RebuildsCover
<1> QED
  BY <1>2, <1>3 DEF AckInv

LEMMA AckClear ==
    ASSUME TypeInv, AckInv, NEW r \in Requests, ClearTables(r)
    PROVE  AckInv'
<1>1. /\ requests[r].pc = "REBUILD"
      /\ \A s \in Requests : s # r => requests'[s] = requests[s]
      /\ requests'[r].pc = "CLEARED"
      /\ requests'[r].first = requests[r].first
      /\ requests'[r].last = requests[r].last
      /\ rebuilds' = "TORN"
      /\ eventRows' = {}
      /\ UNCHANGED <<projectedSequence, overlapped>>
  BY RequestFacts DEF ClearTables, RequestRows
<1>2. ~overlapped => \A s \in Requests : s # r => requests'[s].pc = "IDLE"
  BY <1>1 DEF AckInv, RunsAlone
<1>3. projectedSequence \in Nat
  BY RequestFacts
<1>4. AckedEventsProjected' /\ PagesFollowRows'
  BY <1>1, <1>2, <1>3
  DEF AckInv, AckedEventsProjected, PagesFollowRows, RebuildsCover, Undisturbed
<1>5. RunsAlone'
  BY <1>1, <1>2 DEF RunsAlone
<1>6. RebuildsCover'
  <2>1. ~overlapped => 1..requests[r].first - 1 = {}
    BY <1>1 DEF AckInv, RebuildsCover
  <2> QED
    BY <1>1, <1>2, <2>1 DEF AckInv, RebuildsCover
<1> QED
  BY <1>4, <1>5, <1>6 DEF AckInv

LEMMA AckInsert ==
    ASSUME TypeInv, AckInv, NEW r \in Requests, InsertPage(r)
    PROVE  AckInv'
<1> DEFINE last == Lesser(requests[r].first + PageSize - 1, requests[r].last)
<1>1. /\ requests[r].pc = "CLEARED"
      /\ \A s \in Requests : s # r => requests'[s] = requests[s]
      /\ eventRows' = eventRows \cup requests[r].first..last
      /\ \/ /\ last = requests[r].last
            /\ requests'[r].pc = "WRITTEN"
            /\ requests'[r].last = requests[r].last
            /\ rebuilds' = "WHOLE"
         \/ /\ requests'[r].pc = "CLEARED"
            /\ requests'[r].first = last + 1
            /\ requests'[r].last = requests[r].last
            /\ rebuilds' = rebuilds
      /\ UNCHANGED <<projectedSequence, overlapped>>
  BY RequestFacts DEF InsertPage, RequestRows
<1>2. /\ requests[r].first \in Nat /\ requests[r].last \in Nat
      /\ last \in Nat
      /\ projectedSequence \in Nat
  <2>1. requests[r].first \in Nat /\ requests[r].last \in Nat
    BY RequestFacts
  <2>2. last \in Nat
    BY <2>1, PageTyped
  <2> HIDE DEF last
  <2> QED
    BY <2>1, <2>2, RequestFacts
<1> HIDE DEF last
<1>3. 1..last \subseteq (1..requests[r].first - 1) \cup requests[r].first..last
  BY <1>2
<1>4. ~overlapped => /\ 1..last \subseteq eventRows'
                     /\ projectedSequence <= requests[r].last
                     /\ \A s \in Requests : s # r => requests'[s].pc = "IDLE"
  BY <1>1, <1>3 DEF AckInv, RebuildsCover, RunsAlone
<1>5. AckedEventsProjected' /\ PagesFollowRows'
  <2>1. CASE last = requests[r].last /\ rebuilds' = "WHOLE"
    BY <1>1, <1>2, <1>4, <2>1
    DEF AckedEventsProjected, PagesFollowRows, Undisturbed
  <2>2. CASE rebuilds' = rebuilds /\ requests'[r].pc = "CLEARED"
    BY <1>1, <2>2
    DEF AckInv, AckedEventsProjected, PagesFollowRows, Undisturbed
  <2> QED
    BY <1>1, <2>1, <2>2
<1>6. RunsAlone'
  BY <1>1, <1>4 DEF RunsAlone
<1>7. RebuildsCover'
  <2>1. 1..(last + 1) - 1 = 1..last
    BY <1>2
  <2> QED
    BY <1>1, <1>4, <2>1 DEF RebuildsCover
<1> QED
  BY <1>5, <1>6, <1>7 DEF AckInv

\* Every event acknowledged to the coordinator is in D1, in spite of crashes
\* and of any number of interleaved projections.
THEOREM AcknowledgedIsProjected == Spec => []AckedEventsProjected
<1>1. TypeInv /\ AckInv /\ [Next]_vars => TypeInv' /\ AckInv'
  <2> SUFFICES ASSUME TypeInv, AckInv, [Next]_vars PROVE TypeInv' /\ AckInv'
    OBVIOUS
  <2>1. CASE UNCHANGED vars
    <3>1. TypeInv'
      BY <2>1 DEF TypeInv, TablesTyped, LogTyped, RequestsTyped, StartsAtEvent,
                  vars, coordinatorVars, d1Vars
    <3>2. UNCHANGED projectionVars
      BY <2>1 DEF vars, projectionVars
    <3> QED
      BY <3>1, <3>2, AckUntouched
  <2>2. ASSUME NEW r \in Requests,
               \/ StartProject(r) \/ WriteBatch(r) \/ MarkProjected(r)
               \/ StartRebuild(r) \/ ClearTables(r) \/ InsertPage(r)
               \/ Abandon(r)
        PROVE  TypeInv' /\ AckInv'
    BY <2>2, RequestTypeStep, AckStart, AckWrite, AckMark, AckClear, AckInsert,
       AckAbandon
  <2>3. CASE Next
    BY <2>2, <2>3, CoordinatorTypeStep, AckUntouched DEF Next
  <2> QED
    BY <2>1, <2>3
<1>2. AckInv => AckedEventsProjected
  BY DEF AckInv
<1> QED
  BY <1>1, <1>2, TypeInit, AckInit, PTL DEF Spec

-------------------------------------------------------------------------------
(***************************************************************************)
(* The tables converge.                                                    *)
(*                                                                         *)
(* A page that was written and not acknowledged is written again, after    *)
(* pages that followed it, perhaps, and in part.  Between two requests the *)
(* tables are then not what the log implies: what a row says is told by an *)
(* event of its step, though not always by the last one.  Tells(t, i, n):  *)
(* the first n events have been applied, each of them perhaps repeatedly,  *)
(* and nothing that the first i of them told has been undone since.  An    *)
(* event applied in its turn takes i one further, whether it was applied   *)
(* before or not; and where i and n are the log's length, the tables are   *)
(* what is expected of them.                                               *)
(***************************************************************************)
Accepts(n) == Of(n, {"WORKFLOW_ACTION_ACCEPTED"})

Commands(n, s) == {k \in About(n, s) : log[k].type = "WORKFLOW_ACTION_ACCEPTED"}

Checkpoints(n, s) == {k \in About(n, s) : log[k].type = "WORKFLOW_CHECKPOINT_RECEIPTED"}

OfAction(n, a) ==
    {k \in Of(n, {"WORKFLOW_ACTION_ACCEPTED", "WORKFLOW_CHECKPOINT_RECEIPTED"}) :
       log[k].action = a}

Effective(n) == Of(n, {"WORKFLOW_CHECKPOINT_RECEIPTED", "WORKFLOW_OWNER_PROGRESS_RECORDED"})

Told(n) == {s \in Steps : About(n, s) \cup Introducing(n, s) # {}}

First(k, S) == k \in S /\ \A j \in S : k <= j

\* An event of S that none of the first i events of S comes after.
Latest(k, S, i) == k \in S /\ \A j \in S : j <= i => j <= k

\* The row of a step but for its phase.
RowKnows(row, s, i, n) ==
    /\ row = [effect |-> progress[s].effect, canonical |-> row.canonical,
              phase |-> row.phase, receipt |-> row.receipt]
    /\ \/ Commands(n, s) = {} /\ row.canonical = NoAction
       \/ \E k : First(k, Commands(n, s)) /\ row.canonical = log[k].canonical
    /\ \/ Checkpoints(n, s) = {} /\ row.receipt = 0
       \/ Latest(row.receipt, Checkpoints(n, s), i)

PhaseKnown(phase, s, i, n) ==
    \/ About(n, s) = {} /\ \E k : First(k, Introducing(n, s)) /\ phase = log[k].nextPhase
    \/ \E k : Latest(k, About(n, s), i) /\ phase = PhaseTold(log[k])

RowTells(row, s, i, n) == RowKnows(row, s, i, n) /\ PhaseKnown(row.phase, s, i, n)

EffectsTell(effects, i, n) ==
    /\ DOMAIN effects = Told(n)
    /\ effects = [s \in DOMAIN effects |-> effects[s]]
    /\ \A s \in Told(n) : RowTells(effects[s], s, i, n)

ActionsTell(table, i, n) ==
    /\ DOMAIN table = {log[k].action : k \in Accepts(n)}
    /\ table = [a \in DOMAIN table |-> table[a]]
    /\ \A a \in DOMAIN table :
         \E k : Latest(k, OfAction(n, a), i) /\ table[a] = PhaseTold(log[k])

ActorTells(actor, n) ==
    \/ Effective(n) = {} /\ actor = NoActor
    \/ \E k \in Effective(n) :
         /\ \A j \in Effective(n) : j <= k
         /\ actor = [kind |-> IF log[k].type = "WORKFLOW_CHECKPOINT_RECEIPTED"
                              THEN "AGENT" ELSE "OWNER",
                     step |-> log[k].step, sequence |-> k]

Tells(t, i, n) ==
    /\ t = [actions |-> t.actions, effects |-> t.effects, actor |-> t.actor,
            receipts |-> t.receipts, cancellations |-> t.cancellations]
    /\ ActionsTell(t.actions, i, n)
    /\ EffectsTell(t.effects, i, n)
    /\ ActorTells(t.actor, n)
    /\ t.receipts = Of(n, {"WORKFLOW_CHECKPOINT_RECEIPTED"})
    /\ t.cancellations = {log[k].id : k \in Of(n, {"AUTOMATION_CANCELED"})}

(***************************************************************************)
(* What the log says, the coordinator holds.  A receipt has the acceptance *)
(* of its action before it, which was of the same step.                    *)
(***************************************************************************)
BoundTo(step, effect) == step \in DOMAIN progress /\ progress[step].effect = effect

EventTrue(k) ==
    /\ log[k].type = "WORKFLOW_ACTION_ACCEPTED" =>
         /\ BoundTo(log[k].step, log[k].effect)
         /\ log[k].action \in DOMAIN accepted
    /\ log[k].type = "WORKFLOW_OWNER_PROGRESS_RECORDED" => BoundTo(log[k].step, log[k].effect)
    /\ log[k].type = "WORKFLOW_CHECKPOINT_RECEIPTED" =>
         /\ BoundTo(log[k].step, log[k].effect) /\ BoundTo(log[k].next, log[k].nextEffect)
         /\ \E j \in 1..Len(log) :
              /\ j < k /\ log[j].type = "WORKFLOW_ACTION_ACCEPTED"
              /\ log[j].action = log[k].action /\ log[j].step = log[k].step

LogTrue ==
    /\ \A k \in 1..Len(log) : EventTrue(k)
    /\ \A a \in DOMAIN accepted :
         \E j \in 1..Len(log) :
           /\ log[j].type = "WORKFLOW_ACTION_ACCEPTED"
           /\ log[j].action = a /\ log[j].step = accepted[a]
    /\ \A j, k \in 1..Len(log) :
         log[j].type = "WORKFLOW_ACTION_ACCEPTED" /\ log[k].type = "WORKFLOW_ACTION_ACCEPTED"
           /\ log[j].action = log[k].action => j = k

\* What a coordinator's step leaves: the bindings, and the log but for its end.
Appends(e) ==
    /\ log' = Append(log, e)
    /\ DOMAIN progress \subseteq DOMAIN progress'
    /\ \A s \in DOMAIN progress : progress'[s].effect = progress[s].effect
    /\ DOMAIN accepted \subseteq DOMAIN accepted'
    /\ \A a \in DOMAIN accepted : accepted'[a] = accepted[a]

\* Where an append leaves the log true.
AppendsTrue(e) ==
    /\ Appends(e)
    /\ e.type = "WORKFLOW_ACTION_ACCEPTED" =>
         /\ BoundTo(e.step, e.effect)'
         /\ e.action \notin DOMAIN accepted
         /\ DOMAIN accepted' = DOMAIN accepted \cup {e.action}
         /\ accepted'[e.action] = e.step
    /\ e.type # "WORKFLOW_ACTION_ACCEPTED" => DOMAIN accepted' = DOMAIN accepted
    /\ e.type = "WORKFLOW_OWNER_PROGRESS_RECORDED" => BoundTo(e.step, e.effect)'
    /\ e.type = "WORKFLOW_CHECKPOINT_RECEIPTED" =>
         /\ BoundTo(e.step, e.effect)' /\ BoundTo(e.next, e.nextEffect)'
         /\ e.action \in DOMAIN accepted /\ accepted[e.action] = e.step

LEMMA LogStaysTrue ==
    ASSUME TypeInv, LogTrue, NEW e, AppendsTrue(e)
    PROVE  LogTrue'
<1>0. PICK L : L = Len(log)
  OBVIOUS
<1>1. /\ L \in Nat /\ Len(log') = L + 1 /\ log'[L + 1] = e
      /\ \A k \in 1..L : log'[k] = log[k]
  BY <1>0 DEF TypeInv, LogTyped, AppendsTrue, Appends
<1>2. \A s, x : BoundTo(s, x) => BoundTo(s, x)'
  BY DEF AppendsTrue, Appends, BoundTo
<1>3. ASSUME NEW k \in 1..L PROVE EventTrue(k)'
  <2>1. EventTrue(k) /\ log'[k] = log[k]
    BY <1>0, <1>1, <1>3 DEF LogTrue
  <2>2. \A j \in 1..Len(log) : j \in 1..Len(log') /\ log'[j] = log[j]
    BY <1>0, <1>1
  <2>3. DOMAIN accepted \subseteq DOMAIN accepted'
    BY DEF AppendsTrue, Appends
  <2> QED
    BY <1>2, <2>1, <2>2, <2>3 DEF EventTrue
<1>4. \A a \in DOMAIN accepted :
        \E j \in 1..L :
          /\ log[j].type = "WORKFLOW_ACTION_ACCEPTED"
          /\ log[j].action = a /\ log[j].step = accepted[a]
  BY <1>0 DEF LogTrue
<1>5. EventTrue(L + 1)'
  <2>1. CASE e.type = "WORKFLOW_CHECKPOINT_RECEIPTED"
    <3>1. PICK j \in 1..L : /\ log[j].type = "WORKFLOW_ACTION_ACCEPTED"
                            /\ log[j].action = e.action /\ log[j].step = e.step
      BY <1>4, <2>1 DEF AppendsTrue
    <3>2. j \in 1..Len(log') /\ j < L + 1 /\ log'[j] = log[j]
      BY <1>1
    <3> QED
      BY <1>1, <2>1, <3>1, <3>2 DEF EventTrue, AppendsTrue
  <2>2. CASE e.type # "WORKFLOW_CHECKPOINT_RECEIPTED"
    BY <1>1, <2>2 DEF EventTrue, AppendsTrue
  <2> QED
    BY <2>1, <2>2
<1>6. \A k \in 1..Len(log') : EventTrue(k)'
  <2>1. \A k \in 1..Len(log') : k \in 1..L \/ k = L + 1
    BY <1>1
  <2> QED
    BY <1>3, <1>5, <2>1
<1>7. ASSUME NEW a \in DOMAIN accepted'
      PROVE  \E j \in 1..Len(log') :
               /\ log'[j].type = "WORKFLOW_ACTION_ACCEPTED"
               /\ log'[j].action = a /\ log'[j].step = accepted'[a]
  <2>1. CASE a \in DOMAIN accepted
    <3>1. PICK j \in 1..L : /\ log[j].type = "WORKFLOW_ACTION_ACCEPTED"
                            /\ log[j].action = a /\ log[j].step = accepted[a]
      BY <1>4, <2>1
    <3>2. j \in 1..Len(log') /\ log'[j] = log[j] /\ accepted'[a] = accepted[a]
      BY <1>1, <2>1 DEF AppendsTrue, Appends
    <3> QED
      BY <3>1, <3>2
  <2>2. CASE a \notin DOMAIN accepted
    <3>1. /\ e.type = "WORKFLOW_ACTION_ACCEPTED" /\ a = e.action /\ accepted'[a] = e.step
      BY <2>2 DEF AppendsTrue
    <3>2. L + 1 \in 1..Len(log')
      BY <1>1
    <3> QED
      BY <1>1, <3>1, <3>2
  <2> QED
    BY <2>1, <2>2
<1>8. ASSUME NEW j \in 1..Len(log'), NEW k \in 1..Len(log'),
             log'[j].type = "WORKFLOW_ACTION_ACCEPTED",
             log'[k].type = "WORKFLOW_ACTION_ACCEPTED", log'[j].action = log'[k].action
      PROVE  j = k
  <2>1. \A h \in 1..L : log[h].type = "WORKFLOW_ACTION_ACCEPTED" =>
                          log[h].action \in DOMAIN accepted
    BY <1>0 DEF LogTrue, EventTrue
  <2>2. e.type = "WORKFLOW_ACTION_ACCEPTED" => e.action \notin DOMAIN accepted
    BY DEF AppendsTrue
  <2>3. CASE j \in 1..L /\ k \in 1..L
    BY <1>0, <1>1, <1>8, <2>3 DEF LogTrue
  <2>4. CASE j \in 1..L /\ k = L + 1
    BY <1>1, <1>8, <2>1, <2>2, <2>4
  <2>5. CASE j = L + 1 /\ k \in 1..L
    BY <1>1, <1>8, <2>1, <2>2, <2>5
  <2>6. CASE j = L + 1 /\ k = L + 1
    BY <2>6
  <2> QED
    BY <1>1, <2>3, <2>4, <2>5, <2>6
<1> QED
  BY <1>6, <1>7, <1>8 DEF LogTrue
-------------------------------------------------------------------------------
(***************************************************************************)
(* One more event.  m is the event applied, n how many were applied before *)
(* it and Reach(m, n) how many are after it.                               *)
(***************************************************************************)
Reach(m, n) == IF m <= n THEN n ELSE m

Grown(S, T, m, n) == S \subseteq 1..n /\ (T = S \/ (m = n + 1 /\ T = S \cup {m}))

\* What the ends of a set of events are once m is applied.
Follows(S, T, m) ==
    /\ \A k : First(k, S) => First(k, T)
    /\ S = {} /\ m \in T => First(m, T)
    /\ m \in T => Latest(m, T, m)
    /\ m \notin T => T = S
    /\ m \notin T => \A k : Latest(k, S, m - 1) => Latest(k, T, m)

LEMMA SetGrows ==
    ASSUME NEW S, NEW T, NEW m \in Nat \ {0}, NEW n \in Nat, m <= n + 1, Grown(S, T, m, n)
    PROVE  Follows(S, T, m)
<1>1. S \subseteq Nat /\ T \subseteq Nat
  <2>1. m \in Nat /\ 1..n \subseteq Nat
    OBVIOUS
  <2> QED
    BY <2>1 DEF Grown
<1>2. \A k : First(k, S) => First(k, T)
  BY <1>1 DEF Grown, First
<1>3. S = {} /\ m \in T => First(m, T)
  BY <1>1 DEF Grown, First
<1>4. m \in T => Latest(m, T, m)
  BY <1>1 DEF Latest
<1>5. m \notin T => T = S
  BY DEF Grown
<1>6. ASSUME m \notin T, NEW k, Latest(k, S, m - 1) PROVE Latest(k, T, m)
  <2>1. \A j \in T : j <= m => j <= m - 1
    BY <1>1, <1>6
  <2> QED
    BY <1>5, <1>6, <2>1 DEF Latest
<1> QED
  BY <1>2, <1>3, <1>4, <1>5, <1>6 DEF Follows

LEMMA OfGrows ==
    ASSUME NEW m \in Nat \ {0}, NEW n \in Nat, m <= n + 1, NEW types
    PROVE  /\ Grown(Of(n, types), Of(Reach(m, n), types), m, n)
           /\ m \in Of(Reach(m, n), types) <=> log[m].type \in types
<1>1. CASE m <= n
  BY <1>1 DEF Grown, Of, Reach
<1>2. CASE m = n + 1
  <2>1. 1..Reach(m, n) = 1..n \cup {m}
    BY <1>2 DEF Reach
  <2>2. Of(Reach(m, n), types) =
          Of(n, types) \cup (IF log[m].type \in types THEN {m} ELSE {})
    BY <2>1 DEF Of
  <2>3. Of(n, types) \subseteq 1..n
    BY DEF Of
  <2>4. m \notin Of(n, types)
    BY <1>2 DEF Of
  <2> HIDE DEF Of
  <2> QED
    BY <1>2, <2>2, <2>3, <2>4 DEF Grown
<1> QED
  BY <1>1, <1>2

LEMMA StepSetsGrow ==
    ASSUME NEW m \in Nat \ {0}, NEW n \in Nat, m <= n + 1, NEW s
    PROVE  /\ Grown(About(n, s), About(Reach(m, n), s), m, n)
           /\ m \in About(Reach(m, n), s) <=> log[m].type \in ProgressTypes /\ log[m].step = s
           /\ Grown(Introducing(n, s), Introducing(Reach(m, n), s), m, n)
           /\ m \in Introducing(Reach(m, n), s) <=>
                log[m].type = "WORKFLOW_CHECKPOINT_RECEIPTED" /\ log[m].next = s
           /\ Grown(Commands(n, s), Commands(Reach(m, n), s), m, n)
           /\ m \in Commands(Reach(m, n), s) <=>
                log[m].type = "WORKFLOW_ACTION_ACCEPTED" /\ log[m].step = s
           /\ Grown(Checkpoints(n, s), Checkpoints(Reach(m, n), s), m, n)
           /\ m \in Checkpoints(Reach(m, n), s) <=>
                log[m].type = "WORKFLOW_CHECKPOINT_RECEIPTED" /\ log[m].step = s
           /\ Commands(n, s) \subseteq About(n, s)
           /\ Checkpoints(n, s) \subseteq About(n, s)
<1> DEFINE N == Reach(m, n)
<1>1. /\ Grown(About(n, s), About(N, s), m, n)
      /\ m \in About(N, s) <=> log[m].type \in ProgressTypes /\ log[m].step = s
  <2>1. /\ Grown(Of(n, ProgressTypes), Of(N, ProgressTypes), m, n)
        /\ m \in Of(N, ProgressTypes) <=> log[m].type \in ProgressTypes
    BY OfGrows
  <2> HIDE DEF N
  <2>2. Of(n, ProgressTypes) \subseteq 1..n
    BY DEF Of
  <2> QED
    BY <2>1, <2>2 DEF Grown, About
<1>2. /\ Grown(Introducing(n, s), Introducing(N, s), m, n)
      /\ m \in Introducing(N, s) <=>
           log[m].type = "WORKFLOW_CHECKPOINT_RECEIPTED" /\ log[m].next = s
  <2> DEFINE T == {"WORKFLOW_CHECKPOINT_RECEIPTED"}
  <2>1. /\ Grown(Of(n, T), Of(N, T), m, n)
        /\ m \in Of(N, T) <=> log[m].type \in T
    BY OfGrows
  <2> HIDE DEF N
  <2>2. Of(n, T) \subseteq 1..n
    BY DEF Of
  <2> QED
    BY <2>1, <2>2 DEF Grown, Introducing
<1> HIDE DEF N
<1>3. /\ Grown(Commands(n, s), Commands(N, s), m, n)
      /\ m \in Commands(N, s) <=>
           log[m].type = "WORKFLOW_ACTION_ACCEPTED" /\ log[m].step = s
  BY <1>1 DEF Grown, Commands, ProgressTypes
<1>4. /\ Grown(Checkpoints(n, s), Checkpoints(N, s), m, n)
      /\ m \in Checkpoints(N, s) <=>
           log[m].type = "WORKFLOW_CHECKPOINT_RECEIPTED" /\ log[m].step = s
  BY <1>1 DEF Grown, Checkpoints, ProgressTypes
<1>5. /\ Commands(n, s) \subseteq About(n, s)
      /\ Checkpoints(n, s) \subseteq About(n, s)
  BY DEF Commands, Checkpoints
<1> QED
  BY <1>1, <1>2, <1>3, <1>4, <1>5 DEF N

LEMMA StepSetsFollow ==
    ASSUME NEW m \in Nat \ {0}, NEW n \in Nat, m <= n + 1, NEW s
    PROVE  /\ Follows(About(n, s), About(Reach(m, n), s), m)
           /\ Follows(Introducing(n, s), Introducing(Reach(m, n), s), m)
           /\ Follows(Commands(n, s), Commands(Reach(m, n), s), m)
           /\ Follows(Checkpoints(n, s), Checkpoints(Reach(m, n), s), m)
<1>1. /\ Grown(About(n, s), About(Reach(m, n), s), m, n)
      /\ Grown(Introducing(n, s), Introducing(Reach(m, n), s), m, n)
      /\ Grown(Commands(n, s), Commands(Reach(m, n), s), m, n)
      /\ Grown(Checkpoints(n, s), Checkpoints(Reach(m, n), s), m, n)
  BY StepSetsGrow
<1> QED
  BY <1>1, SetGrows

(***************************************************************************)
(* What an event does to one row.                                          *)
(***************************************************************************)
\* The row of a step that is not in the table yet.
LEMMA NewRowKnows ==
    ASSUME NEW s, NEW i, NEW n, About(n, s) = {}, NEW effect, NEW phase,
           progress[s].effect = effect
    PROVE  RowKnows(EffectRow(effect, NoAction, phase), s, i, n)
BY DEF RowKnows, EffectRow, Commands, Checkpoints

\* An event of another step.
LEMMA RowKept ==
    ASSUME NEW m \in Nat \ {0}, NEW n \in Nat, m <= n + 1, NEW s, NEW row,
           RowTells(row, s, m - 1, n),
           m \notin About(Reach(m, n), s)
    PROVE  RowTells(row, s, m, Reach(m, n))
<1> DEFINE N == Reach(m, n)
<1>1. /\ About(N, s) = About(n, s)
      /\ \A k : Latest(k, About(n, s), m - 1) => Latest(k, About(N, s), m)
      /\ \A k : First(k, Introducing(n, s)) => First(k, Introducing(N, s))
  BY StepSetsFollow DEF Follows
<1>2. Commands(N, s) = Commands(n, s) /\ Checkpoints(N, s) = Checkpoints(n, s)
  BY <1>1 DEF Commands, Checkpoints
<1>3. \A k : Latest(k, Checkpoints(n, s), m - 1) => Latest(k, Checkpoints(N, s), m)
  <2>1. m \notin Checkpoints(N, s)
    BY DEF Checkpoints
  <2> QED
    BY <2>1, StepSetsFollow DEF Follows
<1> HIDE DEF N
<1>4. RowKnows(row, s, m, N)
  BY <1>2, <1>3 DEF RowTells, RowKnows
<1>5. PhaseKnown(row.phase, s, m, N)
  BY <1>1 DEF RowTells, PhaseKnown
<1> QED
  BY <1>4, <1>5 DEF RowTells, N

\* The acceptance of a command of the step, or the owner's progress on it.
LEMMA RowMoves ==
    ASSUME NEW m \in Nat \ {0}, NEW n \in Nat, m <= n + 1, NEW s, NEW row, NEW next,
           RowKnows(row, s, m - 1, n),
           log[m].type \in {"WORKFLOW_ACTION_ACCEPTED", "WORKFLOW_OWNER_PROGRESS_RECORDED"},
           log[m].step = s,
           \A k \in Commands(n, s) : log[k].canonical # NoAction,
           next = [row EXCEPT !.phase = PhaseTold(log[m]),
                              !.canonical = IF /\ log[m].type = "WORKFLOW_ACTION_ACCEPTED"
                                               /\ row.canonical = NoAction
                                            THEN log[m].canonical ELSE row.canonical]
    PROVE  RowTells(next, s, m, Reach(m, n))
<1> DEFINE N == Reach(m, n)
<1>1. /\ m \in About(N, s) /\ m \notin Checkpoints(N, s)
      /\ m \in Commands(N, s) <=> log[m].type = "WORKFLOW_ACTION_ACCEPTED"
  BY StepSetsGrow DEF ProgressTypes
<1>2. /\ Latest(m, About(N, s), m)
      /\ Checkpoints(N, s) = Checkpoints(n, s)
      /\ \A k : Latest(k, Checkpoints(n, s), m - 1) => Latest(k, Checkpoints(N, s), m)
  BY <1>1, StepSetsFollow DEF Follows
<1>3. /\ \A k : First(k, Commands(n, s)) => First(k, Commands(N, s))
      /\ Commands(n, s) = {} /\ m \in Commands(N, s) => First(m, Commands(N, s))
      /\ m \notin Commands(N, s) => Commands(N, s) = Commands(n, s)
  BY StepSetsFollow DEF Follows
<1> HIDE DEF N
<1>4. /\ next = [effect |-> progress[s].effect, canonical |-> next.canonical,
                phase |-> next.phase, receipt |-> next.receipt]
      /\ next.phase = PhaseTold(log[m]) /\ next.receipt = row.receipt
      /\ next.canonical = IF /\ log[m].type = "WORKFLOW_ACTION_ACCEPTED"
                             /\ row.canonical = NoAction
                          THEN log[m].canonical ELSE row.canonical
  <2>1. PICK b, c, d : row = [effect |-> progress[s].effect, canonical |-> b,
                              phase |-> c, receipt |-> d]
    BY DEF RowKnows
  <2>2. next = [effect |-> progress[s].effect,
                canonical |-> IF log[m].type = "WORKFLOW_ACTION_ACCEPTED" /\ b = NoAction
                              THEN log[m].canonical ELSE b,
                phase |-> PhaseTold(log[m]), receipt |-> d]
    BY <2>1
  <2> QED
    BY <2>1, <2>2
<1>5. \/ Commands(N, s) = {} /\ next.canonical = NoAction
      \/ \E k : First(k, Commands(N, s)) /\ next.canonical = log[k].canonical
  <2>1. CASE Commands(n, s) = {} /\ row.canonical = NoAction
    BY <1>1, <1>3, <1>4, <2>1
  <2>2. CASE \E k : First(k, Commands(n, s)) /\ row.canonical = log[k].canonical
    <3>1. PICK k : First(k, Commands(n, s)) /\ row.canonical = log[k].canonical
      BY <2>2
    <3>2. row.canonical # NoAction
      BY <3>1 DEF First
    <3> QED
      BY <1>3, <1>4, <3>1, <3>2
  <2> QED
    BY <2>1, <2>2 DEF RowKnows
<1>6. \/ Checkpoints(N, s) = {} /\ next.receipt = 0
      \/ Latest(next.receipt, Checkpoints(N, s), m)
  BY <1>2, <1>4 DEF RowKnows
<1> QED
  BY <1>2, <1>4, <1>5, <1>6 DEF RowTells, RowKnows, PhaseKnown, N

\* A receipt of the step.
LEMMA RowReceipted ==
    ASSUME NEW m \in Nat \ {0}, NEW n \in Nat, m <= n + 1, NEW s, NEW row, NEW next,
           RowKnows(row, s, m - 1, n),
           log[m].type = "WORKFLOW_CHECKPOINT_RECEIPTED", log[m].step = s,
           next = [row EXCEPT !.phase = "RECEIPTED", !.receipt = m]
    PROVE  RowTells(next, s, m, Reach(m, n))
<1> DEFINE N == Reach(m, n)
<1>1. m \in About(N, s) /\ m \in Checkpoints(N, s) /\ m \notin Commands(N, s)
  BY StepSetsGrow DEF ProgressTypes
<1>2. /\ Latest(m, About(N, s), m) /\ Latest(m, Checkpoints(N, s), m)
      /\ Commands(N, s) = Commands(n, s)
  BY <1>1, StepSetsFollow DEF Follows
<1> HIDE DEF N
<1>3. /\ next = [effect |-> progress[s].effect, canonical |-> next.canonical,
                phase |-> next.phase, receipt |-> next.receipt]
      /\ next.phase = "RECEIPTED" /\ next.receipt = m /\ next.canonical = row.canonical
  <2>1. PICK b, c, d : row = [effect |-> progress[s].effect, canonical |-> b,
                              phase |-> c, receipt |-> d]
    BY DEF RowKnows
  <2>2. next = [effect |-> progress[s].effect, canonical |-> b,
                phase |-> "RECEIPTED", receipt |-> m]
    BY <2>1
  <2> QED
    BY <2>1, <2>2
<1>4. \/ Commands(N, s) = {} /\ next.canonical = NoAction
      \/ \E k : First(k, Commands(N, s)) /\ next.canonical = log[k].canonical
  BY <1>2, <1>3 DEF RowKnows
<1>5. next.phase = PhaseTold(log[m])
  BY <1>3 DEF PhaseTold
<1> QED
  BY <1>2, <1>3, <1>4, <1>5 DEF RowTells, RowKnows, PhaseKnown, N

\* The row that a checkpoint introduces.
LEMMA RowIntroduced ==
    ASSUME NEW m \in Nat \ {0}, NEW n \in Nat, m <= n + 1, NEW s,
           s \notin Told(n), s \in Steps,
           log[m].type = "WORKFLOW_CHECKPOINT_RECEIPTED", log[m].step # s, log[m].next = s,
           progress[s].effect = log[m].nextEffect
    PROVE  RowTells(EffectRow(log[m].nextEffect, NoAction, log[m].nextPhase),
                    s, m, Reach(m, n))
<1> DEFINE N == Reach(m, n)
<1>1. About(n, s) = {} /\ Introducing(n, s) = {}
  BY DEF Told
<1>2. m \notin About(N, s) /\ m \in Introducing(N, s)
  BY StepSetsGrow
<1>3. About(N, s) = {} /\ First(m, Introducing(N, s))
  BY <1>1, <1>2, StepSetsFollow DEF Follows
<1> HIDE DEF N
<1>4. RowKnows(EffectRow(log[m].nextEffect, NoAction, log[m].nextPhase), s, m, N)
  BY <1>3, NewRowKnows
<1>5. PhaseKnown(log[m].nextPhase, s, m, N)
  BY <1>3 DEF PhaseKnown
<1> QED
  BY <1>4, <1>5 DEF RowTells, EffectRow, N

(***************************************************************************)
(* What an event does to the tables.                                       *)
(***************************************************************************)
\* The fields of an event that the tables take over.
LEMMA EventFacts ==
    ASSUME TypeInv, LogTrue, NEW m \in 1..Len(log)
    PROVE  /\ Len(log) \in Nat /\ m \in Nat \ {0}
           /\ log[m].type \in {"OTHER", "WORKFLOW_ACTION_ACCEPTED",
                               "WORKFLOW_CHECKPOINT_RECEIPTED",
                               "WORKFLOW_OWNER_PROGRESS_RECORDED", "AUTOMATION_CANCELED"}
           /\ log[m].type \in ProgressTypes => log[m].step \in Steps
           /\ log[m].type \in ProgressTypes => BoundTo(log[m].step, log[m].effect)
           /\ log[m].type = "WORKFLOW_ACTION_ACCEPTED" => log[m].canonical # NoAction
           /\ log[m].type = "WORKFLOW_CHECKPOINT_RECEIPTED" =>
                /\ log[m].next \in Steps /\ BoundTo(log[m].next, log[m].nextEffect)
                /\ \E j \in 1..Len(log) :
                     /\ j < m /\ log[j].type = "WORKFLOW_ACTION_ACCEPTED"
                     /\ log[j].action = log[m].action /\ log[j].step = log[m].step
<1>1. Len(log) \in Nat /\ log[m] \in Events
  BY DEF TypeInv, LogTyped
<1>2. EventTrue(m)
  BY DEF LogTrue
<1>3. /\ log[m].type \in {"OTHER", "WORKFLOW_ACTION_ACCEPTED",
                          "WORKFLOW_CHECKPOINT_RECEIPTED",
                          "WORKFLOW_OWNER_PROGRESS_RECORDED", "AUTOMATION_CANCELED"}
      /\ log[m].type \in ProgressTypes => log[m].step \in Steps
      /\ log[m].type = "WORKFLOW_ACTION_ACCEPTED" => log[m].canonical \in ActionIds
      /\ log[m].type = "WORKFLOW_CHECKPOINT_RECEIPTED" => log[m].next \in Steps
  BY <1>1 DEF Events, ProgressTypes
<1> QED
  BY <1>1, <1>2, <1>3, NullAssumption DEF EventTrue, ProgressTypes

LEMMA ActionSetsGrow ==
    ASSUME NEW m \in Nat \ {0}, NEW n \in Nat, m <= n + 1, NEW a
    PROVE  /\ Grown(OfAction(n, a), OfAction(Reach(m, n), a), m, n)
           /\ m \in OfAction(Reach(m, n), a) <=>
                /\ log[m].type \in {"WORKFLOW_ACTION_ACCEPTED", "WORKFLOW_CHECKPOINT_RECEIPTED"}
                /\ log[m].action = a
           /\ Grown(Accepts(n), Accepts(Reach(m, n)), m, n)
           /\ m \in Accepts(Reach(m, n)) <=> log[m].type = "WORKFLOW_ACTION_ACCEPTED"
<1> DEFINE N == Reach(m, n)
           T == {"WORKFLOW_ACTION_ACCEPTED", "WORKFLOW_CHECKPOINT_RECEIPTED"}
<1>1. /\ Grown(Of(n, T), Of(N, T), m, n)
      /\ m \in Of(N, T) <=> log[m].type \in T
  BY OfGrows
<1>2. /\ Grown(Accepts(n), Accepts(N), m, n)
      /\ m \in Accepts(N) <=> log[m].type \in {"WORKFLOW_ACTION_ACCEPTED"}
  BY OfGrows DEF Accepts
<1>3. Of(n, T) \subseteq 1..n
  BY DEF Of
<1> HIDE DEF N
<1>4. /\ Grown(OfAction(n, a), OfAction(N, a), m, n)
      /\ m \in OfAction(N, a) <=> log[m].type \in T /\ log[m].action = a
  BY <1>1, <1>3 DEF Grown, OfAction
<1> QED
  BY <1>2, <1>4 DEF N

LEMMA ActionsStep ==
    ASSUME TypeInv, LogTrue, NEW m \in 1..Len(log), NEW n \in Nat, m <= n + 1,
           NEW table, ActionsTell(table, m - 1, n), NEW next,
           next = IF log[m].type \in {"WORKFLOW_ACTION_ACCEPTED",
                                      "WORKFLOW_CHECKPOINT_RECEIPTED"}
                  THEN WithEntry(table, log[m].action, PhaseTold(log[m])) ELSE table
    PROVE  ActionsTell(next, m, Reach(m, n))
<1> DEFINE N == Reach(m, n)
           told == log[m].type \in {"WORKFLOW_ACTION_ACCEPTED", "WORKFLOW_CHECKPOINT_RECEIPTED"}
<1>0. m \in Nat \ {0}
  BY EventFacts
<1>1. \A a : /\ m \in OfAction(N, a) <=> told /\ log[m].action = a
             /\ m \in OfAction(N, a) => Latest(m, OfAction(N, a), m)
             /\ m \notin OfAction(N, a) =>
                  \A k : Latest(k, OfAction(n, a), m - 1) => Latest(k, OfAction(N, a), m)
  <2> SUFFICES ASSUME NEW a
               PROVE  /\ m \in OfAction(N, a) <=> told /\ log[m].action = a
                      /\ m \in OfAction(N, a) => Latest(m, OfAction(N, a), m)
                      /\ m \notin OfAction(N, a) =>
                           \A k : Latest(k, OfAction(n, a), m - 1) => Latest(k, OfAction(N, a), m)
    OBVIOUS
  <2>1. /\ Grown(OfAction(n, a), OfAction(N, a), m, n)
        /\ m \in OfAction(N, a) <=> told /\ log[m].action = a
    BY <1>0, ActionSetsGrow
  <2>2. Follows(OfAction(n, a), OfAction(N, a), m)
    BY <1>0, <2>1, SetGrows
  <2> QED
    BY <2>1, <2>2 DEF Follows
<1>2. /\ Accepts(N) = Accepts(n) \cup (IF log[m].type = "WORKFLOW_ACTION_ACCEPTED" THEN {m}
                                       ELSE {})
  BY <1>0, ActionSetsGrow DEF Grown
<1>3. log[m].type = "WORKFLOW_CHECKPOINT_RECEIPTED" =>
        \E j \in Accepts(n) : log[j].action = log[m].action
  <2>1. ASSUME log[m].type = "WORKFLOW_CHECKPOINT_RECEIPTED"
        PROVE  \E j \in Accepts(n) : log[j].action = log[m].action
    <3>1. PICK j \in 1..Len(log) : /\ j < m /\ log[j].type = "WORKFLOW_ACTION_ACCEPTED"
                                   /\ log[j].action = log[m].action
      BY <2>1, EventFacts
    <3>2. j \in 1..n
      BY <1>0, <3>1
    <3> QED
      BY <3>1, <3>2 DEF Accepts, Of
  <2> QED
    BY <2>1
<1>4. /\ DOMAIN table = {log[k].action : k \in Accepts(n)}
      /\ table = [a \in DOMAIN table |-> table[a]]
  BY DEF ActionsTell
<1>5. /\ DOMAIN next = DOMAIN table \cup (IF told THEN {log[m].action} ELSE {})
      /\ next = [a \in DOMAIN next |-> next[a]]
      /\ told => next[log[m].action] = PhaseTold(log[m])
      /\ \A a \in DOMAIN table : (told => a # log[m].action) => next[a] = table[a]
  BY <1>4 DEF WithEntry, Coordinator!WithEntry
<1>6. DOMAIN next = {log[k].action : k \in Accepts(N)}
  <2>1. CASE log[m].type = "WORKFLOW_ACTION_ACCEPTED"
    <3>1. DOMAIN next = {log[k].action : k \in Accepts(n)} \cup {log[m].action}
      BY <1>4, <1>5, <2>1
    <3>2. Accepts(N) = Accepts(n) \cup {m}
      BY <1>2, <2>1
    <3> HIDE DEF N
    <3> QED
      BY <3>1, <3>2
  <2>2. CASE log[m].type = "WORKFLOW_CHECKPOINT_RECEIPTED"
    BY <1>2, <1>3, <1>4, <1>5, <2>2
  <2>3. CASE ~told
    BY <1>2, <1>4, <1>5, <2>3
  <2> QED
    BY <2>1, <2>2, <2>3
<1> HIDE DEF N
<1>7. ASSUME NEW a \in DOMAIN next
      PROVE  \E k : Latest(k, OfAction(N, a), m) /\ next[a] = PhaseTold(log[k])
  <2>1. CASE told /\ a = log[m].action
    BY <1>1, <1>5, <2>1
  <2>2. CASE ~(told /\ a = log[m].action)
    <3>1. a \in DOMAIN table /\ next[a] = table[a] /\ m \notin OfAction(N, a)
      BY <1>1, <1>5, <2>2
    <3>2. PICK k : Latest(k, OfAction(n, a), m - 1) /\ table[a] = PhaseTold(log[k])
      BY <3>1 DEF ActionsTell
    <3> QED
      BY <1>1, <3>1, <3>2
  <2> QED
    BY <2>1, <2>2
<1> QED
  BY <1>5, <1>6, <1>7 DEF ActionsTell, N

LEMMA ToldGrows ==
    ASSUME NEW m \in Nat \ {0}, NEW n \in Nat, m <= n + 1, NEW s \in Steps
    PROVE  s \in Told(Reach(m, n)) <=>
             \/ s \in Told(n)
             \/ log[m].type \in ProgressTypes /\ log[m].step = s
             \/ log[m].type = "WORKFLOW_CHECKPOINT_RECEIPTED" /\ log[m].next = s
BY StepSetsGrow DEF Told, Grown

\* The commands of a step name who performs it.
LEMMA CommandsNamePerformer ==
    ASSUME TypeInv, LogTrue, NEW n \in 0..Len(log), NEW s
    PROVE  \A k \in Commands(n, s) : log[k].canonical # NoAction
<1> SUFFICES ASSUME NEW k \in Commands(n, s) PROVE log[k].canonical # NoAction
  OBVIOUS
<1>1. k \in 1..n /\ log[k].type = "WORKFLOW_ACTION_ACCEPTED"
  BY DEF Commands, About, Of
<1>2. k \in 1..Len(log)
  BY <1>1 DEF TypeInv, LogTyped
<1> QED
  BY <1>1, <1>2, EventFacts

\* Rows of other steps, for each of the three kinds of event below.
LEMMA RowsKnown ==
    ASSUME NEW m \in Nat \ {0}, NEW n \in Nat, m <= n + 1,
           NEW effects, EffectsTell(effects, m - 1, n), NEW s \in Told(n),
           log[m].type \in ProgressTypes => log[m].step # s
    PROVE  RowTells(effects[s], s, m, Reach(m, n))
<1>1. m \notin About(Reach(m, n), s)
  BY StepSetsGrow
<1>2. RowTells(effects[s], s, m - 1, n)
  BY DEF EffectsTell
<1> QED
  BY <1>1, <1>2, RowKept

LEMMA EffectsAccepted ==
    ASSUME TypeInv, LogTrue, NEW m \in 1..Len(log), NEW n \in 0..Len(log), m <= n + 1,
           NEW effects, EffectsTell(effects, m - 1, n),
           log[m].type = "WORKFLOW_ACTION_ACCEPTED", NEW t, t.effects = effects,
           t = [actions |-> t.actions, effects |-> t.effects, actor |-> t.actor,
                receipts |-> t.receipts, cancellations |-> t.cancellations]
    PROVE  EffectsTell(ProjectAccepted(t, log[m]).effects, m, Reach(m, n))
<1> DEFINE N == Reach(m, n)
           e == log[m]
           s == e.step
           row == IF s \in DOMAIN effects THEN effects[s]
                  ELSE EffectRow(e.effect, NoAction, "ACCEPTED")
           kept == IF row.canonical = NoAction THEN e.canonical ELSE row.canonical
           next == [row EXCEPT !.canonical = kept, !.phase = "ACCEPTED"]
           after == ProjectAccepted(t, e).effects
<1>1. after = WithEntry(effects, s, next)
  BY DEF ProjectAccepted
<1>2. /\ m \in Nat \ {0} /\ n \in Nat /\ s \in Steps /\ BoundTo(s, e.effect)
  BY EventFacts DEF ProgressTypes
<1>3. /\ DOMAIN effects = Told(n) /\ effects = [b \in DOMAIN effects |-> effects[b]]
  BY DEF EffectsTell
<1>4. RowKnows(row, s, m - 1, n)
  <2>1. CASE s \in Told(n)
    BY <1>3, <2>1 DEF EffectsTell, RowTells
  <2>2. CASE s \notin Told(n)
    <3>1. About(n, s) = {}
      BY <1>2, <2>2 DEF Told
    <3> QED
      BY <1>2, <1>3, <2>2, <3>1, NewRowKnows DEF BoundTo
  <2> QED
    BY <2>1, <2>2
<1>5. RowTells(next, s, m, N)
  <2>1. next = [row EXCEPT !.phase = PhaseTold(log[m]),
                           !.canonical = IF /\ log[m].type = "WORKFLOW_ACTION_ACCEPTED"
                                            /\ row.canonical = NoAction
                                         THEN log[m].canonical ELSE row.canonical]
    <3>1. row = [effect |-> progress[s].effect, canonical |-> row.canonical,
                 phase |-> row.phase, receipt |-> row.receipt]
      BY <1>4 DEF RowKnows
    <3> HIDE DEF row
    <3> QED
      BY <3>1 DEF PhaseTold
  <2> HIDE DEF next, row
  <2> QED
    BY <1>2, <1>4, <2>1, CommandsNamePerformer, RowMoves
<1>6. \A b \in Steps : b \in Told(N) <=> b \in Told(n) \/ b = s
  BY <1>2, ToldGrows DEF ProgressTypes
<1>7. Told(N) = Told(n) \cup {s}
  BY <1>2, <1>6 DEF Told
<1>8. \A b \in Told(n) : b # s => RowTells(effects[b], b, m, N)
  BY <1>2, RowsKnown
<1> HIDE DEF after, next, N, s
<1>9. /\ DOMAIN after = Told(N) /\ after = [b \in DOMAIN after |-> after[b]]
      /\ after[s] = next /\ \A b \in Told(n) : b # s => after[b] = effects[b]
  BY <1>1, <1>3, <1>7 DEF WithEntry, Coordinator!WithEntry
<1>10. \A b \in Told(N) : RowTells(after[b], b, m, N)
  BY <1>5, <1>7, <1>8, <1>9
<1> QED
  BY <1>9, <1>10 DEF EffectsTell, after, N

LEMMA EffectsOfOwner ==
    ASSUME TypeInv, LogTrue, NEW m \in 1..Len(log), NEW n \in 0..Len(log), m <= n + 1,
           NEW effects, EffectsTell(effects, m - 1, n),
           log[m].type = "WORKFLOW_OWNER_PROGRESS_RECORDED", NEW t, t.effects = effects,
           t = [actions |-> t.actions, effects |-> t.effects, actor |-> t.actor,
                receipts |-> t.receipts, cancellations |-> t.cancellations]
    PROVE  EffectsTell(ProjectOwnerProgress(t, m, log[m]).effects, m, Reach(m, n))
<1> DEFINE N == Reach(m, n)
           e == log[m]
           s == e.step
           row == IF s \in DOMAIN effects THEN effects[s]
                  ELSE EffectRow(e.effect, NoAction, e.phase)
           next == [row EXCEPT !.phase = e.phase]
           after == ProjectOwnerProgress(t, m, e).effects
<1>2. /\ m \in Nat \ {0} /\ n \in Nat /\ s \in Steps /\ BoundTo(s, e.effect)
  BY EventFacts DEF ProgressTypes
<1>3. /\ DOMAIN effects = Told(n) /\ effects = [b \in DOMAIN effects |-> effects[b]]
  BY DEF EffectsTell
<1>4. RowKnows(row, s, m - 1, n)
  <2>1. CASE s \in Told(n)
    BY <1>3, <2>1 DEF EffectsTell, RowTells
  <2>2. CASE s \notin Told(n)
    <3>1. About(n, s) = {}
      BY <1>2, <2>2 DEF Told
    <3> QED
      BY <1>2, <1>3, <2>2, <3>1, NewRowKnows DEF BoundTo
  <2> QED
    BY <2>1, <2>2
<1>4a. /\ row = [effect |-> progress[s].effect, canonical |-> row.canonical,
                 phase |-> row.phase, receipt |-> row.receipt]
       /\ row.effect = e.effect
  BY <1>2, <1>4 DEF RowKnows, BoundTo
<1>1. /\ DOMAIN after = Told(n) \cup {s} /\ after = [b \in DOMAIN after |-> after[b]]
      /\ after[s] = next /\ \A b \in Told(n) : b # s => after[b] = effects[b]
  <2>1. CASE s \in DOMAIN effects
    <3>1. /\ after = [effects EXCEPT ![s].phase = e.phase]
          /\ next = [effects[s] EXCEPT !.phase = e.phase]
      BY <1>4a, <2>1 DEF ProjectOwnerProgress
    <3> HIDE DEF row, next, after, s
    <3>2. after = [b \in DOMAIN effects |-> IF b = s THEN next ELSE effects[b]]
      BY <1>3, <2>1, <3>1
    <3> QED
      BY <1>3, <2>1, <3>2
  <2>2. CASE s \notin DOMAIN effects
    <3>1. after = WithEntry(effects, s, row)
      BY <2>2 DEF ProjectOwnerProgress
    <3>2. next = row
      BY <2>2 DEF EffectRow
    <3> HIDE DEF row, next, after
    <3> QED
      BY <1>3, <3>1, <3>2 DEF WithEntry, Coordinator!WithEntry
  <2> QED
    BY <2>1, <2>2
<1>5. RowTells(next, s, m, N)
  <2>1. next = [row EXCEPT !.phase = PhaseTold(log[m]),
                           !.canonical = IF /\ log[m].type = "WORKFLOW_ACTION_ACCEPTED"
                                            /\ row.canonical = NoAction
                                         THEN log[m].canonical ELSE row.canonical]
    <3> HIDE DEF row
    <3> QED
      BY <1>4a DEF PhaseTold
  <2> HIDE DEF next, row
  <2> QED
    BY <1>2, <1>4, <2>1, CommandsNamePerformer, RowMoves
<1>6. \A b \in Steps : b \in Told(N) <=> b \in Told(n) \/ b = s
  BY <1>2, ToldGrows DEF ProgressTypes
<1>7. Told(N) = Told(n) \cup {s}
  BY <1>2, <1>6 DEF Told
<1>8. \A b \in Told(n) : b # s => RowTells(effects[b], b, m, N)
  BY <1>2, RowsKnown
<1> HIDE DEF after, next, N, s
<1>10. \A b \in Told(N) : RowTells(after[b], b, m, N)
  BY <1>1, <1>5, <1>7, <1>8
<1> QED
  BY <1>1, <1>7, <1>10 DEF EffectsTell, after, N

LEMMA EffectsReceipted ==
    ASSUME TypeInv, LogTrue, NEW m \in 1..Len(log), NEW n \in 0..Len(log), m <= n + 1,
           NEW effects, EffectsTell(effects, m - 1, n),
           log[m].type = "WORKFLOW_CHECKPOINT_RECEIPTED", NEW t, t.effects = effects,
           t = [actions |-> t.actions, effects |-> t.effects, actor |-> t.actor,
                receipts |-> t.receipts, cancellations |-> t.cancellations]
    PROVE  EffectsTell(ProjectReceipted(t, m, log[m]).effects, m, Reach(m, n))
<1> DEFINE N == Reach(m, n)
           e == log[m]
           s == e.step
           next == [effects[s] EXCEPT !.phase = "RECEIPTED", !.receipt = m]
           new == EffectRow(e.nextEffect, NoAction, e.nextPhase)
           marked == [b \in DOMAIN effects |->
                        IF b = s /\ effects[b].effect = e.effect
                        THEN [effects[b] EXCEPT !.phase = "RECEIPTED", !.receipt = m]
                        ELSE effects[b]]
           after == ProjectReceipted(t, m, e).effects
<1>1. after = WithNextEffect(marked, e)
  BY DEF ProjectReceipted
<1>2. /\ m \in Nat \ {0} /\ n \in Nat /\ s \in Steps /\ BoundTo(s, e.effect)
      /\ e.next \in Steps /\ BoundTo(e.next, e.nextEffect)
  BY EventFacts DEF ProgressTypes
<1>3. /\ DOMAIN effects = Told(n) /\ effects = [b \in DOMAIN effects |-> effects[b]]
  BY DEF EffectsTell
<1>4. s \in Told(n)
  <2>1. PICK j \in 1..Len(log) : /\ j < m /\ log[j].type = "WORKFLOW_ACTION_ACCEPTED"
                                 /\ log[j].step = s
    BY EventFacts
  <2>2. j \in About(n, s)
    BY <1>2, <2>1 DEF About, Of, ProgressTypes
  <2> QED
    BY <1>2, <2>2 DEF Told
<1>5. RowKnows(effects[s], s, m - 1, n) /\ effects[s].effect = e.effect
  BY <1>2, <1>4 DEF EffectsTell, RowTells, RowKnows, BoundTo
<1>6. RowTells(next, s, m, N)
  BY <1>2, <1>5, RowReceipted
<1>7. \A b \in Steps : b \in Told(N) <=> b \in Told(n) \/ b = s \/ b = e.next
  BY <1>2, ToldGrows DEF ProgressTypes
<1>8. Told(N) = Told(n) \cup {e.next}
  BY <1>2, <1>4, <1>7 DEF Told
<1>9. \A b \in Told(n) : b # s => RowTells(effects[b], b, m, N)
  BY <1>2, RowsKnown
<1>10. e.next \notin Told(n) => RowTells(new, e.next, m, N)
  <2>1. e.next \notin Told(n) => e.next # s
    BY <1>4
  <2> QED
    BY <1>2, <2>1, RowIntroduced DEF BoundTo
<1>11. /\ DOMAIN marked = Told(n) /\ marked = [b \in DOMAIN marked |-> marked[b]]
       /\ marked[s] = next /\ \A b \in Told(n) : b # s => marked[b] = effects[b]
  BY <1>3, <1>4, <1>5
<1> HIDE DEF after, next, N, s, marked, new
<1>12. /\ DOMAIN after = Told(N) /\ after = [b \in DOMAIN after |-> after[b]]
       /\ \A b \in Told(n) : after[b] = marked[b]
       /\ e.next \notin Told(n) => after[e.next] = new
  <2>1. CASE e.next \in Told(n)
    BY <1>1, <1>8, <1>11, <2>1 DEF WithNextEffect
  <2>2. CASE e.next \notin Told(n)
    <3>1. after = WithEntry(marked, e.next, new)
      BY <1>1, <1>11, <2>2 DEF WithNextEffect, new
    <3> QED
      BY <1>8, <1>11, <2>2, <3>1 DEF WithEntry, Coordinator!WithEntry
  <2> QED
    BY <2>1, <2>2
<1>13. \A b \in Told(N) : RowTells(after[b], b, m, N)
  BY <1>6, <1>8, <1>9, <1>10, <1>11, <1>12
<1> QED
  BY <1>12, <1>13 DEF EffectsTell, after, N

\* An event that tells nothing of a step.
LEMMA EffectsKept ==
    ASSUME NEW m \in Nat \ {0}, NEW n \in Nat, m <= n + 1,
           NEW effects, EffectsTell(effects, m - 1, n), log[m].type \notin ProgressTypes
    PROVE  EffectsTell(effects, m, Reach(m, n))
<1>1. \A s \in Steps : s \in Told(Reach(m, n)) <=> s \in Told(n)
  BY ToldGrows DEF ProgressTypes
<1>2. Told(Reach(m, n)) = Told(n)
  BY <1>1 DEF Told
<1>3. \A s \in Told(n) : RowTells(effects[s], s, m, Reach(m, n))
  BY RowsKnown
<1> QED
  BY <1>2, <1>3 DEF EffectsTell

LEMMA ActorStep ==
    ASSUME TypeInv, LogTrue, NEW m \in 1..Len(log), NEW n \in 0..Len(log), m <= n + 1,
           NEW actor, ActorTells(actor, n), NEW next,
           next = IF log[m].type = "WORKFLOW_CHECKPOINT_RECEIPTED"
                  THEN LaterActor(actor, m, "AGENT", log[m].step)
                  ELSE IF log[m].type = "WORKFLOW_OWNER_PROGRESS_RECORDED"
                  THEN LaterActor(actor, m, "OWNER", log[m].step)
                  ELSE actor
    PROVE  ActorTells(next, Reach(m, n))
<1> DEFINE N == Reach(m, n)
           T == {"WORKFLOW_CHECKPOINT_RECEIPTED", "WORKFLOW_OWNER_PROGRESS_RECORDED"}
           kind == IF log[m].type = "WORKFLOW_CHECKPOINT_RECEIPTED" THEN "AGENT" ELSE "OWNER"
           own == [kind |-> kind, step |-> log[m].step, sequence |-> m]
<1>1. /\ m \in Nat \ {0} /\ n \in Nat /\ Len(log) \in Nat
  BY EventFacts
<1>2. /\ Grown(Effective(n), Effective(N), m, n)
      /\ m \in Effective(N) <=> log[m].type \in T
      /\ Effective(n) \subseteq 1..n
  BY <1>1, OfGrows DEF Effective, Of
<1> HIDE DEF N
<1>3. CASE log[m].type \notin T
  <2>1. Effective(N) = Effective(n) /\ next = actor
    BY <1>2, <1>3 DEF Grown
  <2> QED
    BY <2>1 DEF ActorTells, N
<1>4. CASE log[m].type \in T
  <2>1. next = IF actor = NoActor \/ m > actor.sequence THEN own ELSE actor
    BY <1>4 DEF LaterActor
  <2>2. m \in Effective(N)
    BY <1>2, <1>4
  <2>3. ASSUME \A j \in Effective(N) : j <= m, next = own PROVE ActorTells(next, N)
    BY <2>2, <2>3 DEF ActorTells
  <2>4. CASE Effective(n) = {} /\ actor = NoActor
    <3>1. Effective(N) = {m}
      BY <1>2, <2>2, <2>4 DEF Grown
    <3> QED
      BY <1>1, <2>1, <2>3, <2>4, <3>1 DEF N
  <2>5. CASE ~(Effective(n) = {} /\ actor = NoActor)
    <3>1. PICK k \in Effective(n) :
            /\ \A j \in Effective(n) : j <= k
            /\ actor = [kind |-> IF log[k].type = "WORKFLOW_CHECKPOINT_RECEIPTED"
                                 THEN "AGENT" ELSE "OWNER",
                        step |-> log[k].step, sequence |-> k]
      BY <2>5 DEF ActorTells
    <3>2. k \in 1..Len(log) /\ k \in Nat /\ log[k].type \in T
      BY <1>1, <1>2, <3>1 DEF Effective, Of
    <3>3. log[k].step \in Steps
      BY <3>2, EventFacts DEF ProgressTypes
    <3>4. actor # NoActor /\ actor.sequence = k
      <4>1. actor \in [kind : {"AGENT", "OWNER"}, step : Steps, sequence : Nat]
        BY <3>1, <3>2, <3>3
      <4> QED
        BY <3>1, <4>1, NullAssumption
    <3>5. CASE m > k
      <4>1. Effective(N) = Effective(n) \cup {m}
        BY <1>2, <2>2 DEF Grown
      <4>2. \A j \in Effective(N) : j <= m
        BY <1>1, <1>2, <3>1, <3>2, <3>5, <4>1
      <4> QED
        BY <2>1, <2>3, <3>4, <3>5, <4>2 DEF N
    <3>6. CASE m <= k
      <4>1. m <= n
        BY <1>1, <1>2, <3>1, <3>6
      <4>2. Effective(N) = Effective(n)
        BY <1>1, <4>1 DEF N, Reach
      <4>3. next = actor
        BY <1>1, <2>1, <3>2, <3>4, <3>6
      <4> QED
        BY <4>2, <4>3 DEF ActorTells, N
    <3> QED
      BY <1>1, <3>2, <3>5, <3>6
  <2> QED
    BY <2>4, <2>5
<1> QED
  BY <1>3, <1>4

LEMMA EventTells ==
    ASSUME TypeInv, LogTrue, NEW m \in 1..Len(log), NEW n \in 0..Len(log), m <= n + 1,
           NEW t, Tells(t, m - 1, n)
    PROVE  Tells(WorkflowStatements(t, m, log[m]), m, Reach(m, n))
<1> DEFINE N == Reach(m, n)
           e == log[m]
           after == WorkflowStatements(t, m, e)
<1>1. /\ t = [actions |-> t.actions, effects |-> t.effects, actor |-> t.actor,
              receipts |-> t.receipts, cancellations |-> t.cancellations]
      /\ ActionsTell(t.actions, m - 1, n) /\ EffectsTell(t.effects, m - 1, n)
      /\ ActorTells(t.actor, n)
      /\ t.receipts = Of(n, {"WORKFLOW_CHECKPOINT_RECEIPTED"})
      /\ t.cancellations = {log[k].id : k \in Of(n, {"AUTOMATION_CANCELED"})}
  BY DEF Tells
<1>2. /\ m \in Nat \ {0} /\ n \in Nat
      /\ e.type \in {"OTHER", "WORKFLOW_ACTION_ACCEPTED", "WORKFLOW_CHECKPOINT_RECEIPTED",
                     "WORKFLOW_OWNER_PROGRESS_RECORDED", "AUTOMATION_CANCELED"}
  BY EventFacts
<1>3. Of(N, {"WORKFLOW_CHECKPOINT_RECEIPTED"}) =
        IF e.type = "WORKFLOW_CHECKPOINT_RECEIPTED"
        THEN t.receipts \cup {m} ELSE t.receipts
  <2>1. /\ Grown(t.receipts, Of(N, {"WORKFLOW_CHECKPOINT_RECEIPTED"}), m, n)
        /\ m \in Of(N, {"WORKFLOW_CHECKPOINT_RECEIPTED"}) <=>
             e.type = "WORKFLOW_CHECKPOINT_RECEIPTED"
    BY <1>1, <1>2, OfGrows
  <2> QED
    BY <2>1 DEF Grown
<1>4. {log[k].id : k \in Of(N, {"AUTOMATION_CANCELED"})} =
        IF e.type = "AUTOMATION_CANCELED"
        THEN t.cancellations \cup {e.id} ELSE t.cancellations
  <2> DEFINE C == Of(n, {"AUTOMATION_CANCELED"})
             D == Of(N, {"AUTOMATION_CANCELED"})
  <2>1. /\ Grown(C, D, m, n)
        /\ m \in D <=> e.type = "AUTOMATION_CANCELED"
    BY <1>2, OfGrows
  <2>2. D = C \cup (IF e.type = "AUTOMATION_CANCELED" THEN {m} ELSE {})
    BY <2>1 DEF Grown
  <2>3. t.cancellations = {log[k].id : k \in C}
    BY <1>1
  <2> HIDE DEF C, D
  <2> QED
    BY <2>2, <2>3 DEF D
<1>5. ASSUME NEW x, x = [actions |-> x.actions, effects |-> x.effects, actor |-> x.actor,
                         receipts |-> x.receipts, cancellations |-> x.cancellations],
             x.actions = IF e.type \in {"WORKFLOW_ACTION_ACCEPTED",
                                        "WORKFLOW_CHECKPOINT_RECEIPTED"}
                         THEN WithEntry(t.actions, e.action, PhaseTold(e)) ELSE t.actions,
             EffectsTell(x.effects, m, N),
             x.actor = IF e.type = "WORKFLOW_CHECKPOINT_RECEIPTED"
                       THEN LaterActor(t.actor, m, "AGENT", e.step)
                       ELSE IF e.type = "WORKFLOW_OWNER_PROGRESS_RECORDED"
                       THEN LaterActor(t.actor, m, "OWNER", e.step)
                       ELSE t.actor,
             x.receipts = IF e.type = "WORKFLOW_CHECKPOINT_RECEIPTED"
                          THEN t.receipts \cup {m} ELSE t.receipts,
             x.cancellations = IF e.type = "AUTOMATION_CANCELED"
                               THEN t.cancellations \cup {e.id} ELSE t.cancellations
      PROVE  Tells(x, m, N)
  <2>1. ActionsTell(x.actions, m, N)
    BY <1>1, <1>2, <1>5, ActionsStep
  <2>2. ActorTells(x.actor, N)
    BY <1>1, <1>5, ActorStep
  <2> HIDE DEF N, e
  <2> QED
    BY <1>3, <1>4, <1>5, <2>1, <2>2 DEF Tells
<1>6. CASE e.type = "WORKFLOW_ACTION_ACCEPTED"
  <2>1. after = ProjectAccepted(t, e) /\ PhaseTold(e) = "ACCEPTED"
    BY <1>6 DEF WorkflowStatements, PhaseTold
  <2>2. EffectsTell(after.effects, m, N)
    BY <1>1, <1>6, <2>1, EffectsAccepted
  <2>3. /\ after = [actions |-> after.actions, effects |-> after.effects,
                    actor |-> after.actor, receipts |-> after.receipts,
                    cancellations |-> after.cancellations]
        /\ after.actions = WithEntry(t.actions, e.action, "ACCEPTED")
        /\ after.actor = t.actor /\ after.receipts = t.receipts
        /\ after.cancellations = t.cancellations
    BY <1>1, <2>1 DEF ProjectAccepted
  <2> HIDE DEF after, N, e
  <2> QED
    BY <1>5, <1>6, <2>1, <2>2, <2>3 DEF after, N, e
<1>7. CASE e.type = "WORKFLOW_CHECKPOINT_RECEIPTED"
  <2>1. after = ProjectReceipted(t, m, e) /\ PhaseTold(e) = "RECEIPTED"
    BY <1>7 DEF WorkflowStatements, PhaseTold
  <2>2. EffectsTell(after.effects, m, N)
    BY <1>1, <1>7, <2>1, EffectsReceipted
  <2>3. /\ after = [actions |-> after.actions, effects |-> after.effects,
                    actor |-> after.actor, receipts |-> after.receipts,
                    cancellations |-> after.cancellations]
        /\ after.actions = WithEntry(t.actions, e.action, "RECEIPTED")
        /\ after.actor = LaterActor(t.actor, m, "AGENT", e.step)
        /\ after.receipts = t.receipts \cup {m}
        /\ after.cancellations = t.cancellations
    BY <1>1, <2>1 DEF ProjectReceipted
  <2> HIDE DEF after, N, e
  <2> QED
    BY <1>5, <1>7, <2>1, <2>2, <2>3 DEF after, N, e
<1>8. CASE e.type = "WORKFLOW_OWNER_PROGRESS_RECORDED"
  <2>1. after = ProjectOwnerProgress(t, m, e)
    BY <1>8 DEF WorkflowStatements
  <2>2. EffectsTell(after.effects, m, N)
    BY <1>1, <1>8, <2>1, EffectsOfOwner
  <2>3. /\ after = [actions |-> after.actions, effects |-> after.effects,
                    actor |-> after.actor, receipts |-> after.receipts,
                    cancellations |-> after.cancellations]
        /\ after.actions = t.actions
        /\ after.actor = LaterActor(t.actor, m, "OWNER", e.step)
        /\ after.receipts = t.receipts /\ after.cancellations = t.cancellations
    BY <1>1, <2>1 DEF ProjectOwnerProgress
  <2> HIDE DEF after, N, e
  <2> QED
    BY <1>5, <1>8, <2>1, <2>2, <2>3 DEF after, N, e
<1>9. CASE e.type \in {"AUTOMATION_CANCELED", "OTHER"}
  <2>1. after = IF e.type = "OTHER" THEN t ELSE [t EXCEPT !.cancellations = @ \cup {e.id}]
    BY <1>9 DEF WorkflowStatements
  <2>2. EffectsTell(t.effects, m, N)
    BY <1>1, <1>2, <1>9, EffectsKept DEF ProgressTypes
  <2>3. /\ after = [actions |-> after.actions, effects |-> after.effects,
                    actor |-> after.actor, receipts |-> after.receipts,
                    cancellations |-> after.cancellations]
        /\ after.actions = t.actions /\ after.effects = t.effects
        /\ after.actor = t.actor /\ after.receipts = t.receipts
        /\ after.cancellations = IF e.type = "AUTOMATION_CANCELED"
                                 THEN t.cancellations \cup {e.id} ELSE t.cancellations
    BY <1>1, <1>9, <2>1
  <2> HIDE DEF after, N, e
  <2> QED
    BY <1>5, <1>9, <2>1, <2>2, <2>3 DEF after, N, e
<1> QED
  BY <1>2, <1>6, <1>7, <1>8, <1>9

-------------------------------------------------------------------------------
(***************************************************************************)
(* The statements of a batch, which are a recursive function: that there   *)
(* is such a function, and what holds after each of its statements, by the *)
(* least event that would be an exception.                                 *)
(***************************************************************************)
LEMMA LeastExists ==
    ASSUME NEW S \in SUBSET Nat, S # {}
    PROVE  \E k \in S : \A j \in S : k <= j
<1> DEFINE R == {ss \in Nat \X Nat : ss[1] < ss[2]}
<1>1. IsWellFoundedOn(R, Nat)
  BY NatLessThanWellFounded DEF OpToRel
<1> HIDE DEF R
<1>2. PICK k \in S : \A j \in S : ~(<<j, k>> \in R)
  BY <1>1, WFMin
<1>3. ASSUME NEW j \in S PROVE k <= j
  <2>1. ~(<<j, k>> \in R) /\ k \in Nat /\ j \in Nat
    BY <1>2
  <2> QED
    BY <2>1 DEF R
<1> QED
  BY <1>3

\* The tables after each event of a batch that begins with first.
Applies(g, t, first, last) ==
    g = [i \in (first - 1)..last |->
           IF i < first THEN t ELSE WorkflowStatements(g[i - 1], i, log[i])]

LEMMA AppliesLonger ==
    ASSUME NEW t, NEW first \in Nat \ {0}, NEW last \in Nat, first <= last,
           NEW g, Applies(g, t, first, last - 1)
    PROVE  \E h : Applies(h, t, first, last)
<1> DEFINE h == [i \in (first - 1)..last |->
                   IF i < last THEN g[i] ELSE WorkflowStatements(g[last - 1], last, log[last])]
<1>1. /\ DOMAIN g = (first - 1)..(last - 1)
      /\ \A i \in (first - 1)..(last - 1) :
           g[i] = IF i < first THEN t ELSE WorkflowStatements(g[i - 1], i, log[i])
  BY DEF Applies
<1>2. \A i \in (first - 1)..last :
        h[i] = IF i < first THEN t ELSE WorkflowStatements(h[i - 1], i, log[i])
  <2> SUFFICES ASSUME NEW i \in (first - 1)..last
               PROVE  h[i] = IF i < first THEN t ELSE WorkflowStatements(h[i - 1], i, log[i])
    OBVIOUS
  <2>1. i >= first => i - 1 \in (first - 1)..last /\ i - 1 < last /\ h[i - 1] = g[i - 1]
    OBVIOUS
  <2>2. CASE i < last
    <3>1. i \in (first - 1)..(last - 1) /\ h[i] = g[i]
      BY <2>2
    <3> HIDE DEF h
    <3> QED
      BY <1>1, <2>1, <3>1
  <2>3. CASE i = last
    <3>1. h[i] = WorkflowStatements(g[last - 1], last, log[last]) /\ i >= first
      BY <2>3
    <3> HIDE DEF h
    <3> QED
      BY <2>1, <2>3, <3>1
  <2> QED
    BY <2>2, <2>3
<1>3. h = [i \in (first - 1)..last |-> h[i]]
  OBVIOUS
<1> HIDE DEF h
<1>4. Applies(h, t, first, last)
  BY <1>2, <1>3 DEF Applies
<1> QED
  BY <1>4

LEMMA AppliesExists ==
    ASSUME NEW t, NEW first \in Nat \ {0}, NEW last \in Nat, first <= last + 1
    PROVE  \E g : Applies(g, t, first, last)
<1> DEFINE S == {k \in Nat : first <= k + 1 /\ ~\E g : Applies(g, t, first, k)}
<1>1. ASSUME S # {} PROVE FALSE
  <2>1. PICK k \in S : \A j \in S : k <= j
    BY <1>1, LeastExists
  <2>2. k \in Nat /\ first <= k + 1 /\ ~\E g : Applies(g, t, first, k)
    BY <2>1
  <2>3. CASE first = k + 1
    <3> DEFINE g == [i \in (first - 1)..k |-> t]
    <3>1. (first - 1)..k = {k}
      BY <2>2, <2>3
    <3>2. g = [i \in (first - 1)..k |->
                 IF i < first THEN t ELSE WorkflowStatements(g[i - 1], i, log[i])]
      BY <2>2, <2>3
    <3> HIDE DEF g
    <3> QED
      BY <2>2, <3>2 DEF Applies
  <2>4. CASE first <= k
    <3>1. k - 1 \in Nat /\ first <= (k - 1) + 1 /\ ~(k <= k - 1)
      BY <2>2, <2>4
    <3>2. k - 1 \notin S
      BY <2>1, <3>1
    <3>3. \E g : Applies(g, t, first, k - 1)
      BY <3>1, <3>2
    <3> QED
      BY <2>2, <2>4, <3>3, AppliesLonger
  <2> QED
    BY <2>2, <2>3, <2>4
<1> QED
  BY <1>1

LEMMA StatementsApply ==
    ASSUME NEW t, NEW first \in Nat \ {0}, NEW last \in Nat, first <= last + 1
    PROVE  \E g : Applies(g, t, first, last) /\ Statements(t, first, last) = g[last]
<1> DEFINE g == CHOOSE g : Applies(g, t, first, last)
<1>1. Applies(g, t, first, last)
  BY AppliesExists
<1>2. Statements(t, first, last) = g[last]
  BY DEF Statements, Applies
<1> HIDE DEF g
<1> QED
  BY <1>1, <1>2

LEMMA StatementsTell ==
    ASSUME TypeInv, LogTrue, NEW first \in Nat \ {0}, NEW last \in 0..Len(log),
           first <= last + 1, NEW n \in 0..Len(log), first <= n + 1,
           NEW t, Tells(t, first - 1, n)
    PROVE  Tells(Statements(t, first, last), last, Reach(last, n))
<1>0. Len(log) \in Nat /\ last \in Nat /\ n \in Nat
  BY DEF TypeInv, LogTyped
<1>1. PICK g : Applies(g, t, first, last) /\ Statements(t, first, last) = g[last]
  BY <1>0, StatementsApply
<1>2. \A i \in (first - 1)..last :
        g[i] = IF i < first THEN t ELSE WorkflowStatements(g[i - 1], i, log[i])
  BY <1>1 DEF Applies
<1> DEFINE S == {i \in (first - 1)..last : ~Tells(g[i], i, Reach(i, n))}
<1>3. ASSUME S # {} PROVE FALSE
  <2>0. S \in SUBSET Nat
    BY <1>0
  <2>1. PICK i \in S : \A j \in S : i <= j
    BY <1>3, <2>0, LeastExists
  <2>2. i \in (first - 1)..last /\ i \in Nat /\ ~Tells(g[i], i, Reach(i, n))
    BY <1>0, <2>1
  <2>3. CASE i < first
    <3>1. i = first - 1 /\ g[i] = t /\ Reach(i, n) = n
      BY <1>0, <1>2, <2>2, <2>3 DEF Reach
    <3> QED
      BY <2>2, <3>1
  <2>4. CASE i >= first
    <3> DEFINE k == Reach(i - 1, n)
    <3>1. /\ i - 1 \in (first - 1)..last /\ ~(i <= i - 1) /\ i \in 1..Len(log)
          /\ g[i] = WorkflowStatements(g[i - 1], i, log[i])
      BY <1>0, <1>2, <2>2, <2>4
    <3>2. Tells(g[i - 1], i - 1, k)
      BY <2>1, <3>1
    <3>3. k \in 0..Len(log) /\ i <= k + 1 /\ Reach(i, k) = Reach(i, n)
      BY <1>0, <3>1 DEF Reach
    <3> HIDE DEF k
    <3>4. Tells(g[i], i, Reach(i, k))
      BY <3>1, <3>2, <3>3, EventTells
    <3> QED
      BY <2>2, <3>3, <3>4
  <2> QED
    BY <1>0, <2>2, <2>3, <2>4
<1>4. last \in (first - 1)..last
  BY <1>0
<1> QED
  BY <1>1, <1>3, <1>4

-------------------------------------------------------------------------------
(***************************************************************************)
(* The tables between two requests, and what is expected of them.          *)
(***************************************************************************)
LEMMA TellsInLog ==
    ASSUME NEW n \in Nat
    PROVE  /\ \A s : About(n, s) \subseteq 1..n /\ Introducing(n, s) \subseteq 1..n
                     /\ Commands(n, s) \subseteq 1..n /\ Checkpoints(n, s) \subseteq 1..n
           /\ \A a : OfAction(n, a) \subseteq 1..n
           /\ Accepts(n) \subseteq 1..n /\ Effective(n) \subseteq 1..n
BY DEF About, Introducing, Commands, Checkpoints, OfAction, Accepts, Effective, Of

\* What holds up to an event holds up to an earlier one.
LEMMA TellsLess ==
    ASSUME NEW i \in Nat, NEW h \in 0..i, NEW n \in Nat, NEW t, Tells(t, i, n)
    PROVE  Tells(t, h, n)
<1>1. \A S \in SUBSET Nat : \A k : Latest(k, S, i) => Latest(k, S, h)
  BY DEF Latest
<1>2. \A s : About(n, s) \in SUBSET Nat /\ Checkpoints(n, s) \in SUBSET Nat
  BY TellsInLog
<1>3. \A a : OfAction(n, a) \in SUBSET Nat
  BY TellsInLog
<1>4. ActionsTell(t.actions, h, n)
  BY <1>1, <1>3 DEF Tells, ActionsTell
<1>5. \A s \in Told(n) : RowTells(t.effects[s], s, h, n)
  <2> SUFFICES ASSUME NEW s \in Told(n) PROVE RowTells(t.effects[s], s, h, n)
    OBVIOUS
  <2>1. RowTells(t.effects[s], s, i, n)
    BY DEF Tells, EffectsTell
  <2>2. RowKnows(t.effects[s], s, h, n)
    BY <1>1, <1>2, <2>1 DEF RowTells, RowKnows
  <2>3. PhaseKnown(t.effects[s].phase, s, h, n)
    BY <1>1, <1>2, <2>1 DEF RowTells, PhaseKnown
  <2> QED
    BY <2>2, <2>3 DEF RowTells
<1>6. EffectsTell(t.effects, h, n)
  BY <1>5 DEF Tells, EffectsTell
<1> QED
  BY <1>4, <1>6 DEF Tells

\* A step after which the tables are t, and the n events that t tells are there.
LEMMA TellsMoved ==
    ASSUME TypeInv, LogTrue, NEW t, tables' = t, NEW n \in 0..Len(log), NEW i,
           \A k \in 1..n : log'[k] = log[k],
           \A s \in DOMAIN progress : progress'[s].effect = progress[s].effect,
           Tells(t, i, n)
    PROVE  Tells(tables, i, n)'
<1>0. n \in Nat /\ 1..n \subseteq 1..Len(log)
  BY DEF TypeInv, LogTyped
<1>1. \A types : Of(n, types)' = Of(n, types)
  BY DEF Of
<1>2. \A s : /\ About(n, s)' = About(n, s) /\ Introducing(n, s)' = Introducing(n, s)
  <2> SUFFICES ASSUME NEW s
               PROVE  /\ About(n, s)' = About(n, s)
                      /\ Introducing(n, s)' = Introducing(n, s)
    OBVIOUS
  <2>1. \A types : Of(n, types) \subseteq 1..n
    BY DEF Of
  <2> QED
    BY <1>1, <2>1 DEF About, Introducing, ProgressTypes
<1>3. \A s : Commands(n, s)' = Commands(n, s) /\ Checkpoints(n, s)' = Checkpoints(n, s)
  BY <1>0, <1>2, TellsInLog DEF Commands, Checkpoints
<1>4. \A a : OfAction(n, a)' = OfAction(n, a)
  <2>1. \A types : Of(n, types) \subseteq 1..n
    BY DEF Of
  <2> QED
    BY <1>1, <2>1 DEF OfAction
<1>5. Accepts(n)' = Accepts(n) /\ Effective(n)' = Effective(n) /\ Told(n)' = Told(n)
  BY <1>1, <1>2 DEF Accepts, Effective, Told
<1>6. \A k \in 1..n : PhaseTold(log[k])' = PhaseTold(log[k])
  BY DEF PhaseTold
<1>7. \A s \in Told(n) : progress'[s].effect = progress[s].effect
  <2> SUFFICES ASSUME NEW s \in Told(n) PROVE s \in DOMAIN progress
    OBVIOUS
  <2>1. PICK k \in About(n, s) \cup Introducing(n, s) : TRUE
    BY DEF Told
  <2>2. k \in 1..Len(log)
    BY <1>0, <2>1, TellsInLog
  <2> QED
    BY <2>1, <2>2, EventFacts DEF About, Introducing, Of, BoundTo, ProgressTypes
<1>8. ActionsTell(tables.actions, i, n)'
  <2>1. ActionsTell(t.actions, i, n)
    BY DEF Tells
  <2>2. /\ DOMAIN t.actions = {log[k].action : k \in Accepts(n)}
        /\ t.actions = [a \in DOMAIN t.actions |-> t.actions[a]]
        /\ \A a \in DOMAIN t.actions :
             \E k : Latest(k, OfAction(n, a), i) /\ t.actions[a] = PhaseTold(log[k])
    BY <2>1 DEF ActionsTell
  <2>3. {log[k].action : k \in Accepts(n)}' = {log[k].action : k \in Accepts(n)}
    BY <1>0, <1>5, TellsInLog
  <2>4. \A a \in DOMAIN t.actions :
          \E k : Latest(k, OfAction(n, a)', i) /\ t.actions[a] = PhaseTold(log[k])'
    <3> SUFFICES ASSUME NEW a \in DOMAIN t.actions
                 PROVE  \E k : /\ Latest(k, OfAction(n, a)', i)
                               /\ t.actions[a] = PhaseTold(log[k])'
      OBVIOUS
    <3>1. PICK k : Latest(k, OfAction(n, a), i) /\ t.actions[a] = PhaseTold(log[k])
      BY <2>2
    <3>2. k \in 1..n
      BY <1>0, <3>1, TellsInLog DEF Latest
    <3> QED
      BY <1>4, <1>6, <3>1, <3>2
  <2> QED
    BY <2>2, <2>3, <2>4 DEF ActionsTell, Latest
<1>9. EffectsTell(tables.effects, i, n)'
  <2>1. /\ DOMAIN t.effects = Told(n)
        /\ t.effects = [s \in DOMAIN t.effects |-> t.effects[s]]
        /\ \A s \in Told(n) : RowTells(t.effects[s], s, i, n)
    BY DEF Tells, EffectsTell
  <2>2. ASSUME NEW s \in Told(n) PROVE RowTells(tables.effects[s], s, i, n)'
    <3>1. RowKnows(t.effects[s], s, i, n) /\ PhaseKnown(t.effects[s].phase, s, i, n)
      BY <2>1 DEF RowTells
    <3>2. RowKnows(tables.effects[s], s, i, n)'
      <4>1. \/ Commands(n, s)' = {} /\ t.effects[s].canonical = NoAction
            \/ \E k : First(k, Commands(n, s)') /\ t.effects[s].canonical = log'[k].canonical
        <5>1. CASE Commands(n, s) = {} /\ t.effects[s].canonical = NoAction
          BY <1>3, <5>1
        <5>2. ASSUME NEW k, First(k, Commands(n, s)), t.effects[s].canonical = log[k].canonical
              PROVE  \E j : /\ First(j, Commands(n, s)')
                            /\ t.effects[s].canonical = log'[j].canonical
          <6>1. k \in 1..n
            BY <1>0, <5>2, TellsInLog DEF First
          <6> QED
            BY <1>3, <5>2, <6>1
        <5> QED
          BY <3>1, <5>1, <5>2 DEF RowKnows
      <4>2. \/ Checkpoints(n, s)' = {} /\ t.effects[s].receipt = 0
            \/ Latest(t.effects[s].receipt, Checkpoints(n, s)', i)
        BY <1>3, <3>1 DEF RowKnows
      <4>3. t.effects[s] = [effect |-> progress'[s].effect,
                            canonical |-> t.effects[s].canonical,
                            phase |-> t.effects[s].phase, receipt |-> t.effects[s].receipt]
        BY <1>7, <3>1 DEF RowKnows
      <4> QED
        BY <4>1, <4>2, <4>3 DEF RowKnows, First, Latest
    <3>3. PhaseKnown(tables.effects[s].phase, s, i, n)'
      <4>1. ASSUME NEW k, About(n, s) = {}, First(k, Introducing(n, s)),
                   t.effects[s].phase = log[k].nextPhase
            PROVE  PhaseKnown(tables.effects[s].phase, s, i, n)'
        <5>1. k \in 1..n
          BY <1>0, <4>1, TellsInLog DEF First
        <5>2. tables'.effects[s].phase = log'[k].nextPhase
          BY <4>1, <5>1
        <5>3. About(n, s)' = {} /\ First(k, Introducing(n, s)')
          BY <1>2, <4>1
        <5> QED
          BY <5>2, <5>3 DEF PhaseKnown, First
      <4>2. ASSUME NEW k, Latest(k, About(n, s), i),
                   t.effects[s].phase = PhaseTold(log[k])
            PROVE  PhaseKnown(tables.effects[s].phase, s, i, n)'
        <5>1. k \in 1..n
          BY <1>0, <4>2, TellsInLog DEF Latest
        <5>2. tables'.effects[s].phase = PhaseTold(log[k])'
          BY <1>6, <4>2, <5>1
        <5>3. Latest(k, About(n, s)', i)
          BY <1>2, <4>2
        <5> QED
          BY <5>2, <5>3 DEF PhaseKnown, Latest
      <4> QED
        BY <3>1, <4>1, <4>2 DEF PhaseKnown
    <3> QED
      BY <3>2, <3>3 DEF RowTells
  <2> QED
    BY <1>5, <2>1, <2>2 DEF EffectsTell
<1>10. ActorTells(tables.actor, n)'
  <2>1. ActorTells(t.actor, n)
    BY DEF Tells
  <2>2. CASE Effective(n) = {} /\ t.actor = NoActor
    BY <1>5, <2>2 DEF ActorTells
  <2>3. ASSUME NEW k \in Effective(n), \A j \in Effective(n) : j <= k,
               t.actor = [kind |-> IF log[k].type = "WORKFLOW_CHECKPOINT_RECEIPTED"
                                   THEN "AGENT" ELSE "OWNER",
                          step |-> log[k].step, sequence |-> k]
        PROVE  ActorTells(tables.actor, n)'
    <3>1. log'[k] = log[k]
      BY <1>0, <2>3, TellsInLog
    <3> QED
      BY <1>5, <2>3, <3>1 DEF ActorTells
  <2> QED
    BY <2>1, <2>2, <2>3 DEF ActorTells
<1>11. {log[k].id : k \in Of(n, {"AUTOMATION_CANCELED"})}' =
         {log[k].id : k \in Of(n, {"AUTOMATION_CANCELED"})}
  <2>1. Of(n, {"AUTOMATION_CANCELED"}) \subseteq 1..n
    BY DEF Of
  <2> QED
    BY <1>1, <2>1
<1> QED
  BY <1>1, <1>8, <1>9, <1>10, <1>11 DEF Tells

LEMMA EmptyTells == Tells(EmptyTables, 0, 0)
<1>1. \A types : Of(0, types) = {}
  BY DEF Of
<1>2. \A s : About(0, s) = {} /\ Introducing(0, s) = {}
  BY <1>1 DEF About, Introducing
<1>3. Accepts(0) = {} /\ Effective(0) = {} /\ Told(0) = {}
  BY <1>1, <1>2 DEF Accepts, Effective, Told
<1>4. ActionsTell(EmptyTable, 0, 0) /\ EffectsTell(EmptyTable, 0, 0)
  BY <1>3 DEF ActionsTell, EffectsTell, EmptyTable
<1> QED
  BY <1>1, <1>3, <1>4 DEF Tells, EmptyTables, ActorTells

\* The ends of a set of events, however they are named.
LEMMA EndsNamed ==
    ASSUME NEW n \in Nat, NEW S, S \subseteq 1..n
    PROVE  /\ \A k : First(k, S) => MinOf(S) = k
           /\ \A k : Latest(k, S, n) => MaxOf(S) = k
<1>1. ASSUME NEW k, First(k, S) PROVE MinOf(S) = k
  <2>1. \E m \in S : \A i \in S : m <= i
    BY <1>1 DEF First
  <2>2. MinOf(S) \in S /\ \A i \in S : MinOf(S) <= i
    BY <2>1 DEF MinOf
  <2>3. PICK m : m = MinOf(S)
    OBVIOUS
  <2>4. m \in S /\ k \in S /\ m <= k /\ k <= m
    BY <1>1, <2>2, <2>3 DEF First
  <2> QED
    BY <2>3, <2>4
<1>2. ASSUME NEW k, Latest(k, S, n) PROVE MaxOf(S) = k
  <2>1. k \in S /\ \A i \in S : i <= k
    BY <1>2 DEF Latest
  <2>2. MaxOf(S) \in S /\ \A i \in S : i <= MaxOf(S)
    BY <2>1 DEF MaxOf
  <2>3. PICK m : m = MaxOf(S)
    OBVIOUS
  <2>4. m \in S /\ k \in S /\ m <= k /\ k <= m
    BY <2>1, <2>2, <2>3
  <2> QED
    BY <2>3, <2>4
<1> QED
  BY <1>1, <1>2

\* Where everything is applied and nothing undone, the tables are as expected.
LEMMA FinalActions ==
    ASSUME TypeInv, LogTrue, NEW table, ActionsTell(table, Len(log), Len(log))
    PROVE  table = ExpectedActions(Len(log))
<1> DEFINE L == Len(log)
           receipts == Of(L, {"WORKFLOW_CHECKPOINT_RECEIPTED"})
<1>1. L \in Nat
  BY DEF TypeInv, LogTyped
<1>2. ASSUME NEW a \in DOMAIN table
      PROVE  table[a] = IF \E i \in receipts : log[i].action = a
                        THEN "RECEIPTED" ELSE "ACCEPTED"
  <2>1. PICK k : Latest(k, OfAction(L, a), L) /\ table[a] = PhaseTold(log[k])
    BY DEF ActionsTell
  <2>2. /\ k \in 1..L /\ log[k].action = a
        /\ log[k].type \in {"WORKFLOW_ACTION_ACCEPTED", "WORKFLOW_CHECKPOINT_RECEIPTED"}
    BY <2>1 DEF Latest, OfAction, Of
  <2>3. CASE log[k].type = "WORKFLOW_CHECKPOINT_RECEIPTED"
    <3>1. k \in receipts
      BY <2>2, <2>3 DEF Of
    <3> QED
      BY <2>1, <2>2, <2>3, <3>1 DEF PhaseTold
  <2>4. CASE log[k].type = "WORKFLOW_ACTION_ACCEPTED"
    <3>1. ASSUME NEW i \in receipts, log[i].action = a PROVE FALSE
      <4>1. i \in 1..L /\ log[i].type = "WORKFLOW_CHECKPOINT_RECEIPTED"
        BY DEF Of
      <4>2. PICK j \in 1..L : /\ j < i /\ log[j].type = "WORKFLOW_ACTION_ACCEPTED"
                              /\ log[j].action = a
        BY <3>1, <4>1, EventFacts
      <4>3. j = k
        BY <2>2, <2>4, <4>2 DEF LogTrue
      <4>4. i \in OfAction(L, a)
        BY <3>1, <4>1 DEF OfAction, Of
      <4>5. i <= k
        BY <2>1, <4>1, <4>4 DEF Latest
      <4> QED
        BY <1>1, <4>1, <4>2, <4>3, <4>5
    <3> QED
      BY <2>1, <2>4, <3>1 DEF PhaseTold
  <2> QED
    BY <2>2, <2>3, <2>4
<1>3. /\ DOMAIN table = {log[i].action : i \in Of(L, {"WORKFLOW_ACTION_ACCEPTED"})}
      /\ table = [a \in DOMAIN table |-> table[a]]
  BY DEF ActionsTell, Accepts
<1> HIDE DEF L, receipts
<1> QED
  BY <1>2, <1>3 DEF ExpectedActions, L, receipts

LEMMA FinalEffects ==
    ASSUME TypeInv, NEW effects, EffectsTell(effects, Len(log), Len(log))
    PROVE  effects = ExpectedEffects(Len(log))
<1> DEFINE L == Len(log)
           row(s) ==
             [ effect    |-> progress[s].effect,
               canonical |-> IF Commands(L, s) = {} THEN NoAction
                             ELSE log[MinOf(Commands(L, s))].canonical,
               phase     |-> IF About(L, s) = {}
                             THEN log[MinOf(Introducing(L, s))].nextPhase
                             ELSE PhaseTold(log[MaxOf(About(L, s))]),
               receipt   |-> IF Checkpoints(L, s) = {} THEN 0
                             ELSE MaxOf(Checkpoints(L, s)) ]
<1>1. L \in Nat
  BY DEF TypeInv, LogTyped
<1>2. ExpectedEffects(L) = [s \in Told(L) |-> row(s)]
  BY DEF ExpectedEffects, Told, Commands, Checkpoints
<1>3. ASSUME NEW s \in Told(L) PROVE effects[s] = row(s)
  <2>1. RowKnows(effects[s], s, L, L) /\ PhaseKnown(effects[s].phase, s, L, L)
    BY DEF EffectsTell, RowTells
  <2>2. /\ \A k : First(k, Commands(L, s)) => MinOf(Commands(L, s)) = k
        /\ \A k : First(k, Introducing(L, s)) => MinOf(Introducing(L, s)) = k
        /\ \A k : Latest(k, About(L, s), L) => MaxOf(About(L, s)) = k
        /\ \A k : Latest(k, Checkpoints(L, s), L) => MaxOf(Checkpoints(L, s)) = k
    <3> HIDE DEF L
    <3> QED
      BY <1>1, TellsInLog, EndsNamed
  <2> HIDE DEF L
  <2>3. effects[s].canonical = row(s).canonical
    BY <2>1, <2>2 DEF RowKnows, First
  <2>4. effects[s].receipt = row(s).receipt
    BY <2>1, <2>2 DEF RowKnows, Latest
  <2>5. effects[s].phase = row(s).phase
    BY <2>1, <2>2 DEF PhaseKnown, First, Latest
  <2> QED
    BY <2>1, <2>3, <2>4, <2>5 DEF RowKnows
<1>4. DOMAIN effects = Told(L) /\ effects = [s \in DOMAIN effects |-> effects[s]]
  BY DEF EffectsTell
<1> HIDE DEF L, row
<1> QED
  BY <1>2, <1>3, <1>4 DEF L

LEMMA FinalTables ==
    ASSUME TypeInv, LogTrue, NEW t, Tells(t, Len(log), Len(log))
    PROVE  t = Expected(Len(log))
<1> DEFINE L == Len(log)
<1>1. L \in Nat
  BY DEF TypeInv, LogTyped
<1>2. t.actions = ExpectedActions(L) /\ t.effects = ExpectedEffects(L)
  BY FinalActions, FinalEffects DEF Tells
<1>3. t.actor = ExpectedActor(L)
  <2>1. CASE Effective(L) = {} /\ t.actor = NoActor
    BY <2>1 DEF ExpectedActor, Effective
  <2>2. ASSUME NEW k \in Effective(L), \A j \in Effective(L) : j <= k,
               t.actor = [kind |-> IF log[k].type = "WORKFLOW_CHECKPOINT_RECEIPTED"
                                   THEN "AGENT" ELSE "OWNER",
                          step |-> log[k].step, sequence |-> k]
        PROVE  t.actor = ExpectedActor(L)
    <3>1. Latest(k, Effective(L), L)
      BY <2>2 DEF Latest
    <3> HIDE DEF L
    <3>2. MaxOf(Effective(L)) = k
      BY <1>1, <3>1, TellsInLog, EndsNamed
    <3> QED
      BY <2>2, <3>2 DEF ExpectedActor, Effective
  <2> QED
    BY <2>1, <2>2 DEF Tells, ActorTells
<1> HIDE DEF L
<1>4. /\ t = [actions |-> t.actions, effects |-> t.effects, actor |-> t.actor,
              receipts |-> t.receipts, cancellations |-> t.cancellations]
      /\ t.receipts = Of(L, {"WORKFLOW_CHECKPOINT_RECEIPTED"})
      /\ t.cancellations = {log[k].id : k \in Of(L, {"AUTOMATION_CANCELED"})}
  BY DEF Tells, L
<1> QED
  BY <1>2, <1>3, <1>4 DEF Expected, L

-------------------------------------------------------------------------------
(***************************************************************************)
(* Every event the coordinator appends leaves the log true.                *)
(***************************************************************************)
\* The effect of a bound step, and the step of a retained action, are kept.
BindingsKept ==
    /\ DOMAIN progress \subseteq DOMAIN progress'
    /\ \A s \in DOMAIN progress : progress'[s].effect = progress[s].effect

LEMMA BindKeeps ==
    ASSUME TablesTyped, NEW step, NEW effect, Coordinator!Bind(step, effect)
    PROVE  BindingsKept /\ accepted' = accepted /\ BoundTo(step, effect)'
BY DEF TablesTyped, Coordinator!Bind, Coordinator!WithEntry, Coordinator!Unperformed,
       BindingsKept, BoundTo

LEMMA AcceptKeeps ==
    ASSUME TablesTyped, NEW action, NEW step, NEW effect, NEW performs \in BOOLEAN,
           Coordinator!Accept(action, step, effect, performs)
    PROVE  /\ BindingsKept /\ BoundTo(step, effect)'
           /\ action \notin DOMAIN accepted
           /\ DOMAIN accepted' = DOMAIN accepted \cup {action}
           /\ accepted'[action] = step
           /\ \A a \in DOMAIN accepted : accepted'[a] = accepted[a]
<1> DEFINE row == IF step \in DOMAIN progress THEN progress[step]
                  ELSE Coordinator!Unperformed(effect)
           entry == IF performs THEN [row EXCEPT !.canonical = action] ELSE row
<1>1. /\ action \notin DOMAIN accepted
      /\ progress' = Coordinator!WithEntry(progress, step, entry)
      /\ accepted' = Coordinator!WithEntry(accepted, action, step)
  BY DEF Coordinator!Accept
<1>2. row.effect = effect /\ entry.effect = row.effect
  <2>1. row.effect = effect
    BY DEF Coordinator!Accept, Coordinator!Binds, Coordinator!Unperformed
  <2>2. row = [effect |-> row.effect, canonical |-> row.canonical]
    BY DEF TablesTyped, EffectRows, Coordinator!Unperformed
  <2> HIDE DEF row
  <2>3. entry.effect = row.effect
    BY <2>2
  <2> QED
    BY <2>1, <2>3
<1>3. step \in DOMAIN progress => row = progress[step]
  OBVIOUS
<1> HIDE DEF row, entry
<1>4. BindingsKept /\ BoundTo(step, effect)'
  BY <1>1, <1>2, <1>3 DEF BindingsKept, BoundTo, Coordinator!WithEntry
<1> QED
  BY <1>1, <1>4 DEF Coordinator!WithEntry

LEMMA ReceiptKeeps ==
    ASSUME TablesTyped, NEW action, NEW step, NEW effect,
           Coordinator!Receipt(action, step, effect)
    PROVE  /\ BindingsKept /\ accepted' = accepted
           /\ action \in DOMAIN accepted
           /\ BoundTo(accepted[action], progress[accepted[action]].effect)
           /\ BoundTo(step, effect)'
<1>1. /\ action \in DOMAIN accepted /\ accepted' = accepted
      /\ accepted[action] \in DOMAIN progress
      /\ progress' = IF step \in DOMAIN progress THEN progress
                     ELSE Coordinator!WithEntry(progress, step,
                                                Coordinator!Unperformed(effect))
      /\ step \in DOMAIN progress => progress[step].effect = effect
  BY DEF TablesTyped, Coordinator!Receipt, Coordinator!Binds
<1>2. BindingsKept /\ BoundTo(step, effect)'
  BY <1>1 DEF BindingsKept, BoundTo, Coordinator!WithEntry, Coordinator!Unperformed
<1> QED
  BY <1>1, <1>2 DEF BoundTo

LEMMA CoordinatorAppends ==
    ASSUME TypeInv,
           \/ \E step \in Steps, effect \in EffectIds :
                \/ InitializeWorkflow(step, effect)
                \/ \E phase \in Phases : OwnerProgress(step, effect, phase)
                \/ \E action \in ActionIds :
                     \/ \E performs \in BOOLEAN :
                          AcceptCommand(action, step, effect, performs)
                     \/ \E phase \in {"ACCEPTED", "RECEIPTED"} :
                          RecordReceipt(action, step, effect, phase)
           \/ \E id \in CancellationIds : CancelAutomation(id)
           \/ OtherEvent
    PROVE  \E e : AppendsTrue(e)
<1>0. TablesTyped
  BY DEF TypeInv
<1>1. ASSUME NEW e, AppendEvent(e), UNCHANGED <<progress, accepted>>,
             e.type \in {"OTHER", "AUTOMATION_CANCELED"}
      PROVE  AppendsTrue(e)
  BY <1>1 DEF AppendsTrue, Appends, AppendEvent
<1>2. ASSUME NEW step \in Steps, NEW effect \in EffectIds, InitializeWorkflow(step, effect)
      PROVE  \E e : AppendsTrue(e)
  <2> DEFINE e == [type |-> "OTHER"]
  <2>1. BindingsKept /\ accepted' = accepted /\ AppendEvent(e)
    BY <1>0, <1>2, BindKeeps DEF InitializeWorkflow
  <2>2. AppendsTrue(e)
    BY <2>1 DEF AppendsTrue, Appends, AppendEvent, BindingsKept
  <2> HIDE DEF e
  <2> QED
    BY <2>2
<1>3. ASSUME NEW step \in Steps, NEW effect \in EffectIds, NEW phase \in Phases,
             OwnerProgress(step, effect, phase)
      PROVE  \E e : AppendsTrue(e)
  <2> DEFINE e == [type |-> "WORKFLOW_OWNER_PROGRESS_RECORDED", step |-> step,
                   effect |-> effect, phase |-> phase]
  <2>1. BindingsKept /\ accepted' = accepted /\ BoundTo(step, effect)' /\ AppendEvent(e)
    BY <1>0, <1>3, BindKeeps DEF OwnerProgress, BindingsKept, BoundTo
  <2>2. PICK x : x = e
    OBVIOUS
  <2>3. x.type = "WORKFLOW_OWNER_PROGRESS_RECORDED" /\ x.step = step /\ x.effect = effect
    BY <2>2
  <2> HIDE DEF e
  <2>4. AppendsTrue(x)
    BY <2>1, <2>2, <2>3 DEF AppendsTrue, Appends, AppendEvent, BindingsKept, BoundTo
  <2> QED
    BY <2>4
<1>4. ASSUME NEW step \in Steps, NEW effect \in EffectIds,
             NEW action \in ActionIds, NEW performs \in BOOLEAN,
             AcceptCommand(action, step, effect, performs)
      PROVE  \E e : AppendsTrue(e)
  <2> DEFINE e == [type |-> "WORKFLOW_ACTION_ACCEPTED", action |-> action,
                   step |-> step, effect |-> effect,
                   canonical |-> IF progress'[step].canonical = NoAction THEN action
                                 ELSE progress'[step].canonical]
  <2>0. Coordinator!Accept(action, step, effect, performs) /\ AppendEvent(e)
    BY <1>4 DEF AcceptCommand
  <2>1. /\ BindingsKept /\ BoundTo(step, effect)'
        /\ action \notin DOMAIN accepted
        /\ DOMAIN accepted' = DOMAIN accepted \cup {action}
        /\ accepted'[action] = step
        /\ \A a \in DOMAIN accepted : accepted'[a] = accepted[a]
    BY <1>0, <2>0, AcceptKeeps
  <2>2. PICK x : x = e
    OBVIOUS
  <2>3. /\ x.type = "WORKFLOW_ACTION_ACCEPTED" /\ x.action = action
        /\ x.step = step /\ x.effect = effect
    BY <2>2
  <2> HIDE DEF e
  <2>4. AppendsTrue(x)
    BY <2>0, <2>1, <2>2, <2>3 DEF AppendsTrue, Appends, AppendEvent, BindingsKept, BoundTo
  <2> QED
    BY <2>4
<1>5. ASSUME NEW step \in Steps, NEW effect \in EffectIds,
             NEW action \in ActionIds, NEW phase \in {"ACCEPTED", "RECEIPTED"},
             RecordReceipt(action, step, effect, phase)
      PROVE  \E e : AppendsTrue(e)
  <2> DEFINE e == [type |-> "WORKFLOW_CHECKPOINT_RECEIPTED", action |-> action,
                   step |-> accepted[action],
                   effect |-> progress[accepted[action]].effect,
                   next |-> step, nextEffect |-> effect, nextPhase |-> phase]
  <2>1. /\ BindingsKept /\ accepted' = accepted /\ AppendEvent(e)
        /\ action \in DOMAIN accepted
        /\ BoundTo(accepted[action], progress[accepted[action]].effect)
        /\ BoundTo(step, effect)'
    BY <1>0, <1>5, ReceiptKeeps DEF RecordReceipt
  <2>2. PICK own, bound : own = accepted[action] /\ bound = progress[own].effect
    OBVIOUS
  <2>3. PICK x : x = e
    OBVIOUS
  <2>4. /\ x.type = "WORKFLOW_CHECKPOINT_RECEIPTED" /\ x.action = action
        /\ x.step = own /\ x.effect = bound /\ x.next = step /\ x.nextEffect = effect
    BY <2>2, <2>3
  <2>5. BoundTo(own, bound)'
    BY <2>1, <2>2 DEF BoundTo, BindingsKept
  <2> HIDE DEF e
  <2>6. AppendsTrue(x)
    BY <2>1, <2>2, <2>3, <2>4, <2>5
    DEF AppendsTrue, Appends, AppendEvent, BindingsKept, BoundTo
  <2> QED
    BY <2>6
<1>6. ASSUME NEW id \in CancellationIds, CancelAutomation(id)
      PROVE  \E e : AppendsTrue(e)
  <2> DEFINE e == [type |-> "AUTOMATION_CANCELED", id |-> id]
  <2>1. AppendEvent(e) /\ UNCHANGED <<progress, accepted>> /\ e.type = "AUTOMATION_CANCELED"
    BY <1>6 DEF CancelAutomation
  <2> HIDE DEF e
  <2> QED
    BY <1>1, <2>1
<1>7. ASSUME OtherEvent PROVE \E e : AppendsTrue(e)
  <2> DEFINE e == [type |-> "OTHER"]
  <2>1. AppendEvent(e) /\ UNCHANGED <<progress, accepted>> /\ e.type = "OTHER"
    BY <1>7 DEF OtherEvent
  <2> HIDE DEF e
  <2> QED
    BY <1>1, <2>1
<1> QED
  BY <1>2, <1>3, <1>4, <1>5, <1>6, <1>7

-------------------------------------------------------------------------------
(***************************************************************************)
(* The invariant.  While one request runs at a time and no rebuild is torn *)
(* the first n events have been applied, of which nothing the first h told *)
(* is undone, and no more than those h are acknowledged, or will be by the *)
(* request that wrote them.  A rebuild has written what precedes its page. *)
(***************************************************************************)
Between ==
    rebuilds # "TORN" =>
      \E n \in 0..Len(log) : \E h \in 0..n :
        /\ eventRows = 1..n
        /\ Tells(tables, h, n)
        /\ projectedSequence <= h
        /\ \A r \in Requests : requests[r].pc = "WRITTEN" => requests[r].last <= h

Rebuilding ==
    \A r \in Requests : requests[r].pc = "CLEARED" =>
      /\ rebuilds = "TORN"
      /\ requests[r].first <= requests[r].last + 1
      /\ eventRows = 1..requests[r].first - 1
      /\ Tells(tables, requests[r].first - 1, requests[r].first - 1)

Projecting ==
    \A r \in Requests : requests[r].pc = "PROJECT" =>
      /\ requests[r].first = projectedSequence + 1
      /\ requests[r].first <= requests[r].last + 1

Converging == ~overlapped => Between /\ Rebuilding /\ Projecting

LEMMA ConvergingInit == Init => LogTrue /\ Converging
<1> SUFFICES ASSUME Init PROVE LogTrue /\ Converging
  OBVIOUS
<1>1. LogTrue
  BY DEF Init, Coordinator!Init, LogTrue, EventTrue
<1>2. /\ eventRows = {} /\ tables = EmptyTables /\ projectedSequence = 0 /\ Len(log) = 1
      /\ \A r \in Requests : requests[r].pc = "IDLE"
  BY DEF Init, Idle
<1>3. 0 \in 0..Len(log) /\ 0 \in 0..0 /\ 1..0 = {}
  BY <1>2
<1>4. Between
  BY <1>2, <1>3, EmptyTells DEF Between
<1>5. Rebuilding /\ Projecting
  BY <1>2 DEF Rebuilding, Projecting
<1> QED
  BY <1>1, <1>4, <1>5 DEF Converging

\* A step of the coordinator, which only appends, or a stutter.
LEMMA TellsKept ==
    ASSUME TypeInv, LogTrue, tables' = tables,
           \A k \in 1..Len(log) : log'[k] = log[k],
           \A s \in DOMAIN progress : progress'[s].effect = progress[s].effect,
           NEW n \in 0..Len(log), NEW i, Tells(tables, i, n)
    PROVE  Tells(tables, i, n)'
<1>1. PICK t : t = tables
  OBVIOUS
<1>2. Len(log) \in Nat /\ \A k \in 1..n : log'[k] = log[k]
  BY DEF TypeInv, LogTyped
<1> QED
  BY <1>1, <1>2, TellsMoved

LEMMA ConvergingUntouched ==
    ASSUME TypeInv, LogTrue, Converging, UNCHANGED projectionVars,
           Len(log) <= Len(log'), Len(log') \in Nat,
           \A k \in 1..Len(log) : log'[k] = log[k],
           \A s \in DOMAIN progress : progress'[s].effect = progress[s].effect
    PROVE  Converging'
<1> SUFFICES ASSUME ~overlapped PROVE Between' /\ Rebuilding' /\ Projecting'
  BY DEF Converging, projectionVars
<1>1. /\ UNCHANGED <<projectedSequence, eventRows, tables, requests, rebuilds, overlapped>>
      /\ Between /\ Rebuilding /\ Projecting
  BY DEF Converging, projectionVars, d1Vars
<1>2. Between'
  <2> SUFFICES ASSUME rebuilds # "TORN"
               PROVE  \E n \in 0..Len(log') : \E h \in 0..n :
                        /\ eventRows = 1..n
                        /\ Tells(tables, h, n)'
                        /\ projectedSequence <= h
                        /\ \A r \in Requests : requests[r].pc = "WRITTEN" =>
                                                 requests[r].last <= h
    BY <1>1 DEF Between
  <2>1. PICK n \in 0..Len(log) : \E h \in 0..n :
          /\ eventRows = 1..n
          /\ Tells(tables, h, n)
          /\ projectedSequence <= h
          /\ \A r \in Requests : requests[r].pc = "WRITTEN" => requests[r].last <= h
    BY <1>1 DEF Between
  <2>2. PICK h \in 0..n :
          /\ eventRows = 1..n
          /\ Tells(tables, h, n)
          /\ projectedSequence <= h
          /\ \A r \in Requests : requests[r].pc = "WRITTEN" => requests[r].last <= h
    BY <2>1
  <2>3. n \in 0..Len(log')
    BY DEF TypeInv, LogTyped
  <2>4. Tells(tables, h, n)'
    BY <1>1, <2>2, TellsKept
  <2> QED
    BY <2>2, <2>3, <2>4
<1>3. Rebuilding'
  <2> SUFFICES ASSUME NEW r \in Requests, requests[r].pc = "CLEARED"
               PROVE  /\ rebuilds = "TORN"
                      /\ requests[r].first <= requests[r].last + 1
                      /\ eventRows = 1..requests[r].first - 1
                      /\ Tells(tables, requests[r].first - 1, requests[r].first - 1)'
    BY <1>1 DEF Rebuilding
  <2>1. PICK n : n = requests[r].first - 1
    OBVIOUS
  <2>2. n \in 0..Len(log)
    BY <2>1, RequestFacts
  <2>3. Tells(tables, n, n)
    BY <1>1, <2>1 DEF Rebuilding
  <2>4. Tells(tables, n, n)'
    BY <1>1, <2>2, <2>3, TellsKept
  <2>5. n = (requests[r].first - 1)'
    BY <1>1, <2>1
  <2> QED
    BY <1>1, <2>4, <2>5 DEF Rebuilding
<1>4. Projecting'
  BY <1>1 DEF Projecting
<1> QED
  BY <1>2, <1>3, <1>4

\* A step of a request leaves the log, and the tables as they are or t.
LEMMA TellsWritten ==
    ASSUME TypeInv, LogTrue, NEW t, tables' = t, UNCHANGED coordinatorVars,
           NEW n \in 0..Len(log), NEW i, Tells(t, i, n)
    PROVE  Tells(tables, i, n)'
BY TellsMoved DEF coordinatorVars

\* While no requests overlap, the others are idle.
LEMMA OthersIdle ==
    ASSUME AckInv, ~overlapped, NEW r \in Requests, requests[r].pc # "IDLE"
    PROVE  \A q \in Requests : q # r => requests[q].pc = "IDLE"
BY DEF AckInv, RunsAlone

LEMMA ConvergingStart ==
    ASSUME TypeInv, LogTrue, Converging, NEW r \in Requests,
           StartProject(r) \/ StartRebuild(r)
    PROVE  Converging'
<1> SUFFICES ASSUME ~overlapped' PROVE Between' /\ Rebuilding' /\ Projecting'
  BY DEF Converging
<1>1. /\ ~overlapped
      /\ \A q \in Requests : q # r => requests[q] = Idle
      /\ requests[r] = Idle
      /\ UNCHANGED <<coordinatorVars, projectedSequence, eventRows, tables, rebuilds>>
  BY DEF StartProject, StartRebuild, Starts, d1Vars
<1>2. /\ \A q \in Requests : q # r => requests'[q].pc = "IDLE"
      /\ requests'[r].pc \in {"PROJECT", "REBUILD"}
  BY <1>1, RequestFacts DEF StartProject, StartRebuild, Starts, Idle
<1>3. requests'[r].pc = "PROJECT" =>
        /\ requests'[r].first = projectedSequence + 1
        /\ requests'[r].first <= requests'[r].last + 1
  <2>1. Len(log) \in Nat /\ projectedSequence \in Nat
    BY RequestFacts
  <2>2. CASE StartProject(r)
    <3>1. FirstPending <= Len(log) /\ FirstPending = projectedSequence + 1
      BY <2>2 DEF StartProject, FirstPending
    <3>2. /\ requests'[r].first = FirstPending
          /\ requests'[r].last = Lesser(FirstPending + PageSize - 1, Len(log))
      BY <2>2, RequestFacts DEF StartProject, Starts
    <3>3. FirstPending <= Lesser(FirstPending + PageSize - 1, Len(log)) + 1
      BY <2>1, <3>1, PageAssumption DEF Lesser
    <3> QED
      BY <3>1, <3>2, <3>3
  <2>3. CASE StartRebuild(r)
    BY <2>3, RequestFacts DEF StartRebuild, Starts
  <2> QED
    BY <2>2, <2>3
<1>4. Between'
  <2> SUFFICES ASSUME rebuilds # "TORN"
               PROVE  \E n \in 0..Len(log) : \E h \in 0..n :
                        /\ eventRows = 1..n
                        /\ Tells(tables, h, n)'
                        /\ projectedSequence <= h
    BY <1>1, <1>2 DEF Between, coordinatorVars
  <2>1. PICK n \in 0..Len(log) : \E h \in 0..n :
          eventRows = 1..n /\ Tells(tables, h, n) /\ projectedSequence <= h
    BY <1>1 DEF Converging, Between
  <2>2. PICK h \in 0..n : eventRows = 1..n /\ Tells(tables, h, n) /\ projectedSequence <= h
    BY <2>1
  <2>3. Tells(tables, h, n)'
    BY <1>1, <2>2, TellsKept DEF coordinatorVars
  <2> QED
    BY <2>2, <2>3
<1>5. Rebuilding' /\ Projecting'
  BY <1>1, <1>2, <1>3 DEF Rebuilding, Projecting
<1> QED
  BY <1>4, <1>5

LEMMA ConvergingWrite ==
    ASSUME TypeInv, LogTrue, AckInv, Converging, NEW r \in Requests, WriteBatch(r)
    PROVE  Converging'
<1> SUFFICES ASSUME ~overlapped PROVE Between' /\ Rebuilding' /\ Projecting'
  BY DEF Converging, WriteBatch
<1> DEFINE first == requests[r].first
           last == requests[r].last
<1>1. /\ requests[r].pc = "PROJECT" /\ requests'[r].pc = "WRITTEN"
      /\ requests'[r].last = last
      /\ \A q \in Requests : q # r => requests'[q] = requests[q]
      /\ eventRows' = eventRows \cup first..last
      /\ tables' = Statements(tables, first, last)
      /\ UNCHANGED <<coordinatorVars, projectedSequence, rebuilds, overlapped>>
  BY RequestFacts DEF WriteBatch, RequestRows
<1>2. \A q \in Requests : q # r => requests'[q].pc = "IDLE"
  BY <1>1, OthersIdle
<1>3. /\ Len(log) \in Nat /\ first \in 1..Len(log) + 1 /\ last \in 0..Len(log)
      /\ first = projectedSequence + 1 /\ first <= last + 1
      /\ projectedSequence \in Nat
  BY <1>1, RequestFacts DEF Converging, Projecting
<1> HIDE DEF first, last
<1>4. Rebuilding' /\ Projecting'
  BY <1>1, <1>2 DEF Rebuilding, Projecting
<1>5. Between'
  <2> SUFFICES ASSUME rebuilds # "TORN" PROVE Between'
    BY <1>1 DEF Between
  <2>1. PICK n \in 0..Len(log) : \E h \in 0..n :
          eventRows = 1..n /\ Tells(tables, h, n) /\ projectedSequence <= h
    BY DEF Converging, Between
  <2>2. PICK h \in 0..n : eventRows = 1..n /\ Tells(tables, h, n) /\ projectedSequence <= h
    BY <2>1
  <2>3. PICK b, d, t, u : /\ b = first /\ d = last /\ t = tables
                          /\ u = Statements(tables, first, last)
    OBVIOUS
  <2>4. /\ n \in Nat /\ h \in Nat /\ b - 1 \in 0..h /\ b \in Nat \ {0} /\ b <= n + 1
        /\ d \in 0..Len(log) /\ b <= d + 1 /\ d \in Nat
    BY <1>3, <2>2, <2>3
  <2>5. Tells(t, b - 1, n)
    BY <2>2, <2>3, <2>4, TellsLess
  <2>6. Tells(u, d, Reach(d, n))
    BY <2>3, <2>4, <2>5, StatementsTell
  <2>7. Reach(d, n) \in 0..Len(log) /\ d \in 0..Reach(d, n)
    BY <1>3, <2>4 DEF Reach
  <2>8. eventRows' = 1..Reach(d, n)
    BY <1>1, <2>2, <2>3, <2>4 DEF Reach
  <2>9. PICK m \in 0..Len(log) : m = Reach(d, n)
    BY <2>7
  <2>10. Tells(tables, d, m)'
    BY <1>1, <2>3, <2>6, <2>9, TellsWritten
  <2>11. projectedSequence <= d
    BY <1>3, <2>3, <2>4
  <2>12. /\ m \in 0..Len(log)' /\ d \in 0..m /\ eventRows' = 1..m
         /\ projectedSequence' <= d
         /\ \A q \in Requests : requests'[q].pc = "WRITTEN" => requests'[q].last <= d
    BY <1>1, <1>2, <2>3, <2>4, <2>7, <2>8, <2>9, <2>11 DEF coordinatorVars
  <2> QED
    BY <2>10, <2>12 DEF Between
<1> QED
  BY <1>4, <1>5

LEMMA ConvergingMark ==
    ASSUME TypeInv, LogTrue, AckInv, Converging, NEW r \in Requests, MarkProjected(r)
    PROVE  Converging'
<1> SUFFICES ASSUME ~overlapped PROVE Between' /\ Rebuilding' /\ Projecting'
  BY DEF Converging, MarkProjected
<1>1. /\ requests[r].pc = "WRITTEN" /\ requests'[r].pc = "IDLE"
      /\ \A q \in Requests : q # r => requests'[q] = requests[q]
      /\ projectedSequence' \in {projectedSequence, requests[r].last}
      /\ UNCHANGED <<coordinatorVars, eventRows, tables, rebuilds, overlapped>>
  BY RequestFacts DEF MarkProjected, Acked, Idle, d1Vars
<1>2. \A q \in Requests : requests'[q].pc = "IDLE"
  BY <1>1, OthersIdle
<1>3. Rebuilding' /\ Projecting'
  BY <1>2 DEF Rebuilding, Projecting
<1>4. Between'
  <2> SUFFICES ASSUME rebuilds # "TORN"
               PROVE  \E n \in 0..Len(log) : \E h \in 0..n :
                        /\ eventRows = 1..n
                        /\ Tells(tables, h, n)'
                        /\ projectedSequence' <= h
    BY <1>1, <1>2 DEF Between, coordinatorVars
  <2>1. PICK n \in 0..Len(log) : \E h \in 0..n :
          /\ eventRows = 1..n
          /\ Tells(tables, h, n)
          /\ projectedSequence <= h
          /\ \A q \in Requests : requests[q].pc = "WRITTEN" => requests[q].last <= h
    BY DEF Converging, Between
  <2>2. PICK h \in 0..n :
          /\ eventRows = 1..n
          /\ Tells(tables, h, n)
          /\ projectedSequence <= h
          /\ \A q \in Requests : requests[q].pc = "WRITTEN" => requests[q].last <= h
    BY <2>1
  <2>3. Tells(tables, h, n)'
    BY <1>1, <2>2, TellsKept DEF coordinatorVars
  <2>4. projectedSequence' <= h
    BY <1>1, <2>2
  <2> QED
    BY <2>2, <2>3, <2>4
<1> QED
  BY <1>3, <1>4

LEMMA ConvergingClear ==
    ASSUME TypeInv, LogTrue, AckInv, Converging, NEW r \in Requests, ClearTables(r)
    PROVE  Converging'
<1> SUFFICES ASSUME ~overlapped PROVE Between' /\ Rebuilding' /\ Projecting'
  BY DEF Converging, ClearTables
<1>1. /\ requests[r].pc = "REBUILD" /\ requests'[r].pc = "CLEARED"
      /\ requests'[r].first = requests[r].first
      /\ requests'[r].last = requests[r].last
      /\ \A q \in Requests : q # r => requests'[q] = requests[q]
      /\ eventRows' = {} /\ tables' = EmptyTables /\ rebuilds' = "TORN"
      /\ UNCHANGED coordinatorVars
  BY RequestFacts DEF ClearTables, RequestRows
<1>2. \A q \in Requests : q # r => requests'[q].pc = "IDLE"
  BY <1>1, OthersIdle
<1>3. requests[r].first = 1 /\ requests[r].last \in Nat
  BY <1>1, RequestFacts DEF AckInv, RebuildsCover
<1>4. Between' /\ Projecting'
  BY <1>1, <1>2 DEF Between, Projecting
<1>5. PICK t : t = EmptyTables
  OBVIOUS
<1>6. Tells(tables, 0, 0)'
  <2>1. 0 \in 0..Len(log)
    BY RequestFacts
  <2> QED
    BY <1>1, <1>5, <2>1, EmptyTells, TellsWritten
<1>7. (requests[r].first - 1)' = 0 /\ requests'[r].first <= requests'[r].last + 1
  BY <1>1, <1>3
<1>8. Tells(tables, requests[r].first - 1, requests[r].first - 1)'
  BY <1>6, <1>7
<1>9. Rebuilding'
  <2>1. eventRows' = 1..requests'[r].first - 1
    BY <1>1, <1>7
  <2> QED
    BY <1>1, <1>2, <1>7, <1>8, <2>1 DEF Rebuilding
<1> QED
  BY <1>4, <1>9

LEMMA ConvergingInsert ==
    ASSUME TypeInv, LogTrue, AckInv, Converging, NEW r \in Requests, InsertPage(r)
    PROVE  Converging'
<1> SUFFICES ASSUME ~overlapped PROVE Between' /\ Rebuilding' /\ Projecting'
  BY DEF Converging, InsertPage
<1> DEFINE first == requests[r].first
           end == requests[r].last
           last == Lesser(first + PageSize - 1, end)
<1>1. /\ requests[r].pc = "CLEARED"
      /\ \A q \in Requests : q # r => requests'[q] = requests[q]
      /\ eventRows' = eventRows \cup first..last
      /\ tables' = Statements(tables, first, last)
      /\ requests'[r].last = end
      /\ \/ last = end /\ requests'[r].pc = "WRITTEN" /\ rebuilds' = "WHOLE"
         \/ /\ requests'[r].pc = "CLEARED" /\ requests'[r].first = last + 1
            /\ rebuilds' = rebuilds
      /\ UNCHANGED <<coordinatorVars, projectedSequence>>
  <2>1. /\ requests[r].pc = "CLEARED"
        /\ eventRows' = eventRows \cup first..last
        /\ tables' = Statements(tables, first, last)
        /\ \/ /\ last = end /\ rebuilds' = "WHOLE"
              /\ requests' = [requests EXCEPT ![r].pc = "WRITTEN"]
           \/ /\ requests' = [requests EXCEPT ![r].first = last + 1]
              /\ rebuilds' = rebuilds
        /\ UNCHANGED <<coordinatorVars, projectedSequence>>
    BY DEF InsertPage
  <2> HIDE DEF last
  <2> QED
    BY <2>1, RequestFacts DEF RequestRows
<1>2. \A q \in Requests : q # r => requests'[q].pc = "IDLE"
  BY <1>1, OthersIdle
<1>3. /\ Len(log) \in Nat /\ first \in 1..Len(log) + 1 /\ end \in 0..Len(log)
      /\ projectedSequence \in Nat /\ projectedSequence <= end
      /\ rebuilds = "TORN" /\ first <= end + 1 /\ eventRows = 1..first - 1
      /\ Tells(tables, first - 1, first - 1)
  BY <1>1, RequestFacts DEF Converging, Rebuilding, AckInv, RebuildsCover
<1>4. last \in 0..end /\ first <= last + 1
  BY <1>3, PageAssumption DEF Lesser
<1> HIDE DEF first, end, last
<1>5. PICK b, d, t, u : /\ b = first /\ d = last /\ t = tables
                        /\ u = Statements(tables, first, last)
  OBVIOUS
<1>6. /\ b \in Nat \ {0} /\ d \in Nat /\ d \in 0..Len(log) /\ b <= d + 1
      /\ b - 1 \in 0..Len(log) /\ b <= (b - 1) + 1
  BY <1>3, <1>4, <1>5
<1>7. Tells(u, d, d)
  <2>1. Tells(u, d, Reach(d, b - 1))
    BY <1>3, <1>5, <1>6, StatementsTell
  <2>2. Reach(d, b - 1) = d
    BY <1>6 DEF Reach
  <2> QED
    BY <2>1, <2>2
<1>8. Tells(tables, d, d)'
  BY <1>1, <1>5, <1>6, <1>7, TellsWritten
<1>9. eventRows' = 1..d
  BY <1>1, <1>3, <1>5, <1>6
<1>10. Projecting'
  BY <1>1, <1>2 DEF Projecting
<1>11. CASE last = end /\ requests'[r].pc = "WRITTEN" /\ rebuilds' = "WHOLE"
  <2>1. Rebuilding'
    BY <1>2, <1>11 DEF Rebuilding
  <2>2. /\ d \in 0..Len(log)' /\ d \in 0..d
        /\ projectedSequence' <= d
        /\ \A q \in Requests : requests'[q].pc = "WRITTEN" => requests'[q].last <= d
    BY <1>1, <1>2, <1>3, <1>5, <1>6, <1>11 DEF coordinatorVars
  <2>3. Between'
    BY <1>8, <1>9, <2>2 DEF Between
  <2> QED
    BY <1>10, <2>1, <2>3
<1>12. CASE /\ requests'[r].pc = "CLEARED" /\ requests'[r].first = last + 1
            /\ rebuilds' = rebuilds
  <2>1. Between'
    BY <1>3, <1>12 DEF Between
  <2>2. (requests[r].first - 1)' = d
    BY <1>5, <1>6, <1>12
  <2>3. Tells(tables, requests[r].first - 1, requests[r].first - 1)'
    BY <1>8, <2>2
  <2>4. requests'[r].first <= requests'[r].last + 1 /\ rebuilds' = "TORN"
    BY <1>1, <1>3, <1>4, <1>12
  <2>5. eventRows' = 1..requests'[r].first - 1
    BY <1>9, <2>2
  <2>6. Rebuilding'
    BY <1>2, <2>3, <2>4, <2>5 DEF Rebuilding
  <2> QED
    BY <1>10, <2>1, <2>6
<1> QED
  BY <1>1, <1>11, <1>12

LEMMA ConvergingAbandon ==
    ASSUME TypeInv, LogTrue, AckInv, Converging, NEW r \in Requests, Abandon(r)
    PROVE  Converging'
<1> SUFFICES ASSUME ~overlapped PROVE Between' /\ Rebuilding' /\ Projecting'
  BY DEF Converging, Abandon
<1>1. /\ requests[r].pc # "IDLE" \/ requests[r] # Idle
      /\ requests'[r].pc = "IDLE"
      /\ \A q \in Requests : q # r => requests'[q] = requests[q]
      /\ UNCHANGED <<coordinatorVars, projectedSequence, eventRows, tables, rebuilds>>
  BY RequestFacts DEF Abandon, Idle, d1Vars
<1>2. Projecting'
  BY <1>1 DEF Converging, Projecting
<1>3. Between'
  <2> SUFFICES ASSUME rebuilds # "TORN"
               PROVE  \E n \in 0..Len(log) : \E h \in 0..n :
                        /\ eventRows = 1..n
                        /\ Tells(tables, h, n)'
                        /\ projectedSequence <= h
                        /\ \A q \in Requests : requests'[q].pc = "WRITTEN" =>
                                                 requests'[q].last <= h
    BY <1>1 DEF Between, coordinatorVars
  <2>1. PICK n \in 0..Len(log) : \E h \in 0..n :
          /\ eventRows = 1..n
          /\ Tells(tables, h, n)
          /\ projectedSequence <= h
          /\ \A q \in Requests : requests[q].pc = "WRITTEN" => requests[q].last <= h
    BY DEF Converging, Between
  <2>2. PICK h \in 0..n :
          /\ eventRows = 1..n
          /\ Tells(tables, h, n)
          /\ projectedSequence <= h
          /\ \A q \in Requests : requests[q].pc = "WRITTEN" => requests[q].last <= h
    BY <2>1
  <2>3. Tells(tables, h, n)'
    BY <1>1, <2>2, TellsKept DEF coordinatorVars
  <2>4. \A q \in Requests : requests'[q].pc = "WRITTEN" => requests'[q].last <= h
    BY <1>1, <2>2
  <2> QED
    BY <2>2, <2>3, <2>4
<1>4. Rebuilding'
  <2> SUFFICES ASSUME NEW q \in Requests, requests'[q].pc = "CLEARED"
               PROVE  /\ rebuilds = "TORN"
                      /\ requests[q].first <= requests[q].last + 1
                      /\ eventRows = 1..requests[q].first - 1
                      /\ Tells(tables, requests[q].first - 1, requests[q].first - 1)'
                      /\ requests'[q] = requests[q]
    BY <1>1 DEF Rebuilding
  <2>1. requests'[q] = requests[q]
    BY <1>1
  <2>2. PICK n : n = requests[q].first - 1
    OBVIOUS
  <2>3. n \in 0..Len(log)
    BY <2>1, <2>2, RequestFacts
  <2>4. /\ rebuilds = "TORN" /\ requests[q].first <= requests[q].last + 1
        /\ eventRows = 1..requests[q].first - 1
        /\ Tells(tables, n, n)
    BY <2>1, <2>2 DEF Converging, Rebuilding
  <2>5. Tells(tables, n, n)'
    BY <1>1, <2>3, <2>4, TellsKept DEF coordinatorVars
  <2>6. n = (requests[q].first - 1)'
    BY <2>1, <2>2
  <2> QED
    BY <2>1, <2>4, <2>5, <2>6
<1> QED
  BY <1>2, <1>3, <1>4

\* Where the projection has caught up, what the invariant says is what the
\* property asks.
LEMMA ConvergedTables == TypeInv /\ LogTrue /\ Converging => ProjectionConverges
<1> SUFFICES ASSUME TypeInv, LogTrue, Converging, ~overlapped, rebuilds # "TORN", CaughtUp
             PROVE  eventRows = 1..Len(log) /\ tables = Expected(Len(log))
  BY DEF ProjectionConverges
<1>1. PICK n \in 0..Len(log) : \E h \in 0..n :
        eventRows = 1..n /\ Tells(tables, h, n) /\ projectedSequence <= h
  BY DEF Converging, Between
<1>2. PICK h \in 0..n : eventRows = 1..n /\ Tells(tables, h, n) /\ projectedSequence <= h
  BY <1>1
<1>3. n = Len(log) /\ h = Len(log)
  BY <1>2 DEF CaughtUp, TypeInv, LogTyped
<1>4. Tells(tables, Len(log), Len(log))
  BY <1>2, <1>3
<1> QED
  BY <1>2, <1>3, <1>4, FinalTables

LEMMA LogKept == LogTrue /\ UNCHANGED coordinatorVars => LogTrue'
BY DEF LogTrue, EventTrue, BoundTo, coordinatorVars

\* With one request at a time, repeated pages and rebuilds, abandoned at any
\* point, leave exactly the rows that the event log implies once they have
\* caught up with it: for any number of events, any page size, any effects.
THEOREM TablesConverge == Spec => []ProjectionConverges
<1> DEFINE Inv == TypeInv /\ AckInv /\ LogTrue /\ Converging
<1>1. Init => Inv
  BY TypeInit, AckInit, ConvergingInit
<1>2. Inv /\ [Next]_vars => Inv'
  <2> SUFFICES ASSUME TypeInv, AckInv, LogTrue, Converging, [Next]_vars PROVE Inv'
    OBVIOUS
  <2>0. Len(log) \in Nat
    BY DEF TypeInv, LogTyped
  <2>1. CASE UNCHANGED vars
    <3>1. UNCHANGED projectionVars /\ UNCHANGED coordinatorVars
      BY <2>1 DEF vars, projectionVars
    <3>2. TypeInv'
      BY <2>1 DEF TypeInv, TablesTyped, LogTyped, RequestsTyped, StartsAtEvent,
                  vars, coordinatorVars, d1Vars
    <3>3. Converging'
      BY <2>0, <3>1, ConvergingUntouched DEF coordinatorVars
    <3> QED
      BY <3>1, <3>2, <3>3, AckUntouched, LogKept
  <2>2. ASSUME NEW r \in Requests,
               \/ StartProject(r) \/ WriteBatch(r) \/ MarkProjected(r)
               \/ StartRebuild(r) \/ ClearTables(r) \/ InsertPage(r)
               \/ Abandon(r)
        PROVE  Inv'
    <3>1. UNCHANGED coordinatorVars
      BY <2>2 DEF StartProject, WriteBatch, MarkProjected, StartRebuild, ClearTables,
                  InsertPage, Abandon, Starts
    <3>2. TypeInv' /\ AckInv'
      BY <2>2, RequestTypeStep, AckStart, AckWrite, AckMark, AckClear, AckInsert,
         AckAbandon
    <3>3. Converging'
      BY <2>2, ConvergingStart, ConvergingWrite, ConvergingMark, ConvergingClear,
         ConvergingInsert, ConvergingAbandon
    <3> QED
      BY <3>1, <3>2, <3>3, LogKept
  <2>3. ASSUME \/ \E step \in Steps, effect \in EffectIds :
                    \/ InitializeWorkflow(step, effect)
                    \/ \E phase \in Phases : OwnerProgress(step, effect, phase)
                    \/ \E action \in ActionIds :
                         \/ \E performs \in BOOLEAN :
                              AcceptCommand(action, step, effect, performs)
                         \/ \E phase \in {"ACCEPTED", "RECEIPTED"} :
                              RecordReceipt(action, step, effect, phase)
               \/ \E id \in CancellationIds : CancelAutomation(id)
               \/ OtherEvent
        PROVE  Inv'
    <3>1. TypeInv' /\ UNCHANGED projectionVars
      BY <2>3, CoordinatorTypeStep
    <3>2. PICK e : AppendsTrue(e)
      BY <2>3, CoordinatorAppends
    <3>3. LogTrue'
      BY <3>2, LogStaysTrue
    <3>4. /\ Len(log') = Len(log) + 1
          /\ \A k \in 1..Len(log) : log'[k] = log[k]
          /\ \A s \in DOMAIN progress : progress'[s].effect = progress[s].effect
      BY <3>2 DEF AppendsTrue, Appends, TypeInv, LogTyped
    <3>5. Len(log) <= Len(log') /\ Len(log') \in Nat
      BY <2>0, <3>4
    <3>6. Converging'
      BY <3>1, <3>4, <3>5, ConvergingUntouched
    <3> QED
      BY <3>1, <3>3, <3>6, AckUntouched
  <2> QED
    BY <2>1, <2>2, <2>3 DEF Next
<1>3. Inv => ProjectionConverges
  BY ConvergedTables
<1> QED
  BY <1>1, <1>2, <1>3, PTL DEF Spec
===============================================================================
