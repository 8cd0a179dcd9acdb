\* Three requests at a time that create, open and cancel two sessions of one
\* job, up to two cancellations being accepted by an object; or two requests
\* that project or rebuild a log of up to four events, the first of which
\* initialized the session.  The two name their identities by the same values
\* (MCSessionRows).
CONSTANTS
    Sessions = {s1, s2}
    CancelIds = {a1, a2}
    Handlers = {r1, r2, r3}
    NoSession = NoSession
    NoRevision = NoRevision
    NoAction = NoAction
    NoActor = NoActor
    Steps = {s1, s2}
    ActionIds = {a1, a2}
    EffectIds = {e1, e2}
    CancellationIds = {c1}
    Phases = {"ACCEPTED", "RECEIPTED"}
    Requests = {r1, r2}
    PageSize = 2
    MaxEvents = 4

SPECIFICATION RowsSpec

INVARIANTS
    OneCoordinatorPerJob
    AckedEventsProjected
    ProjectionConverges

PROPERTIES
    CanceledJobStays

CONSTRAINT SomethingClaimed
SYMMETRY Identities
CHECK_DEADLOCK FALSE
