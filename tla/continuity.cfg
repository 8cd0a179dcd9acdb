CONSTANTS
    Requests = {r1, r2}
    NoRequest = NoRequest
    Never = Never
    RevisionLife = 1
    GrantLife = 2
    MaxDisturbances = 1
    MaxTime = 2
    MaxRevision = 2
    MaxSequence = 4

SPECIFICATION Spec

INVARIANTS
    SourceCanResume
    AcknowledgedIsFlushed
    RetainedIsChained

SYMMETRY RequestIdentities
CHECK_DEADLOCK FALSE
