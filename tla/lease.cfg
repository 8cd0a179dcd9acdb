\* The lease and its fences: two desktop connections, requests up to one tick late.
CONSTANTS
    NoInstant = NoInstant
    NoConnection = NoConnection
    NoAction = NoAction
    NoBinding = NoBinding
    NoCheckpoint = NoCheckpoint
    Connections = {c1, c2}
    ActionIds = {a1, a2}
    EffectIds = {e1}
    CancellationIds = {}
    NumSteps = 0
    Site = "OWNED_FIXTURE"
    LeaseSpan = 2
    QuotaWindow = 2
    CommandQuota = 1
    RetainedLimit = 2
    MaxTransit = 1
    MaxClock = 3
    MaxEvents = 8
    MaxSequence = 4
    MaxRevision = 2
    Classes = {"IDEMPOTENT"}
    Statuses = {}
    OwnerPhases = {}

SPECIFICATION FairSpec

INVARIANTS
    AlarmTracksLease

PROPERTIES
    ImplementsLeaseGrants
    ArmedLeaseFenced

CHECK_DEADLOCK FALSE
