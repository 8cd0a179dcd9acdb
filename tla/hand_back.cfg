\* Hand-backs from answers read call by call, and recovery of retained actions:
\* takeovers, receipts, results and reconnections in between.
CONSTANTS
    NoInstant = NoInstant
    NoConnection = NoConnection
    NoAction = NoAction
    NoBinding = NoBinding
    NoCheckpoint = NoCheckpoint
    Connections = {c1}
    ActionIds = {a1}
    EffectIds = {e1, e2}
    CancellationIds = {}
    NumSteps = 2
    Site = "OWNED_FIXTURE"
    LeaseSpan = 1
    QuotaWindow = 2
    CommandQuota = 2
    RetainedLimit = 2
    MaxTransit = 0
    MaxClock = 1
    MaxEvents = 7
    MaxSequence = 2
    MaxRevision = 2
    Classes = {}
    Statuses = {"ACCEPTED", "OBSERVATION", "VERIFIED", "UNVERIFIED", "REJECTED", "WAITING_FOR_USER"}
    OwnerPhases = {}
    Readers = {r1}

SPECIFICATION HandBackSpec

INVARIANTS
    ReceiptsMatchEffects
    ActionsRecoverable

SYMMETRY Identities
CHECK_DEADLOCK FALSE
