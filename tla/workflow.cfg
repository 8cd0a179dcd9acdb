\* The workflow of one session: commands, receipts, takeover and hand-back, and
\* cancellations against commands of old and new revisions.
CONSTANTS
    NoInstant = NoInstant
    NoConnection = NoConnection
    NoAction = NoAction
    NoBinding = NoBinding
    NoCheckpoint = NoCheckpoint
    Connections = {c1}
    ActionIds = {a1, a2}
    EffectIds = {e1, e2}
    CancellationIds = {k1, k2}
    NumSteps = 2
    Site = "OWNED_FIXTURE"
    LeaseSpan = 1
    QuotaWindow = 2
    CommandQuota = 2
    RetainedLimit = 2
    MaxTransit = 0
    MaxClock = 1
    MaxEvents = 8
    MaxSequence = 3
    MaxRevision = 3
    Classes = {}
    Statuses = {}
    OwnerPhases = {"ACCEPTED", "RECEIPTED"}

SPECIFICATION Spec

PROPERTIES
    CanceledRevisionFenced
    ImplementsLogicalEffects

SYMMETRY Identities
CHECK_DEADLOCK FALSE
