\* Three runs, of which the file holds two, of a researching Ritual whose first
\* step the owner approves; two faults or interventions.
CONSTANTS
    NSteps = 2
    GatedSteps <- First
    Resource = "research"
    Ids = {1, 2, 3}
    MaxDay = 1
    MaxEvents = 2
    StoreLimit = 3
    RunsByBytes = 2
    None = None

SPECIFICATION Spec

INVARIANTS
    StoreParses
    ReceiptIffReviewed
    OneOpenRun
    RunningIsAttended
    EnabledIsLatest

PROPERTIES
    OccurrencesGrow

CHECK_DEADLOCK FALSE
