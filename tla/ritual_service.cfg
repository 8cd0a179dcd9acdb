\* Claims are served and quits end: two runs, one fault or intervention.
CONSTANTS
    NSteps = 2
    GatedSteps <- Second
    Resource = "research"
    Ids = {1, 2}
    MaxDay = 1
    MaxEvents = 1
    StoreLimit = 3
    RunsByBytes = 2
    None = None

SPECIFICATION FairSpec

PROPERTIES
    ClaimIsServed
    QuitCompletes

CHECK_DEADLOCK FALSE
