\* The workflow: two steps, four commands of the owner one at a time, two faults.
\* The workspace: three lives and two windows.  The updater: two lives, two checks.
\* Gmail: two connections and two disconnections of the owner, a window reopened once.
CONSTANTS
    NSteps = 2
    MaxAttempts = 3
    None = None
    JournalLimit = 10000
    Pump = pump
    Ops = {op}
    MaxTurns = 2
    MaxReconciles = 1
    MaxActions = 4
    MaxCommands = 4
    MaxFaults = 2
    MaxProcesses = 3
    MaxWindows = 2
    Nil = Nil
    Ladder <- MCLadder
    Archives <- MCArchives
    Checks <- MCChecks
    MaxLives = 2
    Disconnections = {d1, d2}
    Reviews = {r1, r2}
    MaxConnects = 2
    MaxReviews = 2
    MaxTroubles = 1
    MaxReopenings = 1

SPECIFICATION DesktopSpec

INVARIANTS
    QuiescedIsQuiet
    UnknownFinalizeWaits
    InFlightHoldsItsLease
    InputIsOwners
    FencedOnceForgetting
    ReadyIsNewer
    WithdrawnGrantIsGone

PROPERTIES
    ForgottenStaysForgotten

CHECK_DEADLOCK FALSE
