\* Two calls at a time; one stored Ritual, which is scheduled and can be learned
\* from or restored once, and a new one that is drafted and approved.
CONSTANTS
    None = None
    Slots = {c1, c2}
    Stored = 1
    StoredRev = 2
    MaxRitual = 3
    LastRev <- LastRevisions
    MaxDraft = 3
    MaxRequest = 2
    Scheduled <- ScheduledRevisions
    Statuses = {"RUNNING", "WAITING_FOR_OWNER", "NEEDS_REVIEW"}

SPECIFICATION Spec

INVARIANTS
    ShownIsOneRevision
    SavesAreAwaited

SYMMETRY SlotSymmetry
CHECK_DEADLOCK FALSE
