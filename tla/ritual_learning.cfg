\* Two calls under way, four records, lists of three entries, five definitions, room for two runs.
CONSTANTS
    NSteps = 1
    GatedSteps = {}
    Resource = "none"
    StoreLimit = 3
    RunsByBytes = 2
    None = None
    Calls = {c1, c2}
    InitialDefinition <- MCInitial
    Definitions <- MCDefinitions
    Permissions = {"web", "mail"}
    StepKeys = {"ask", "search"}
    Actors = {"STEWARD", "VILLAGER"}
    Queries = {"topic"}
    Domains = {"a", "b", "c"}
    MaxId = 4

SYMMETRY Symmetry

SPECIFICATION Spec

INVARIANTS
    LineageRetained
    DecidedNeverApplied
    RevisionsAreGoverned
    AuthorityNeverGrows

CHECK_DEADLOCK FALSE
