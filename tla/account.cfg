\* One owner with one desktop, two devices' calls of one minute, and a deletion
\* that meets two sessions, a grant and two other requests.
SPECIFICATION Spec
CONSTANTS
  None = None
  Nothing = Nothing
  MaxChallenges = 2
  Desktops = {d1}
  MaxConsumptions = 2
  Attempts = 2
  MaxSecrets = 2
  MaxGeneration = 2
  Devices = {q1, q2}
  Calls = {k1, k2, k3}
  Limit = 2
  MaxCount = 1
  MaxSessions = 2
  Grants = {g1}
  Plans = {r1}
  MaxHandlers = 2
  MaxCuts = 1
INVARIANTS
  BudgetBalances
  VerifiedMeansErased
PROPERTIES
  CredentialLife
  DeletionCompletes
CHECK_DEADLOCK FALSE
