SPECIFICATION FairSpec
CONSTANTS
  a1 = a1
  a2 = a2
  k1 = k1
  k2 = k2
  Apps = {a1, a2}
  Keys = {k2}
  Dependencies <- Chain
  Namespaced = {a2}
  Configuration <- NoConfiguration
  Plans <- EmptyPlan
  ErrorPages = FALSE
  Settings = {1}
  UserPlans = {0, 5}
  Lagging = {}
  MaxJobs = 2
  MaxVersion = 1
  MaxFaults = 1
  MaxRevision = 8
  Requests <- TwoInstallsOneDelete
  MaxCrashes = 0
  MaxThreads = 0
  MaxChecks = 0
  MaxRetries = 30
CHECK_DEADLOCK FALSE
PROPERTIES DeletionSettles StrandedByErrors
