SPECIFICATION FairSpec
CONSTANTS
  a1 = a1
  a2 = a2
  k1 = k1
  k2 = k2
  Apps = {a1}
  Keys = {}
  Dependencies <- NoDependencies
  Namespaced = {}
  Configuration <- NoConfiguration
  Plans <- NoPlans
  ErrorPages = FALSE
  Settings = {1}
  UserPlans = {0}
  Lagging = {"App"}
  MaxJobs = 2
  MaxVersion = 1
  MaxFaults = 0
  MaxRevision = 8
  Requests <- InstallDelete
  MaxCrashes = 0
  MaxThreads = 0
  MaxChecks = 0
  MaxRetries = 30
CHECK_DEADLOCK FALSE
PROPERTIES DeletionCompletes
