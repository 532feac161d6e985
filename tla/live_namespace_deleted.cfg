SPECIFICATION Spec
CONSTANTS
  a1 = a1
  a2 = a2
  k1 = k1
  k2 = k2
  Apps = {a1}
  Keys = {}
  Dependencies <- NoDependencies
  Namespaced = {a1}
  Configuration <- NoConfiguration
  Plans <- NoPlans
  ErrorPages = FALSE
  Settings = {1}
  UserPlans = {0}
  Lagging = {"App"}
  MaxJobs = 4
  MaxVersion = 1
  MaxFaults = 0
  MaxRevision = 8
  Requests <- TwoInstallsOneDelete
  MaxCrashes = 0
  MaxThreads = 0
  MaxChecks = 0
  MaxRetries = 30
CHECK_DEADLOCK FALSE
PROPERTIES LiveNamespaceKept
