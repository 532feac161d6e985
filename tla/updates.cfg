SPECIFICATION FairSpec
CONSTANTS
  a1 = a1
  a2 = a2
  k1 = k1
  k2 = k2
  Apps = {a1}
  Keys = {k1, k2}
  Dependencies <- NoDependencies
  Namespaced = {}
  Configuration <- NewKeys
  Plans <- SizePlan
  ErrorPages = FALSE
  Settings = {1, 2}
  UserPlans = {5}
  Lagging = {"App"}
  MaxJobs = 2
  MaxVersion = 2
  MaxFaults = 0
  MaxRevision = 8
  Requests <- OneInstallOneUpdate
  MaxCrashes = 0
  MaxThreads = 1
  MaxChecks = 0
  MaxRetries = 30
CHECK_DEADLOCK FALSE
INVARIANTS AnnouncedDiffers
PROPERTIES UpdateIsCleared QuietUpdatesRun ConfigurationsKept StrictLedgerSpec InstallAttended
