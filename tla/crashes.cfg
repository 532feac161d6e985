SPECIFICATION FairSpec
CONSTANTS
  a1 = a1
  a2 = a2
  k1 = k1
  k2 = k2
  Apps = {a1}
  Keys = {}
  Dependencies <- NoDependencies
  Namespaced = {}
  Configuration <- NoConfiguration
  Plans <- NoPlans
  ErrorPages = TRUE
  Settings = {1}
  UserPlans = {0}
  Lagging = {"App", "JobWatcher", "Namespace"}
  MaxJobs = 2
  MaxVersion = 1
  MaxFaults = 1
  MaxRevision = 8
  Requests <- OneInstall
  MaxCrashes = 1
  MaxThreads = 1
  MaxChecks = 1
  MaxRetries = 30
CHECK_DEADLOCK FALSE
INVARIANTS TypeOK TruthfulRecord ReconciledIsRecorded
PROPERTIES JobWatcherReports VersionRecorded LedgerSpec
