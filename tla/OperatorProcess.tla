-------------------------- MODULE OperatorProcess --------------------------
(***************************************************************************)
(* The memory of the operator's process: the App controller's worker, the  *)
(* JobWatcher controller's worker, the two global maps and the goroutines. *)
(* main.go runs one manager with one worker for each controller.  A crash  *)
(* and the restart that follows it empty all of it.                        *)
(***************************************************************************)
EXTENDS KubeApi

CONSTANTS           \* bounds of the model
  MaxCrashes,       \* crashes of the process
  MaxThreads,       \* update watcher goroutines that are followed
  MaxChecks         \* checks of a running Job that are counted

ASSUME ProcessBoundsAssumption == MaxCrashes \in Nat /\ MaxThreads \in Nat /\ MaxChecks \in Nat

ThreadIds == 1..MaxThreads

VARIABLES
  worker,           \* the call of AppReconciler.Reconcile under way
  jobWorker,        \* the call of JobWatcherReconciler.Reconcile under way
  terminatingApps,  \* the keys of the map terminatingApps
  updateWatcher,    \* the keys of the map updateWatcher
  updateThreads,    \* the goroutines running WatchForNewUpdate
  uninstallers,     \* the goroutine that waits for each uninstall Job
  crashes,          \* crashes so far
  checks            \* the checks that found each Job running, up to MaxChecks

processVars == <<worker, jobWorker, terminatingApps, updateWatcher, updateThreads,
                 uninstallers, crashes, checks>>

\* Where a call of Reconcile is between two of its API calls:
\*   "begun"         the finalizer has just been added
\*   "update"        the status has been cleared for an update
\*   "dependencies"  creating the Apps of todo
\*   "record"        the install Job has been created
\*   "watch"         the App's status names that Job
WorkerSteps == {"idle", "begun", "update", "dependencies", "record", "watch"}

Workers == [step: WorkerSteps, app: Apps \cup {"none"}, copy: AppObjects,
            job: JobIds \cup {NoJob}, todo: SUBSET Apps]
Idle == [step |-> "idle", app |-> "none", copy |-> NoApp, job |-> NoJob, todo |-> {}]
At(step, a) == [Idle EXCEPT !.step = step, !.app = a]

\* The JobWatcher controller between the two updates of one reconcile.
JobWorkers == [step: {"idle", "verdict"}, job: JobIds \cup {NoJob}]
JobIdle == [step |-> "idle", job |-> NoJob]

\* An update watcher sleeps, then holds the version it has downloaded.
NoThread == [step |-> "free", app |-> "none", seen |-> NoVersion]
Threads == [step: {"asleep", "checking"}, app: Apps, seen: 0..MaxVersion] \cup {NoThread}

\* Where the goroutine of an uninstall Job is:
\*   "job"        waiting for uninstall.sh
\*   "namespace"  about to delete the namespace
\*   "await"      waiting until the namespace is gone
\*   "finalizer"  about to remove the finalizer
\*   "release"    about to release the name in terminatingApps
UninstallSteps == {"none", "job", "namespace", "await", "finalizer", "release"}

ProcessTypeOK ==
  /\ worker \in Workers
  /\ jobWorker \in JobWorkers
  /\ terminatingApps \in SUBSET Apps
  /\ updateWatcher \in SUBSET Apps
  /\ updateThreads \in [ThreadIds -> Threads]
  /\ uninstallers \in [JobIds -> UninstallSteps]
  /\ crashes \in 0..MaxCrashes
  /\ checks \in [JobIds -> 0..MaxChecks]

ProcessInit ==
  /\ worker = Idle
  /\ jobWorker = JobIdle
  /\ terminatingApps = {}
  /\ updateWatcher = {}
  /\ updateThreads = [t \in ThreadIds |-> NoThread]
  /\ uninstallers = [j \in JobIds |-> "none"]
  /\ crashes = 0
  /\ checks = [j \in JobIds |-> 0]

\* The process ends and starts again: its memory is empty and the informers
\* list every object before the controllers start.
Restarted ==
  /\ worker' = Idle
  /\ jobWorker' = JobIdle
  /\ terminatingApps' = {}
  /\ updateWatcher' = {}
  /\ updateThreads' = [t \in ThreadIds |-> NoThread]
  /\ uninstallers' = [j \in JobIds |-> "none"]
  /\ cache' = apps
  /\ watcherCache' = watchers
  /\ namespaceCache' = [a \in Apps |-> namespaces[a] # "absent"]
  /\ UNCHANGED <<apps, jobs, watchers, namespaces, published, faults, requests, checks>>

\* A crash at any moment: an eviction, an upgrade of the operator, a fatal error.
Crash == crashes < MaxCrashes /\ crashes' = crashes + 1 /\ Restarted
=============================================================================
