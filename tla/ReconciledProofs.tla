--------------------------- MODULE ReconciledProofs ---------------------------
(***************************************************************************)
(* A JobWatcher that says reconciled tells the truth, proved for all       *)
(* values of the constants.  Between the two writes of one reconcile lies  *)
(* everything that may happen to the App: the argument is that the verdict *)
(* is there when the first write has succeeded (Verdicted), that no edit   *)
(* takes a verdict away but the entry of a Job which has no JobWatcher     *)
(* yet, and that an App created again has a uid that no JobWatcher of an   *)
(* earlier one has.                                                        *)
(***************************************************************************)
EXTENDS HistoryProofs

AppOf(j) == apps[jobs[j].app]
Verdicted(j) ==
  watchers[j].exists /\ AppOf(j).exists /\ AppOf(j).uid = watchers[j].uid
    => AppOf(j).executed[j] \in Verdicts
Reporting(j) == jobWorker.step = "verdict" /\ jobWorker.job = j

\* Where the worker has a Job that nobody watches yet.
Unwatched == {"record", "watch"}
JobUnwatched(j) == ~watchers[j].exists /\ ~watcherCache[j].exists /\ ~Reporting(j)

ReconciledOK ==
  /\ \A j \in JobIds : watchers[j].exists /\ watchers[j].reconciled => Verdicted(j)
  /\ \A j \in JobIds : Reporting(j) => jobs[j].kind = "install" /\ Verdicted(j)
  /\ \A j \in JobIds : watchers[j].exists => watchers[j].uid <= AppOf(j).revision
  /\ worker.step \in Unwatched => JobUnwatched(worker.job)
  /\ worker.step = "watch" => worker.copy.uid <= apps[worker.app].revision

-----------------------------------------------------------------------------
(***************************************************************************)
(* The moves of the JobWatchers and of the two workers.                    *)
(***************************************************************************)
Created(j) ==
  /\ worker.step = "watch" /\ worker.job = j /\ worker' = Idle
  /\ watchers'[j].exists /\ ~watchers'[j].reconciled /\ watchers'[j].uid = worker.copy.uid
Marked(j) ==
  /\ Reporting(j) /\ watchers[j].exists
  /\ watchers'[j].exists /\ watchers'[j].uid = watchers[j].uid
Collected(j) == ~watchers'[j].exists /\ OwnerGone(jobs[j].app, watchers[j].uid)
WatcherMove(j) ==
  watchers'[j] = watchers[j] \/ Collected(j) \/ Created(j) \/ Marked(j)

\* A JobWatcher is created by the install stage, marked after a verdict, and collected.
LEMMA WatchersMove ==
  ASSUME IInv, [Next]_vars, NEW j \in JobIds
  PROVE  WatcherMove(j)
<1>1. CASE UNCHANGED watchers
  BY <1>1 DEF WatcherMove
<1>2. CASE External \/ Sync
  <2>1. ASSUME NEW i \in JobIds, CollectWatcher(i)
        PROVE  WatcherMove(j)
    <3>1. i # j => watchers'[j] = watchers[j]
      BY <2>1 DEF CollectWatcher, IInv, WatchersOK
    <3>2. i = j => Collected(j)
      BY <2>1 DEF CollectWatcher, Collected, IInv, WatchersOK, WatcherObjects
    <3> QED BY <3>1, <3>2 DEF WatcherMove
  <2> QED BY <1>1, <1>2, <2>1
          DEF External, Sync, UserCreates, UserUpdates, UserDeletes, Publish, NamespaceFinalized,
              JobCreatesNamespace, JobEnds, CollectJob, SyncApp, SyncNamespace, SyncWatcher
<1>3. CASE ReconcileApp
  <2>1. ASSUME NEW a \in Apps, WatchJob(a)
        PROVE  WatcherMove(j)
    <3>1. PICK ok \in BOOLEAN : CreateJobWatcher(worker.job, worker.copy, ok)
      BY <2>1 DEF WatchJob
    <3> DEFINE new == [NoWatcher EXCEPT !.exists = TRUE, !.uid = worker.copy.uid]
    <3>2. CASE watchers' = [watchers EXCEPT ![worker.job] = new]
      <4>1. new.exists /\ ~new.reconciled /\ new.uid = worker.copy.uid
        BY DEF NoWatcher
      <4>2. worker.step = "watch" /\ worker' = Idle
        BY <2>1 DEF WatchJob
      <4>3. worker.job # j => watchers'[j] = watchers[j]
        BY <3>2 DEF IInv, WatchersOK
      <4>4. worker.job = j => watchers'[j] = new
        BY <3>2 DEF IInv, WatchersOK
      <4> HIDE DEF new
      <4> QED BY <4>1, <4>2, <4>3, <4>4 DEF WatcherMove, Created
    <3> QED BY <1>1, <3>1, <3>2 DEF CreateJobWatcher
  <2>2. ASSUME NEW a \in Apps,
               \/ AddFinalizer(a) \/ Uninstall(a) \/ ClearStatus(a) \/ RestoreAction(a)
               \/ PreInstall(a) \/ PanicInPreInstall(a) \/ ResolveDependencies(a)
               \/ CreateDependency(a) \/ PanicInDependencies(a) \/ StartDependencies(a)
               \/ LaunchJob(a) \/ RecordJob(a) \/ Finish(a)
        PROVE  UNCHANGED watchers
    BY <2>2 DEF AddFinalizer, Uninstall, ClearStatus, RestoreAction, PreInstall, PanicInPreInstall,
                ResolveDependencies, CreateDependency, PanicInDependencies, StartDependencies,
                LaunchJob, RecordJob, Finish, WritesApps, Restarted, restOfFinish
  <2> QED BY <1>1, <1>3, <2>1, <2>2 DEF ReconcileApp, ReconcileAppOf
<1>4. CASE ReconcileJobWatcher
  <2>1. ASSUME NEW i \in JobIds, MarkReconciled(i)
        PROVE  WatcherMove(j)
    <3> DEFINE new == [watcherCache[i] EXCEPT !.reconciled = TRUE, !.attempt = @ + 1]
    <3>1. UNCHANGED watchers \/ \E ok \in BOOLEAN :
            watcherCache[i].exists /\ UpdateWatcher(i, watcherCache[i], new, ok)
      BY <2>1 DEF MarkReconciled
    <3>2. ASSUME watcherCache[i].exists, watchers[i] = watcherCache[i],
                 watchers' = [watchers EXCEPT ![i] = new]
          PROVE  WatcherMove(j)
      <4>1. new.exists = watcherCache[i].exists /\ new.uid = watcherCache[i].uid
        BY DEF IInv, WatchersOK, WatcherObjects
      <4>2. Reporting(i)
        BY <2>1 DEF MarkReconciled, Reporting
      <4>3. watchers'[i] = new /\ (i # j => watchers'[j] = watchers[j])
        BY <3>2 DEF IInv, WatchersOK
      <4> HIDE DEF new
      <4> QED BY <3>2, <4>1, <4>2, <4>3 DEF WatcherMove, Marked
    <3> QED BY <1>1, <3>1, <3>2 DEF UpdateWatcher
  <2> QED BY <1>1, <1>4, <2>1
          DEF ReconcileJobWatcher, CheckRunningJob, ReportVerdict, PanicOnNilMap, Restarted
<1>5. CASE WatchForNewUpdate \/ ProcessAppNamespaceDeletion
  BY <1>1, <1>5
     DEF WatchForNewUpdate, WakeUp, CheckUpdate, restOfThreads, ProcessAppNamespaceDeletion,
         UninstallerOf, StopWaiting, DeleteNamespace, AwaitNamespace, RemoveFinalizer, Release,
         restOfUninstall
<1>6. CASE Crash \/ UNCHANGED vars
  BY <1>1, <1>6 DEF Crash, Restarted, vars, apiVars
<1> QED BY <1>2, <1>3, <1>4, <1>5, <1>6 DEF Next

\* The cache has no JobWatcher that the API server does not have or had.
LEMMA WatcherCacheMoves ==
  ASSUME IInv, [Next]_vars, NEW j \in JobIds
  PROVE  watcherCache'[j] = watcherCache[j] \/ watcherCache'[j] = watchers[j]
           \/ watcherCache'[j] = watchers'[j]
<1>1. CASE Informers
  BY <1>1 DEF Informers
<1>2. CASE Restarted
  BY <1>2 DEF Restarted
<1>3. CASE UNCHANGED watcherCache
  BY <1>3
<1>4. CASE External \/ Sync
  <2>1. ASSUME NEW i \in JobIds, SyncWatcher(i)
        PROVE  watcherCache'[j] = watcherCache[j] \/ watcherCache'[j] = watchers[j]
    BY <2>1 DEF SyncWatcher, IInv, WatchersOK
  <2> QED BY <1>1, <1>3, <1>4, <2>1
          DEF External, Sync, UserCreates, UserUpdates, UserDeletes, Publish, NamespaceFinalized,
              JobCreatesNamespace, JobEnds, CollectJob, CollectWatcher, SyncNamespace, SyncApp
<1>5. CASE ReconcileApp
  BY <1>1, <1>2, <1>5
     DEF ReconcileApp, ReconcileAppOf, AddFinalizer, Uninstall, ClearStatus, RestoreAction, PreInstall,
         PanicInPreInstall, ResolveDependencies, CreateDependency, PanicInDependencies,
         StartDependencies, LaunchJob, RecordJob, WatchJob, Finish, WritesApps
<1>6. CASE ReconcileJobWatcher \/ WatchForNewUpdate
  BY <1>1, <1>2, <1>6
     DEF ReconcileJobWatcher, CheckRunningJob, ReportVerdict, PanicOnNilMap, MarkReconciled,
         WatchForNewUpdate, WakeUp, CheckUpdate
<1>7. CASE ProcessAppNamespaceDeletion
  BY <1>1, <1>7
     DEF ProcessAppNamespaceDeletion, UninstallerOf, StopWaiting, DeleteNamespace, AwaitNamespace,
         RemoveFinalizer, Release
<1>8. CASE Crash \/ UNCHANGED vars
  BY <1>2, <1>3, <1>8 DEF Crash, vars, apiVars
<1> QED BY <1>4, <1>5, <1>6, <1>7, <1>8 DEF Next

Kept == UNCHANGED <<watchers, jobWorker>>
Launched ==
  /\ worker'.step = "record" /\ jobs[worker'.job].kind = "none" /\ Kept
Recorded ==
  /\ worker.step = "record" /\ worker'.step = "watch" /\ worker'.job = worker.job
  /\ worker'.app \in Apps /\ worker'.copy = apps'[worker'.app] /\ Kept

\* The worker comes to an unwatched Job by creating it.
LEMMA UnwatchedSteps ==
  ASSUME IInv, [Next]_vars, worker'.step \in Unwatched
  PROVE  UNCHANGED worker \/ Launched \/ Recorded
<1>idle. worker' # Idle
  BY DEF Idle, Unwatched
<1>at. /\ \A a, copy : worker' # [At("begun", a) EXCEPT !.copy = copy]
      /\ \A b, held : worker' # [At("update", b) EXCEPT !.copy = held]
      /\ \A c, todo : worker' # [At("dependencies", c) EXCEPT !.todo = todo]
  BY DEF At, Idle, Unwatched
<1>1. CASE External \/ Sync
  BY <1>1
     DEF External, Sync, UserCreates, UserUpdates, UserDeletes, Publish, NamespaceFinalized,
         JobCreatesNamespace, JobEnds, CollectJob, CollectWatcher, SyncApp, SyncNamespace,
         SyncWatcher, processVars
<1>2. ASSUME NEW a \in Apps,
             \/ AddFinalizer(a) \/ Uninstall(a) \/ ClearStatus(a) \/ RestoreAction(a)
             \/ PreInstall(a) \/ PanicInPreInstall(a) \/ ResolveDependencies(a)
             \/ PanicInDependencies(a) \/ StartDependencies(a) \/ WatchJob(a) \/ Finish(a)
      PROVE  UNCHANGED worker
  BY <1>2, <1>idle, <1>at
     DEF AddFinalizer, Uninstall, ClearStatus, RestoreAction, PreInstall, PanicInPreInstall,
         ResolveDependencies, PanicInDependencies, StartDependencies, WatchJob, Finish, Restarted
<1>3. ASSUME NEW d \in Apps, CreateDependency(d)
      PROVE  FALSE
  <2>1. worker' = Idle \/ worker' = [worker EXCEPT !.todo = @ \ {d}]
    BY <1>3 DEF CreateDependency
  <2>2. worker \in Workers /\ worker.step = "dependencies"
    BY <1>3 DEF CreateDependency, IInv, WorkerOK
  <2> QED BY <1>idle, <2>1, <2>2 DEF Workers, Unwatched
<1>4. ASSUME NEW a \in Apps, LaunchJob(a)
      PROVE  Launched
  <2>1. PICK j \in JobIds, ok \in BOOLEAN :
          CreateJob(j, "install", a, Read(a), ok) /\ worker' = [At("record", a) EXCEPT !.job = j]
    BY <1>4, <1>idle DEF LaunchJob
  <2>2. worker'.step = "record" /\ worker'.job = j
    BY <2>1 DEF At, Idle
  <2>3. Kept
    BY <1>4 DEF LaunchJob, Kept, restOfProcess
  <2> QED BY <2>1, <2>2, <2>3 DEF Launched, CreateJob, NextJob
<1>5. ASSUME NEW a \in Apps, RecordJob(a)
      PROVE  Recorded
  <2>1. worker' = [At("watch", a) EXCEPT !.job = worker.job, !.copy = apps'[a]]
    BY <1>5, <1>idle DEF RecordJob
  <2>2. worker'.step = "watch" /\ worker'.app = a /\ worker'.job = worker.job /\ worker'.copy = apps'[a]
    BY <2>1 DEF At, Idle
  <2>3. worker.step = "record" /\ Kept
    BY <1>5 DEF RecordJob, Kept, WritesApps, restOfProcess
  <2> QED BY <2>2, <2>3 DEF Recorded
<1>6. CASE ReconcileApp
  BY <1>2, <1>3, <1>4, <1>5, <1>6 DEF ReconcileApp, ReconcileAppOf
<1>7. CASE ReconcileJobWatcher \/ WatchForNewUpdate
  BY <1>7, <1>idle
     DEF ReconcileJobWatcher, CheckRunningJob, ReportVerdict, PanicOnNilMap, MarkReconciled,
         WatchForNewUpdate, WakeUp, CheckUpdate, Restarted, restOfSystem, restOfThreads
<1>8. CASE ProcessAppNamespaceDeletion
  BY <1>8
     DEF ProcessAppNamespaceDeletion, UninstallerOf, StopWaiting, DeleteNamespace, AwaitNamespace,
         RemoveFinalizer, Release, restOfUninstall
<1>9. CASE Crash \/ UNCHANGED vars
  BY <1>9, <1>idle DEF Crash, Restarted, vars, processVars
<1> QED BY <1>1, <1>6, <1>7, <1>8, <1>9 DEF Next

\* The JobWatcher controller comes between its two writes by a verdict that was stored.
LEMMA ReportingSteps ==
  ASSUME IInv, [Next]_vars, jobWorker'.step = "verdict"
  PROVE  UNCHANGED jobWorker \/ \E j \in JobIds : ReportVerdict(j) /\ jobWorker'.job = j
<1>idle. jobWorker' # JobIdle
  BY DEF JobIdle
<1>1. CASE External \/ Sync
  BY <1>1
     DEF External, Sync, UserCreates, UserUpdates, UserDeletes, Publish, NamespaceFinalized,
         JobCreatesNamespace, JobEnds, CollectJob, CollectWatcher, SyncApp, SyncNamespace,
         SyncWatcher, processVars
<1>2. CASE ReconcileApp
  BY <1>2, <1>idle
     DEF ReconcileApp, ReconcileAppOf, AddFinalizer, Uninstall, ClearStatus, RestoreAction, PreInstall,
         PanicInPreInstall, ResolveDependencies, CreateDependency, PanicInDependencies,
         StartDependencies, LaunchJob, RecordJob, WatchJob, Finish, WritesApps, Restarted,
         restOfProcess, restOfFinish
<1>3. ASSUME NEW j \in JobIds, ReportVerdict(j)
      PROVE  jobWorker'.job = j
  <2>1. jobWorker' = [step |-> "verdict", job |-> j]
    BY <1>3, <1>idle DEF ReportVerdict
  <2> QED BY <2>1
<1>4. CASE ReconcileJobWatcher
  BY <1>3, <1>4, <1>idle
     DEF ReconcileJobWatcher, CheckRunningJob, PanicOnNilMap, MarkReconciled, Restarted
<1>5. CASE WatchForNewUpdate \/ ProcessAppNamespaceDeletion
  BY <1>5
     DEF WatchForNewUpdate, WakeUp, CheckUpdate, restOfThreads, ProcessAppNamespaceDeletion,
         UninstallerOf, StopWaiting, DeleteNamespace, AwaitNamespace, RemoveFinalizer, Release,
         restOfUninstall
<1>6. CASE Crash \/ UNCHANGED vars
  BY <1>6, <1>idle DEF Crash, Restarted, vars, processVars
<1> QED BY <1>1, <1>2, <1>4, <1>5, <1>6 DEF Next

-----------------------------------------------------------------------------
(***************************************************************************)
(* A verdict stays, once it is stored.                                     *)
(***************************************************************************)
\* What an edit of an App leaves of the entry of a Job.
LEMMA EditKeepsVerdict ==
  ASSUME IInv, NEW a \in Apps, NEW new \in AppObjects, apps'[a] = Stored(apps[a], new),
         NEW j \in JobIds, new.executed[j] \in Verdicts
  PROVE  apps'[a].exists => apps'[a].executed[j] \in Verdicts
<1>1. ~[NoApp EXCEPT !.revision = apps[a].revision + 1].exists
  BY DEF NoApp
<1>2. [new EXCEPT !.revision = apps[a].revision + 1].executed = new.executed
  BY DEF AppObjects
<1> QED BY <1>1, <1>2 DEF Stored

\* No step takes a verdict away from the App that a JobWatcher was made for.
LEMMA VerdictStays ==
  ASSUME IInv, CopiesOK, UidsOK, UidsOK', ReconciledOK, [Next]_vars, NEW j \in JobIds,
         watchers[j].exists, watchers'[j].exists, watchers'[j].uid = watchers[j].uid,
         Verdicted(j)
  PROVE  Verdicted(j)'
<1> DEFINE a == jobs[j].app
<1>1. jobs[j].kind = "install" /\ a \in Apps
  BY DEF IInv, WatchersOK, JobsOK, JobObjects, NoJobObject
<1>2. jobs'[j].app = a
  BY <1>1, JobsMove DEF JobsKept
<1>3. ~Records(a, j)
  BY DEF Records, ReconciledOK, JobUnwatched, Unwatched
<1>4. watchers[j].uid \in Nat /\ watchers[j].uid <= apps[a].revision /\ apps[a].revision \in Nat
  BY <1>1 DEF ReconciledOK, AppOf, IInv, WatchersOK, WatcherObjects, AppsOK, AppObjects
<1> SUFFICES ASSUME apps'[a].exists, apps'[a].uid = watchers[j].uid
             PROVE  apps'[a].executed[j] \in Verdicts
  BY <1>2 DEF Verdicted, AppOf
<1>5. CASE apps'[a] = apps[a]
  BY <1>5 DEF Verdicted, AppOf
<1>6. ASSUME NEW plan \in Nat, apps'[a] = NewApp(a, plan)
      PROVE  FALSE
  <2>1. apps'[a].uid = apps[a].revision + 1
    BY <1>6 DEF NewApp, NoApp
  <2> QED BY <1>4, <2>1
<1>7. ASSUME NEW new \in AppObjects, apps[a].exists, Edit(a, apps[a], new),
             apps'[a] = Stored(apps[a], new)
      PROVE  apps'[a].executed[j] \in Verdicts
  <2>1. apps'[a].uid = apps[a].uid
    <3>1. ~[NoApp EXCEPT !.revision = apps[a].revision + 1].exists
      BY DEF NoApp
    <3>2. [new EXCEPT !.revision = apps[a].revision + 1].uid = new.uid
      BY DEF AppObjects
    <3>3. new.uid = apps[a].uid
      BY <1>7 DEF Edit
    <3> QED BY <1>7, <3>1, <3>2, <3>3 DEF Stored
  <2>2. apps[a].executed[j] \in Verdicts
    BY <1>7, <2>1 DEF Verdicted, AppOf
  <2>3. new.executed[j] \in Verdicts
    BY <1>3, <1>7, <2>2 DEF Edit
  <2> QED BY <1>1, <1>7, <2>3, EditKeepsVerdict
<1> QED BY <1>1, <1>5, <1>6, <1>7, NextChange DEF Change

\* After the first write of the JobWatcher controller the verdict is there.
LEMMA ReportStores ==
  ASSUME IInv, CopiesOK, NEW j \in JobIds, ReportVerdict(j), jobWorker'.step = "verdict"
  PROVE  jobs'[j].kind = "install" /\ Verdicted(j)'
<1> DEFINE a == jobs[j].app
           new == WithVerdict(cache[a], j)
<1>1. a \in Apps /\ jobs[j].state \in {"complete", "failed"} /\ jobs[j].kind = "install"
  BY DueJob DEF ReportVerdict, Due, IInv, WatchersOK
<1>2. VerdictOf(j) \in Verdicts
  BY <1>1 DEF VerdictOf, Verdicts
<1>3. cache[a] \in AppObjects
  BY <1>1 DEF IInv, CacheOK
<1>4. new \in AppObjects /\ new.executed[j] = VerdictOf(j)
  <2>1. new \in AppObjects /\ new.executed = [cache[a].executed EXCEPT ![j] = VerdictOf(j)]
        /\ cache[a].executed \in [JobIds -> JobEntries]
    BY <1>2, <1>3, WithVerdictOK
  <2> QED BY <2>1
<1>5. PICK ok \in BOOLEAN :
        /\ UpdateApp(a, cache[a], new, ok)
        /\ jobWorker' = IF ok THEN [step |-> "verdict", job |-> j] ELSE JobIdle
  BY DEF ReportVerdict
<1>6. ok /\ WriteApp(a, new)
  BY <1>5 DEF UpdateApp, JobIdle
<1>7. apps'[a] = Stored(apps[a], new)
  BY <1>1, <1>6 DEF WriteApp, IInv, AppsOK
<1>8. UNCHANGED jobs
  BY DEF ReportVerdict
<1> HIDE DEF new
<1>9. apps'[a].exists => apps'[a].executed[j] \in Verdicts
  BY <1>1, <1>2, <1>4, <1>7, EditKeepsVerdict
<1> QED BY <1>1, <1>8, <1>9 DEF Verdicted, AppOf

\* The worker and the JobWatcher controller are never at the same Job.
LEMMA UnwatchedStays ==
  ASSUME IInv, IInv', ReconciledOK, [Next]_vars, worker'.step \in Unwatched,
         NEW j \in JobIds, worker'.job = j
  PROVE  JobUnwatched(j)'
<1>1. ~watchers[j].exists /\ ~watcherCache[j].exists /\ ~Reporting(j)
      /\ ~watchers'[j].exists
  <2>1. CASE UNCHANGED worker
    <3>1. ~watchers[j].exists /\ ~watcherCache[j].exists /\ ~Reporting(j)
      BY <2>1 DEF ReconciledOK, JobUnwatched
    <3>2. ~Created(j)
      BY <2>1 DEF Created, Idle, Unwatched
    <3> QED BY <3>1, <3>2, WatchersMove DEF WatcherMove, Collected, Marked
  <2>2. CASE Launched
    <3>1. jobs[j].kind = "none" /\ Kept
      BY <2>2 DEF Launched
    <3>2. ~watchers[j].exists /\ ~watcherCache[j].exists
      BY <3>1 DEF IInv, WatchersOK
    <3>3. ~Reporting(j)
      BY <3>1 DEF ReconciledOK, JobUnwatched
    <3> QED BY <3>1, <3>2, <3>3 DEF Kept
  <2>3. CASE Recorded
    BY <2>3 DEF Recorded, Kept, ReconciledOK, JobUnwatched, Unwatched
  <2> QED BY <2>1, <2>2, <2>3, UnwatchedSteps
<1>2. ~watcherCache'[j].exists
  BY <1>1, WatcherCacheMoves
<1>3. ~Reporting(j)'
  <2>1. CASE jobWorker'.step = "verdict" /\ UNCHANGED jobWorker
    BY <1>1, <2>1 DEF Reporting
  <2>2. ASSUME NEW i \in JobIds, ReportVerdict(i), jobWorker'.job = i
        PROVE  ~Reporting(j)'
    <3>1. watcherCache[i].exists
      BY <2>2 DEF ReportVerdict, Due
    <3>2. i # j
      BY <1>1, <3>1
    <3> QED BY <2>2, <3>2 DEF Reporting
  <2> QED BY <2>1, <2>2, ReportingSteps DEF Reporting
<1> QED BY <1>1, <1>2, <1>3 DEF JobUnwatched

\* The invariant is inductive.
LEMMA ReconciledStaysOK ==
  ASSUME IInv, IInv', CopiesOK, UidsOK, UidsOK', ReconciledOK, [Next]_vars
  PROVE  ReconciledOK'
<1>1. \A j \in JobIds : watchers[j].exists => jobs[j].kind = "install" /\ jobs'[j].app = jobs[j].app
                                              /\ jobs[j].app \in Apps
  BY JobsMove DEF JobsKept, IInv, WatchersOK, JobsOK, JobObjects, NoJobObject
<1>2. \A a \in Apps : apps[a].revision \in Nat /\ apps'[a].revision \in Nat
                      /\ apps[a].revision <= apps'[a].revision
  BY ChangeAdvances, NextChange DEF IInv, AppsOK, AppObjects
<1>3. ASSUME NEW j \in JobIds, watchers'[j].exists, watchers'[j].reconciled
      PROVE  Verdicted(j)'
  <2>1. ~Created(j)
    BY <1>3 DEF Created
  <2>2. /\ watchers[j].exists /\ watchers'[j].uid = watchers[j].uid
        /\ watchers[j].reconciled \/ Reporting(j)
    BY <1>3, <2>1, WatchersMove DEF WatcherMove, Collected, Marked
  <2>3. Verdicted(j)
    BY <2>2 DEF ReconciledOK
  <2> QED BY <1>3, <2>2, <2>3, VerdictStays
<1>4. ASSUME NEW j \in JobIds, Reporting(j)'
      PROVE  jobs'[j].kind = "install" /\ Verdicted(j)'
  <2>1. CASE UNCHANGED jobWorker
    <3>1. Reporting(j) /\ jobs[j].kind = "install" /\ Verdicted(j)
      BY <1>4, <2>1 DEF Reporting, ReconciledOK
    <3>2. jobs'[j].kind = "install"
      BY <3>1, JobsMove DEF JobsKept
    <3>3. ~Created(j)
      BY <3>1 DEF Created, ReconciledOK, JobUnwatched, Unwatched
    <3>4. watchers'[j].exists => watchers[j].exists /\ watchers'[j].uid = watchers[j].uid
      BY <3>3, WatchersMove DEF WatcherMove, Collected, Marked
    <3>5. watchers'[j].exists => Verdicted(j)'
      BY <3>1, <3>4, VerdictStays
    <3>6. ~watchers'[j].exists => Verdicted(j)'
      BY DEF Verdicted
    <3> QED BY <3>2, <3>5, <3>6
  <2>2. ASSUME NEW i \in JobIds, ReportVerdict(i), jobWorker'.job = i
        PROVE  jobs'[j].kind = "install" /\ Verdicted(j)'
    <3>1. i = j /\ jobWorker'.step = "verdict"
      BY <1>4, <2>2 DEF Reporting
    <3> QED BY <2>2, <3>1, ReportStores
  <2> QED BY <1>4, <2>1, <2>2, ReportingSteps DEF Reporting
<1>5. ASSUME NEW j \in JobIds, watchers'[j].exists
      PROVE  watchers'[j].uid <= AppOf(j)'.revision
  <2>1. ASSUME watchers[j].exists, watchers'[j].uid = watchers[j].uid
        PROVE  watchers'[j].uid <= AppOf(j)'.revision
    <3>1. watchers[j].uid \in Nat /\ watchers[j].uid <= apps[jobs[j].app].revision
      BY <2>1 DEF ReconciledOK, AppOf, IInv, WatchersOK, WatcherObjects
    <3> QED BY <1>1, <1>2, <2>1, <3>1 DEF AppOf
  <2>2. CASE Created(j)
    <3>1. worker.step = "watch" /\ worker.job = j /\ watchers'[j].uid = worker.copy.uid
      BY <2>2 DEF Created
    <3>2. jobs[j].kind = "install" /\ jobs[j].app = worker.app /\ worker.app \in Apps
      BY <3>1 DEF IInv, WorkerOK, CopiesOK
    <3>3. jobs'[j].app = worker.app
      BY <3>2, JobsMove DEF JobsKept
    <3>4. worker.copy.uid <= apps[worker.app].revision
      BY <3>1 DEF ReconciledOK
    <3>5. watchers'[j].uid \in Nat
      BY DEF IInv, WatchersOK, WatcherObjects
    <3> QED BY <1>2, <3>1, <3>2, <3>3, <3>4, <3>5 DEF AppOf
  <2> QED BY <1>5, <2>1, <2>2, WatchersMove DEF WatcherMove, Collected, Marked
<1>6. ASSUME worker'.step = "watch"
      PROVE  worker'.copy.uid <= apps'[worker'.app].revision
  <2>1. CASE UNCHANGED worker
    <3>1. worker.copy.uid \in Nat /\ worker.app \in Apps
          /\ worker.copy.uid <= apps[worker.app].revision
      BY <1>6, <2>1 DEF ReconciledOK, CopiesOK, IInv, WorkerOK, Workers, AppObjects
    <3> QED BY <1>2, <2>1, <3>1
  <2>2. CASE Recorded
    BY <2>2 DEF Recorded, UidsOK
  <2>3. ~Launched
    BY <1>6 DEF Launched
  <2> QED BY <1>6, <2>1, <2>2, <2>3, UnwatchedSteps DEF Unwatched
<1>7. ASSUME worker'.step \in Unwatched
      PROVE  JobUnwatched(worker.job)'
  <2>1. worker'.job \in JobIds
    BY <1>7 DEF IInv, WorkerOK, Unwatched
  <2>2. \A j \in JobIds : worker'.job = j => JobUnwatched(j)'
    BY <1>7, UnwatchedStays
  <2> QED BY <2>1, <2>2 DEF JobUnwatched, Reporting
<1> QED BY <1>3, <1>4, <1>5, <1>6, <1>7 DEF ReconciledOK

\* The invariant holds throughout.
LEMMA ReconciledHolds == Spec => []ReconciledOK
<1>1. Init => ReconciledOK
  BY DEF Init, ApiInit, ProcessInit, ReconciledOK, NoWatcher, Reporting, JobIdle, Idle, Unwatched
<1>2. IInv /\ IInv' /\ CopiesOK /\ UidsOK /\ UidsOK' /\ ReconciledOK /\ [Next]_vars => ReconciledOK'
  BY ReconciledStaysOK
<1> QED BY <1>1, <1>2, InvariantHolds, CopiesAreCoherent, UidsAreOK, PTL DEF Spec

\* A JobWatcher that is marked reconciled never leaves the App it was made for without a
\* verdict: not when the App is deleted and created again between the two writes of the
\* JobWatcher controller, not by a copy that is out of date, and not after a crash.
THEOREM ReconciledIsTrue == Spec => []ReconciledIsRecorded
<1>1. ReconciledOK => ReconciledIsRecorded
  BY DEF ReconciledOK, ReconciledIsRecorded, Verdicted, AppOf
<1> QED BY <1>1, ReconciledHolds, PTL

-----------------------------------------------------------------------------
(***************************************************************************)
(* An installation that has started is attended.  The status names its Job *)
(* and the entry of that Job is not a verdict yet, so that its JobWatcher  *)
(* is neither marked nor, as long as the App exists, collected.            *)
(***************************************************************************)
Started(app) == app.lastStatus = "installation_started"
StartedOK(app) ==
  Started(app) => app.lastJob \in JobIds /\ app.executed[app.lastJob] = "installation_started"

AttendedOK ==
  /\ \A a \in Apps : StartedOK(apps[a])
  /\ LET app == apps[worker.app]
     IN  worker.step = "watch" /\ Started(app) /\ app.lastJob = worker.job => app.uid = worker.copy.uid

\* What is stored of an edit is the edit with a new revision, unless the App is gone.
LEMMA StoredFields ==
  ASSUME NEW a \in Apps, NEW new \in AppObjects, apps'[a] = Stored(apps[a], new)
  PROVE  \/ apps'[a] = [NoApp EXCEPT !.revision = apps[a].revision + 1]
         \/ /\ apps'[a].exists = new.exists /\ apps'[a].uid = new.uid
            /\ apps'[a].lastStatus = new.lastStatus /\ apps'[a].lastJob = new.lastJob
            /\ apps'[a].executed = new.executed
BY DEF Stored, AppObjects

\* Where the status of an App says that an installation has started, it said so already for
\* this Job and this App, or the worker has just recorded the Job.
SameStart(a) ==
  /\ apps'[a].exists = apps[a].exists /\ apps'[a].uid = apps[a].uid /\ Started(apps[a])
  /\ apps'[a].lastJob = apps[a].lastJob /\ apps'[a].executed = apps[a].executed
NewStart(a) ==
  LET j == apps'[a].lastJob
  IN  j \in JobIds /\ Records(a, j) /\ apps'[a].executed[j] = "installation_started"
        /\ apps'[a] # apps[a]

LEMMA StartsMove ==
  ASSUME IInv, CopiesOK, [Next]_vars, NEW a \in Apps, Started(apps'[a])
  PROVE  SameStart(a) \/ NewStart(a)
<1>1. CASE apps'[a] = apps[a]
  BY <1>1 DEF SameStart
<1>2. ASSUME NEW plan \in Nat, apps'[a] = NewApp(a, plan)
      PROVE  FALSE
  BY <1>2 DEF Started, NewApp, NoApp
<1>3. ASSUME NEW new \in AppObjects, apps'[a] # apps[a], Edit(a, apps[a], new),
             apps'[a] = Stored(apps[a], new)
      PROVE  SameStart(a) \/ NewStart(a)
  <2>1. [NoApp EXCEPT !.revision = apps[a].revision + 1].lastStatus = ""
    BY DEF NoApp
  <2>2. /\ apps'[a].exists = new.exists /\ apps'[a].uid = new.uid
        /\ apps'[a].lastStatus = new.lastStatus /\ apps'[a].lastJob = new.lastJob
        /\ apps'[a].executed = new.executed
    BY <1>3, <2>1, StoredFields DEF Started
  <2>3. new.exists = apps[a].exists /\ new.uid = apps[a].uid
    BY <1>3 DEF Edit
  <2>4. Starts(a, new) \/ StillStarted(apps[a], new)
    BY <1>3, <2>2 DEF Edit, Started
  <2> QED BY <1>3, <2>2, <2>3, <2>4 DEF Starts, StillStarted, SameStart, NewStart, Started
<1> QED BY <1>1, <1>2, <1>3, NextChange DEF Change

\* The invariant is inductive.
LEMMA AttendedStaysOK ==
  ASSUME IInv, IInv', CopiesOK, CopiesOK', AttendedOK, [Next]_vars
  PROVE  AttendedOK'
<1>1. ASSUME NEW a \in Apps
      PROVE  StartedOK(apps[a])'
  BY StartsMove DEF StartedOK, Started, AttendedOK, SameStart, NewStart
<1>2. ASSUME worker'.step = "watch", Started(apps'[worker'.app]),
             apps'[worker'.app].lastJob = worker'.job
      PROVE  apps'[worker'.app].uid = worker'.copy.uid
  <2>1. worker'.app \in Apps
    BY <1>2 DEF CopiesOK
  <2>2. CASE UNCHANGED worker
    <3>1. ~NewStart(worker.app)
      BY <1>2, <2>2 DEF NewStart, Records
    <3>2. SameStart(worker.app)
      BY <1>2, <2>1, <2>2, <3>1, StartsMove
    <3> QED BY <1>2, <2>2, <3>2 DEF AttendedOK, SameStart
  <2>3. CASE Recorded
    BY <2>3 DEF Recorded
  <2>4. ~Launched
    BY <1>2 DEF Launched
  <2> QED BY <1>2, <2>2, <2>3, <2>4, UnwatchedSteps DEF Unwatched
<1> QED BY <1>1, <1>2 DEF AttendedOK, Started

LEMMA AttendedHolds == Spec => []AttendedOK
<1>1. Init => AttendedOK
  <2>1. ~Started(NoApp) /\ Idle.step # "watch"
    BY DEF Started, NoApp, Idle
  <2> QED BY <2>1 DEF Init, ApiInit, ProcessInit, AttendedOK, StartedOK
<1>2. IInv /\ IInv' /\ CopiesOK /\ CopiesOK' /\ AttendedOK /\ [Next]_vars => AttendedOK'
  BY AttendedStaysOK
<1> QED BY <1>1, <1>2, InvariantHolds, CopiesAreCoherent, PTL DEF Spec

\* The worker leaves an unwatched Job by recording it and then by creating its JobWatcher.
LEMMA UnwatchedLeaves ==
  ASSUME [Next]_vars, worker.step \in Unwatched
  PROVE  UNCHANGED worker \/ Restarted \/ \E a \in Apps : RecordJob(a) \/ WatchJob(a)
<1>1. CASE External \/ Sync
  BY <1>1
     DEF External, Sync, UserCreates, UserUpdates, UserDeletes, Publish, NamespaceFinalized,
         JobCreatesNamespace, JobEnds, CollectJob, CollectWatcher, SyncApp, SyncNamespace,
         SyncWatcher, processVars
<1>2. ASSUME NEW a \in Apps,
             \/ AddFinalizer(a) \/ Uninstall(a) \/ ClearStatus(a) \/ RestoreAction(a)
             \/ PreInstall(a) \/ ResolveDependencies(a) \/ CreateDependency(a)
             \/ StartDependencies(a) \/ LaunchJob(a) \/ Finish(a)
      PROVE  FALSE
  BY <1>2 DEF Unwatched, AddFinalizer, Uninstall, ClearStatus, RestoreAction, PreInstall,
              ResolveDependencies, CreateDependency, StartDependencies, LaunchJob, Finish,
              Installs, Begins
<1>3. ASSUME NEW a \in Apps, PanicInPreInstall(a) \/ PanicInDependencies(a)
      PROVE  Restarted
  BY <1>3 DEF PanicInPreInstall, PanicInDependencies
<1>4. CASE ReconcileApp
  BY <1>2, <1>3, <1>4 DEF ReconcileApp, ReconcileAppOf
<1>5. CASE ReconcileJobWatcher
  BY <1>5 DEF ReconcileJobWatcher, CheckRunningJob, ReportVerdict, PanicOnNilMap, MarkReconciled,
              restOfSystem
<1>6. CASE WatchForNewUpdate \/ ProcessAppNamespaceDeletion
  BY <1>6
     DEF WatchForNewUpdate, WakeUp, CheckUpdate, restOfThreads, ProcessAppNamespaceDeletion,
         UninstallerOf, StopWaiting, DeleteNamespace, AwaitNamespace, RemoveFinalizer, Release,
         restOfUninstall
<1>7. CASE Crash \/ UNCHANGED vars
  BY <1>7 DEF Crash, vars, processVars
<1> QED BY <1>1, <1>4, <1>5, <1>6, <1>7 DEF Next

\* A call that fails is counted.
LEMMA FaultCounts ==
  ASSUME IInv, Fault
  PROVE  faults' > faults
BY BoundsTypes DEF Fault, IInv, CountersOK

Lost == Restarted \/ faults' > faults

\* The worker goes from the record of the Job to its JobWatcher.
LEMMA RecordedIsHeld ==
  ASSUME IInv, [Next]_vars, NEW a \in Apps, NewStart(a), ~Lost
  PROVE  worker'.step = "watch" /\ worker'.app = a /\ worker'.job = apps'[a].lastJob
<1>1. worker.step = "record" /\ worker.app = a /\ worker.job = apps'[a].lastJob
      /\ worker'.step # "record" /\ apps' # apps
  BY DEF NewStart, Records
<1>2. RecordJob(a)
  BY <1>1, UnwatchedLeaves DEF Unwatched, Lost, RecordJob, WatchJob
<1>3. PICK ok \in BOOLEAN :
        /\ \E copy, new : UpdateApp(a, copy, new, ok)
        /\ worker' = IF ok THEN [At("watch", a) EXCEPT !.job = worker.job, !.copy = apps'[a]] ELSE Idle
  BY <1>1, <1>2 DEF RecordJob
<1>4. ok
  BY <1>1, <1>3, FaultCounts DEF UpdateApp, Lost
<1> QED BY <1>1, <1>3, <1>4 DEF At, Idle

\* From there it goes on when the JobWatcher is there.
LEMMA WatchedWhenLeft ==
  ASSUME IInv, IInv', AttendedOK, [Next]_vars, NEW a \in Apps, SameStart(a), ~Lost,
         worker.step = "watch", worker.app = a, worker.job = apps[a].lastJob
  PROVE  Attended(a)'
<1> DEFINE j == apps[a].lastJob
<1>1. CASE UNCHANGED worker
  BY <1>1 DEF Attended, SameStart
<1>2. CASE WatchJob(a)
  <2>1. PICK ok \in BOOLEAN : CreateJobWatcher(j, worker.copy, ok)
    BY <1>2 DEF WatchJob
  <2> DEFINE new == [NoWatcher EXCEPT !.exists = TRUE, !.uid = worker.copy.uid]
  <2>2. watchers' = [watchers EXCEPT ![j] = new]
    BY <2>1, FaultCounts DEF CreateJobWatcher, Lost
  <2>3. new.exists /\ new.uid = worker.copy.uid /\ ~new.reconciled
    BY DEF NoWatcher
  <2>4. worker.copy.uid = apps[a].uid /\ j \in JobIds
    BY DEF AttendedOK, StartedOK, SameStart
  <2>5. watchers'[j] = new
    BY <2>2, <2>4 DEF IInv, WatchersOK
  <2> HIDE DEF new
  <2> QED BY <2>3, <2>4, <2>5 DEF Attended, SameStart
<1> QED BY <1>1, <1>2, UnwatchedLeaves DEF Unwatched, Lost, RecordJob, WatchJob

\* The JobWatcher is not taken away, nor marked.
LEMMA WatchedIsKept ==
  ASSUME IInv, CopiesOK, ReconciledOK, AttendedOK, [Next]_vars, NEW a \in Apps, SameStart(a),
         apps[a].exists, watchers[apps[a].lastJob].exists,
         watchers[apps[a].lastJob].uid = apps[a].uid, ~watchers[apps[a].lastJob].reconciled
  PROVE  Attended(a)'
<1> DEFINE j == apps[a].lastJob
<1>1. j \in JobIds /\ apps[a].executed[j] = "installation_started"
  BY DEF AttendedOK, StartedOK, SameStart
<1>2. jobs[j].app = a
  BY <1>1 DEF IInv, AppsOK, Sound
<1>3. ~Collected(j)
  BY <1>2 DEF Collected, OwnerGone
<1>4. ~Created(j)
  BY DEF Created, ReconciledOK, JobUnwatched, Unwatched
<1>5. ~Marked(j)
  <2>1. ~Verdicted(j)
    BY <1>1, <1>2 DEF Verdicted, AppOf, Verdicts
  <2> QED BY <1>1, <2>1 DEF Marked, ReconciledOK
<1>6. watchers'[j] = watchers[j]
  BY <1>1, <1>3, <1>4, <1>5, WatchersMove DEF WatcherMove
<1> QED BY <1>6 DEF Attended, SameStart

\* An installation that has started is never left alone, with nobody to report on its Job,
\* by anything but the end of the process or a failing call: not by the user who deletes the
\* App or asks for an update, not by the garbage collector that still works on an earlier App
\* of the name, and not by the JobWatcher controller.
THEOREM InstallsAreAttended == Spec => InstallAttended
<1> DEFINE Attends == \A a \in Apps : Attended(a) => Attended(a)' \/ Restarted \/ faults' > faults
<1>1. IInv /\ IInv' /\ CopiesOK /\ ReconciledOK /\ AttendedOK /\ [Next]_vars => [Attends]_vars
  <2> SUFFICES ASSUME IInv, IInv', CopiesOK, ReconciledOK, AttendedOK, [Next]_vars, NEW a \in Apps,
                      Attended(a), ~Lost, apps'[a].exists, Started(apps'[a])
               PROVE  Attended(a)'
    BY DEF Lost, Attended, Started
  <2>1. CASE SameStart(a)
    BY <2>1, WatchedWhenLeft, WatchedIsKept DEF Attended, SameStart, Started
  <2>2. CASE NewStart(a)
    BY <2>2, RecordedIsHeld DEF Attended
  <2> QED BY <2>1, <2>2, StartsMove
<1> QED BY <1>1, InvariantHolds, CopiesAreCoherent, ReconciledHolds, AttendedHolds, PTL
        DEF Spec, InstallAttended
=============================================================================
