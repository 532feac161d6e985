----------------------------- MODULE LedgerProofs -----------------------------
(***************************************************************************)
(* The operator implements the ledger of AppLedger, proved for all values  *)
(* of the constants.  A write that is not refused is made from the stored  *)
(* App, so that each write is a step on the record.  The strict ledger     *)
(* asks for more: no call fails by chance (with a fault an update may lose *)
(* its first write: run update_lost) and the cache of the Apps does not    *)
(* lag, for then the App in the hands of the worker is kept by its         *)
(* finalizer and its status is not cleared, so that no stage writes into   *)
(* an App that has not come so far.                                        *)
(***************************************************************************)
EXTENDS UpdateProofs, NamespaceProofs, ReconciledProofs

\* Where a call of Reconcile goes on with an App without looking at its deletion again.
Staged == {"begun", "dependencies", "record"}

\* An App that nothing takes away.
Safe(a) ==
  /\ apps[a].exists /\ apps[a].finalizer
  /\ \A j \in JobIds : uninstallers[j] \in Bound => jobs[j].app # a

StagedOK ==
  /\ worker.step \in Staged => Safe(worker.app)
  /\ worker.step = "begun" /\ worker.copy.lastStatus # "" => apps[worker.app].lastStatus # ""
  /\ worker.step \in {"dependencies", "record"} => apps[worker.app].lastStatus # ""

\* The Job that the worker is about to record has no entry yet.
FreshOK == worker.step = "record" => apps[worker.app].executed[worker.job] = "none"

\* An App that a call begins with is safe, and has got as far as the call believes.
LEMMA BeginsSafe ==
  ASSUME NamespaceOK, StagedOK, NEW a \in Apps, Begins(a)
  PROVE  Safe(a) /\ (Read(a).lastStatus # "" => apps[a].lastStatus # "")
<1>1. CASE worker.step = "begun" /\ worker.app = a
  BY <1>1 DEF StagedOK, Staged, Read
<1>2. CASE worker.step = "idle" /\ cache[a].exists /\ ~cache[a].deleting /\ cache[a].finalizer
  BY <1>2 DEF NamespaceOK, CacheFollows, UninstallsDeleted, Safe, Read
<1> QED BY <1>1, <1>2 DEF Begins

\* A safe App stays so until the worker starts to uninstall it.
LEMMA SafeStays ==
  ASSUME IInv, CopiesOK, [Next]_vars, NEW a \in Apps, Safe(a), ~Uninstall(a)
  PROVE  Safe(a)'
<1>1. ~RemovesFinalizer(a)
  BY DEF RemovesFinalizer, Safe, Bound
<1>2. apps'[a].exists /\ apps'[a].finalizer
  <2>1. ASSUME NEW new \in AppObjects, Edit(a, apps[a], new), apps'[a] = Stored(apps[a], new)
        PROVE  apps'[a].exists /\ apps'[a].finalizer
    <3>1. new.exists /\ new.finalizer
      BY <1>1, <2>1 DEF Edit, Safe
    <3>2. [new EXCEPT !.revision = apps[a].revision + 1].exists
          /\ [new EXCEPT !.revision = apps[a].revision + 1].finalizer
      BY <3>1 DEF AppObjects
    <3> QED BY <2>1, <3>1, <3>2 DEF Stored
  <2> QED BY <2>1, NextChange DEF Change, Safe
<1>3. ASSUME NEW j \in JobIds, uninstallers'[j] \in Bound
      PROVE  jobs'[j].app # a
  <2> SUFFICES ASSUME uninstallers[j] \in Bound
               PROVE  jobs'[j].app # a
    BY <1>3, UninstallersMove
  <2>1. uninstallers[j] \in Bound
    OBVIOUS
  <2>2. jobs[j].kind = "uninstall" /\ jobs[j].app # a
    BY <2>1 DEF Safe, Bound, IInv, UninstallersOK, Uninstalling
  <2> QED BY <2>2, JobsMove DEF JobsKept
<1> QED BY <1>2, <1>3 DEF Safe

\* Its status is cleared by the update branch only.
LEMMA StatusStays ==
  ASSUME IInv, CopiesOK, [Next]_vars, NEW a \in Apps, apps[a].exists, apps'[a].exists,
         apps[a].lastStatus # ""
  PROVE  apps'[a].lastStatus # "" \/ worker'.step = "update"
<1>1. ASSUME NEW new \in AppObjects, Edit(a, apps[a], new), apps'[a] = Stored(apps[a], new)
      PROVE  apps'[a].lastStatus # "" \/ worker'.step = "update"
  <2>1. ~[NoApp EXCEPT !.revision = apps[a].revision + 1].exists
    BY DEF NoApp
  <2>2. apps'[a].lastStatus = new.lastStatus
    BY <1>1, <2>1, StoredFields
  <2> QED BY <1>1, <2>2 DEF Edit
<1> QED BY <1>1, NextChange DEF Change

\* The entry of a Job that is not watched yet is written by the worker only.
LEMMA NoEntryStays ==
  ASSUME IInv, CopiesOK, [Next]_vars, NEW a \in Apps, NEW j \in JobIds,
         apps[a].executed[j] = "none", ~Records(a, j), ~watcherCache[j].exists
  PROVE  apps'[a].executed[j] = "none"
<1>1. NoApp.executed[j] = "none"
  BY DEF NoApp
<1>2. ASSUME NEW new \in AppObjects, Edit(a, apps[a], new), apps'[a] = Stored(apps[a], new)
      PROVE  apps'[a].executed[j] = "none"
  <2>1. new.executed[j] = "none"
    BY <1>2 DEF Edit
  <2>2. [NoApp EXCEPT !.revision = apps[a].revision + 1].executed = NoApp.executed
    BY DEF NoApp
  <2> QED BY <1>1, <1>2, <2>1, <2>2, StoredFields
<1>3. ASSUME NEW plan, apps'[a] = NewApp(a, plan)
      PROVE  apps'[a].executed[j] = "none"
  <2>1. NewApp(a, plan).executed = NoApp.executed
    BY DEF NewApp, NoApp
  <2> QED BY <1>1, <1>3, <2>1
<1> QED BY <1>2, <1>3, NextChange DEF Change

-----------------------------------------------------------------------------
(***************************************************************************)
(* How the worker comes to these steps.                                    *)
(***************************************************************************)
Stays ==
  /\ worker'.step = worker.step /\ worker'.app = worker.app
  /\ worker'.copy = worker.copy /\ worker'.job = worker.job
Finalizes(a) == AddFinalizer(a) /\ worker' = [At("begun", a) EXCEPT !.copy = apps'[a]]
GoesOn(a) ==
  /\ Begins(a) /\ Read(a).lastStatus # "" /\ UNCHANGED <<apps, uninstallers>>
  /\ worker'.app = a /\ worker'.step \in {"dependencies", "record"}

\* By adding the finalizer, from the first read, or from the stage before.
LEMMA StagedSteps ==
  ASSUME IInv, [Next]_vars, worker'.step \in Staged
  PROVE  Stays \/ \E a \in Apps : Finalizes(a) \/ GoesOn(a)
<1>idle. worker' # Idle
  BY DEF Idle, Staged
<1>at. /\ \A a, copy : worker' # [At("update", a) EXCEPT !.copy = copy]
      /\ \A a, j, copy : worker' # [At("watch", a) EXCEPT !.job = j, !.copy = copy]
  BY DEF At, Idle, Staged
<1>1. CASE UNCHANGED worker
  BY <1>1 DEF Stays
<1>2. CASE External \/ Sync
  BY <1>1, <1>2
     DEF External, Sync, UserCreates, UserUpdates, UserDeletes, Publish, NamespaceFinalized,
         JobCreatesNamespace, JobEnds, CollectJob, CollectWatcher, SyncApp, SyncNamespace,
         SyncWatcher, processVars
<1>3. ASSUME NEW a \in Apps,
             \/ Uninstall(a) \/ ClearStatus(a) \/ RestoreAction(a) \/ PreInstall(a)
             \/ PanicInPreInstall(a) \/ PanicInDependencies(a) \/ StartDependencies(a)
             \/ RecordJob(a) \/ WatchJob(a) \/ Finish(a)
      PROVE  UNCHANGED worker
  <2>1. ~RecordJob(a)
    <3>1. RecordJob(a) => \/ worker' = Idle
                          \/ worker' = [At("watch", a) EXCEPT !.job = worker.job, !.copy = apps'[a]]
      BY DEF RecordJob
    <3>2. worker' # [At("watch", a) EXCEPT !.job = worker.job, !.copy = apps'[a]]
      BY <1>at
    <3> QED BY <1>idle, <3>1, <3>2
  <2>2. ~ClearStatus(a)
    BY <1>at DEF ClearStatus
  <2> QED BY <1>3, <1>idle, <2>1, <2>2
          DEF Uninstall, RestoreAction, PreInstall, PanicInPreInstall, PanicInDependencies,
              StartDependencies, WatchJob, Finish, Restarted
<1>4. ASSUME NEW a \in Apps, AddFinalizer(a)
      PROVE  Finalizes(a)
  BY <1>4, <1>idle DEF AddFinalizer, Finalizes
<1>5. ASSUME NEW a \in Apps, ResolveDependencies(a)
      PROVE  GoesOn(a)
  <2>1. PICK todo : worker' = [At("dependencies", a) EXCEPT !.todo = todo]
    BY <1>5, <1>idle DEF ResolveDependencies
  <2>2. worker'.step = "dependencies" /\ worker'.app = a
    BY <2>1 DEF At, Idle
  <2> QED BY <1>5, <2>2 DEF ResolveDependencies, GoesOn, Installs, WritesApps, restOfProcess
<1>6. ASSUME NEW d \in Apps, CreateDependency(d)
      PROVE  Stays
  <2>1. worker' = [worker EXCEPT !.todo = @ \ {d}]
    BY <1>6, <1>idle DEF CreateDependency
  <2> QED BY <2>1 DEF Stays, IInv, WorkerOK, Workers
<1>7. ASSUME NEW a \in Apps, LaunchJob(a)
      PROVE  GoesOn(a)
  <2>1. PICK j \in JobIds, ok \in BOOLEAN :
          CreateJob(j, "install", a, Read(a), ok) /\ worker' = [At("record", a) EXCEPT !.job = j]
    BY <1>7, <1>idle DEF LaunchJob
  <2>2. worker'.step = "record" /\ worker'.app = a /\ worker'.job = j
    BY <2>1 DEF At, Idle
  <2> QED BY <1>7, <2>1, <2>2 DEF LaunchJob, GoesOn, Installs, restOfProcess, CreateJob, NextJob
<1>8. CASE ReconcileApp
  BY <1>1, <1>3, <1>4, <1>5, <1>6, <1>7, <1>8 DEF ReconcileApp, ReconcileAppOf
<1>9. CASE ReconcileJobWatcher \/ WatchForNewUpdate
  BY <1>1, <1>9, <1>idle
     DEF ReconcileJobWatcher, CheckRunningJob, ReportVerdict, PanicOnNilMap, MarkReconciled,
         WatchForNewUpdate, WakeUp, CheckUpdate, Restarted, restOfSystem, restOfThreads
<1>10. CASE ProcessAppNamespaceDeletion
  BY <1>1, <1>10
     DEF ProcessAppNamespaceDeletion, UninstallerOf, StopWaiting, DeleteNamespace, AwaitNamespace,
         RemoveFinalizer, Release, restOfUninstall
<1>11. CASE Crash \/ UNCHANGED vars
  BY <1>1, <1>11, <1>idle DEF Crash, Restarted, vars, processVars
<1> QED BY <1>2, <1>8, <1>9, <1>10, <1>11 DEF Next

\* Adding the finalizer makes an App safe.
LEMMA FinalizesSafe ==
  ASSUME IInv, NamespaceOK, NEW a \in Apps, Finalizes(a)
  PROVE  Safe(a)'
<1> DEFINE new == [cache[a] EXCEPT !.finalizer = TRUE]
<1>1. /\ cache[a] = apps[a] /\ apps[a].exists /\ ~apps[a].deleting /\ ~apps[a].finalizer
      /\ apps[a] \in AppObjects
  BY DEF Finalizes, AddFinalizer, NamespaceOK, CacheFollows, IInv, AppsOK
<1>2. worker' # Idle
  <2>1. \A copy : [At("begun", a) EXCEPT !.copy = copy].step # Idle.step
    BY DEF At, Idle
  <2> QED BY <2>1 DEF Finalizes
<1>3. WriteApp(a, new)
  BY <1>2 DEF Finalizes, AddFinalizer, UpdateApp
<1>4. apps'[a] = Stored(apps[a], new)
  BY <1>3 DEF WriteApp, IInv, AppsOK
<1>5. /\ new.exists /\ ~new.deleting /\ new.finalizer /\ new \in AppObjects
  BY <1>1 DEF AppObjects
<1> HIDE DEF new
<1>6. apps'[a].exists /\ apps'[a].finalizer
  <2>1. [new EXCEPT !.revision = apps[a].revision + 1].exists
        /\ [new EXCEPT !.revision = apps[a].revision + 1].finalizer
    BY <1>5 DEF AppObjects
  <2> QED BY <1>4, <1>5, <2>1 DEF Stored
<1>7. UNCHANGED <<uninstallers, jobs>>
  BY DEF Finalizes, AddFinalizer, WritesApps, restOfProcess
<1>8. \A j \in JobIds : uninstallers[j] \in Bound => jobs[j].app # a
  BY <1>1 DEF NamespaceOK, UninstallsDeleted
<1> QED BY <1>6, <1>7, <1>8 DEF Safe

\* The invariant is inductive.
LEMMA StagedStaysOK ==
  ASSUME IInv, IInv', CopiesOK, NamespaceOK, StagedOK, [Next]_vars
  PROVE  StagedOK'
<1> SUFFICES ASSUME worker'.step \in Staged
             PROVE  StagedOK'
  BY DEF StagedOK, Staged
<1>1. ASSUME NEW a \in Apps, worker.app = a, Stays
      PROVE  StagedOK'
  <2>1. worker.step \in Staged /\ Safe(a)
    BY <1>1 DEF Stays, StagedOK, Safe
  <2>2. Safe(a)'
    <3>1. ~Uninstall(a)
      BY <2>1 DEF Staged, Uninstall
    <3> QED BY <2>1, <3>1, SafeStays
  <2>3. apps[a].lastStatus # "" => apps'[a].lastStatus # ""
    <3>1. apps[a].exists /\ apps'[a].exists
      BY <2>1, <2>2 DEF Safe
    <3> QED BY <2>1, <3>1, StatusStays DEF Staged
  <2>4. Safe(worker.app)'
    BY <1>1, <2>2 DEF Stays, Safe
  <2>5. /\ worker'.step = "begun" /\ worker'.copy.lastStatus # "" => apps'[worker'.app].lastStatus # ""
        /\ worker'.step \in {"dependencies", "record"} => apps'[worker'.app].lastStatus # ""
    BY <1>1, <2>3 DEF Stays, StagedOK
  <2> QED BY <2>4, <2>5 DEF StagedOK
<1>2. ASSUME NEW a \in Apps, Finalizes(a)
      PROVE  StagedOK'
  <2>1. worker'.step = "begun" /\ worker'.app = a /\ worker'.copy = apps'[a]
    <3>1. worker' = [At("begun", a) EXCEPT !.copy = apps'[a]]
      BY <1>2 DEF Finalizes
    <3> QED BY <3>1 DEF At, Idle
  <2>2. Safe(a)'
    BY <1>2, FinalizesSafe
  <2>3. Safe(worker.app)'
    BY <2>1, <2>2 DEF Safe
  <2> QED BY <2>1, <2>3 DEF StagedOK
<1>3. ASSUME NEW a \in Apps, GoesOn(a)
      PROVE  StagedOK'
  <2>1. /\ worker'.app = a /\ worker'.step \in {"dependencies", "record"}
        /\ UNCHANGED <<apps, uninstallers>> /\ Begins(a) /\ Read(a).lastStatus # ""
    BY <1>3 DEF GoesOn
  <2>2. Safe(a) /\ apps[a].lastStatus # ""
    BY <2>1, BeginsSafe
  <2>3. Safe(a)'
    <3>1. ASSUME NEW j \in JobIds, uninstallers[j] \in Bound
          PROVE  jobs'[j].app # a
      <4>1. jobs[j].kind = "uninstall" /\ jobs[j].app # a
        BY <2>2, <3>1 DEF Safe, Bound, IInv, UninstallersOK, Uninstalling
      <4> QED BY <4>1, JobsMove DEF JobsKept
    <3> QED BY <2>1, <2>2, <3>1 DEF Safe
  <2>4. Safe(worker.app)'
    BY <2>1, <2>3 DEF Safe
  <2> QED BY <2>1, <2>2, <2>4 DEF StagedOK
<1>4. Stays => worker.app \in Apps
  BY DEF Stays, CopiesOK, Staged
<1> QED BY <1>1, <1>2, <1>3, <1>4, StagedSteps

\* The invariant holds throughout, when the cache of the Apps follows.
LEMMA StagedHolds ==
  ASSUME "App" \notin Lagging
  PROVE  Spec => []StagedOK
<1>1. Init => StagedOK
  BY DEF Init, ProcessInit, Idle, StagedOK, Staged
<1>2. IInv /\ IInv' /\ CopiesOK /\ NamespaceOK /\ StagedOK /\ [Next]_vars => StagedOK'
  BY StagedStaysOK
<1> QED BY <1>1, <1>2, InvariantHolds, CopiesAreCoherent, NamespacesHold, PTL DEF Spec

\* So does the other one, whatever lags: the Job is new, and nobody else writes its entry.
LEMMA FreshStaysOK ==
  ASSUME IInv, IInv', CopiesOK, CopiesOK', ReconciledOK, FreshOK, [Next]_vars
  PROVE  FreshOK'
<1> SUFFICES ASSUME worker'.step = "record"
             PROVE  apps'[worker'.app].executed[worker'.job] = "none"
  BY DEF FreshOK
<1>1. worker'.app \in Apps /\ worker'.job \in JobIds
  BY DEF CopiesOK, IInv, WorkerOK
<1>2. CASE UNCHANGED worker
  <2>1. ~watcherCache[worker.job].exists /\ apps[worker.app].executed[worker.job] = "none"
    BY <1>2 DEF ReconciledOK, JobUnwatched, Unwatched, FreshOK
  <2>2. ~Records(worker.app, worker.job)
    BY <1>2 DEF Records
  <2> QED BY <1>1, <1>2, <2>1, <2>2, NoEntryStays
<1>3. CASE Launched
  <2>1. jobs[worker'.job].kind = "none"
    BY <1>3 DEF Launched
  <2>2. ~watcherCache[worker'.job].exists /\ ~Records(worker'.app, worker'.job)
    BY <1>1, <2>1 DEF IInv, WatchersOK, WorkerOK, Records
  <2>3. apps[worker'.app].executed[worker'.job] = "none"
    BY <1>1, <2>1 DEF IInv, AppsOK, Sound
  <2> QED BY <1>1, <2>2, <2>3, NoEntryStays
<1>4. ~Recorded
  BY DEF Recorded
<1> QED BY <1>2, <1>3, <1>4, UnwatchedSteps DEF Unwatched

\* What the ledger rests on; two parts of it on what the world around the operator does.
LedgerOK ==
  /\ FreshOK
  /\ MaxFaults = 0 => UpdateOK
  /\ "App" \notin Lagging => StagedOK

LEMMA LedgerHolds == Spec => []LedgerOK
<1>1. Spec => []FreshOK
  <2>1. Init => FreshOK
    BY DEF Init, ProcessInit, Idle, FreshOK
  <2>2. IInv /\ IInv' /\ CopiesOK /\ CopiesOK' /\ ReconciledOK /\ FreshOK /\ [Next]_vars => FreshOK'
    BY FreshStaysOK
  <2> QED BY <2>1, <2>2, InvariantHolds, CopiesAreCoherent, ReconciledHolds, PTL DEF Spec
<1>2. Spec => [](MaxFaults = 0 => UpdateOK)
  <2>1. CASE MaxFaults = 0
    BY <2>1, UpdatesHold, PTL
  <2>2. CASE MaxFaults # 0
    <3>1. MaxFaults = 0 => UpdateOK
      BY <2>2
    <3> QED BY <3>1, PTL
  <2> QED BY <2>1, <2>2
<1>3. Spec => []("App" \notin Lagging => StagedOK)
  <2>1. CASE "App" \notin Lagging
    BY <2>1, StagedHolds, PTL
  <2>2. CASE "App" \in Lagging
    <3>1. "App" \notin Lagging => StagedOK
      BY <2>2
    <3> QED BY <3>1, PTL
  <2> QED BY <2>1, <2>2
<1>4. FreshOK /\ (MaxFaults = 0 => UpdateOK) /\ ("App" \notin Lagging => StagedOK) => LedgerOK
  BY DEF LedgerOK
<1> QED BY <1>1, <1>2, <1>3, <1>4, PTL

-----------------------------------------------------------------------------
(***************************************************************************)
(* The ledger.                                                             *)
(***************************************************************************)
Rows == [a \in Apps |-> Entry(apps[a])]
Ends == [j \in JobIds |-> Outcome(j)]
LedgerStep == Ledger!Next \/ UNCHANGED <<Rows, Ends>>

\* The record of a free name is blank, and an App that comes into being has a blank one.
LEMMA BlankEntries ==
  /\ \A r : Entry([NoApp EXCEPT !.revision = r]) = Ledger!Blank
  /\ \A a, plan : Entry(NewApp(a, plan)) = [Ledger!Blank EXCEPT !.exists = TRUE]
<1>1. Entry(NoApp) = Ledger!Blank
  BY DEF Entry, NoApp, Ledger!Blank, NoVersion
<1>2. \A r : Entry([NoApp EXCEPT !.revision = r]) = Entry(NoApp)
  BY DEF Entry, NoApp
<1>3. ASSUME NEW a, NEW plan
      PROVE  Entry(NewApp(a, plan)) = [Ledger!Blank EXCEPT !.exists = TRUE]
  <2>1. /\ NewApp(a, plan).exists = TRUE /\ NewApp(a, plan).action = NoApp.action
        /\ NewApp(a, plan).lastStatus = NoApp.lastStatus
        /\ NewApp(a, plan).executed = NoApp.executed /\ NewApp(a, plan).version = NoApp.version
        /\ NewApp(a, plan).newVersion = NoApp.newVersion
    BY NoAppType DEF NewApp, AppObjects
  <2>2. /\ NoApp.action = "install" /\ NoApp.lastStatus = "" /\ NoApp.version = 0
        /\ NoApp.newVersion = 0 /\ NoApp.executed = [j \in JobIds |-> "none"]
    BY DEF NoApp, NoVersion
  <2> DEFINE Blanks == [exists: BOOLEAN, action: {"install"}, lastStatus: {""},
                        executed: [JobIds -> {"none"}], version: {0}, newVersion: {0}]
             blank == Ledger!Blank
             entry == Entry(NewApp(a, plan))
             first == [blank EXCEPT !.exists = TRUE]
  <2>3. /\ blank \in Blanks /\ blank.action = "install" /\ blank.lastStatus = ""
        /\ blank.executed = [j \in JobIds |-> "none"] /\ blank.version = 0 /\ blank.newVersion = 0
    BY DEF Ledger!Blank
  <2>4. /\ entry \in Blanks /\ entry.exists = TRUE
        /\ entry.action = "install" /\ entry.lastStatus = ""
        /\ entry.executed = [j \in JobIds |-> "none"] /\ entry.version = 0 /\ entry.newVersion = 0
    BY <2>1, <2>2 DEF Entry
  <2> HIDE DEF blank, entry
  <2>5. first \in Blanks /\ first.exists = TRUE
    BY <2>3
  <2>6. /\ first.action = blank.action /\ first.lastStatus = blank.lastStatus
        /\ first.executed = blank.executed /\ first.version = blank.version
        /\ first.newVersion = blank.newVersion
    BY <2>3
  <2> HIDE DEF first
  <2>7. entry = [exists |-> entry.exists, action |-> entry.action,
                 lastStatus |-> entry.lastStatus, executed |-> entry.executed,
                 version |-> entry.version, newVersion |-> entry.newVersion]
    BY <2>4
  <2>8. first = [exists |-> first.exists, action |-> first.action,
                 lastStatus |-> first.lastStatus, executed |-> first.executed,
                 version |-> first.version, newVersion |-> first.newVersion]
    BY <2>5
  <2>9. entry = first
    BY <2>3, <2>4, <2>5, <2>6, <2>7, <2>8
  <2> QED BY <2>9 DEF entry, first, blank
<1> QED BY <1>1, <1>2, <1>3

\* Editing an App edits its record.
LEMMA EntryEdits ==
  ASSUME NEW app \in AppObjects, NEW x
  PROVE  /\ Entry([app EXCEPT !.action = x]) = [Entry(app) EXCEPT !.action = x]
         /\ Entry([app EXCEPT !.lastStatus = x]) = [Entry(app) EXCEPT !.lastStatus = x]
         /\ Entry([app EXCEPT !.version = x]) = [Entry(app) EXCEPT !.version = x]
         /\ Entry([app EXCEPT !.newVersion = x]) = [Entry(app) EXCEPT !.newVersion = x]
BY DEF Entry, AppObjects

LEMMA EntryCleared ==
  ASSUME NEW app \in AppObjects
  PROVE  Entry([app EXCEPT !.version = NoVersion, !.lastStatus = "", !.newVersion = NoVersion])
           = [Entry(app) EXCEPT !.lastStatus = "", !.version = 0, !.newVersion = 0]
<1> DEFINE app1 == [app EXCEPT !.version = 0]
           app2 == [app1 EXCEPT !.lastStatus = ""]
           entry == Entry(app)
<1>1. app1 \in AppObjects
  BY BoundsTypes DEF AppObjects
<1>2. Entry(app1) = [entry EXCEPT !.version = 0]
  BY EntryEdits, Zenon
<1>3. app2 \in AppObjects
  <2>1. "" \in Statuses
    BY DEF Statuses
  <2> HIDE DEF app1
  <2> QED BY <1>1, <2>1, AppEdits
<1>4. Entry(app2) = [Entry(app1) EXCEPT !.lastStatus = ""]
  <2> HIDE DEF app1
  <2> QED BY <1>1, EntryEdits, Zenon
<1>5. Entry([app2 EXCEPT !.newVersion = 0]) = [Entry(app2) EXCEPT !.newVersion = 0]
  <2> HIDE DEF app2
  <2> QED BY <1>3, EntryEdits, Zenon
<1>6. [app2 EXCEPT !.newVersion = 0]
        = [app EXCEPT !.version = NoVersion, !.lastStatus = "", !.newVersion = NoVersion]
  BY DEF AppObjects, NoVersion
<1>7. entry = [exists |-> app.exists, action |-> app.action, lastStatus |-> app.lastStatus,
               executed |-> app.executed, version |-> app.version,
               newVersion |-> app.newVersion]
  BY DEF Entry
<1> HIDE DEF entry
<1>8. [[[entry EXCEPT !.version = 0] EXCEPT !.lastStatus = ""] EXCEPT !.newVersion = 0]
        = [entry EXCEPT !.lastStatus = "", !.version = 0, !.newVersion = 0]
  BY <1>7
<1> QED BY <1>2, <1>4, <1>5, <1>6, <1>8 DEF entry

\* The entry of a Job and the status, written together.
Reported(record, j, s) == [record EXCEPT !.lastStatus = s, !.executed[j] = s]

LEMMA EntryReported ==
  ASSUME NEW app \in AppObjects, NEW new \in AppObjects, NEW s, NEW j \in JobIds,
         new.exists = app.exists, new.action = app.action, new.version = app.version,
         new.newVersion = app.newVersion, new.lastStatus = s,
         new.executed = [app.executed EXCEPT ![j] = s]
  PROVE  Entry(new) = Reported(Entry(app), j, s)
<1> DEFINE entry == Entry(app)
<1> DEFINE started == [entry EXCEPT !.lastStatus = s]
           reported == [started EXCEPT !.executed[j] = s]
<1>1. entry = [exists |-> app.exists, action |-> app.action, lastStatus |-> app.lastStatus,
               executed |-> app.executed, version |-> app.version,
               newVersion |-> app.newVersion]
  BY DEF Entry
<1>2. started = [exists |-> app.exists, action |-> app.action, lastStatus |-> s,
                 executed |-> app.executed, version |-> app.version,
                 newVersion |-> app.newVersion]
  <2> HIDE DEF entry
  <2> QED BY <1>1
<1>3. reported = [exists |-> app.exists, action |-> app.action, lastStatus |-> s,
                  executed |-> [app.executed EXCEPT ![j] = s], version |-> app.version,
                  newVersion |-> app.newVersion]
  <2> HIDE DEF started
  <2> QED BY <1>2
<1>4. reported = [Entry(app) EXCEPT !.lastStatus = s, !.executed[j] = s]
  <2> HIDE DEF entry
  <2>1. reported = [entry EXCEPT !.lastStatus = s, !.executed[j] = s]
    BY <1>1
  <2> QED BY <2>1 DEF entry
<1> HIDE DEF reported
<1>5. Entry(new) = reported
  BY <1>3 DEF Entry
<1> QED BY <1>4, <1>5 DEF Reported

\* How the Jobs have ended changes with the Jobs only.
LEMMA EndsStay ==
  ASSUME UNCHANGED jobs
  PROVE  UNCHANGED Ends
BY DEF Ends, Outcome

\* Writing one App changes one record.
LEMMA RowWritten ==
  ASSUME IInv, NEW a \in Apps, NEW new, NEW record, record = Entry(new),
         apps' = [apps EXCEPT ![a] = new], UNCHANGED jobs
  PROVE  Ledger!Becomes(a, record)
<1>1. Rows' = [Rows EXCEPT ![a] = record]
  <2>1. \A b \in Apps : Entry(apps[b])' = IF b = a THEN record ELSE Entry(apps[b])
    BY DEF IInv, AppsOK, Entry
  <2> QED BY <2>1 DEF Rows
<1> QED BY <1>1, EndsStay DEF Ledger!Becomes, Rows, Ends

\* What a write may do to the record: take it away, or change it as the App is changed.
LEMMA WriteMoves ==
  ASSUME IInv, NEW a \in Apps, NEW new \in AppObjects, NEW record, record = Entry(new),
         apps[a].exists, WriteApp(a, new), UNCHANGED jobs
  PROVE  Ledger!Vanish(a) \/ Ledger!Becomes(a, record)
<1>1. Entry([new EXCEPT !.revision = apps[a].revision + 1]) = record
  BY DEF Entry, AppObjects
<1>2. Entry(Stored(apps[a], new)) = record \/ Entry(Stored(apps[a], new)) = Ledger!Blank
  BY <1>1, BlankEntries DEF Stored
<1>3. Entry(Stored(apps[a], new)) = record => Ledger!Becomes(a, record)
  BY RowWritten DEF WriteApp
<1>4. Entry(Stored(apps[a], new)) = Ledger!Blank => Ledger!Becomes(a, Ledger!Blank)
  BY RowWritten DEF WriteApp
<1>5. Rows[a].exists
  BY DEF Rows, Entry
<1> QED BY <1>2, <1>3, <1>4, <1>5 DEF Ledger!Vanish, Rows

\* A step that leaves the Apps and the Jobs alone.
LEMMA LedgerStutters ==
  ASSUME UNCHANGED <<apps, jobs>>
  PROVE  LedgerStep
BY EndsStay DEF LedgerStep, Rows, Entry

\* Writing the record that is there already.
LEMMA SameRecord ==
  ASSUME NEW a \in Apps, Ledger!Becomes(a, Rows[a])
  PROVE  LedgerStep
<1>1. [Rows EXCEPT ![a] = Rows[a]] = Rows
  BY DEF Rows
<1> QED BY <1>1 DEF LedgerStep, Ledger!Becomes, Rows, Ends

\* An update is a step of the ledger if it is one when it is not refused.
LEMMA UpdateLedger ==
  ASSUME IInv, NEW a \in Apps, NEW copy, NEW new \in AppObjects, NEW ok, NEW record,
         record = Entry(new), Coherent(copy, apps[a]), UpdateApp(a, copy, new, ok), UNCHANGED jobs,
         copy = apps[a] /\ apps[a].exists /\ Ledger!Becomes(a, record) => LedgerStep
  PROVE  LedgerStep
<1>1. CASE UNCHANGED apps
  BY <1>1, LedgerStutters
<1>2. CASE Current(a, copy) /\ WriteApp(a, new)
  <2>1. copy = apps[a] /\ apps[a].exists
    BY <1>2, CurrentCopy DEF Current
  <2>2. Ledger!Vanish(a) \/ Ledger!Becomes(a, record)
    BY <1>2, <2>1, WriteMoves
  <2> QED BY <2>1, <2>2 DEF LedgerStep, Ledger!Next
<1> QED BY <1>1, <1>2 DEF UpdateApp

-----------------------------------------------------------------------------
(***************************************************************************)
(* The writers, one by one.                                                *)
(***************************************************************************)
\* The users create, update and delete.
LEMMA UsersLedger ==
  ASSUME IInv, NEW a \in Apps, UserCreates(a) \/ UserUpdates(a) \/ UserDeletes(a)
  PROVE  LedgerStep
<1>1. UNCHANGED jobs /\ Rows[a] = Entry(apps[a]) /\ apps[a] \in AppObjects
  BY DEF UserCreates, UserUpdates, UserDeletes, Rows, IInv, AppsOK
<1>2. CASE UserCreates(a)
  <2>1. PICK plan : apps' = [apps EXCEPT ![a] = NewApp(a, plan)]
    BY <1>2 DEF UserCreates
  <2>2. Entry(NewApp(a, plan)) = [Ledger!Blank EXCEPT !.exists = TRUE]
    BY BlankEntries
  <2>3. Ledger!Becomes(a, [Ledger!Blank EXCEPT !.exists = TRUE])
    BY <1>1, <2>1, <2>2, RowWritten
  <2>4. ~Rows[a].exists
    BY <1>1, <1>2 DEF UserCreates, Entry
  <2> QED BY <2>3, <2>4 DEF LedgerStep, Ledger!Next, Ledger!Appear, Rows
<1>3. CASE UserUpdates(a)
  <2> DEFINE new == [apps[a] EXCEPT !.action = "update"]
             record == [Rows[a] EXCEPT !.action = "update"]
  <2>1. new \in AppObjects /\ record = Entry(new) /\ Rows[a].exists
    <3>1. new \in AppObjects
      BY <1>1 DEF AppObjects
    <3>2. record = Entry(new)
      BY <1>1 DEF AppObjects, Entry
    <3>3. Rows[a].exists
      BY <1>1, <1>3 DEF Entry, UserUpdates
    <3> QED BY <3>1, <3>2, <3>3
  <2>2. Ledger!Vanish(a) \/ Ledger!Becomes(a, record)
    <3>1. WriteApp(a, new) /\ apps[a].exists
      BY <1>3 DEF UserUpdates
    <3> HIDE DEF new, record
    <3> QED BY <1>1, <2>1, <3>1, WriteMoves
  <2>3. Ledger!Becomes(a, record) => Ledger!AskUpdate(a)
    BY <2>1 DEF Ledger!AskUpdate, Rows
  <2> QED BY <2>2, <2>3 DEF LedgerStep, Ledger!Next
<1>4. CASE UserDeletes(a)
  <2> DEFINE new == [apps[a] EXCEPT !.deleting = TRUE]
  <2>1. new \in AppObjects /\ Rows[a] = Entry(new)
    BY <1>1, <1>4 DEF AppObjects, Entry
  <2>2. Ledger!Vanish(a) \/ Ledger!Becomes(a, Rows[a])
    <3>1. WriteApp(a, new) /\ apps[a].exists
      BY <1>4 DEF UserDeletes
    <3> HIDE DEF new
    <3> QED BY <1>1, <2>1, <3>1, WriteMoves
  <2> QED BY <2>2, SameRecord DEF LedgerStep, Ledger!Next
<1> QED BY <1>2, <1>3, <1>4

\* The finalizers are not in the ledger.
LEMMA FinalizersLedger ==
  ASSUME IInv, CopiesOK,
         (\E a \in Apps : AddFinalizer(a)) \/ (\E j \in JobIds : RemoveFinalizer(j))
  PROVE  LedgerStep
<1>1. ASSUME NEW a \in Apps, NEW b \in BOOLEAN, NEW ok, UNCHANGED jobs,
             UpdateApp(a, cache[a], [cache[a] EXCEPT !.finalizer = b], ok)
      PROVE  LedgerStep
  <2> DEFINE new == [cache[a] EXCEPT !.finalizer = b]
             record == Entry(new)
  <2>1. cache[a] \in AppObjects /\ Coherent(cache[a], apps[a])
    BY DEF IInv, CacheOK, CopiesOK
  <2>2. new \in AppObjects
    BY <2>1 DEF AppObjects
  <2>3. ASSUME cache[a] = apps[a], Ledger!Becomes(a, record)
        PROVE  LedgerStep
    <3>1. record = Rows[a]
      BY <2>1, <2>3 DEF Rows, Entry, AppObjects
    <3> HIDE DEF record
    <3> QED BY <2>3, <3>1, SameRecord
  <2> HIDE DEF record
  <2>4. record = Entry(new)
    BY DEF record
  <2> HIDE DEF new
  <2>5. UpdateApp(a, cache[a], new, ok)
    BY <1>1 DEF new
  <2> QED BY <1>1, <2>1, <2>2, <2>3, <2>4, <2>5, UpdateLedger
<1>2. ASSUME NEW a \in Apps, AddFinalizer(a)
      PROVE  LedgerStep
  BY <1>1, <1>2 DEF AddFinalizer, WritesApps
<1>3. ASSUME NEW j \in JobIds, RemoveFinalizer(j)
      PROVE  LedgerStep
  <2>1. jobs[j].app \in Apps
    BY <1>3, UninstallingJob DEF RemoveFinalizer
  <2>2. UNCHANGED jobs
    BY <1>3 DEF RemoveFinalizer, restOfUninstall
  <2>3. CASE UNCHANGED apps
    BY <2>2, <2>3, LedgerStutters
  <2>4. CASE ~UNCHANGED apps
    BY <1>1, <1>3, <2>1, <2>2, <2>4 DEF RemoveFinalizer
  <2> QED BY <2>3, <2>4
<1> QED BY <1>2, <1>3

\* The two writes of the update branch.
LEMMA ClearLedger ==
  ASSUME IInv, CopiesOK, NEW a \in Apps, ClearStatus(a)
  PROVE  LedgerStep
<1> DEFINE new == [Read(a) EXCEPT !.version = NoVersion, !.lastStatus = "",
                                  !.newVersion = NoVersion]
           record == Entry(new)
<1>1. PICK ok \in BOOLEAN : UpdateApp(a, Read(a), new, ok)
  BY DEF ClearStatus
<1>2. /\ Read(a) \in AppObjects /\ Coherent(Read(a), apps[a]) /\ Read(a).action = "update"
      /\ UNCHANGED jobs
  BY ReadCoherent DEF ClearStatus, WritesApps
<1>3. new \in AppObjects
  <2>1. NoVersion \in 0..MaxVersion /\ "" \in Statuses
    BY BoundsTypes DEF NoVersion, Statuses
  <2> QED BY <1>2, <2>1 DEF AppObjects
<1>4. ASSUME Read(a) = apps[a], Ledger!Becomes(a, record)
      PROVE  LedgerStep
  <2>1. record = [Rows[a] EXCEPT !.lastStatus = "", !.version = 0, !.newVersion = 0]
    <3>1. Rows[a] = Entry(Read(a))
      BY <1>4 DEF Rows
    <3> QED BY <1>2, <3>1, EntryCleared, Zenon
  <2>2. Rows[a].action = "update"
    BY <1>2, <1>4 DEF Rows, Entry
  <2> HIDE DEF record
  <2>3. Ledger!Clear(a)
    BY <1>4, <2>1, <2>2 DEF Ledger!Clear, Rows
  <2> QED BY <2>3 DEF LedgerStep, Ledger!Next
<1> HIDE DEF record
<1>5. record = Entry(new)
  BY DEF record
<1> HIDE DEF new
<1> QED BY <1>1, <1>2, <1>3, <1>4, <1>5, UpdateLedger

LEMMA RestoreLedger ==
  ASSUME IInv, CopiesOK, LedgerOK, NEW a \in Apps, RestoreAction(a)
  PROVE  LedgerStep
<1> DEFINE new == [apps[a] EXCEPT !.action = "install"]
           record == Entry(new)
<1>1. PICK ok \in BOOLEAN : UpdateApp(a, worker.copy, new, ok)
  BY DEF RestoreAction, ClearedCopy
<1>2. apps[a] \in AppObjects /\ new \in AppObjects
  BY AppEdits DEF IInv, AppsOK
<1>3. worker.step = "update" /\ worker.app = a /\ UNCHANGED jobs
      /\ Coherent(worker.copy, apps[a])
  BY DEF RestoreAction, WritesApps, CopiesOK, Holding
<1>4. ASSUME worker.copy = apps[a], apps[a].exists, Ledger!Becomes(a, record)
      PROVE  LedgerStep
  <2>1. record = [Rows[a] EXCEPT !.action = "install"]
    BY <1>2 DEF Rows, Entry, AppObjects
  <2>2. MaxFaults > 0 \/ (Rows[a].lastStatus = "" /\ Rows[a].version = 0)
    <3>1. ~Current(a, worker.copy) => FALSE
      BY <1>4 DEF Current
    <3>2. Rows[a].lastStatus = worker.copy.lastStatus /\ Rows[a].version = worker.copy.version
      BY <1>4 DEF Rows, Entry
    <3>3. MaxFaults = 0 =>
            worker.copy.lastStatus = "" /\ worker.copy.version = NoVersion
      BY <1>3, <3>1 DEF LedgerOK, UpdateOK
    <3>4. MaxFaults > 0 \/ MaxFaults = 0
      BY BoundsTypes
    <3> HIDE DEF record
    <3> QED BY <3>2, <3>3, <3>4 DEF NoVersion
  <2>3. Rows[a].action \in {"install", "update"}
    BY <1>2 DEF Rows, Entry, AppObjects
  <2>4. CASE Rows[a].action = "update"
    <3> HIDE DEF record
    <3>1. Ledger!StartUpdate(a)
      BY <1>4, <2>1, <2>2, <2>4 DEF Ledger!StartUpdate, Rows
    <3> QED BY <3>1 DEF LedgerStep, Ledger!Next
  <2>5. CASE Rows[a].action = "install"
    <3>1. record = Rows[a]
      BY <1>2, <2>5 DEF Rows, Entry, AppObjects
    <3> HIDE DEF record
    <3> QED BY <1>4, <3>1, SameRecord
  <2> QED BY <2>3, <2>4, <2>5
<1> HIDE DEF record
<1>5. record = Entry(new)
  BY DEF record
<1> HIDE DEF new
<1> QED BY <1>1, <1>2, <1>3, <1>4, <1>5, UpdateLedger

\* The stages.
LEMMA PreInstallLedger ==
  ASSUME IInv, CopiesOK, NEW a \in Apps, PreInstall(a)
  PROVE  LedgerStep
<1>1. /\ Read(a) \in AppObjects /\ Coherent(Read(a), apps[a]) /\ Read(a).lastStatus = ""
      /\ UNCHANGED jobs
  BY ReadCoherent DEF PreInstall, Installs, WritesApps
<1>2. CASE UNCHANGED apps
  BY <1>1, <1>2, LedgerStutters
<1>3. ASSUME NEW conf \in Downloads(Configuration[a][published[a]], <<>>),
             NEW settings \in Settings, NEW plans, NEW planned \in PlanEntries(Read(a), plans),
             NEW ok \in BOOLEAN,
             UpdateApp(a, Read(a),
                       [Read(a) EXCEPT !.lastStatus = "pre_installation_started",
                                       !.configurations = @ \cup NewEntries(Read(a), conf, settings)
                                                            \cup planned], ok)
      PROVE  LedgerStep
  <2> DEFINE entries == Read(a).configurations \cup NewEntries(Read(a), conf, settings) \cup planned
             new == [Read(a) EXCEPT !.lastStatus = "pre_installation_started",
                                    !.configurations = entries]
             record == Entry(new)
  <2>1. entries \in SUBSET Entries
    <3>1. Read(a).configurations \subseteq Entries
      BY <1>1 DEF AppObjects
    <3>2. NewEntries(Read(a), conf, settings) \subseteq Entries
      BY <1>1, NewEntriesType DEF IInv
    <3>3. planned \subseteq Entries
      BY <1>1, PlanEntriesType
    <3> QED BY <3>1, <3>2, <3>3
  <2>2. /\ new \in AppObjects /\ new.lastStatus = "pre_installation_started"
        /\ new.exists = Read(a).exists /\ new.action = Read(a).action
        /\ new.executed = Read(a).executed /\ new.version = Read(a).version
        /\ new.newVersion = Read(a).newVersion
    <3> HIDE DEF entries
    <3> QED BY <1>1, <2>1 DEF AppObjects, Statuses
  <2>3. UpdateApp(a, Read(a), new, ok)
    BY <1>3
  <2>4. ASSUME Read(a) = apps[a], apps[a].exists, Ledger!Becomes(a, record)
        PROVE  LedgerStep
    <3>1. record = [Rows[a] EXCEPT !.lastStatus = "pre_installation_started"]
      <4> DEFINE app == Read(a)
                 edited == [app EXCEPT !.lastStatus = "pre_installation_started"]
      <4>1. /\ edited.lastStatus = "pre_installation_started"
            /\ edited.exists = app.exists /\ edited.action = app.action
            /\ edited.executed = app.executed /\ edited.version = app.version
            /\ edited.newVersion = app.newVersion
        <5> HIDE DEF app
        <5> QED BY <1>1 DEF app, AppObjects
      <4>2. Entry(edited) = record
        <5> HIDE DEF edited, new
        <5> QED BY <2>2, <4>1 DEF Entry
      <4>3. Entry(edited) = [Entry(Read(a)) EXCEPT !.lastStatus = "pre_installation_started"]
        BY <1>1, EntryEdits, Zenon
      <4>4. Rows[a] = Entry(Read(a))
        BY <2>4 DEF Rows
      <4> HIDE DEF edited, record
      <4> QED BY <4>2, <4>3, <4>4
    <3>2. Rows[a].lastStatus = "" /\ Rows[a].exists
      BY <1>1, <2>4 DEF Rows, Entry
    <3> HIDE DEF record
    <3>3. Ledger!PreInstall(a)
      BY <2>4, <3>1, <3>2 DEF Ledger!PreInstall, Rows
    <3> QED BY <3>3 DEF LedgerStep, Ledger!Next
  <2> HIDE DEF record
  <2>5. record = Entry(new)
    BY DEF record
  <2> HIDE DEF new
  <2> QED BY <1>1, <2>2, <2>3, <2>4, <2>5, UpdateLedger
<1> QED BY <1>2, <1>3 DEF PreInstall

LEMMA CreateLedger ==
  ASSUME IInv, NEW d \in Apps, CreateDependency(d)
  PROVE  LedgerStep
<1>1. UNCHANGED jobs
  BY DEF CreateDependency, WritesApps
<1>2. CASE UNCHANGED apps
  BY <1>1, <1>2, LedgerStutters
<1>3. ASSUME NEW plan, ~apps[d].exists, apps' = [apps EXCEPT ![d] = NewApp(d, plan)]
      PROVE  LedgerStep
  <2>1. Entry(NewApp(d, plan)) = [Ledger!Blank EXCEPT !.exists = TRUE]
    BY BlankEntries
  <2>2. Ledger!Becomes(d, [Ledger!Blank EXCEPT !.exists = TRUE])
    BY <1>1, <1>3, <2>1, RowWritten
  <2>3. ~Rows[d].exists
    BY <1>3 DEF Rows, Entry
  <2> QED BY <2>2, <2>3 DEF LedgerStep, Ledger!Next, Ledger!Appear, Rows
<1> QED BY <1>2, <1>3 DEF CreateDependency, CreateApp

LEMMA StartLedger ==
  ASSUME IInv, CopiesOK, LedgerOK, NEW a \in Apps, StartDependencies(a)
  PROVE  LedgerStep
<1> DEFINE new == [cache[a] EXCEPT !.lastStatus = "dependencies_installation_started"]
           record == Entry(new)
<1>1. /\ cache[a] \in AppObjects /\ new \in AppObjects /\ Coherent(cache[a], apps[a])
      /\ UNCHANGED jobs /\ ("App" \in Lagging \/ apps[a].lastStatus # "")
  <2>1. "dependencies_installation_started" \in Statuses
    BY DEF Statuses
  <2> QED BY <2>1, AppEdits DEF IInv, CacheOK, CopiesOK, LedgerOK, StagedOK, StartDependencies, WritesApps
<1>2. CASE UNCHANGED apps
  BY <1>1, <1>2, LedgerStutters
<1>3. ASSUME NEW ok, UpdateApp(a, cache[a], new, ok)
      PROVE  LedgerStep
  <2>1. ASSUME cache[a] = apps[a], apps[a].exists, Ledger!Becomes(a, record)
        PROVE  LedgerStep
    <3>1. record = [Rows[a] EXCEPT !.lastStatus = "dependencies_installation_started"]
      <4>1. Rows[a] = Entry(cache[a])
        BY <2>1 DEF Rows
      <4>2. record = [Entry(cache[a]) EXCEPT !.lastStatus = "dependencies_installation_started"]
        BY <1>1, EntryEdits, Zenon
      <4> HIDE DEF record
      <4> QED BY <4>1, <4>2
    <3>2. Rows[a].exists /\ ("App" \in Lagging \/ Rows[a].lastStatus # "")
      BY <1>1, <2>1 DEF Rows, Entry
    <3> HIDE DEF record
    <3>3. Ledger!InstallDependencies(a)
      BY <2>1, <3>1, <3>2 DEF Ledger!InstallDependencies, Ledger!Prepared, Rows
    <3> QED BY <3>3 DEF LedgerStep, Ledger!Next
  <2> HIDE DEF record
  <2>2. record = Entry(new)
    BY DEF record
  <2> HIDE DEF new
  <2> QED BY <1>1, <1>3, <2>1, <2>2, UpdateLedger
<1> QED BY <1>2, <1>3 DEF StartDependencies

LEMMA FinishLedger ==
  ASSUME IInv, CopiesOK, NEW a \in Apps, Finish(a)
  PROVE  LedgerStep
<1> DEFINE new == [Read(a) EXCEPT !.version = published[a]]
           record == Entry(new)
<1>1. /\ Read(a) \in AppObjects /\ Coherent(Read(a), apps[a]) /\ UNCHANGED jobs
      /\ Read(a).lastStatus = "installation_finished"
  BY ReadCoherent DEF Finish, Installs, restOfFinish
<1>2. CASE UNCHANGED apps
  BY <1>1, <1>2, LedgerStutters
<1>3. ASSUME NEW ok, UpdateApp(a, Read(a), new, ok), Read(a).version = NoVersion
      PROVE  LedgerStep
  <2>1. published[a] \in 0..MaxVersion /\ published[a] \in 1..MaxVersion
    BY BoundsTypes DEF IInv, CountersOK
  <2>2. new \in AppObjects
    BY <1>1, <2>1, AppEdits
  <2>3. ASSUME Read(a) = apps[a], Ledger!Becomes(a, record)
        PROVE  LedgerStep
    <3>1. record = [Rows[a] EXCEPT !.version = published[a]]
      <4>1. Rows[a] = Entry(Read(a))
        BY <2>3 DEF Rows
      <4>2. record = [Entry(Read(a)) EXCEPT !.version = published[a]]
        BY <1>1, EntryEdits, Zenon
      <4> HIDE DEF record
      <4> QED BY <4>1, <4>2
    <3>2. Rows[a].lastStatus = "installation_finished" /\ Rows[a].version = 0
      BY <1>1, <1>3, <2>3 DEF Rows, Entry, NoVersion
    <3> HIDE DEF record
    <3>3. Ledger!RecordVersion(a)
      BY <2>1, <2>3, <3>1, <3>2 DEF Ledger!RecordVersion, Rows
    <3> QED BY <3>3 DEF LedgerStep, Ledger!Next
  <2> HIDE DEF record
  <2>4. record = Entry(new)
    BY DEF record
  <2> HIDE DEF new
  <2> QED BY <1>1, <1>3, <2>2, <2>3, <2>4, UpdateLedger
<1> QED BY <1>2, <1>3 DEF Finish

LEMMA CheckLedger ==
  ASSUME IInv, CopiesOK, NEW t \in ThreadIds, CheckUpdate(t)
  PROVE  LedgerStep
<1> DEFINE v == News(cache[updateThreads[t].app], updateThreads[t].seen)
<1>1. PICK a \in Apps : a = updateThreads[t].app
  BY DEF CheckUpdate, IInv, ThreadsOK, Threads, NoThread
<1>2. v \in 0..MaxVersion
  BY BoundsTypes, <1>1 DEF CheckUpdate, IInv, ThreadsOK, Threads, NoThread, News, NoVersion
<1>3. cache[a] \in AppObjects /\ Coherent(cache[a], apps[a]) /\ UNCHANGED jobs
  BY DEF IInv, CacheOK, CopiesOK, CheckUpdate, restOfThreads
<1>4. CASE UNCHANGED apps
  BY <1>3, <1>4, LedgerStutters
<1>5. ASSUME NEW ok, UpdateApp(a, cache[a], [cache[a] EXCEPT !.newVersion = v], ok)
      PROVE  LedgerStep
  <2> HIDE DEF v
  <2> DEFINE new == [cache[a] EXCEPT !.newVersion = v]
             record == Entry(new)
  <2>1. new \in AppObjects
    BY <1>2, <1>3, AppEdits
  <2>2. ASSUME cache[a] = apps[a], apps[a].exists, Ledger!Becomes(a, record)
        PROVE  LedgerStep
    <3>1. record = [Rows[a] EXCEPT !.newVersion = v]
      <4>1. Rows[a] = Entry(cache[a])
        BY <2>2 DEF Rows
      <4>2. record = [Entry(cache[a]) EXCEPT !.newVersion = v]
        BY <1>3, EntryEdits, Zenon
      <4> HIDE DEF record
      <4> QED BY <4>1, <4>2
    <3>2. Rows[a].exists
      BY <2>2 DEF Rows, Entry
    <3>3. v \in 1..MaxVersion \cup {0}
      BY <1>2, BoundsTypes
    <3> HIDE DEF record
    <3>4. Ledger!Announce(a)
      BY <2>2, <3>1, <3>2, <3>3 DEF Ledger!Announce, Rows
    <3> QED BY <3>4 DEF LedgerStep, Ledger!Next
  <2> HIDE DEF record
  <2>3. record = Entry(new)
    BY DEF record
  <2>4. UpdateApp(a, cache[a], new, ok)
    BY <1>5
  <2> HIDE DEF new
  <2> QED BY <1>3, <2>1, <2>2, <2>3, <2>4, UpdateLedger
<1> QED BY <1>1, <1>4, <1>5 DEF CheckUpdate

LEMMA RecordLedger ==
  ASSUME IInv, CopiesOK, LedgerOK, NEW a \in Apps, RecordJob(a)
  PROVE  LedgerStep
<1>1. PICK j \in JobIds : j = worker.job
  BY DEF RecordJob, IInv, WorkerOK
<1> DEFINE new == [cache[a] EXCEPT !.lastStatus = "installation_started",
                                   !.lastJob = worker.job,
                                   !.executed = WithEntry(cache[a], worker.job)]
           record == Entry(new)
<1>2. /\ cache[a] \in AppObjects /\ Coherent(cache[a], apps[a]) /\ UNCHANGED jobs
      /\ "App" \in Lagging \/ apps[a].lastStatus # ""
      /\ apps[a].executed[j] = "none"
  BY <1>1 DEF IInv, CacheOK, CopiesOK, LedgerOK, StagedOK, FreshOK, RecordJob, WritesApps
<1>3. CASE UNCHANGED apps
  BY <1>2, <1>3, LedgerStutters
<1>4. ASSUME NEW ok, UpdateApp(a, cache[a], new, ok)
      PROVE  LedgerStep
  <2>1. /\ cache[a].executed \in [JobIds -> JobEntries]
        /\ WithEntry(cache[a], worker.job) \in [JobIds -> JobEntries]
    BY <1>1, <1>2 DEF AppObjects, WithEntry, JobEntries
  <2>2. /\ new \in AppObjects /\ new.executed = WithEntry(cache[a], worker.job)
        /\ new.exists = cache[a].exists /\ new.action = cache[a].action
        /\ new.version = cache[a].version /\ new.newVersion = cache[a].newVersion
        /\ new.lastStatus = "installation_started"
    BY <1>1, <1>2, <2>1 DEF AppObjects, Statuses
  <2>3. new.executed = [cache[a].executed EXCEPT ![j] = "installation_started"]
    BY <1>1, <2>2 DEF WithEntry
  <2>4. ASSUME cache[a] = apps[a], apps[a].exists, Ledger!Becomes(a, record)
        PROVE  LedgerStep
    <3>1. record = Reported(Rows[a], j, "installation_started")
      <4>1. Rows[a] = Entry(cache[a])
        BY <2>4 DEF Rows
      <4>2. record = Reported(Entry(cache[a]), j, "installation_started")
        <5> HIDE DEF new
        <5> QED BY <1>2, <2>2, <2>3, EntryReported
      <4> HIDE DEF record
      <4> QED BY <4>1, <4>2
    <3>2. /\ Rows[a].exists /\ ("App" \in Lagging \/ Rows[a].lastStatus # "")
          /\ Rows[a].executed[j] = "none"
      BY <1>2, <2>4 DEF Rows, Entry
    <3> HIDE DEF record
    <3>3. Ledger!Launch(a, j)
      BY <2>4, <3>1, <3>2 DEF Ledger!Launch, Ledger!Prepared, Rows, Reported
    <3> QED BY <3>3 DEF LedgerStep, Ledger!Next
  <2> HIDE DEF record
  <2>5. record = Entry(new)
    BY DEF record
  <2> HIDE DEF new
  <2> QED BY <1>2, <1>4, <2>2, <2>4, <2>5, UpdateLedger
<1> QED BY <1>3, <1>4 DEF RecordJob

\* The verdict.
LEMMA ReportLedger ==
  ASSUME IInv, CopiesOK, NEW j \in JobIds, ReportVerdict(j)
  PROVE  LedgerStep
<1> DEFINE v == VerdictOf(j)
<1>1. PICK a \in Apps : a = jobs[j].app
  BY DueJob DEF ReportVerdict, Due
<1>2. v \in Verdicts /\ Ends[j] = v
  <2>1. jobs[j].state \in {"complete", "failed"}
    BY DueJob DEF ReportVerdict, Due
  <2> QED BY <2>1 DEF VerdictOf, Verdicts, Ends, Outcome
<1>3. cache[a] \in AppObjects /\ Coherent(cache[a], apps[a]) /\ UNCHANGED jobs
  BY DEF IInv, CacheOK, CopiesOK, ReportVerdict
<1> DEFINE new == WithVerdict(cache[a], j)
           record == Entry(new)
<1>4. PICK ok : UpdateApp(a, cache[a], new, ok)
  BY <1>1 DEF ReportVerdict
<1>5. /\ new \in AppObjects /\ new.lastStatus = v
      /\ new.executed = [cache[a].executed EXCEPT ![j] = v]
      /\ new.version = cache[a].version /\ new.newVersion = cache[a].newVersion
  BY <1>2, <1>3, WithVerdictOK
<1>6. new.exists = cache[a].exists /\ new.action = cache[a].action
  BY <1>3 DEF WithVerdict, AppObjects
<1>7. ASSUME cache[a] = apps[a], apps[a].exists, Ledger!Becomes(a, record)
      PROVE  LedgerStep
  <2>1. record = Reported(Rows[a], j, v)
    <3>1. Rows[a] = Entry(cache[a])
      BY <1>7 DEF Rows
    <3>2. record = Reported(Entry(cache[a]), j, v)
      <4> HIDE DEF new, v
      <4> QED BY <1>3, <1>5, <1>6, EntryReported
    <3> HIDE DEF record, v
    <3> QED BY <3>1, <3>2
  <2>2. Rows[a].exists
    BY <1>7 DEF Rows, Entry
  <2> HIDE DEF record, v
  <2>3. Ledger!Report(a, j)
    BY <1>2, <1>7, <2>1, <2>2 DEF Ledger!Report, Ledger!Verdicts, Rows, Ends, Verdicts, Reported
  <2> QED BY <2>3 DEF LedgerStep, Ledger!Next
<1> HIDE DEF record
<1>8. record = Entry(new)
  BY DEF record
<1> HIDE DEF new
<1> QED BY <1>3, <1>4, <1>5, <1>7, <1>8, UpdateLedger

\* Jobs are created, end and are collected.
LEMMA JobsLedger ==
  ASSUME IInv, UNCHANGED apps,
         \/ \E j \in JobIds : JobEnds(j) \/ CollectJob(j)
         \/ \E j \in JobIds : \E kind, a, owner, ok : CreateJob(j, kind, a, owner, ok)
  PROVE  LedgerStep
<1>1. UNCHANGED Rows
  BY DEF Rows, Entry
<1>2. jobs \in [JobIds -> JobObjects]
  BY DEF IInv, JobsOK
<1>3. ASSUME NEW j \in JobIds, JobEnds(j)
      PROVE  LedgerStep
  <2>1. PICK verdict \in {"complete", "failed"} : jobs' = [jobs EXCEPT ![j].state = verdict]
    BY <1>3 DEF JobEnds
  <2>2. jobs'[j].state = verdict /\ \A i \in JobIds : i # j => jobs'[i] = jobs[i]
    BY <1>2, <1>3, <2>1 DEF JobEnds, JobObjects, NoJobObject
  <2> DEFINE v == IF verdict = "complete" THEN "installation_finished" ELSE "installation_failed"
  <2>3. v \in Ledger!Verdicts
    BY DEF Ledger!Verdicts
  <2>4. Ends[j] = "none"
    BY <1>3 DEF Ends, Outcome, JobEnds
  <2>5. Ends' = [Ends EXCEPT ![j] = v]
    BY <2>2 DEF Ends, Outcome
  <2> HIDE DEF v
  <2>6. Ledger!JobEnds(j)
    BY <1>1, <2>3, <2>4, <2>5 DEF Ledger!JobEnds, Ends, Rows
  <2> QED BY <2>6 DEF LedgerStep, Ledger!Next
<1>4. ASSUME NEW j \in JobIds, CollectJob(j)
      PROVE  LedgerStep
  <2>1. \A i \in JobIds : jobs'[i].state = jobs[i].state
    BY <1>2, <1>4 DEF CollectJob, JobObjects, NoJobObject
  <2> QED BY <1>1, <2>1 DEF LedgerStep, Ends, Outcome
<1>5. ASSUME NEW j \in JobIds, NEW kind, NEW a, NEW owner, NEW ok, CreateJob(j, kind, a, owner, ok)
      PROVE  LedgerStep
  <2>1. jobs[j].state = "running"
    BY <1>2, <1>5 DEF CreateJob, NextJob, JobObjects, NoJobObject
  <2>2. \A i \in JobIds : jobs'[i].state = jobs[i].state
    BY <1>2, <1>5, <2>1 DEF CreateJob
  <2> QED BY <1>1, <2>2 DEF LedgerStep, Ends, Outcome
<1> QED BY <1>3, <1>4, <1>5

\* Every step of the operator is a step of the ledger, or none.
LEMMA NextLedger ==
  ASSUME IInv, CopiesOK, LedgerOK, [Next]_vars
  PROVE  LedgerStep
<1>1. CASE UNCHANGED <<apps, jobs>>
  BY <1>1, LedgerStutters
<1>2. CASE External \/ Sync
  BY <1>1, <1>2, UsersLedger, JobsLedger
     DEF External, Sync, Publish, NamespaceFinalized, JobCreatesNamespace, JobEnds, CollectJob,
         CollectWatcher, SyncApp, SyncNamespace, SyncWatcher
<1>3. CASE ReconcileApp
  <2>1. ASSUME NEW a \in Apps,
               \/ PanicInPreInstall(a) \/ ResolveDependencies(a) \/ PanicInDependencies(a)
               \/ WatchJob(a)
        PROVE  UNCHANGED <<apps, jobs>>
    BY <2>1 DEF PanicInPreInstall, ResolveDependencies, PanicInDependencies, WatchJob, WritesApps,
                Restarted
  <2>2. ASSUME NEW a \in Apps, LaunchJob(a) \/ Uninstall(a)
        PROVE  LedgerStep
    BY <1>1, <2>2, JobsLedger DEF LaunchJob, Uninstall
  <2> QED BY <1>1, <1>3, <2>1, <2>2, FinalizersLedger, ClearLedger, RestoreLedger,
             PreInstallLedger, CreateLedger, StartLedger, RecordLedger, FinishLedger
          DEF ReconcileApp, ReconcileAppOf
<1>4. CASE ReconcileJobWatcher
  BY <1>1, <1>4, ReportLedger
     DEF ReconcileJobWatcher, CheckRunningJob, PanicOnNilMap, MarkReconciled, Restarted
<1>5. CASE WatchForNewUpdate
  BY <1>1, <1>5, CheckLedger DEF WatchForNewUpdate, WakeUp, restOfThreads
<1>6. CASE ProcessAppNamespaceDeletion
  BY <1>1, <1>6, FinalizersLedger
     DEF ProcessAppNamespaceDeletion, UninstallerOf, StopWaiting, DeleteNamespace, AwaitNamespace,
         Release, restOfUninstall
<1>7. CASE Crash \/ UNCHANGED vars
  BY <1>1, <1>7 DEF Crash, Restarted, vars, apiVars
<1> QED BY <1>2, <1>3, <1>4, <1>5, <1>6, <1>7 DEF Next

\* Seen through the status of its Apps the operator is the ledger: with two controllers,
\* goroutines, caches that lag, failing calls, crashes and names used again, each change of the
\* public part of an App is one atomic step made from the record as it is.
THEOREM LedgerIsImplemented == Spec => LedgerSpec
<1>1. Init => Ledger!Init
  <2>1. Entry(NoApp) = Ledger!Blank
    BY DEF Entry, NoApp, Ledger!Blank, NoVersion
  <2>2. \A j \in JobIds : NoJobObject.state = "running"
    BY DEF NoJobObject
  <2> QED BY <2>1, <2>2 DEF Init, ApiInit, Ledger!Init, Outcome
<1>2. IInv /\ CopiesOK /\ LedgerOK /\ [Next]_vars
        => [Ledger!Next]_<<[a \in Apps |-> Entry(apps[a])], [j \in JobIds |-> Outcome(j)]>>
  BY NextLedger DEF LedgerStep, Rows, Ends
<1> QED BY <1>1, <1>2, InvariantHolds, CopiesAreCoherent, LedgerHolds, PTL
        DEF Spec, LedgerSpec, Ledger!Spec

\* When no call fails by chance and the cache of the Apps does not lag, no update starts
\* without having been cleared, and no stage writes into an App that has not come so far.
THEOREM StrictLedgerIsImplemented ==
  ASSUME MaxFaults = 0, "App" \notin Lagging
  PROVE  Spec => StrictLedgerSpec
<1>1. Ledger!Init => StrictLedger!Init
  BY DEF Ledger!Init, StrictLedger!Init, Ledger!Blank, StrictLedger!Blank
<1>2. Ledger!Next => StrictLedger!Next
  <2>1. ~(MaxFaults > 0)
    BY BoundsTypes
  <2> QED BY <2>1
      DEF Ledger!Next, Ledger!Appear, Ledger!Vanish, Ledger!AskUpdate, Ledger!Clear,
          Ledger!StartUpdate, Ledger!PreInstall, Ledger!InstallDependencies, Ledger!RecordVersion,
          Ledger!Announce, Ledger!Launch, Ledger!Report, Ledger!JobEnds, Ledger!Prepared,
          Ledger!Becomes, Ledger!Blank, Ledger!Verdicts,
          StrictLedger!Next, StrictLedger!Appear, StrictLedger!Vanish, StrictLedger!AskUpdate,
          StrictLedger!Clear, StrictLedger!StartUpdate, StrictLedger!PreInstall,
          StrictLedger!InstallDependencies, StrictLedger!RecordVersion, StrictLedger!Announce,
          StrictLedger!Launch, StrictLedger!Report, StrictLedger!JobEnds, StrictLedger!Prepared,
          StrictLedger!Becomes, StrictLedger!Blank, StrictLedger!Verdicts
<1> QED BY <1>1, <1>2, LedgerIsImplemented, PTL
        DEF LedgerSpec, Ledger!Spec, StrictLedgerSpec, StrictLedger!Spec
=============================================================================
