---------------------------- MODULE UpdateProofs ----------------------------
(***************************************************************************)
(* The update branch clears the status before it sets the action back,     *)
(* proved for every catalogue and any lag of the caches, when no call      *)
(* fails by chance.  The branch ignores the result of its first write;     *)
(* what helps is that the second is made from the same copy: when the      *)
(* first was refused the copy is out of date, and stays so, hence the      *)
(* second is refused as well.                                              *)
(***************************************************************************)
EXTENDS HistoryProofs

\* The worker between the two writes of the update branch: it has cleared the status, or
\* its copy is out of date.
UpdateOK ==
  worker.step = "update" =>
    \/ ~Current(worker.app, worker.copy)
    \/ worker.copy.lastStatus = "" /\ worker.copy.version = NoVersion

\* A copy that is out of date stays so.
LEMMA StaleStays ==
  ASSUME IInv, NEW a \in Apps, Change(a), NEW copy \in AppObjects, Coherent(copy, apps[a]),
         ~Current(a, copy)
  PROVE  ~Current(a, copy)'
<1>1. copy.revision \in Nat /\ apps[a].revision \in Nat
  BY DEF IInv, AppsOK, AppObjects
<1>2. CASE apps'[a] = apps[a]
  BY <1>2 DEF Current
<1>3. CASE apps'[a].revision = apps[a].revision + 1
  BY <1>1, <1>3 DEF Coherent, Current
<1> QED BY <1>2, <1>3, ChangeAdvances

\* Without faults, clearing the status leaves a cleared copy or one that is out of date.
LEMMA ClearStatusClears ==
  ASSUME IInv, MaxFaults = 0, NEW a \in Apps, ClearStatus(a)
  PROVE  UpdateOK'
<1> DEFINE new == [Read(a) EXCEPT !.version = NoVersion, !.lastStatus = "",
                                  !.newVersion = NoVersion]
<1>1. PICK ok \in BOOLEAN :
        /\ UpdateApp(a, Read(a), new, ok)
        /\ worker' = [At("update", a) EXCEPT !.copy = IF ok THEN apps'[a] ELSE Read(a)]
  BY DEF ClearStatus
<1>2. ~Fault
  BY DEF Fault, IInv, CountersOK
<1>3. Read(a) \in AppObjects
  BY ReadOK DEF ClearStatus
<1>4. worker'.app = a /\ worker'.copy = IF ok THEN apps'[a] ELSE Read(a)
  BY <1>1 DEF At, Idle
<1>5. CASE ok
  <2>1. WriteApp(a, new)
    BY <1>1, <1>2, <1>5 DEF UpdateApp
  <2>2. apps'[a] = Stored(apps[a], new)
    BY <2>1 DEF WriteApp, IInv, AppsOK
  <2>3. new.lastStatus = "" /\ new.version = NoVersion
    BY <1>3 DEF AppObjects
  <2>4. NoApp.lastStatus = "" /\ NoApp.version = NoVersion
    BY DEF NoApp
  <2>5. /\ new \in AppObjects /\ NoApp \in AppObjects
    <3>1. NoVersion \in 0..MaxVersion /\ "" \in Statuses
      BY BoundsTypes DEF NoVersion, Statuses
    <3> QED BY <1>3, <3>1, NoAppType DEF AppObjects
  <2> HIDE DEF new
  <2>6. Stored(apps[a], new).lastStatus = "" /\ Stored(apps[a], new).version = NoVersion
    BY <2>3, <2>4, <2>5 DEF Stored, AppObjects
  <2> QED BY <1>4, <1>5, <2>2, <2>6 DEF UpdateOK
<1>6. CASE ~ok
  <2>1. ~Current(a, Read(a)) /\ UNCHANGED apps
    BY <1>1, <1>2, <1>6 DEF UpdateApp
  <2>2. ~Current(worker.app, worker.copy)'
    BY <1>4, <1>6, <2>1 DEF Current
  <2> QED BY <2>2 DEF UpdateOK
<1> QED BY <1>5, <1>6

\* Only that write brings the worker to this step.
LEMMA UpdateSteps ==
  ASSUME IInv, [Next]_vars, worker'.step = "update", \A a \in Apps : ~ClearStatus(a)
  PROVE  UNCHANGED worker
<1>1. CASE External \/ Sync
  BY <1>1
     DEF External, Sync, UserCreates, UserUpdates, UserDeletes, Publish, NamespaceFinalized,
         JobCreatesNamespace, JobEnds, CollectJob, CollectWatcher, SyncApp, SyncNamespace,
         SyncWatcher, processVars
<1>idle. worker' # Idle
  BY DEF Idle
<1>at. /\ \A a, copy : worker' # [At("begun", a) EXCEPT !.copy = copy]
      /\ \A b, todo : worker' # [At("dependencies", b) EXCEPT !.todo = todo]
      /\ \A c, j : worker' # [At("record", c) EXCEPT !.job = j]
      /\ \A d, i, held : worker' # [At("watch", d) EXCEPT !.job = i, !.copy = held]
  BY DEF At, Idle
<1>2. ASSUME NEW a \in Apps,
             \/ RestoreAction(a) \/ PreInstall(a) \/ PanicInPreInstall(a)
             \/ PanicInDependencies(a) \/ StartDependencies(a) \/ WatchJob(a) \/ Finish(a)
      PROVE  FALSE
  BY <1>idle, <1>2 DEF RestoreAction, PreInstall, PanicInPreInstall, PanicInDependencies,
                    StartDependencies, WatchJob, Finish, Restarted
<1>3. ASSUME NEW a \in Apps, AddFinalizer(a)
      PROVE  FALSE
  BY <1>idle, <1>at, <1>3 DEF AddFinalizer
<1>4. ASSUME NEW a \in Apps, Uninstall(a)
      PROVE  UNCHANGED worker
  BY <1>4 DEF Uninstall
<1>5. ASSUME NEW a \in Apps, ResolveDependencies(a)
      PROVE  FALSE
  BY <1>idle, <1>at, <1>5 DEF ResolveDependencies
<1>6. ASSUME NEW d \in Apps, CreateDependency(d)
      PROVE  FALSE
  <2>1. worker \in Workers /\ worker.step = "dependencies"
    BY <1>6 DEF CreateDependency, IInv, WorkerOK
  <2>2. worker' = [worker EXCEPT !.todo = @ \ {d}]
    BY <1>idle, <1>6 DEF CreateDependency
  <2> QED BY <2>1, <2>2 DEF Workers
<1>7. ASSUME NEW a \in Apps, LaunchJob(a)
      PROVE  FALSE
  BY <1>idle, <1>at, <1>7 DEF LaunchJob
<1>8. ASSUME NEW a \in Apps, RecordJob(a)
      PROVE  FALSE
  <2>1. \/ worker' = Idle
        \/ worker' = [At("watch", a) EXCEPT !.job = worker.job, !.copy = apps'[a]]
    BY <1>8 DEF RecordJob
  <2> QED BY <1>idle, <1>at, <2>1
<1>9. CASE ReconcileApp
  BY <1>2, <1>3, <1>4, <1>5, <1>6, <1>7, <1>8, <1>9 DEF ReconcileApp, ReconcileAppOf
<1>10. CASE ReconcileJobWatcher
  <2>1. ASSUME NEW j \in JobIds, CheckRunningJob(j) \/ ReportVerdict(j) \/ MarkReconciled(j)
        PROVE  UNCHANGED worker
    BY <2>1 DEF CheckRunningJob, ReportVerdict, MarkReconciled, restOfSystem
  <2>2. ASSUME NEW j \in JobIds, PanicOnNilMap(j)
        PROVE  FALSE
    BY <1>idle, <2>2 DEF PanicOnNilMap, Restarted
  <2> QED BY <1>10, <2>1, <2>2 DEF ReconcileJobWatcher
<1>11. CASE WatchForNewUpdate
  BY <1>11 DEF WatchForNewUpdate, WakeUp, CheckUpdate, restOfThreads
<1>12. CASE ProcessAppNamespaceDeletion
  BY <1>12
     DEF ProcessAppNamespaceDeletion, UninstallerOf, StopWaiting, DeleteNamespace, AwaitNamespace,
         RemoveFinalizer, Release, restOfUninstall
<1>13. CASE Crash \/ UNCHANGED vars
  BY <1>idle, <1>13 DEF Crash, Restarted, vars, processVars
<1> QED BY <1>1, <1>9, <1>10, <1>11, <1>12, <1>13 DEF Next

\* A cleared copy stays cleared, and one that is out of date stays so.
LEMMA UpdateStaysOK ==
  ASSUME IInv, CopiesOK, MaxFaults = 0, UpdateOK, [Next]_vars
  PROVE  UpdateOK'
<1>1. CASE \E a \in Apps : ClearStatus(a)
  BY <1>1, ClearStatusClears
<1>2. CASE worker'.step # "update"
  BY <1>2 DEF UpdateOK
<1>3. CASE worker'.step = "update" /\ ~\E a \in Apps : ClearStatus(a)
  <2>1. worker' = worker
    BY <1>3, UpdateSteps
  <2>2. /\ worker.step = "update" /\ worker.app \in Apps /\ worker.copy \in AppObjects
        /\ Coherent(worker.copy, apps[worker.app])
    BY <1>3, <2>1 DEF CopiesOK, Holding, IInv, WorkerOK, Workers
  <2>3. CASE ~Current(worker.app, worker.copy)
    <3>1. ~(apps'[worker.app].exists /\ apps'[worker.app].revision = worker.copy.revision)
      BY <2>2, <2>3, NextChange, StaleStays DEF Current
    <3> QED BY <2>1, <3>1 DEF UpdateOK, Current
  <2>4. CASE worker.copy.lastStatus = "" /\ worker.copy.version = NoVersion
    BY <2>1, <2>4 DEF UpdateOK
  <2> QED BY <2>2, <2>3, <2>4 DEF UpdateOK
<1> QED BY <1>1, <1>2, <1>3

\* The invariant holds throughout.
LEMMA UpdatesHold ==
  ASSUME MaxFaults = 0
  PROVE  Spec => []UpdateOK
<1>1. Init => UpdateOK
  <2>1. Idle.step # "update"
    BY DEF Idle
  <2> QED BY <2>1 DEF Init, ProcessInit, UpdateOK
<1>2. IInv /\ CopiesOK /\ UpdateOK /\ [Next]_vars => UpdateOK'
  BY UpdateStaysOK
<1> QED BY <1>1, <1>2, InvariantHolds, CopiesAreCoherent, PTL DEF Spec

\* When calls do not fail by chance, the action of an App goes back to install only with its
\* status cleared, whatever other writers do between the two writes of the branch.  (What
\* happens to the cleared status afterwards is another matter: run update_dropped.)
THEOREM UpdatesAreCleared ==
  ASSUME MaxFaults = 0
  PROVE  Spec => UpdateIsCleared
<1> DEFINE Started == \A a \in Apps :
       apps[a].action = "update" /\ apps'[a].action = "install" /\ apps'[a].uid = apps[a].uid
         => apps'[a].lastStatus = "" /\ apps'[a].version = NoVersion
<1>1. IInv /\ CopiesOK /\ UpdateOK /\ UidsOK /\ [Next]_vars => [Started]_vars
  <2> SUFFICES ASSUME IInv, CopiesOK, UpdateOK, UidsOK, [Next]_vars, NEW a \in Apps,
                      apps[a].action = "update", apps'[a].action = "install",
                      apps'[a].uid = apps[a].uid
               PROVE  apps'[a].lastStatus = "" /\ apps'[a].version = NoVersion
    OBVIOUS
  <2>1. Change(a)
    BY NextChange
  <2>2. ASSUME NEW plan \in Nat, apps'[a] = NewApp(a, plan)
        PROVE  FALSE
    <3>1. apps'[a].uid = apps[a].revision + 1
      BY <2>2, NoAppType DEF NewApp, AppObjects
    <3>2. apps[a].revision \in Nat /\ apps[a].uid \in Nat /\ apps[a].uid <= apps[a].revision
      BY DEF UidsOK, IInv, AppsOK, AppObjects
    <3> QED BY <3>1, <3>2
  <2>3. ASSUME NEW new \in AppObjects, Edit(a, apps[a], new), apps'[a] = Stored(apps[a], new)
        PROVE  apps'[a].lastStatus = "" /\ apps'[a].version = NoVersion
    <3> DEFINE gone == [NoApp EXCEPT !.revision = apps[a].revision + 1]
    <3>1. CASE apps'[a] = gone
      BY <3>1 DEF NoApp
    <3>2. CASE apps'[a] # gone
      <4>1. apps'[a] = new \/ apps'[a] = [new EXCEPT !.revision = apps[a].revision + 1]
        BY <2>3, <3>2 DEF Stored
      <4>2. apps'[a].action = new.action /\ apps'[a].lastStatus = new.lastStatus
            /\ apps'[a].version = new.version
        BY <4>1 DEF AppObjects
      <4>3. Restores(a) /\ new.lastStatus = apps[a].lastStatus /\ new.version = apps[a].version
        BY <2>3, <4>2 DEF Edit
      <4>4. worker.copy = apps[a]
        BY <4>3, CurrentCopy DEF Restores, CopiesOK, Holding
      <4> QED BY <4>2, <4>3, <4>4 DEF UpdateOK, Restores
    <3> QED BY <3>1, <3>2
  <2> QED BY <2>1, <2>2, <2>3 DEF Change
<1> QED BY <1>1, InvariantHolds, CopiesAreCoherent, UpdatesHold, UidsAreOK, PTL DEF Spec, UpdateIsCleared
=============================================================================
