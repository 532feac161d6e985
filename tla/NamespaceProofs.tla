--------------------------- MODULE NamespaceProofs ---------------------------
(***************************************************************************)
(* The uninstall takes no namespace from an App that lives, proved for     *)
(* every catalogue, any number of crashes, failing calls and names used    *)
(* again, when the cache of the Apps does not lag.  (When it does, the     *)
(* property fails: run live_namespace_deleted.)  The argument: as long as  *)
(* a goroutine uninstalls an App, that App is being deleted and kept by    *)
(* the operator's finalizer, which only this goroutine removes.            *)
(***************************************************************************)
EXTENDS HistoryProofs

\* Where a goroutine has its App's finalizer still before it.
Bound == {"job", "namespace", "await", "finalizer"}

CacheFollows == cache = apps

\* An App that is being deleted is there only because of its finalizer.
DeletingKept == \A a \in Apps : apps[a].deleting => apps[a].exists /\ apps[a].finalizer

\* A goroutine's App is being deleted.
UninstallsDeleted ==
  \A j \in JobIds : uninstallers[j] \in Bound => apps[jobs[j].app].deleting

NamespaceOK == CacheFollows /\ DeletingKept /\ UninstallsDeleted

\* A cache that does not lag is what is stored.
LEMMA CacheStays ==
  ASSUME IInv, CacheFollows, "App" \notin Lagging, [Next]_vars
  PROVE  CacheFollows'
<1>1. CASE Informers
  BY <1>1 DEF Informers, CacheFollows
<1>2. CASE Restarted
  BY <1>2 DEF Restarted, CacheFollows
<1>3. CASE UNCHANGED <<cache, apps>>
  BY <1>3 DEF CacheFollows
<1>4. CASE External \/ Sync
  <2>1. \A a \in Apps : ~SyncApp(a)
    BY DEF SyncApp, CacheFollows
  <2> QED BY <1>1, <1>3, <1>4, <2>1
          DEF External, Sync, UserCreates, UserUpdates, UserDeletes, Publish, NamespaceFinalized,
              JobCreatesNamespace, JobEnds, CollectJob, CollectWatcher, SyncNamespace, SyncWatcher
<1>5. CASE ReconcileApp
  BY <1>1, <1>2, <1>5
     DEF ReconcileApp, ReconcileAppOf, AddFinalizer, Uninstall, ClearStatus, RestoreAction, PreInstall,
         PanicInPreInstall, ResolveDependencies, CreateDependency, PanicInDependencies,
         StartDependencies, LaunchJob, RecordJob, WatchJob, Finish, WritesApps
<1>6. CASE ReconcileJobWatcher \/ WatchForNewUpdate
  BY <1>1, <1>2, <1>6
     DEF ReconcileJobWatcher, CheckRunningJob, ReportVerdict, PanicOnNilMap, MarkReconciled,
         WatchForNewUpdate, WakeUp, CheckUpdate
<1>7. CASE ProcessAppNamespaceDeletion
  BY <1>1, <1>7
     DEF ProcessAppNamespaceDeletion, UninstallerOf, StopWaiting, DeleteNamespace, AwaitNamespace,
         RemoveFinalizer, Release
<1>8. CASE Crash \/ UNCHANGED vars
  BY <1>2, <1>3, <1>8 DEF Crash, vars, apiVars
<1> QED BY <1>4, <1>5, <1>6, <1>7, <1>8 DEF Next

\* An App that is being deleted keeps its finalizer, or is gone.
LEMMA DeletingStays ==
  ASSUME IInv, CopiesOK, DeletingKept, [Next]_vars
  PROVE  DeletingKept'
<1> SUFFICES ASSUME NEW a \in Apps, apps'[a].deleting
             PROVE  apps'[a].exists /\ apps'[a].finalizer
  BY DEF DeletingKept
<1>1. CASE apps'[a] = apps[a]
  BY <1>1 DEF DeletingKept
<1>2. ASSUME NEW plan \in Nat, apps'[a] = NewApp(a, plan)
      PROVE  FALSE
  BY <1>2 DEF NewApp, NoApp
<1>3. ASSUME apps[a].exists, NEW new \in AppObjects, Edit(a, apps[a], new),
             apps'[a] = Stored(apps[a], new)
      PROVE  apps'[a].exists /\ apps'[a].finalizer
  <2> DEFINE gone == [NoApp EXCEPT !.revision = apps[a].revision + 1]
             next == [new EXCEPT !.revision = apps[a].revision + 1]
  <2>1. ~gone.deleting
    BY DEF NoApp
  <2>2. next.exists = new.exists /\ next.deleting = new.deleting /\ next.finalizer = new.finalizer
    BY DEF AppObjects
  <2>3. new.exists
    BY <1>3 DEF Edit
  <2>4. \/ apps'[a] = apps[a]
        \/ apps'[a] = gone
        \/ apps'[a] = next /\ ~(new.deleting /\ ~new.finalizer)
    BY <1>3 DEF Stored
  <2> QED BY <1>1, <2>1, <2>2, <2>3, <2>4
<1> QED BY <1>1, <1>2, <1>3, NextChange DEF Change

\* It is deleted until a goroutine removes the finalizer.
LEMMA DeletingLasts ==
  ASSUME IInv, DeletingKept, NEW a \in Apps, Change(a), apps[a].deleting, ~RemovesFinalizer(a)
  PROVE  apps'[a].deleting
<1>1. apps[a].exists /\ apps[a].finalizer
  BY DEF DeletingKept
<1>2. ASSUME NEW new \in AppObjects, Edit(a, apps[a], new), apps'[a] = Stored(apps[a], new)
      PROVE  apps'[a].deleting
  <2>1. new.deleting /\ new.finalizer
    BY <1>1, <1>2 DEF Edit
  <2>2. [new EXCEPT !.revision = apps[a].revision + 1].deleting
    BY <2>1 DEF AppObjects
  <2> QED BY <1>2, <2>1, <2>2 DEF Stored
<1> QED BY <1>1, <1>2 DEF Change

\* How a goroutine comes to be where it is: it has been started, or it went on.
LEMMA UninstallersMove ==
  ASSUME IInv, [Next]_vars, NEW j \in JobIds, uninstallers'[j] \in Bound
  PROVE  \/ uninstallers[j] \in Bound
         \/ \E a \in Apps : Uninstall(a) /\ jobs'[j].app = a
<1>1. CASE UNCHANGED uninstallers
  BY <1>1
<1>2. CASE Restarted
  BY <1>2 DEF Restarted, Bound
<1>3. ASSUME NEW i \in JobIds, UninstallerOf(i)
      PROVE  uninstallers[j] \in Bound
  <2>1. /\ uninstallers[i] \in Bound \/ uninstallers'[i] = "none"
        /\ \A k \in JobIds : k # i => uninstallers'[k] = uninstallers[k]
    BY <1>3 DEF UninstallerOf, StopWaiting, DeleteNamespace, AwaitNamespace, RemoveFinalizer, Release,
                GoesTo, Bound, IInv, UninstallersOK
  <2> QED BY <2>1 DEF Bound
<1>4. ASSUME NEW a \in Apps, Uninstall(a)
      PROVE  uninstallers[j] \in Bound \/ jobs'[j].app = a
  <2>1. PICK i \in JobIds, ok \in BOOLEAN :
          /\ CreateJob(i, "uninstall", a, cache[a], ok)
          /\ uninstallers' = IF ok THEN [uninstallers EXCEPT ![i] = "job"] ELSE uninstallers
    BY <1>4 DEF Uninstall
  <2>2. CASE ~ok \/ i # j
    BY <2>1, <2>2 DEF IInv, UninstallersOK
  <2>3. CASE ok /\ i = j
    <3>1. jobs' = [jobs EXCEPT ![j] = [kind |-> "uninstall", app |-> a, uid |-> cache[a].uid,
                                       state |-> "running", exists |-> TRUE]]
      BY <2>1, <2>3 DEF CreateJob
    <3> QED BY <3>1 DEF IInv, JobsOK
  <2> QED BY <2>2, <2>3
<1>5. CASE External \/ Sync
  BY <1>1, <1>5
     DEF External, Sync, UserCreates, UserUpdates, UserDeletes, Publish, NamespaceFinalized,
         JobCreatesNamespace, JobEnds, CollectJob, CollectWatcher, SyncApp, SyncNamespace,
         SyncWatcher, processVars
<1>6. CASE ReconcileApp
  <2>1. ASSUME NEW a \in Apps,
               \/ AddFinalizer(a) \/ ClearStatus(a) \/ RestoreAction(a) \/ PreInstall(a)
               \/ ResolveDependencies(a) \/ CreateDependency(a) \/ StartDependencies(a)
               \/ LaunchJob(a) \/ RecordJob(a) \/ WatchJob(a) \/ Finish(a)
        PROVE  UNCHANGED uninstallers
    BY <2>1 DEF AddFinalizer, ClearStatus, RestoreAction, PreInstall, ResolveDependencies,
                CreateDependency, StartDependencies, LaunchJob, RecordJob, WatchJob, Finish,
                WritesApps, restOfProcess, restOfFinish
  <2>2. ASSUME NEW a \in Apps, PanicInPreInstall(a) \/ PanicInDependencies(a)
        PROVE  Restarted
    BY <2>2 DEF PanicInPreInstall, PanicInDependencies
  <2> QED BY <1>1, <1>2, <1>4, <1>6, <2>1, <2>2 DEF ReconcileApp, ReconcileAppOf
<1>7. CASE ReconcileJobWatcher
  BY <1>1, <1>2, <1>7
     DEF ReconcileJobWatcher, CheckRunningJob, ReportVerdict, PanicOnNilMap, MarkReconciled, restOfSystem
<1>8. CASE WatchForNewUpdate
  BY <1>1, <1>8 DEF WatchForNewUpdate, WakeUp, CheckUpdate, restOfThreads
<1>9. CASE ProcessAppNamespaceDeletion
  BY <1>3, <1>9 DEF ProcessAppNamespaceDeletion
<1>10. CASE Crash \/ UNCHANGED vars
  BY <1>1, <1>2, <1>10 DEF Crash, vars, processVars
<1> QED BY <1>5, <1>6, <1>7, <1>8, <1>9, <1>10 DEF Next

\* The App of a goroutine is being deleted as long as the goroutine needs it.
LEMMA UninstallsStayDeleted ==
  ASSUME IInv, CopiesOK, NamespaceOK, [Next]_vars
  PROVE  UninstallsDeleted'
<1> SUFFICES ASSUME NEW j \in JobIds, uninstallers'[j] \in Bound
             PROVE  apps'[jobs'[j].app].deleting
  BY DEF UninstallsDeleted
<1>1. ASSUME NEW a \in Apps, Uninstall(a), jobs'[j].app = a
      PROVE  apps'[jobs'[j].app].deleting
  BY <1>1 DEF Uninstall, NamespaceOK, CacheFollows
<1>2. CASE uninstallers[j] \in Bound
  <2> DEFINE a == jobs[j].app
  <2>1. uninstallers[j] # "none"
    BY <1>2 DEF Bound
  <2>2. a \in Apps /\ apps[a].deleting
    BY <1>2, <2>1, UninstallingJob DEF NamespaceOK, UninstallsDeleted
  <2>3. jobs'[j].app = a
    BY <2>1, JobsMove DEF JobsKept, IInv, UninstallersOK, Uninstalling
  <2>4. ~RemovesFinalizer(a)
    <3> SUFFICES ASSUME NEW i \in JobIds, uninstallers[i] = "finalizer", jobs[i].app = a,
                        uninstallers'[i] \in {"release", "none"}
                 PROVE  FALSE
      BY DEF RemovesFinalizer
    <3>1. i = j
      BY <2>1 DEF IInv, UninstallersOK, OneUninstaller, Uninstalling
    <3> QED BY <3>1 DEF Bound
  <2> HIDE DEF a
  <2>5. apps'[a].deleting
    BY <2>2, <2>4, NextChange, DeletingLasts DEF NamespaceOK
  <2> QED BY <2>3, <2>5
<1> QED BY <1>1, <1>2, UninstallersMove

\* Only a goroutine that is at that step takes a namespace away.
LEMMA NamespaceTaken ==
  ASSUME IInv, [Next]_vars, NEW a \in Apps,
         namespaces[a] = "active", namespaces'[a] = "terminating"
  PROVE  \E j \in JobIds : uninstallers[j] = "namespace" /\ jobs[j].app = a
<1>1. namespaces' # namespaces
  OBVIOUS
<1>2. CASE External \/ Sync
  <2>1. ASSUME NEW j \in JobIds, JobCreatesNamespace(j)
        PROVE  FALSE
    BY <2>1 DEF JobCreatesNamespace, IInv, NamespacesOK
  <2>2. ASSUME NEW b \in Apps, NamespaceFinalized(b)
        PROVE  FALSE
    BY <2>2 DEF NamespaceFinalized, IInv, NamespacesOK
  <2> QED BY <1>1, <1>2, <2>1, <2>2
          DEF External, Sync, UserCreates, UserUpdates, UserDeletes, Publish, JobEnds, CollectJob,
              CollectWatcher, SyncApp, SyncNamespace, SyncWatcher
<1>3. CASE ReconcileApp
  <2>1. ASSUME NEW b \in Apps, ReconcileAppOf(b)
        PROVE  UNCHANGED namespaces
    BY <2>1 DEF ReconcileAppOf, AddFinalizer, Uninstall, ClearStatus, RestoreAction, PreInstall,
                PanicInPreInstall, ResolveDependencies, CreateDependency, PanicInDependencies,
                StartDependencies, LaunchJob, RecordJob, WatchJob, Finish, WritesApps, restOfApi,
                restOfFinish, Restarted
  <2> QED BY <1>1, <1>3, <2>1 DEF ReconcileApp
<1>4. CASE ReconcileJobWatcher \/ WatchForNewUpdate
  BY <1>1, <1>4
     DEF ReconcileJobWatcher, CheckRunningJob, ReportVerdict, PanicOnNilMap, MarkReconciled, Restarted,
         restOfSystem, WatchForNewUpdate, WakeUp, CheckUpdate, restOfThreads
<1>5. CASE ProcessAppNamespaceDeletion
  <2>1. PICK j \in JobIds : DeleteNamespace(j)
    BY <1>1, <1>5 DEF ProcessAppNamespaceDeletion, UninstallerOf, StopWaiting, AwaitNamespace,
                      RemoveFinalizer, Release
  <2>2. namespaces' = namespaces \/ namespaces' = [namespaces EXCEPT ![jobs[j].app] = "terminating"]
    BY <2>1 DEF DeleteNamespace, RemoveNamespace
  <2>3. jobs[j].app = a
    BY <1>1, <2>2 DEF IInv, NamespacesOK
  <2> QED BY <2>1, <2>3 DEF DeleteNamespace
<1>6. CASE Crash \/ UNCHANGED vars
  BY <1>1, <1>6 DEF Crash, Restarted, vars, apiVars
<1> QED BY <1>2, <1>3, <1>4, <1>5, <1>6 DEF Next

\* A goroutine's App stays deleted, when the cache of the Apps follows.
LEMMA NamespacesHold ==
  ASSUME "App" \notin Lagging
  PROVE  Spec => []NamespaceOK
<1>1. Init => NamespaceOK
  <2>1. ~NoApp.deleting
    BY DEF NoApp
  <2> QED BY <2>1 DEF Init, ApiInit, ProcessInit, NamespaceOK, CacheFollows, DeletingKept,
                      UninstallsDeleted, Bound
<1>2. IInv /\ CopiesOK /\ NamespaceOK /\ [Next]_vars => NamespaceOK'
  BY CacheStays, DeletingStays, UninstallsStayDeleted DEF NamespaceOK
<1> QED BY <1>1, <1>2, InvariantHolds, CopiesAreCoherent, PTL DEF Spec

\* With a cache of the Apps that follows, only the uninstall of an App that is being deleted
\* takes its namespace away, however often the name is used again and whatever crashes or
\* fails: an uninstall that has been forgotten by a crash included.
THEOREM LiveNamespacesAreKept ==
  ASSUME "App" \notin Lagging
  PROVE  Spec => LiveNamespaceKept
<1> DEFINE Kept == \A a \in Apps :
       namespaces[a] = "active" /\ namespaces'[a] = "terminating" => ~apps[a].exists \/ apps[a].deleting
<1>1. IInv /\ NamespaceOK /\ [Next]_vars => [Kept]_vars
  BY NamespaceTaken DEF NamespaceOK, UninstallsDeleted, Bound
<1> QED BY <1>1, InvariantHolds, NamespacesHold, PTL DEF Spec, LiveNamespaceKept
=============================================================================
