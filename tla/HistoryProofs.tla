---------------------------- MODULE HistoryProofs ----------------------------
(***************************************************************************)
(* What may become of an App from one step to the next, proved for all     *)
(* values of the constants.  The argument rests on optimistic concurrency: *)
(* a copy that is as new as the stored App is the stored App (Coherent),   *)
(* so that a write which is not refused edits what is stored, however many *)
(* writers there are.  Change lists what such an edit may do, once for all *)
(* actions; the theorems about configurations, reconciled JobWatchers,     *)
(* updates and namespaces follow from it.                                  *)
(***************************************************************************)
EXTENDS KubemartProofs

Coherent(copy, stored) ==
  copy.revision <= stored.revision /\ (copy.revision = stored.revision => copy = stored)

\* The steps in which the worker holds a copy that it writes from.
Holding == {"begun", "update", "watch"}

CopiesOK ==
  /\ \A a \in Apps : Coherent(cache[a], apps[a])
  /\ worker.step # "idle" => worker.app \in Apps
  /\ worker.step \in Holding => Coherent(worker.copy, apps[worker.app])

(***************************************************************************)
(* An edit of the stored App old of a: what all writes keep, and which     *)
(* ones may do the rest.                                                   *)
(***************************************************************************)
RemovesFinalizer(a) ==
  \E j \in JobIds : /\ uninstallers[j] = "finalizer" /\ jobs[j].app = a
                    /\ uninstallers'[j] \in {"release", "none"}
Records(a, j) ==
  worker.step = "record" /\ worker.app = a /\ worker.job = j /\ worker'.step # "record"
Restores(a) == worker.step = "update" /\ worker.app = a /\ Current(a, worker.copy)

\* An installation starts with the entry of its Job.
Starts(a, new) ==
  /\ new.lastJob \in JobIds /\ Records(a, new.lastJob)
  /\ new.executed[new.lastJob] = "installation_started"
StillStarted(old, new) ==
  /\ old.lastStatus = "installation_started"
  /\ new.lastJob = old.lastJob /\ new.executed = old.executed

Edit(a, old, new) ==
  /\ new.exists = old.exists /\ new.uid = old.uid /\ (old.deleting => new.deleting)
  /\ \A k \in Keys : EntriesOf(old, k) # {} => EntriesOf(new, k) = EntriesOf(old, k)
  /\ \A j \in JobIds : old.executed[j] \in Verdicts => new.executed[j] \in Verdicts \/ Records(a, j)
  /\ old.finalizer => new.finalizer \/ RemovesFinalizer(a)
  /\ old.action = "update" /\ new.action = "install" =>
       Restores(a) /\ new.lastStatus = old.lastStatus /\ new.version = old.version
  /\ old.lastStatus # "" /\ new.lastStatus = "" => worker'.step = "update"
  /\ \A j \in JobIds : old.executed[j] = "none" /\ new.executed[j] # "none" =>
       Records(a, j) \/ watcherCache[j].exists
  /\ new.lastStatus = "installation_started" => Starts(a, new) \/ StillStarted(old, new)

Change(a) ==
  \/ apps'[a] = apps[a]
  \/ ~apps[a].exists /\ \E plan \in Nat : apps'[a] = NewApp(a, plan)
  \/ /\ apps[a].exists
     /\ \E new \in AppObjects : Edit(a, apps[a], new) /\ apps'[a] = Stored(apps[a], new)

\* An edit that touches none of the fields that Edit speaks of.
LEMMA PlainEdit ==
  ASSUME NEW a \in Apps, NEW old, NEW new,
         new.exists = old.exists, new.uid = old.uid, new.deleting = old.deleting,
         new.configurations = old.configurations, new.executed = old.executed,
         new.finalizer = old.finalizer, new.action = old.action, new.lastJob = old.lastJob,
         new.lastStatus = "installation_started" => old.lastStatus = "installation_started",
         old.lastStatus # "" => new.lastStatus # "" \/ worker'.step = "update"
  PROVE  Edit(a, old, new)
BY DEF Edit, EntriesOf, StillStarted

\* A write that is not refused was made from the stored App.
LEMMA CurrentCopy ==
  ASSUME NEW a \in Apps, NEW copy, Coherent(copy, apps[a]), Current(a, copy)
  PROVE  copy = apps[a]
BY DEF Coherent, Current

\* Update and Status().Update change one App, and that one by an edit.
LEMMA UpdateChange ==
  ASSUME IInv, NEW a \in Apps, NEW copy, NEW new \in AppObjects, NEW ok,
         UpdateApp(a, copy, new, ok),
         Current(a, copy) => Edit(a, apps[a], new)
  PROVE  \A b \in Apps : Change(b)
<1>1. CASE UNCHANGED apps
  BY <1>1 DEF Change
<1>2. CASE Current(a, copy) /\ WriteApp(a, new)
  <2>1. apps'[a] = Stored(apps[a], new) /\ \A b \in Apps : b # a => apps'[b] = apps[b]
    BY <1>2 DEF WriteApp, IInv, AppsOK
  <2> QED BY <1>2, <2>1 DEF Change, Current
<1> QED BY <1>1, <1>2 DEF UpdateApp

\* Create of an App.
LEMMA CreateChange ==
  ASSUME IInv, NEW a \in Apps, NEW plan \in Nat, NEW ok, CreateApp(a, plan, ok)
  PROVE  \A b \in Apps : Change(b)
<1>1. CASE UNCHANGED apps
  BY <1>1 DEF Change
<1>2. CASE ~apps[a].exists /\ apps' = [apps EXCEPT ![a] = NewApp(a, plan)]
  <2>1. apps'[a] = NewApp(a, plan) /\ \A b \in Apps : b # a => apps'[b] = apps[b]
    BY <1>2 DEF IInv, AppsOK
  <2> QED BY <1>2, <2>1 DEF Change
<1> QED BY <1>1, <1>2 DEF CreateApp

\* The copy that a call of Reconcile works on is coherent.
LEMMA ReadCoherent ==
  ASSUME IInv, CopiesOK, NEW a \in Apps, Begins(a)
  PROVE  Read(a) \in AppObjects /\ Coherent(Read(a), apps[a])
<1>1. Read(a) \in AppObjects
  BY ReadOK
<1>2. Coherent(Read(a), apps[a])
  BY DEF Begins, Read, CopiesOK, Holding
<1> QED BY <1>1, <1>2

-----------------------------------------------------------------------------
(***************************************************************************)
(* The writers, one by one.                                                *)
(***************************************************************************)
\* The users create, update and delete.
LEMMA UsersChange ==
  ASSUME IInv, NEW a \in Apps, UserCreates(a) \/ UserUpdates(a) \/ UserDeletes(a)
  PROVE  \A b \in Apps : Change(b)
<1>1. CASE UserCreates(a)
  BY <1>1, InputsAssumption DEF UserCreates, Change, IInv, AppsOK
<1>2. ASSUME NEW new \in AppObjects, apps[a].exists, Edit(a, apps[a], new), WriteApp(a, new)
      PROVE  \A b \in Apps : Change(b)
  <2>1. apps'[a] = Stored(apps[a], new) /\ \A b \in Apps : b # a => apps'[b] = apps[b]
    BY <1>2 DEF WriteApp, IInv, AppsOK
  <2> QED BY <1>2, <2>1 DEF Change
<1>3. CASE UserUpdates(a)
  <2> DEFINE new == [apps[a] EXCEPT !.action = "update"]
  <2>1. new \in AppObjects /\ apps[a] \in AppObjects
    BY AppEdits DEF IInv, AppsOK
  <2>2. Edit(a, apps[a], new)
    BY <2>1 DEF Edit, StillStarted, EntriesOf, AppObjects
  <2> QED BY <1>2, <1>3, <2>1, <2>2 DEF UserUpdates
<1>4. CASE UserDeletes(a)
  <2> DEFINE new == [apps[a] EXCEPT !.deleting = TRUE]
  <2>1. new \in AppObjects /\ apps[a] \in AppObjects
    BY AppEdits DEF IInv, AppsOK
  <2>2. Edit(a, apps[a], new)
    BY <2>1 DEF Edit, StillStarted, EntriesOf, AppObjects
  <2> QED BY <1>2, <1>4, <2>1, <2>2 DEF UserDeletes
<1> QED BY <1>1, <1>3, <1>4

\* Adding the finalizer.
LEMMA AddFinalizerChange ==
  ASSUME IInv, CopiesOK, NEW a \in Apps, AddFinalizer(a)
  PROVE  \A b \in Apps : Change(b)
<1> DEFINE new == [cache[a] EXCEPT !.finalizer = TRUE]
<1>1. PICK ok \in BOOLEAN : UpdateApp(a, cache[a], new, ok)
  BY DEF AddFinalizer
<1>2. cache[a] \in AppObjects /\ new \in AppObjects
  BY AppEdits DEF IInv, CacheOK
<1>3. Edit(a, cache[a], new)
  BY <1>2 DEF Edit, StillStarted, EntriesOf, AppObjects
<1>4. Current(a, cache[a]) => Edit(a, apps[a], new)
  <2> HIDE DEF new
  <2> QED BY <1>3, CurrentCopy DEF CopiesOK
<1> QED BY <1>1, <1>2, <1>4, UpdateChange

\* Clearing the status.
LEMMA ClearStatusChange ==
  ASSUME IInv, CopiesOK, NEW a \in Apps, ClearStatus(a)
  PROVE  \A b \in Apps : Change(b)
<1> DEFINE new == [Read(a) EXCEPT !.version = NoVersion, !.lastStatus = "",
                                  !.newVersion = NoVersion]
<1>1. PICK ok \in BOOLEAN : UpdateApp(a, Read(a), new, ok)
  BY DEF ClearStatus
<1>2. Read(a) \in AppObjects /\ Coherent(Read(a), apps[a])
  BY ReadCoherent DEF ClearStatus
<1>3. new \in AppObjects
  <2>1. NoVersion \in 0..MaxVersion /\ "" \in Statuses
    BY BoundsTypes DEF NoVersion, Statuses
  <2> QED BY <1>2, <2>1 DEF AppObjects
<1>4. Edit(a, Read(a), new)
  <2>1. worker'.step = "update"
    <3>1. PICK copy : worker' = [At("update", a) EXCEPT !.copy = copy]
      BY DEF ClearStatus
    <3> QED BY <3>1 DEF At, Idle
  <2> QED BY <1>2, <2>1, PlainEdit DEF AppObjects
<1>5. Current(a, Read(a)) => Edit(a, apps[a], new)
  <2> HIDE DEF new
  <2> QED BY <1>2, <1>4, CurrentCopy
<1> QED BY <1>1, <1>3, <1>5, UpdateChange

\* Setting the action back: the one write whose new value is not made from its copy.
LEMMA RestoreActionChange ==
  ASSUME IInv, CopiesOK, NEW a \in Apps, RestoreAction(a)
  PROVE  \A b \in Apps : Change(b)
<1> DEFINE new == [apps[a] EXCEPT !.action = "install"]
<1>1. PICK ok \in BOOLEAN : UpdateApp(a, worker.copy, new, ok)
  BY DEF RestoreAction, ClearedCopy
<1>2. apps[a] \in AppObjects /\ new \in AppObjects
  BY AppEdits DEF IInv, AppsOK
<1>3. Current(a, worker.copy) => Edit(a, apps[a], new)
  BY <1>2 DEF Edit, StillStarted, EntriesOf, AppObjects, Restores, RestoreAction
<1> QED BY <1>1, <1>2, <1>3, UpdateChange

\* The pre-install stage adds entries under keys that have none, and no others.
LEMMA NewEntriesKeys ==
  ASSUME NEW app, NEW conf, NEW settings, NEW k, EntriesOf(app, k) # {},
         NEW c \in NewEntries(app, conf, settings)
  PROVE  c.key # k
<1>1. PICK h \in Missing(app, conf), n \in Kinds :
        c = [key |-> h, kind |-> n, value |-> IF n \in GeneratedKinds THEN app.uid ELSE settings]
  BY DEF NewEntries
<1>2. h # k
  BY DEF Missing, IsConfigurationExists
<1> QED BY <1>1, <1>2

\* So does the plan.
LEMMA PlanEntriesKeys ==
  ASSUME NEW app, NEW plans, NEW planned \in PlanEntries(app, plans), NEW k,
         EntriesOf(app, k) # {}, NEW c \in planned
  PROVE  c.key # k
BY DEF PlanEntries, IsConfigurationExists

\* The pre-install stage.
LEMMA PreInstallChange ==
  ASSUME IInv, CopiesOK, NEW a \in Apps, PreInstall(a)
  PROVE  \A b \in Apps : Change(b)
<1>1. Read(a) \in AppObjects /\ Coherent(Read(a), apps[a])
  BY ReadCoherent DEF PreInstall, Installs
<1>2. CASE UNCHANGED apps
  BY <1>2 DEF Change
<1>3. ASSUME NEW conf \in Downloads(Configuration[a][published[a]], <<>>),
             NEW settings \in Settings, NEW plans, NEW planned \in PlanEntries(Read(a), plans),
             NEW ok \in BOOLEAN,
             UpdateApp(a, Read(a),
                       [Read(a) EXCEPT !.lastStatus = "pre_installation_started",
                                       !.configurations = @ \cup NewEntries(Read(a), conf, settings)
                                                            \cup planned], ok)
      PROVE  \A b \in Apps : Change(b)
  <2> DEFINE entries == Read(a).configurations \cup NewEntries(Read(a), conf, settings) \cup planned
             new == [Read(a) EXCEPT !.lastStatus = "pre_installation_started",
                                    !.configurations = entries]
  <2>1. entries \in SUBSET Entries
    <3>1. Read(a).configurations \subseteq Entries
      BY <1>1 DEF AppObjects
    <3>2. NewEntries(Read(a), conf, settings) \subseteq Entries
      BY <1>1, NewEntriesType DEF IInv
    <3>3. planned \subseteq Entries
      BY <1>1, PlanEntriesType
    <3> QED BY <3>1, <3>2, <3>3
  <2>2. /\ new \in AppObjects /\ new.configurations = entries
        /\ new.exists = Read(a).exists /\ new.uid = Read(a).uid
        /\ new.deleting = Read(a).deleting /\ new.executed = Read(a).executed
        /\ new.finalizer = Read(a).finalizer /\ new.action = Read(a).action
        /\ new.lastStatus \notin {"", "installation_started"}
    <3> HIDE DEF entries
    <3> QED BY <1>1, <2>1 DEF AppObjects, Statuses
  <2>3. UpdateApp(a, Read(a), new, ok)
    BY <1>3
  <2> HIDE DEF new
  <2>4. Edit(a, Read(a), new)
    <3>1. ASSUME NEW k \in Keys, EntriesOf(Read(a), k) # {}
          PROVE  EntriesOf(new, k) = EntriesOf(Read(a), k)
      <4>1. \A c \in NewEntries(Read(a), conf, settings) : c.key # k
        BY <3>1, NewEntriesKeys
      <4>2. \A c \in planned : c.key # k
        BY <3>1, PlanEntriesKeys
      <4> QED BY <2>2, <4>1, <4>2 DEF EntriesOf
    <3> QED BY <2>2, <3>1 DEF Edit
  <2>5. Current(a, Read(a)) => Edit(a, apps[a], new)
    BY <1>1, <2>4, CurrentCopy
  <2> QED BY <2>2, <2>3, <2>5, UpdateChange
<1> QED BY <1>2, <1>3 DEF PreInstall

\* The dependency stage: Apps are created, and the status is set.
LEMMA DependenciesChange ==
  ASSUME IInv, CopiesOK, NEW a \in Apps, CreateDependency(a) \/ StartDependencies(a)
  PROVE  \A b \in Apps : Change(b)
<1>1. CASE UNCHANGED apps
  BY <1>1 DEF Change
<1>2. ASSUME NEW plans \in Downloads(Plans[a], <<>>), NEW plan \in SmallestPlan(plans),
             NEW ok \in BOOLEAN, CreateApp(a, plan, ok)
      PROVE  \A b \in Apps : Change(b)
  <2>1. plan \in Nat
    BY SmallestPlanType
  <2> QED BY <1>2, <2>1, CreateChange
<1> DEFINE new == [cache[a] EXCEPT !.lastStatus = "dependencies_installation_started"]
<1>3. ASSUME NEW ok \in BOOLEAN, UpdateApp(a, cache[a], new, ok)
      PROVE  \A b \in Apps : Change(b)
  <2>1. cache[a] \in AppObjects /\ new \in AppObjects
    BY AppEdits DEF IInv, CacheOK, Statuses
  <2>2. Edit(a, cache[a], new)
    BY <2>1, PlainEdit DEF AppObjects
  <2>3. Current(a, cache[a]) => Edit(a, apps[a], new)
    <3> HIDE DEF new
    <3> QED BY <2>2, CurrentCopy DEF CopiesOK
  <2> QED BY <1>3, <2>1, <2>3, UpdateChange
<1> QED BY <1>1, <1>2, <1>3 DEF CreateDependency, StartDependencies

\* The entry of the install Job.
LEMMA RecordJobChange ==
  ASSUME IInv, CopiesOK, NEW a \in Apps, RecordJob(a)
  PROVE  \A b \in Apps : Change(b)
<1> DEFINE new == [cache[a] EXCEPT !.lastStatus = "installation_started",
                                   !.lastJob = worker.job,
                                   !.executed = WithEntry(cache[a], worker.job)]
<1>1. CASE UNCHANGED apps
  BY <1>1 DEF Change
<1>2. ASSUME NEW ok \in BOOLEAN, UpdateApp(a, cache[a], new, ok)
      PROVE  \A b \in Apps : Change(b)
  <2>1. cache[a] \in AppObjects /\ worker.job \in JobIds
    BY DEF IInv, CacheOK, WorkerOK, RecordJob
  <2>2. /\ cache[a].executed \in [JobIds -> JobEntries]
        /\ WithEntry(cache[a], worker.job) \in [JobIds -> JobEntries]
    BY <2>1 DEF AppObjects, WithEntry, JobEntries
  <2>3. /\ new \in AppObjects /\ new.executed = WithEntry(cache[a], worker.job)
        /\ new.exists = cache[a].exists /\ new.uid = cache[a].uid
        /\ new.deleting = cache[a].deleting /\ new.configurations = cache[a].configurations
        /\ new.finalizer = cache[a].finalizer /\ new.action = cache[a].action
        /\ new.lastStatus # "" /\ new.lastJob = worker.job
    BY <2>1, <2>2 DEF AppObjects, Statuses
  <2> HIDE DEF new
  <2>4. Records(a, worker.job)
    <3>1. \/ worker' = Idle
          \/ worker' = [At("watch", a) EXCEPT !.job = worker.job, !.copy = apps'[a]]
      BY DEF RecordJob
    <3>2. Idle.step # "record"
          /\ \A copy : [At("watch", a) EXCEPT !.job = worker.job, !.copy = copy].step # "record"
      BY DEF At, Idle
    <3>3. worker'.step # "record"
      BY <3>1, <3>2
    <3> QED BY <3>3 DEF Records, RecordJob
  <2>5. Edit(a, cache[a], new)
    <3>1. Starts(a, new)
      BY <2>1, <2>2, <2>3, <2>4 DEF Starts, WithEntry
    <3> QED BY <2>2, <2>3, <2>4, <3>1 DEF Edit, EntriesOf, WithEntry, Records
  <2>6. Current(a, cache[a]) => Edit(a, apps[a], new)
    BY <2>5, CurrentCopy DEF CopiesOK
  <2> QED BY <1>2, <2>3, <2>6, UpdateChange
<1> QED BY <1>1, <1>2 DEF RecordJob

\* The installed version.
LEMMA FinishChange ==
  ASSUME IInv, CopiesOK, NEW a \in Apps, Finish(a)
  PROVE  \A b \in Apps : Change(b)
<1> DEFINE new == [Read(a) EXCEPT !.version = published[a]]
<1>1. CASE UNCHANGED apps
  BY <1>1 DEF Change
<1>2. ASSUME NEW ok \in BOOLEAN, UpdateApp(a, Read(a), new, ok)
      PROVE  \A b \in Apps : Change(b)
  <2>1. Read(a) \in AppObjects /\ Coherent(Read(a), apps[a])
    BY ReadCoherent DEF Finish, Installs
  <2>2. published[a] \in 0..MaxVersion
    BY BoundsTypes DEF IInv, CountersOK
  <2>3. new \in AppObjects
    BY <2>1, <2>2, AppEdits
  <2>4. Edit(a, Read(a), new)
    BY <2>1, PlainEdit DEF AppObjects
  <2>5. Current(a, Read(a)) => Edit(a, apps[a], new)
    <3> HIDE DEF new
    <3> QED BY <2>1, <2>4, CurrentCopy
  <2> QED BY <1>2, <2>3, <2>5, UpdateChange
<1> QED BY <1>1, <1>2 DEF Finish

\* The verdict of a JobWatcher.
LEMMA ReportVerdictChange ==
  ASSUME IInv, CopiesOK, NEW j \in JobIds, ReportVerdict(j)
  PROVE  \A b \in Apps : Change(b)
<1> DEFINE a == jobs[j].app
           new == WithVerdict(cache[a], j)
<1>1. a \in Apps /\ jobs[j].state \in {"complete", "failed"}
  BY DueJob DEF ReportVerdict, Due
<1>2. VerdictOf(j) \in Verdicts
  BY <1>1 DEF VerdictOf, Verdicts
<1>3. cache[a] \in AppObjects
  BY <1>1 DEF IInv, CacheOK
<1>4. new \in AppObjects /\ new.executed = [cache[a].executed EXCEPT ![j] = VerdictOf(j)]
      /\ cache[a].executed \in [JobIds -> JobEntries]
  BY <1>2, <1>3, WithVerdictOK
<1>5. /\ new.exists = cache[a].exists /\ new.uid = cache[a].uid
      /\ new.deleting = cache[a].deleting /\ new.configurations = cache[a].configurations
      /\ new.finalizer = cache[a].finalizer /\ new.action = cache[a].action
      /\ new.lastStatus = VerdictOf(j)
  BY <1>3 DEF WithVerdict, AppObjects
<1>6. PICK ok \in BOOLEAN : UpdateApp(a, cache[a], new, ok)
  BY DEF ReportVerdict
<1> HIDE DEF new
<1>7. Edit(a, cache[a], new)
  <2>1. VerdictOf(j) \notin {"", "installation_started"} /\ watcherCache[j].exists
    BY <1>2 DEF Verdicts, ReportVerdict, Due
  <2> QED BY <1>2, <1>4, <1>5, <2>1 DEF Edit, EntriesOf
<1>8. Current(a, cache[a]) => Edit(a, apps[a], new)
  BY <1>1, <1>7, CurrentCopy DEF CopiesOK
<1> QED BY <1>1, <1>4, <1>6, <1>8, UpdateChange

\* The news of an update watcher.
LEMMA CheckUpdateChange ==
  ASSUME IInv, CopiesOK, NEW t \in ThreadIds, CheckUpdate(t)
  PROVE  \A b \in Apps : Change(b)
<1> DEFINE a == updateThreads[t].app
           seen == updateThreads[t].seen
           new == [cache[a] EXCEPT !.newVersion = News(cache[a], seen)]
<1>1. CASE UNCHANGED apps
  BY <1>1 DEF Change
<1>2. ASSUME NEW ok \in BOOLEAN, UpdateApp(a, cache[a], new, ok)
      PROVE  \A b \in Apps : Change(b)
  <2>1. a \in Apps /\ seen \in 0..MaxVersion
    BY DEF CheckUpdate, IInv, ThreadsOK, Threads, NoThread
  <2>2. cache[a] \in AppObjects /\ News(cache[a], seen) \in 0..MaxVersion
    BY <2>1, BoundsTypes DEF IInv, CacheOK, News, NoVersion
  <2>3. new \in AppObjects
    BY <2>2, AppEdits
  <2>4. Edit(a, cache[a], new)
    BY <2>1, <2>2, PlainEdit DEF AppObjects
  <2>5. Current(a, cache[a]) => Edit(a, apps[a], new)
    <3> HIDE DEF new, a
    <3> QED BY <2>1, <2>4, CurrentCopy DEF CopiesOK
  <2> QED BY <1>2, <2>1, <2>3, <2>5, UpdateChange
<1> QED BY <1>1, <1>2 DEF CheckUpdate

\* The removal of the finalizer.
LEMMA RemoveFinalizerChange ==
  ASSUME IInv, CopiesOK, NEW j \in JobIds, RemoveFinalizer(j)
  PROVE  \A b \in Apps : Change(b)
<1> DEFINE a == jobs[j].app
           new == [cache[a] EXCEPT !.finalizer = FALSE]
<1>1. CASE UNCHANGED apps
  BY <1>1 DEF Change
<1>2. ASSUME NEW ok \in BOOLEAN, UpdateApp(a, cache[a], new, ok)
      PROVE  \A b \in Apps : Change(b)
  <2>1. a \in Apps
    BY UninstallingJob DEF RemoveFinalizer
  <2>2. cache[a] \in AppObjects /\ new \in AppObjects
    BY <2>1, AppEdits DEF IInv, CacheOK
  <2>3. RemovesFinalizer(a)
    BY DEF RemovesFinalizer, RemoveFinalizer, GoesTo, IInv, UninstallersOK
  <2>4. Edit(a, cache[a], new)
    BY <2>2, <2>3 DEF Edit, StillStarted, EntriesOf, AppObjects
  <2>5. Current(a, cache[a]) => Edit(a, apps[a], new)
    <3> HIDE DEF new
    <3> QED BY <2>1, <2>4, CurrentCopy DEF CopiesOK
  <2> QED BY <1>2, <2>1, <2>2, <2>5, UpdateChange
<1> QED BY <1>1, <1>2 DEF RemoveFinalizer

\* No step changes an App in another way.
LEMMA NextChange ==
  ASSUME IInv, CopiesOK, [Next]_vars
  PROVE  \A b \in Apps : Change(b)
<1>1. CASE UNCHANGED apps
  BY <1>1 DEF Change
<1>2. CASE External \/ Sync
  BY <1>1, <1>2, UsersChange
     DEF External, Sync, Publish, NamespaceFinalized, JobCreatesNamespace, JobEnds, CollectJob,
         CollectWatcher, SyncApp, SyncNamespace, SyncWatcher
<1>3. CASE ReconcileApp
  <2>1. ASSUME NEW a \in Apps,
               \/ Uninstall(a) \/ PanicInPreInstall(a) \/ ResolveDependencies(a)
               \/ PanicInDependencies(a) \/ LaunchJob(a) \/ WatchJob(a)
        PROVE  UNCHANGED apps
    BY <2>1 DEF Uninstall, PanicInPreInstall, ResolveDependencies, PanicInDependencies, LaunchJob,
                WatchJob, Restarted
  <2> QED BY <1>1, <1>3, <2>1, AddFinalizerChange, ClearStatusChange, RestoreActionChange,
             PreInstallChange, DependenciesChange, RecordJobChange, FinishChange
          DEF ReconcileApp, ReconcileAppOf
<1>4. CASE ReconcileJobWatcher
  BY <1>1, <1>4, ReportVerdictChange
     DEF ReconcileJobWatcher, CheckRunningJob, PanicOnNilMap, MarkReconciled, Restarted
<1>5. CASE WatchForNewUpdate
  BY <1>1, <1>5, CheckUpdateChange DEF WatchForNewUpdate, WakeUp
<1>6. CASE ProcessAppNamespaceDeletion
  BY <1>1, <1>6, RemoveFinalizerChange
     DEF ProcessAppNamespaceDeletion, UninstallerOf, StopWaiting, DeleteNamespace, AwaitNamespace,
         Release
<1>7. CASE Crash \/ UNCHANGED vars
  BY <1>1, <1>7 DEF Crash, Restarted, vars, apiVars
<1> QED BY <1>2, <1>3, <1>4, <1>5, <1>6, <1>7 DEF Next

-----------------------------------------------------------------------------
(***************************************************************************)
(* All copies are coherent.                                                *)
(***************************************************************************)
\* Every change of an App is a new revision.
LEMMA ChangeAdvances ==
  ASSUME IInv, NEW a \in Apps, Change(a)
  PROVE  apps'[a] = apps[a] \/ apps'[a].revision = apps[a].revision + 1
<1>1. apps[a] \in AppObjects /\ apps[a].revision + 1 \in Nat
  BY DEF IInv, AppsOK, AppObjects
<1>2. \A r \in Nat : [NoApp EXCEPT !.revision = r].revision = r
  BY NoAppType DEF AppObjects
<1>3. ASSUME NEW new \in AppObjects
      PROVE  Stored(apps[a], new) = apps[a] \/ Stored(apps[a], new).revision = apps[a].revision + 1
  <2>1. [new EXCEPT !.revision = apps[a].revision + 1].revision = apps[a].revision + 1
    BY DEF AppObjects
  <2> QED BY <1>1, <1>2, <2>1 DEF Stored
<1>4. \A plan : NewApp(a, plan).revision = apps[a].revision + 1
  BY NoAppType DEF NewApp, AppObjects
<1> QED BY <1>3, <1>4 DEF Change

\* A coherent copy stays coherent: the stored App stays or is newer.
LEMMA CoherentAdvances ==
  ASSUME IInv, NEW a \in Apps, Change(a), NEW copy \in AppObjects, Coherent(copy, apps[a])
  PROVE  Coherent(copy, apps'[a])
<1>1. copy.revision \in Nat /\ apps[a].revision \in Nat
  BY DEF IInv, AppsOK, AppObjects
<1> QED BY <1>1, ChangeAdvances DEF Coherent

\* The cache follows the store or stays as it is.
LEMMA CacheMoves ==
  ASSUME IInv, [Next]_vars
  PROVE  \A a \in Apps : cache'[a] = cache[a] \/ cache'[a] = apps'[a]
<1>1. CASE Informers
  BY <1>1 DEF Informers
<1>2. CASE Restarted
  BY <1>2 DEF Restarted
<1>3. CASE UNCHANGED cache
  BY <1>3
<1>4. CASE External \/ Sync
  <2>1. ASSUME NEW a \in Apps, SyncApp(a)
        PROVE  \A b \in Apps : cache'[b] = cache[b] \/ cache'[b] = apps'[b]
    BY <2>1 DEF SyncApp, IInv, CacheOK
  <2> QED BY <1>1, <1>3, <1>4, <2>1
          DEF External, Sync, UserCreates, UserUpdates, UserDeletes, Publish, NamespaceFinalized,
              JobCreatesNamespace, JobEnds, CollectJob, CollectWatcher, SyncNamespace, SyncWatcher
<1>5. CASE ReconcileApp
  BY <1>1, <1>2, <1>5
     DEF ReconcileApp, ReconcileAppOf, AddFinalizer, Uninstall, ClearStatus, RestoreAction, PreInstall,
         PanicInPreInstall, ResolveDependencies, CreateDependency, PanicInDependencies,
         StartDependencies, LaunchJob, RecordJob, WatchJob, Finish, WritesApps
<1>6. CASE ReconcileJobWatcher \/ WatchForNewUpdate
  BY <1>1, <1>2, <1>6
     DEF ReconcileJobWatcher, CheckRunningJob, ReportVerdict, PanicOnNilMap, MarkReconciled,
         WatchForNewUpdate, WakeUp, CheckUpdate
<1>7. CASE ProcessAppNamespaceDeletion
  BY <1>1, <1>7
     DEF ProcessAppNamespaceDeletion, UninstallerOf, StopWaiting, DeleteNamespace, AwaitNamespace,
         RemoveFinalizer, Release
<1>8. CASE Crash \/ UNCHANGED vars
  BY <1>2, <1>3, <1>8 DEF Crash, vars, apiVars
<1> QED BY <1>4, <1>5, <1>6, <1>7, <1>8 DEF Next

\* The copy that the worker takes with it to a next write is what its last write has
\* stored, or the one it has read.
HoldsCopy ==
  /\ worker'.app \in Apps
  /\ worker'.step \in Holding =>
       \/ worker'.copy = apps'[worker'.app]
       \/ worker'.copy \in AppObjects /\ Coherent(worker'.copy, apps[worker'.app])

\* Where the copy of the worker comes from.
LEMMA WorkerMoves ==
  ASSUME IInv, IInv', CopiesOK, [Next]_vars
  PROVE  UNCHANGED worker \/ worker' = Idle \/ HoldsCopy
<1>1. CASE External \/ Sync
  BY <1>1
     DEF External, Sync, UserCreates, UserUpdates, UserDeletes, Publish, NamespaceFinalized,
         JobCreatesNamespace, JobEnds, CollectJob, CollectWatcher, SyncApp, SyncNamespace,
         SyncWatcher, processVars
<1>2. ASSUME NEW a \in Apps,
             \/ Uninstall(a) \/ RestoreAction(a) \/ PreInstall(a) \/ PanicInPreInstall(a)
             \/ PanicInDependencies(a) \/ StartDependencies(a) \/ WatchJob(a) \/ Finish(a)
      PROVE  UNCHANGED worker \/ worker' = Idle
  BY <1>2 DEF Uninstall, RestoreAction, PreInstall, PanicInPreInstall, PanicInDependencies,
              StartDependencies, WatchJob, Finish, Restarted
<1>3. ASSUME NEW a \in Apps, AddFinalizer(a)
      PROVE  worker' = Idle \/ HoldsCopy
  BY <1>3 DEF AddFinalizer, HoldsCopy, At, Idle
<1>4. ASSUME NEW a \in Apps, ClearStatus(a)
      PROVE  HoldsCopy
  <2>1. Read(a) \in AppObjects /\ Coherent(Read(a), apps[a])
    BY <1>4, ReadCoherent DEF ClearStatus
  <2>2. PICK copy : /\ worker' = [At("update", a) EXCEPT !.copy = copy]
                    /\ copy = apps'[a] \/ copy = Read(a)
    BY <1>4 DEF ClearStatus
  <2>3. worker'.app = a /\ worker'.copy = copy
    BY <2>2 DEF At, Idle
  <2> QED BY <2>1, <2>2, <2>3 DEF HoldsCopy
<1>5. ASSUME NEW a \in Apps, ResolveDependencies(a)
      PROVE  worker' = Idle \/ HoldsCopy
  <2>1. worker' = Idle \/ \E todo : worker' = [At("dependencies", a) EXCEPT !.todo = todo]
    BY <1>5 DEF ResolveDependencies
  <2>2. ASSUME NEW todo, worker' = [At("dependencies", a) EXCEPT !.todo = todo]
        PROVE  worker'.app = a /\ worker'.step = "dependencies"
    BY <2>2 DEF At, Idle
  <2> QED BY <2>1, <2>2 DEF HoldsCopy, Holding
<1>6. ASSUME NEW d \in Apps, CreateDependency(d)
      PROVE  worker' = Idle \/ HoldsCopy
  <2>1. worker.app \in Apps /\ worker.step = "dependencies" /\ worker \in Workers
    BY <1>6 DEF CreateDependency, CopiesOK, IInv, WorkerOK
  <2>2. worker' = Idle \/ worker' = [worker EXCEPT !.todo = @ \ {d}]
    BY <1>6 DEF CreateDependency
  <2> QED BY <2>1, <2>2 DEF HoldsCopy, Holding, Workers
<1>7. ASSUME NEW a \in Apps, LaunchJob(a)
      PROVE  worker' = Idle \/ HoldsCopy
  <2>1. worker' = Idle \/ \E j : worker' = [At("record", a) EXCEPT !.job = j]
    BY <1>7 DEF LaunchJob
  <2>2. ASSUME NEW j, worker' = [At("record", a) EXCEPT !.job = j]
        PROVE  worker'.app = a /\ worker'.step = "record"
    BY <2>2 DEF At, Idle
  <2> QED BY <2>1, <2>2 DEF HoldsCopy, Holding
<1>8. ASSUME NEW a \in Apps, RecordJob(a)
      PROVE  worker' = Idle \/ HoldsCopy
  <2>1. \/ worker' = Idle
        \/ worker' = [At("watch", a) EXCEPT !.job = worker.job, !.copy = apps'[a]]
    BY <1>8 DEF RecordJob
  <2>2. worker' = Idle \/ (worker'.app = a /\ worker'.copy = apps'[a])
    BY <2>1 DEF At, Idle
  <2> QED BY <2>2 DEF HoldsCopy
<1>9. CASE ReconcileApp
  BY <1>2, <1>3, <1>4, <1>5, <1>6, <1>7, <1>8, <1>9 DEF ReconcileApp, ReconcileAppOf
<1>10. CASE ReconcileJobWatcher \/ WatchForNewUpdate
  BY <1>10
     DEF ReconcileJobWatcher, CheckRunningJob, ReportVerdict, PanicOnNilMap, MarkReconciled,
         WatchForNewUpdate, WakeUp, CheckUpdate, Restarted, restOfSystem, restOfThreads
<1>11. CASE ProcessAppNamespaceDeletion
  BY <1>11
     DEF ProcessAppNamespaceDeletion, UninstallerOf, StopWaiting, DeleteNamespace, AwaitNamespace,
         RemoveFinalizer, Release, restOfUninstall
<1>12. CASE Crash \/ UNCHANGED vars
  BY <1>12 DEF Crash, Restarted, vars, processVars
<1> QED BY <1>1, <1>9, <1>10, <1>11, <1>12 DEF Next

\* Coherence is inductive.
LEMMA CopiesStayCoherent ==
  ASSUME IInv, IInv', CopiesOK, [Next]_vars
  PROVE  CopiesOK'
<1>1. \A a \in Apps : Change(a)
  BY NextChange
<1>2. \A a \in Apps : Coherent(cache'[a], apps'[a])
  <2>1. \A a \in Apps : Coherent(apps'[a], apps'[a])
    BY DEF Coherent, IInv, AppsOK, AppObjects
  <2>2. \A a \in Apps : Coherent(cache[a], apps'[a])
    BY <1>1, CoherentAdvances DEF CopiesOK, IInv, CacheOK
  <2> QED BY <2>1, <2>2, CacheMoves
<1>3. worker'.step # "idle" => worker'.app \in Apps
  BY WorkerMoves DEF HoldsCopy, CopiesOK, Idle
<1>4. ASSUME worker'.step \in Holding
      PROVE  Coherent(worker'.copy, apps'[worker'.app])
  <2>1. worker'.app \in Apps
    BY <1>3, <1>4 DEF Holding
  <2>2. CASE worker'.copy = apps'[worker'.app]
    BY <2>1, <2>2 DEF Coherent, IInv, AppsOK, AppObjects
  <2>3. CASE worker'.copy \in AppObjects /\ Coherent(worker'.copy, apps[worker'.app])
    BY <1>1, <2>1, <2>3, CoherentAdvances
  <2>4. CASE UNCHANGED worker
    <3>1. worker.copy \in AppObjects /\ Coherent(worker.copy, apps[worker.app])
      BY <1>4, <2>4 DEF CopiesOK, IInv, WorkerOK, Workers
    <3> QED BY <1>1, <2>1, <2>4, <3>1, CoherentAdvances
  <2> QED BY <1>4, <2>2, <2>3, <2>4, WorkerMoves DEF HoldsCopy, Idle, Holding
<1> QED BY <1>2, <1>3, <1>4 DEF CopiesOK

\* Every copy of an App that a write may be made from, in the cache or with the worker, is
\* the stored App if it is as new: this is what resource versions are for.
THEOREM CopiesAreCoherent == Spec => []CopiesOK
<1>1. Init => CopiesOK
  <2>1. Coherent(NoApp, NoApp)
    BY NoAppType DEF Coherent, AppObjects
  <2> QED BY <2>1 DEF Init, ApiInit, ProcessInit, CopiesOK, Idle, Holding
<1>2. IInv /\ IInv' /\ CopiesOK /\ [Next]_vars => CopiesOK'
  BY CopiesStayCoherent
<1> QED BY <1>1, <1>2, InvariantHolds, PTL DEF Spec

-----------------------------------------------------------------------------
UidsOK == \A a \in Apps : apps[a].uid \in Nat /\ apps[a].uid <= apps[a].revision

\* The uid of an App is the revision at which it came into being.
LEMMA UidsStayOK ==
  ASSUME IInv, CopiesOK, UidsOK, [Next]_vars
  PROVE  UidsOK'
<1> SUFFICES ASSUME NEW a \in Apps
             PROVE  apps'[a].uid \in Nat /\ apps'[a].uid <= apps'[a].revision
  BY DEF UidsOK
<1>1. apps[a].uid \in Nat /\ apps[a].revision \in Nat /\ apps[a].uid <= apps[a].revision
  BY DEF UidsOK, IInv, AppsOK, AppObjects
<1>2. CASE apps'[a] = apps[a]
  BY <1>1, <1>2
<1>3. ASSUME NEW plan \in Nat, apps'[a] = NewApp(a, plan)
      PROVE  apps'[a].uid \in Nat /\ apps'[a].uid <= apps'[a].revision
  BY <1>1, <1>3, NoAppType DEF NewApp, AppObjects
<1>4. ASSUME NEW new \in AppObjects, Edit(a, apps[a], new), apps'[a] = Stored(apps[a], new)
      PROVE  apps'[a].uid \in Nat /\ apps'[a].uid <= apps'[a].revision
  <2>1. new.uid = apps[a].uid
    BY <1>4 DEF Edit
  <2>2. [new EXCEPT !.revision = apps[a].revision + 1].uid = apps[a].uid
        /\ [new EXCEPT !.revision = apps[a].revision + 1].revision = apps[a].revision + 1
    BY <2>1 DEF AppObjects
  <2>3. [NoApp EXCEPT !.revision = apps[a].revision + 1].uid = 0
        /\ [NoApp EXCEPT !.revision = apps[a].revision + 1].revision = apps[a].revision + 1
    BY DEF NoApp
  <2> QED BY <1>1, <1>4, <2>2, <2>3 DEF Stored
<1> QED BY <1>2, <1>3, <1>4, NextChange DEF Change

\* A name that is used again has a uid of its own.
LEMMA UidsAreOK == Spec => []UidsOK
<1>1. Init => UidsOK
  <2>1. NoApp.uid \in Nat /\ NoApp.uid <= NoApp.revision
    BY DEF NoApp
  <2> QED BY <2>1 DEF Init, ApiInit, UidsOK
<1>2. IInv /\ CopiesOK /\ UidsOK /\ [Next]_vars => UidsOK'
  BY UidsStayOK
<1> QED BY <1>1, <1>2, InvariantHolds, CopiesAreCoherent, PTL DEF Spec

\* Jobs keep what they were made for, and how they ended.
JobsKept ==
  \A j \in JobIds : jobs[j].kind # "none" =>
    /\ jobs'[j].kind = jobs[j].kind /\ jobs'[j].app = jobs[j].app
    /\ jobs[j].state # "running" => jobs'[j].state = jobs[j].state

\* No step changes a Job in another way.
LEMMA JobsMove ==
  ASSUME IInv, [Next]_vars
  PROVE  JobsKept
<1>1. CASE UNCHANGED jobs
  BY <1>1 DEF JobsKept
<1>2. ASSUME NEW j \in JobIds, NEW kind, NEW a, NEW owner, NEW ok, CreateJob(j, kind, a, owner, ok)
      PROVE  JobsKept
  BY <1>2 DEF CreateJob, NextJob, JobsKept, IInv, JobsOK
<1>3. CASE External \/ Sync
  <2>1. ASSUME NEW j \in JobIds, JobEnds(j)
        PROVE  JobsKept
    BY <2>1 DEF JobEnds, JobsKept, IInv, JobsOK, JobObjects, NoJobObject
  <2>2. ASSUME NEW j \in JobIds, CollectJob(j)
        PROVE  JobsKept
    BY <2>2 DEF CollectJob, JobsKept, IInv, JobsOK, JobObjects, NoJobObject
  <2> QED BY <1>1, <1>3, <2>1, <2>2
          DEF External, Sync, UserCreates, UserUpdates, UserDeletes, Publish, NamespaceFinalized,
              JobCreatesNamespace, CollectWatcher, SyncApp, SyncNamespace, SyncWatcher
<1>4. CASE ReconcileApp
  <2>1. ASSUME NEW a \in Apps,
               \/ AddFinalizer(a) \/ ClearStatus(a) \/ RestoreAction(a)
               \/ PreInstall(a) \/ PanicInPreInstall(a) \/ ResolveDependencies(a)
               \/ CreateDependency(a) \/ PanicInDependencies(a) \/ StartDependencies(a)
               \/ RecordJob(a) \/ WatchJob(a) \/ Finish(a)
        PROVE  UNCHANGED jobs
    BY <2>1 DEF AddFinalizer, ClearStatus, RestoreAction, PreInstall, PanicInPreInstall,
                ResolveDependencies, CreateDependency, PanicInDependencies, StartDependencies,
                RecordJob, WatchJob, Finish, WritesApps, Restarted, restOfFinish
  <2>2. ASSUME NEW a \in Apps, LaunchJob(a) \/ Uninstall(a)
        PROVE  JobsKept
    BY <1>1, <1>2, <2>2 DEF LaunchJob, Uninstall
  <2> QED BY <1>1, <1>4, <2>1, <2>2 DEF ReconcileApp, ReconcileAppOf
<1>5. CASE ReconcileJobWatcher
  BY <1>1, <1>5
     DEF ReconcileJobWatcher, CheckRunningJob, ReportVerdict, PanicOnNilMap, MarkReconciled, Restarted
<1>6. CASE WatchForNewUpdate \/ ProcessAppNamespaceDeletion
  BY <1>1, <1>6
     DEF WatchForNewUpdate, WakeUp, CheckUpdate, restOfThreads, ProcessAppNamespaceDeletion,
         UninstallerOf, StopWaiting, DeleteNamespace, AwaitNamespace, RemoveFinalizer, Release,
         restOfUninstall
<1>7. CASE Crash \/ UNCHANGED vars
  BY <1>1, <1>7 DEF Crash, Restarted, vars, apiVars
<1> QED BY <1>3, <1>4, <1>5, <1>6, <1>7 DEF Next

-----------------------------------------------------------------------------
\* What the pre-install stage stored for a key (a generated password, an address) is never
\* changed as long as the App exists: not by an update with another manifest or other
\* settings, and not by any of the writers that hold an old copy of the App.
THEOREM ConfigurationsAreKept == Spec => ConfigurationsKept
<1> DEFINE Keep == \A a \in Apps : \A k \in Keys :
       apps[a].exists /\ apps'[a].exists /\ apps'[a].uid = apps[a].uid /\ EntriesOf(apps[a], k) # {}
         => EntriesOf(apps'[a], k) = EntriesOf(apps[a], k)
<1>1. IInv /\ CopiesOK /\ [Next]_vars => [Keep]_vars
  <2> SUFFICES ASSUME IInv, CopiesOK, [Next]_vars, NEW a \in Apps, NEW k \in Keys,
                      apps[a].exists, apps'[a].exists, EntriesOf(apps[a], k) # {}
               PROVE  EntriesOf(apps'[a], k) = EntriesOf(apps[a], k)
    OBVIOUS
  <2>1. Change(a)
    BY NextChange
  <2>2. CASE apps'[a] = apps[a]
    BY <2>2 DEF EntriesOf
  <2>3. ASSUME NEW new \in AppObjects, Edit(a, apps[a], new), apps'[a] = Stored(apps[a], new)
        PROVE  EntriesOf(apps'[a], k) = EntriesOf(apps[a], k)
    <3>1. EntriesOf(new, k) = EntriesOf(apps[a], k)
      BY <2>3 DEF Edit
    <3>2. ~[NoApp EXCEPT !.revision = apps[a].revision + 1].exists
      BY NoAppType DEF NoApp
    <3>3. apps'[a] = new \/ apps'[a] = [new EXCEPT !.revision = apps[a].revision + 1]
      BY <2>3, <3>2 DEF Stored
    <3>4. apps'[a].configurations = new.configurations
      BY <3>3 DEF AppObjects
    <3> QED BY <3>1, <3>4 DEF EntriesOf
  <2> QED BY <2>1, <2>2, <2>3 DEF Change
<1> QED BY <1>1, InvariantHolds, CopiesAreCoherent, PTL DEF Spec, ConfigurationsKept
=============================================================================
