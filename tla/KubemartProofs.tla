--------------------------- MODULE KubemartProofs ---------------------------
(***************************************************************************)
(* Safety of the operator, proved for every catalogue of applications, any *)
(* lag of the caches and all bounds.  The argument is one inductive        *)
(* invariant, IInv.  Its heart is Sound: what an App's status claims is    *)
(* backed by Jobs, in the stored App as well as in every copy of it that a *)
(* write may be made from; and Jobs only come and end, so that a claim     *)
(* which was true once stays true however old the copy is.  There is one   *)
(* lemma for each action, by the component that takes it.                  *)
(***************************************************************************)
EXTENDS KubemartOperator, TLAPS

\* The bounds are numbers, and NoJob is the number of no Job.
LEMMA BoundsTypes ==
  /\ MaxJobs \in Nat /\ MaxVersion \in Nat /\ MaxFaults \in Nat /\ MaxCrashes \in Nat
  /\ MaxThreads \in Nat /\ MaxChecks \in Nat
  /\ NoJob \notin JobIds
BY BoundsAssumption, VersionAssumption, ProcessBoundsAssumption DEF JobIds, NoJob

\* A free name is a well-formed App record.
LEMMA NoAppType == NoApp \in AppObjects
BY BoundsTypes DEF NoApp, AppObjects, Statuses, JobEntries, NoJob, NoVersion, NoPlan

\* Each field the operator writes into an App keeps the record well formed.
LEMMA AppEdits ==
  ASSUME NEW app \in AppObjects
  PROVE  /\ \A r \in Nat : [app EXCEPT !.revision = r] \in AppObjects
         /\ \A b \in BOOLEAN : [app EXCEPT !.finalizer = b] \in AppObjects
         /\ \A b \in BOOLEAN : [app EXCEPT !.deleting = b] \in AppObjects
         /\ \A x \in {"install", "update"} : [app EXCEPT !.action = x] \in AppObjects
         /\ \A s \in Statuses : [app EXCEPT !.lastStatus = s] \in AppObjects
         /\ \A e \in SUBSET Entries : [app EXCEPT !.configurations = e] \in AppObjects
         /\ \A v \in 0..MaxVersion : [app EXCEPT !.version = v] \in AppObjects
         /\ \A v \in 0..MaxVersion : [app EXCEPT !.newVersion = v] \in AppObjects
BY DEF AppObjects

\* What the API server stores of a well-formed write is well formed.
LEMMA StoredType ==
  ASSUME NEW old \in AppObjects, NEW new \in AppObjects
  PROVE  Stored(old, new) \in AppObjects
BY NoAppType DEF Stored, AppObjects

-----------------------------------------------------------------------------
\* What an App object may say when the Jobs are js.
Sound(js, app, a) ==
  /\ app.lastStatus = "installation_finished" =>
       \E j \in JobIds : js[j].kind = "install" /\ js[j].app = a /\ js[j].state = "complete"
  /\ \A j \in JobIds : app.executed[j] # "none" =>
       /\ js[j].kind = "install" /\ js[j].app = a
       /\ app.executed[j] = "installation_finished" => js[j].state = "complete"
       /\ app.executed[j] = "installation_failed" => js[j].state = "failed"
  /\ app.newVersion # NoVersion => app.version \notin {NoVersion, app.newVersion}

\* Only a verdict or an entry can make an App unsound: every other edit keeps it sound.
LEMMA SoundEdits ==
  ASSUME NEW js, NEW a, NEW app \in AppObjects, Sound(js, app, a)
  PROVE  /\ \A r : Sound(js, [app EXCEPT !.revision = r], a)
         /\ \A b : Sound(js, [app EXCEPT !.finalizer = b], a)
         /\ \A b : Sound(js, [app EXCEPT !.deleting = b], a)
         /\ \A x : Sound(js, [app EXCEPT !.action = x], a)
         /\ \A s : s # "installation_finished" => Sound(js, [app EXCEPT !.lastStatus = s], a)
         /\ \A e : Sound(js, [app EXCEPT !.configurations = e], a)
         /\ \A v : app.version = NoVersion => Sound(js, [app EXCEPT !.version = v], a)
         /\ \A v : v = NoVersion \/ app.version \notin {NoVersion, v} =>
              Sound(js, [app EXCEPT !.newVersion = v], a)
BY DEF Sound, AppObjects

\* A free name claims nothing, so it is sound.
LEMMA NoAppSound ==
  ASSUME NEW js, NEW a
  PROVE  Sound(js, NoApp, a)
BY DEF Sound, NoApp

\* What the API server stores of a sound write over a sound App is sound.
LEMMA StoredSound ==
  ASSUME NEW js, NEW a, NEW old \in AppObjects, NEW new \in AppObjects,
         Sound(js, old, a), Sound(js, new, a)
  PROVE  Sound(js, Stored(old, new), a)
BY SoundEdits, NoAppSound, NoAppType DEF Stored

(***************************************************************************)
(* The inductive invariant, one part for each part of the state.           *)
(***************************************************************************)
AppsOK ==
  /\ apps \in [Apps -> AppObjects]
  /\ \A a \in Apps : Sound(jobs, apps[a], a)

CacheOK ==
  /\ cache \in [Apps -> AppObjects]
  /\ \A a \in Apps : Sound(jobs, cache[a], a)

JobsOK ==
  /\ jobs \in [JobIds -> JobObjects]
  /\ ErrorPages \/ DependenciesFirst

WatchersOK ==
  /\ watchers \in [JobIds -> WatcherObjects]
  /\ watcherCache \in [JobIds -> WatcherObjects]
  /\ \A j \in JobIds : watchers[j].exists \/ watcherCache[j].exists => jobs[j].kind = "install"

NamespacesOK ==
  /\ namespaces \in [Apps -> NamespaceStates]
  /\ namespaceCache \in [Apps -> BOOLEAN]

CountersOK ==
  /\ published \in [Apps -> 1..MaxVersion]
  /\ faults \in 0..MaxFaults
  /\ requests \in [RequestKinds -> Nat]
  /\ crashes \in 0..MaxCrashes
  /\ checks \in [JobIds -> 0..MaxChecks]

\* A worker between two writes: the copy it will write from is sound, and the Job it has
\* created is an install Job of its App.
WorkerOK ==
  /\ worker \in Workers
  /\ worker.step = "begun" => Sound(jobs, worker.copy, worker.app)
  /\ worker.step \in {"record", "watch"} =>
       worker.job \in JobIds /\ jobs[worker.job].kind = "install"
         /\ jobs[worker.job].app = worker.app

JobWorkerOK == jobWorker \in JobWorkers

ThreadsOK ==
  /\ updateWatcher \in SUBSET Apps
  /\ updateThreads \in [ThreadIds -> Threads]

\* A running uninstall keeps its App's name in terminatingApps.
UninstallersOK ==
  /\ uninstallers \in [JobIds -> UninstallSteps]
  /\ terminatingApps \in SUBSET Apps
  /\ \A j \in JobIds : Uninstalling(j) =>
       jobs[j].kind = "uninstall" /\ jobs[j].app \in terminatingApps
  /\ OneUninstaller

IInv ==
  /\ AppsOK /\ CacheOK /\ JobsOK /\ WatchersOK /\ NamespacesOK /\ CountersOK
  /\ WorkerOK /\ JobWorkerOK /\ ThreadsOK /\ UninstallersOK

-----------------------------------------------------------------------------
\* Update and Status().Update with a sound App keep all Apps sound, whatever the outcome
\* of the call and however old the copy it was made from.
LEMMA UpdateAppOK ==
  ASSUME AppsOK, faults \in 0..MaxFaults,
         NEW a \in Apps, NEW copy, NEW new \in AppObjects, Sound(jobs, new, a), NEW ok,
         UpdateApp(a, copy, new, ok), UNCHANGED jobs
  PROVE  AppsOK' /\ faults' \in 0..MaxFaults
<1>1. CASE UNCHANGED apps
  BY <1>1, BoundsTypes DEF UpdateApp, AppsOK, Fault
<1>2. CASE WriteApp(a, new)
  <2>1. Stored(apps[a], new) \in AppObjects /\ Sound(jobs, Stored(apps[a], new), a)
    BY StoredType, StoredSound DEF AppsOK
  <2>2. faults' \in 0..MaxFaults
    BY BoundsTypes DEF UpdateApp, Fault
  <2> QED BY <1>2, <2>1, <2>2 DEF WriteApp, AppsOK
<1> QED BY <1>1, <1>2 DEF UpdateApp

\* A new App is well formed and sound.
LEMMA NewAppOK ==
  ASSUME AppsOK, NEW a \in Apps, NEW plan \in Nat
  PROVE  NewApp(a, plan) \in AppObjects /\ Sound(jobs, NewApp(a, plan), a)
<1>1. apps[a].revision + 1 \in Nat
  BY DEF AppsOK, AppObjects
<1>2. NewApp(a, plan) \in AppObjects
  BY <1>1, NoAppType DEF NewApp, AppObjects
<1>3. /\ NewApp(a, plan).lastStatus = NoApp.lastStatus
      /\ NewApp(a, plan).executed = NoApp.executed
      /\ NewApp(a, plan).newVersion = NoApp.newVersion
  BY NoAppType DEF NewApp, AppObjects
<1> QED BY <1>2, <1>3 DEF Sound, NoApp

\* Create of an App keeps all Apps sound, whatever the outcome of the call.
LEMMA CreateAppOK ==
  ASSUME AppsOK, faults \in 0..MaxFaults, NEW a \in Apps, NEW plan \in Nat, NEW ok,
         CreateApp(a, plan, ok), UNCHANGED jobs
  PROVE  AppsOK' /\ faults' \in 0..MaxFaults
<1>1. NewApp(a, plan) \in AppObjects /\ Sound(jobs, NewApp(a, plan), a)
  BY NewAppOK
<1>2. UNCHANGED apps \/ apps' = [apps EXCEPT ![a] = NewApp(a, plan)]
  BY DEF CreateApp
<1>3. faults' \in 0..MaxFaults
  BY BoundsTypes DEF CreateApp, Fault
<1> QED BY <1>1, <1>2, <1>3 DEF AppsOK

-----------------------------------------------------------------------------
\* What a step leaves alone keeps its part of the invariant.
LEMMA Frames ==
  ASSUME IInv, UNCHANGED jobs
  PROVE  /\ UNCHANGED apps => AppsOK'
         /\ JobsOK'
         /\ UNCHANGED worker => WorkerOK'
         /\ UNCHANGED jobWorker => JobWorkerOK'
         /\ UNCHANGED <<updateWatcher, updateThreads>> => ThreadsOK'
         /\ UNCHANGED <<uninstallers, terminatingApps>> => UninstallersOK'
         /\ UNCHANGED <<published, faults, requests, crashes, checks>> => CountersOK'
<1>1. UNCHANGED apps => AppsOK'
  BY DEF IInv, AppsOK
<1>2. JobsOK'
  BY DEF IInv, JobsOK, DependenciesFirst, InstallJobOf, WasInstalled
<1>3. UNCHANGED worker => WorkerOK'
  BY DEF IInv, WorkerOK
<1>4. UNCHANGED jobWorker => JobWorkerOK'
  BY DEF IInv, JobWorkerOK
<1>5. UNCHANGED <<updateWatcher, updateThreads>> => ThreadsOK'
  BY DEF IInv, ThreadsOK
<1>6. UNCHANGED <<uninstallers, terminatingApps>> => UninstallersOK'
  BY DEF IInv, UninstallersOK, OneUninstaller, Uninstalling
<1>7. UNCHANGED <<published, faults, requests, crashes, checks>> => CountersOK'
  BY DEF IInv, CountersOK
<1> QED BY <1>1, <1>2, <1>3, <1>4, <1>5, <1>6, <1>7

\* The informers bring into the cache only what is stored.
LEMMA InformersOK ==
  ASSUME IInv, UNCHANGED jobs, Informers
  PROVE  /\ AppsOK' => CacheOK'
         /\ UNCHANGED watchers => WatchersOK'
         /\ UNCHANGED namespaces => NamespacesOK'
<1>1. AppsOK' => CacheOK'
  BY DEF IInv, Informers, CacheOK, AppsOK
<1>2. UNCHANGED watchers => WatchersOK'
  BY DEF IInv, Informers, WatchersOK
<1>3. UNCHANGED namespaces => NamespacesOK'
  BY DEF IInv, Informers, NamespacesOK
<1> QED BY <1>1, <1>2, <1>3

-----------------------------------------------------------------------------
(***************************************************************************)
(* The world around the operator.                                          *)
(***************************************************************************)
\* A user request is counted down.
LEMMA AskedOK ==
  ASSUME IInv, NEW kind \in RequestKinds, Asked(kind), UNCHANGED <<published, faults, crashes, checks>>
  PROVE  CountersOK'
BY DEF IInv, CountersOK, Asked

\* A user creating an App keeps the invariant.
LEMMA UserCreatesOK ==
  ASSUME IInv, NEW a \in Apps, UserCreates(a)
  PROVE  IInv'
<1>1. \A plan \in UserPlans :
        NewApp(a, plan) \in AppObjects /\ Sound(jobs, NewApp(a, plan), a)
  BY NewAppOK, InputsAssumption DEF IInv
<1>2. AppsOK'
  BY <1>1 DEF UserCreates, IInv, AppsOK
<1>3. CountersOK'
  BY AskedOK DEF UserCreates, processVars, RequestKinds
<1> QED BY <1>2, <1>3, Frames, InformersOK DEF UserCreates, IInv, processVars

\* A user asking for an update keeps the invariant.
LEMMA UserUpdatesOK ==
  ASSUME IInv, NEW a \in Apps, UserUpdates(a)
  PROVE  IInv'
<1> DEFINE new == [apps[a] EXCEPT !.action = "update"]
<1>1. Stored(apps[a], new) \in AppObjects /\ Sound(jobs, Stored(apps[a], new), a)
  BY AppEdits, SoundEdits, StoredType, StoredSound DEF IInv, AppsOK
<1>2. AppsOK'
  BY <1>1 DEF UserUpdates, WriteApp, IInv, AppsOK
<1>3. CountersOK'
  BY AskedOK DEF UserUpdates, processVars, RequestKinds
<1> QED BY <1>2, <1>3, Frames, InformersOK DEF UserUpdates, IInv, processVars

\* A user deleting an App keeps the invariant.
LEMMA UserDeletesOK ==
  ASSUME IInv, NEW a \in Apps, UserDeletes(a)
  PROVE  IInv'
<1> DEFINE new == [apps[a] EXCEPT !.deleting = TRUE]
<1>1. Stored(apps[a], new) \in AppObjects /\ Sound(jobs, Stored(apps[a], new), a)
  BY AppEdits, SoundEdits, StoredType, StoredSound DEF IInv, AppsOK
<1>2. AppsOK'
  BY <1>1 DEF UserDeletes, WriteApp, IInv, AppsOK
<1>3. CountersOK'
  BY AskedOK DEF UserDeletes, processVars, RequestKinds
<1> QED BY <1>2, <1>3, Frames, InformersOK DEF UserDeletes, IInv, processVars

\* A new version in the marketplace keeps the invariant.
LEMMA PublishOK ==
  ASSUME IInv, NEW a \in Apps, Publish(a)
  PROVE  IInv'
<1>1. CountersOK'
  BY BoundsTypes DEF Publish, IInv, CountersOK, processVars
<1> QED BY <1>1, Frames, InformersOK DEF Publish, IInv, processVars

\* A Job creating its namespace keeps the invariant.
LEMMA JobCreatesNamespaceOK ==
  ASSUME IInv, NEW j \in JobIds, JobCreatesNamespace(j)
  PROVE  IInv'
<1>1. NamespacesOK'
  BY DEF JobCreatesNamespace, Informers, IInv, NamespacesOK, NamespaceStates
<1> QED BY <1>1, Frames, InformersOK DEF JobCreatesNamespace, IInv, processVars

\* A namespace that is gone keeps the invariant.
LEMMA NamespaceFinalizedOK ==
  ASSUME IInv, NEW a \in Apps, NamespaceFinalized(a)
  PROVE  IInv'
<1>1. NamespacesOK'
  BY DEF NamespaceFinalized, Informers, IInv, NamespacesOK, NamespaceStates
<1> QED BY <1>1, Frames, InformersOK DEF NamespaceFinalized, IInv, processVars

\* A JobWatcher that is garbage collected keeps the invariant.
LEMMA CollectWatcherOK ==
  ASSUME IInv, NEW j \in JobIds, CollectWatcher(j)
  PROVE  IInv'
<1>1. WatchersOK'
  BY DEF CollectWatcher, Informers, IInv, WatchersOK, WatcherObjects
<1> QED BY <1>1, Frames, InformersOK DEF CollectWatcher, IInv, processVars

\* The informer of the Apps keeps the invariant.
LEMMA SyncAppOK ==
  ASSUME IInv, NEW a \in Apps, SyncApp(a)
  PROVE  IInv'
<1>1. CacheOK'
  BY DEF SyncApp, IInv, CacheOK, AppsOK
<1>2. WatchersOK' /\ NamespacesOK'
  BY DEF SyncApp, IInv, WatchersOK, NamespacesOK
<1> QED BY <1>1, <1>2, Frames DEF SyncApp, IInv, processVars

\* The informer of the JobWatchers keeps the invariant.
LEMMA SyncWatcherOK ==
  ASSUME IInv, NEW j \in JobIds, SyncWatcher(j)
  PROVE  IInv'
<1>1. WatchersOK'
  BY DEF SyncWatcher, IInv, WatchersOK
<1>2. CacheOK' /\ NamespacesOK'
  BY DEF SyncWatcher, IInv, CacheOK, NamespacesOK
<1> QED BY <1>1, <1>2, Frames DEF SyncWatcher, IInv, processVars

\* The informer of the namespaces keeps the invariant.
LEMMA SyncNamespaceOK ==
  ASSUME IInv, NEW a \in Apps, SyncNamespace(a)
  PROVE  IInv'
<1>1. NamespacesOK'
  BY DEF SyncNamespace, IInv, NamespacesOK
<1>2. CacheOK' /\ WatchersOK'
  BY DEF SyncNamespace, IInv, CacheOK, WatchersOK
<1> QED BY <1>1, <1>2, Frames DEF SyncNamespace, IInv, processVars

-----------------------------------------------------------------------------
(***************************************************************************)
(* Jobs only come and end: what is true because of a Job stays true.       *)
(***************************************************************************)
JobsEvolve ==
  /\ jobs' \in [JobIds -> JobObjects]
  /\ \A j \in JobIds : jobs[j].kind # "none" =>
       /\ jobs'[j].kind = jobs[j].kind /\ jobs'[j].app = jobs[j].app
       /\ jobs[j].state # "running" => jobs'[j].state = jobs[j].state
  /\ ErrorPages \/ \A j \in JobIds : jobs[j].kind = "none" /\ jobs'[j].kind = "install" =>
       \A d \in Dependencies[jobs'[j].app] : WasInstalled(d)

\* An App that is sound for the Jobs is sound for what they evolve to.
LEMMA SoundEvolves ==
  ASSUME JobsEvolve, NEW app, NEW a, Sound(jobs, app, a)
  PROVE  Sound(jobs', app, a)
BY DEF JobsEvolve, Sound

\* When only Jobs evolve, every other part of the invariant is kept.
LEMMA EvolveFrames ==
  ASSUME IInv, JobsEvolve, UNCHANGED <<apps, watchers, namespaces>>, Informers
  PROVE  /\ AppsOK' /\ CacheOK' /\ JobsOK' /\ WatchersOK' /\ NamespacesOK'
         /\ UNCHANGED worker => WorkerOK'
         /\ UNCHANGED jobWorker => JobWorkerOK'
         /\ UNCHANGED <<updateWatcher, updateThreads>> => ThreadsOK'
         /\ UNCHANGED <<uninstallers, terminatingApps>> => UninstallersOK'
         /\ UNCHANGED <<published, faults, requests, crashes, checks>> => CountersOK'
<1>1. AppsOK'
  BY SoundEvolves DEF IInv, AppsOK
<1>2. CacheOK'
  BY SoundEvolves DEF IInv, AppsOK, CacheOK, Informers
<1>3. JobsOK'
  <2>1. \A d \in Apps : WasInstalled(d) => WasInstalled(d)'
    BY DEF WasInstalled, InstallJobOf, JobsEvolve
  <2>2. ASSUME ~ErrorPages, NEW j \in JobIds, NEW a \in Apps, InstallJobOf(j, a)',
               NEW d \in Dependencies[a]
        PROVE  WasInstalled(d)'
    <3>1. d \in Apps
      BY DependenciesAssumption
    <3>2. CASE jobs[j].kind = "none"
      BY <2>1, <2>2, <3>1, <3>2 DEF JobsEvolve, InstallJobOf
    <3>3. CASE jobs[j].kind # "none"
      BY <2>1, <2>2, <3>1, <3>3 DEF JobsEvolve, InstallJobOf, IInv, JobsOK, DependenciesFirst
    <3> QED BY <3>2, <3>3
  <2> QED BY <2>2 DEF JobsOK, DependenciesFirst, JobsEvolve
<1>4. WatchersOK'
  BY DEF IInv, WatchersOK, Informers, JobsEvolve
<1>5. NamespacesOK'
  BY DEF IInv, NamespacesOK, Informers
<1>6. UNCHANGED worker => WorkerOK'
  BY SoundEvolves DEF IInv, WorkerOK, JobsEvolve
<1>7. UNCHANGED jobWorker => JobWorkerOK'
  BY DEF IInv, JobWorkerOK
<1>8. UNCHANGED <<updateWatcher, updateThreads>> => ThreadsOK'
  BY DEF IInv, ThreadsOK
<1>9. UNCHANGED <<uninstallers, terminatingApps>> => UninstallersOK'
  BY DEF IInv, UninstallersOK, OneUninstaller, Uninstalling, JobsEvolve
<1>10. UNCHANGED <<published, faults, requests, crashes, checks>> => CountersOK'
  BY DEF IInv, CountersOK
<1> QED BY <1>1, <1>2, <1>3, <1>4, <1>5, <1>6, <1>7, <1>8, <1>9, <1>10

\* Creating a Job is an evolution of the Jobs, provided that an install Job is created only
\* when the direct dependencies have been installed.
LEMMA CreateJobOK ==
  ASSUME IInv, NEW j \in JobIds, NEW kind \in {"install", "uninstall"}, NEW a \in Apps,
         NEW owner \in AppObjects, NEW ok, CreateJob(j, kind, a, owner, ok),
         kind = "install" => ErrorPages \/ \A d \in Dependencies[a] : WasInstalled(d)
  PROVE  /\ JobsEvolve /\ faults' \in 0..MaxFaults
         /\ jobs[j].kind = "none"
         /\ ok => jobs'[j].kind = kind /\ jobs'[j].app = a
<1> DEFINE job == [kind |-> kind, app |-> a, uid |-> owner.uid, state |-> "running",
                   exists |-> TRUE]
<1>1. jobs[j].kind = "none"
  BY DEF CreateJob, NextJob
<1>2. faults' \in 0..MaxFaults
  BY BoundsTypes DEF CreateJob, Fault, IInv, CountersOK
<1>3. CASE UNCHANGED jobs
  <2>1. ~ok
    BY <1>1, <1>3 DEF CreateJob, IInv, JobsOK
  <2> QED BY <1>1, <1>2, <1>3, <2>1 DEF JobsEvolve, IInv, JobsOK
<1>4. CASE jobs' = [jobs EXCEPT ![j] = job]
  <2>1. job \in JobObjects
    BY DEF JobObjects, AppObjects
  <2>2. jobs' \in [JobIds -> JobObjects] /\ jobs'[j] = job
        /\ \A i \in JobIds : i # j => jobs'[i] = jobs[i]
    BY <1>4, <2>1 DEF IInv, JobsOK
  <2> QED BY <1>1, <1>2, <2>2 DEF JobsEvolve
<1> QED BY <1>3, <1>4 DEF CreateJob

\* A Job that ends or is collected is another record of the same Job.
LEMMA JobChangesOK ==
  ASSUME IInv, NEW j \in JobIds, jobs[j].kind # "none",
         NEW job \in JobObjects, jobs' = [jobs EXCEPT ![j] = job],
         job.kind = jobs[j].kind, job.app = jobs[j].app,
         jobs[j].state # "running" => job.state = jobs[j].state
  PROVE  JobsEvolve
<1>1. jobs' \in [JobIds -> JobObjects] /\ jobs'[j] = job
      /\ \A i \in JobIds : i # j => jobs'[i] = jobs[i]
  BY DEF IInv, JobsOK
<1> QED BY <1>1 DEF JobsEvolve

\* A Job that ends keeps the invariant.
LEMMA JobEndsOK ==
  ASSUME IInv, NEW j \in JobIds, JobEnds(j)
  PROVE  IInv'
<1>1. PICK verdict \in {"complete", "failed"} : jobs' = [jobs EXCEPT ![j].state = verdict]
  BY DEF JobEnds
<1> DEFINE job == [jobs[j] EXCEPT !.state = verdict]
<1>2. jobs[j].kind # "none" /\ jobs[j].state = "running" /\ jobs[j] \in JobObjects
  BY DEF JobEnds, IInv, JobsOK
<1>3. job \in JobObjects /\ job.kind = jobs[j].kind /\ job.app = jobs[j].app
  BY <1>2 DEF JobObjects, NoJobObject
<1>4. jobs' = [jobs EXCEPT ![j] = job]
  BY <1>1
<1>5. JobsEvolve
  BY <1>2, <1>3, <1>4, JobChangesOK
<1> QED BY <1>5, EvolveFrames DEF JobEnds, IInv, processVars

\* A Job that is garbage collected keeps the invariant.
LEMMA CollectJobOK ==
  ASSUME IInv, NEW j \in JobIds, CollectJob(j)
  PROVE  IInv'
<1> DEFINE job == [jobs[j] EXCEPT !.exists = FALSE]
<1>1. jobs[j] \in JobObjects /\ jobs[j].exists
  BY DEF CollectJob, IInv, JobsOK
<1>2. jobs[j].kind # "none"
  BY <1>1 DEF JobObjects, NoJobObject
<1>3. jobs[j] \in [kind: {"install", "uninstall"}, app: Apps, uid: Nat,
                   state: {"running", "complete", "failed"}, exists: BOOLEAN]
  BY <1>1, <1>2 DEF JobObjects, NoJobObject
<1>4. job \in JobObjects /\ job.kind = jobs[j].kind /\ job.app = jobs[j].app
      /\ job.state = jobs[j].state
  BY <1>3 DEF JobObjects
<1>5. jobs' = [jobs EXCEPT ![j] = job]
  BY DEF CollectJob
<1>6. JobsEvolve
  BY <1>2, <1>4, <1>5, JobChangesOK
<1> QED BY <1>6, EvolveFrames DEF CollectJob, IInv, processVars

-----------------------------------------------------------------------------
(***************************************************************************)
(* The App controller.                                                     *)
(***************************************************************************)
\* A step of the App controller that writes only Apps keeps the invariant when it keeps the
\* Apps sound and leaves the worker in a good state.
LEMMA WritesAppsOK ==
  ASSUME IInv, AppsOK', WorkerOK', faults' \in 0..MaxFaults, WritesApps
  PROVE  IInv'
<1>1. CountersOK'
  BY DEF IInv, CountersOK, WritesApps, restOfApi, restOfProcess
<1> QED BY <1>1, Frames, InformersOK DEF WritesApps, restOfApi, restOfProcess, IInv

\* The states the worker is put in have the worker's type.
LEMMA AtType ==
  ASSUME NEW a \in Apps, NEW step \in WorkerSteps
  PROVE  At(step, a) \in Workers /\ At(step, a).step = step /\ At(step, a).app = a
BY NoAppType DEF Workers, Idle, At, WorkerSteps

\* The fields of a worker can be set to anything of their type.
LEMMA WorkerEdits ==
  ASSUME NEW w \in Workers
  PROVE  /\ \A c \in AppObjects :
              LET v == [w EXCEPT !.copy = c]
              IN  v \in Workers /\ v.step = w.step /\ v.app = w.app /\ v.job = w.job /\ v.copy = c
         /\ \A todo \in SUBSET Apps :
              LET v == [w EXCEPT !.todo = todo]
              IN  v \in Workers /\ v.step = w.step /\ v.app = w.app /\ v.job = w.job
         /\ \A j \in JobIds :
              LET v == [w EXCEPT !.job = j]
              IN  v \in Workers /\ v.step = w.step /\ v.app = w.app /\ v.job = j
BY DEF Workers

\* An idle worker owes the invariant nothing.
LEMMA IdleOK ==
  ASSUME worker' = Idle
  PROVE  WorkerOK'
BY NoAppType DEF WorkerOK, Workers, Idle, WorkerSteps

\* The App that a call of Reconcile works on is sound, however old.
LEMMA ReadOK ==
  ASSUME IInv, NEW a \in Apps, Begins(a)
  PROVE  Read(a) \in AppObjects /\ Sound(jobs, Read(a), a)
<1>1. cache[a] \in AppObjects /\ Sound(jobs, cache[a], a)
  BY DEF IInv, CacheOK
<1>2. worker.copy \in AppObjects
  BY DEF IInv, WorkerOK, Workers
<1>3. CASE worker.step = "begun"
  BY <1>2, <1>3 DEF IInv, WorkerOK, Begins, Read
<1>4. CASE worker.step # "begun"
  BY <1>1, <1>4 DEF Read
<1> QED BY <1>3, <1>4

\* Adding the finalizer keeps the invariant.
LEMMA AddFinalizerOK ==
  ASSUME IInv, NEW a \in Apps, AddFinalizer(a)
  PROVE  IInv'
<1> DEFINE new == [cache[a] EXCEPT !.finalizer = TRUE]
<1>1. PICK ok \in BOOLEAN :
        /\ UpdateApp(a, cache[a], new, ok)
        /\ worker' = IF ok /\ HasBranch(cache[a])
                     THEN [At("begun", a) EXCEPT !.copy = apps'[a]] ELSE Idle
  BY DEF AddFinalizer
<1>2. new \in AppObjects /\ Sound(jobs, new, a)
  BY AppEdits, SoundEdits DEF IInv, CacheOK
<1>3. AppsOK' /\ faults' \in 0..MaxFaults
  BY <1>1, <1>2, UpdateAppOK DEF AddFinalizer, WritesApps, IInv, CountersOK
<1>4. apps'[a] \in AppObjects /\ Sound(jobs', apps'[a], a)
  BY <1>3 DEF AppsOK
<1>5. WorkerOK'
  <2>1. CASE worker' = Idle
    BY <2>1, IdleOK
  <2>2. CASE worker' = [At("begun", a) EXCEPT !.copy = apps'[a]]
    <3>1. At("begun", a) \in Workers /\ At("begun", a).step = "begun" /\ At("begun", a).app = a
      BY AtType DEF WorkerSteps
    <3>2. worker' \in Workers /\ worker'.step = "begun" /\ worker'.app = a
          /\ worker'.copy = apps'[a]
      BY <1>4, <2>2, <3>1, WorkerEdits
    <3> QED BY <1>4, <3>2 DEF WorkerOK
  <2> QED BY <1>1, <2>1, <2>2
<1> QED BY <1>3, <1>5, WritesAppsOK DEF AddFinalizer

\* Clearing the status for an update keeps the invariant.
LEMMA ClearStatusOK ==
  ASSUME IInv, NEW a \in Apps, ClearStatus(a)
  PROVE  IInv'
<1> DEFINE new == [Read(a) EXCEPT !.version = NoVersion, !.lastStatus = "",
                                  !.newVersion = NoVersion]
<1>1. PICK ok \in BOOLEAN :
        /\ UpdateApp(a, Read(a), new, ok)
        /\ worker' = [At("update", a) EXCEPT !.copy = IF ok THEN apps'[a] ELSE Read(a)]
  BY DEF ClearStatus
<1>2. Read(a) \in AppObjects /\ Sound(jobs, Read(a), a)
  BY ReadOK DEF ClearStatus
<1>3. new \in AppObjects /\ new.lastStatus = "" /\ new.executed = Read(a).executed
      /\ new.newVersion = NoVersion
  <2>1. NoVersion \in 0..MaxVersion /\ "" \in Statuses
    BY BoundsTypes DEF NoVersion, Statuses
  <2> QED BY <1>2, <2>1 DEF AppObjects
<1>4. Sound(jobs, new, a)
  BY <1>2, <1>3 DEF Sound
<1>5. AppsOK' /\ faults' \in 0..MaxFaults
  BY <1>1, <1>3, <1>4, UpdateAppOK DEF ClearStatus, WritesApps, IInv, CountersOK
<1>6. (IF ok THEN apps'[a] ELSE Read(a)) \in AppObjects
  BY <1>2, <1>5 DEF AppsOK
<1>7. WorkerOK'
  <2>1. At("update", a) \in Workers /\ At("update", a).step = "update"
    BY AtType DEF WorkerSteps
  <2>2. worker' \in Workers /\ worker'.step = "update"
    BY <1>1, <1>6, <2>1, WorkerEdits
  <2> QED BY <2>2 DEF WorkerOK
<1> QED BY <1>5, <1>7, WritesAppsOK DEF ClearStatus

\* Setting the action back to install keeps the invariant.
LEMMA RestoreActionOK ==
  ASSUME IInv, NEW a \in Apps, RestoreAction(a)
  PROVE  IInv'
<1> DEFINE new == [apps[a] EXCEPT !.action = "install"]
<1>1. new \in AppObjects /\ Sound(jobs, new, a)
  BY AppEdits, SoundEdits DEF IInv, AppsOK
<1>2. AppsOK' /\ faults' \in 0..MaxFaults
  BY <1>1, UpdateAppOK DEF RestoreAction, WritesApps, IInv, CountersOK
<1> QED BY <1>2, IdleOK, WritesAppsOK DEF RestoreAction

\* The entries the pre-install stage adds are well formed.
LEMMA NewEntriesType ==
  ASSUME CountersOK, NEW a \in Apps, NEW app \in AppObjects, NEW settings \in Settings,
         NEW conf \in Downloads(Configuration[a][published[a]], <<>>)
  PROVE  NewEntries(app, conf, settings) \subseteq Entries
<1>1. DOMAIN conf \subseteq Keys
  BY ConfigurationAssumption DEF Downloads, CountersOK
<1>2. app.uid \in Nat /\ settings \in Nat
  BY InputsAssumption DEF AppObjects
<1>3. ASSUME NEW k \in DOMAIN conf, NEW n \in Kinds
      PROVE  [key |-> k, kind |-> n, value |-> IF n \in GeneratedKinds THEN app.uid ELSE settings]
               \in Entries
  BY <1>1, <1>2 DEF Entries
<1> QED BY <1>3 DEF NewEntries, Missing

\* The entry for the plan is well formed.
LEMMA PlanEntriesType ==
  ASSUME NEW app \in AppObjects, NEW plans, NEW planned \in PlanEntries(app, plans)
  PROVE  planned \subseteq Entries
<1>1. app.plan \in Nat
  BY DEF AppObjects
<1>2. \A k \in Keys : [key |-> k, kind |-> "plan", value |-> app.plan] \in Entries
  BY <1>1 DEF Entries
<1> QED BY <1>2 DEF PlanEntries, PlanVariables

\* The pre-install stage keeps the invariant.
LEMMA PreInstallOK ==
  ASSUME IInv, NEW a \in Apps, PreInstall(a)
  PROVE  IInv'
<1> DEFINE staged == [Read(a) EXCEPT !.lastStatus = "pre_installation_started"]
<1>1. staged \in AppObjects /\ Sound(jobs, staged, a) /\ Read(a) \in AppObjects
  BY ReadOK, AppEdits, SoundEdits DEF PreInstall, Installs, Statuses
<1>2. AppsOK' /\ faults' \in 0..MaxFaults
  <2>1. CASE UNCHANGED <<apps, faults>>
    BY <2>1, Frames DEF PreInstall, WritesApps, IInv, CountersOK
  <2>2. ASSUME NEW conf \in Downloads(Configuration[a][published[a]], <<>>),
               NEW settings \in Settings, NEW plans, NEW planned \in PlanEntries(Read(a), plans),
               NEW ok \in BOOLEAN,
               UpdateApp(a, Read(a),
                         [Read(a) EXCEPT !.lastStatus = "pre_installation_started",
                                         !.configurations = @ \cup NewEntries(Read(a), conf, settings)
                                                              \cup planned], ok)
        PROVE  AppsOK' /\ faults' \in 0..MaxFaults
    <3> DEFINE entries == Read(a).configurations \cup NewEntries(Read(a), conf, settings) \cup planned
               new == [staged EXCEPT !.configurations = entries]
    <3>1. entries \in SUBSET Entries
      <4>1. Read(a).configurations \subseteq Entries
        BY <1>1 DEF AppObjects
      <4>2. NewEntries(Read(a), conf, settings) \subseteq Entries
        BY <1>1, NewEntriesType DEF IInv
      <4>3. planned \subseteq Entries
        BY <1>1, PlanEntriesType
      <4> QED BY <4>1, <4>2, <4>3
    <3>2. new \in AppObjects /\ Sound(jobs, new, a)
      <4> HIDE DEF entries, staged
      <4> QED BY <1>1, <3>1, AppEdits, SoundEdits
    <3>3. UpdateApp(a, Read(a), new, ok)
      BY <2>2
    <3> HIDE DEF new
    <3> QED BY <3>2, <3>3, UpdateAppOK DEF PreInstall, WritesApps, IInv, CountersOK
  <2> QED BY <2>1, <2>2 DEF PreInstall
<1> QED BY <1>2, IdleOK, WritesAppsOK DEF PreInstall

\* Choosing the dependencies to create keeps the invariant.
LEMMA ResolveDependenciesOK ==
  ASSUME IInv, NEW a \in Apps, ResolveDependencies(a)
  PROVE  IInv'
<1>1. faults' \in 0..MaxFaults
  BY BoundsTypes DEF ResolveDependencies, Fault, IInv, CountersOK
<1>2. AppsOK'
  BY Frames DEF ResolveDependencies, WritesApps
<1>3. \/ worker' = Idle
      \/ \E todo \in SUBSET Apps : worker' = [At("dependencies", a) EXCEPT !.todo = todo]
  BY DEF ResolveDependencies, Reach
<1>4. WorkerOK'
  <2>1. CASE worker' = Idle
    BY <2>1, IdleOK
  <2>2. ASSUME NEW todo \in SUBSET Apps,
               worker' = [At("dependencies", a) EXCEPT !.todo = todo]
        PROVE  WorkerOK'
    <3>1. At("dependencies", a) \in Workers /\ At("dependencies", a).step = "dependencies"
      BY AtType DEF WorkerSteps
    <3>2. worker' \in Workers /\ worker'.step = "dependencies"
      BY <2>2, <3>1, WorkerEdits
    <3> QED BY <3>2 DEF WorkerOK
  <2> QED BY <1>3, <2>1, <2>2
<1> QED BY <1>1, <1>2, <1>4, WritesAppsOK DEF ResolveDependencies

\* The plan of a dependency is a size, or none.
LEMMA SmallestPlanType ==
  ASSUME NEW d \in Apps, NEW plans \in Downloads(Plans[d], <<>>), NEW plan \in SmallestPlan(plans)
  PROVE  plan \in Nat
<1>1. plans = Plans[d] \/ plans = <<>>
  BY DEF Downloads
<1>2. CASE plans = <<>>
  BY <1>2 DEF SmallestPlan, NoPlan
<1>3. CASE plans = Plans[d] /\ plans # <<>>
  BY <1>3, PlansAssumption DEF SmallestPlan, NoPlan, LastNamed, PlanVariables
<1> QED BY <1>1, <1>2, <1>3

\* Creating the App of a dependency keeps the invariant.
LEMMA CreateDependencyOK ==
  ASSUME IInv, NEW d \in Apps, CreateDependency(d)
  PROVE  IInv'
<1>1. AppsOK' /\ faults' \in 0..MaxFaults
  <2>1. CASE UNCHANGED <<apps, faults>>
    BY <2>1, Frames DEF CreateDependency, WritesApps, IInv, CountersOK
  <2>2. ASSUME NEW plans \in Downloads(Plans[d], <<>>), NEW plan \in SmallestPlan(plans),
               NEW ok \in BOOLEAN, CreateApp(d, plan, ok)
        PROVE  AppsOK' /\ faults' \in 0..MaxFaults
    <3>1. plan \in Nat
      BY SmallestPlanType
    <3> QED BY <2>2, <3>1, CreateAppOK DEF CreateDependency, WritesApps, IInv, CountersOK
  <2> QED BY <2>1, <2>2 DEF CreateDependency
<1>2. WorkerOK'
  <2>1. CASE worker' = Idle
    BY <2>1, IdleOK
  <2>2. CASE worker' = [worker EXCEPT !.todo = @ \ {d}]
    BY <2>2 DEF CreateDependency, IInv, WorkerOK, Workers
  <2> QED BY <2>1, <2>2 DEF CreateDependency
<1> QED BY <1>1, <1>2, WritesAppsOK DEF CreateDependency

\* The end of the dependency stage keeps the invariant.
LEMMA StartDependenciesOK ==
  ASSUME IInv, NEW a \in Apps, StartDependencies(a)
  PROVE  IInv'
<1> DEFINE new == [cache[a] EXCEPT !.lastStatus = "dependencies_installation_started"]
<1>1. new \in AppObjects /\ Sound(jobs, new, a)
  BY AppEdits, SoundEdits DEF IInv, CacheOK, Statuses
<1>2. AppsOK' /\ faults' \in 0..MaxFaults
  <2>1. CASE UNCHANGED <<apps, faults>>
    BY <2>1, Frames DEF StartDependencies, WritesApps, IInv, CountersOK
  <2>2. ASSUME NEW ok \in BOOLEAN, UpdateApp(a, cache[a], new, ok)
        PROVE  AppsOK' /\ faults' \in 0..MaxFaults
    BY <1>1, <2>2, UpdateAppOK DEF StartDependencies, WritesApps, IInv, CountersOK
  <2> QED BY <2>1, <2>2 DEF StartDependencies
<1> QED BY <1>2, IdleOK, WritesAppsOK DEF StartDependencies

\* Starting an uninstall keeps the invariant: the name was not in terminatingApps, so no
\* other uninstall of that application was running.
LEMMA UninstallOK ==
  ASSUME IInv, NEW a \in Apps, Uninstall(a)
  PROVE  IInv'
<1>1. PICK j \in JobIds, ok \in BOOLEAN :
        /\ CreateJob(j, "uninstall", a, cache[a], ok)
        /\ uninstallers' = IF ok THEN [uninstallers EXCEPT ![j] = "job"] ELSE uninstallers
  BY DEF Uninstall
<1>2. /\ JobsEvolve /\ faults' \in 0..MaxFaults
      /\ jobs[j].kind = "none"
      /\ ok => jobs'[j].kind = "uninstall" /\ jobs'[j].app = a
  <2>1. cache[a] \in AppObjects
    BY DEF IInv, CacheOK
  <2> QED BY <1>1, <2>1, CreateJobOK
<1>3. ThreadsOK'
  BY DEF Uninstall, Deregistered, IInv, ThreadsOK
<1>4. UninstallersOK'
  <2>1. uninstallers' \in [JobIds -> UninstallSteps] /\ terminatingApps' \in SUBSET Apps
    BY <1>1 DEF Uninstall, IInv, UninstallersOK, UninstallSteps
  <2>2. ASSUME NEW i \in JobIds, Uninstalling(i)
        PROVE  /\ i # j
               /\ jobs'[i].kind = "uninstall" /\ jobs'[i].app = jobs[i].app
               /\ jobs'[i].app \in terminatingApps /\ jobs'[i].app # a
    BY <1>2, <2>2 DEF Uninstall, IsTerminating, IInv, UninstallersOK, JobsEvolve
  <2>3. ASSUME NEW i \in JobIds, Uninstalling(i)'
        PROVE  Uninstalling(i) \/ (i = j /\ jobs'[i].kind = "uninstall" /\ jobs'[i].app = a)
    BY <1>1, <1>2, <2>3 DEF Uninstalling, IInv, UninstallersOK
  <2>4. \A i \in JobIds : Uninstalling(i)' =>
          jobs'[i].kind = "uninstall" /\ jobs'[i].app \in terminatingApps'
    BY <2>2, <2>3 DEF Uninstall
  <2>5. OneUninstaller'
    <3> SUFFICES ASSUME NEW i \in JobIds, NEW k \in JobIds, Uninstalling(i)', Uninstalling(k)',
                        jobs'[i].app = jobs'[k].app
                 PROVE  i = k
      BY DEF OneUninstaller
    <3>1. CASE Uninstalling(i) /\ Uninstalling(k)
      BY <2>2, <3>1 DEF IInv, UninstallersOK, OneUninstaller
    <3>2. CASE ~(Uninstalling(i) /\ Uninstalling(k))
      BY <2>2, <2>3, <3>2
    <3> QED BY <3>1, <3>2
  <2> QED BY <2>1, <2>4, <2>5 DEF UninstallersOK
<1>5. CountersOK'
  BY <1>2 DEF Uninstall, restOfApi, IInv, CountersOK
<1> QED BY <1>2, <1>3, <1>4, <1>5, EvolveFrames DEF Uninstall, restOfApi, IInv

\* Creating the install Job keeps the invariant: cached Apps are sound, so a dependency that
\* the cache shows as installed has a completed install Job.
LEMMA LaunchJobOK ==
  ASSUME IInv, NEW a \in Apps, LaunchJob(a)
  PROVE  IInv'
<1>1. CASE UNCHANGED <<jobs, faults>> /\ worker' = Idle
  <2>1. CountersOK'
    BY <1>1 DEF LaunchJob, restOfApi, restOfProcess, IInv, CountersOK
  <2> QED BY <1>1, <2>1, IdleOK, Frames, InformersOK DEF LaunchJob, restOfApi, restOfProcess, IInv
<1>2. ASSUME NEW dependencies \in Downloads(Dependencies[a], {}), AllInstalled(dependencies), NEW j \in JobIds, NEW ok \in BOOLEAN,
             CreateJob(j, "install", a, Read(a), ok),
             worker' = IF ok THEN [At("record", a) EXCEPT !.job = j] ELSE Idle
      PROVE  IInv'
  <2>1. ErrorPages \/ \A d \in Dependencies[a] : WasInstalled(d)
    BY <1>2, DependenciesAssumption
       DEF Downloads, AllInstalled, Finished, IInv, CacheOK, Sound, WasInstalled, InstallJobOf
  <2>2. Read(a) \in AppObjects
    BY ReadOK DEF LaunchJob, Installs
  <2>3. /\ JobsEvolve /\ faults' \in 0..MaxFaults
        /\ ok => jobs'[j].kind = "install" /\ jobs'[j].app = a
    BY <1>2, <2>1, <2>2, CreateJobOK
  <2>4. WorkerOK'
    <3>1. CASE worker' = Idle
      BY <3>1, IdleOK
    <3>2. CASE ok /\ worker' = [At("record", a) EXCEPT !.job = j]
      <4>1. At("record", a) \in Workers /\ At("record", a).step = "record"
            /\ At("record", a).app = a
        BY AtType DEF WorkerSteps
      <4>2. worker' \in Workers /\ worker'.step = "record" /\ worker'.app = a /\ worker'.job = j
        BY <3>2, <4>1, WorkerEdits
      <4> QED BY <2>3, <3>2, <4>2 DEF WorkerOK
    <3> QED BY <1>2, <3>1, <3>2
  <2>5. CountersOK'
    BY <2>3 DEF LaunchJob, restOfApi, restOfProcess, IInv, CountersOK
  <2> QED BY <2>3, <2>4, <2>5, EvolveFrames DEF LaunchJob, restOfApi, restOfProcess, IInv
<1> QED BY <1>1, <1>2 DEF LaunchJob

\* Recording the install Job in the status keeps the invariant.
LEMMA RecordJobOK ==
  ASSUME IInv, NEW a \in Apps, RecordJob(a)
  PROVE  IInv'
<1> DEFINE new == [cache[a] EXCEPT !.lastStatus = "installation_started",
                                   !.lastJob = worker.job,
                                   !.executed = WithEntry(cache[a], worker.job)]
<1>1. worker.job \in JobIds /\ jobs[worker.job].kind = "install" /\ jobs[worker.job].app = a
  BY DEF RecordJob, IInv, WorkerOK
<1>2. CASE worker' = Idle /\ UNCHANGED <<apps, faults>>
  <2>1. AppsOK' /\ faults' \in 0..MaxFaults
    BY <1>2, Frames DEF RecordJob, WritesApps, IInv, CountersOK
  <2> QED BY <1>2, <2>1, IdleOK, WritesAppsOK DEF RecordJob
<1>3. ASSUME NEW ok \in BOOLEAN, UpdateApp(a, cache[a], new, ok),
             worker' = IF ok THEN [At("watch", a) EXCEPT !.job = worker.job, !.copy = apps'[a]]
                             ELSE Idle
      PROVE  IInv'
  <2>1. cache[a] \in AppObjects /\ Sound(jobs, cache[a], a)
    BY DEF IInv, CacheOK
  <2>2. "installation_started" \in JobEntries /\ "installation_started" \in Statuses
    BY DEF JobEntries, Statuses
  <2>3. /\ cache[a].executed \in [JobIds -> JobEntries]
        /\ WithEntry(cache[a], worker.job) \in [JobIds -> JobEntries]
    BY <2>1, <2>2 DEF AppObjects, WithEntry
  <2>4. /\ new \in AppObjects /\ new.lastStatus = "installation_started"
        /\ new.executed = WithEntry(cache[a], worker.job)
        /\ Sound(jobs, new, a)
    <3>1. new \in AppObjects /\ new.lastStatus = "installation_started"
          /\ new.executed = WithEntry(cache[a], worker.job)
      BY <1>1, <2>1, <2>2, <2>3 DEF AppObjects
    <3> QED BY <1>1, <2>1, <2>3, <3>1 DEF Sound, WithEntry
  <2>5. AppsOK' /\ faults' \in 0..MaxFaults
    BY <1>3, <2>4, UpdateAppOK DEF RecordJob, WritesApps, IInv, CountersOK
  <2>6. WorkerOK'
    <3>1. CASE worker' = Idle
      BY <3>1, IdleOK
    <3>2. CASE worker' = [At("watch", a) EXCEPT !.job = worker.job, !.copy = apps'[a]]
      <4> DEFINE w == [At("watch", a) EXCEPT !.job = worker.job]
      <4>1. At("watch", a) \in Workers /\ At("watch", a).step = "watch" /\ At("watch", a).app = a
        BY AtType DEF WorkerSteps
      <4>2. w \in Workers /\ w.step = "watch" /\ w.app = a /\ w.job = worker.job
        BY <1>1, <4>1, WorkerEdits
      <4>3. apps'[a] \in AppObjects
        BY <2>5 DEF AppsOK
      <4>4. worker' = [w EXCEPT !.copy = apps'[a]]
        BY <3>2
      <4> HIDE DEF w
      <4>5. worker' \in Workers /\ worker'.step = "watch" /\ worker'.app = a
            /\ worker'.job = worker.job
        BY <4>2, <4>3, <4>4, WorkerEdits
      <4> QED BY <1>1, <4>5 DEF WorkerOK, RecordJob, WritesApps
    <3> QED BY <1>3, <3>1, <3>2
  <2> QED BY <2>5, <2>6, WritesAppsOK DEF RecordJob
<1> QED BY <1>2, <1>3 DEF RecordJob

\* Creating the JobWatcher keeps the invariant.
LEMMA WatchJobOK ==
  ASSUME IInv, NEW a \in Apps, WatchJob(a)
  PROVE  IInv'
<1>1. PICK ok \in BOOLEAN : CreateJobWatcher(worker.job, worker.copy, ok)
  BY DEF WatchJob
<1>2. worker.job \in JobIds /\ jobs[worker.job].kind = "install" /\ worker.copy \in AppObjects
  BY DEF WatchJob, IInv, WorkerOK, Workers
<1> DEFINE new == [NoWatcher EXCEPT !.exists = TRUE, !.uid = worker.copy.uid]
<1>3. new \in WatcherObjects
  BY <1>2 DEF NoWatcher, WatcherObjects, AppObjects
<1>4. UNCHANGED watchers \/ watchers' = [watchers EXCEPT ![worker.job] = new]
  BY <1>1 DEF CreateJobWatcher
<1>5. WatchersOK'
  BY <1>2, <1>3, <1>4 DEF WatchJob, Informers, IInv, WatchersOK
<1>6. CountersOK'
  BY <1>1, BoundsTypes
     DEF CreateJobWatcher, Fault, WatchJob, restOfApi, restOfProcess, IInv, CountersOK
<1> QED BY <1>5, <1>6, IdleOK, Frames, InformersOK
        DEF WatchJob, restOfApi, restOfProcess, IInv

\* A new update watcher is well formed.
LEMMA AsleepType ==
  ASSUME NEW a \in Apps
  PROVE  [NoThread EXCEPT !.step = "asleep", !.app = a] \in Threads
<1> DEFINE Any == [step: {"free", "asleep", "checking"}, app: Apps \cup {"none"},
                   seen: 0..MaxVersion]
<1>1. NoThread \in Any
  BY BoundsTypes DEF NoThread, NoVersion
<1>2. ASSUME NEW n \in Any
      PROVE  [n EXCEPT !.step = "asleep", !.app = a]
               \in [step: {"asleep", "checking"}, app: Apps, seen: 0..MaxVersion]
  OBVIOUS
<1> QED BY <1>1, <1>2 DEF Threads

\* The finished stage keeps the invariant.
LEMMA FinishOK ==
  ASSUME IInv, NEW a \in Apps, Finish(a)
  PROVE  IInv'
<1> DEFINE new == [Read(a) EXCEPT !.version = published[a]]
<1>1. UNCHANGED jobs
  BY DEF Finish, restOfFinish
<1>2. AppsOK' /\ faults' \in 0..MaxFaults
  <2>1. CASE UNCHANGED <<apps, faults>>
    BY <1>1, <2>1, Frames DEF IInv, CountersOK
  <2>2. ASSUME Read(a).version = NoVersion, NEW ok \in BOOLEAN, UpdateApp(a, Read(a), new, ok)
        PROVE  AppsOK' /\ faults' \in 0..MaxFaults
    <3>1. Read(a) \in AppObjects /\ Sound(jobs, Read(a), a)
      BY ReadOK DEF Finish, Installs
    <3>2. published[a] \in 0..MaxVersion
      BY BoundsTypes DEF IInv, CountersOK
    <3>3. new \in AppObjects /\ Sound(jobs, new, a)
      BY <2>2, <3>1, <3>2, AppEdits, SoundEdits
    <3> QED BY <1>1, <2>2, <3>3, UpdateAppOK DEF IInv, CountersOK
  <2> QED BY <2>1, <2>2 DEF Finish
<1>3. ThreadsOK'
  <2>1. CASE UNCHANGED <<updateWatcher, updateThreads>>
    BY <1>1, <2>1, Frames
  <2>2. CASE updateWatcher' = updateWatcher \cup {a} /\ StartThread(a)
    <3>1. [NoThread EXCEPT !.step = "asleep", !.app = a] \in Threads
      BY AsleepType
    <3> QED BY <2>2, <3>1 DEF StartThread, IInv, ThreadsOK
  <2> QED BY <2>1, <2>2 DEF Finish, RegisterUpdateWatcher
<1>4. CountersOK'
  BY <1>2 DEF Finish, restOfFinish, restOfApi, IInv, CountersOK
<1> QED BY <1>2, <1>3, <1>4, IdleOK, Frames, InformersOK DEF Finish, restOfFinish, restOfApi, IInv

\* A restart keeps the invariant: the memory is empty and the cache is the store.
LEMMA RestartedOK ==
  ASSUME IInv, Restarted, crashes' \in 0..MaxCrashes
  PROVE  IInv'
<1>1. AppsOK' /\ JobsOK'
  BY Frames DEF Restarted
<1>2. CacheOK'
  BY <1>1 DEF Restarted, AppsOK, CacheOK
<1>3. WatchersOK'
  BY DEF Restarted, IInv, WatchersOK
<1>4. NamespacesOK'
  BY DEF Restarted, IInv, NamespacesOK
<1>5. CountersOK'
  BY DEF Restarted, IInv, CountersOK
<1>6. WorkerOK' /\ JobWorkerOK'
  BY IdleOK DEF Restarted, JobWorkerOK, JobWorkers, JobIdle
<1>7. ThreadsOK'
  BY DEF Restarted, ThreadsOK, Threads
<1>8. UninstallersOK'
  BY DEF Restarted, UninstallersOK, UninstallSteps, OneUninstaller, Uninstalling
<1> QED BY <1>1, <1>2, <1>3, <1>4, <1>5, <1>6, <1>7, <1>8 DEF IInv

\* A crash keeps the invariant.
LEMMA CrashOK ==
  ASSUME IInv, Crash
  PROVE  IInv'
<1>1. crashes' \in 0..MaxCrashes
  BY BoundsTypes DEF Crash, IInv, CountersOK
<1> QED BY <1>1, RestartedOK DEF Crash

\* The panics of the two controllers keep the invariant.
LEMMA PanicsOK ==
  ASSUME IInv,
         \/ \E j \in JobIds : PanicOnNilMap(j)
         \/ \E a \in Apps : PanicInPreInstall(a) \/ PanicInDependencies(a)
  PROVE  IInv'
<1>1. Restarted /\ UNCHANGED crashes
  BY DEF PanicOnNilMap, PanicInPreInstall, PanicInDependencies
<1> QED BY <1>1, RestartedOK DEF IInv, CountersOK

\* Every step of the App controller keeps the invariant.
LEMMA ReconcileAppOK ==
  ASSUME IInv, ReconcileApp
  PROVE  IInv'
BY AddFinalizerOK, UninstallOK, ClearStatusOK, RestoreActionOK, PreInstallOK, PanicsOK,
   ResolveDependenciesOK, CreateDependencyOK, StartDependenciesOK, LaunchJobOK,
   RecordJobOK, WatchJobOK, FinishOK
   DEF ReconcileApp, ReconcileAppOf

-----------------------------------------------------------------------------
(***************************************************************************)
(* The JobWatcher controller.                                              *)
(***************************************************************************)
\* A JobWatcher that the cache has belongs to an install Job.
LEMMA DueJob ==
  ASSUME IInv, NEW j \in JobIds, watcherCache[j].exists
  PROVE  jobs[j].kind = "install" /\ jobs[j].app \in Apps
         /\ jobs[j].state \in {"running", "complete", "failed"}
<1>1. jobs[j].kind = "install" /\ jobs[j] \in JobObjects
  BY DEF IInv, WatchersOK, JobsOK
<1> QED BY <1>1 DEF JobObjects, NoJobObject

\* Writing the verdict changes the status and the entry of the Job, and nothing else that
\* soundness depends on.
LEMMA WithVerdictOK ==
  ASSUME NEW app \in AppObjects, NEW j \in JobIds, VerdictOf(j) \in Verdicts
  PROVE  /\ WithVerdict(app, j) \in AppObjects
         /\ WithVerdict(app, j).lastStatus = VerdictOf(j)
         /\ app.executed \in [JobIds -> JobEntries]
         /\ WithVerdict(app, j).executed = [app.executed EXCEPT ![j] = VerdictOf(j)]
         /\ WithVerdict(app, j).version = app.version
         /\ WithVerdict(app, j).newVersion = app.newVersion
<1>1. VerdictOf(j) \in Statuses /\ VerdictOf(j) \in JobEntries
  BY DEF Verdicts, Statuses, JobEntries
<1>2. /\ app.revision + 1 \in Nat
      /\ [app.executed EXCEPT ![j] = VerdictOf(j)] \in [JobIds -> JobEntries]
  BY <1>1 DEF AppObjects
<1> QED BY <1>1, <1>2 DEF WithVerdict, AppObjects

\* A check of a running Job keeps the invariant.
LEMMA CheckRunningJobOK ==
  ASSUME IInv, NEW j \in JobIds, CheckRunningJob(j)
  PROVE  IInv'
<1>1. checks[j] + 1 \in 0..MaxChecks
  BY BoundsTypes DEF CheckRunningJob, IInv, CountersOK
<1>2. CountersOK'
  BY <1>1 DEF CheckRunningJob, restOfSystem, IInv, CountersOK
<1> QED BY <1>2, Frames, InformersOK DEF CheckRunningJob, restOfSystem, IInv

\* Reporting a verdict keeps the invariant: the Job has ended that way and stays so.
LEMMA ReportVerdictOK ==
  ASSUME IInv, NEW j \in JobIds, ReportVerdict(j)
  PROVE  IInv'
<1> DEFINE a == jobs[j].app
           new == WithVerdict(cache[a], j)
<1>1. /\ jobs[j].kind = "install" /\ a \in Apps
      /\ jobs[j].state \in {"complete", "failed"}
  BY DueJob DEF ReportVerdict, Due
<1>2. cache[a] \in AppObjects /\ Sound(jobs, cache[a], a)
  BY <1>1 DEF IInv, CacheOK
<1>3. /\ VerdictOf(j) \in Verdicts
      /\ VerdictOf(j) = "installation_finished" => jobs[j].state = "complete"
      /\ VerdictOf(j) = "installation_failed" => jobs[j].state = "failed"
  BY <1>1 DEF VerdictOf, Verdicts
<1>4. /\ new \in AppObjects /\ new.lastStatus = VerdictOf(j)
      /\ cache[a].executed \in [JobIds -> JobEntries]
      /\ new.executed = [cache[a].executed EXCEPT ![j] = VerdictOf(j)]
      /\ new.version = cache[a].version /\ new.newVersion = cache[a].newVersion
  BY <1>2, <1>3, WithVerdictOK
<1>5. Sound(jobs, new, a)
  <2> HIDE DEF new
  <2> QED BY <1>1, <1>2, <1>3, <1>4 DEF Sound, Verdicts
<1>6. PICK ok \in BOOLEAN : /\ UpdateApp(a, cache[a], new, ok)
                            /\ jobWorker' = IF ok THEN [step |-> "verdict", job |-> j] ELSE JobIdle
  BY DEF ReportVerdict
<1>7. AppsOK' /\ faults' \in 0..MaxFaults
  BY <1>1, <1>4, <1>5, <1>6, UpdateAppOK DEF ReportVerdict, IInv, CountersOK
<1>8. JobWorkerOK'
  BY <1>6 DEF JobWorkerOK, JobWorkers, JobIdle
<1>9. CountersOK'
  BY <1>7 DEF ReportVerdict, restOfSystem, IInv, CountersOK
<1> QED BY <1>7, <1>8, <1>9, Frames, InformersOK DEF ReportVerdict, restOfSystem, IInv

\* Marking the JobWatcher keeps the invariant.
LEMMA MarkReconciledOK ==
  ASSUME IInv, NEW j \in JobIds, MarkReconciled(j)
  PROVE  IInv'
<1> DEFINE new == [watcherCache[j] EXCEPT !.reconciled = TRUE, !.attempt = @ + 1]
<1>1. watchers' = watchers \/ (watcherCache[j].exists /\ watchers' = [watchers EXCEPT ![j] = new])
  BY DEF MarkReconciled, UpdateWatcher
<1>2. new \in WatcherObjects
  <2>1. watcherCache[j] \in WatcherObjects /\ watcherCache[j].attempt + 1 \in Nat
    BY DEF IInv, WatchersOK, WatcherObjects
  <2> QED BY <2>1 DEF WatcherObjects
<1>3. WatchersOK'
  BY <1>1, <1>2, DueJob DEF MarkReconciled, Informers, IInv, WatchersOK
<1>4. CountersOK'
  BY BoundsTypes DEF MarkReconciled, UpdateWatcher, Fault, restOfSystem, IInv, CountersOK
<1>5. JobWorkerOK'
  BY DEF MarkReconciled, JobWorkerOK, JobWorkers, JobIdle
<1> QED BY <1>3, <1>4, <1>5, Frames, InformersOK DEF MarkReconciled, restOfSystem, IInv

\* Every step of the JobWatcher controller keeps the invariant.
LEMMA ReconcileJobWatcherOK ==
  ASSUME IInv, ReconcileJobWatcher
  PROVE  IInv'
BY CheckRunningJobOK, ReportVerdictOK, PanicsOK, MarkReconciledOK DEF ReconcileJobWatcher

-----------------------------------------------------------------------------
(***************************************************************************)
(* The update watchers.                                                    *)
(***************************************************************************)
\* An update watcher that wakes up keeps the invariant.
LEMMA WakeUpOK ==
  ASSUME IInv, NEW t \in ThreadIds, WakeUp(t)
  PROVE  IInv'
<1> DEFINE a == updateThreads[t].app
<1>1. updateThreads[t] \in [step: {"asleep", "checking"}, app: Apps, seen: 0..MaxVersion]
  BY DEF WakeUp, IInv, ThreadsOK, Threads, NoThread
<1>2. published[a] \in 0..MaxVersion
  BY <1>1, BoundsTypes DEF IInv, CountersOK
<1>3. [updateThreads[t] EXCEPT !.step = "checking", !.seen = published[a]] \in Threads
  BY <1>1, <1>2 DEF Threads
<1>4. NoThread \in Threads
  BY DEF Threads
<1>5. ThreadsOK'
  BY <1>3, <1>4 DEF WakeUp, restOfThreads, IInv, ThreadsOK
<1> QED BY <1>5, Frames, InformersOK DEF WakeUp, restOfThreads, IInv

\* The status update of an update watcher keeps the invariant.
LEMMA CheckUpdateOK ==
  ASSUME IInv, NEW t \in ThreadIds, CheckUpdate(t)
  PROVE  IInv'
<1> DEFINE a == updateThreads[t].app
           seen == updateThreads[t].seen
           new == [cache[a] EXCEPT !.newVersion = News(cache[a], seen)]
<1>1. updateThreads[t] \in [step: {"asleep", "checking"}, app: Apps, seen: 0..MaxVersion]
  BY DEF CheckUpdate, IInv, ThreadsOK, Threads, NoThread
<1>2. a \in Apps /\ seen \in 0..MaxVersion
  BY <1>1
<1>3. News(cache[a], seen) \in 0..MaxVersion
  BY <1>2, BoundsTypes DEF News, NoVersion
<1>4. new \in AppObjects /\ Sound(jobs, new, a)
  <2>1. cache[a] \in AppObjects /\ Sound(jobs, cache[a], a)
    BY <1>2 DEF IInv, CacheOK
  <2>2. News(cache[a], seen) = NoVersion \/ cache[a].version \notin {NoVersion, News(cache[a], seen)}
    BY DEF News
  <2> QED BY <1>3, <2>1, <2>2, AppEdits, SoundEdits
<1>5. UNCHANGED jobs
  BY DEF CheckUpdate, restOfThreads
<1>6. AppsOK' /\ faults' \in 0..MaxFaults
  <2>1. CASE UNCHANGED <<apps, faults>>
    BY <1>5, <2>1, Frames DEF IInv, CountersOK
  <2>2. ASSUME NEW ok \in BOOLEAN, UpdateApp(a, cache[a], new, ok)
        PROVE  AppsOK' /\ faults' \in 0..MaxFaults
    BY <1>2, <1>4, <1>5, <2>2, UpdateAppOK DEF IInv, CountersOK
  <2> QED BY <2>1, <2>2 DEF CheckUpdate
<1>7. ThreadsOK'
  <2>1. NoThread \in Threads
    BY DEF Threads
  <2>2. [NoThread EXCEPT !.step = "asleep", !.app = a] \in Threads
    BY <1>2, AsleepType
  <2> QED BY <2>1, <2>2 DEF CheckUpdate, restOfThreads, IInv, ThreadsOK
<1>8. CountersOK'
  BY <1>6 DEF CheckUpdate, restOfThreads, IInv, CountersOK
<1> QED BY <1>5, <1>6, <1>7, <1>8, Frames, InformersOK DEF CheckUpdate, restOfThreads, IInv

\* Every step of the update watchers keeps the invariant.
LEMMA WatchForNewUpdateOK ==
  ASSUME IInv, WatchForNewUpdate
  PROVE  IInv'
BY WakeUpOK, CheckUpdateOK DEF WatchForNewUpdate

-----------------------------------------------------------------------------
(***************************************************************************)
(* The uninstallers.                                                       *)
(***************************************************************************)
\* Going on to another step of the same uninstall, or ending it.
LEMMA GoesToOK ==
  ASSUME IInv, NEW j \in JobIds, uninstallers[j] # "none", NEW step \in UninstallSteps,
         GoesTo(j, step), UNCHANGED <<jobs, terminatingApps>>
  PROVE  UninstallersOK'
<1>1. uninstallers' \in [JobIds -> UninstallSteps]
  BY DEF GoesTo, IInv, UninstallersOK
<1>2. \A i \in JobIds : Uninstalling(i)' => Uninstalling(i)
  BY DEF GoesTo, Uninstalling, IInv, UninstallersOK
<1> QED BY <1>1, <1>2 DEF IInv, UninstallersOK, OneUninstaller

\* A step that writes neither Apps nor namespaces.
LEMMA UninstallFrames ==
  ASSUME IInv, UninstallersOK', UNCHANGED <<apps, namespaces, faults>>,
         UNCHANGED restOfUninstall, Informers
  PROVE  IInv'
<1>1. CountersOK'
  BY DEF restOfUninstall, IInv, CountersOK
<1> QED BY <1>1, Frames, InformersOK DEF restOfUninstall, IInv

\* A running uninstall has an application.
LEMMA UninstallingJob ==
  ASSUME IInv, NEW j \in JobIds, uninstallers[j] # "none"
  PROVE  jobs[j].app \in Apps
<1>1. jobs[j] \in JobObjects /\ jobs[j].kind = "uninstall"
  BY DEF IInv, JobsOK, UninstallersOK, Uninstalling
<1> QED BY <1>1 DEF JobObjects, NoJobObject

\* An uninstall that stops waiting for its Job keeps the invariant.
LEMMA StopWaitingOK ==
  ASSUME IInv, NEW j \in JobIds, StopWaiting(j)
  PROVE  IInv'
<1>1. UninstallersOK'
  BY GoesToOK DEF StopWaiting, UninstallSteps, restOfUninstall
<1> QED BY <1>1, UninstallFrames DEF StopWaiting

\* An uninstall that finds the namespace gone keeps the invariant.
LEMMA AwaitNamespaceOK ==
  ASSUME IInv, NEW j \in JobIds, AwaitNamespace(j)
  PROVE  IInv'
<1>1. UninstallersOK'
  BY GoesToOK DEF AwaitNamespace, UninstallSteps, restOfUninstall
<1> QED BY <1>1, UninstallFrames DEF AwaitNamespace

\* Deleting the namespace keeps the invariant.
LEMMA DeleteNamespaceOK ==
  ASSUME IInv, NEW j \in JobIds, DeleteNamespace(j)
  PROVE  IInv'
<1> DEFINE a == jobs[j].app
<1>1. PICK step \in {"none", "await", "finalizer"} : GoesTo(j, step)
  BY DEF DeleteNamespace
<1>2. UninstallersOK'
  <2>1. step \in UninstallSteps
    BY DEF UninstallSteps
  <2> QED BY <1>1, <2>1, GoesToOK DEF DeleteNamespace, restOfUninstall
<1>3. namespaces' = namespaces \/ namespaces' = [namespaces EXCEPT ![a] = "terminating"]
  BY DEF DeleteNamespace, RemoveNamespace
<1>4. NamespacesOK'
  BY <1>3 DEF DeleteNamespace, Informers, IInv, NamespacesOK, NamespaceStates
<1>5. faults' \in 0..MaxFaults
  BY BoundsTypes DEF DeleteNamespace, RemoveNamespace, Fault, IInv, CountersOK
<1>6. CountersOK'
  BY <1>5 DEF DeleteNamespace, restOfUninstall, IInv, CountersOK
<1> QED BY <1>2, <1>4, <1>6, Frames, InformersOK DEF DeleteNamespace, restOfUninstall, IInv

\* Removing the finalizer, even that of another App of the same name, keeps the invariant.
LEMMA RemoveFinalizerOK ==
  ASSUME IInv, NEW j \in JobIds, RemoveFinalizer(j)
  PROVE  IInv'
<1> DEFINE a == jobs[j].app
           new == [cache[a] EXCEPT !.finalizer = FALSE]
<1>1. a \in Apps
  BY UninstallingJob DEF RemoveFinalizer
<1>2. new \in AppObjects /\ Sound(jobs, new, a)
  BY <1>1, AppEdits, SoundEdits DEF IInv, CacheOK
<1>3. AppsOK' /\ faults' \in 0..MaxFaults
  <2>1. CASE UNCHANGED <<apps, faults>>
    BY <2>1, Frames DEF RemoveFinalizer, restOfUninstall, IInv, CountersOK
  <2>2. ASSUME NEW ok \in BOOLEAN, UpdateApp(a, cache[a], new, ok)
        PROVE  AppsOK' /\ faults' \in 0..MaxFaults
    BY <1>1, <1>2, <2>2, UpdateAppOK DEF RemoveFinalizer, restOfUninstall, IInv, CountersOK
  <2> QED BY <2>1, <2>2 DEF RemoveFinalizer
<1>4. PICK step \in {"none", "release"} : GoesTo(j, step)
  BY DEF RemoveFinalizer
<1>5. UninstallersOK'
  <2>1. step \in UninstallSteps
    BY DEF UninstallSteps
  <2> QED BY <1>4, <2>1, GoesToOK DEF RemoveFinalizer, restOfUninstall
<1>6. CountersOK'
  BY <1>3 DEF RemoveFinalizer, restOfUninstall, IInv, CountersOK
<1> QED BY <1>3, <1>5, <1>6, Frames, InformersOK DEF RemoveFinalizer, restOfUninstall, IInv

\* The released name has no other uninstall: this was the one.
LEMMA ReleaseOK ==
  ASSUME IInv, NEW j \in JobIds, Release(j)
  PROVE  IInv'
<1>1. UninstallersOK'
  <2>1. uninstallers' \in [JobIds -> UninstallSteps] /\ terminatingApps' \in SUBSET Apps
    BY DEF Release, GoesTo, UninstallSteps, IInv, UninstallersOK
  <2>2. ASSUME NEW i \in JobIds, Uninstalling(i)'
        PROVE  i # j /\ Uninstalling(i) /\ jobs[i].app # jobs[j].app
    BY <2>2 DEF Release, GoesTo, Uninstalling, IInv, UninstallersOK, OneUninstaller
  <2>3. \A i \in JobIds : Uninstalling(i)' =>
          jobs'[i].kind = "uninstall" /\ jobs'[i].app \in terminatingApps'
    BY <2>2 DEF Release, restOfUninstall, IInv, UninstallersOK
  <2>4. OneUninstaller'
    BY <2>2 DEF Release, restOfUninstall, IInv, UninstallersOK, OneUninstaller
  <2> QED BY <2>1, <2>3, <2>4 DEF UninstallersOK
<1> QED BY <1>1, UninstallFrames DEF Release

\* Every step of the uninstallers keeps the invariant.
LEMMA ProcessAppNamespaceDeletionOK ==
  ASSUME IInv, ProcessAppNamespaceDeletion
  PROVE  IInv'
BY StopWaitingOK, DeleteNamespaceOK, AwaitNamespaceOK, RemoveFinalizerOK, ReleaseOK
   DEF ProcessAppNamespaceDeletion, UninstallerOf

-----------------------------------------------------------------------------
(***************************************************************************)
(* The invariant is inductive.                                             *)
(***************************************************************************)
\* The initial state satisfies the invariant.
LEMMA InitOK ==
  ASSUME Init
  PROVE  IInv
<1>1. NoApp \in AppObjects /\ \A a \in Apps : Sound(jobs, NoApp, a)
  BY NoAppType, NoAppSound
<1>2. AppsOK /\ CacheOK
  BY <1>1 DEF Init, ApiInit, AppsOK, CacheOK
<1>3. JobsOK
  BY DEF Init, ApiInit, JobsOK, JobObjects, DependenciesFirst, InstallJobOf, NoJobObject
<1>4. WatchersOK
  <2>1. NoWatcher \in WatcherObjects /\ ~NoWatcher.exists
    BY DEF NoWatcher, WatcherObjects
  <2> QED BY <2>1 DEF Init, ApiInit, WatchersOK
<1>5. NamespacesOK
  BY DEF Init, ApiInit, NamespacesOK, NamespaceStates
<1>6. CountersOK
  BY BoundsTypes, BoundsAssumption, VersionAssumption DEF Init, ApiInit, ProcessInit, CountersOK
<1>7. WorkerOK /\ JobWorkerOK
  BY NoAppType DEF Init, ProcessInit, WorkerOK, Workers, Idle, WorkerSteps,
                   JobWorkerOK, JobWorkers, JobIdle
<1>8. ThreadsOK
  BY DEF Init, ProcessInit, ThreadsOK, Threads
<1>9. UninstallersOK
  BY DEF Init, ProcessInit, UninstallersOK, UninstallSteps, OneUninstaller, Uninstalling
<1> QED BY <1>2, <1>3, <1>4, <1>5, <1>6, <1>7, <1>8, <1>9 DEF IInv

\* Every step of the world around the operator keeps the invariant.
LEMMA ClusterOK ==
  ASSUME IInv, External \/ Sync
  PROVE  IInv'
BY UserCreatesOK, UserUpdatesOK, UserDeletesOK, PublishOK, NamespaceFinalizedOK,
   JobCreatesNamespaceOK, JobEndsOK, CollectJobOK, CollectWatcherOK,
   SyncAppOK, SyncWatcherOK, SyncNamespaceOK
   DEF External, Sync

\* A step that changes nothing keeps the invariant.
LEMMA StutterOK ==
  ASSUME IInv, UNCHANGED vars
  PROVE  IInv'
<1>1. CacheOK' /\ WatchersOK' /\ NamespacesOK'
  BY DEF vars, apiVars, IInv, CacheOK, WatchersOK, NamespacesOK
<1> QED BY <1>1, Frames DEF vars, apiVars, processVars, IInv

\* Every step keeps the invariant.
LEMMA Inductive ==
  ASSUME IInv, [Next]_vars
  PROVE  IInv'
BY ClusterOK, ReconcileAppOK, ReconcileJobWatcherOK, WatchForNewUpdateOK,
   ProcessAppNamespaceDeletionOK, CrashOK, StutterOK
   DEF Next

\* Every reachable state satisfies the inductive invariant, for every catalogue of
\* applications, every set of lagging caches and all bounds.
THEOREM InvariantHolds == Spec => []IInv
<1>1. Init => IInv
  BY InitOK
<1>2. IInv /\ [Next]_vars => IInv'
  BY Inductive
<1> QED BY <1>1, <1>2, PTL DEF Spec

-----------------------------------------------------------------------------
\* The objects the operator writes and the memory of its process are well formed:
\* no write from an old copy, no failing call and no crash leaves an App without a
\* stage, a verdict or a version that the rest of the code knows.
THEOREM TypeCorrect == Spec => []TypeOK
<1>1. IInv => TypeOK
  BY DEF IInv, AppsOK, CacheOK, JobsOK, WatchersOK, NamespacesOK, CountersOK, WorkerOK,
         JobWorkerOK, ThreadsOK, UninstallersOK, TypeOK, ApiTypeOK, ProcessTypeOK
<1> QED BY <1>1, InvariantHolds, PTL

\* The dependency gate of the install stage (the loop over the App's dependencies before
\* newJobPod) holds however old the cached dependencies are: an install Job exists only
\* for applications each of whose direct dependencies has completed an install Job, as long
\* as the server sends no error page for a manifest.
THEOREM DependenciesComeFirst ==
  ASSUME ~ErrorPages
  PROVE  Spec => []DependenciesFirst
<1>1. IInv => DependenciesFirst
  BY DEF IInv, JobsOK
<1> QED BY <1>1, InvariantHolds, PTL

\* The map JobsExecuted that two controllers write never lies: its entries are install
\* Jobs of that application, and a verdict in it is how that Job ended.
THEOREM RecordIsTruthful == Spec => []TruthfulRecord
<1>1. IInv => TruthfulRecord
  <2> SUFFICES ASSUME IInv, NEW a \in Apps, NEW j \in JobIds, apps[a].executed[j] # "none"
               PROVE  /\ InstallJobOf(j, a)
                      /\ apps[a].executed[j] \in Verdicts => apps[a].executed[j] = Outcome(j)
    BY DEF TruthfulRecord
  <2>1. Sound(jobs, apps[a], a)
    BY DEF IInv, AppsOK
  <2>2. InstallJobOf(j, a)
    BY <2>1 DEF Sound, InstallJobOf
  <2>3. /\ jobs[j].state = "complete" => Outcome(j) = "installation_finished"
        /\ jobs[j].state = "failed" => Outcome(j) = "installation_failed"
    BY DEF Outcome
  <2>4. apps[a].executed[j] \in Verdicts => apps[a].executed[j] = Outcome(j)
    BY <2>1, <2>3 DEF Sound, Verdicts
  <2> QED BY <2>2, <2>4
<1> QED BY <1>1, InvariantHolds, PTL

\* The update watchers announce what they have seen some time ago, beside a version that
\* may have been cleared or replaced since: no stored App, and no copy of one, announces
\* a version without an installed one or the installed one itself.
THEOREM NewsIsNews == Spec => []AnnouncedDiffers
<1>1. IInv => AnnouncedDiffers
  BY DEF IInv, AppsOK, Sound, AnnouncedDiffers
<1> QED BY <1>1, InvariantHolds, PTL

\* The map terminatingApps does its work, with any lag of the cache and any failures: no
\* two goroutines uninstall the same application at once.
THEOREM OneUninstallerAtATime == Spec => []OneUninstaller
<1>1. IInv => OneUninstaller
  BY DEF IInv, UninstallersOK
<1> QED BY <1>1, InvariantHolds, PTL
=============================================================================
