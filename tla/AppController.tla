--------------------------- MODULE AppController ---------------------------
(***************************************************************************)
(* AppReconciler.Reconcile.  A call reads its App from the cache and takes *)
(* one branch; each action below is the part of a call up to and with its  *)
(* next write to the API server, so that everything else may happen        *)
(* between two writes.  The reads that come before a write are part of the *)
(* write's action: a copy that went stale in between is a cache that lags, *)
(* and for a kind that does not lag the model has no such copy.            *)
(* A call may start at any time for any App: events of the App and of its  *)
(* Jobs, retries after an error, RequeueAfter and resyncs all start one.   *)
(***************************************************************************)
EXTENDS OperatorProcess

restOfApi == <<namespaces, published, requests>>
restOfProcess == <<jobWorker, terminatingApps, updateWatcher, updateThreads, uninstallers,
                   crashes, checks>>

\* A step that writes nothing but Apps, and keeps the process as it is.
WritesApps == UNCHANGED <<jobs, watchers, restOfApi, restOfProcess>> /\ Informers

\* The App the call works on: read from the cache, or returned by the Update
\* that added the finalizer.
Read(a) == IF worker.step = "begun" THEN worker.copy ELSE cache[a]

\* A call for App a is past the finalizer and deletion branches.
Begins(a) ==
  \/ worker.step = "begun" /\ worker.app = a
  \/ /\ worker.step = "idle"
     /\ cache[a].exists /\ ~cache[a].deleting /\ cache[a].finalizer

\* Mistake: the pre-install stage is for Apps that have run no Job yet.
InstallsOnce(a, status) ==
  /\ Begins(a) /\ Read(a).action = "install" /\ Read(a).lastStatus = status
  /\ status = "" => Read(a).lastJob = NoJob
Installs(a, status) ==
  Begins(a) /\ Read(a).action = "install" /\ Read(a).lastStatus = status

\* Reconcile has a branch for this App.
HasBranch(app) ==
  app.action = "update" \/ app.lastStatus \notin {"installation_started", "installation_failed"}

AddFinalizer(a) ==
  /\ worker.step = "idle"
  /\ cache[a].exists /\ ~cache[a].deleting /\ ~cache[a].finalizer
  /\ \E ok \in BOOLEAN :
       /\ UpdateApp(a, cache[a], [cache[a] EXCEPT !.finalizer = TRUE], ok)
       /\ worker' = IF ok /\ HasBranch(cache[a])
                    THEN [At("begun", a) EXCEPT !.copy = apps'[a]]
                    ELSE Idle
  /\ WritesApps

(***************************************************************************)
(* The App is being deleted: unless its name is in terminatingApps already *)
(* it is put there, its update watcher is deregistered, and an uninstall   *)
(* Job is started with a goroutine that waits for it.  A cached App that   *)
(* is being deleted still has the finalizer.                               *)
(***************************************************************************)
\* Mistake: the name stays in updateWatcher.
KeptRegistered(a) == updateWatcher
Deregistered(a) == updateWatcher \ {a}

\* Mistake: terminatingApps is not looked at.
NeverTerminating(a) == FALSE
IsTerminating(a) == a \in terminatingApps

Uninstall(a) ==
  /\ worker.step = "idle"
  /\ cache[a].exists /\ cache[a].deleting
  /\ ~IsTerminating(a)
  /\ terminatingApps' = terminatingApps \cup {a}
  /\ updateWatcher' = Deregistered(a)
  /\ \E j \in JobIds, ok \in BOOLEAN :
       /\ CreateJob(j, "uninstall", a, cache[a], ok)
       /\ uninstallers' = IF ok THEN [uninstallers EXCEPT ![j] = "job"] ELSE uninstallers
  /\ UNCHANGED <<apps, watchers, restOfApi, worker, jobWorker, updateThreads, crashes, checks>>
  /\ Informers

(***************************************************************************)
(* The update branch clears the status, ignoring an error, and then sets   *)
(* the action back to install.  Update leaves the stored status alone.     *)
(***************************************************************************)
ClearStatus(a) ==
  /\ Begins(a) /\ Read(a).action = "update"
  /\ \E ok \in BOOLEAN :
       /\ UpdateApp(a, Read(a), [Read(a) EXCEPT !.version = NoVersion, !.lastStatus = "",
                                                !.newVersion = NoVersion], ok)
       /\ worker' = [At("update", a) EXCEPT !.copy = IF ok THEN apps'[a] ELSE Read(a)]
  /\ WritesApps

\* Mistake: the App is refreshed first, as the other stages do.
RefreshedCopy(a) == cache[a]
ClearedCopy(a) == worker.copy

RestoreAction(a) ==
  /\ worker.step = "update" /\ worker.app = a
  /\ \E ok \in BOOLEAN :
       UpdateApp(a, ClearedCopy(a), [apps[a] EXCEPT !.action = "install"], ok)
  /\ worker' = Idle
  /\ WritesApps

(***************************************************************************)
(* The pre-install stage: entries for the templates and the plan whose     *)
(* keys the App does not have yet.  Templates come in random order, so     *)
(* that an error may hide a panic and the other way round.                 *)
(***************************************************************************)
PreInstall(a) ==
  LET app == Read(a)
  IN  /\ Installs(a, "")
      /\ \E conf \in Downloads(Configuration[a][published[a]], <<>>) :
           \/ Unusable(app, conf) /\ UNCHANGED <<apps, faults>>
           \/ /\ ~Unusable(app, conf) /\ ~Unsized(app, conf)
              /\ \E settings \in Settings, plans \in Downloads(Plans[a], <<>>), ok \in BOOLEAN :
                 \E planned \in PlanEntries(app, plans) :
                   UpdateApp(a, app,
                             [app EXCEPT !.lastStatus = "pre_installation_started",
                                         !.configurations = @ \cup NewEntries(app, conf, settings)
                                                              \cup planned], ok)
      /\ worker' = Idle
      /\ WritesApps

\* A template without a length, or an App with a plan and a manifest without one.
PanicInPreInstall(a) ==
  /\ Installs(a, "")
  /\ \E conf \in Downloads(Configuration[a][published[a]], <<>>) :
       \/ Unsized(Read(a), conf)
       \/ /\ ~Unusable(Read(a), conf)
          /\ \E plans \in Downloads(Plans[a], <<>>) : PlanEntries(Read(a), plans) = {}
  /\ Restarted
  /\ UNCHANGED crashes

(***************************************************************************)
(* The dependency stage: which Apps to create, their creation one by one,  *)
(* and the new status.                                                     *)
(***************************************************************************)
\* The applications that a depends on, directly or not.
Reach(a) ==
  {d \in Apps : \A closed \in SUBSET Apps :
     (Dependencies[a] \subseteq closed /\ \A x \in closed : Dependencies[x] \subseteq closed)
       => d \in closed}

Finished(app) == app.exists /\ app.lastStatus = "installation_finished"

\* All those that are not installed; a manifest that cannot be downloaded below the
\* direct dependencies is passed over in silence, and so is an error page anywhere.
ResolveDependencies(a) ==
  LET missing(names) == {d \in names : ~Finished(cache[d])}
      start(todo) == worker' = [At("dependencies", a) EXCEPT !.todo = todo]
  IN  /\ Installs(a, "pre_installation_started")
      /\ \/ start(missing(Reach(a))) /\ UNCHANGED faults
         \/ Fault /\ worker' = Idle
         \/ /\ Fault \/ (ErrorPages /\ UNCHANGED faults)
            /\ \E todo \in SUBSET missing(Reach(a)) :
                 missing(Dependencies[a]) \subseteq todo /\ start(todo)
         \/ ErrorPages /\ start({}) /\ UNCHANGED faults
      /\ UNCHANGED apps
      /\ WritesApps

\* An App that the cache already has is not created again.
CreateDependency(d) ==
  LET done == worker' = [worker EXCEPT !.todo = @ \ {d}]
  IN  /\ worker.step = "dependencies" /\ d \in worker.todo
      /\ IF cache[d].exists
         THEN done /\ UNCHANGED <<apps, faults>>
         ELSE \E plans \in Downloads(Plans[d], <<>>), ok \in BOOLEAN :
              \E plan \in SmallestPlan(plans) :
                CreateApp(d, plan, ok) /\ IF ok THEN done ELSE worker' = Idle
      /\ WritesApps

\* The dependency has plans, none of which has a key, or an error page hides them
\* when they are downloaded once more for their key.
PanicInDependencies(d) ==
  /\ worker.step = "dependencies" /\ d \in worker.todo
  /\ ~cache[d].exists
  /\ SmallestPlan(Plans[d]) = {} \/ (ErrorPages /\ Plans[d] # <<>>)
  /\ Restarted
  /\ UNCHANGED crashes

StartDependencies(a) ==
  /\ worker.step = "dependencies" /\ worker.app = a /\ worker.todo = {}
  /\ IF cache[a].exists
     THEN \E ok \in BOOLEAN :
            UpdateApp(a, cache[a],
                      [cache[a] EXCEPT !.lastStatus = "dependencies_installation_started"], ok)
     ELSE UNCHANGED <<apps, faults>>
  /\ worker' = Idle
  /\ WritesApps

(***************************************************************************)
(* The install stage: a Job once every direct dependency is installed, its *)
(* entry in the App's status, and the JobWatcher that will report on it.   *)
(***************************************************************************)
\* Mistake: it is enough that the dependencies exist.
AllCreated(dependencies) == \A d \in dependencies : cache[d].exists
AllInstalled(dependencies) == \A d \in dependencies : Finished(cache[d])

LaunchJob(a) ==
  /\ Installs(a, "dependencies_installation_started")
  /\ \E dependencies \in Downloads(Dependencies[a], {}) :
       IF AllInstalled(dependencies)
       THEN \E j \in JobIds, ok \in BOOLEAN :
              /\ CreateJob(j, "install", a, Read(a), ok)
              /\ worker' = IF ok THEN [At("record", a) EXCEPT !.job = j] ELSE Idle
       ELSE worker' = Idle /\ UNCHANGED <<jobs, faults>>
  /\ UNCHANGED <<apps, watchers, restOfApi, restOfProcess>>
  /\ Informers

\* Mistake: the map is made anew each time.
OnlyEntry(app, j) == [i \in JobIds |-> IF i = j THEN "installation_started" ELSE "none"]
WithEntry(app, j) == [app.executed EXCEPT ![j] = "installation_started"]

RecordJob(a) ==
  /\ worker.step = "record" /\ worker.app = a
  /\ IF cache[a].exists
     THEN \E ok \in BOOLEAN :
            /\ UpdateApp(a, cache[a],
                         [cache[a] EXCEPT !.lastStatus = "installation_started",
                                          !.lastJob = worker.job,
                                          !.executed = WithEntry(cache[a], worker.job)], ok)
            /\ worker' = IF ok
                         THEN [At("watch", a) EXCEPT !.job = worker.job, !.copy = apps'[a]]
                         ELSE Idle
     ELSE worker' = Idle /\ UNCHANGED <<apps, faults>>
  /\ WritesApps

WatchJob(a) ==
  /\ worker.step = "watch" /\ worker.app = a
  /\ \E ok \in BOOLEAN : CreateJobWatcher(worker.job, worker.copy, ok)
  /\ worker' = Idle
  /\ UNCHANGED <<apps, jobs, restOfApi, restOfProcess>>
  /\ Informers

(***************************************************************************)
(* The finished stage: the installed version is recorded, and one update   *)
(* watcher goroutine is started for the name.  An error page has no        *)
(* version, with which the call ends like with a failed download.          *)
(***************************************************************************)
FreeThread(t) == updateThreads[t].step = "free" /\ \A s \in 1..(t - 1) : updateThreads[s].step # "free"

\* Goroutines beyond MaxThreads are not followed.
StartThread(a) ==
  updateThreads' = [t \in ThreadIds |->
    IF FreeThread(t) THEN [NoThread EXCEPT !.step = "asleep", !.app = a] ELSE updateThreads[t]]

RegisterUpdateWatcher(a) ==
  IF a \in updateWatcher
  THEN UNCHANGED <<updateWatcher, updateThreads>>
  ELSE updateWatcher' = updateWatcher \cup {a} /\ StartThread(a)

restOfFinish == <<jobs, watchers, restOfApi, jobWorker, terminatingApps, uninstallers, crashes, checks>>

\* Mistake: the name is registered first, and nothing is done for a registered name.
FinishOnce(a) ==
  /\ Installs(a, "installation_finished") /\ a \notin updateWatcher
  /\ RegisterUpdateWatcher(a)
  /\ \E ok \in BOOLEAN : UpdateApp(a, Read(a), [Read(a) EXCEPT !.version = published[a]], ok)
  /\ worker' = Idle
  /\ UNCHANGED restOfFinish /\ Informers

Finish(a) ==
  /\ Installs(a, "installation_finished")
  /\ IF Read(a).version = NoVersion
     THEN \/ \E ok \in BOOLEAN :
               /\ UpdateApp(a, Read(a), [Read(a) EXCEPT !.version = published[a]], ok)
               /\ IF ok THEN RegisterUpdateWatcher(a)
                        ELSE UNCHANGED <<updateWatcher, updateThreads>>
          \/ ErrorPages /\ UNCHANGED <<apps, faults, updateWatcher, updateThreads>>
     ELSE RegisterUpdateWatcher(a) /\ UNCHANGED <<apps, faults>>
  /\ worker' = Idle
  /\ UNCHANGED restOfFinish /\ Informers

ReconcileAppOf(a) ==
  \/ AddFinalizer(a) \/ Uninstall(a) \/ ClearStatus(a) \/ RestoreAction(a)
  \/ PreInstall(a) \/ PanicInPreInstall(a)
  \/ ResolveDependencies(a) \/ CreateDependency(a) \/ PanicInDependencies(a)
  \/ StartDependencies(a)
  \/ LaunchJob(a) \/ RecordJob(a) \/ WatchJob(a) \/ Finish(a)

ReconcileApp == \E a \in Apps : ReconcileAppOf(a)
=============================================================================
