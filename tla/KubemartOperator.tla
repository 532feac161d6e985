-------------------------- MODULE KubemartOperator --------------------------
(***************************************************************************)
(* The operator in its cluster: two controllers, the goroutines the App    *)
(* controller starts, crashes of the process, and the world around it.     *)
(***************************************************************************)
EXTENDS Cluster, AppController, JobWatcherController, UpdateWatchers, Uninstaller

vars == <<apiVars, processVars>>

Init == ApiInit /\ ProcessInit

Next ==
  \/ External \/ Sync
  \/ ReconcileApp \/ ReconcileJobWatcher \/ WatchForNewUpdate \/ ProcessAppNamespaceDeletion
  \/ Crash

Spec == Init /\ [][Next]_vars

(***************************************************************************)
(* Fairness.  The work queues retry whatever returned an error, and every  *)
(* resync of the informers queues all objects again, so a call that could  *)
(* change something is made at some time; goroutines run; informers        *)
(* deliver; Jobs end, namespaces are finalized, and garbage is collected.  *)
(* Users, publishing, crashes and failing calls owe nothing.               *)
(***************************************************************************)
Fairness ==
  /\ \A a \in Apps :
       /\ WF_vars(SyncApp(a)) /\ WF_vars(SyncNamespace(a)) /\ WF_vars(NamespaceFinalized(a))
       /\ WF_vars(ReconcileAppOf(a))
  /\ \A j \in JobIds :
       /\ WF_vars(SyncWatcher(j)) /\ WF_vars(CollectJob(j)) /\ WF_vars(CollectWatcher(j))
       /\ WF_vars(JobCreatesNamespace(j)) /\ WF_vars(JobEnds(j))
       /\ WF_vars(ReportVerdict(j) \/ PanicOnNilMap(j) \/ MarkReconciled(j))
       /\ WF_vars(UninstallerOf(j))

FairSpec == Spec /\ Fairness

TypeOK == ApiTypeOK /\ ProcessTypeOK

-----------------------------------------------------------------------------
(***************************************************************************)
(* Safety.                                                                 *)
(***************************************************************************)
InstallJobOf(j, a) == jobs[j].kind = "install" /\ jobs[j].app = a
WasInstalled(a) == \E j \in JobIds : InstallJobOf(j, a) /\ jobs[j].state = "complete"

\* The install stage waits for the direct dependencies: no install Job is created
\* for an application before an install Job of each direct dependency has completed.
DependenciesFirst ==
  \A j \in JobIds : \A a \in Apps :
    InstallJobOf(j, a) => \A d \in Dependencies[a] : WasInstalled(d)

Outcome(j) ==
  CASE jobs[j].state = "complete" -> "installation_finished"
    [] jobs[j].state = "failed" -> "installation_failed"
    [] OTHER -> "none"

\* JobsExecuted tells the truth, whatever raced with the two controllers: its entries
\* are install Jobs of that application, and a verdict is how the Job ended.
TruthfulRecord ==
  \A a \in Apps : \A j \in JobIds :
    apps[a].executed[j] # "none" =>
      /\ InstallJobOf(j, a)
      /\ apps[a].executed[j] \in Verdicts => apps[a].executed[j] = Outcome(j)

\* Reconciled says that the App's status was updated: as long as the App the JobWatcher
\* was made for exists, its status holds the verdict, and no later write takes it away.
ReconciledIsRecorded ==
  \A j \in JobIds :
    LET app == apps[jobs[j].app]
    IN  watchers[j].exists /\ watchers[j].reconciled /\ app.exists /\ app.uid = watchers[j].uid
          => app.executed[j] \in Verdicts

\* While an uninstall is under way the App controller does not start another one.
Uninstalling(j) == uninstallers[j] # "none"
OneUninstaller ==
  \A i, j \in JobIds :
    Uninstalling(i) /\ Uninstalling(j) /\ jobs[i].app = jobs[j].app => i = j

\* A name in the map terminatingApps without a goroutine that will release it stays there,
\* and no App of that name is uninstalled until the process restarts.  What may leave a name
\* behind is a failing call, or an error of the goroutine at one of two places: the namespace
\* is gone when it deletes it, the App or its revision when it removes the finalizer.  Nothing
\* else does: no failed or endless uninstall Job, no second uninstall, no crash.
Stranded(a) == a \in terminatingApps /\ ~\E j \in JobIds : Uninstalling(j) /\ jobs[j].app = a

Refused(j) ==
  LET a == jobs[j].app
  IN  \/ uninstallers[j] = "namespace" /\ namespaceCache[a] /\ namespaces[a] = "absent"
      \/ uninstallers[j] = "finalizer" /\ ~(cache[a].exists /\ Current(a, cache[a]))

StrandedByErrors ==
  [][\A a \in Apps :
       Stranded(a)' => \/ Stranded(a)
                       \/ faults' > faults
                       \/ \E j \in JobIds : jobs[j].app = a /\ Refused(j)]_vars

\* Only the uninstall of an App that is being deleted takes its namespace away, never that
\* of an App which has the name by then.
LiveNamespaceKept ==
  [][\A a \in Apps :
       namespaces[a] = "active" /\ namespaces'[a] = "terminating" => ~apps[a].exists \/ apps[a].deleting]_vars

\* An installation that has started is attended: Reconcile has no branch for its App, so that
\* a JobWatcher of this App must be there to report on the Job, or the worker about to create
\* it.  Nothing the controllers, the users and the garbage collector do takes that away, but
\* the end of the process or a failing call between the two writes.
Attended(a) ==
  apps[a].exists /\ apps[a].lastStatus = "installation_started" =>
    LET j == apps[a].lastJob
    IN  \/ worker.step = "watch" /\ worker.app = a /\ worker.job = j
        \/ watchers[j].exists /\ watchers[j].uid = apps[a].uid /\ ~watchers[j].reconciled

InstallAttended ==
  [][\A a \in Apps : Attended(a) => Attended(a)' \/ Restarted \/ faults' > faults]_vars

\* A name in the map updateWatcher has a goroutine that looks for new versions.
RegisteredIsWatched ==
  \A a \in updateWatcher : \E t \in ThreadIds : updateThreads[t].app = a

\* A new version is announced only beside an installed version that differs from it,
\* and an update starts with both cleared.
AnnouncedDiffers ==
  \A a \in Apps : apps[a].newVersion # NoVersion => apps[a].version \notin {NoVersion, apps[a].newVersion}

\* The update branch clears the status before it installs again: the second of its two writes,
\* which sets the action back, takes effect only on an App that the first has cleared.  Whether
\* the stages then run is the question of UpdatesRun.
UpdateIsCleared ==
  [][\A a \in Apps :
       apps[a].action = "update" /\ apps'[a].action = "install" /\ apps'[a].uid = apps[a].uid
         => apps'[a].lastStatus = "" /\ apps'[a].version = NoVersion]_vars

\* The configurations an application was installed with are kept, through updates with new
\* manifests and settings, copies that are out of date and failing calls: as long as the App
\* exists, what is stored for a key never changes.  install.sh reads them from the status.
ConfigurationsKept ==
  [][\A a \in Apps : \A k \in Keys :
       apps[a].exists /\ apps'[a].exists /\ apps'[a].uid = apps[a].uid
         /\ EntriesOf(apps[a], k) # {}
         => EntriesOf(apps'[a], k) = EntriesOf(apps[a], k)]_vars

(***************************************************************************)
(* Refinement: seen from outside, the Apps are the ledger of AppLedger.    *)
(***************************************************************************)
Entry(app) == [exists |-> app.exists, action |-> app.action, lastStatus |-> app.lastStatus,
               executed |-> app.executed, version |-> app.version, newVersion |-> app.newVersion]

Ledger == INSTANCE AppLedger WITH
  Versions <- 1..MaxVersion, CallsFail <- MaxFaults > 0, CopiesLag <- "App" \in Lagging,
  ledger <- [a \in Apps |-> Entry(apps[a])],
  outcome <- [j \in JobIds |-> Outcome(j)]

StrictLedger == INSTANCE AppLedger WITH
  Versions <- 1..MaxVersion, CallsFail <- FALSE, CopiesLag <- FALSE,
  ledger <- [a \in Apps |-> Entry(apps[a])],
  outcome <- [j \in JobIds |-> Outcome(j)]

\* Although every write is made from a cached copy, by two controllers and by goroutines,
\* with failing calls, crashes and panics, the status of the Apps changes as if each write
\* were one atomic step on the record.
LedgerSpec == Ledger!Spec

\* And as if no call ever failed and no cache lagged, in that no update starts without having
\* been cleared and no stage writes into an App that has not come so far.
StrictLedgerSpec == StrictLedger!Spec

(***************************************************************************)
(* Liveness.                                                               *)
(***************************************************************************)
\* An installation is reported: an App that exists is at last installed or failed, unless it
\* is deleted, or something it depends on has failed or has been deleted since the dependency
\* stage, which is the only one that creates dependencies.
InstallSettles ==
  \A a \in Apps :
    apps[a].exists ~>
      \/ ~apps[a].exists \/ apps[a].deleting
      \/ apps[a].lastStatus \in Verdicts
      \/ \E d \in Reach(a) : apps[d].lastStatus = "installation_failed"
      \/ /\ apps[a].lastStatus = "dependencies_installation_started"
         /\ \E d \in Reach(a) : ~apps[d].exists \/ apps[d].deleting

\* An installed application at last has its version recorded, whatever download or write
\* fails on the way, unless its App is deleted or installs again.
VersionRecorded ==
  \A a \in Apps :
    apps[a].lastStatus = "installation_finished" ~>
      apps[a].version # NoVersion \/ apps[a].deleting \/ apps[a].lastStatus # "installation_finished"

\* A JobWatcher reports the end of its Job, whatever fails on the way, unless the Job, the
\* JobWatcher or the App is gone by then.
JobWatcherReports ==
  \A j \in JobIds :
    watchers[j].exists /\ jobs[j].exists /\ jobs[j].state # "running" ~>
      watchers[j].reconciled \/ ~watchers[j].exists \/ ~jobs[j].exists

\* An update that is asked for is taken up, and a cleared App enters its stages again, if no
\* JobWatcher of an earlier Job is still to report.
VerdictDue(a) ==
  \/ worker.app = a /\ worker.step \in {"record", "watch"}
  \/ \E j \in JobIds :
       /\ jobs[j].app = a
       /\ \/ watchers[j].exists /\ ~watchers[j].reconciled
          \/ watcherCache[j].exists /\ ~watcherCache[j].reconciled

StatusCleared(a) == apps[a].exists /\ apps[a].lastStatus = ""
StagesStarted(a) ==
  apps[a].lastStatus = "pre_installation_started" \/ apps[a].deleting \/ ~apps[a].exists

QuietUpdatesRun ==
  \A a \in Apps :
    /\ apps[a].action = "update" ~> apps[a].action = "install" \/ apps[a].deleting
    /\ StatusCleared(a) /\ ~VerdictDue(a) ~> StagesStarted(a)

\* app_controller.go: a terminating App is released when its namespace is deleted.  So a deleted
\* App goes away, and its name is released for a later uninstall, unless the namespace came into
\* being after the uninstall had looked for it.  A conflict with another writer refutes this.
AwaitsNamespace(a) ==
  namespaces[a] = "active" /\ \E j \in JobIds : jobs[j].app = a /\ uninstallers[j] = "await"

DeletionCompletes ==
  \A a \in Apps :
    /\ apps[a].deleting ~> ~apps[a].deleting \/ AwaitsNamespace(a)
    /\ a \in terminatingApps ~> a \notin terminatingApps \/ AwaitsNamespace(a)

\* What is left of it: through failed and endless uninstall Jobs, failing calls and the panics of
\* other Apps, each of which loses the uninstalls under way, a deleted App goes away unless its
\* name is stranded by an error.  An uninstall that is lost needs a Job for the next: the last
\* exception is the bound MaxJobs.
LostForGood(a) ==
  /\ \A j \in JobIds : jobs[j].kind # "none"
  /\ ~\E j \in JobIds : Uninstalling(j) /\ jobs[j].app = a

DeletionExcused(a) == AwaitsNamespace(a) \/ Stranded(a) \/ LostForGood(a)

DeletionSettles ==
  \A a \in Apps :
    apps[a].deleting \/ a \in terminatingApps ~>
      (~apps[a].deleting /\ a \notin terminatingApps) \/ DeletionExcused(a)

(***************************************************************************)
(* What a comment and a test say that the code does not keep.              *)
(***************************************************************************)
\* app_controller_test.go: one Job is executed for an App that is installed once.
OneInstallJob ==
  \A i, j \in JobIds :
    jobs[i].kind = "install" /\ jobs[j].kind = "install" /\ jobs[i].app = jobs[j].app
      /\ jobs[i].uid = jobs[j].uid => i = j

\* app_controller.go: for an update the status is cleared before the App is installed again,
\* so that a cleared App goes through its stages.
UpdatesRun == \A a \in Apps : StatusCleared(a) ~> StagesStarted(a)
=============================================================================
