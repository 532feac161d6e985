------------------------ MODULE JobWatcherController ------------------------
(***************************************************************************)
(* JobWatcherReconciler.Reconcile: while a JobWatcher is not reconciled,   *)
(* each call checks its Job, and once the Job has ended writes the verdict *)
(* into the App's status and then marks the JobWatcher.                    *)
(***************************************************************************)
EXTENDS OperatorProcess

CONSTANTS
  MaxRetries        \* the max_retries of every JobWatcher

ASSUME RetriesAssumption == MaxRetries \in Nat

restOfSystem == <<namespaces, published, requests, worker,
                  terminatingApps, updateWatcher, updateThreads, uninstallers>>

\* Mistake: nothing is due once the App has the verdict.
DueUntilReported(j) ==
  /\ jobWorker.step = "idle"
  /\ watcherCache[j].exists /\ ~watcherCache[j].reconciled
  /\ cache[jobs[j].app].executed[j] \notin Verdicts
Due(j) ==
  /\ jobWorker.step = "idle"
  /\ watcherCache[j].exists
  /\ watcherCache[j].attempt <= MaxRetries /\ ~watcherCache[j].reconciled

\* The Job has neither condition yet: nothing is written.
CheckRunningJob(j) ==
  /\ Due(j)
  /\ jobs[j].exists /\ jobs[j].state = "running"
  /\ checks[j] < MaxChecks
  /\ checks' = [checks EXCEPT ![j] = @ + 1]
  /\ UNCHANGED <<apps, jobs, watchers, faults, jobWorker, crashes, restOfSystem>>
  /\ Informers

\* Mistakes: a status that no stage knows; any end is a success; a failure is no end.
UnknownVerdict(j) == "installation_completed"
AlwaysFinished(j) == "installation_finished"
FailureIgnored(j) ==
  IF jobs[j].state = "complete" THEN "installation_finished" ELSE "installation_started"
VerdictOf(j) ==
  IF jobs[j].state = "complete" THEN "installation_finished" ELSE "installation_failed"

\* Mistake: the Job's entry is left alone.
StatusOnly(app, j) == [app EXCEPT !.lastStatus = VerdictOf(j), !.revision = @ + 1]

\* The status update carries the time: a verdict written again is a new revision
\* of the App although nothing else may change.
WithVerdict(app, j) ==
  [app EXCEPT !.lastStatus = VerdictOf(j), !.executed[j] = VerdictOf(j), !.revision = @ + 1]

\* An out-of-date copy of the JobWatcher repeats its verdict up to MaxRevision.
Bounded(app, j) == watcherCache[j] # watchers[j] => app.revision < MaxRevision

NeverExecuted(app) == \A j \in JobIds : app.executed[j] = "none"

ReportVerdict(j) ==
  LET a == jobs[j].app
  IN  /\ Due(j)
      /\ jobs[j].exists /\ jobs[j].state # "running"
      /\ cache[a].exists /\ ~NeverExecuted(cache[a]) /\ Bounded(cache[a], j)
      /\ \E ok \in BOOLEAN :
           /\ UpdateApp(a, cache[a], WithVerdict(cache[a], j), ok)
           /\ jobWorker' = IF ok THEN [step |-> "verdict", job |-> j] ELSE JobIdle
      /\ UNCHANGED <<jobs, watchers, crashes, checks, restOfSystem>>
      /\ Informers

\* JobsExecuted is a nil map in an App that has run no Job; writing to it panics.
PanicOnNilMap(j) ==
  LET a == jobs[j].app
  IN  /\ Due(j)
      /\ jobs[j].exists /\ jobs[j].state # "running"
      /\ cache[a].exists /\ NeverExecuted(cache[a])
      /\ Restarted
      /\ UNCHANGED crashes

\* The JobWatcher is read again; CurrentAttempt moves only here.
MarkReconciled(j) ==
  /\ jobWorker = [step |-> "verdict", job |-> j]
  /\ IF watcherCache[j].exists
     THEN \E ok \in BOOLEAN :
            UpdateWatcher(j, watcherCache[j],
                          [watcherCache[j] EXCEPT !.reconciled = TRUE, !.attempt = @ + 1], ok)
     ELSE UNCHANGED <<watchers, faults>>
  /\ jobWorker' = JobIdle
  /\ UNCHANGED <<apps, jobs, crashes, checks, restOfSystem>>
  /\ Informers

ReconcileJobWatcher ==
  \E j \in JobIds :
    CheckRunningJob(j) \/ ReportVerdict(j) \/ PanicOnNilMap(j) \/ MarkReconciled(j)
=============================================================================
