---------------------------- MODULE Uninstaller ----------------------------
(***************************************************************************)
(* The goroutine behind the uninstall Job of an App: it waits for the Job, *)
(* deletes the application's namespace, waits until that is gone, removes  *)
(* the App's finalizer and releases the name in terminatingApps.  An error *)
(* in any step ends the goroutine.                                         *)
(***************************************************************************)
EXTENDS OperatorProcess

\* Mistake: the goroutine ends without releasing the name.
NeverReleased(j, step) ==
  uninstallers' = [uninstallers EXCEPT ![j] = IF step = "release" THEN "none" ELSE step]
GoesTo(j, step) == uninstallers' = [uninstallers EXCEPT ![j] = step]

restOfUninstall == <<jobs, watchers, published, requests, worker, jobWorker, updateWatcher,
                     updateThreads, crashes, checks>>

\* Mistake: the wait has no limit, and a failed Job never completes.
WaitForever(j) ==
  /\ uninstallers[j] = "job" /\ jobs[j].state = "complete"
  /\ GoesTo(j, "namespace")
  /\ UNCHANGED <<apps, namespaces, faults, terminatingApps, restOfUninstall>>
  /\ Informers

\* The wait ends when the Job has completed, and after 60 tries whatever the
\* state of the Job.
StopWaiting(j) ==
  /\ uninstallers[j] = "job"
  /\ GoesTo(j, "namespace")
  /\ UNCHANGED <<apps, namespaces, faults, terminatingApps, restOfUninstall>>
  /\ Informers

\* Nothing to delete when the manifest has no namespace or cannot be downloaded, and when
\* an error page comes in its place.
DeleteNamespace(j) ==
  LET a == jobs[j].app
  IN  /\ uninstallers[j] = "namespace"
      /\ \/ /\ a \notin Namespaced \/ ErrorPages
            /\ GoesTo(j, "finalizer") /\ UNCHANGED <<namespaces, faults>>
         \/ Fault /\ GoesTo(j, "finalizer") /\ UNCHANGED namespaces
         \/ /\ a \in Namespaced /\ namespaceCache[a]
            /\ \E ok \in BOOLEAN :
                 RemoveNamespace(a, ok) /\ GoesTo(j, IF ok THEN "await" ELSE "none")
         \/ /\ a \in Namespaced /\ ~namespaceCache[a]
            /\ GoesTo(j, "await") /\ UNCHANGED <<namespaces, faults>>
      /\ UNCHANGED <<apps, terminatingApps, restOfUninstall>>
      /\ Informers

AwaitNamespace(j) ==
  /\ uninstallers[j] = "await" /\ ~namespaceCache[jobs[j].app]
  /\ GoesTo(j, "finalizer")
  /\ UNCHANGED <<apps, namespaces, faults, terminatingApps, restOfUninstall>>
  /\ Informers

\* RemoveFinalizerFromApp finds the App by its name alone.
RemoveFinalizer(j) ==
  LET a == jobs[j].app
  IN  /\ uninstallers[j] = "finalizer"
      /\ IF cache[a].exists
         THEN \E ok \in BOOLEAN :
                /\ UpdateApp(a, cache[a], [cache[a] EXCEPT !.finalizer = FALSE], ok)
                /\ GoesTo(j, IF ok THEN "release" ELSE "none")
         ELSE GoesTo(j, "none") /\ UNCHANGED <<apps, faults>>
      /\ UNCHANGED <<namespaces, terminatingApps, restOfUninstall>>
      /\ Informers

Release(j) ==
  /\ uninstallers[j] = "release"
  /\ terminatingApps' = terminatingApps \ {jobs[j].app}
  /\ GoesTo(j, "none")
  /\ UNCHANGED <<apps, namespaces, faults, restOfUninstall>>
  /\ Informers

UninstallerOf(j) ==
  StopWaiting(j) \/ DeleteNamespace(j) \/ AwaitNamespace(j) \/ RemoveFinalizer(j) \/ Release(j)

ProcessAppNamespaceDeletion == \E j \in JobIds : UninstallerOf(j)
=============================================================================
