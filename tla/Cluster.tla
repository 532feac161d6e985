------------------------------ MODULE Cluster ------------------------------
(***************************************************************************)
(* What happens around the operator.  None of this is the operator's code; *)
(* it is modelled from how the operator relies on it.                      *)
(***************************************************************************)
EXTENDS OperatorProcess

Asked(kind) == requests[kind] > 0 /\ requests' = [requests EXCEPT ![kind] = @ - 1]

\* A user installs application a, with or without a plan: kubectl or the CLI creates its App.
UserCreates(a) ==
  /\ Asked("create")
  /\ ~apps[a].exists
  /\ \E plan \in UserPlans : apps' = [apps EXCEPT ![a] = NewApp(a, plan)]
  /\ UNCHANGED <<jobs, watchers, namespaces, published, faults, processVars>>
  /\ Informers

\* A user asks for the update of an installed application.
UserUpdates(a) ==
  /\ Asked("update")
  /\ apps[a].exists /\ ~apps[a].deleting /\ apps[a].action = "install"
  /\ WriteApp(a, [apps[a] EXCEPT !.action = "update"])
  /\ UNCHANGED <<jobs, watchers, namespaces, published, faults, processVars>>
  /\ Informers

\* A user deletes App a; it stays until its finalizer is removed.
UserDeletes(a) ==
  /\ Asked("delete")
  /\ apps[a].exists /\ ~apps[a].deleting
  /\ WriteApp(a, [apps[a] EXCEPT !.deleting = TRUE])
  /\ UNCHANGED <<jobs, watchers, namespaces, published, faults, processVars>>
  /\ Informers

\* The marketplace publishes a new version of application a.
Publish(a) ==
  /\ published[a] < MaxVersion
  /\ published' = [published EXCEPT ![a] = @ + 1]
  /\ UNCHANGED <<apps, jobs, watchers, namespaces, faults, requests, processVars>>
  /\ Informers

\* install.sh running in Job j creates the application's namespace.
JobCreatesNamespace(j) ==
  LET a == jobs[j].app
  IN  /\ jobs[j].kind = "install" /\ jobs[j].exists /\ jobs[j].state = "running"
      /\ a \in Namespaced /\ namespaces[a] = "absent"
      /\ namespaces' = [namespaces EXCEPT ![a] = "active"]
      /\ UNCHANGED <<apps, jobs, watchers, published, faults, requests, processVars>>
      /\ Informers

\* Job j ends.  An installation is complete only with its namespace in place.
JobEnds(j) ==
  /\ jobs[j].kind # "none" /\ jobs[j].exists /\ jobs[j].state = "running"
  /\ \E verdict \in {"complete", "failed"} :
       /\ verdict = "complete" /\ jobs[j].kind = "install" /\ jobs[j].app \in Namespaced
            => namespaces[jobs[j].app] = "active"
       /\ jobs' = [jobs EXCEPT ![j].state = verdict]
  /\ UNCHANGED <<apps, watchers, namespaces, published, faults, requests, processVars>>
  /\ Informers

\* The namespace controller finishes deleting a's namespace.
NamespaceFinalized(a) ==
  /\ namespaces[a] = "terminating"
  /\ namespaces' = [namespaces EXCEPT ![a] = "absent"]
  /\ UNCHANGED <<apps, jobs, watchers, published, faults, requests, processVars>>
  /\ Informers

\* The garbage collector removes what an App object that is gone has owned.
OwnerGone(a, uid) == ~(apps[a].exists /\ apps[a].uid = uid)

CollectJob(j) ==
  /\ jobs[j].exists /\ OwnerGone(jobs[j].app, jobs[j].uid)
  /\ jobs' = [jobs EXCEPT ![j].exists = FALSE]
  /\ UNCHANGED <<apps, watchers, namespaces, published, faults, requests, processVars>>
  /\ Informers

CollectWatcher(j) ==
  /\ watchers[j].exists /\ OwnerGone(jobs[j].app, watchers[j].uid)
  /\ watchers' = [watchers EXCEPT ![j].exists = FALSE]
  /\ UNCHANGED <<apps, jobs, namespaces, published, faults, requests, processVars>>
  /\ Informers

\* The informers bring the latest state of an object into the cache.
SyncApp(a) ==
  /\ cache[a] # apps[a]
  /\ cache' = [cache EXCEPT ![a] = apps[a]]
  /\ UNCHANGED <<apps, jobs, watchers, watcherCache, namespaces, namespaceCache,
                 published, faults, requests, processVars>>

SyncWatcher(j) ==
  /\ watcherCache[j] # watchers[j]
  /\ watcherCache' = [watcherCache EXCEPT ![j] = watchers[j]]
  /\ UNCHANGED <<apps, cache, jobs, watchers, namespaces, namespaceCache,
                 published, faults, requests, processVars>>

SyncNamespace(a) ==
  /\ namespaceCache[a] # (namespaces[a] # "absent")
  /\ namespaceCache' = [namespaceCache EXCEPT ![a] = ~@]
  /\ UNCHANGED <<apps, cache, jobs, watchers, watcherCache, namespaces,
                 published, faults, requests, processVars>>

External ==
  \/ \E a \in Apps :
       \/ UserCreates(a) \/ UserUpdates(a) \/ UserDeletes(a) \/ Publish(a)
       \/ NamespaceFinalized(a)
  \/ \E j \in JobIds :
       \/ JobCreatesNamespace(j) \/ JobEnds(j) \/ CollectJob(j) \/ CollectWatcher(j)

Sync ==
  \/ \E a \in Apps : SyncApp(a) \/ SyncNamespace(a)
  \/ \E j \in JobIds : SyncWatcher(j)
=============================================================================
