------------------------------ MODULE KubeApi ------------------------------
(***************************************************************************)
(* The Kubernetes API server as the operator sees it, and everything that  *)
(* happens in the cluster without the operator: users, Jobs running to     *)
(* their end, namespaces being finalized, the garbage collector, and the   *)
(* informers that carry objects into the operator's read cache.            *)
(*                                                                         *)
(* The operator reads through the manager's cache (Get and List), and      *)
(* writes to the API server directly.  A write carries the resource        *)
(* version of the copy it was made from and is refused when the object has *)
(* changed since.  A write may also fail after or before being applied.    *)
(***************************************************************************)
EXTENDS Manifests, Integers, FiniteSets

CONSTANTS
  Settings,         \* what users may have put into the ConfigMap kubemart-config
  UserPlans,        \* the plans users ask for
  Lagging           \* the kinds of object whose copy may be out of date when it is used

CONSTANTS           \* bounds of the model
  MaxJobs,          \* Jobs ever created
  MaxFaults,        \* API calls and manifest downloads that fail
  MaxRevision,      \* revisions of an App beyond which no stale verdict is repeated
  Requests          \* how many times the users "create", "update" and "delete" Apps

RequestKinds == {"create", "update", "delete"}
ObjectKinds == {"App", "JobWatcher", "Namespace"}

ASSUME InputsAssumption ==
  Settings \subseteq Nat /\ UserPlans \subseteq Nat /\ Lagging \subseteq ObjectKinds
ASSUME BoundsAssumption ==
  /\ MaxJobs \in Nat
  /\ MaxFaults \in Nat
  /\ MaxRevision \in Nat
  /\ Requests \in [RequestKinds -> Nat]

JobIds == 1..MaxJobs
NoJob == 0
NoVersion == 0

(***************************************************************************)
(* Objects.  An App has its application's name.  Its executed map is       *)
(* "none" where JobsExecuted has no entry for the Job.  uid is the         *)
(* revision at which the object was created; revisions keep growing when a *)
(* name is used again.                                                     *)
(***************************************************************************)
Statuses == {"", "pre_installation_started", "dependencies_installation_started",
             "installation_started", "installation_finished", "installation_failed"}
Verdicts == {"installation_finished", "installation_failed"}
JobEntries == {"none", "installation_started"} \cup Verdicts

AppObjects ==
  [exists: BOOLEAN, uid: Nat, revision: Nat, deleting: BOOLEAN, finalizer: BOOLEAN,
   action: {"install", "update"}, plan: Nat, lastStatus: Statuses, lastJob: JobIds \cup {NoJob},
   executed: [JobIds -> JobEntries], configurations: SUBSET Entries,
   version: 0..MaxVersion, newVersion: 0..MaxVersion]

NoApp ==
  [exists |-> FALSE, uid |-> 0, revision |-> 0, deleting |-> FALSE, finalizer |-> FALSE,
   action |-> "install", plan |-> NoPlan, lastStatus |-> "", lastJob |-> NoJob,
   executed |-> [j \in JobIds |-> "none"], configurations |-> {}, version |-> NoVersion, newVersion |-> NoVersion]

NoJobObject ==
  [kind |-> "none", app |-> "none", uid |-> 0, state |-> "running", exists |-> FALSE]
JobObjects ==
  [kind: {"install", "uninstall"}, app: Apps, uid: Nat,
   state: {"running", "complete", "failed"}, exists: BOOLEAN] \cup {NoJobObject}

WatcherObjects ==
  [exists: BOOLEAN, uid: Nat, reconciled: BOOLEAN, attempt: Nat]
NoWatcher == [exists |-> FALSE, uid |-> 0, reconciled |-> FALSE, attempt |-> 0]

NamespaceStates == {"absent", "active", "terminating"}

VARIABLES
  apps,             \* the App stored under each name
  cache,            \* the copy of it in the operator's cache
  jobs,             \* the Jobs created so far; one that no longer exists keeps its record
  watchers,         \* the JobWatcher created for each Job
  watcherCache,     \* the copy of it in the operator's cache
  namespaces,       \* the namespace of each application
  namespaceCache,   \* whether the operator's cache has it
  published,        \* the version in each application's manifest
  faults,           \* calls that have failed so far
  requests          \* user requests still to come

apiVars == <<apps, cache, jobs, watchers, watcherCache, namespaces, namespaceCache,
             published, faults, requests>>

ApiTypeOK ==
  /\ apps \in [Apps -> AppObjects]
  /\ cache \in [Apps -> AppObjects]
  /\ jobs \in [JobIds -> JobObjects]
  /\ watchers \in [JobIds -> WatcherObjects]
  /\ watcherCache \in [JobIds -> WatcherObjects]
  /\ namespaces \in [Apps -> NamespaceStates]
  /\ namespaceCache \in [Apps -> BOOLEAN]
  /\ published \in [Apps -> 1..MaxVersion]
  /\ faults \in 0..MaxFaults
  /\ requests \in [RequestKinds -> Nat]

ApiInit ==
  /\ apps = [a \in Apps |-> NoApp]
  /\ cache = [a \in Apps |-> NoApp]
  /\ jobs = [j \in JobIds |-> NoJobObject]
  /\ watchers = [j \in JobIds |-> NoWatcher]
  /\ watcherCache = [j \in JobIds |-> NoWatcher]
  /\ namespaces = [a \in Apps |-> "absent"]
  /\ namespaceCache = [a \in Apps |-> FALSE]
  /\ published = [a \in Apps |-> 1]
  /\ faults = 0
  /\ requests = Requests

(***************************************************************************)
(* The informers: a kind that does not lag follows every write at once.    *)
(* An action reads the cache and writes in one step, so for such a kind    *)
(* nothing comes between a read and the write made from it, which is more  *)
(* than a cache that is up to date would give.  A kind in Lagging has both *)
(* an old cache and that window: the copy read may be any former one.      *)
(* Every action but the synchronizations of Cluster ends with this.        *)
(***************************************************************************)
Informers ==
  /\ cache' = IF "App" \in Lagging THEN cache ELSE apps'
  /\ watcherCache' = IF "JobWatcher" \in Lagging THEN watcherCache ELSE watchers'
  /\ namespaceCache' = IF "Namespace" \in Lagging THEN namespaceCache
                       ELSE [a \in Apps |-> namespaces'[a] # "absent"]

(***************************************************************************)
(* The calls the operator makes.  Each has an outcome ok, FALSE when the   *)
(* operator gets an error; a failing call may have been applied.           *)
(***************************************************************************)
Fault == faults < MaxFaults /\ faults' = faults + 1

Current(a, copy) == apps[a].exists /\ apps[a].revision = copy.revision

\* A write that changes nothing makes no new revision; an App being deleted is
\* gone when its last finalizer is.
Stored(old, new) ==
  IF new = old THEN old
  ELSE IF new.deleting /\ ~new.finalizer THEN [NoApp EXCEPT !.revision = old.revision + 1]
  ELSE [new EXCEPT !.revision = old.revision + 1]

WriteApp(a, new) == apps' = [apps EXCEPT ![a] = Stored(apps[a], new)]

\* Update and Status().Update of App a with `new`, made from the read `copy`.
UpdateApp(a, copy, new, ok) ==
  \/ ok /\ Current(a, copy) /\ WriteApp(a, new) /\ UNCHANGED faults
  \/ ~ok /\ ~Current(a, copy) /\ UNCHANGED <<apps, faults>>
  \/ ~ok /\ Fault /\ UNCHANGED apps
  \/ ~ok /\ Fault /\ Current(a, copy) /\ WriteApp(a, new)

NewApp(a, plan) ==
  [NoApp EXCEPT !.exists = TRUE, !.uid = apps[a].revision + 1, !.revision = apps[a].revision + 1,
                !.plan = plan]

\* Create of App a; a name already taken is refused.
CreateApp(a, plan, ok) ==
  LET created == ~apps[a].exists /\ apps' = [apps EXCEPT ![a] = NewApp(a, plan)]
  IN  \/ ok /\ created /\ UNCHANGED faults
      \/ ~ok /\ apps[a].exists /\ UNCHANGED <<apps, faults>>
      \/ ~ok /\ Fault /\ (created \/ UNCHANGED apps)

\* The Jobs are used in order; GenerateName never gives a name twice.
NextJob(j) == jobs[j].kind = "none" /\ \A i \in 1..(j - 1) : jobs[i].kind # "none"

\* Create of Job j for the App object `owner`.
CreateJob(j, job, a, owner, ok) ==
  LET created == jobs' = [jobs EXCEPT ![j] = [kind |-> job, app |-> a, uid |-> owner.uid,
                                              state |-> "running", exists |-> TRUE]]
  IN  /\ NextJob(j)
      /\ \/ ok /\ created /\ UNCHANGED faults
         \/ ~ok /\ Fault /\ (created \/ UNCHANGED jobs)

\* Create and Status().Update of the JobWatcher of Job j.  Only the JobWatcher
\* controller updates it, so a copy is current when it equals the object.
CreateJobWatcher(j, owner, ok) ==
  LET created == watchers' = [watchers EXCEPT ![j] = [NoWatcher EXCEPT !.exists = TRUE,
                                                                       !.uid = owner.uid]]
  IN  \/ ok /\ created /\ UNCHANGED faults
      \/ ~ok /\ Fault /\ (created \/ UNCHANGED watchers)

UpdateWatcher(j, copy, new, ok) ==
  LET current == watchers[j] = copy
      written == watchers' = [watchers EXCEPT ![j] = new]
  IN  \/ ok /\ current /\ written /\ UNCHANGED faults
      \/ ~ok /\ ~current /\ UNCHANGED <<watchers, faults>>
      \/ ~ok /\ Fault /\ (UNCHANGED watchers \/ (current /\ written))

\* Delete of a's namespace; deleting it again is no error while it terminates.
RemoveNamespace(a, ok) ==
  LET removed == namespaces' = [namespaces EXCEPT ![a] = "terminating"]
  IN  \/ ok /\ namespaces[a] # "absent" /\ removed /\ UNCHANGED faults
      \/ ~ok /\ namespaces[a] = "absent" /\ UNCHANGED <<namespaces, faults>>
      \/ ~ok /\ Fault /\ (UNCHANGED namespaces \/ (namespaces[a] # "absent" /\ removed))
=============================================================================
