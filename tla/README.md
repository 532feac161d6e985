# A TLA+ model of kubemart-operator

The operator installs marketplace applications in a Kubernetes cluster. A user
creates an `App`; the App controller takes it through its stages, starts a Job
that runs the application's `install.sh`, and leaves a `JobWatcher` behind, whose
controller writes the end of the Job into the App's status. Deleting the App
starts an uninstall Job and a goroutine that removes the namespace and the App's
finalizer. Each installed App has a goroutine that looks for new versions.

This directory models that behaviour, checks it with TLC on small instances and
proves every safety property of those runs with TLAPS for every value of the parameters.

## The system

| part | code | state | operations |
|---|---|---|---|
| App controller | `controllers/app_controller.go` `Reconcile` | the App's finalizer, action and status; Jobs; JobWatchers; the two global maps | finalizer, deletion, update, pre-install, dependencies, install, finished |
| JobWatcher controller | `controllers/jobwatcher_controller.go` | the App's status; the JobWatcher's status | check the Job, report its verdict, mark the JobWatcher |
| update watchers | `app_controller.go` `WatchForNewUpdate` | map `updateWatcher`, one goroutine for each entry, the announced version | sleep, download, compare, write |
| uninstaller | `app_controller.go` goroutine of the deletion branch, `ProcessAppNamespaceDeletion`, `RemoveFinalizerFromApp` | map `terminatingApps`, one goroutine for each uninstall Job, the namespace | wait for the Job, delete the namespace, await, remove the finalizer, release the name |
| manifests | `pkg/utils/utils.go` | none (downloaded each time) | dependencies and their recursive resolution, version, namespace, plans, configurations |
| custom resources | `apis/kubemart.civo.com/v1alpha1` | the fields of `App` and `JobWatcher` | |
| manager | `main.go` | the process | starts one worker for each controller |
| generated clients, deep copies, deployment files | `pkg/client`, `zz_generated.deepcopy.go`, `config`, `bundle` | | |

The parts never call each other: they communicate through objects in the API
server, which they read from the manager's cache and write directly, and through
two maps without locks. What is hard follows from that:

- **Old copies.** Every decision and every write is made from a cached copy. The
  API server refuses a write from a copy whose resource version is no longer the
  object's, but it cannot refuse a *creation* that rests on an old status.
- **Several writers.** Two controllers and any number of goroutines write the
  same App status.
- **Sequences of writes.** A branch of `Reconcile` makes up to three writes; a
  crash, a failing call or another writer may come between any two.
- **Memory that is lost.** The maps and goroutines do not survive a restart, and a
  panic in either controller restarts all of it.
- **Names.** Apps are found by name, in the maps, by JobWatchers and by the
  uninstaller. A name can be used again.
- **Waiting.** Installs wait for dependencies, JobWatchers for Jobs, uninstalls for
  Jobs and namespaces.
- **Manifests that change.** Every question downloads the manifest again, and the HTTP
  status is never looked at: two answers may differ, and an error page is a manifest
  without content. Some manifests make the code panic.

What makes each part correct:

- App controller: an install Job only after those of the dependencies; an update
  clears what was installed before the stages run again; what is stored for a configuration key stays;
  every App is at last installed or failed, and its version recorded.
- JobWatcher controller: the verdict is how the Job ended, a JobWatcher marked as
  reconciled stands for a verdict in the App, an installation under way has a JobWatcher,
  and every ended Job is reported.
- update watchers: one goroutine for each registered name; what they announce
  differs from what is installed.
- uninstaller: one uninstall for a name at a time; no namespace of an App that lives;
  a name in the map has a goroutine that will release it unless an error has ended that, and a deletion
  without such an error ends.
- resolution of dependencies: all that is needed and not installed, each once, no deeper
  than the dependencies go, and an end where the marketplace has no cycle.
- all together: for those who read the Apps, the status changes as one record does.

## The modules

| module | what it models |
|---|---|
| `Manifests` | the marketplace as `utils.go` reads it: downloads and error pages, templates, plans, what the pre-install stage makes of them |
| `KubeApi` | objects, the API server's answers to the operator's calls, the informers. External except for the record types and for the objects the operator creates. |
| `OperatorProcess` | the process: where each worker is between two writes, the maps, the goroutines, crash and restart |
| `Cluster` | users, marketplace, Jobs, namespaces, garbage collector, informers. External. |
| `AppController` | `AppReconciler.Reconcile`, one action for each part of a call that ends with a write |
| `JobWatcherController` | `JobWatcherReconciler.Reconcile` |
| `UpdateWatchers` | the goroutine `WatchForNewUpdate` |
| `Uninstaller` | the goroutine behind an uninstall Job |
| `KubemartOperator` | their composition, fairness and the properties |
| `AppLedger` | the abstract specification: what the status of the Apps promises to its readers |
| `DependencyResolution` | the recursion of `GetDepthDependenciesToInstall`, turn by turn |
| `MCOperator`, `MCResolution` | instances for TLC; each `.cfg` is one run |
| `KubemartProofs` | the inductive invariant of `KubemartOperator` and what follows from it |
| `HistoryProofs`, `UpdateProofs`, `NamespaceProofs`, `ReconciledProofs`, `LedgerProofs`, `GoroutineProofs` | proofs about `KubemartOperator` that need more than that invariant |
| `ResolutionProofs` | proofs about `DependencyResolution` |

`Manifests` is extended by `KubeApi`, that by `OperatorProcess`, that by the four modules of the
operator and by `Cluster`, and `KubemartOperator` puts these together. `ResolveDependencies` of
`AppController` takes in one step what `DependencyResolution` takes turn by turn: the whole
closure, or any part of it with all direct dependencies when a download below them was lost.
`ResolvesAll` and `ResolvesDirect` are the reasons why that step is right.

`AppLedger` has no copies, caches, calls or processes: a record for each name, and one atomic step for
each thing that may happen to it. An App appears blank, an update is asked for, cleared and started, a
stage is entered only by an App that has come so far, a Job is launched once, its verdict goes into its
entry and erases nothing else. Two of its promises depend on the world: `CallsFail` lets an update
start that was not cleared, and `CopiesLag` lets a stage that follows the first write into an App which
has the name by then. `KubemartOperator` maps the stored Apps to these records twice: in
`LedgerSpec` the two are as the instance has them, so that the operator implements it always, and in
`StrictLedgerSpec` both are FALSE.

### State

`apps[a]` is the App stored under the name `a` and `cache[a]` the operator's copy
of it. Of the status there are `lastStatus`, `lastJob` (`LastJobExecuted`),
`executed` (`JobsExecuted`: for each Job the status of its entry, "none" without
one), `version` (`InstalledVersion`) and `newVersion` (`NewUpdateVersion`, with
`NoVersion` where `NewUpdateAvailable` is false); `plan` and `configurations` are the
plan of the spec and the entries of `Configurations`. An entry has a key, the kind of variable
it came from (which decides its base64 and customized flags) and a value, which is what it was
made from: the uid for a generated text, the settings of the ConfigMap, the size of a plan. `revision` is the resource
version and `uid` tells apart two Apps of one name. Jobs are numbered in the order
of their creation; `jobs[j]` keeps its record when the Job is gone. `watchers[j]` is
the JobWatcher of Job `j`, with its own cache. The namespace of an application has
its application's name.

`worker` is the call of `AppReconciler.Reconcile` under way. A call of a controller
is cut at its writes: an action reads and decides, ends with one write, and the
next action of the same call continues from `worker.step`. An action reads the cache and writes in
one step. For a kind of object in `Lagging` this loses nothing: the copy is as old as it may be, and what
happens between a read and its write in the code is a copy that is old in the model. For a kind that is not
in `Lagging` it is stronger than a cache that is up to date, since nothing comes between the two:
`List` and `Update` in `RemoveFinalizerFromApp` (`app_controller.go` 687 and 708), `Get` and the look
into `terminatingApps` (91 and 120), `IsNamespaceExist` and `Delete` (738 and 746) are then one step each.
So "the App cache follows" below means both: no old copy, and no write in that window. Whatever holds under
`"App" \notin Lagging` only (`LiveNamespaceKept`, the strict ledger, `RegisteredIsWatched`, and what the runs
`reinstalls`, `dependencies` and `deletions` show) is to be read so, and may fail in the window as it does with a lag. `worker.copy` is the in-memory `appInstance` where later code uses it. A
call that ends, with a result or with an error, goes back to `Idle`; because calls
are started by events, by retries, by `RequeueAfter` and by resyncs, a new one may start
at any time for any App.

`DependencyResolution` has the list of the remaining dependencies of every call that has not
returned (`frames`, `depth`), the result (`toInstall`), and two history variables: which manifests
were read (`visited`), and whether one was lost (`lost`).

Each call to the API server has an outcome `ok`. When it is false the call was
refused (a conflict, a name that is taken) or failed by chance, and then it may
have been applied all the same. `MaxFaults` bounds the failures by chance only.

| action | code |
|---|---|
| `AddFinalizer` | `app_controller.go` 105-114; the call continues with the updated App |
| `Uninstall` | 115-190 |
| `ClearStatus`, `RestoreAction` | 192-217 |
| `PreInstall`, `PanicInPreInstall` | 219-361; `utils.go` 117-225 |
| `ResolveDependencies`, `CreateDependency`, `PanicInDependencies`, `StartDependencies` | 363-443 |
| `LaunchJob`, `RecordJob`, `WatchJob` | 445-551 |
| `Finish` | 553-581 |
| `WakeUp`, `CheckUpdate` | 605-657 |
| `StopWaiting`, `DeleteNamespace`, `AwaitNamespace`, `RemoveFinalizer`, `Release` | 158-185, 683-766 |
| `CheckRunningJob`, `ReportVerdict`, `PanicOnNilMap`, `MarkReconciled` | `jobwatcher_controller.go` 60-175 |
| `Restarted`, `Crash` | `main.go` 47-95 |
| `Visit`, `Overflow`, `DownloadFails`, `Return` | `utils.go` 249-318 |

### What the model leaves out or assumes

- Events, logs and times. A status update that carries the
  time makes a new revision even when nothing else changes (`WithVerdict`).
- The texts of templates and values. What decides is kept: the kinds of variable in a
  template, a kind the operator has no value for, and whether the template has a number in parentheses.
- `ErrorPages` says whether the server may send something else than the manifest. It may do
  so any number of times, but where fairness asks for a step, the manifest comes at last.
- A manifest names applications of the marketplace: entries are trimmed and lower-cased
  as `SanitizeDependencies` does.
- Reads from the cache do not fail.
- A download ends, with an answer or an error: `http.Get` without a timeout that never
  returns would be a worker that takes no step.
- `metadata.name` and `spec.name` are the same, as the CLI and the dependency stage
  write them.
- The informers may skip versions and deliver late, but never go back. A deletion and a
  creation under the same name are then one change. The cached Job is not
  distinguished from the Job: that its end is seen late is the same as that it ends late.
- `Reach` is the closure of the dependencies. In a marketplace with a cycle the
  recursion never ends (`DependencyResolution`), which `ResolveDependencies` does not repeat; the
  instances of `MCOperator` have none.
- Jobs are not removed 24 hours after their end (`TTLSecondsAfterFinished`) before
  their JobWatcher, which looks every ten seconds, has reported them.
- An App has no finalizer but the operator's.
- The data races on the two maps are modelled as atomic steps and, for the fatal
  error they may cause, as crashes.
- Update watchers beyond `MaxThreads` are not followed.

## The runs

All runs but `resolution`, which uses `MCResolution`, use `MCOperator`. `Lagging` names the caches that
lag in a run; the others follow every write. Users make a bounded number of requests, and a
resolution ends, so the system comes to rest and deadlock is not an error.

| run | instance | shows |
|---|---|---|
| `crashes` | 1 App, 2 Jobs, all caches lag, error pages, 1 fault, 1 crash, 1 update watcher | `TypeOK`, `TruthfulRecord`, `ReconciledIsRecorded`, `JobWatcherReports`, `VersionRecorded`, `LedgerSpec` |
| `updates` | 1 App with a plan of two keys and 1 update, 2 Jobs, 2 versions with different templates (under the plan's keys), 2 settings, 1 update watcher, App cache lags | `UpdateIsCleared`, `QuietUpdatesRun`, `AnnouncedDiffers`, `ConfigurationsKept`, `StrictLedgerSpec`, `InstallAttended` |
| `reinstalls` | 1 name used twice, 3 Jobs, a namespace whose cache lags, 4 update watchers, 1 crash | `OneUninstaller`, `RegisteredIsWatched`, `StrandedByErrors`, `LiveNamespaceKept`, `StrictLedgerSpec`, `InstallAttended` |
| `dependencies` | an App and its dependency, 4 Jobs, one of the Apps deleted at any moment, JobWatcher cache lags | `DependenciesFirst`, `InstallSettles` |
| `deletions` | an App and its dependency, which has a namespace and whose manifest has a plan without a value: with a plan it panics in every call until it is deleted, and so does the App when it has to create it; 2 creations and 1 deletion at any moment, 2 Jobs, 1 fault | `StrandedByErrors`, `DeletionSettles` |
| `resolution` | every marketplace of 3 applications with up to two dependencies each, cycles and doubled entries included, any set of installed ones, error pages, failing downloads, a stack of 4 calls | `ResolvesAll`, `ResolvesDirect`, `NoDuplicates`, `StackSuffices`, `EndsWithoutCycles` |

Bounds, and why they are enough for what is asked:

- A second Job of one App appears with two Jobs (`MaxJobs`); a third leaves room for the
  uninstall Job of a name that is used twice, and a fourth for the Jobs of a dependency.
- One fault and one crash (`MaxFaults`, `MaxCrashes`) suffice for each to come between any two steps,
  since each property speaks of one interruption at a time.
- In `deletions` two Jobs are an install and an uninstall Job of the dependency, or two uninstall Jobs of one
  App whose first uninstall was lost to the other App's panic. A panic ends the process as a crash does, so the
  run has no crash of its own. Beyond that `DeletionSettles` excepts a name without a goroutine for which the
  instance has no Job left (`LostForGood`): this is the bound, not the code. In the code an App that panics forever
  may lose every uninstall of another App, as long as it panics more often than an uninstall takes; with
  boundedly many Jobs this is no counterexample here.
- No goroutine is left out in `reinstalls`: an App starts a second one only after an uninstall Job for
  the first, so there are at most as many as names, Jobs and failing calls together (`AllFollowed` of
  `GoroutineProofs`), which `MaxThreads` = 4 is there. The other runs follow at most one.
- Two versions (`MaxVersion`) let a manifest change between two stages of one App.
- With three applications every shape of dependency exists that the recursion tells apart: a
  chain, one that is needed twice, a cycle and a self-loop below the root. Without a cycle
  three calls are on the stack, so a stack of four (`MaxDepth`) overflows only in a cycle.
- `MaxRevision` bounds only the repetition of a verdict from an out-of-date JobWatcher,
  each of which is a new revision. `MaxChecks` bounds the checks of a running Job, which change
  nothing else; `MaxRetries` is the default of the code.

Some promises hold only where a cache does not lag or no call fails, and the opposite
instance is one of the findings below: `LiveNamespaceKept` and `DeletionCompletes`
need an App cache that follows, `InstallSettles` no crash, `UpdateIsCleared`
no failing call, and `StrictLedgerSpec` both an App cache that follows and no failing call.

`DeletionSettles` is `DeletionCompletes` with the errors excepted that leave a name in `terminatingApps`
without its goroutine (`Stranded`): the Create of the uninstall Job fails and every retry stops at the map, the
goroutine's write meets a conflict or does not find the App, or it deletes a namespace that is gone
already but still in its cache. `StrandedByErrors` says that there are no others. Both
except a namespace that the install Job has created after the
uninstall had looked for it: it is never deleted and the goroutine waits for a user.
`UpdateIsCleared` is about the two writes of the update branch alone. That the stages run after it is not so:
the JobWatcher of a Job from before the update may write its verdict over the cleared status (`update_dropped`).
`QuietUpdatesRun` is what remains: where no JobWatcher is still to report, a cleared App enters its stages.
`InstallSettles` excepts Apps below which something has failed or was deleted: the dependency
stage, the only one that creates dependencies, is not entered again, so such an App polls
forever. This is what the code does, and no text of the repository says otherwise.

### Fairness

Weak fairness of each App's calls, of each JobWatcher's calls and of each
uninstall goroutine: a call that returns an error is retried by the work queue, a
JobWatcher asks to be called again every ten seconds, and each resync of the
informers calls the controllers for all objects. `CheckRunningJob` has none, since it writes nothing.
The informers deliver, Jobs end, their namespaces are created and finalized, and the garbage
collector works. Users, new versions, crashes and failing calls have no fairness, and the
update watchers need none. In `DependencyResolution` it is `WF(Next)`: the function is sequential
code and goes on until it has returned.

### Statements of the repository that do not hold

Each is a run that ends in a counterexample.

| run | statement | what happens |
|---|---|---|
| `second_install_job` | `app_controller_test.go:305` "Should have 1 job executed" | a lagging cache shows the install stage twice |
| `install_unwatched` | `jobwatcher_controller.go:118` "will update App's status when the launcher Job has completed" | a crash between status and JobWatcher leaves `installation_started` forever |
| `deletion_stuck` | `app_controller.go:64-65` "released when the namespace is deleted" | a conflict ends the goroutine and the name is never released |
| `update_dropped` | `app_controller.go:192-193` "before "re-install" the app" | the first Job's verdict is written over the cleared status: the new version is recorded and no stage runs |
| `update_lost` | `app_controller.go:192-193` "we will clear installed_version and last_status" | the error of that write is ignored |
| `live_namespace_deleted` | `app_controller.go:719-720` "after user deletes the App and before the App's finalizer get removed" | an uninstall starts from a copy of an App that is gone |

Seen while modelling, and behaviours of the model that no run asks about:

- `current_attempt` moves only when the verdict has been written (`jobwatcher_types.go:59` "This will get bumped
  after every job check cycle"), so `max_retries` ends nothing: a Job that hangs is checked forever.
- After an update during an installation the first Job's verdict may be written last, and is then the status of the
  App (`app_types.go:88` "The last Job's status").
- A JobWatcher that is not collected yet finds the App that has the name by then, and adds its Job to that App's
  (`app_types.go:94` "Map of all Jobs that were executed for this App").
- Two goroutines may watch one name ("Each installed App will have an update watcher",
  `app_controller.go:598-599`): the App is deleted and installed again within one sleep of the first.
- A key may have two entries: its template has two variables, or it is the key of a
  template and of the plan. Both are kept.
- With an App cache that lags, a name used three times and a second uninstall from an old copy, a
  stage may write into an App that has not come so far: its worker still holds the App before. This is
  what `CopiesLag` of the ledger stands for, and why the strict one needs an App cache that follows.
- A namespace may outlive its App (`app_controller.go:719-721`): a running install Job
  creates it after the uninstall has looked for it.

## The proofs

The theorems hold for every set of applications, every marketplace (cycles included), every
choice of lagging caches and every value of the bounds, under the hypotheses of the last column.

| module | theorem | statement | hypotheses |
|---|---|---|---|
| `KubemartProofs` | `InvariantHolds` | `Spec => []IInv` | |
| | `TypeCorrect` | `Spec => []TypeOK` | |
| | `DependenciesComeFirst` | `Spec => []DependenciesFirst` | no error pages |
| | `RecordIsTruthful` | `Spec => []TruthfulRecord` | |
| | `NewsIsNews` | `Spec => []AnnouncedDiffers` | |
| | `OneUninstallerAtATime` | `Spec => []OneUninstaller` | |
| `HistoryProofs` | `CopiesAreCoherent` | a copy with the stored revision is the stored App | |
| | `ConfigurationsAreKept` | `Spec => ConfigurationsKept` | |
| `UpdateProofs` | `UpdatesAreCleared` | `Spec => UpdateIsCleared` | `MaxFaults = 0` |
| `NamespaceProofs` | `LiveNamespacesAreKept` | `Spec => LiveNamespaceKept` | `"App" \notin Lagging` |
| `ReconciledProofs` | `ReconciledIsTrue` | `Spec => []ReconciledIsRecorded` | |
| | `InstallsAreAttended` | `Spec => InstallAttended` | |
| `LedgerProofs` | `LedgerIsImplemented` | `Spec => LedgerSpec` | |
| | `StrictLedgerIsImplemented` | `Spec => StrictLedgerSpec` | `MaxFaults = 0`, `"App" \notin Lagging` |
| `GoroutineProofs` | `RegisteredAreWatched` | `Spec => []RegisteredIsWatched` | `AllFollowed`, `"App" \notin Lagging` |
| | `NamesAreStrandedByErrors` | `Spec => StrandedByErrors` | |
| `ResolutionProofs` | `AllAreResolved` | `Spec => []ResolvesAll` | |
| | `DirectAreResolved` | `Spec => []ResolvesDirect` | |
| | `EachOnce` | `Spec => []NoDuplicates` | |
| | `StackIsEnough` | `Spec => []StackSuffices` | |

The hypotheses are needed. With an error page the install stage sees no dependencies.
With a failing call `update_lost` refutes `UpdateIsCleared`, and with an App cache that lags
`live_namespace_deleted` refutes `LiveNamespaceKept`. Of the strict ledger, a lost update is no step, and for
the lag see "Seen while modelling" above. Where the App cache lags, a second uninstall
that starts from a copy of an App which is gone takes the finalizer of the App that has the name by then;
when that one is deleted it is gone at once, while its name is registered, and its goroutine ends (a name
used and deleted twice; `reinstalls` deletes once). `AllFollowed` says
that the model leaves out no goroutine: `MaxThreads >= Cardinality(Apps) + MaxJobs + MaxFaults`.

Apart from these, the proofs assume what the modules declare of their constants, which TLC
evaluates in every run: `DependenciesAssumption`, `NamespacedAssumption`, `VersionAssumption`,
`ConfigurationAssumption`, `PlansAssumption`, `ErrorPagesAssumption` (`Manifests`), `InputsAssumption`,
`BoundsAssumption` (`KubeApi`), `ProcessBoundsAssumption` (`OperatorProcess`), `RetriesAssumption`
(`JobWatcherController`), `CataloguesAssumption`, `DepthAssumption` and `PagesAssumption`
(`DependencyResolution`).

### The inductive invariant

None of the safety properties is inductive. What is missing is that the *copies* are
trustworthy too: the cache, and the App in the hands of a worker. `Sound(js, app, a)`
says that what an App claims is backed by the Jobs `js`: installed because some
install Job of it is complete, each entry an install Job of it, each verdict that Job's
end. `IInv` asks `Sound` of the stored Apps (`AppsOK`), of the cache (`CacheOK`) and of
the worker's copy (`WorkerOK`); that a worker about to record a Job has created that Job;
that a JobWatcher, cached or stored, belongs to an install Job; and that a running uninstall has its name in
`terminatingApps`. Two facts carry the argument:

1. Jobs only come and end (`JobsEvolve`), so what was sound stays sound however old the
   copy is (`SoundEvolves`, `EvolveFrames`). This is why no lag of a cache can break
   the properties, and why no reasoning about resource versions is needed for them.
2. A write is an edit of a sound copy (`SoundEdits`, `UpdateAppOK`); the only edits that add
   claims are the verdict, made when the Job has ended that way, and the entry of a Job just
   created.

There is one lemma for each action, and `Inductive` puts them together.

### Copies and revisions

The properties about an earlier and a later state do need the resource versions. Each of the modules
adds an invariant of its own to `IInv`.

- `HistoryProofs`: a copy with the revision of the stored App is the stored App, because every change
  makes a new revision and revisions never go back. So every write that the server accepts is an
  `Edit` of what is stored, and none of the edits touches an entry under a key that has one.
- `UpdateProofs`: between its two writes the worker holds the copy that the first returned, or
  else the one it read, which was stale then. A stale copy stays stale, so when the
  second write is accepted the first was, and nothing came in between.
- `NamespaceProofs`: an App that is being uninstalled is deleting, and its finalizer keeps it
  until the goroutine that deletes the namespace removes it; only the same goroutine comes after that.
- `ReconciledProofs`: a JobWatcher is marked only after its App had the verdict. The verdict stays since the only
  write that would set the entry back is the one that records the Job, and a Job that is still to be
  recorded has no JobWatcher. Apps of one name are told apart by their uids.
  From the same facts, an installation stays attended: the JobWatcher that reports on it is marked only
  after the App has the verdict of its Job, which is no longer `installation_started`; it is collected only
  when the App of its uid is gone; and when the worker writes that status, it goes on to create the JobWatcher. What remains is
  the Create itself, which can be refused only by chance, since no JobWatcher of a Job comes before.
- `LedgerProofs`: a worker between two writes is at an App whose stored status allows the next
  one, or its copy is stale and the write is refused. The invariant has three parts: the Job to be recorded has
  no entry (always), the copy of an update that goes on was cleared (without failing calls), and a stage is at an
  App that has been prepared (where the App cache follows); the ledger asks for the last two
  exactly where they hold. With that there is one lemma for each writer, which shows it as
  a step of `AppLedger`; everything else leaves the record alone and is a stutter.
- `GoroutineProofs`: a registered App has its finalizer and is not being uninstalled, and stays so until
  the deletion branch takes its name out of the map; so its goroutine never finds it gone and never ends.
  That there is room for it is an argument by counting: the goroutines are at most as many as the
  registered names, the uninstall Jobs, of which each deregistration creates one, and the failing
  calls, of which each may take a Job's place. For `terminatingApps` nothing but
  `IInv` is needed: an uninstall that starts has its goroutine, a goroutine that takes a step releases its name,
  goes on or meets one of the errors, and its Job stays that of the same application.
- `ResolutionProofs`: whatever is below a visited application has been visited, or is below an entry that
  some call on the stack has still to take. When the stack is empty, what was visited is closed under
  dependencies, and is `Reach(root)`. For the depth: given any arrangement of the applications in
  layers, what the call at depth `i` has still to take lies at least `i` layers below the root.

### What is only model-checked

Every invariant and every action property of the passing runs has a theorem. What has none:

- Everything under fairness, which the prover does not handle: `JobWatcherReports`, `VersionRecorded`,
  `InstallSettles`, `QuietUpdatesRun`, `DeletionSettles`, `EndsWithoutCycles`. `InstallAttended`, `StrandedByErrors` and
  `StackSuffices` are the safety half of three of them: that whoever must act is still there.
- Properties in instances beyond the hypotheses of their theorems: `UpdateIsCleared` needs only that no call
  fails, but `StrictLedgerSpec` holds in `updates` with an App cache that lags, and not in general.
- That `ResolveDependencies` of `AppController` takes in one step what `DependencyResolution` takes turn by
  turn: `AllAreResolved` and `DirectAreResolved` are the two facts it rests on, but the two modules are not
  composed.

## Not modelled

- The generated clients, informers and listers (`pkg/client`): the operator does not use them.
- Deep copies, deployment files and build files: no behaviour of their own. Tests are read as
  statements about the program.
- An App whose `metadata.name` differs from its `spec.name`: neither the CLI nor the dependency stage makes
  one. The install stage and `IsAppAlreadyCreated` look for different names then, and the App would
  wait forever for a dependency that exists.
- The removal of Jobs 24 hours after their end, leader election (off by default), and a download that never returns.
- What a data race may leave of a Go map, other than the fatal error that is a crash here.
- Events, log lines, and the time that the wait for a namespace takes of a processor.
