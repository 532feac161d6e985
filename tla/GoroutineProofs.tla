---------------------------- MODULE GoroutineProofs ----------------------------
(***************************************************************************)
(* The two global maps of the App controller and the goroutines behind     *)
(* their keys, proved for every catalogue, any number of crashes and names *)
(* used again; for updateWatcher, when the cache of the Apps does not lag. *)
(* The argument for updateWatcher: a registered App is kept by its         *)
(* finalizer as long as it is registered, so that its goroutine never      *)
(* finds it gone.  The model follows at most MaxThreads goroutines; each   *)
(* deregistration leaves one behind for a while, and counting them shows   *)
(* how many there may be.                                                  *)
(***************************************************************************)
EXTENDS LedgerProofs, FiniteSetTheorems

Busy == {t \in ThreadIds : updateThreads[t].step # "free"}
UninstallJobs == {j \in JobIds : jobs[j].kind = "uninstall"}

RegisteredSafe == \A a \in updateWatcher : Safe(a)

Watched(a) == \E t \in Busy : updateThreads[t].app = a

\* A goroutine is that of a registered name or of one that was deregistered, for which an
\* uninstall Job was created, or failed to be.
FewThreads == Cardinality(Busy) <= Cardinality(updateWatcher) + Cardinality(UninstallJobs) + faults

GoroutinesOK == RegisteredSafe /\ (\A a \in updateWatcher : Watched(a)) /\ FewThreads

-----------------------------------------------------------------------------
\* How the map and the goroutines change.
Registers(a) == Finish(a) /\ a \notin updateWatcher /\ RegisterUpdateWatcher(a)

LEMMA GoroutinesMove ==
  ASSUME IInv, [Next]_vars
  PROVE  \/ UNCHANGED <<updateWatcher, updateThreads>>
         \/ Restarted
         \/ \E a \in Apps : Uninstall(a) \/ Registers(a)
         \/ \E t \in ThreadIds : WakeUp(t) \/ CheckUpdate(t)
<1> DEFINE same == UNCHANGED <<updateWatcher, updateThreads>>
<1>1. CASE External \/ Sync
  BY <1>1
     DEF External, Sync, UserCreates, UserUpdates, UserDeletes, Publish, NamespaceFinalized,
         JobCreatesNamespace, JobEnds, CollectJob, CollectWatcher, SyncApp, SyncNamespace,
         SyncWatcher, processVars
<1>2. CASE ReconcileApp
  <2>1. ASSUME NEW a \in Apps,
               \/ AddFinalizer(a) \/ ClearStatus(a) \/ RestoreAction(a) \/ PreInstall(a)
               \/ ResolveDependencies(a) \/ CreateDependency(a) \/ StartDependencies(a)
               \/ LaunchJob(a) \/ RecordJob(a) \/ WatchJob(a)
        PROVE  same
    BY <2>1 DEF AddFinalizer, ClearStatus, RestoreAction, PreInstall, ResolveDependencies,
                CreateDependency, StartDependencies, LaunchJob, RecordJob, WatchJob, WritesApps,
                restOfProcess
  <2>2. ASSUME NEW a \in Apps, PanicInPreInstall(a) \/ PanicInDependencies(a)
        PROVE  Restarted
    BY <2>2 DEF PanicInPreInstall, PanicInDependencies
  <2>3. ASSUME NEW a \in Apps, Finish(a)
        PROVE  same \/ Registers(a)
    BY <2>3 DEF Finish, Registers, RegisterUpdateWatcher
  <2> QED BY <1>2, <2>1, <2>2, <2>3 DEF ReconcileApp, ReconcileAppOf
<1>3. CASE ReconcileJobWatcher
  BY <1>3 DEF ReconcileJobWatcher, CheckRunningJob, ReportVerdict, PanicOnNilMap, MarkReconciled,
              restOfSystem
<1>4. CASE WatchForNewUpdate
  BY <1>4 DEF WatchForNewUpdate
<1>5. CASE ProcessAppNamespaceDeletion
  BY <1>5 DEF ProcessAppNamespaceDeletion, UninstallerOf, StopWaiting, DeleteNamespace,
              AwaitNamespace, RemoveFinalizer, Release, restOfUninstall
<1>6. CASE Crash \/ UNCHANGED vars
  BY <1>6 DEF Crash, vars, processVars
<1> QED BY <1>1, <1>2, <1>3, <1>4, <1>5, <1>6 DEF Next

\* A registered App stays as it must be for its goroutine.
LEMMA RegisteredStaysSafe ==
  ASSUME IInv, CopiesOK, NamespaceOK, StagedOK, RegisteredSafe, [Next]_vars
  PROVE  RegisteredSafe'
<1> SUFFICES ASSUME NEW a \in Apps, a \in updateWatcher'
             PROVE  Safe(a)'
  <2>1. updateWatcher' \subseteq Apps
    BY Inductive DEF IInv, ThreadsOK
  <2> QED BY <2>1 DEF RegisteredSafe
<1>1. ~Uninstall(a)
  BY DEF Uninstall, Deregistered
<1>2. Safe(a)
  <2>1. CASE a \in updateWatcher
    BY <2>1 DEF RegisteredSafe
  <2>2. CASE a \notin updateWatcher
    <3>1. Registers(a)
      <4>1. \A b \in Apps : Registers(b) => updateWatcher' = updateWatcher \cup {b}
        BY DEF Registers, RegisterUpdateWatcher
      <4>2. \A b \in Apps : Uninstall(b) => updateWatcher' \subseteq updateWatcher
        BY DEF Uninstall, Deregistered
      <4>3. \A t \in ThreadIds : WakeUp(t) \/ CheckUpdate(t) => UNCHANGED updateWatcher
        BY DEF WakeUp, CheckUpdate, restOfThreads
      <4>4. Restarted => updateWatcher' = {}
        BY DEF Restarted
      <4> QED BY <2>2, <4>1, <4>2, <4>3, <4>4, GoroutinesMove
    <3> QED BY <3>1, BeginsSafe DEF Registers, Finish, Installs
  <2> QED BY <2>1, <2>2
<1> QED BY <1>1, <1>2, SafeStays

-----------------------------------------------------------------------------
(***************************************************************************)
(* Counting the goroutines.                                                *)
(***************************************************************************)
\* All goroutines are followed.
AllFollowed ==
  IsFiniteSet(Apps) /\ MaxThreads >= Cardinality(Apps) + MaxJobs + MaxFaults

LEMMA Finite ==
  ASSUME IInv, AllFollowed
  PROVE  /\ IsFiniteSet(Busy) /\ Cardinality(Busy) \in Nat
         /\ IsFiniteSet(updateWatcher) /\ Cardinality(updateWatcher) \in Nat
         /\ IsFiniteSet(UninstallJobs) /\ Cardinality(UninstallJobs) \in Nat
         /\ Cardinality(UninstallJobs) <= MaxJobs
         /\ IsFiniteSet(ThreadIds) /\ Cardinality(ThreadIds) = MaxThreads
         /\ faults \in Nat /\ faults <= MaxFaults
<1>1. IsFiniteSet(ThreadIds) /\ Cardinality(ThreadIds) = MaxThreads
  BY BoundsTypes, FS_Interval DEF ThreadIds
<1>2. IsFiniteSet(JobIds) /\ Cardinality(JobIds) = MaxJobs
  BY BoundsTypes, FS_Interval DEF JobIds
<1>3. IsFiniteSet(Busy)
  BY <1>1, FS_Subset DEF Busy
<1>4. IsFiniteSet(updateWatcher)
  BY FS_Subset DEF AllFollowed, IInv, ThreadsOK
<1>5. IsFiniteSet(UninstallJobs) /\ Cardinality(UninstallJobs) <= MaxJobs
  BY <1>2, FS_Subset DEF UninstallJobs
<1> QED BY <1>1, <1>3, <1>4, <1>5, FS_CardinalityType, BoundsTypes DEF IInv, CountersOK

\* A set of goroutines that is not empty has a first one.
LEMMA FirstThread ==
  ASSUME NEW free \in SUBSET ThreadIds, free # {}
  PROVE  \E t \in free : \A s \in 1..(t - 1) : s \notin free
<1> DEFINE upto == {1..t : t \in free}
           sets == FiniteSubsetsOf(ThreadIds)
           less == StrictSubsetOrdering(ThreadIds)
<1>1. \A t \in ThreadIds : t \in Nat /\ t >= 1 /\ 1..t \subseteq ThreadIds /\ IsFiniteSet(1..t)
  BY BoundsTypes, FS_Interval DEF ThreadIds
<1>2. upto \subseteq sets /\ upto # {}
  BY <1>1 DEF FiniteSubsetsOf
<1>3. IsWellFoundedOn(less, sets)
  BY FS_StrictSubsetOrderingWellFounded
<1> HIDE DEF less, sets, upto
<1>4. PICK x \in upto : \A y \in upto : <<y, x>> \notin less
  BY <1>2, <1>3, WFMin
<1>5. PICK t \in free : x = 1..t
  BY DEF upto
<1>6. ASSUME NEW s \in 1..(t - 1), s \in free
      PROVE  FALSE
  <2>1. 1..s \subseteq 1..t /\ t \in 1..t /\ t \notin 1..s
    BY <1>1, <1>6
  <2>2. 1..s \in upto /\ 1..s \in SUBSET ThreadIds /\ 1..t \in SUBSET ThreadIds
    BY <1>1, <1>6 DEF upto
  <2>3. <<1..s, 1..t>> \in less
    BY <2>1, <2>2 DEF less, StrictSubsetOrdering
  <2> QED BY <1>4, <1>5, <2>2, <2>3
<1> QED BY <1>6

\* Failing calls are only counted up.
LEMMA FaultsGrow ==
  ASSUME IInv, [Next]_vars
  PROVE  faults' \in Nat /\ faults' >= faults
<1>1. faults \in Nat
  BY BoundsTypes DEF IInv, CountersOK
<1> DEFINE grows == UNCHANGED faults \/ Fault
<1>2. grows => faults' \in Nat /\ faults' >= faults
  BY <1>1 DEF Fault
<1>3. /\ \A a, copy, new, ok : UpdateApp(a, copy, new, ok) => grows
      /\ \A a, plan, ok : CreateApp(a, plan, ok) => grows
      /\ \A j, job, a, owner, ok : CreateJob(j, job, a, owner, ok) => grows
      /\ \A j, owner, ok : CreateJobWatcher(j, owner, ok) => grows
      /\ \A j, copy, new, ok : UpdateWatcher(j, copy, new, ok) => grows
      /\ \A a, ok : RemoveNamespace(a, ok) => grows
  BY DEF UpdateApp, CreateApp, CreateJob, CreateJobWatcher, UpdateWatcher, RemoveNamespace
<1> HIDE DEF grows
<1>same. UNCHANGED faults \/ Fault => grows
  BY DEF grows
<1>4. CASE External \/ Sync
  BY <1>2, <1>4, <1>same
     DEF External, Sync, UserCreates, UserUpdates, UserDeletes, Publish, NamespaceFinalized,
         JobCreatesNamespace, JobEnds, CollectJob, CollectWatcher, SyncApp, SyncNamespace, SyncWatcher
<1>5. ASSUME NEW a \in Apps, ReconcileAppOf(a)
      PROVE  grows
  <2>1. CASE AddFinalizer(a) \/ ClearStatus(a) \/ RestoreAction(a) \/ RecordJob(a) \/ StartDependencies(a)
    BY <1>3, <1>same, <2>1 DEF AddFinalizer, ClearStatus, RestoreAction, RecordJob, StartDependencies
  <2>2. CASE Uninstall(a) \/ LaunchJob(a) \/ WatchJob(a)
    BY <1>3, <1>same, <2>2 DEF Uninstall, LaunchJob, WatchJob
  <2>3. CASE PreInstall(a) \/ CreateDependency(a) \/ Finish(a)
    BY <1>3, <1>same, <2>3 DEF PreInstall, CreateDependency, Finish
  <2>4. CASE ResolveDependencies(a) \/ PanicInPreInstall(a) \/ PanicInDependencies(a)
    BY <1>same, <2>4 DEF ResolveDependencies, PanicInPreInstall, PanicInDependencies, Restarted
  <2> QED BY <1>5, <2>1, <2>2, <2>3, <2>4 DEF ReconcileAppOf
<1>6. CASE ReconcileJobWatcher
  BY <1>2, <1>3, <1>same, <1>6
     DEF ReconcileJobWatcher, CheckRunningJob, ReportVerdict, PanicOnNilMap, MarkReconciled, Restarted
<1>7. CASE WatchForNewUpdate
  BY <1>2, <1>3, <1>same, <1>7 DEF WatchForNewUpdate, WakeUp, CheckUpdate
<1>8. CASE ProcessAppNamespaceDeletion
  BY <1>2, <1>3, <1>same, <1>8
     DEF ProcessAppNamespaceDeletion, UninstallerOf, StopWaiting, DeleteNamespace, AwaitNamespace,
         RemoveFinalizer, Release
<1>9. CASE Crash \/ UNCHANGED vars
  BY <1>2, <1>same, <1>9 DEF Crash, Restarted, vars, apiVars
<1> QED BY <1>2, <1>4, <1>5, <1>6, <1>7, <1>8, <1>9 DEF Next, ReconcileApp

\* So are the uninstall Jobs.
LEMMA UninstallJobsGrow ==
  ASSUME IInv, [Next]_vars
  PROVE  UninstallJobs \subseteq UninstallJobs'
BY JobsMove DEF JobsKept, UninstallJobs

\* Each deregistration is one of the two.
LEMMA UninstallCounts ==
  ASSUME IInv, AllFollowed, [Next]_vars, NEW a \in Apps, Uninstall(a)
  PROVE  Cardinality(UninstallJobs') + faults' >= Cardinality(UninstallJobs) + faults + 1
<1>1. UninstallJobs \subseteq UninstallJobs' /\ faults' >= faults
  BY UninstallJobsGrow, FaultsGrow
<1>2. /\ IsFiniteSet(UninstallJobs) /\ Cardinality(UninstallJobs) \in Nat /\ faults \in Nat
  BY Finite
<1>3. /\ IsFiniteSet(UninstallJobs') /\ Cardinality(UninstallJobs') \in Nat /\ faults' \in Nat
      /\ Cardinality(UninstallJobs) <= Cardinality(UninstallJobs')
  <2>1. IsFiniteSet(JobIds)
    BY BoundsTypes, FS_Interval DEF JobIds
  <2>2. IsFiniteSet(UninstallJobs')
    BY <2>1, FS_Subset DEF UninstallJobs
  <2>3. Cardinality(UninstallJobs) <= Cardinality(UninstallJobs')
    BY <1>1, <2>2, FS_Subset
  <2> QED BY <2>2, <2>3, FS_CardinalityType, FaultsGrow
<1>4. PICK j \in JobIds, ok \in BOOLEAN : CreateJob(j, "uninstall", a, cache[a], ok)
  BY DEF Uninstall
<1>5. CASE ok
  <2>1. j \in UninstallJobs' /\ j \notin UninstallJobs
    <3>1. jobs[j].kind = "none"
      BY <1>4 DEF CreateJob, NextJob
    <3>2. jobs' = [jobs EXCEPT ![j] = [kind |-> "uninstall", app |-> a, uid |-> cache[a].uid,
                                       state |-> "running", exists |-> TRUE]]
      BY <1>4, <1>5 DEF CreateJob
    <3>3. jobs'[j].kind = "uninstall"
      BY <3>2 DEF IInv, JobsOK
    <3> QED BY <3>1, <3>3 DEF UninstallJobs
  <2>2. Cardinality(UninstallJobs) # Cardinality(UninstallJobs')
    BY <1>1, <1>3, <2>1, FS_Subset
  <2> QED BY <1>1, <1>2, <1>3, <2>2
<1>6. CASE ~ok
  BY <1>1, <1>2, <1>3, <1>4, <1>6 DEF CreateJob, Fault
<1> QED BY <1>5, <1>6

\* There is a free goroutine for a name that is not registered yet.
LEMMA FreeThreadExists ==
  ASSUME IInv, AllFollowed, FewThreads, NEW a \in Apps, a \notin updateWatcher
  PROVE  \E t \in ThreadIds : FreeThread(t)
<1> DEFINE free == {t \in ThreadIds : updateThreads[t].step = "free"}
<1>1. Cardinality(updateWatcher) + 1 <= Cardinality(Apps)
  <2>1. updateWatcher \subseteq Apps /\ updateWatcher # Apps /\ IsFiniteSet(Apps)
    BY DEF IInv, ThreadsOK, AllFollowed
  <2>2. /\ Cardinality(updateWatcher) <= Cardinality(Apps)
        /\ Cardinality(Apps) # Cardinality(updateWatcher)
    BY <2>1, FS_Subset
  <2> QED BY <2>1, <2>2, Finite, FS_CardinalityType
<1>2. Cardinality(Busy) < MaxThreads
  <2>1. MaxThreads >= Cardinality(Apps) + MaxJobs + MaxFaults /\ Cardinality(Apps) \in Nat
    BY FS_CardinalityType DEF AllFollowed
  <2> QED BY <1>1, <2>1, Finite, BoundsTypes DEF FewThreads
<1>3. Busy # ThreadIds
  BY <1>2, Finite, BoundsTypes
<1>4. free # {}
  BY <1>3 DEF Busy
<1>5. PICK t \in free : \A s \in 1..(t - 1) : s \notin free
  BY <1>4, FirstThread
<1>6. \A s \in 1..(t - 1) : s \in ThreadIds
  BY <1>5, BoundsTypes DEF ThreadIds
<1> QED BY <1>5, <1>6 DEF FreeThread

\* A name that is registered gets the free goroutine that comes first, and no other is touched.
LEMMA StartsThread ==
  ASSUME IInv, AllFollowed, FewThreads, NEW a \in Apps, Registers(a)
  PROVE  /\ updateWatcher' = updateWatcher \cup {a}
         /\ \E t \in ThreadIds \ Busy :
              /\ updateThreads'[t].step # "free" /\ updateThreads'[t].app = a
              /\ \A s \in ThreadIds \ {t} : updateThreads'[s] = updateThreads[s]
<1>1. a \notin updateWatcher /\ updateWatcher' = updateWatcher \cup {a} /\ StartThread(a)
  BY DEF Registers, RegisterUpdateWatcher
<1>2. PICK t \in ThreadIds : FreeThread(t)
  BY <1>1, FreeThreadExists
<1>3. \A s \in ThreadIds \ {t} : ~FreeThread(s)
  <2> SUFFICES ASSUME NEW s \in ThreadIds \ {t}, FreeThread(s)
               PROVE  FALSE
    OBVIOUS
  <2>1. s \in 1..(t - 1) \/ t \in 1..(s - 1)
    BY BoundsTypes DEF ThreadIds
  <2> QED BY <1>2, <2>1 DEF FreeThread
<1>4. updateThreads'[t] = [NoThread EXCEPT !.step = "asleep", !.app = a]
  BY <1>1, <1>2 DEF StartThread
<1>5. \A s \in ThreadIds \ {t} : updateThreads'[s] = updateThreads[s]
  BY <1>1, <1>3 DEF StartThread
<1>6. updateThreads'[t].step # "free" /\ updateThreads'[t].app = a
  BY <1>4 DEF NoThread
<1>7. t \notin Busy
  BY <1>2 DEF FreeThread, Busy
<1> QED BY <1>1, <1>5, <1>6, <1>7

\* A goroutine that goes on keeps its name, as long as this is registered and its App is there.
LEMMA ThreadGoesOn ==
  ASSUME IInv, NEW t \in ThreadIds, WakeUp(t) \/ CheckUpdate(t)
  PROVE  /\ UNCHANGED updateWatcher
         /\ \A s \in ThreadIds \ {t} : updateThreads'[s] = updateThreads[s]
         /\ t \in Busy
         /\ updateThreads[t].app \in updateWatcher /\ cache[updateThreads[t].app].exists =>
              updateThreads'[t].step # "free" /\ updateThreads'[t].app = updateThreads[t].app
<1> DEFINE a == updateThreads[t].app
<1>1. updateThreads \in [ThreadIds -> Threads]
  BY DEF IInv, ThreadsOK
<1>2. UNCHANGED updateWatcher
  BY DEF WakeUp, CheckUpdate, restOfThreads
<1>3. \A s \in ThreadIds \ {t} : updateThreads'[s] = updateThreads[s]
  BY <1>1 DEF WakeUp, CheckUpdate
<1>4. t \in Busy
  BY DEF WakeUp, CheckUpdate, Busy
<1>5. ASSUME a \in updateWatcher, cache[a].exists
      PROVE  updateThreads'[t].step # "free" /\ updateThreads'[t].app = a
  <2>1. CASE WakeUp(t)
    <3>1. updateThreads'[t] = [updateThreads[t] EXCEPT !.step = "checking", !.seen = published[a]]
      BY <1>1, <1>5, <2>1 DEF WakeUp
    <3>2. updateThreads[t] \in [step: {"asleep", "checking"}, app: Apps, seen: 0..MaxVersion]
      BY <1>1, <2>1 DEF WakeUp, Threads, NoThread
    <3> QED BY <3>1, <3>2
  <2>2. CASE CheckUpdate(t)
    <3>1. updateThreads'[t] = [NoThread EXCEPT !.step = "asleep", !.app = a]
      BY <1>1, <1>5, <2>2 DEF CheckUpdate
    <3> QED BY <3>1 DEF NoThread
  <2> QED BY <2>1, <2>2
<1> QED BY <1>2, <1>3, <1>4, <1>5

\* Every registered name keeps a goroutine.
LEMMA WatchedStays ==
  ASSUME IInv, NamespaceOK, GoroutinesOK, AllFollowed, [Next]_vars, NEW a \in updateWatcher'
  PROVE  Watched(a)'
<1>1. ASSUME NEW t \in ThreadIds, updateThreads'[t].step # "free", updateThreads'[t].app = a
      PROVE  Watched(a)'
  BY <1>1 DEF Watched, Busy
<1>2. CASE UNCHANGED <<updateWatcher, updateThreads>>
  BY <1>2 DEF GoroutinesOK, Watched, Busy
<1>3. CASE Restarted
  BY <1>3 DEF Restarted
<1>4. ASSUME NEW b \in Apps, Uninstall(b)
      PROVE  Watched(a)'
  <2>1. a \in updateWatcher /\ UNCHANGED updateThreads
    BY <1>4 DEF Uninstall, Deregistered
  <2> QED BY <2>1 DEF GoroutinesOK, Watched, Busy
<1>5. ASSUME NEW b \in Apps, Registers(b)
      PROVE  Watched(a)'
  <2>1. PICK t \in ThreadIds \ Busy :
          /\ updateThreads'[t].step # "free" /\ updateThreads'[t].app = b
          /\ \A s \in ThreadIds \ {t} : updateThreads'[s] = updateThreads[s]
    BY <1>5, StartsThread DEF GoroutinesOK
  <2>2. CASE a = b
    BY <1>1, <2>1, <2>2
  <2>3. CASE a # b
    <3>1. a \in updateWatcher
      BY <1>5, <2>3, StartsThread DEF GoroutinesOK
    <3>2. PICK s \in Busy : updateThreads[s].app = a
      BY <3>1 DEF GoroutinesOK, Watched
    <3>3. s \in ThreadIds \ {t} /\ updateThreads[s].step # "free"
      BY <2>1, <3>2 DEF Busy
    <3> QED BY <1>1, <2>1, <3>2, <3>3
  <2> QED BY <2>2, <2>3
<1>6. ASSUME NEW t \in ThreadIds, WakeUp(t) \/ CheckUpdate(t)
      PROVE  Watched(a)'
  <2>1. a \in updateWatcher
    BY <1>6, ThreadGoesOn
  <2>2. PICK s \in Busy : updateThreads[s].app = a
    BY <2>1 DEF GoroutinesOK, Watched
  <2>3. cache[a].exists
    BY <2>1 DEF GoroutinesOK, RegisteredSafe, Safe, NamespaceOK, CacheFollows
  <2>4. s \in ThreadIds /\ updateThreads[s].step # "free"
    BY <2>2 DEF Busy
  <2>5. updateThreads'[s].step # "free" /\ updateThreads'[s].app = a
    BY <1>6, <2>1, <2>2, <2>3, <2>4, ThreadGoesOn
  <2> QED BY <1>1, <2>4, <2>5
<1> QED BY <1>2, <1>3, <1>4, <1>5, <1>6, GoroutinesMove

\* The count is kept.
LEMMA FewThreadsStay ==
  ASSUME IInv, GoroutinesOK, AllFollowed, [Next]_vars
  PROVE  FewThreads'
<1> DEFINE n == Cardinality(UninstallJobs)
           m == Cardinality(updateWatcher)
           b == Cardinality(Busy)
<1>1. /\ IsFiniteSet(Busy) /\ IsFiniteSet(updateWatcher) /\ n \in Nat /\ m \in Nat /\ b \in Nat
      /\ faults \in Nat /\ IsFiniteSet(ThreadIds)
  BY Finite
<1>2. n' \in Nat /\ m' \in Nat /\ b' \in Nat /\ faults' \in Nat /\ IsFiniteSet(Busy')
  <2>1. IInv'
    BY Inductive
  <2>2. IsFiniteSet(Busy') /\ IsFiniteSet(updateWatcher') /\ IsFiniteSet(UninstallJobs')
    <3>1. IsFiniteSet(JobIds)
      BY BoundsTypes, FS_Interval DEF JobIds
    <3>2. Busy' \subseteq ThreadIds /\ updateWatcher' \subseteq Apps /\ UninstallJobs' \subseteq JobIds
      BY <2>1 DEF Busy, UninstallJobs, IInv, ThreadsOK
    <3> QED BY <1>1, <3>1, <3>2, FS_Subset DEF AllFollowed
  <2> QED BY <2>2, FS_CardinalityType, FaultsGrow
<1>3. n <= n' /\ faults <= faults'
  <2>1. IsFiniteSet(UninstallJobs')
    <3>1. IsFiniteSet(JobIds)
      BY BoundsTypes, FS_Interval DEF JobIds
    <3>2. UninstallJobs' \in SUBSET JobIds
      BY DEF UninstallJobs
    <3> QED BY <3>1, <3>2, FS_Subset
  <2> QED BY <2>1, UninstallJobsGrow, FaultsGrow, FS_Subset
<1>4. b <= m + n + faults
  BY DEF GoroutinesOK, FewThreads
<1>5. FewThreads' <=> b' <= m' + n' + faults'
  BY DEF FewThreads
<1>6. CASE UNCHANGED <<updateWatcher, updateThreads>>
  <2>1. b' = b /\ m' = m
    BY <1>6 DEF Busy
  <2> QED BY <1>1, <1>2, <1>3, <1>4, <1>5, <2>1
<1>7. CASE Restarted
  <2>1. Busy' = {}
    BY <1>7 DEF Restarted, Busy, NoThread
  <2>2. b' = 0
    BY <2>1, FS_EmptySet
  <2> QED BY <1>2, <1>5, <2>2
<1>8. ASSUME NEW a \in Apps, Uninstall(a)
      PROVE  FewThreads'
  <2>1. Busy' = Busy /\ updateWatcher' = updateWatcher \ {a}
    BY <1>8 DEF Uninstall, Deregistered, Busy
  <2>2. b' = b /\ m' >= m - 1
    <3>1. Cardinality(updateWatcher \ {a}) \in {m, m - 1}
      BY <1>1, FS_RemoveElement
    <3> QED BY <1>1, <2>1, <3>1
  <2>3. n' + faults' >= n + faults + 1
    BY <1>8, UninstallCounts
  <2> QED BY <1>1, <1>2, <1>4, <1>5, <2>2, <2>3
<1>9. ASSUME NEW a \in Apps, Registers(a)
      PROVE  FewThreads'
  <2>1. PICK t \in ThreadIds \ Busy : \A s \in ThreadIds \ {t} : updateThreads'[s] = updateThreads[s]
    BY <1>9, StartsThread DEF GoroutinesOK
  <2>2. updateWatcher' = updateWatcher \cup {a} /\ a \notin updateWatcher
    BY <1>9 DEF Registers, RegisterUpdateWatcher
  <2>3. m' = m + 1
    BY <1>1, <2>2, FS_AddElement
  <2>4. b' <= b + 1
    <3>1. Busy' \in SUBSET (Busy \cup {t})
      BY <2>1 DEF Busy
    <3>2. IsFiniteSet(Busy \cup {t}) /\ Cardinality(Busy \cup {t}) = b + 1
      BY <1>1, <2>1, FS_AddElement
    <3> QED BY <3>1, <3>2, FS_Subset
  <2> QED BY <1>1, <1>2, <1>3, <1>4, <1>5, <2>3, <2>4
<1>10. ASSUME NEW t \in ThreadIds, WakeUp(t) \/ CheckUpdate(t)
       PROVE  FewThreads'
  <2>1. Busy' \in SUBSET Busy /\ m' = m
    BY <1>10, ThreadGoesOn DEF Busy
  <2>2. b' <= b
    BY <1>1, <2>1, FS_Subset
  <2> QED BY <1>1, <1>2, <1>3, <1>4, <1>5, <2>1, <2>2
<1> QED BY <1>6, <1>7, <1>8, <1>9, <1>10, GoroutinesMove

\* When the cache of the Apps follows and all goroutines are counted in, a name in the map
\* updateWatcher always has a goroutine that looks for new versions: a crash empties the
\* map, a deletion takes the name out before its App can be found gone, and a name that is
\* used again is registered again.  Otherwise an update would never be announced, as nothing
\* is started for a name that is in the map.
THEOREM RegisteredAreWatched ==
  ASSUME "App" \notin Lagging, AllFollowed
  PROVE  Spec => []RegisteredIsWatched
<1>1. Init => GoroutinesOK
  <2> SUFFICES ASSUME Init
               PROVE  GoroutinesOK
    OBVIOUS
  <2>1. updateWatcher = {} /\ faults = 0
    BY DEF Init, ApiInit, ProcessInit
  <2>2. Busy = {}
    BY DEF Init, ProcessInit, Busy, NoThread
  <2>3. Cardinality(Busy) = 0
    BY <2>2, FS_EmptySet
  <2>4. IInv
    BY InitOK
  <2> QED BY <2>1, <2>3, <2>4, Finite DEF GoroutinesOK, RegisteredSafe, FewThreads
<1>2. IInv /\ CopiesOK /\ NamespaceOK /\ StagedOK /\ GoroutinesOK /\ [Next]_vars => GoroutinesOK'
  <2> SUFFICES ASSUME IInv, CopiesOK, NamespaceOK, StagedOK, GoroutinesOK, [Next]_vars
               PROVE  GoroutinesOK'
    OBVIOUS
  <2>1. RegisteredSafe'
    BY RegisteredStaysSafe DEF GoroutinesOK
  <2>2. \A a \in updateWatcher' : Watched(a)'
    BY WatchedStays
  <2> QED BY <2>1, <2>2, FewThreadsStay DEF GoroutinesOK
<1>3. IInv /\ GoroutinesOK => RegisteredIsWatched
  BY DEF GoroutinesOK, Watched, Busy, RegisteredIsWatched
<1> QED BY <1>1, <1>2, <1>3, InvariantHolds, CopiesAreCoherent, NamespacesHold, StagedHolds, PTL
        DEF Spec

-----------------------------------------------------------------------------
(***************************************************************************)
(* The other map: a name in terminatingApps is held by the goroutine that  *)
(* will release it, and only an error leaves it behind without one.  This  *)
(* needs no hypotheses: every error exit is there.                         *)
(***************************************************************************)
Held(a) == \E j \in JobIds : Uninstalling(j) /\ jobs[j].app = a

\* How the map and the uninstalls change.
LEMMA TerminatingMoves ==
  ASSUME IInv, [Next]_vars
  PROVE  \/ UNCHANGED <<terminatingApps, uninstallers>>
         \/ Restarted
         \/ \E a \in Apps : Uninstall(a)
         \/ \E j \in JobIds : UninstallerOf(j)
<1> DEFINE same == UNCHANGED <<terminatingApps, uninstallers>>
<1>1. CASE External \/ Sync
  BY <1>1
     DEF External, Sync, UserCreates, UserUpdates, UserDeletes, Publish, NamespaceFinalized,
         JobCreatesNamespace, JobEnds, CollectJob, CollectWatcher, SyncApp, SyncNamespace,
         SyncWatcher, processVars
<1>2. CASE ReconcileApp
  <2>1. ASSUME NEW a \in Apps,
               \/ AddFinalizer(a) \/ ClearStatus(a) \/ RestoreAction(a) \/ PreInstall(a)
               \/ ResolveDependencies(a) \/ CreateDependency(a) \/ StartDependencies(a)
               \/ LaunchJob(a) \/ RecordJob(a) \/ WatchJob(a) \/ Finish(a)
        PROVE  same
    BY <2>1 DEF AddFinalizer, ClearStatus, RestoreAction, PreInstall, ResolveDependencies,
                CreateDependency, StartDependencies, LaunchJob, RecordJob, WatchJob, Finish,
                WritesApps, restOfProcess, restOfFinish
  <2>2. ASSUME NEW a \in Apps, PanicInPreInstall(a) \/ PanicInDependencies(a)
        PROVE  Restarted
    BY <2>2 DEF PanicInPreInstall, PanicInDependencies
  <2> QED BY <1>2, <2>1, <2>2 DEF ReconcileApp, ReconcileAppOf
<1>3. CASE ReconcileJobWatcher
  BY <1>3 DEF ReconcileJobWatcher, CheckRunningJob, ReportVerdict, PanicOnNilMap, MarkReconciled,
              restOfSystem
<1>4. CASE WatchForNewUpdate
  BY <1>4 DEF WatchForNewUpdate, WakeUp, CheckUpdate, restOfThreads
<1>5. CASE ProcessAppNamespaceDeletion
  BY <1>5 DEF ProcessAppNamespaceDeletion
<1>6. CASE Crash \/ UNCHANGED vars
  BY <1>6 DEF Crash, vars, processVars
<1> QED BY <1>1, <1>2, <1>3, <1>4, <1>5, <1>6 DEF Next

\* An uninstall releases its name, goes on, or meets an error.
LEMMA UninstallGoesOn ==
  ASSUME IInv, NEW j \in JobIds, UninstallerOf(j)
  PROVE  \/ terminatingApps' = terminatingApps \ {jobs[j].app}
         \/ /\ UNCHANGED terminatingApps
            /\ uninstallers'[j] # "none" \/ faults' > faults \/ Refused(j)
<1> DEFINE a == jobs[j].app
<1>1. Fault => faults' > faults
  BY DEF Fault, IInv, CountersOK
<1>2. uninstallers \in [JobIds -> UninstallSteps]
  BY DEF IInv, UninstallersOK
<1>3. \A step : GoesTo(j, step) => uninstallers'[j] = step
  BY <1>2 DEF GoesTo
<1>4. CASE StopWaiting(j) \/ AwaitNamespace(j)
  BY <1>3, <1>4 DEF StopWaiting, AwaitNamespace
<1>5. CASE DeleteNamespace(j)
  <2>1. UNCHANGED terminatingApps /\ uninstallers[j] = "namespace"
    BY <1>5 DEF DeleteNamespace
  <2>2. \/ GoesTo(j, "finalizer") \/ GoesTo(j, "await")
        \/ namespaceCache[a] /\ RemoveNamespace(a, FALSE)
    BY <1>5 DEF DeleteNamespace
  <2>3. RemoveNamespace(a, FALSE) => Fault \/ namespaces[a] = "absent"
    BY DEF RemoveNamespace
  <2> QED BY <1>1, <1>3, <2>1, <2>2, <2>3 DEF Refused
<1>6. CASE RemoveFinalizer(j)
  <2>1. UNCHANGED terminatingApps /\ uninstallers[j] = "finalizer"
    BY <1>6 DEF RemoveFinalizer
  <2>2. CASE ~cache[a].exists
    BY <2>1, <2>2 DEF Refused
  <2>3. CASE cache[a].exists
    <3>1. PICK ok \in BOOLEAN :
            /\ UpdateApp(a, cache[a], [cache[a] EXCEPT !.finalizer = FALSE], ok)
            /\ GoesTo(j, IF ok THEN "release" ELSE "none")
      BY <1>6, <2>3 DEF RemoveFinalizer
    <3>2. ok \/ Fault \/ ~Current(a, cache[a])
      BY <3>1 DEF UpdateApp
    <3> QED BY <1>1, <1>3, <2>1, <3>1, <3>2 DEF Refused
  <2> QED BY <2>2, <2>3
<1>7. CASE Release(j)
  BY <1>7 DEF Release
<1> QED BY <1>4, <1>5, <1>6, <1>7 DEF UninstallerOf

\* The uninstall that holds a name goes on holding it, if its own goroutine does.
LEMMA HeldStays ==
  ASSUME IInv, [Next]_vars, NEW a \in Apps, NEW j \in JobIds, Uninstalling(j), jobs[j].app = a,
         uninstallers'[j] # "none"
  PROVE  ~Stranded(a)'
<1>1. jobs'[j].app = a
  BY JobsMove DEF IInv, UninstallersOK, Uninstalling, JobsKept
<1> QED BY <1>1 DEF Stranded, Uninstalling

\* A name is left behind only by an error.
LEMMA StrandedByError ==
  ASSUME IInv, [Next]_vars, NEW a \in Apps, ~Stranded(a), Stranded(a)'
  PROVE  faults' > faults \/ \E j \in JobIds : jobs[j].app = a /\ Refused(j)
<1>1. a \in terminatingApps' /\ \A j \in JobIds : ~(uninstallers'[j] # "none" /\ jobs'[j].app = a)
  BY DEF Stranded, Uninstalling
<1>2. a \notin terminatingApps \/ Held(a)
  BY DEF Stranded, Held
<1>3. ASSUME a \in terminatingApps
      PROVE  \E j \in JobIds : Uninstalling(j) /\ jobs[j].app = a /\ uninstallers'[j] = "none"
  BY <1>2, <1>3, HeldStays DEF Held
<1>4. CASE UNCHANGED <<terminatingApps, uninstallers>>
  BY <1>1, <1>3, <1>4 DEF Uninstalling
<1>5. CASE Restarted
  BY <1>1, <1>5 DEF Restarted
<1>6. ASSUME NEW b \in Apps, Uninstall(b)
      PROVE  faults' > faults
  <2>1. PICK i \in JobIds, ok \in BOOLEAN :
          /\ CreateJob(i, "uninstall", b, cache[b], ok)
          /\ uninstallers' = IF ok THEN [uninstallers EXCEPT ![i] = "job"] ELSE uninstallers
    BY <1>6 DEF Uninstall
  <2>2. CASE ~ok
    BY <2>1, <2>2 DEF CreateJob, Fault, IInv, CountersOK
  <2>3. CASE ok
    <3>1. jobs' = [jobs EXCEPT ![i] = [kind |-> "uninstall", app |-> b, uid |-> cache[b].uid,
                                       state |-> "running", exists |-> TRUE]]
      BY <2>1, <2>3 DEF CreateJob
    <3>2. uninstallers'[i] = "job" /\ jobs'[i].app = b
      BY <2>1, <2>3, <3>1 DEF IInv, UninstallersOK, JobsOK
    <3>3. a # b
      BY <1>1, <3>2
    <3>4. a \in terminatingApps
      BY <1>1, <1>6, <3>3 DEF Uninstall
    <3>5. PICK j \in JobIds : uninstallers[j] # "none" /\ uninstallers'[j] = "none"
      BY <1>3, <3>4 DEF Uninstalling
    <3> QED BY <2>1, <2>3, <3>2, <3>5 DEF IInv, UninstallersOK
  <2> QED BY <2>2, <2>3
<1>7. ASSUME NEW i \in JobIds, UninstallerOf(i)
      PROVE  faults' > faults \/ \E j \in JobIds : jobs[j].app = a /\ Refused(j)
  <2>1. a \in terminatingApps /\ terminatingApps' # terminatingApps \ {a}
    BY <1>1, <1>7, UninstallGoesOn
  <2>2. PICK j \in JobIds : uninstallers[j] # "none" /\ jobs[j].app = a /\ uninstallers'[j] = "none"
    BY <1>3, <2>1 DEF Uninstalling
  <2>3. j = i
    BY <1>7, <2>2
       DEF UninstallerOf, StopWaiting, DeleteNamespace, AwaitNamespace, RemoveFinalizer, Release,
           GoesTo, IInv, UninstallersOK
  <2> QED BY <1>7, <2>1, <2>2, <2>3, UninstallGoesOn
<1> QED BY <1>4, <1>5, <1>6, <1>7, TerminatingMoves

\* A name is left in the map terminatingApps without the goroutine that releases it only by a
\* failing call, or when that goroutine finds the namespace gone that it deletes, or the App
\* gone or changed whose finalizer it removes: whatever the caches show, however often names
\* are used again, the process crashes and uninstall Jobs fail.
THEOREM NamesAreStrandedByErrors == Spec => StrandedByErrors
<1> DEFINE ByErrors == \A a \in Apps :
             Stranded(a)' => \/ Stranded(a)
                             \/ faults' > faults
                             \/ \E j \in JobIds : jobs[j].app = a /\ Refused(j)
<1>1. IInv /\ [Next]_vars => [ByErrors]_vars
  BY StrandedByError
<1> QED BY <1>1, InvariantHolds, PTL DEF Spec, StrandedByErrors
=============================================================================
