------------------------ MODULE DependencyResolution ------------------------
(***************************************************************************)
(* GetDepthDependenciesToInstall (pkg/utils/utils.go): which applications  *)
(* have to be created before `root` can be installed.  The function calls  *)
(* itself for the dependencies of every dependency, each of which it       *)
(* downloads first, and ignores the error of the inner call.  One action   *)
(* is one turn of a loop, or a return.  ResolveDependencies of module      *)
(* AppController is the whole of it in one step.                           *)
(***************************************************************************)
EXTENDS Naturals, Sequences

CONSTANTS
  Apps,             \* the marketplace applications
  Catalogues,       \* the marketplaces: catalogue[a] lists a's direct dependencies
  ErrorPages,       \* whether the server may send something else than the manifest
  MaxDepth          \* calls that fit on the stack (a bound)

ASSUME CataloguesAssumption == Catalogues \subseteq [Apps -> Seq(Apps)]
ASSUME DepthAssumption == MaxDepth \in Nat \ {0}
ASSUME PagesAssumption == ErrorPages \in BOOLEAN

VARIABLES
  catalogue, root, installed,   \* the inputs, which stay as they are
  depth,            \* calls that have not returned
  frames,           \* what is left of the `dependencies` of each of them
  toInstall,        \* the result so far
  outcome,          \* how the outermost call ended
  visited,          \* history: the dependencies whose download has succeeded
  lost              \* history: a download has failed or was an error page

inputs == <<catalogue, root, installed>>
vars == <<inputs, depth, frames, toInstall, outcome, visited, lost>>

Outcomes == {"running", "done", "failed", "overflow"}

Elements(list) == {list[i] : i \in DOMAIN list}

TypeOK ==
  /\ catalogue \in Catalogues /\ root \in Apps /\ installed \in SUBSET Apps
  /\ depth \in 0..MaxDepth
  /\ frames \in [1..MaxDepth -> Seq(Apps)]
  /\ toInstall \in Seq(Apps)
  /\ outcome \in Outcomes
  /\ visited \in SUBSET Apps /\ lost \in BOOLEAN

Init ==
  /\ catalogue \in Catalogues /\ root \in Apps /\ installed \in SUBSET Apps
  /\ depth = 1
  /\ frames = [i \in 1..MaxDepth |-> IF i = 1 THEN catalogue[root] ELSE <<>>]
  /\ toInstall = <<>>
  /\ outcome = "running"
  /\ visited = {} /\ lost = FALSE

Pages(d) == {catalogue[d]} \cup (IF ErrorPages THEN {<<>>} ELSE {})

\* Mistake: a second path to a dependency puts it into the list again.
IsNotInstalled(d) == d \notin installed
IsNeeded(d) == d \notin installed /\ d \notin Elements(toInstall)

\* Mistake: nothing is looked for below what is installed.
UnlessInstalled(d, deps) == IF d \in installed THEN <<>> ELSE deps
\* Mistake: the inner call goes through the caller's list.
OwnList(d, deps) == frames[depth]
Below(d, deps) == deps

Visit ==
  /\ outcome = "running" /\ frames[depth] # <<>> /\ depth < MaxDepth
  /\ LET d == Head(frames[depth])
     IN  \E deps \in Pages(d) :
           /\ toInstall' = IF IsNeeded(d) THEN Append(toInstall, d) ELSE toInstall
           /\ frames' = [frames EXCEPT ![depth] = Tail(@), ![depth + 1] = Below(d, deps)]
           /\ visited' = visited \cup {d}
           /\ lost' = (lost \/ deps # catalogue[d])
  /\ depth' = depth + 1
  /\ UNCHANGED <<inputs, outcome>>

\* The process dies when the stack is full.
Overflow ==
  /\ outcome = "running" /\ frames[depth] # <<>> /\ depth = MaxDepth
  /\ outcome' = "overflow"
  /\ UNCHANGED <<inputs, depth, frames, toInstall, visited, lost>>

\* Mistake: the error of an inner call ends the loop of its caller as well.
EndsBothLoops(i) == i \in {depth, depth - 1}
EndsLoop(i) == i = depth

DownloadFails ==
  /\ outcome = "running" /\ frames[depth] # <<>>
  /\ frames' = [i \in 1..MaxDepth |-> IF EndsLoop(i) THEN <<>> ELSE frames[i]]
  /\ depth' = depth - 1
  /\ outcome' = IF depth = 1 THEN "failed" ELSE "running"
  /\ lost' = TRUE
  /\ UNCHANGED <<inputs, toInstall, visited>>

Return ==
  /\ outcome = "running" /\ frames[depth] = <<>>
  /\ depth' = depth - 1
  /\ outcome' = IF depth = 1 THEN "done" ELSE "running"
  /\ UNCHANGED <<inputs, frames, toInstall, visited, lost>>

Next == Visit \/ Overflow \/ DownloadFails \/ Return

Spec == Init /\ [][Next]_vars

\* The function is sequential code: it goes on until it has returned.
FairSpec == Spec /\ WF_vars(Next)

-----------------------------------------------------------------------------
\* The applications that a depends on, directly or not.
Reach(a) ==
  {d \in Apps : \A closed \in SUBSET Apps :
     (Elements(catalogue[a]) \subseteq closed /\ \A x \in closed : Elements(catalogue[x]) \subseteq closed)
       => d \in closed}

\* The function returns all applications below root that are not installed, also those
\* below an installed one, when every manifest was downloaded.
ResolvesAll ==
  outcome = "done" /\ ~lost => Elements(toInstall) = Reach(root) \ installed

\* Whatever downloads fail below them, the direct dependencies are in the list when the
\* function returns without an error, and nothing is that root does not depend on.
ResolvesDirect ==
  outcome = "done" =>
    /\ Elements(catalogue[root]) \ installed \subseteq Elements(toInstall)
    /\ Elements(toInstall) \subseteq Reach(root) \ installed

\* A dependency that many others need is in the list once: each is created once.
NoDuplicates ==
  \A i, k \in DOMAIN toInstall : toInstall[i] = toInstall[k] => i = k

\* The ways to put the applications below root, and root, into layers that fit on the stack,
\* each application above its dependencies.
Layers ==
  {layer \in [Apps -> 0..(MaxDepth - 1)] :
     \A a \in Reach(root) \cup {root} : \A d \in Elements(catalogue[a]) : layer[d] < layer[a]}

\* The recursion never goes deeper than the dependencies do: it fills the stack only for a
\* marketplace with a cycle below root, or with a chain that is longer than the stack.
StackSuffices == outcome = "overflow" => Layers = {}

\* The recursion ends by itself when no application below root depends on itself.
EndsWithoutCycles ==
  (\A d \in Reach(root) : d \notin Reach(d)) => <>(outcome \in {"done", "failed"})
=============================================================================
