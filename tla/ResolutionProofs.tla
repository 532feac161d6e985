-------------------------- MODULE ResolutionProofs --------------------------
(***************************************************************************)
(* The result of GetDepthDependenciesToInstall, proved for every           *)
(* marketplace, any number of applications and any depth of the stack:     *)
(* whenever the function returns, what it returns is right, and it never   *)
(* goes deeper than the dependencies do.  That it returns is left to TLC.  *)
(***************************************************************************)
EXTENDS DependencyResolution, TLAPS

-----------------------------------------------------------------------------
\* The elements of a list that is not empty: the first one and those of the rest.
LEMMA ElementsOfTail ==
  ASSUME NEW list \in Seq(Apps), list # <<>>
  PROVE  /\ Head(list) \in Apps /\ Tail(list) \in Seq(Apps)
         /\ Elements(list) = {Head(list)} \cup Elements(Tail(list))
<1>1. Len(list) \in Nat \ {0} /\ DOMAIN list = 1..Len(list)
  OBVIOUS
<1>2. /\ Tail(list) \in Seq(Apps) /\ DOMAIN Tail(list) = 1..(Len(list) - 1)
      /\ \A i \in 1..(Len(list) - 1) : Tail(list)[i] = list[i + 1]
      /\ Head(list) = list[1] /\ Head(list) \in Apps
  BY <1>1
<1>3. ASSUME NEW i \in 1..Len(list)
      PROVE  list[i] \in {Head(list)} \cup Elements(Tail(list))
  <2>1. CASE i = 1
    BY <1>2, <2>1
  <2>2. CASE i # 1
    <3>1. i - 1 \in 1..(Len(list) - 1) /\ list[i] = Tail(list)[i - 1]
      BY <1>1, <1>2, <2>2
    <3> QED BY <1>2, <3>1 DEF Elements
  <2> QED BY <2>1, <2>2
<1>4. ASSUME NEW i \in 1..(Len(list) - 1)
      PROVE  Tail(list)[i] \in Elements(list)
  <2>1. i + 1 \in 1..Len(list)
    BY <1>1
  <2> QED BY <1>1, <1>2, <2>1 DEF Elements
<1>5. Head(list) \in Elements(list)
  BY <1>1, <1>2 DEF Elements
<1> QED BY <1>1, <1>2, <1>3, <1>4, <1>5 DEF Elements

\* Appending adds one element.
LEMMA ElementsOfAppend ==
  ASSUME NEW list \in Seq(Apps), NEW d \in Apps
  PROVE  /\ Append(list, d) \in Seq(Apps)
         /\ Elements(Append(list, d)) = Elements(list) \cup {d}
<1>1. /\ Append(list, d) \in Seq(Apps) /\ Len(list) \in Nat
      /\ DOMAIN list = 1..Len(list) /\ DOMAIN Append(list, d) = 1..(Len(list) + 1)
      /\ \A i \in 1..Len(list) : Append(list, d)[i] = list[i]
      /\ Append(list, d)[Len(list) + 1] = d
  OBVIOUS
<1>2. \A i \in 1..(Len(list) + 1) : i \in 1..Len(list) \/ i = Len(list) + 1
  BY <1>1
<1>3. \A i \in 1..Len(list) : i \in 1..(Len(list) + 1)
  BY <1>1
<1>4. Len(list) + 1 \in 1..(Len(list) + 1)
  BY <1>1
<1> QED BY <1>1, <1>2, <1>3, <1>4 DEF Elements

\* The empty list has none.
LEMMA ElementsOfNothing == Elements(<<>>) = {}
BY DEF Elements

\* What an application reaches has its direct dependencies in it and is closed, and no
\* closed set that has them in it is smaller.
LEMMA ReachIsClosure ==
  ASSUME catalogue \in [Apps -> Seq(Apps)], NEW a \in Apps
  PROVE  /\ Elements(catalogue[a]) \subseteq Reach(a)
         /\ \A x \in Reach(a) : Elements(catalogue[x]) \subseteq Reach(a)
         /\ \A closed \in SUBSET Apps :
              Elements(catalogue[a]) \subseteq closed
                /\ (\A x \in closed : Elements(catalogue[x]) \subseteq closed)
                => Reach(a) \subseteq closed
<1>1. \A x \in Apps : Elements(catalogue[x]) \subseteq Apps
  <2> TAKE x \in Apps
  <2>1. catalogue[x] \in Seq(Apps)
    OBVIOUS
  <2> QED BY <2>1 DEF Elements
<1>2. Elements(catalogue[a]) \subseteq Reach(a)
  BY <1>1 DEF Reach
<1>3. ASSUME NEW x \in Reach(a), NEW d \in Elements(catalogue[x])
      PROVE  d \in Reach(a)
  BY <1>1, <1>3 DEF Reach
<1>4. \A closed \in SUBSET Apps :
        Elements(catalogue[a]) \subseteq closed
          /\ (\A x \in closed : Elements(catalogue[x]) \subseteq closed)
          => Reach(a) \subseteq closed
  BY DEF Reach
<1> QED BY <1>2, <1>3, <1>4

-----------------------------------------------------------------------------
(***************************************************************************)
(* The inductive invariant.                                                *)
(***************************************************************************)
\* A call that goes on is on the stack; one that is done has left nothing behind.
StackOK ==
  /\ outcome = "running" => depth \in 1..MaxDepth
  /\ outcome = "done" => depth = 0
  /\ \A i \in 1..MaxDepth : i > depth => frames[i] = <<>>

\* Nothing is looked at that root does not depend on.
BelowRoot ==
  /\ visited \subseteq Reach(root)
  /\ \A i \in 1..MaxDepth : Elements(frames[i]) \subseteq Reach(root)

\* The list is what was looked at and is not installed.
ListOK == Elements(toInstall) = visited \ installed /\ NoDuplicates

\* The outermost loop leaves out nothing unless it fails.
DirectOK ==
  outcome # "failed" => Elements(catalogue[root]) \subseteq visited \cup Elements(frames[1])

\* What was looked at and not lost is pending as long as it is not looked at.
Pending == UNION {Elements(frames[i]) : i \in 1..MaxDepth}
ClosedOK == ~lost => \A x \in visited : Elements(catalogue[x]) \subseteq visited \cup Pending

IInv == TypeOK /\ StackOK /\ BelowRoot /\ ListOK /\ DirectOK /\ ClosedOK

\* The parameters and the state of the two are of their types.
LEMMA Types ==
  ASSUME IInv
  PROVE  /\ catalogue \in [Apps -> Seq(Apps)] /\ root \in Apps /\ MaxDepth \in Nat \ {0}
         /\ 1 \in 1..MaxDepth
         /\ \A i \in 1..MaxDepth : frames[i] \in Seq(Apps)
BY CataloguesAssumption, DepthAssumption DEF IInv, TypeOK

\* At the start there is the list of root's dependencies.
LEMMA InitOK ==
  ASSUME Init
  PROVE  IInv
<1>1. catalogue \in [Apps -> Seq(Apps)] /\ MaxDepth \in Nat \ {0}
  BY CataloguesAssumption, DepthAssumption DEF Init
<1>2. /\ frames \in [1..MaxDepth -> Seq(Apps)] /\ frames[1] = catalogue[root]
      /\ \A i \in 1..MaxDepth : i # 1 => frames[i] = <<>>
  <2>1. <<>> \in Seq(Apps) /\ catalogue[root] \in Seq(Apps)
    BY <1>1 DEF Init
  <2> QED BY <1>1, <2>1 DEF Init
<1>3. TypeOK
  <2>1. <<>> \in Seq(Apps) /\ 1 \in 0..MaxDepth
    BY <1>1
  <2> QED BY <1>2, <2>1 DEF Init, TypeOK, Outcomes
<1>4. StackOK
  BY <1>1, <1>2 DEF Init, StackOK
<1>5. BelowRoot
  BY <1>1, <1>2, ReachIsClosure, ElementsOfNothing DEF Init, BelowRoot
<1>6. ListOK
  BY ElementsOfNothing DEF Init, ListOK, NoDuplicates
<1>7. DirectOK /\ ClosedOK
  BY <1>2 DEF Init, DirectOK, ClosedOK
<1> QED BY <1>3, <1>4, <1>5, <1>6, <1>7 DEF IInv

\* What root reaches does not change.
LEMMA ReachStays ==
  ASSUME UNCHANGED inputs
  PROVE  Reach(root)' = Reach(root)
BY DEF Reach, inputs

\* One more dependency is looked at.
LEMMA VisitOK ==
  ASSUME IInv, Visit
  PROVE  IInv'
<1> DEFINE d == Head(frames[depth])
<1>1. PICK deps \in Pages(d) :
        /\ toInstall' = IF IsNeeded(d) THEN Append(toInstall, d) ELSE toInstall
        /\ frames' = [frames EXCEPT ![depth] = Tail(@), ![depth + 1] = deps]
        /\ visited' = visited \cup {d}
        /\ lost' = (lost \/ deps # catalogue[d])
  BY DEF Visit, Below
<1>2. /\ outcome = "running" /\ depth \in 1..MaxDepth /\ depth + 1 \in 1..MaxDepth
      /\ depth' = depth + 1 /\ outcome' = outcome
      /\ catalogue' = catalogue /\ root' = root /\ installed' = installed
      /\ frames[depth + 1] = <<>> /\ frames[depth] # <<>>
  BY Types DEF Visit, IInv, StackOK, inputs
<1>3. /\ d \in Apps /\ Tail(frames[depth]) \in Seq(Apps)
      /\ Elements(frames[depth]) = {d} \cup Elements(Tail(frames[depth]))
  BY <1>2, Types, ElementsOfTail
<1>4. deps \in Seq(Apps) /\ (deps = catalogue[d] \/ deps = <<>>)
  <2>1. deps = catalogue[d] \/ deps = <<>>
    BY DEF Pages
  <2>2. catalogue[d] \in Seq(Apps) /\ <<>> \in Seq(Apps)
    BY <1>3, Types
  <2> QED BY <2>1, <2>2
<1>5. Reach(root)' = Reach(root)
  BY <1>2, ReachStays DEF inputs
<1>6. d \in Reach(root) /\ Elements(deps) \subseteq Reach(root)
  BY <1>2, <1>3, <1>4, Types, ReachIsClosure, ElementsOfNothing DEF IInv, BelowRoot
<1> HIDE DEF d
<1>7. /\ frames' \in [1..MaxDepth -> Seq(Apps)]
      /\ frames'[depth] = Tail(frames[depth]) /\ frames'[depth + 1] = deps
      /\ \A i \in 1..MaxDepth : i \notin {depth, depth + 1} => frames'[i] = frames[i]
  BY <1>1, <1>2, <1>3, <1>4 DEF IInv, TypeOK
<1>8. toInstall' \in Seq(Apps) /\ Elements(toInstall') = visited' \ installed
  <2>1. toInstall \in Seq(Apps) /\ Elements(toInstall) = visited \ installed
    BY DEF IInv, TypeOK, ListOK
  <2> QED BY <1>1, <1>3, <2>1, ElementsOfAppend DEF IsNeeded
<1>9. TypeOK'
  <2>1. visited' \in SUBSET Apps /\ lost' \in BOOLEAN
    BY <1>1, <1>3 DEF IInv, TypeOK
  <2> QED BY <1>2, <1>7, <1>8, <2>1 DEF IInv, TypeOK
<1>10. StackOK'
  <2>1. ASSUME NEW i \in 1..MaxDepth, i > depth + 1
        PROVE  frames'[i] = <<>>
    <3>1. i > depth /\ i \notin {depth, depth + 1}
      BY <1>2, <2>1, Types
    <3> QED BY <1>7, <3>1 DEF IInv, StackOK
  <2> QED BY <1>2, <2>1 DEF StackOK
<1>11. BelowRoot'
  <2>1. ASSUME NEW i \in 1..MaxDepth
        PROVE  Elements(frames'[i]) \subseteq Reach(root)
    BY <1>2, <1>3, <1>6, <1>7 DEF IInv, BelowRoot
  <2>2. visited' \subseteq Reach(root)
    BY <1>1, <1>6 DEF IInv, BelowRoot
  <2> QED BY <1>5, <2>1, <2>2 DEF BelowRoot, Elements
<1>12. ListOK'
  <2>1. NoDuplicates'
    <3>1. CASE toInstall' = toInstall
      BY <3>1 DEF IInv, ListOK, NoDuplicates
    <3>2. CASE IsNeeded(d) /\ toInstall' = Append(toInstall, d)
      <4>1. /\ toInstall \in Seq(Apps) /\ Len(toInstall) \in Nat
            /\ DOMAIN toInstall = 1..Len(toInstall)
            /\ DOMAIN toInstall' = 1..(Len(toInstall) + 1)
            /\ \A i \in 1..Len(toInstall) : toInstall'[i] = toInstall[i]
            /\ toInstall'[Len(toInstall) + 1] = d
        BY <1>3, <3>2 DEF IInv, TypeOK
      <4>2. \A i \in 1..Len(toInstall) : toInstall[i] # d
        BY <3>2, <4>1 DEF IsNeeded, Elements
      <4>3. \A i, k \in 1..Len(toInstall) : toInstall[i] = toInstall[k] => i = k
        BY <4>1 DEF IInv, ListOK, NoDuplicates
      <4>4. \A i \in 1..(Len(toInstall) + 1) : i \in 1..Len(toInstall) \/ i = Len(toInstall) + 1
        BY <4>1
      <4> QED BY <4>1, <4>2, <4>3, <4>4 DEF NoDuplicates
    <3> QED BY <1>1, <3>1, <3>2
  <2> QED BY <1>2, <1>8, <2>1 DEF ListOK, Elements
<1>13. DirectOK'
  <2>1. Elements(catalogue[root]) \subseteq visited \cup Elements(frames[1])
    BY <1>2 DEF IInv, DirectOK
  <2>2. Elements(frames[1]) \subseteq {d} \cup Elements(frames'[1])
    <3>1. CASE depth = 1
      BY <1>3, <1>7, <3>1
    <3>2. CASE depth # 1
      <4>1. 1 \notin {depth, depth + 1}
        BY <1>2, <3>2, Types
      <4> QED BY <1>7, <4>1, Types
    <3> QED BY <3>1, <3>2
  <2>3. Elements(catalogue[root]) \subseteq visited' \cup Elements(frames'[1])
    BY <1>1, <2>1, <2>2
  <2> QED BY <1>2, <2>3 DEF DirectOK, Elements
<1>14. ClosedOK'
  <2> SUFFICES ASSUME ~lost', NEW x \in visited', NEW y \in Elements(catalogue[x])
               PROVE  y \in visited' \/ \E i \in 1..MaxDepth : y \in Elements(frames'[i])
    BY <1>2 DEF ClosedOK, Pending, Elements
  <2>1. CASE x = d
    BY <1>1, <1>2, <1>7, <2>1
  <2>2. CASE x \in visited
    <3>1. y \in visited \/ \E i \in 1..MaxDepth : y \in Elements(frames[i])
      BY <1>1, <2>2 DEF IInv, ClosedOK, Pending
    <3>2. ASSUME NEW i \in 1..MaxDepth, y \in Elements(frames[i])
          PROVE  y = d \/ y \in Elements(frames'[i])
      BY <1>2, <1>3, <1>7, <3>2, ElementsOfNothing
    <3> QED BY <1>1, <3>1, <3>2
  <2> QED BY <1>1, <2>1, <2>2
<1> QED BY <1>9, <1>10, <1>11, <1>12, <1>13, <1>14 DEF IInv

\* The process dies.
LEMMA OverflowOK ==
  ASSUME IInv, Overflow
  PROVE  IInv'
<1>1. /\ outcome = "running" /\ outcome' = "overflow" /\ depth' = depth /\ frames' = frames
      /\ toInstall' = toInstall /\ visited' = visited /\ lost' = lost
      /\ catalogue' = catalogue /\ root' = root /\ installed' = installed
  BY DEF Overflow, inputs
<1>2. Reach(root)' = Reach(root)
  BY <1>1, ReachStays DEF inputs
<1>3. TypeOK' /\ StackOK'
  BY <1>1 DEF IInv, TypeOK, StackOK, Outcomes
<1>4. BelowRoot' /\ ListOK'
  BY <1>1, <1>2 DEF IInv, BelowRoot, ListOK, NoDuplicates, Elements
<1>5. DirectOK' /\ ClosedOK'
  BY <1>1 DEF IInv, DirectOK, ClosedOK, Pending, Elements
<1> QED BY <1>3, <1>4, <1>5 DEF IInv

\* A download fails: the rest of one loop is passed over.
LEMMA DownloadFailsOK ==
  ASSUME IInv, DownloadFails
  PROVE  IInv'
<1>1. /\ outcome = "running" /\ depth \in 1..MaxDepth /\ depth' = depth - 1 /\ lost' = TRUE
      /\ outcome' = IF depth = 1 THEN "failed" ELSE "running"
      /\ frames' = [i \in 1..MaxDepth |-> IF i = depth THEN <<>> ELSE frames[i]]
      /\ toInstall' = toInstall /\ visited' = visited
      /\ catalogue' = catalogue /\ root' = root /\ installed' = installed
  BY DEF DownloadFails, EndsLoop, inputs, IInv, StackOK
<1>2. Reach(root)' = Reach(root)
  BY <1>1, ReachStays DEF inputs
<1>3. /\ frames' \in [1..MaxDepth -> Seq(Apps)] /\ frames'[depth] = <<>>
      /\ \A i \in 1..MaxDepth : i # depth => frames'[i] = frames[i]
  <2>1. <<>> \in Seq(Apps)
    OBVIOUS
  <2> QED BY <1>1, <2>1 DEF IInv, TypeOK
<1>4. TypeOK'
  BY <1>1, <1>3, Types DEF IInv, TypeOK, Outcomes
<1>5. StackOK'
  BY <1>1, <1>3, Types DEF IInv, StackOK
<1>6. BelowRoot'
  <2>1. \A i \in 1..MaxDepth : Elements(frames'[i]) \subseteq Reach(root)
    BY <1>1, <1>3, ElementsOfNothing DEF IInv, BelowRoot
  <2> QED BY <1>1, <1>2, <2>1 DEF IInv, BelowRoot, Elements
<1>7. ListOK'
  BY <1>1 DEF IInv, ListOK, NoDuplicates, Elements
<1>8. DirectOK'
  <2>1. CASE depth = 1
    BY <1>1, <2>1 DEF DirectOK
  <2>2. CASE depth # 1
    <3>1. frames'[1] = frames[1]
      BY <1>1, <1>3, <2>2, Types
    <3>2. Elements(catalogue[root]) \subseteq visited \cup Elements(frames[1])
      BY <1>1 DEF IInv, DirectOK
    <3>3. Elements(catalogue[root]) \subseteq visited \cup Elements(frames'[1])
      BY <3>1, <3>2
    <3> QED BY <1>1, <3>3 DEF DirectOK, Elements
  <2> QED BY <2>1, <2>2
<1>9. ClosedOK'
  BY <1>1 DEF ClosedOK
<1> QED BY <1>4, <1>5, <1>6, <1>7, <1>8, <1>9 DEF IInv

\* A call returns.
LEMMA ReturnOK ==
  ASSUME IInv, Return
  PROVE  IInv'
<1>1. /\ outcome = "running" /\ depth \in 1..MaxDepth /\ depth' = depth - 1
      /\ frames[depth] = <<>> /\ outcome' = IF depth = 1 THEN "done" ELSE "running"
      /\ frames' = frames /\ toInstall' = toInstall /\ visited' = visited /\ lost' = lost
      /\ catalogue' = catalogue /\ root' = root /\ installed' = installed
  BY DEF Return, inputs, IInv, StackOK
<1>2. Reach(root)' = Reach(root)
  BY <1>1, ReachStays DEF inputs
<1>3. TypeOK'
  BY <1>1, Types DEF IInv, TypeOK, Outcomes
<1>4. StackOK'
  BY <1>1, Types DEF IInv, StackOK
<1>5. BelowRoot' /\ ListOK'
  BY <1>1, <1>2 DEF IInv, BelowRoot, ListOK, NoDuplicates, Elements
<1>6. DirectOK' /\ ClosedOK'
  BY <1>1 DEF IInv, DirectOK, ClosedOK, Pending, Elements
<1> QED BY <1>3, <1>4, <1>5, <1>6 DEF IInv

\* The invariant is inductive.
LEMMA Inductive ==
  ASSUME IInv, [Next]_vars
  PROVE  IInv'
<1>1. CASE UNCHANGED vars
  <2>1. Reach(root)' = Reach(root)
    BY <1>1, ReachStays DEF vars, inputs
  <2>2. TypeOK' /\ StackOK'
    BY <1>1 DEF IInv, TypeOK, StackOK, vars, inputs
  <2>3. BelowRoot' /\ ListOK'
    BY <1>1, <2>1 DEF IInv, BelowRoot, ListOK, NoDuplicates, Elements, vars, inputs
  <2>4. DirectOK' /\ ClosedOK'
    BY <1>1 DEF IInv, DirectOK, ClosedOK, Pending, Elements, vars, inputs
  <2> QED BY <2>2, <2>3, <2>4 DEF IInv
<1> QED BY <1>1, VisitOK, OverflowOK, DownloadFailsOK, ReturnOK DEF Next

\* The invariant holds throughout.
LEMMA InvariantHolds == Spec => []IInv
<1>1. Init => IInv
  BY InitOK
<1>2. IInv /\ [Next]_vars => IInv'
  BY Inductive
<1> QED BY <1>1, <1>2, PTL DEF Spec

-----------------------------------------------------------------------------
\* A function that has returned has an empty stack.
LEMMA NothingPending ==
  ASSUME IInv, outcome = "done"
  PROVE  \A i \in 1..MaxDepth : Elements(frames[i]) = {}
<1>1. \A i \in 1..MaxDepth : frames[i] = <<>>
  BY Types DEF IInv, StackOK
<1> QED BY <1>1, ElementsOfNothing

\* When every manifest was downloaded the function returns exactly the applications below
\* root that are not installed, for every marketplace: also below the installed ones, and
\* also with applications that depend on themselves, if it does return.
THEOREM AllAreResolved == Spec => []ResolvesAll
<1>1. IInv => ResolvesAll
  <2> SUFFICES ASSUME IInv, outcome = "done", ~lost
               PROVE  Elements(toInstall) = Reach(root) \ installed
    BY DEF ResolvesAll
  <2>1. visited \in SUBSET Apps /\ visited \subseteq Reach(root)
    BY DEF IInv, TypeOK, BelowRoot
  <2>2. Elements(catalogue[root]) \subseteq visited
    BY NothingPending, Types DEF IInv, DirectOK
  <2>3. \A x \in visited : Elements(catalogue[x]) \subseteq visited
    BY NothingPending DEF IInv, ClosedOK, Pending
  <2>4. Reach(root) \subseteq visited
    BY <2>1, <2>2, <2>3, Types, ReachIsClosure
  <2> QED BY <2>1, <2>4 DEF IInv, ListOK
<1> QED BY <1>1, InvariantHolds, PTL

\* Whatever downloads fail below them, the direct dependencies are in the list when the
\* function returns without an error, and nothing is that root does not depend on.
THEOREM DirectAreResolved == Spec => []ResolvesDirect
<1>1. IInv => ResolvesDirect
  <2> SUFFICES ASSUME IInv, outcome = "done"
               PROVE  /\ Elements(catalogue[root]) \ installed \subseteq Elements(toInstall)
                      /\ Elements(toInstall) \subseteq Reach(root) \ installed
    BY DEF ResolvesDirect
  <2>1. Elements(catalogue[root]) \subseteq visited
    BY NothingPending, Types DEF IInv, DirectOK
  <2> QED BY <2>1 DEF IInv, ListOK, BelowRoot
<1> QED BY <1>1, InvariantHolds, PTL

\* At every moment of the recursion the list has each application at most once.
THEOREM EachOnce == Spec => []NoDuplicates
<1>1. IInv => NoDuplicates
  BY DEF IInv, ListOK
<1> QED BY <1>1, InvariantHolds, PTL
-----------------------------------------------------------------------------
(***************************************************************************)
(* The depth of the recursion.                                             *)
(***************************************************************************)
\* With every call the dependencies that are left are one layer lower.
DepthOK ==
  /\ \A layer \in Layers : \A i \in 1..MaxDepth : \A d \in Elements(frames[i]) :
       layer[d] + i <= layer[root]
  /\ StackSuffices

\* The layers are numbers, lower for what an application below root depends on.
LEMMA LayersFall ==
  ASSUME IInv, NEW layer \in Layers
  PROVE  /\ \A a \in Apps : layer[a] \in 0..(MaxDepth - 1)
         /\ \A a \in Reach(root) \cup {root} :
              \A d \in Elements(catalogue[a]) : d \in Apps /\ layer[d] < layer[a]
<1>1. \A a \in Reach(root) \cup {root} : Elements(catalogue[a]) \subseteq Reach(root)
  BY Types, ReachIsClosure
<1>2. Reach(root) \subseteq Apps
  BY DEF Reach
<1> QED BY <1>1, <1>2 DEF Layers

\* The layers stay as they are.
LEMMA LayersStay ==
  ASSUME UNCHANGED inputs
  PROVE  Layers' = Layers
<1>1. Reach(root)' = Reach(root)
  BY ReachStays
<1> QED BY <1>1 DEF Layers, Elements, inputs

\* Only the dependencies of root are there at the start.
LEMMA InitDepth ==
  ASSUME Init
  PROVE  DepthOK
<1>1. IInv /\ frames[1] = catalogue[root] /\ outcome = "running"
      /\ \A i \in 1..MaxDepth : i # 1 => frames[i] = <<>>
  BY InitOK, Types DEF Init
<1>2. ASSUME NEW layer \in Layers, NEW i \in 1..MaxDepth, NEW d \in Elements(frames[i])
      PROVE  layer[d] + i <= layer[root]
  <2>1. i = 1 /\ d \in Elements(catalogue[root])
    BY <1>1, ElementsOfNothing
  <2>2. d \in Apps /\ root \in Apps /\ layer[d] < layer[root]
    BY <1>1, <2>1, LayersFall, Types
  <2>3. layer[d] \in 0..(MaxDepth - 1) /\ layer[root] \in 0..(MaxDepth - 1)
    BY <1>1, <2>2, LayersFall
  <2> QED BY <1>1, <2>1, <2>2, <2>3, Types
<1> QED BY <1>1, <1>2 DEF DepthOK, StackSuffices

\* A call that begins works on the dependencies of something one layer higher.
LEMMA VisitDepth ==
  ASSUME IInv, DepthOK, Visit
  PROVE  DepthOK'
<1> DEFINE d == Head(frames[depth])
<1>1. PICK deps \in Pages(d) :
        frames' = [frames EXCEPT ![depth] = Tail(@), ![depth + 1] = deps]
  BY DEF Visit, Below
<1>2. /\ outcome = "running" /\ outcome' = outcome /\ frames[depth] # <<>>
      /\ depth \in 1..MaxDepth /\ depth + 1 \in 1..MaxDepth /\ UNCHANGED inputs
  BY Types DEF Visit, IInv, StackOK
<1>3. /\ d \in Apps /\ Elements(frames[depth]) = {d} \cup Elements(Tail(frames[depth]))
  BY <1>2, Types, ElementsOfTail
<1>4. Elements(deps) \subseteq Elements(catalogue[d])
  BY ElementsOfNothing DEF Pages
<1>5. d \in Reach(root)
  BY <1>2, <1>3 DEF IInv, BelowRoot
<1>6. /\ frames'[depth] = Tail(frames[depth]) /\ frames'[depth + 1] = deps
      /\ \A i \in 1..MaxDepth : i \notin {depth, depth + 1} => frames'[i] = frames[i]
  BY <1>1, <1>2 DEF IInv, TypeOK
<1> HIDE DEF d
<1>7. ASSUME NEW layer \in Layers, NEW i \in 1..MaxDepth, NEW x \in Elements(frames'[i])
      PROVE  layer[x] + i <= layer[root]
  <2>1. CASE i # depth + 1
    <3>1. x \in Elements(frames[i])
      BY <1>3, <1>6, <1>7, <2>1
    <3> QED BY <3>1 DEF DepthOK
  <2>2. CASE i = depth + 1
    <3>1. x \in Elements(catalogue[d])
      BY <1>4, <1>6, <1>7, <2>2
    <3>2. x \in Apps /\ root \in Apps /\ layer[x] < layer[d]
      BY <1>5, <3>1, LayersFall, Types
    <3>3. layer[d] + depth <= layer[root]
      BY <1>2, <1>3 DEF DepthOK
    <3>4. /\ layer[x] \in 0..(MaxDepth - 1) /\ layer[d] \in 0..(MaxDepth - 1)
          /\ layer[root] \in 0..(MaxDepth - 1)
      BY <1>3, <3>2, LayersFall
    <3> QED BY <1>2, <2>2, <3>2, <3>3, <3>4, Types
  <2> QED BY <2>1, <2>2
<1>8. Layers' = Layers /\ root' = root
  BY <1>2, LayersStay DEF inputs
<1>9. \A layer \in Layers' : \A i \in 1..MaxDepth : \A x \in Elements(frames'[i]) :
        layer[x] + i <= layer[root']
  BY <1>7, <1>8
<1> QED BY <1>2, <1>9 DEF DepthOK, StackSuffices, Elements

\* What is left at the top of a full stack is a layer too low to exist.
LEMMA OverflowDepth ==
  ASSUME IInv, DepthOK, Overflow
  PROVE  DepthOK'
<1>1. frames' = frames /\ UNCHANGED inputs /\ depth = MaxDepth /\ frames[depth] # <<>>
  BY DEF Overflow, inputs
<1>2. Layers' = Layers /\ root' = root
  BY <1>1, LayersStay DEF inputs
<1>3. ASSUME NEW layer \in Layers
      PROVE  FALSE
  <2> DEFINE d == Head(frames[depth])
  <2>1. d \in Apps /\ d \in Elements(frames[MaxDepth]) /\ MaxDepth \in 1..MaxDepth
    BY <1>1, Types, ElementsOfTail
  <2> HIDE DEF d
  <2>2. layer[d] + MaxDepth <= layer[root]
    BY <2>1 DEF DepthOK
  <2>3. layer[d] \in 0..(MaxDepth - 1) /\ layer[root] \in 0..(MaxDepth - 1)
    BY <2>1, LayersFall, Types
  <2> QED BY <2>2, <2>3, Types
<1>4. \A layer \in Layers' : \A i \in 1..MaxDepth : \A x \in Elements(frames[i]) :
        layer[x] + i <= layer[root']
  BY <1>2 DEF DepthOK
<1> QED BY <1>1, <1>2, <1>3, <1>4 DEF DepthOK, StackSuffices, Elements

\* A call that ends leaves less on the stack.
LEMMA EndDepth ==
  ASSUME IInv, DepthOK, UNCHANGED inputs, outcome' \in {outcome, "done", "failed", "running"},
         \A i \in 1..MaxDepth : frames'[i] \in {frames[i], <<>>}
  PROVE  DepthOK'
<1>1. Layers' = Layers /\ root' = root
  BY LayersStay DEF inputs
<1>2. \A i \in 1..MaxDepth : Elements(frames'[i]) \subseteq Elements(frames[i])
  BY ElementsOfNothing
<1>3. \A layer \in Layers' : \A i \in 1..MaxDepth : \A x \in Elements(frames'[i]) :
        layer[x] + i <= layer[root']
  BY <1>1, <1>2 DEF DepthOK
<1> QED BY <1>1, <1>3 DEF DepthOK, StackSuffices, Elements

\* The process never dies of a marketplace whose dependencies fit in as many layers as there
\* are calls on the stack, whatever the server answers and however many paths there are.
THEOREM StackIsEnough == Spec => []StackSuffices
<1>1. Init => DepthOK
  BY InitDepth
<1>2. ASSUME IInv, DepthOK, [Next]_vars
      PROVE  DepthOK'
  <2>1. CASE DownloadFails
    <3>1. UNCHANGED inputs /\ outcome' \in {"failed", "running"}
      BY <2>1 DEF DownloadFails
    <3>2. \A i \in 1..MaxDepth : frames'[i] \in {frames[i], <<>>}
      BY <2>1 DEF DownloadFails
    <3> QED BY <1>2, <3>1, <3>2, EndDepth
  <2>2. CASE Return
    <3>1. UNCHANGED inputs /\ outcome' \in {"done", "running"} /\ frames' = frames
      BY <2>2 DEF Return
    <3> QED BY <1>2, <3>1, EndDepth
  <2>3. CASE UNCHANGED vars
    BY <1>2, <2>3, EndDepth DEF vars
  <2> QED BY <1>2, <2>1, <2>2, <2>3, VisitDepth, OverflowDepth DEF Next
<1>3. DepthOK => StackSuffices
  BY DEF DepthOK
<1> QED BY <1>1, <1>2, <1>3, InvariantHolds, PTL DEF Spec
=============================================================================
