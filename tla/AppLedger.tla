----------------------------- MODULE AppLedger -----------------------------
(***************************************************************************)
(* What the status of the Apps promises to those who read it: one record   *)
(* for each App, changed by one atomic step at a time, each step made from *)
(* the record as it is.  There are no caches, no copies and no conflicts   *)
(* here; the operator must look like this from outside, although every one *)
(* of its writes is made from a copy read some time before.  Two parts of  *)
(* the promise depend on the world around the operator.                    *)
(***************************************************************************)
CONSTANTS
  Apps, JobIds, Versions,
  CallsFail,      \* the API server may fail: an update may start without having been cleared
  CopiesLag       \* the cache may lag: a stage may find an App that has the name by then

Verdicts == {"installation_finished", "installation_failed"}

VARIABLES
  ledger,    \* the public part of each App
  outcome    \* how each Job has ended: "none", or one of Verdicts

Blank == [exists |-> FALSE, action |-> "install", lastStatus |-> "",
          executed |-> [j \in JobIds |-> "none"], version |-> 0, newVersion |-> 0]

Init ==
  /\ ledger = [a \in Apps |-> Blank]
  /\ outcome = [j \in JobIds |-> "none"]

Becomes(a, record) == ledger' = [ledger EXCEPT ![a] = record] /\ UNCHANGED outcome

Appear(a) == ~ledger[a].exists /\ Becomes(a, [Blank EXCEPT !.exists = TRUE])

Vanish(a) == ledger[a].exists /\ Becomes(a, Blank)

AskUpdate(a) == ledger[a].exists /\ Becomes(a, [ledger[a] EXCEPT !.action = "update"])

\* An update clears what was installed, then the stages start again.
Clear(a) ==
  /\ ledger[a].action = "update"
  /\ Becomes(a, [ledger[a] EXCEPT !.lastStatus = "", !.version = 0, !.newVersion = 0])

StartUpdate(a) ==
  /\ ledger[a].action = "update"
  /\ CallsFail \/ (ledger[a].lastStatus = "" /\ ledger[a].version = 0)
  /\ Becomes(a, [ledger[a] EXCEPT !.action = "install"])

PreInstall(a) ==
  /\ ledger[a].exists /\ ledger[a].lastStatus = ""
  /\ Becomes(a, [ledger[a] EXCEPT !.lastStatus = "pre_installation_started"])

\* It has been through the pre-install stage.
Prepared(a) == ledger[a].exists /\ (CopiesLag \/ ledger[a].lastStatus # "")

InstallDependencies(a) ==
  /\ Prepared(a)
  /\ Becomes(a, [ledger[a] EXCEPT !.lastStatus = "dependencies_installation_started"])

Launch(a, j) ==
  /\ Prepared(a) /\ ledger[a].executed[j] = "none"
  /\ Becomes(a, [ledger[a] EXCEPT !.lastStatus = "installation_started",
                                  !.executed[j] = "installation_started"])

JobEnds(j) ==
  /\ outcome[j] = "none"
  /\ \E verdict \in Verdicts : outcome' = [outcome EXCEPT ![j] = verdict]
  /\ UNCHANGED ledger

\* The verdict goes into the Job's entry and the status, and erases nothing else.
Report(a, j) ==
  /\ ledger[a].exists /\ outcome[j] \in Verdicts
  /\ Becomes(a, [ledger[a] EXCEPT !.lastStatus = outcome[j], !.executed[j] = outcome[j]])

RecordVersion(a) ==
  /\ ledger[a].lastStatus = "installation_finished" /\ ledger[a].version = 0
  /\ \E v \in Versions : Becomes(a, [ledger[a] EXCEPT !.version = v])

Announce(a) ==
  /\ ledger[a].exists
  /\ \E v \in Versions \cup {0} : Becomes(a, [ledger[a] EXCEPT !.newVersion = v])

Next ==
  \/ \E a \in Apps :
       \/ Appear(a) \/ Vanish(a) \/ AskUpdate(a) \/ Clear(a) \/ StartUpdate(a)
       \/ PreInstall(a) \/ InstallDependencies(a) \/ RecordVersion(a) \/ Announce(a)
       \/ \E j \in JobIds : Launch(a, j) \/ Report(a, j)
  \/ \E j \in JobIds : JobEnds(j)

Spec == Init /\ [][Next]_<<ledger, outcome>>
=============================================================================
