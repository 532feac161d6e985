--------------------------- MODULE UpdateWatchers ---------------------------
(***************************************************************************)
(* WatchForNewUpdate: the goroutine that, once an App is installed, sleeps *)
(* updateWatcherSleepMinutes, compares the installed version with the one  *)
(* in the manifest and writes the result into the App's status, forever.   *)
(***************************************************************************)
EXTENDS OperatorProcess

restOfThreads == <<jobs, watchers, namespaces, published, requests, worker, jobWorker,
                   terminatingApps, updateWatcher, uninstallers, crashes, checks>>

\* Awake: end when the name is no longer in updateWatcher, else download the
\* manifest.  A failed download is one more sleep.
WakeUp(t) ==
  LET a == updateThreads[t].app
  IN  /\ updateThreads[t].step = "asleep"
      /\ updateThreads' =
           [updateThreads EXCEPT ![t] =
              IF a \in updateWatcher
              THEN [@ EXCEPT !.step = "checking", !.seen = published[a]]
              ELSE NoThread]
      /\ UNCHANGED <<apps, faults, restOfThreads>>
      /\ Informers

\* Mistake: an App without an installed version counts as outdated.
AnyDifference(app, seen) == IF app.version # seen THEN seen ELSE NoVersion

\* The version announced beside the installed one; an App without one is up to date.
News(app, seen) == IF app.version \notin {NoVersion, seen} THEN seen ELSE NoVersion

\* Compare and write; an App that is gone ends the goroutine, and leaves the
\* name in updateWatcher.
CheckUpdate(t) ==
  LET a    == updateThreads[t].app
      app  == cache[a]
      seen == updateThreads[t].seen
  IN  /\ updateThreads[t].step = "checking"
      /\ IF app.exists
         THEN /\ \E ok \in BOOLEAN : UpdateApp(a, app, [app EXCEPT !.newVersion = News(app, seen)], ok)
              /\ updateThreads' = [updateThreads EXCEPT ![t] = [NoThread EXCEPT !.step = "asleep",
                                                                               !.app = a]]
         ELSE /\ updateThreads' = [updateThreads EXCEPT ![t] = NoThread]
              /\ UNCHANGED <<apps, faults>>
      /\ UNCHANGED restOfThreads
      /\ Informers

WatchForNewUpdate == \E t \in ThreadIds : WakeUp(t) \/ CheckUpdate(t)
=============================================================================
