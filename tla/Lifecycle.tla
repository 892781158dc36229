---- MODULE Lifecycle ----
(***************************************************************************)
(* The life of one process with the S3 catalog: main of                    *)
(* cmd/server/main.go from the bucket it waits for to the deferred closes, *)
(* with the goroutines it starts and does or does not wait for: requests,  *)
(* the catalog's ticker (Start, Flush and Close of store.Object), the      *)
(* cleaner and the cleanups of MaybeRun (internal/cleanup/cleanup.go), and *)
(* the reconcile.                                                          *)
(*                                                                         *)
(* What a change of the catalog is does not matter here: the catalog and   *)
(* its snapshot are the number of changes they hold.  One tick of the      *)
(* clock is minGap, a minute; the deadlines of seconds expire at any time. *)
(***************************************************************************)
EXTENDS Integers, SequencesExt

CONSTANTS
  Job,          \* goroutines that serve requests
  Tries,        \* how often EnsureBucket is tried
  RunDeadline,  \* of a run MaybeRun starts, in ticks
  Never,        \* no run has started yet
  MaxMinutes,   \* bound: the clock
  MaxChanges    \* bound: changes of the catalog

ASSUME TriesAssumption == Tries \in Nat \ {0} /\ RunDeadline \in Nat
ASSUME NeverAssumption == Never \notin Nat

VARIABLES
  main,       \* where main is
  tried,      \* EnsureBucket calls that failed
  stopping,   \* the context of the signals is done
  minute,
  version,    \* changes made
  snapshot,   \* changes the bucket holds
  ticker,     \* of the catalog: "waiting", "flushing" or "gone"
  clone,      \* what the flush that is under way writes
  jobs,       \* requests: "idle", "busy" or "saved", an upload that is stored
  cleaner,    \* Cleaner.Start: "waiting", "running" or "gone"
  reconciling,
  lastRun,    \* of the Cleaner
  started,    \* when the goroutines of MaybeRun that are at work were started
  leftover    \* history: goroutines were left when Close took its copy

catalogue == <<version, snapshot, ticker, clone>>
sweeps == <<cleaner, lastRun, started>>
processVars == <<main, tried, stopping, minute, catalogue, jobs, sweeps, reconciling, leftover>>

Up == main \in {"serving", "shutdown", "closing", "flushing"}

Changed == version < MaxChanges /\ version' = version + 1 /\ UNCHANGED <<snapshot, ticker, clone>>

----
(* The start.                                                              *)

\* An error of the context is one of these, too.
BucketFails ==
  /\ main = "bucket"
  /\ tried' = tried + 1
  /\ main' = IF tried + 1 = Tries THEN "failed" ELSE "bucket"
  /\ UNCHANGED <<stopping, minute, catalogue, jobs, sweeps, reconciling, leftover>>

BucketReady ==
  /\ main = "bucket"
  /\ ~stopping
  /\ main' = "loading"
  /\ UNCHANGED <<tried, stopping, minute, catalogue, jobs, sweeps, reconciling, leftover>>

LoadFails ==
  /\ main = "loading"
  /\ main' = "failed"
  /\ UNCHANGED <<tried, stopping, minute, catalogue, jobs, sweeps, reconciling, leftover>>

\* The ticker, the cleaner with a first run and the reconcile are started.
Load ==
  /\ main = "loading"
  /\ main' = "serving"
  /\ ticker' = "waiting"
  /\ cleaner' = "running"
  /\ lastRun' = minute
  /\ reconciling' = TRUE
  /\ UNCHANGED <<tried, stopping, minute, version, snapshot, clone, jobs, started, leftover>>

\* A signal, or the listener's error.
Stop ==
  /\ ~stopping
  /\ main \notin {"failed", "unsaved", "exited"}
  /\ stopping' = TRUE
  /\ UNCHANGED <<main, tried, minute, catalogue, jobs, sweeps, reconciling, leftover>>

----
(* What goes on while the process is up, whatever main is doing.           *)

Accept(j) ==
  /\ main = "serving"
  /\ jobs[j] = "idle"
  /\ jobs' = [jobs EXCEPT ![j] = "busy"]
  /\ UNCHANGED <<main, tried, stopping, minute, catalogue, sweeps, reconciling, leftover>>

Save(j) ==
  /\ Up
  /\ jobs[j] = "busy"
  /\ Changed
  /\ jobs' = [jobs EXCEPT ![j] = "saved"]
  /\ UNCHANGED <<main, tried, stopping, minute, sweeps, reconciling, leftover>>

Answer(j) ==
  /\ Up
  /\ jobs[j] # "idle"
  /\ jobs' = [jobs EXCEPT ![j] = "idle"]
  /\ UNCHANGED <<main, tried, stopping, minute, catalogue, sweeps, reconciling, leftover>>

\* Mutant: the run itself takes the time, some time later.
MaybeRunLater(j) ==
  /\ Up
  /\ jobs[j] = "saved"
  /\ lastRun = Never \/ minute - lastRun >= 1
  /\ started' = Append(started, minute)
  /\ jobs' = [jobs EXCEPT ![j] = "idle"]
  /\ UNCHANGED <<main, tried, stopping, minute, catalogue, cleaner, lastRun, reconciling, leftover>>

\* After an upload: its goroutine outlives the request.
MaybeRun(j) ==
  /\ Up
  /\ jobs[j] = "saved"
  /\ lastRun = Never \/ minute - lastRun >= 1
  /\ lastRun' = minute
  /\ started' = Append(started, minute)
  /\ jobs' = [jobs EXCEPT ![j] = "idle"]
  /\ UNCHANGED <<main, tried, stopping, minute, catalogue, cleaner, reconciling, leftover>>

\* Its run deletes entries, or ends without.
RunEnds ==
  /\ Up
  /\ \E i \in DOMAIN started : started' = RemoveAt(started, i)
  /\ Changed \/ UNCHANGED catalogue
  /\ UNCHANGED <<main, tried, stopping, minute, jobs, cleaner, lastRun, reconciling, leftover>>

\* The button of the dashboard: a run nothing throttles.
CleanupNow(j) ==
  /\ Up
  /\ jobs[j] = "busy"
  /\ lastRun' = minute
  /\ UNCHANGED <<main, tried, stopping, minute, catalogue, jobs, cleaner, started, reconciling, leftover>>

\* The cleaner's select takes either case when both are ready.
Cleaner ==
  /\ Up
  /\ \/ cleaner = "waiting" /\ cleaner' = "running" /\ lastRun' = minute /\ UNCHANGED catalogue
     \/ cleaner = "running" /\ cleaner' = "waiting" /\ UNCHANGED lastRun
        /\ (Changed \/ UNCHANGED catalogue)
     \/ cleaner = "waiting" /\ stopping /\ cleaner' = "gone" /\ UNCHANGED <<lastRun, catalogue>>
  /\ UNCHANGED <<main, tried, stopping, minute, jobs, started, reconciling, leftover>>

Reconcile ==
  /\ Up
  /\ reconciling
  /\ \/ Changed /\ UNCHANGED reconciling
     \/ reconciling' = FALSE /\ UNCHANGED catalogue
  /\ UNCHANGED <<main, tried, stopping, minute, jobs, sweeps, leftover>>

\* Time passes as far as the deadlines of the runs that are under way allow.
MinutePasses ==
  /\ main = "serving"
  /\ minute < MaxMinutes
  /\ \A i \in DOMAIN started : minute - started[i] < RunDeadline
  /\ minute' = minute + 1
  /\ UNCHANGED <<main, tried, stopping, catalogue, jobs, sweeps, reconciling, leftover>>

----
(* The catalog's ticker.                                                   *)

\* A tick that finds the catalog dirty.
TickerFlushes ==
  /\ Up
  /\ ticker = "waiting"
  /\ snapshot # version
  /\ ticker' = "flushing"
  /\ clone' = version
  /\ UNCHANGED <<main, tried, stopping, minute, version, snapshot, jobs, sweeps, reconciling, leftover>>

\* PutMeta has no deadline: it returns when the bucket answers.
TickerReturns ==
  /\ Up
  /\ ticker = "flushing"
  /\ ticker' = "waiting"
  /\ snapshot' \in {snapshot, clone}
  /\ UNCHANGED <<main, tried, stopping, minute, version, clone, jobs, sweeps, reconciling, leftover>>

\* Mutant: not before the catalog is flushed.
TickerLeavesClean ==
  /\ Up
  /\ ticker = "waiting"
  /\ stopping
  /\ snapshot = version
  /\ ticker' = "gone"
  /\ UNCHANGED <<main, tried, stopping, minute, version, snapshot, clone, jobs, sweeps, reconciling, leftover>>

TickerLeaves ==
  /\ Up
  /\ ticker = "waiting"
  /\ stopping
  /\ ticker' = "gone"
  /\ UNCHANGED <<main, tried, stopping, minute, version, snapshot, clone, jobs, sweeps, reconciling, leftover>>

----
(* The end.                                                                *)

Shutdown ==
  /\ main = "serving"
  /\ stopping
  /\ main' = "shutdown"
  /\ UNCHANGED <<tried, stopping, minute, catalogue, jobs, sweeps, reconciling, leftover>>

\* The requests are answered, or ten seconds are over.
ShutdownReturns ==
  /\ main = "shutdown"
  /\ main' = "closing"
  /\ UNCHANGED <<tried, stopping, minute, catalogue, jobs, sweeps, reconciling, leftover>>

Left ==
  \/ \E j \in Job : jobs[j] # "idle"
  \/ started # <<>>
  \/ cleaner # "gone"
  \/ reconciling

\* Mutant: what the ticker cloned last will do.
CloseWithLast ==
  /\ main = "closing"
  /\ ticker = "gone"
  /\ main' = "flushing"
  /\ leftover' = Left
  /\ UNCHANGED <<tried, stopping, minute, catalogue, jobs, sweeps, reconciling>>

\* Close waits for the ticker, then clones what there is to flush.
Close ==
  /\ main = "closing"
  /\ ticker = "gone"
  /\ main' = "flushing"
  /\ clone' = version
  /\ leftover' = Left
  /\ UNCHANGED <<tried, stopping, minute, version, snapshot, ticker, jobs, sweeps, reconciling>>

\* The bucket takes the snapshot, or an error or 15 seconds end the flush.
CloseReturns ==
  /\ main = "flushing"
  /\ \/ snapshot' = clone /\ main' = "exited"
     \/ snapshot' \in {snapshot, clone} /\ main' = "unsaved"
  /\ UNCHANGED <<tried, stopping, minute, version, ticker, clone, jobs, sweeps, reconciling, leftover>>

Fresh ==
  /\ tried = 0
  /\ stopping = FALSE
  /\ minute = 0
  /\ version = 0
  /\ snapshot = 0
  /\ ticker = "gone"
  /\ clone = 0
  /\ jobs = [j \in Job |-> "idle"]
  /\ cleaner = "gone"
  /\ reconciling = FALSE
  /\ lastRun = Never
  /\ started = <<>>
  /\ leftover = FALSE

ProcessInit == main \in {"bucket", "loading"} /\ Fresh

Main ==
  \/ BucketFails \/ BucketReady \/ LoadFails \/ Load
  \/ Shutdown \/ ShutdownReturns \/ Close \/ CloseReturns

Goroutines ==
  \/ \E j \in Job : Accept(j) \/ Save(j) \/ Answer(j) \/ MaybeRun(j) \/ CleanupNow(j)
  \/ RunEnds \/ Cleaner \/ Reconcile
  \/ TickerFlushes \/ TickerReturns \/ TickerLeaves

ProcessNext == Main \/ Goroutines \/ Stop \/ MinutePasses

\* main goes on, the bucket answers the ticker some time, and the ticker's select,
\* which chooses at random, does not choose the tick for ever.
ProcessFairness ==
  /\ WF_processVars(Main)
  /\ WF_processVars(TickerReturns)
  /\ SF_processVars(TickerLeaves)

ProcessSpec == ProcessInit /\ [][ProcessNext]_processVars /\ ProcessFairness

----

\* A process that ends and reports no failed flush has saved every change of the
\* catalog, provided that Shutdown did not run out of time and that no cleanup
\* and no reconcile, for which nobody waits, was left when Close took its copy.
CleanExitSavesAll == main = "exited" /\ ~leftover => snapshot = version

\* cleanup_test.go:57, TestMaybeRunDoesNotOverlap: within minGap there is no
\* second run.  A run may last two of them, so that three may overlap: what starts
\* them is throttled although requests race and other runs move lastRun.
OverlapIsBounded == Len(started) <= RunDeadline + 1

\* Whatever requests, cleanups and the bucket's errors do, a signal ends the
\* process, provided that the bucket answers the ticker's PutMeta at all.
SignalEndsProcess == stopping ~> main \in {"failed", "unsaved", "exited"}

====
