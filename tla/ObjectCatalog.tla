---- MODULE ObjectCatalog ----
(***************************************************************************)
(* The S3 catalog of internal/store/object.go: entries and statistics live *)
(* in memory and one snapshot object in the bucket is all that survives a  *)
(* process.  Modelled: every mutator, Load, the ticker goroutine of Start, *)
(* Flush with its two mutexes, Close, the answers S3 may give to PutMeta,  *)
(* and crashes and restarts of the process.                                *)
(*                                                                         *)
(* o.mu is never held across a call, so what runs under it is one step.    *)
(* o.flushMu is held across PutMeta, so a Flush is several steps.          *)
(***************************************************************************)
EXTENDS Integers, FiniteSetsExt

CONSTANTS
  Hash,        \* artifact hashes
  Day,         \* times, as precise as the calendar day bumpLocked formats
  Size,        \* artifact sizes
  Kind,        \* task kinds; the other TaskInfo fields merge the same way
  NoKind,      \* the empty string of TaskInfo.Kind
  NoEntry,     \* the zero Entry: the hash is not in o.entries
  NoSnapshot,  \* the snapshot object does not exist in the bucket
  Ticker,      \* the goroutine of Start
  Closer,      \* the goroutine that calls Close
  Direct,      \* goroutines that call the exported Flush themselves
  FlushEvery,  \* whether ObjectOptions.FlushInterval is positive
  MaxOps,      \* bound: mutations applied over all processes
  MaxFaults,   \* bound: failing PutMeta and GetMeta calls
  MaxStarts    \* bound: processes started

ASSUME FiniteAssumption == IsFiniteSet(Hash) /\ IsFiniteSet(Day)
ASSUME SizeAssumption == Size \subseteq Nat /\ 0 \in Size
ASSUME KindAssumption == NoKind \notin Kind
ASSUME FlusherAssumption ==
  /\ Ticker # Closer
  /\ Ticker \notin Direct
  /\ Closer \notin Direct
ASSUME FlushEveryAssumption == FlushEvery \in BOOLEAN
ASSUME BoundAssumption == MaxOps \in Nat /\ MaxFaults \in Nat /\ MaxStarts \in Nat

Flushers == {Ticker, Closer} \cup Direct
Counter == {"hits", "misses", "stores"}
Info == Kind \cup {NoKind}

Entry == [createdAt : Day, size : Nat, hits : Nat, kind : Info]
Entries == [Hash -> Entry \cup {NoEntry}]
Stats == [total : [Counter -> Nat], days : [Day -> [Counter -> Nat]]]

(* The bucket's snapshot object.  "ops" is a history: the mutations the    *)
(* snapshot contains.  It is carried along and never read by the program.  *)
Snapshot == [entries : Entries, stats : Stats, ops : SUBSET (1..MaxOps)]

ASSUME NoEntryAssumption == NoEntry \notin Entry
ASSUME NoSnapshotAssumption == NoSnapshot \notin Snapshot

VARIABLES
  phase,       \* "down": no process; "up"; "stopping": main's ctx is done
  loadFailed,  \* o.loadFailed
  dirty,       \* o.dirty
  entries,     \* o.entries
  stats,       \* o.stats
  ops,         \* history: the mutations in memory
  pc,          \* where each caller of Flush is
  snap,        \* the clone each caller of Flush holds
  started,     \* history: the mutations in memory when the call was made
  bucket,      \* the snapshot object in S3
  nextOp,      \* history: the number of mutations applied so far
  faults,      \* failing calls so far
  starts       \* processes started so far

memory == <<entries, stats, ops, nextOp>>
flush == <<pc, snap, started>>
vars == <<phase, loadFailed, dirty, entries, stats, ops, pc, snap, started,
          bucket, nextOp, faults, starts>>

(* "idle": not in Flush; "waiting": called, waits for flushMu; "put":      *)
(* PutMeta is under way; "failed": it returned an error and markDirty is   *)
(* next; "ok"/"err": Flush returned nil/an error; "exited": never calls    *)
(* again.                                                                  *)
Pc == {"idle", "waiting", "put", "failed", "ok", "err", "exited"}

\* o.flushMu is held by a caller that is between the clone and the return.
HoldsFlushMu(f) == pc[f] \in {"put", "failed"}

Running == phase # "down"

EmptyEntries == [h \in Hash |-> NoEntry]
ZeroCounters == [c \in Counter |-> 0]
EmptyStats == [total |-> ZeroCounters, days |-> [d \in Day |-> ZeroCounters]]
EmptySnapshot == [entries |-> EmptyEntries, stats |-> EmptyStats, ops |-> {}]

\* What a process finds in the bucket: NotFound is an empty catalog.
Stored == IF bucket = NoSnapshot THEN EmptySnapshot ELSE bucket

Clone == [entries |-> entries, stats |-> stats, ops |-> ops]

TypeOK ==
  /\ phase \in {"down", "up", "stopping"}
  /\ loadFailed \in BOOLEAN
  /\ dirty \in BOOLEAN
  /\ entries \in Entries
  /\ stats \in Stats
  /\ ops \in SUBSET (1..MaxOps)
  /\ pc \in [Flushers -> Pc]
  /\ snap \in [Flushers -> Snapshot]
  /\ started \in [Flushers -> SUBSET (1..MaxOps)]
  /\ bucket \in Snapshot \cup {NoSnapshot}
  /\ nextOp \in 0..MaxOps
  /\ faults \in Nat
  /\ starts \in Nat

----
(* The mutators.  Each holds o.mu from its first line to its last.         *)

BumpLocked(s, c, at) ==
  [total |-> [s.total EXCEPT ![c] = @ + 1],
   days  |-> [s.days EXCEPT ![at][c] = @ + 1]]

\* What every mutator that changes something ends with: o.dirty = true.
Mutate(newEntries, newStats) ==
  /\ Running
  /\ nextOp < MaxOps
  /\ entries' = newEntries
  /\ stats' = newStats
  /\ dirty' = TRUE
  /\ nextOp' = nextOp + 1
  /\ ops' = ops \cup {nextOp + 1}
  /\ UNCHANGED <<phase, loadFailed, flush, bucket, faults, starts>>

\* A non-empty field of the new TaskInfo replaces the old one.
MergeInfo(old, new) == IF new = NoKind THEN old ELSE new

\* Mutant: a re-upload starts a fresh entry.
UpsertedAnew(e, size, at, info) ==
  [createdAt |-> at, size |-> size, hits |-> 0, kind |-> info]

Upserted(e, size, at, info) ==
  IF e = NoEntry
  THEN [createdAt |-> at, size |-> size, hits |-> 0, kind |-> info]
  ELSE [e EXCEPT !.size = size, !.kind = MergeInfo(@, info)]

UpsertEntry(h, size, at, info) ==
  Mutate([entries EXCEPT ![h] = Upserted(@, size, at, info)],
         BumpLocked(stats, "stores", at))

\* Mutant: the entry a hit creates has the zero time.
HitWithoutTime(e, at) ==
  IF e = NoEntry
  THEN [createdAt |-> 0, size |-> 0, hits |-> 1, kind |-> NoKind]
  ELSE [e EXCEPT !.hits = @ + 1]

Hit(e, at) ==
  IF e = NoEntry
  THEN [createdAt |-> at, size |-> 0, hits |-> 1, kind |-> NoKind]
  ELSE [e EXCEPT !.hits = @ + 1]

RecordHit(h, at) ==
  Mutate([entries EXCEPT ![h] = Hit(@, at)], BumpLocked(stats, "hits", at))

RecordMiss(at) == Mutate(entries, BumpLocked(stats, "misses", at))

\* Delete returns early on an empty list and is dirty after any other.
Delete(hs) ==
  /\ hs # {}
  /\ Mutate([h \in Hash |-> IF h \in hs THEN NoEntry ELSE entries[h]], stats)

\* A present entry keeps its data; only a size that was never known is set.
EnsureEntry(h, size, at) ==
  \/ /\ entries[h] = NoEntry
     /\ Mutate([entries EXCEPT ![h] = Upserted(NoEntry, size, at, NoKind)], stats)
  \/ /\ entries[h] # NoEntry
     /\ entries[h].size = 0
     /\ size > 0
     /\ Mutate([entries EXCEPT ![h].size = size], stats)

UpdateTaskInfo(h, info) ==
  /\ entries[h] # NoEntry
  /\ Mutate([entries EXCEPT ![h].kind = MergeInfo(@, info)], stats)

Mutation ==
  \/ \E h \in Hash, at \in Day :
       \/ \E size \in Size, info \in Info : UpsertEntry(h, size, at, info)
       \/ RecordHit(h, at)
       \/ \E size \in Size : EnsureEntry(h, size, at)
  \/ \E at \in Day : RecordMiss(at)
  \/ \E hs \in SUBSET Hash : Delete(hs)
  \/ \E h \in Hash, info \in Info : UpdateTaskInfo(h, info)

----
(* Flush.                                                                  *)

\* The ticker fires while the process lives, after ctx.Done() too: select
\* picks at random when both channels are ready.  Close waits for the ticker.
MayCall(f) ==
  CASE f = Closer -> phase = "stopping" /\ pc[Ticker] = "exited"
    [] OTHER      -> Running

FlushCall(f) ==
  /\ pc[f] = "idle"
  /\ MayCall(f)
  /\ pc' = [pc EXCEPT ![f] = "waiting"]
  /\ started' = [started EXCEPT ![f] = ops]
  /\ UNCHANGED <<phase, loadFailed, dirty, memory, snap, bucket, faults, starts>>

\* Mutant: Flush without flushMu.
FlushMuNotUsed == TRUE

FlushMuFree == \A g \in Flushers : ~HoldsFlushMu(g)

\* ErrCatalogLoadFailed: a memory that was never filled is never written.
FlushRefused(f) ==
  /\ pc[f] = "waiting"
  /\ FlushMuFree
  /\ loadFailed
  /\ pc' = [pc EXCEPT ![f] = "err"]
  /\ UNCHANGED <<phase, loadFailed, dirty, memory, snap, started, bucket, faults, starts>>

FlushClean(f) ==
  /\ pc[f] = "waiting"
  /\ FlushMuFree
  /\ ~loadFailed
  /\ ~dirty
  /\ pc' = [pc EXCEPT ![f] = "ok"]
  /\ UNCHANGED <<phase, loadFailed, dirty, memory, snap, started, bucket, faults, starts>>

\* Mutant: Flush after a failed load.
FlushUnloaded(f) ==
  /\ pc[f] = "waiting"
  /\ FlushMuFree
  /\ dirty
  /\ snap' = [snap EXCEPT ![f] = Clone]
  /\ dirty' = FALSE
  /\ pc' = [pc EXCEPT ![f] = "put"]
  /\ UNCHANGED <<phase, loadFailed, memory, started, bucket, faults, starts>>

FlushClone(f) ==
  /\ pc[f] = "waiting"
  /\ FlushMuFree
  /\ ~loadFailed
  /\ dirty
  /\ snap' = [snap EXCEPT ![f] = Clone]
  /\ dirty' = FALSE
  /\ pc' = [pc EXCEPT ![f] = "put"]
  /\ UNCHANGED <<phase, loadFailed, memory, started, bucket, faults, starts>>

\* Mutant: dirty is cleared once the snapshot is written.
PutMetaThenClean(f) ==
  /\ pc[f] = "put"
  /\ bucket' = snap[f]
  /\ snap' = [snap EXCEPT ![f] = EmptySnapshot]
  /\ dirty' = FALSE
  /\ pc' = [pc EXCEPT ![f] = "ok"]
  /\ UNCHANGED <<phase, loadFailed, memory, started, faults, starts>>

\* Mutant: the clone shares the maps of o.stats.Days.
PutMetaSharedDays(f) ==
  /\ pc[f] = "put"
  /\ bucket' = [snap[f] EXCEPT !.stats.days = stats.days]
  /\ snap' = [snap EXCEPT ![f] = EmptySnapshot]
  /\ pc' = [pc EXCEPT ![f] = "ok"]
  /\ UNCHANGED <<phase, loadFailed, dirty, memory, started, faults, starts>>

PutMetaOk(f) ==
  /\ pc[f] = "put"
  /\ bucket' = snap[f]
  /\ snap' = [snap EXCEPT ![f] = EmptySnapshot]
  /\ pc' = [pc EXCEPT ![f] = "ok"]
  /\ UNCHANGED <<phase, loadFailed, dirty, memory, started, faults, starts>>

\* An error tells nothing about the object: the write may have been applied.
PutMetaError(f) ==
  /\ pc[f] = "put"
  /\ faults < MaxFaults
  /\ faults' = faults + 1
  /\ bucket' \in {bucket, snap[f]}
  /\ snap' = [snap EXCEPT ![f] = EmptySnapshot]
  /\ pc' = [pc EXCEPT ![f] = "failed"]
  /\ UNCHANGED <<phase, loadFailed, dirty, memory, started, starts>>

\* Mutant: a failed flush leaves the catalog clean.
MarkNothing(f) ==
  /\ pc[f] = "failed"
  /\ pc' = [pc EXCEPT ![f] = "err"]
  /\ UNCHANGED <<phase, loadFailed, dirty, memory, snap, started, bucket, faults, starts>>

MarkDirty(f) ==
  /\ pc[f] = "failed"
  /\ dirty' = TRUE
  /\ pc' = [pc EXCEPT ![f] = "err"]
  /\ UNCHANGED <<phase, loadFailed, memory, snap, started, bucket, faults, starts>>

\* The caller is done with the result; Close calls Flush once.
FlushReturn(f) ==
  /\ pc[f] \in {"ok", "err"}
  /\ pc' = [pc EXCEPT ![f] = IF f = Closer THEN "exited" ELSE "idle"]
  /\ started' = [started EXCEPT ![f] = {}]
  /\ UNCHANGED <<phase, loadFailed, dirty, memory, snap, bucket, faults, starts>>

FlushGoesOn(f) ==
  \/ FlushRefused(f)
  \/ FlushClean(f)
  \/ FlushClone(f)
  \/ PutMetaOk(f)
  \/ PutMetaError(f)
  \/ MarkDirty(f)
  \/ FlushReturn(f)

FlushStep(f) == FlushCall(f) \/ FlushGoesOn(f)

----
(* The process.                                                            *)

NoFlushUnderWay ==
  /\ snap' = [f \in Flushers |-> EmptySnapshot]
  /\ started' = [f \in Flushers |-> {}]

\* NewObject, then Load and Start.
Boot(failed, content) ==
  /\ phase = "down"
  /\ starts < MaxStarts
  /\ starts' = starts + 1
  /\ phase' = "up"
  /\ loadFailed' = failed
  /\ dirty' = FALSE
  /\ entries' = content.entries
  /\ stats' = content.stats
  /\ ops' = content.ops
  /\ pc' = [f \in Flushers |->
              IF f = Ticker /\ ~FlushEvery THEN "exited" ELSE "idle"]
  /\ NoFlushUnderWay
  /\ UNCHANGED <<bucket, nextOp>>

LoadOk == Boot(FALSE, Stored) /\ UNCHANGED faults

\* GetMeta or Unmarshal fails.  main exits on it (Crash); a caller that goes
\* on has an empty catalog that Flush refuses to write.
LoadError ==
  /\ faults < MaxFaults
  /\ faults' = faults + 1
  /\ Boot(TRUE, EmptySnapshot)

Cancel ==
  /\ phase = "up"
  /\ phase' = "stopping"
  /\ UNCHANGED <<loadFailed, dirty, memory, flush, bucket, faults, starts>>

TickerExit ==
  /\ phase = "stopping"
  /\ pc[Ticker] = "idle"
  /\ pc' = [pc EXCEPT ![Ticker] = "exited"]
  /\ UNCHANGED <<phase, loadFailed, dirty, memory, snap, started, bucket, faults, starts>>

\* The process ends and its memory with it.
Down ==
  /\ phase' = "down"
  /\ loadFailed' = FALSE
  /\ dirty' = FALSE
  /\ entries' = EmptyEntries
  /\ stats' = EmptyStats
  /\ ops' = {}
  /\ pc' = [f \in Flushers |-> "exited"]
  /\ NoFlushUnderWay
  /\ UNCHANGED <<nextOp, faults, starts>>

\* main returns after Close, exits, or is killed at any point: a PutMeta that
\* is under way reached S3 or did not.
Crash ==
  /\ Running
  /\ Down
  /\ \/ UNCHANGED bucket
     \/ \E f \in Flushers : pc[f] = "put" /\ bucket' = snap[f]

Init ==
  /\ phase = "down"
  /\ loadFailed = FALSE
  /\ dirty = FALSE
  /\ entries = EmptyEntries
  /\ stats = EmptyStats
  /\ ops = {}
  /\ pc = [f \in Flushers |-> "exited"]
  /\ snap = [f \in Flushers |-> EmptySnapshot]
  /\ started = [f \in Flushers |-> {}]
  /\ bucket = NoSnapshot
  /\ nextOp = 0
  /\ faults = 0
  /\ starts = 0

Next ==
  \/ Mutation
  \/ \E f \in Flushers : FlushStep(f)
  \/ LoadOk
  \/ LoadError
  \/ Cancel
  \/ TickerExit
  \/ Crash

Spec == Init /\ [][Next]_vars

\* main returns once Close has.
Exit == phase = "stopping" /\ pc[Closer] = "exited" /\ Crash

(* S3 answers every call and, MaxFaults errors aside, succeeds, so that a  *)
(* Flush once called goes on; the ticker keeps calling, Close is called    *)
(* and main returns after it.  Nobody else has to call Flush.              *)
FairSpec ==
  /\ Spec
  /\ \A f \in Flushers : WF_vars(FlushGoesOn(f))
  /\ WF_vars(FlushCall(Ticker)) /\ WF_vars(FlushCall(Closer))
  /\ WF_vars(Exit)

----
(* What the catalog promises.                                              *)

\* A Flush that returned nil has made every mutation that preceded the call
\* durable, also when another caller or a concurrent mutator got in between
\* (object.go:136-163: dirty is cleared before PutMeta, under flushMu).
FlushDurable == \A f \in Flushers : pc[f] = "ok" => started[f] \subseteq Stored.ops

\* A clean catalog with no flush under way is exactly what a restart would
\* load; while PutMeta is under way, it is exactly what is being written.  So
\* a Flush that skips PutMeta because the catalog is clean loses nothing.
CleanIsPersisted ==
  Running /\ ~loadFailed /\ ~dirty =>
    \/ FlushMuFree /\ Clone = Stored
    \/ \E f \in Flushers : pc[f] = "put" /\ Clone = snap[f]
    \/ \E f \in Flushers : pc[f] = "failed"

(* The inductive invariant behind these: who holds flushMu, and how the     *)
(* mutations in the bucket, in a clone and in memory contain each other.   *)
FlushMuIsExclusive ==
  \A f, g \in Flushers : HoldsFlushMu(f) /\ HoldsFlushMu(g) => f = g

CloneInBetween ==
  \A f \in Flushers : pc[f] = "put" =>
    /\ Stored.ops \subseteq snap[f].ops
    /\ started[f] \subseteq snap[f].ops
    /\ snap[f].ops \subseteq ops

InProcess ==
  \A f \in Flushers :
    /\ pc[f] # "exited" => Running
    /\ HoldsFlushMu(f) => ~loadFailed
    /\ started[f] \subseteq ops
    /\ pc[f] \in {"idle", "exited"} => started[f] = {}

MemoryIsAhead ==
  /\ Running /\ ~loadFailed => Stored.ops \subseteq ops
  /\ ops \cup Stored.ops \subseteq 1..nextOp

IInv ==
  /\ FlushMuIsExclusive
  /\ CloneInBetween
  /\ InProcess
  /\ MemoryIsAhead
  /\ CleanIsPersisted
  /\ FlushDurable

HitsOf(s, h) == IF s.entries[h] = NoEntry THEN 0 ELSE s.entries[h].hits

Agree(s) ==
  /\ \A c \in Counter : s.stats.total[c] = SumFunction([d \in Day |-> s.stats.days[d][c]])
  /\ SumFunction([h \in Hash |-> HitsOf(s, h)]) <= s.stats.total["hits"]

\* The snapshots there are: of memory, of the bucket, and in the flushes.
Held == {Clone, Stored} \cup {snap[f] : f \in Flushers}

\* The totals are the sums of the days and no entry has hits the totals lack:
\* in memory, in every clone a flush still holds while the mutators go on
\* (cloneLocked copies the days and does not share them), and in the bucket.
CountersAgree == \A s \in Held : Agree(s)

\* While an entry stays in the catalog its creation time is fixed, its hits
\* never drop and its classification is never erased, whichever mutators run.
EntriesKeepHistory ==
  [][\A h \in Hash :
       entries[h] # NoEntry /\ entries'[h] # NoEntry =>
         /\ entries'[h].createdAt = entries[h].createdAt
         /\ entries'[h].hits >= entries[h].hits
         /\ entries'[h].kind = NoKind => entries[h].kind = NoKind]_vars

(* The abstract specification: memory is the volatile store, except that   *)
(* what a process with a failed load holds was never accepted.  A write    *)
(* that was applied but reported as failed is a background write.          *)
Volatile == IF Running /\ ~loadFailed THEN ops ELSE Stored.ops

StatusOf(f) ==
  CASE pc[f] \in {"idle", "exited"} -> "idle"
    [] pc[f] \in {"ok", "err"}      -> pc[f]
    [] OTHER                        -> "called"

PromisedTo(f) ==
  IF ~loadFailed \/ pc[f] \in {"idle", "exited"} THEN started[f] ELSE Stored.ops

Promise == INSTANCE WriteBehind WITH
  Op <- 1..MaxOps,
  Caller <- Flushers,
  volatile <- Volatile,
  durable <- Stored.ops,
  status <- [f \in Flushers |-> StatusOf(f)],
  promised <- [f \in Flushers |-> PromisedTo(f)]

\* The snapshot catalog is a write-behind store: a successful Flush covers
\* all that preceded its call, a snapshot never loses what an earlier one
\* had, and a restart finds the last one.
ImplementsWriteBehind == Promise!Spec

\* A mutation is in the bucket sooner or later, or the process ended first.
EventuallyPersisted ==
  \A i \in 1..MaxOps : i \in ops /\ ~loadFailed ~> i \in Stored.ops \/ ~Running

\* No snapshot that replaces another drops a mutation the other had, across
\* failed writes, failed loads, crashes and restarts.
NothingForgotten == [][Stored.ops \subseteq Stored'.ops]_vars

====
