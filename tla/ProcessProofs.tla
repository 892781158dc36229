---- MODULE ProcessProofs ----
(***************************************************************************)
(* Proofs about Lifecycle, for any number of requests and any deadline,    *)
(* and about Metrics, for any size of the window and any durations.        *)
(***************************************************************************)
EXTENDS Lifecycle, Metrics, SumTheorems, TLAPS

----
(* The last flush.                                                         *)

\* While the last flush is under way its copy is the catalog, unless somebody
\* was left who may change it.
LastFlush ==
  /\ main = "flushing" => ticker = "gone"
  /\ main = "flushing" /\ ~leftover => clone = version /\ ~Left
  /\ CleanExitSavesAll

LEMMA LastFlushInit == ProcessInit => LastFlush
BY DEF ProcessInit, LastFlush, CleanExitSavesAll

\* Whoever changes the catalog is one of those Close looks for.
LEMMA OnlyTheLeftChange ==
  ASSUME Goroutines, ~Left
  PROVE  UNCHANGED version /\ (main = "flushing" => ~Left')
<1> USE DEF Left, catalogue, sweeps
<1>1. ASSUME NEW j \in Job, Accept(j) \/ Save(j) \/ Answer(j) \/ MaybeRun(j) \/ CleanupNow(j)
      PROVE  UNCHANGED version /\ (main = "flushing" => ~Left')
  BY <1>1 DEF Accept, Save, Answer, MaybeRun, CleanupNow
<1>2. ~RunEnds /\ ~Cleaner /\ ~Reconcile
  BY DEF RunEnds, Cleaner, Reconcile
<1>3. CASE TickerFlushes \/ TickerReturns \/ TickerLeaves
  BY <1>3 DEF TickerFlushes, TickerReturns, TickerLeaves
<1>4. QED BY <1>1, <1>2, <1>3 DEF Goroutines

LEMMA LastFlushNext == LastFlush /\ [ProcessNext]_processVars => LastFlush'
<1> SUFFICES ASSUME LastFlush, [ProcessNext]_processVars PROVE LastFlush'
  OBVIOUS
<1>1. CASE Main
  <2>1. CASE Close
    BY <2>1 DEF Close, LastFlush, CleanExitSavesAll, Left, sweeps
  <2>2. CASE CloseReturns
    BY <2>2 DEF CloseReturns, LastFlush, CleanExitSavesAll
  <2>3. CASE BucketFails \/ BucketReady \/ LoadFails \/ Load \/ Shutdown \/ ShutdownReturns
    BY <2>3
       DEF BucketFails, BucketReady, LoadFails, Load, Shutdown, ShutdownReturns, LastFlush,
           CleanExitSavesAll
  <2>4. QED BY <1>1, <2>1, <2>2, <2>3 DEF Main
<1>2. CASE Goroutines
  <2>1. /\ UNCHANGED <<main, leftover>>
        /\ main # "exited"
        /\ ticker = "gone" => UNCHANGED <<ticker, clone>>
    BY <1>2
       DEF Goroutines, Accept, Save, Answer, MaybeRun, CleanupNow, RunEnds, Cleaner, Reconcile,
           TickerFlushes, TickerReturns, TickerLeaves, Changed, catalogue, Up
  <2>2. QED BY <1>2, <2>1, OnlyTheLeftChange DEF LastFlush, CleanExitSavesAll
<1>3. CASE Stop \/ MinutePasses \/ UNCHANGED processVars
  BY <1>3 DEF Stop, MinutePasses, processVars, catalogue, sweeps, LastFlush, CleanExitSavesAll, Left
<1>4. QED BY <1>1, <1>2, <1>3 DEF ProcessNext

\* A process that ends without an error of the last flush has saved every change
\* (main and its deferred Close), unless goroutines were left when Close copied.
THEOREM CleanExitsSave == ProcessSpec => []CleanExitSavesAll
<1>1. LastFlush => CleanExitSavesAll
  BY DEF LastFlush
<1>2. QED BY <1>1, LastFlushInit, LastFlushNext, PTL DEF ProcessSpec

----
(* Overlapping cleanups.                                                   *)

\* The goroutines of MaybeRun are apart by a minute, none is older than its
\* deadline, and the throttle remembers the youngest.
Throttled ==
  /\ minute \in Nat
  /\ started \in Seq(Nat)
  /\ lastRun \in Nat \cup {Never}
  /\ lastRun # Never => lastRun <= minute
  /\ started # <<>> => lastRun # Never
  /\ \A i \in 1..Len(started) :
       /\ started[i] <= lastRun
       /\ minute - started[i] <= RunDeadline
       /\ \A j \in 1..Len(started) : i < j => started[j] - started[i] >= j - i

LEMMA ThrottledInit == ProcessInit => Throttled
BY DEF ProcessInit, Fresh, Throttled

LEMMA MaybeRunThrottled ==
  ASSUME Throttled, NEW j \in Job, MaybeRun(j)
  PROVE  Throttled'
<1> USE DEF Throttled
<1>1. /\ started' = Append(started, minute)
      /\ lastRun' = minute
      /\ minute' = minute
      /\ lastRun = Never \/ minute - lastRun >= 1
  BY DEF MaybeRun
<1>2. /\ Len(started') = Len(started) + 1
      /\ started' \in Seq(Nat)
      /\ started'[Len(started) + 1] = minute
      /\ \A i \in 1..Len(started) : started'[i] = started[i]
  BY <1>1
<1>3. \A i \in 1..Len(started) : started[i] \in Nat /\ minute - started[i] >= 1
  BY <1>1, NeverAssumption
<1>4. \A i \in 1..Len(started) : minute - started[i] >= Len(started) + 1 - i
  <2>1. SUFFICES ASSUME NEW i \in 1..Len(started)
                 PROVE  minute - started[i] >= Len(started) + 1 - i
    OBVIOUS
  <2>2. Len(started) \in 1..Len(started) /\ started[Len(started)] \in Nat /\ started[i] \in Nat
    OBVIOUS
  <2>3. minute - started[Len(started)] >= 1
    BY <1>3, <2>2
  <2>4. i = Len(started) \/ started[Len(started)] - started[i] >= Len(started) - i
    BY <2>2
  <2>5. minute \in Nat /\ Len(started) \in Nat /\ i \in Int
    OBVIOUS
  <2>6. CASE i = Len(started)
    BY ONLY <2>3, <2>5, <2>6
  <2>7. CASE started[Len(started)] - started[i] >= Len(started) - i
    BY ONLY <2>2, <2>3, <2>5, <2>7
  <2>8. QED BY <2>4, <2>6, <2>7
<1>5. ASSUME NEW i \in 1..Len(started')
      PROVE  /\ started'[i] <= minute
             /\ minute - started'[i] <= RunDeadline
             /\ \A k \in 1..Len(started') : i < k => started'[k] - started'[i] >= k - i
  <2>1. /\ minute \in Nat /\ Len(started) \in Nat /\ RunDeadline \in Nat
        /\ i \in 1..Len(started) \/ i = Len(started) + 1
    BY <1>2, TriesAssumption
  <2>2. CASE i = Len(started) + 1
    <3>1. started'[i] = minute /\ \A k \in 1..Len(started') : ~(i < k)
      BY ONLY <1>2, <2>1, <2>2
    <3>2. QED BY ONLY <2>1, <3>1
  <2>3. CASE i \in 1..Len(started)
    <3>1. /\ started'[i] = started[i] /\ started[i] \in Nat /\ minute - started[i] >= 1
          /\ minute - started[i] <= RunDeadline
          /\ \A k \in 1..Len(started) : i < k => started[k] - started[i] >= k - i
      BY <1>2, <1>3, <2>3
    <3>2. minute - started[i] >= Len(started) + 1 - i
      BY <1>4, <2>3
    <3>3. ASSUME NEW k \in 1..Len(started'), i < k
          PROVE  started'[k] - started'[i] >= k - i
      <4>1. CASE k = Len(started) + 1
        BY ONLY <1>2, <2>1, <3>1, <3>2, <4>1
      <4>2. CASE k \in 1..Len(started)
        <5>1. started'[k] = started[k] /\ started[k] - started[i] >= k - i
          BY <1>2, <3>1, <3>3, <4>2
        <5>2. QED BY <3>1, <5>1
      <4>3. k = Len(started) + 1 \/ k \in 1..Len(started)
        BY ONLY <1>2, <2>1, <3>3
      <4>4. QED BY <4>1, <4>2, <4>3
    <3>4. started[i] <= minute
      BY ONLY <2>1, <3>1
    <3>5. QED BY <3>1, <3>3, <3>4
  <2>4. QED BY <2>1, <2>2, <2>3
<1>6. minute' \in Nat /\ minute' = minute /\ lastRun' = minute /\ lastRun' # Never
  BY <1>1, NeverAssumption
<1>7. QED BY ONLY <1>2, <1>5, <1>6 DEF Throttled

LEMMA ConcatenationType ==
  ASSUME NEW s \in Seq(Nat), NEW t \in Seq(Nat)
  PROVE  /\ s \o t \in Seq(Nat) /\ Len(s \o t) = Len(s) + Len(t)
         /\ \A i \in 1..(Len(s) + Len(t)) :
              (s \o t)[i] = IF i <= Len(s) THEN s[i] ELSE t[i - Len(s)]
OBVIOUS

LEMMA RunEndsThrottled ==
  ASSUME Throttled, RunEnds
  PROVE  Throttled'
<1> USE DEF Throttled
<1>1. UNCHANGED <<minute, lastRun>>
  BY DEF RunEnds
<1>2. PICK k \in 1..Len(started) : started' = RemoveAt(started, k)
  BY DEF RunEnds
<1>3. /\ Len(started') = Len(started) - 1
      /\ started' \in Seq(Nat)
      /\ \A i \in 1..Len(started') : started'[i] = started[IF i < k THEN i ELSE i + 1]
  <2> DEFINE front == SubSeq(started, 1, k - 1)
             rest == SubSeq(started, k + 1, Len(started))
  <2>1. /\ front \in Seq(Nat) /\ Len(front) = k - 1
        /\ \A i \in 1..(k - 1) : front[i] = started[i]
    OBVIOUS
  <2>2. /\ rest \in Seq(Nat) /\ Len(rest) = Len(started) - k
        /\ \A i \in 1..(Len(started) - k) : rest[i] = started[k + i]
    OBVIOUS
  <2>3. started' = front \o rest
    BY <1>2 DEF RemoveAt
  <2> HIDE DEF front, rest
  <2>4. /\ started' \in Seq(Nat)
        /\ Len(started') = Len(started) - 1
        /\ Len(started) \in Nat
    <3>1. started' \in Seq(Nat) /\ Len(started') = Len(front) + Len(rest)
      BY <2>1, <2>2, <2>3, ConcatenationType
    <3>2. Len(started) \in Nat
      OBVIOUS
    <3>3. QED BY <2>1, <2>2, <3>1, <3>2
  <2>5. \A i \in 1..Len(started') :
          started'[i] = IF i < k THEN front[i] ELSE rest[i - (k - 1)]
    <3>1. front \in Seq(Nat) /\ rest \in Seq(Nat) /\ Len(front) = k - 1
      BY <2>1, <2>2
    <3>2. /\ Len(started') = Len(front) + Len(rest)
          /\ \A i \in 1..(Len(front) + Len(rest)) :
               started'[i] = IF i <= Len(front) THEN front[i] ELSE rest[i - Len(front)]
      BY ONLY <2>3, <3>1, ConcatenationType
    <3>3. k \in Int
      OBVIOUS
    <3>4. QED BY ONLY <3>1, <3>2, <3>3
  <2>6. \A i \in 1..Len(started') : ~(i < k) => i - (k - 1) \in 1..(Len(started) - k)
    BY <2>4
  <2>7. ASSUME NEW i \in 1..Len(started')
        PROVE  started'[i] = started[IF i < k THEN i ELSE i + 1]
    <3>1. CASE i < k
      BY <2>1, <2>5, <3>1
    <3>2. CASE ~(i < k)
      <4>1. i - (k - 1) \in 1..(Len(started) - k) /\ k + (i - (k - 1)) = i + 1
        BY <2>4, <2>6, <3>2
      <4>2. started'[i] = rest[i - (k - 1)]
        BY <2>5, <3>2
      <4>3. QED BY <2>2, <3>2, <4>1, <4>2
    <3>3. QED BY <3>1, <3>2
  <2>8. QED BY <2>4, <2>7
<1> DEFINE was(i) == IF i < k THEN i ELSE i + 1
<1>4. /\ \A i \in 1..Len(started') : was(i) \in 1..Len(started)
      /\ \A i, j \in 1..Len(started') : i < j => was(i) < was(j) /\ was(j) - was(i) >= j - i
  <2>1. Len(started) \in Nat /\ k \in 1..Len(started) /\ Len(started') = Len(started) - 1
    BY <1>3
  <2>2. QED BY ONLY <2>1
<1>5. ASSUME NEW i \in 1..Len(started')
      PROVE  /\ started'[i] <= lastRun
             /\ minute - started'[i] <= RunDeadline
             /\ \A j \in 1..Len(started') : i < j => started'[j] - started'[i] >= j - i
  <2>1. started'[i] = started[was(i)] /\ was(i) \in 1..Len(started)
    BY <1>3, <1>4
  <2>2. ASSUME NEW j \in 1..Len(started'), i < j
        PROVE  started'[j] - started'[i] >= j - i
    <3>1. started'[j] = started[was(j)] /\ was(j) \in 1..Len(started)
      BY <1>3, <1>4
    <3>2. was(i) < was(j) /\ was(j) - was(i) >= j - i
      BY <1>4, <2>2
    <3> HIDE DEF was
    <3>3. started[was(j)] - started[was(i)] >= was(j) - was(i)
      BY <2>1, <3>1, <3>2
    <3>4. /\ started[was(i)] \in Nat /\ started[was(j)] \in Nat
          /\ was(i) \in Int /\ was(j) \in Int /\ i \in Int /\ j \in Int
      <4>1. \A m \in 1..Len(started) : started[m] \in Nat /\ m \in Int
        BY DEF Throttled
      <4>2. i \in Int /\ j \in Int
        OBVIOUS
      <4>3. was(i) \in 1..Len(started) /\ was(j) \in 1..Len(started)
        BY <2>1, <3>1
      <4>4. QED BY ONLY <4>1, <4>2, <4>3
    <3>5. QED BY ONLY <2>1, <3>1, <3>2, <3>3, <3>4
  <2> HIDE DEF was
  <2>3. QED BY <2>1, <2>2
<1>6. started' # <<>> => started # <<>>
  BY <1>2
<1>7. QED BY <1>1, <1>3, <1>5, <1>6

LEMMA ThrottledNext == Throttled /\ [ProcessNext]_processVars => Throttled'
<1> SUFFICES ASSUME Throttled, [ProcessNext]_processVars PROVE Throttled'
  OBVIOUS
<1>1. ASSUME NEW j \in Job, MaybeRun(j)
      PROVE  Throttled'
  BY <1>1, MaybeRunThrottled
<1>2. CASE RunEnds
  BY <1>2, RunEndsThrottled
<1>3. ASSUME UNCHANGED <<minute, started>>, lastRun' = minute
      PROVE  Throttled'
  BY <1>3, NeverAssumption DEF Throttled
<1>4. ASSUME NEW j \in Job, CleanupNow(j)
      PROVE  Throttled'
  BY <1>3, <1>4 DEF CleanupNow
<1>5. CASE Cleaner \/ Load
  BY <1>3, <1>5 DEF Cleaner, Load, Throttled
<1>6. CASE MinutePasses
  <2>1. /\ minute' = minute + 1
        /\ UNCHANGED <<started, lastRun>>
        /\ \A i \in 1..Len(started) : minute - started[i] < RunDeadline
    BY <1>6 DEF MinutePasses, sweeps, Throttled
  <2>2. QED BY <2>1, TriesAssumption, NeverAssumption DEF Throttled
<1>7. CASE UNCHANGED <<minute, sweeps>>
  BY <1>7 DEF Throttled, sweeps
<1>8. QED
  BY <1>1, <1>2, <1>4, <1>5, <1>6, <1>7
     DEF ProcessNext, Main, Goroutines, BucketFails, BucketReady, LoadFails, Shutdown,
         ShutdownReturns, Close, CloseReturns, Accept, Save, Answer, Reconcile, TickerFlushes,
         TickerReturns, TickerLeaves, Stop, processVars

\* Runs that MaybeRun starts overlap no further than their deadline allows,
\* although requests race and the cleaner's own runs move lastRun (cleanup.go).
THEOREM RunsHardlyOverlap == ProcessSpec => []OverlapIsBounded
<1>1. Throttled => OverlapIsBounded
  <2> SUFFICES ASSUME Throttled, Len(started) > 1 PROVE Len(started) <= RunDeadline + 1
    BY TriesAssumption DEF OverlapIsBounded, Throttled
  <2>1. /\ started[1] \in Nat /\ started[Len(started)] \in Nat
        /\ started[Len(started)] - started[1] >= Len(started) - 1
        /\ started[Len(started)] <= minute
        /\ minute - started[1] <= RunDeadline
    BY NeverAssumption DEF Throttled
  <2>2. QED BY <2>1, TriesAssumption DEF Throttled
<1>2. QED BY <1>1, ThrottledInit, ThrottledNext, PTL DEF ProcessSpec

----
(* The window of durations.                                                *)

\* The samples are the last of the observed durations.
Before == Len(observed) - Len(samples)

Window ==
  /\ observed \in Seq(Nat) /\ samples \in Seq(Nat)
  /\ Len(samples) = IF Len(observed) > SampleLimit THEN SampleLimit ELSE Len(observed)
  /\ \A i \in 1..Len(samples) : samples[i] = observed[Before + i]

LEMMA WindowInit == CollectorInit => Window
BY SampleLimitAssumption DEF CollectorInit, Window, Before

LEMMA WindowNext == Window /\ [CollectorNext]_collector => Window'
<1> SUFFICES ASSUME Window, [CollectorNext]_collector PROVE Window'
  OBVIOUS
<1>1. CASE UNCHANGED collector
  BY <1>1 DEF collector, Window, Before
<1>2. ASSUME NEW d \in Duration, Observe(d) PROVE Window'
  <2> DEFINE e == Clamp(d)
  <2>1. e \in Nat
    BY SampleLimitAssumption DEF Clamp
  <2> HIDE DEF e
  <2>2. /\ observed' = Append(observed, e)
        /\ samples' = Append(IF Len(samples) = SampleLimit THEN Tail(samples) ELSE samples, e)
    BY <1>2 DEF Observe, e
  <2>3. /\ observed' \in Seq(Nat) /\ Len(observed') = Len(observed) + 1
        /\ observed'[Len(observed) + 1] = e
        /\ \A i \in 1..Len(observed) : observed'[i] = observed[i]
    BY <2>1, <2>2 DEF Window
  <2>4. CASE Len(samples) = SampleLimit
    <3>1. /\ Tail(samples) \in Seq(Nat) /\ Len(Tail(samples)) = SampleLimit - 1
          /\ \A i \in 1..(SampleLimit - 1) : Tail(samples)[i] = samples[i + 1]
      BY <2>4, SampleLimitAssumption DEF Window
    <3>2. /\ samples' \in Seq(Nat) /\ Len(samples') = SampleLimit
          /\ samples'[SampleLimit] = e
          /\ \A i \in 1..(SampleLimit - 1) : samples'[i] = samples[i + 1]
      BY <2>1, <2>2, <2>4, <3>1, SampleLimitAssumption
    <3>3. Before \in Nat /\ Before' = Before + 1 /\ Before' + SampleLimit = Len(observed) + 1
      <4>1. Before = Len(observed) - SampleLimit /\ Before' = Len(observed') - SampleLimit
        BY <2>4, <3>2 DEF Before
      <4>2. Len(observed) \in Nat /\ Len(observed) >= SampleLimit
        BY <2>4, SampleLimitAssumption DEF Window
      <4>3. QED BY <2>3, <4>1, <4>2, SampleLimitAssumption
    <3>4. ASSUME NEW i \in 1..SampleLimit PROVE samples'[i] = observed'[Before' + i]
      <4>1. CASE i = SampleLimit
        BY <2>3, <3>2, <3>3, <4>1
      <4>2. CASE i < SampleLimit
        <5>1. i + 1 \in 1..Len(samples) /\ Before + (i + 1) = Before' + i
          BY <2>4, <3>3, <4>2, SampleLimitAssumption
        <5>2. samples'[i] = observed[Before' + i]
          <6>1. i \in 1..(SampleLimit - 1)
            BY <4>2, SampleLimitAssumption
          <6>2. samples'[i] = samples[i + 1]
            BY <3>2, <6>1
          <6>3. samples[i + 1] = observed[Before + (i + 1)]
            BY <5>1 DEF Window
          <6>4. QED BY <5>1, <6>2, <6>3
        <5>3. Before' + i \in 1..Len(observed)
          BY <3>3, <4>2, SampleLimitAssumption DEF Window
        <5>4. QED BY <2>3, <5>2, <5>3
      <4>3. QED BY <4>1, <4>2, SampleLimitAssumption
    <3>5. Len(observed) >= SampleLimit
      BY <2>4, SampleLimitAssumption DEF Window
    <3>6. QED BY <2>3, <3>2, <3>4, <3>5, SampleLimitAssumption DEF Window
  <2>5. CASE Len(samples) # SampleLimit
    <3>1. Len(samples) = Len(observed) /\ Len(observed) < SampleLimit /\ Before = 0
      BY <2>5, SampleLimitAssumption DEF Window, Before
    <3>2. /\ samples' \in Seq(Nat) /\ Len(samples') = Len(samples) + 1
          /\ samples'[Len(samples) + 1] = e
          /\ \A i \in 1..Len(samples) : samples'[i] = samples[i]
      BY <2>1, <2>2, <2>5 DEF Window
    <3>3. Before' = 0 /\ Len(observed') <= SampleLimit
      BY <2>3, <3>1, <3>2, SampleLimitAssumption DEF Before, Window
    <3>4. \A i \in 1..Len(samples') : samples'[i] = observed'[Before' + i]
      <4>1. \A i \in 1..Len(samples) : samples[i] = observed[i]
        BY <3>1 DEF Window
      <4>2. Len(samples) \in Nat
        BY DEF Window
      <4>3. ASSUME NEW i \in 1..Len(samples') PROVE samples'[i] = observed'[i]
        <5>1. i \in 1..Len(samples) \/ i = Len(samples) + 1
          BY <3>2, <4>2
        <5>2. QED BY <2>3, <3>1, <3>2, <4>1, <5>1
      <4>4. QED BY <3>3, <4>3
    <3>5. QED BY <2>3, <3>1, <3>2, <3>3, <3>4, SampleLimitAssumption DEF Window
  <2>6. QED BY <2>4, <2>5
<1>3. QED BY <1>1, <1>2 DEF CollectorNext

\* The samples in ascending order, and the place each of them comes from.
LEMMA SortedIsOrdered ==
  ASSUME NEW n \in Nat, NEW s \in [1..n -> Nat]
  PROVE  /\ \A i, j \in 1..n : i <= j => Sorted(s)[i] <= Sorted(s)[j]
         /\ \E from \in Bijection(1..n, 1..n) : \A i \in 1..n : Sorted(s)[i] = s[from[i]]
<1> DEFINE Good(t) ==
             /\ \A i, j \in DOMAIN s : i <= j => t[i] <= t[j]
             /\ \E from \in Bijection(DOMAIN s, DOMAIN s) : \A i \in DOMAIN s : t[i] = s[from[i]]
<1>1. DOMAIN s = 1..n /\ s \in [1..n -> Int]
  OBVIOUS
<1>2. PICK from \in Bijection(1..n, 1..n) : \A i, j \in 1..n : i <= j => s[from[i]] <= s[from[j]]
  BY <1>1, SomeOrderSorts
<1>3. from \in [1..n -> 1..n]
  BY DEF Bijection, Injection
<1> DEFINE t == [i \in 1..n |-> s[from[i]]]
<1>4. \A i \in 1..n : t[i] = s[from[i]]
  OBVIOUS
<1>5. t \in [DOMAIN s -> Range(s)]
  BY <1>1, <1>3 DEF Range
<1> HIDE DEF t
<1>6. Good(t)
  BY <1>1, <1>2, <1>4
<1>7. Sorted(s) = CHOOSE x \in [DOMAIN s -> Range(s)] : Good(x)
  BY DEF Sorted
<1> HIDE DEF Good
<1>8. Good(Sorted(s))
  BY <1>5, <1>6, <1>7
<1>9. QED BY <1>1, <1>8 DEF Good

\* As many of the durations are in A as there are places they come from.
ComeFrom(A, T, m, off, from) ==
  /\ A \subseteq (off + 1)..(off + m) /\ T \subseteq 1..m
  /\ \A j \in 1..m : off + from[j] \in A => j \in T

LEMMA PlacesBound ==
  ASSUME NEW m \in Nat, NEW off \in Nat, NEW from \in Bijection(1..m, 1..m),
         NEW A, NEW T, ComeFrom(A, T, m, off, from)
  PROVE  Cardinality(A) \in Nat /\ Cardinality(A) <= Cardinality(T)
<1>0. /\ A \in SUBSET ((off + 1)..(off + m)) /\ T \in SUBSET (1..m)
      /\ \A j \in 1..m : off + from[j] \in A => j \in T
  BY DEF ComeFrom
<1>1. IsFiniteSet(T) /\ IsFiniteSet((off + 1)..(off + m))
  <2>1. IsFiniteSet(1..m) /\ IsFiniteSet((off + 1)..(off + m))
    BY FS_Interval
  <2>2. QED BY <1>0, <2>1, FS_Subset
<1>2. IsFiniteSet(A)
  BY <1>0, <1>1, FS_Subset
<1>3. /\ from \in [1..m -> 1..m]
      /\ \A i \in 1..m : \E j \in 1..m : from[j] = i
  BY DEF Bijection, Injection, Surjection
<1> DEFINE place == [i \in A |-> CHOOSE j \in 1..m : from[j] = i - off]
<1>4. ASSUME NEW i \in A
      PROVE  place[i] \in 1..m /\ from[place[i]] = i - off
  <2>1. i - off \in 1..m
    BY <1>0
  <2>2. QED BY <1>3, <2>1
<1>5. ASSUME NEW i \in A PROVE place[i] \in T
  <2>1. off + from[place[i]] = i
    BY <1>0, <1>4
  <2>2. QED BY <1>0, <1>4, <2>1
<1>6. place \in [A -> T]
  BY <1>5
<1>7. \A i, j \in A : place[i] = place[j] => i = j
  BY <1>0, <1>4
<1> HIDE DEF place
<1>8. place \in Injection(A, T)
  BY <1>6, <1>7 DEF Injection, IsInjective
<1>9. QED BY <1>1, <1>2, <1>8, FS_Injection, FS_CardinalityType

LEMMA IndexBounds ==
  ASSUME NEW m \in Nat \ {0}, NEW p \in {50, 95}
  PROVE  /\ Index(m, p) \in 1..m
         /\ (Index(m, p) - 1) * 100 <= (m - 1) * p
         /\ (m - 1) * p < Index(m, p) * 100
<1>1. CASE p = 50
  BY <1>1 DEF Index
<1>2. CASE p = 95
  BY <1>2 DEF Index
<1>3. QED BY <1>1, <1>2

\* How many of the latest durations are smaller and larger.
Span == (Before + 1)..(Before + Len(samples))
Below(v) == Cardinality({i \in Span : observed[i] < v})
Above(v) == Cardinality({i \in Span : observed[i] > v})

\* The percentile has its place in the window: no more samples below it than
\* places in front, no more above it than places behind.
LEMMA PercentileHasItsPlace ==
  ASSUME Window, samples # <<>>, NEW p \in {50, 95}
  PROVE  /\ Below(Percentile(p)) \in 0..(Index(Len(samples), p) - 1)
         /\ Above(Percentile(p)) \in 0..(Len(samples) - Index(Len(samples), p))
<1> DEFINE m == Len(samples)
           s == samples
           span == (Before + 1)..(Before + m)
           k == Index(m, p)
           v == Percentile(p)
           lower == {i \in span : observed[i] < v}
           upper == {i \in span : observed[i] > v}
<1>1. /\ m \in Nat \ {0} /\ s \in [1..m -> Nat] /\ Before \in Nat
      /\ \A i \in 1..m : s[i] = observed[Before + i]
  <2>1. m \in Nat /\ s \in [1..m -> Nat] /\ m # 0
    BY DEF Window
  <2>2. Before \in Nat
    BY SampleLimitAssumption DEF Window, Before
  <2>3. QED BY <2>1, <2>2 DEF Window
<1>2. k \in 1..m
  BY <1>1, IndexBounds
<1>3. v = Sorted(s)[k]
  BY DEF Percentile
<1> HIDE DEF m, s, k, v
<1>4. \A i, j \in 1..m : i <= j => Sorted(s)[i] <= Sorted(s)[j]
  BY <1>1, SortedIsOrdered
<1>5. PICK from \in Bijection(1..m, 1..m) : \A i \in 1..m : Sorted(s)[i] = s[from[i]]
  <2>1. m \in Nat /\ s \in [1..m -> Nat]
    BY <1>1
  <2>2. QED BY ONLY <2>1, SortedIsOrdered
<1>6. from \in [1..m -> 1..m]
  BY DEF Bijection, Injection
<1>7. ASSUME NEW j \in 1..m
      PROVE  observed[Before + from[j]] = Sorted(s)[j] /\ Sorted(s)[j] \in Nat
  <2>1. Sorted(s)[j] = s[from[j]] /\ from[j] \in 1..m
    BY <1>5, <1>6
  <2>2. s[from[j]] \in Nat /\ s[from[j]] = observed[Before + from[j]]
    BY <1>1, <2>1
  <2>3. QED BY ONLY <2>1, <2>2
<1>8. ASSUME NEW j \in 1..m, Before + from[j] \in lower PROVE j \in 1..(k - 1)
  <2>1. Sorted(s)[j] < Sorted(s)[k]
    BY <1>3, <1>7, <1>8
  <2>2. ~(k <= j)
    BY <1>2, <1>4, <1>7, <2>1
  <2>3. QED BY <1>1, <1>2, <2>2
<1>9. ASSUME NEW j \in 1..m, Before + from[j] \in upper PROVE j \in (k + 1)..m
  <2>1. Sorted(s)[k] < Sorted(s)[j]
    BY <1>3, <1>7, <1>9
  <2>2. ~(j <= k)
    BY <1>2, <1>4, <1>7, <2>1
  <2>3. QED BY <1>1, <1>2, <2>2
<1>10. lower \in SUBSET span /\ upper \in SUBSET span
  OBVIOUS
<1> HIDE DEF lower, upper
<1>11. Cardinality(lower) \in Nat /\ Cardinality(lower) <= Cardinality(1..(k - 1))
  <2>1. 1..(k - 1) \subseteq 1..m
    BY <1>1, <1>2
  <2>2. ComeFrom(lower, 1..(k - 1), m, Before, from)
    BY <1>8, <1>10, <2>1 DEF ComeFrom
  <2>3. QED BY <1>1, <2>2, PlacesBound
<1>12. Cardinality(upper) \in Nat /\ Cardinality(upper) <= Cardinality((k + 1)..m)
  <2>1. (k + 1)..m \subseteq 1..m
    BY <1>1, <1>2
  <2>2. ComeFrom(upper, (k + 1)..m, m, Before, from)
    BY <1>9, <1>10, <2>1 DEF ComeFrom
  <2>3. QED BY <1>1, <2>2, PlacesBound
<1>13. Cardinality(1..(k - 1)) = k - 1 /\ Cardinality((k + 1)..m) = m - k
  <2>1. k \in Int /\ m \in Int /\ k - 1 \in Int /\ k + 1 \in Int /\ 1 <= k /\ k <= m
    BY <1>1, <1>2
  <2>2. /\ Cardinality(1..(k - 1)) = IF 1 > k - 1 THEN 0 ELSE (k - 1) - 1 + 1
        /\ Cardinality((k + 1)..m) = IF k + 1 > m THEN 0 ELSE m - (k + 1) + 1
    BY <2>1, FS_Interval
  <2>3. QED BY <2>1, <2>2
<1>14. Cardinality(lower) \in 0..(k - 1) /\ Cardinality(upper) \in 0..(m - k)
  BY <1>1, <1>2, <1>11, <1>12, <1>13
<1>15. QED BY <1>14 DEF m, k, v, lower, upper, Below, Above, Span

\* The percentiles the dashboard shows are ranks among the latest durations,
\* for any size of the window (observe, summarize and percentile of metrics.go).
THEOREM RanksAreExact == CollectorSpec => []PercentilesAreRanks
<1>1. Window => PercentilesAreRanks
  <2> DEFINE n == Len(observed)
             m == Len(samples)
             first == IF n > SampleLimit THEN n - SampleLimit + 1 ELSE 1
  <2> SUFFICES ASSUME Window, NEW p \in {50, 95}, n > 0
               PROVE  LET value == Percentile(p)
                          below == Cardinality({i \in first..n : observed[i] < value})
                          above == Cardinality({i \in first..n : observed[i] > value})
                      IN /\ below + above < n - first + 1
                         /\ below * 100 <= (n - first) * p
                         /\ (n - first) * p < (n - first + 1 - above) * 100
    BY DEF PercentilesAreRanks
  <2>1. n \in Nat /\ m \in Nat \ {0} /\ n >= m /\ Before = n - m /\ samples # <<>>
    BY SampleLimitAssumption DEF Window, Before
  <2>2. first = n - m + 1
    BY SampleLimitAssumption DEF Window
  <2>3. first..n = (Before + 1)..(Before + m)
    BY <2>1, <2>2
  <2> DEFINE below == Cardinality({i \in first..n : observed[i] < Percentile(p)})
             above == Cardinality({i \in first..n : observed[i] > Percentile(p)})
             k == Index(m, p)
  <2>4. below \in 0..(k - 1) /\ above \in 0..(m - k)
    <3>1. Below(Percentile(p)) = below /\ Above(Percentile(p)) = above
      BY <2>3, Zenon DEF Below, Above, Span
    <3>2. QED BY <2>1, <3>1, PercentileHasItsPlace
  <2>5. k \in 1..m /\ (k - 1) * 100 <= (m - 1) * p /\ (m - 1) * p < k * 100
    <3>1. m \in Nat \ {0}
      BY <2>1
    <3> HIDE DEF m
    <3>2. CASE p = 50
      BY ONLY <3>1, <3>2 DEF k, Index
    <3>3. CASE p = 95
      BY ONLY <3>1, <3>3 DEF k, Index
    <3>4. QED BY <3>2, <3>3
  <2>6. n - first = m - 1 /\ n - first + 1 = m /\ first \in Int
    BY <2>1, <2>2
  <2> HIDE DEF below, above, k, m, first, n
  <2>7. /\ below + above < m
        /\ below * 100 <= (m - 1) * p
        /\ (m - 1) * p < (m - above) * 100
    <3>1. below \in Nat /\ above \in Nat /\ k \in Nat /\ m \in Nat /\ (m - 1) * p \in Int
      BY <2>1, <2>4, <2>5
    <3> DEFINE q == (m - 1) * p
    <3> HIDE DEF q
    <3>2. q \in Int /\ (k - 1) * 100 <= q /\ q < k * 100
      BY <2>5, <3>1 DEF q
    <3>3. below + above < m /\ below * 100 <= q /\ q < (m - above) * 100
      BY <2>4, <2>5, <3>1, <3>2
    <3>4. QED BY <3>3 DEF q
  <2>8. /\ below + above < n - first + 1
        /\ below * 100 <= (n - first) * p
        /\ (n - first) * p < (n - first + 1 - above) * 100
    <3>1. (n - first) * p = (m - 1) * p
      BY <2>6, Zenon
    <3>2. n - first + 1 - above = m - above
      <4>1. above \in Int
        BY <2>1, <2>4, <2>5
      <4>2. QED BY <2>1, <2>6, <4>1
    <3>3. QED BY <2>6, <2>7, <3>1, <3>2
  <2>9. QED BY <2>8 DEF below, above
<1>2. QED BY <1>1, WindowInit, WindowNext, PTL DEF CollectorSpec

====
