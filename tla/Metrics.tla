---- MODULE Metrics ----
(***************************************************************************)
(* internal/metrics/metrics.go: the window of the latest durations of one  *)
(* kind of request, and the percentiles the dashboard shows of it.  Every  *)
(* operation holds c.mu, so that they happen one at a time.                *)
(***************************************************************************)
EXTENDS Integers, FiniteSets, SequencesExt

CONSTANTS
  Duration,     \* what time.Since may return; a clock may go back
  SampleLimit,  \* sampleLimit
  MaxObserved   \* bound: observations

ASSUME SampleLimitAssumption == SampleLimit \in Nat \ {0} /\ Duration \subseteq Int

VARIABLES
  samples,      \* the window
  observed      \* history: every duration since the process started

collector == <<samples, observed>>

Clamp(d) == IF d < 0 THEN 0 ELSE d

\* observe: a full window loses its first sample.
Observe(d) ==
  /\ Len(observed) < MaxObserved
  /\ samples' = Append(IF Len(samples) = SampleLimit THEN Tail(samples) ELSE samples, Clamp(d))
  /\ observed' = Append(observed, Clamp(d))

\* Mutant: the share of the length.
IndexOfLength(n, p) == (n * p) \div 100 + 1

\* The index of the percentile in the n sorted samples, from 1 on.
Index(n, p) == ((n - 1) * p) \div 100 + 1

\* sort.Slice of a copy of the samples.
Sorted(s) ==
  CHOOSE t \in [DOMAIN s -> Range(s)] :
    /\ \A i, j \in DOMAIN s : i <= j => t[i] <= t[j]
    /\ \E from \in Bijection(DOMAIN s, DOMAIN s) : \A i \in DOMAIN s : t[i] = s[from[i]]

Percentile(p) == IF samples = <<>> THEN 0 ELSE Sorted(samples)[Index(Len(samples), p)]

CollectorInit == samples = <<>> /\ observed = <<>>
CollectorNext == \E d \in Duration : Observe(d)

CollectorSpec == CollectorInit /\ [][CollectorNext]_collector

----

\* The percentile is one of the latest durations, of all until the window is full,
\* and its share of the way from the smallest to the largest of them lies on it:
\* rounded down, so that P95 of two is the smaller.
PercentilesAreRanks ==
  LET n == Len(observed)
      first == IF n > SampleLimit THEN n - SampleLimit + 1 ELSE 1
  IN \A p \in {50, 95} : n > 0 =>
       LET value == Percentile(p)
           below == Cardinality({i \in first..n : observed[i] < value})
           above == Cardinality({i \in first..n : observed[i] > value})
       IN /\ below + above < n - first + 1
          /\ below * 100 <= (n - first) * p
          /\ (n - first) * p < (n - first + 1 - above) * 100

====
