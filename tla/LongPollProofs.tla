---- MODULE LongPollProofs ----
(***************************************************************************)
(* Proofs about LongPoll, for any number of mutators and browsers and any  *)
(* bounds: the type invariant, the order of labels and bodies, and that no *)
(* wake-up is lost.                                                        *)
(***************************************************************************)
EXTENDS LongPoll, TLAPS

----
(* Types.                                                                  *)

LEMMA CurrentType == TypeOK => Current \in Label
BY BoundAssumption DEF TypeOK, Current, Label

LEMMA BroadcastType == Broadcast => signal' \in [Browser -> BOOLEAN]
BY DEF Broadcast

LEMMA NotifyType ==
  ASSUME TypeOK, NEW n \in 0..MaxApplied, Notify(n), UNCHANGED now
  PROVE  /\ version' \in 1..MaxVersion
         /\ updatedAt' \in 0..now'
         /\ closed' \in BOOLEAN
         /\ floor' \in [1..MaxVersion -> 0..MaxApplied]
         /\ signal' \in [Browser -> BOOLEAN]
<1>1. CASE closed
  BY <1>1 DEF TypeOK, Notify, hub
<1>2. CASE ~closed
  <2>1. version' \in 1..MaxVersion /\ closed' \in BOOLEAN
    BY <1>2, BoundAssumption DEF TypeOK, Notify
  <2>2. updatedAt' \in 0..now'
    BY <1>2, BoundAssumption DEF TypeOK, Notify, Modified, Larger
  <2>3. floor' \in [1..MaxVersion -> 0..MaxApplied]
    <3>1. Larger(floor[version], n) \in 0..MaxApplied
      BY DEF TypeOK, Larger
    <3>2. QED BY <1>2, <3>1 DEF TypeOK, Notify
  <2>4. signal' \in [Browser -> BOOLEAN]
    BY <1>2, BroadcastType DEF Notify
  <2>5. QED BY <2>1, <2>2, <2>3, <2>4
<1>3. QED BY <1>1, <1>2

LEMMA TakeLabelType ==
  ASSUME TypeOK, NEW p \in Browser, TakeLabel(p)
  PROVE  /\ label' \in [Browser -> Label]
         /\ pc' \in [Browser -> Pc]
         /\ signal' \in [Browser -> BOOLEAN]
BY CurrentType DEF TypeOK, TakeLabel, Pc

LEMMA ShowType ==
  ASSUME TypeOK, NEW p \in Browser, NEW l \in Label, NEW b \in 0..MaxApplied,
         Show(p, l, b)
  PROVE  held' \in [Browser -> Page \cup {NoPage}] /\ pc' \in [Browser -> Pc]
<1>1. [label |-> l, body |-> b] \in Page
  BY DEF Page
<1>2. QED BY <1>1 DEF TypeOK, Show, Pc

LEMMA TypeInit == Init => TypeOK
<1> SUFFICES ASSUME Init PROVE TypeOK
  OBVIOUS
<1>1. 1 \in 1..MaxVersion /\ 0 \in 0..MaxTime /\ 0 \in 0..MaxApplied
  BY BoundAssumption
<1>2. Current \in Label
  BY <1>1 DEF Init, Current, Label
<1>3. /\ pc \in [Browser -> Pc]
      /\ label \in [Browser -> Label]
      /\ body \in [Browser -> 0..MaxApplied]
      /\ signal \in [Browser -> BOOLEAN]
      /\ held \in [Browser -> Page \cup {NoPage}]
  BY <1>1, <1>2 DEF Init, Pc
<1>4. /\ mutator \in [Mutator -> 0..MaxApplied]
      /\ floor \in [1..MaxVersion -> 0..MaxApplied]
  BY <1>1 DEF Init
<1>5. now \in 0..MaxTime /\ version \in 1..MaxVersion /\ applied \in 0..MaxApplied
  BY <1>1 DEF Init
<1>6. updatedAt \in 0..now
  BY DEF Init
<1>7. closed \in BOOLEAN
  BY DEF Init
<1>8. QED BY <1>3, <1>4, <1>5, <1>6, <1>7 DEF TypeOK

LEMMA PollerType ==
  ASSUME TypeOK, NEW p \in Poller, PollerStep(p)
  PROVE  TypeOK'
<1> USE DEF TypeOK, hub, data
<1>0. p \in Browser
  BY DEF Browser
<1>1. ASSUME NEW v \in Validator, Poll(p, v)
      PROVE  TypeOK'
  <2>1. CASE TakeLabel(p)
    BY <1>0, <1>1, <2>1, TakeLabelType DEF Poll
  <2>2. CASE pc' = [pc EXCEPT ![p] = "waiting"] /\ UNCHANGED <<label, signal>>
    BY <1>1, <2>2 DEF Poll, Pc
  <2>3. QED BY <1>1, <2>1, <2>2 DEF Poll
<1>2. CASE Wake(p)
  BY <1>0, <1>2, TakeLabelType DEF Wake
<1>3. CASE GiveUp(p)
  BY <1>3 DEF GiveUp, Pc
<1>4. CASE ReadPage(p)
  <2>1. label[p] \in Label /\ applied \in 0..MaxApplied
    BY <1>0
  <2>2. held' \in [Browser -> Page \cup {NoPage}] /\ pc' \in [Browser -> Pc]
    BY <1>0, <1>4, <2>1, ShowType DEF ReadPage
  <2>3. QED BY <1>4, <2>2 DEF ReadPage
<1>5. QED BY <1>1, <1>2, <1>3, <1>4 DEF PollerStep

LEMMA LoaderType ==
  ASSUME TypeOK, NEW p \in Loader, LoaderStep(p)
  PROVE  TypeOK'
<1> USE DEF TypeOK, hub, data
<1>0. p \in Browser
  BY DEF Browser
<1>1. CASE ReadDashboard(p)
  BY <1>1 DEF ReadDashboard, Pc
<1>2. CASE LabelDashboard(p)
  <2>1. Current \in Label /\ body[p] \in 0..MaxApplied
    BY <1>0, CurrentType
  <2>2. held' \in [Browser -> Page \cup {NoPage}] /\ pc' \in [Browser -> Pc]
    BY <1>0, <1>2, <2>1, ShowType DEF LabelDashboard
  <2>3. QED BY <1>2, <2>2 DEF LabelDashboard
<1>3. QED BY <1>1, <1>2 DEF LoaderStep

LEMMA TypeStep == TypeOK /\ [Next]_vars => TypeOK'
<1> SUFFICES ASSUME TypeOK, [Next]_vars PROVE TypeOK'
  OBVIOUS
<1>1. ASSUME NEW m \in Mutator, Apply(m)
      PROVE  TypeOK'
  <2>1. applied + 1 \in 0..MaxApplied
    BY <1>1, BoundAssumption DEF TypeOK, Apply
  <2>2. QED BY <1>1, <2>1 DEF TypeOK, Apply, hub, browser
<1>2. ASSUME NEW m \in Mutator, Announce(m)
      PROVE  TypeOK'
  <2>1. mutator[m] \in 0..MaxApplied /\ 0 \in 0..MaxApplied
    BY BoundAssumption DEF TypeOK
  <2>2. QED BY <1>2, <2>1, NotifyType DEF TypeOK, Announce
<1>3. CASE NotifyOnly
  <2>1. 0 \in 0..MaxApplied
    BY BoundAssumption
  <2>2. QED BY <1>3, <2>1, NotifyType DEF TypeOK, NotifyOnly, data
<1>4. ASSUME NEW p \in Poller, PollerStep(p)
      PROVE  TypeOK'
  BY <1>4, PollerType
<1>5. ASSUME NEW p \in Loader, LoaderStep(p)
      PROVE  TypeOK'
  BY <1>5, LoaderType
<1>6. CASE Close
  BY <1>6, BroadcastType DEF TypeOK, Close, data
<1>7. CASE Tick
  BY <1>7, BoundAssumption DEF TypeOK, Tick, hub, data, browser
<1>8. CASE UNCHANGED vars
  BY <1>8 DEF TypeOK, vars, hub, data, browser
<1>9. QED BY <1>1, <1>2, <1>3, <1>4, <1>5, <1>6, <1>7, <1>8 DEF Next

\* Every reachable state of the hub, the store and the browsers is well typed,
\* and the hub's time (h.updatedAt) is never ahead of the clock.
THEOREM HubTypeCorrect == Spec => []TypeOK
BY TypeInit, TypeStep, PTL DEF Spec
----
(* The inductive invariant.                                                *)

LEMMA IInvInit == Init => IInv
<1> SUFFICES ASSUME Init PROVE IInv
  OBVIOUS
<1>1. version \in 1..MaxVersion /\ floor[version] = 0
  BY BoundAssumption DEF Init
<1>2. AnnouncedWasApplied
  BY <1>1 DEF Init, AnnouncedWasApplied
<1>3. \A p \in Browser : pc[p] = "idle" /\ held[p] = NoPage
  BY DEF Init
<1>4. LabelsAreOfThePast /\ SleepersHoldCurrentLabel
  BY <1>3 DEF LabelsAreOfThePast, SleepersHoldCurrentLabel, Browser
<1>5. QED BY <1>2, <1>4 DEF IInv

\* A notification leaves the floors of the past alone.
LEMMA NotifyKeepsThePast ==
  ASSUME TypeOK, NEW n \in 0..MaxApplied, Notify(n)
  PROVE  /\ version' \in Nat /\ version <= version'
         /\ \A v \in 1..version : floor'[v] = floor[v]
         /\ floor[version] <= applied /\ n <= applied => floor'[version'] <= applied
<1>1. CASE closed
  BY <1>1 DEF TypeOK, Notify, hub
<1>2. CASE ~closed
  <2>1. version' = version + 1 /\ version \in Nat /\ version' \in 1..MaxVersion
    BY <1>2, BoundAssumption DEF TypeOK, Notify
  <2>2. floor' = [floor EXCEPT ![version + 1] = Larger(floor[version], n)]
    BY <1>2 DEF Notify
  <2>3. \A v \in 1..version : floor'[v] = floor[v]
    BY <2>1, <2>2 DEF TypeOK
  <2>4. floor'[version'] = Larger(floor[version], n)
    BY <2>1, <2>2 DEF TypeOK
  <2>5. QED BY <2>1, <2>3, <2>4 DEF Larger
<1>3. QED BY <1>1, <1>2

\* After a notification every sleeper is signalled, or nothing has changed.
LEMMA NotifySignals ==
  ASSUME TypeOK, NEW n \in 0..MaxApplied, Notify(n), NEW p \in Browser
  PROVE  \/ UNCHANGED <<version, signal>>
         \/ pc[p] = "waiting" => signal'[p]
<1>1. CASE closed
  BY <1>1 DEF Notify, hub
<1>2. CASE ~closed
  BY <1>2 DEF Notify, Broadcast
<1>3. QED BY <1>1, <1>2

LEMMA NotifyInv ==
  ASSUME TypeOK, IInv, NEW n \in 0..MaxApplied, n <= applied, Notify(n),
         UNCHANGED <<applied, pc, label, held>>,
         \A m \in Mutator : mutator'[m] \in {0, mutator[m]}
  PROVE  IInv'
<1> USE DEF IInv, NeverAhead
<1>1. AnnouncedWasApplied'
  <2>1. floor'[version'] <= applied
    BY NotifyKeepsThePast DEF AnnouncedWasApplied
  <2>2. applied \in Nat /\ \A m \in Mutator : mutator[m] <= applied
    BY DEF AnnouncedWasApplied, TypeOK
  <2>3. ASSUME NEW m \in Mutator
        PROVE  mutator'[m] <= applied
    <3>1. mutator'[m] = 0 \/ mutator'[m] = mutator[m]
      OBVIOUS
    <3>2. QED BY ONLY <2>2, <3>1
  <2>4. QED BY <2>1, <2>3 DEF AnnouncedWasApplied
<1>2. LabelsAreOfThePast'
  <2>1. ASSUME NEW p \in Browser, pc[p] = "page"
        PROVE  label[p].version <= version' /\ floor'[label[p].version] <= applied
    <3>1. label[p].version \in 1..version
      BY <2>1 DEF LabelsAreOfThePast, TypeOK, Label
    <3>2. QED BY <2>1, <3>1, NotifyKeepsThePast DEF LabelsAreOfThePast, TypeOK
  <2>2. ASSUME NEW p \in Poller, held[p] # NoPage
        PROVE  /\ held[p].label.version <= version'
               /\ held[p].body >= floor'[held[p].label.version]
    <3>1. held[p].label.version \in 1..version
      BY <2>2 DEF LabelsAreOfThePast, TypeOK, Page, Label, Browser
    <3>2. held[p].body >= floor[held[p].label.version]
      BY <2>2 DEF LabelsAreOfThePast
    <3>3. /\ version \in Nat /\ version' \in Nat /\ version <= version'
          /\ floor'[held[p].label.version] = floor[held[p].label.version]
      BY <3>1, NotifyKeepsThePast DEF TypeOK
    <3>4. QED BY ONLY <3>1, <3>2, <3>3
  <2>3. QED BY <2>1, <2>2 DEF LabelsAreOfThePast
<1>3. SleepersHoldCurrentLabel'
  <2>1. SUFFICES ASSUME NEW p \in Poller, pc[p] = "waiting", ~signal'[p]
                 PROVE  held[p] # NoPage /\ held[p].label.version = version'
    BY DEF SleepersHoldCurrentLabel
  <2>2. UNCHANGED <<version, signal>>
    BY <2>1, NotifySignals DEF Browser
  <2>3. QED BY <2>1, <2>2 DEF SleepersHoldCurrentLabel
<1>4. QED BY <1>1, <1>2, <1>3
\* A poll with an ETag goes to sleep only with the current label.
LEMMA PollInv ==
  ASSUME Validator \subseteq {"etag"}, TypeOK, IInv,
         NEW p \in Poller, NEW v \in Validator, Poll(p, v)
  PROVE  IInv'
<1> USE DEF IInv, NeverAhead, hub, data
<1>0. p \in Browser
  BY DEF Browser
<1>1. CASE TakeLabel(p)
  <2>1. label'[p] = Current /\ pc'[p] = "page" /\ UNCHANGED <<version, floor, applied, mutator, held>>
    BY <1>0, <1>1 DEF Poll, TakeLabel, TypeOK
  <2>2. \A q \in Browser \ {p} : pc'[q] = pc[q] /\ label'[q] = label[q] /\ signal'[q] = signal[q]
    BY <1>0, <1>1 DEF TakeLabel, TypeOK
  <2>3. LabelsAreOfThePast'
    BY <2>1, <2>2 DEF LabelsAreOfThePast, AnnouncedWasApplied, Current, TypeOK
  <2>4. SleepersHoldCurrentLabel'
    BY <2>1, <2>2 DEF SleepersHoldCurrentLabel, Browser
  <2>5. QED BY <2>1, <2>3, <2>4 DEF AnnouncedWasApplied
<1>2. CASE /\ IsFresh(p, v)
           /\ pc' = [pc EXCEPT ![p] = "waiting"]
           /\ UNCHANGED <<label, signal>>
  <2>1. held[p] # NoPage /\ held[p].label = Current
    BY <1>2 DEF IsFresh
  <2>2. held[p].label.version = version
    BY <2>1 DEF Current
  <2>3. UNCHANGED <<version, floor, applied, mutator, held, label, signal>>
    BY <1>2 DEF Poll
  <2>4. pc'[p] = "waiting" /\ \A q \in Browser \ {p} : pc'[q] = pc[q]
    BY <1>0, <1>2 DEF TypeOK
  <2>5. LabelsAreOfThePast'
    BY <2>3, <2>4 DEF LabelsAreOfThePast
  <2>6. SleepersHoldCurrentLabel'
    BY <2>1, <2>2, <2>3, <2>4 DEF SleepersHoldCurrentLabel, Browser
  <2>7. QED BY <2>3, <2>5, <2>6 DEF AnnouncedWasApplied
<1>3. QED BY <1>1, <1>2 DEF Poll

LEMMA WakeInv ==
  ASSUME TypeOK, IInv, NEW p \in Poller, Wake(p)
  PROVE  IInv'
<1> USE DEF IInv, NeverAhead, hub, data
<1>0. p \in Browser
  BY DEF Browser
<1>1. label'[p] = Current /\ pc'[p] = "page" /\ UNCHANGED <<version, floor, applied, mutator, held>>
  BY <1>0 DEF Wake, TakeLabel, TypeOK
<1>2. \A q \in Browser \ {p} : pc'[q] = pc[q] /\ label'[q] = label[q] /\ signal'[q] = signal[q]
  BY <1>0 DEF Wake, TakeLabel, TypeOK
<1>3. LabelsAreOfThePast'
  BY <1>1, <1>2 DEF LabelsAreOfThePast, AnnouncedWasApplied, Current, TypeOK
<1>4. SleepersHoldCurrentLabel'
  BY <1>1, <1>2 DEF SleepersHoldCurrentLabel, Browser
<1>5. QED BY <1>1, <1>3, <1>4 DEF AnnouncedWasApplied

LEMMA GiveUpInv ==
  ASSUME TypeOK, IInv, NEW p \in Poller, GiveUp(p)
  PROVE  IInv'
<1> USE DEF IInv, NeverAhead, hub, data
<1>0. p \in Browser
  BY DEF Browser
<1>1. pc'[p] = "idle" /\ UNCHANGED <<version, floor, applied, mutator, held, label>>
  BY <1>0 DEF GiveUp, TypeOK
<1>2. \A q \in Browser \ {p} : pc'[q] = pc[q] /\ signal'[q] = signal[q]
  BY <1>0 DEF GiveUp, TypeOK
<1>3. LabelsAreOfThePast'
  BY <1>1, <1>2 DEF LabelsAreOfThePast
<1>4. SleepersHoldCurrentLabel'
  BY <1>1, <1>2 DEF SleepersHoldCurrentLabel, Browser
<1>5. QED BY <1>1, <1>3, <1>4 DEF AnnouncedWasApplied

\* The body is read after the label: it covers the floor the label stands for.
LEMMA ReadPageInv ==
  ASSUME TypeOK, IInv, NEW p \in Poller, ReadPage(p)
  PROVE  IInv'
<1> USE DEF IInv, NeverAhead, hub, data
<1>0. p \in Browser
  BY DEF Browser
<1>1. pc'[p] = "idle" /\ UNCHANGED <<version, floor, applied, mutator, label, signal>>
  BY <1>0 DEF ReadPage, Show, TypeOK
<1>2. held'[p] = [label |-> label[p], body |-> applied]
  BY <1>0 DEF ReadPage, Show, TypeOK
<1>3. \A q \in Browser \ {p} : pc'[q] = pc[q] /\ held'[q] = held[q]
  BY <1>0 DEF ReadPage, Show, TypeOK
<1>4. label[p].version <= version /\ floor[label[p].version] <= applied
  BY <1>0 DEF ReadPage, LabelsAreOfThePast
<1>5. held'[p].label.version <= version /\ held'[p].body >= floor[held'[p].label.version]
  <2>1. label[p].version \in 1..MaxVersion /\ applied \in Nat
    BY <1>0 DEF TypeOK, Label
  <2>2. floor[label[p].version] \in Nat
    BY <2>1 DEF TypeOK
  <2>3. QED BY <1>2, <1>4, <2>1, <2>2
<1>6. LabelsAreOfThePast'
  BY <1>1, <1>3, <1>5 DEF LabelsAreOfThePast, Browser
<1>7. SleepersHoldCurrentLabel'
  BY <1>1, <1>3 DEF SleepersHoldCurrentLabel, Browser
<1>8. QED BY <1>1, <1>6, <1>7 DEF AnnouncedWasApplied

LEMMA LoaderInv ==
  ASSUME TypeOK, IInv, NEW p \in Loader, LoaderStep(p)
  PROVE  IInv'
<1> USE DEF IInv, NeverAhead, hub, data
<1>0. p \in Browser /\ p \notin Poller
  BY BrowserAssumption DEF Browser
<1>1. pc'[p] \in {"body", "idle"} /\ UNCHANGED <<version, floor, applied, mutator, label, signal>>
  BY <1>0 DEF LoaderStep, ReadDashboard, LabelDashboard, Show, TypeOK
<1>2. \A q \in Browser \ {p} : pc'[q] = pc[q] /\ held'[q] = held[q]
  BY <1>0 DEF LoaderStep, ReadDashboard, LabelDashboard, Show, TypeOK
<1>3. LabelsAreOfThePast'
  BY <1>0, <1>1, <1>2 DEF LabelsAreOfThePast, Browser
<1>4. SleepersHoldCurrentLabel'
  BY <1>0, <1>1, <1>2 DEF SleepersHoldCurrentLabel, Browser
<1>5. QED BY <1>1, <1>3, <1>4 DEF AnnouncedWasApplied

LEMMA IInvStep ==
  ASSUME Validator \subseteq {"etag"}
  PROVE  TypeOK /\ IInv /\ [Next]_vars => IInv'
<1> SUFFICES ASSUME TypeOK, IInv, [Next]_vars PROVE IInv'
  OBVIOUS
<1>1. ASSUME NEW m \in Mutator, Apply(m)
      PROVE  IInv'
  <2>1. UNCHANGED <<version, floor, pc, label, signal, held>> /\ applied' = applied + 1
    BY <1>1 DEF Apply, hub, browser
  <2>2. \A k \in Mutator : mutator'[k] \in {mutator[k], applied + 1}
    BY <1>1 DEF Apply, TypeOK
  <2>3. AnnouncedWasApplied'
    <3>1. /\ applied \in Nat /\ floor[version] \in Nat
          /\ \A k \in Mutator : mutator[k] \in Nat
      BY DEF TypeOK
    <3>2. floor[version] <= applied /\ \A k \in Mutator : mutator[k] <= applied
      BY DEF IInv, AnnouncedWasApplied
    <3>3. floor'[version'] <= applied'
      BY ONLY <2>1, <3>1, <3>2
    <3>4. ASSUME NEW k \in Mutator
          PROVE  mutator'[k] <= applied'
      <4>1. mutator'[k] = mutator[k] \/ mutator'[k] = applied + 1
        BY <2>2
      <4>2. QED BY ONLY <2>1, <3>1, <3>2, <4>1
    <3>5. QED BY <3>3, <3>4 DEF AnnouncedWasApplied
  <2>4. LabelsAreOfThePast'
    <3>1. ASSUME NEW p \in Browser, pc[p] = "page"
          PROVE  label[p].version <= version /\ floor[label[p].version] <= applied + 1
      <4>1. label[p].version \in 1..MaxVersion
        BY DEF TypeOK, Label
      <4>2. floor[label[p].version] \in Nat /\ applied \in Nat
        BY <4>1 DEF TypeOK
      <4>3. QED BY <3>1, <4>2 DEF IInv, LabelsAreOfThePast
    <3>2. QED BY <2>1, <3>1 DEF IInv, LabelsAreOfThePast, NeverAhead
  <2>5. SleepersHoldCurrentLabel'
    BY <2>1 DEF IInv, SleepersHoldCurrentLabel
  <2>6. QED BY <2>3, <2>4, <2>5 DEF IInv
<1>2. ASSUME NEW m \in Mutator, Announce(m)
      PROVE  IInv'
  <2>1. mutator[m] \in 0..MaxApplied /\ mutator[m] <= applied
    BY DEF TypeOK, IInv, AnnouncedWasApplied
  <2>2. \A k \in Mutator : mutator'[k] \in {0, mutator[k]}
    BY <1>2 DEF Announce, TypeOK
  <2>3. QED BY <1>2, <2>1, <2>2, NotifyInv DEF Announce
<1>3. CASE NotifyOnly
  <2>1. 0 \in 0..MaxApplied /\ 0 <= applied
    BY BoundAssumption DEF TypeOK
  <2>2. QED BY <1>3, <2>1, NotifyInv DEF NotifyOnly, data
<1>4. ASSUME NEW p \in Poller, PollerStep(p)
      PROVE  IInv'
  BY <1>4, PollInv, WakeInv, GiveUpInv, ReadPageInv DEF PollerStep
<1>5. ASSUME NEW p \in Loader, LoaderStep(p)
      PROVE  IInv'
  BY <1>5, LoaderInv
<1>6. CASE Close
  <2>1. UNCHANGED <<version, floor, applied, mutator, pc, label, held>>
    BY <1>6 DEF Close, data
  <2>2. \A p \in Browser : pc[p] = "waiting" => signal'[p]
    BY <1>6 DEF Close, Broadcast
  <2>3. SleepersHoldCurrentLabel'
    BY <2>1, <2>2 DEF SleepersHoldCurrentLabel, Browser
  <2>4. QED BY <2>1, <2>3 DEF IInv, AnnouncedWasApplied, LabelsAreOfThePast, NeverAhead
<1>7. CASE Tick \/ UNCHANGED vars
  BY <1>7 DEF Tick, vars, hub, data, browser, IInv, AnnouncedWasApplied,
              LabelsAreOfThePast, NeverAhead, SleepersHoldCurrentLabel
<1>8. QED BY <1>1, <1>2, <1>3, <1>4, <1>5, <1>6, <1>7 DEF Next

\* IInv holds of every run in which polls carry ETags, as the browsers' do.
THEOREM HubInvariance ==
  ASSUME Validator \subseteq {"etag"}
  PROVE  Spec => []IInv
<1>1. TypeOK /\ IInv /\ [Next]_vars => (TypeOK /\ IInv)'
  BY TypeStep, IInvStep
<1>2. QED BY <1>1, TypeInit, IInvInit, PTL DEF Spec

\* No lost wake-up (WaitOrModified checks and subscribes under one lock): who
\* sleeps without a signal shows every mutation announced so far.
THEOREM NoLostWakeUp ==
  ASSUME Validator \subseteq {"etag"}
  PROVE  Spec => []SleepersAreUpToDate
<1>1. TypeOK /\ IInv => SleepersAreUpToDate
  BY DEF IInv, SleepersHoldCurrentLabel, LabelsAreOfThePast, NeverAhead,
         SleepersAreUpToDate
<1>2. QED BY <1>1, HubTypeCorrect, HubInvariance, PTL

\* No label of a polled section is ahead of its body: entries
\* and stats take the label first and read the catalog afterwards, and
\* mutations are announced once applied.
THEOREM LabelsAreHonest ==
  ASSUME Validator \subseteq {"etag"}
  PROVE  Spec => []LabelsNeverAhead
<1>1. IInv => LabelsNeverAhead
  BY DEF IInv, LabelsAreOfThePast, LabelsNeverAhead, NeverAhead
<1>2. QED BY <1>1, HubInvariance, PTL
====
