---- MODULE LongPoll ----
(***************************************************************************)
(* Real-time dashboard updates: the Hub of internal/longpoll/longpoll.go,  *)
(* the store that notifies it (internal/store/notifying.go) and the        *)
(* handlers of internal/httpserver/server.go that answer with its labels.  *)
(*                                                                         *)
(* The data is the number of mutations applied to the catalog; a body is   *)
(* the data a handler read.  What runs under the hub's mutex is one step;  *)
(* the catalog has a mutex of its own, so that applying a mutation and     *)
(* announcing it, and taking a label and reading a body, are two.          *)
(***************************************************************************)
EXTENDS Integers

CONSTANTS
  Mutator,     \* goroutines that change the catalog through NotifyingStore
  Poller,      \* browsers' polls of /ui/entries and /ui/stats, one at a time
  Loader,      \* browsers' loads of the full page, which is always sent
  Validator,   \* what a poll may send: "etag", "ims" (If-Modified-Since)
  NoPage,      \* a browser that has no representation yet
  MaxApplied,  \* bound: mutations
  MaxVersion,  \* bound: the hub's version
  MaxTime      \* bound: the clock, in the seconds of HTTP dates

ASSUME ValidatorAssumption == Validator \subseteq {"etag", "ims"}
ASSUME BrowserAssumption == Poller \cap Loader = {}
ASSUME BoundAssumption ==
  MaxApplied \in Nat /\ MaxVersion \in Nat \ {0} /\ MaxTime \in Nat

Browser == Poller \cup Loader
Label == [version : 1..MaxVersion, modified : 0..MaxTime]
Page == [label : Label, body : 0..MaxApplied]

ASSUME NoPageAssumption == NoPage \notin Page

VARIABLES
  now,        \* the clock
  version,    \* h.version
  updatedAt,  \* h.updatedAt
  closed,     \* h.closed
  applied,    \* mutations the catalog has seen
  mutator,    \* of each mutator: 0, or the mutation it has yet to announce
  pc,         \* of each browser: "idle", "waiting" (subscribed, in select),
              \* "page" (the label is taken, the body is next), "body" (the
              \* dashboard's body is read, the label is next)
  label,      \* the label a request in "page" took
  body,       \* the body a request in "body" read
  signal,     \* whether a subscriber's channel holds a notification
  held,       \* the page each browser shows, with its label
  floor       \* history: by version, the last mutation announced by then

hub == <<version, updatedAt, closed, floor>>
data == <<applied, mutator>>
browser == <<pc, label, body, signal, held>>
vars == <<now, hub, data, browser>>

Pc == {"idle", "waiting", "page", "body"}

TypeOK ==
  /\ now \in 0..MaxTime
  /\ version \in 1..MaxVersion
  /\ updatedAt \in 0..now
  /\ closed \in BOOLEAN
  /\ applied \in 0..MaxApplied
  /\ mutator \in [Mutator -> 0..MaxApplied]
  /\ pc \in [Browser -> Pc]
  /\ label \in [Browser -> Label]
  /\ body \in [Browser -> 0..MaxApplied]
  /\ signal \in [Browser -> BOOLEAN]
  /\ held \in [Browser -> Page \cup {NoPage}]
  /\ floor \in [1..MaxVersion -> 0..MaxApplied]

Current == [version |-> version, modified |-> updatedAt]
Larger(a, b) == IF a > b THEN a ELSE b

\* The time of a notification: Last-Modified never goes back.
Modified == Larger(updatedAt, now)

----
(* The hub.                                                                *)

\* A send to a full channel is dropped.
Broadcast == signal' = [p \in Browser |-> signal[p] \/ pc[p] = "waiting"]

\* Notify, after mutation n (0: the change was not one of the catalog).
Notify(n) ==
  IF closed THEN UNCHANGED <<hub, signal>>
  ELSE /\ version < MaxVersion
       /\ version' = version + 1
       /\ updatedAt' = Modified
       /\ floor' = [floor EXCEPT ![version + 1] = Larger(floor[version], n)]
       /\ Broadcast
       /\ UNCHANGED closed

Close ==
  /\ ~closed
  /\ closed' = TRUE
  /\ Broadcast
  /\ UNCHANGED <<now, version, updatedAt, floor, data, pc, label, body, held>>

----
(* The notifying store: first the catalog, then the hub.                   *)

Apply(m) ==
  /\ mutator[m] = 0
  /\ applied < MaxApplied
  /\ applied' = applied + 1
  /\ mutator' = [mutator EXCEPT ![m] = applied + 1]
  /\ UNCHANGED <<now, hub, browser>>

Announce(m) ==
  /\ mutator[m] # 0
  /\ Notify(mutator[m])
  /\ mutator' = [mutator EXCEPT ![m] = 0]
  /\ UNCHANGED <<now, applied, pc, label, body, held>>

\* The handlers of the cache API and of the cleanup button notify as well.
NotifyOnly ==
  /\ ~closed
  /\ Notify(0)
  /\ UNCHANGED <<now, data, pc, label, body, held>>

----
(* The browsers.                                                           *)

\* Mutant of IsFresh: an ETag made of the second alone.
IsFreshBySecond(p, v) ==
  held[p] # NoPage /\ updatedAt <= held[p].label.modified

\* isFreshLocked, for a request with one validator of the page held.
IsFresh(p, v) ==
  /\ held[p] # NoPage
  /\ CASE v = "etag" -> held[p].label = Current
       [] v = "ims"  -> updatedAt <= held[p].label.modified

TakeLabel(p) ==
  /\ label' = [label EXCEPT ![p] = Current]
  /\ pc' = [pc EXCEPT ![p] = "page"]
  /\ signal' = [signal EXCEPT ![p] = FALSE]

\* Mutant of Poll: the lock is released between the check and the subscription.
PollThenSubscribe(p, v) ==
  /\ \/ /\ pc[p] = "idle"
        /\ IsFresh(p, v)
        /\ pc' = [pc EXCEPT ![p] = "body"]
        /\ UNCHANGED <<label, signal>>
     \/ /\ pc[p] = "body"
        /\ pc' = [pc EXCEPT ![p] = "waiting"]
        /\ UNCHANGED <<label, signal>>
     \/ /\ pc[p] = "idle"
        /\ ~IsFresh(p, v)
        /\ TakeLabel(p)
  /\ UNCHANGED <<now, hub, data, body, held>>

\* WaitOrModified up to its select: a stale request gets the label at once, a
\* fresh one subscribes, under the same lock.
Poll(p, v) ==
  /\ pc[p] = "idle"
  /\ \/ /\ IsFresh(p, v)
        /\ pc' = [pc EXCEPT ![p] = "waiting"]
        /\ UNCHANGED <<label, signal>>
     \/ /\ ~IsFresh(p, v)
        /\ TakeLabel(p)
  /\ UNCHANGED <<now, hub, data, body, held>>

Wake(p) ==
  /\ pc[p] = "waiting"
  /\ signal[p]
  /\ TakeLabel(p)
  /\ UNCHANGED <<now, hub, data, body, held>>

\* The timer, or the end of the request: 304 or nothing.  select may pick it
\* although a notification is there.
GiveUp(p) ==
  /\ pc[p] = "waiting"
  /\ pc' = [pc EXCEPT ![p] = "idle"]
  /\ signal' = [signal EXCEPT ![p] = FALSE]
  /\ UNCHANGED <<now, hub, data, label, body, held>>

Show(p, l, b) ==
  /\ held' = [held EXCEPT ![p] = [label |-> l, body |-> b]]
  /\ pc' = [pc EXCEPT ![p] = "idle"]

\* Mutant of ReadPage: the body first, then Snapshot's label, as dashboard does.
ReadPageThenLabel(p) ==
  /\ \/ /\ pc[p] = "page"
        /\ pc' = [pc EXCEPT ![p] = "body"]
        /\ body' = [body EXCEPT ![p] = applied]
        /\ UNCHANGED held
     \/ /\ pc[p] = "body"
        /\ Show(p, Current, body[p])
        /\ UNCHANGED body
  /\ UNCHANGED <<now, hub, data, label, signal>>

\* entries and stats read the catalog after they have their label.
ReadPage(p) ==
  /\ pc[p] = "page"
  /\ Show(p, label[p], applied)
  /\ UNCHANGED <<now, hub, data, label, body, signal>>

\* dashboard reads the catalog first and takes the label afterwards.
ReadDashboard(p) ==
  /\ pc[p] = "idle"
  /\ pc' = [pc EXCEPT ![p] = "body"]
  /\ body' = [body EXCEPT ![p] = applied]
  /\ UNCHANGED <<now, hub, data, label, signal, held>>

LabelDashboard(p) ==
  /\ pc[p] = "body"
  /\ Show(p, Current, body[p])
  /\ UNCHANGED <<now, hub, data, label, body, signal>>

PollerStep(p) ==
  \/ \E v \in Validator : Poll(p, v)
  \/ Wake(p) \/ GiveUp(p) \/ ReadPage(p)

LoaderStep(p) == ReadDashboard(p) \/ LabelDashboard(p)

Tick ==
  /\ now < MaxTime
  /\ now' = now + 1
  /\ UNCHANGED <<hub, data, browser>>

Init ==
  /\ now = 0
  /\ version = 1
  /\ updatedAt = 0
  /\ closed = FALSE
  /\ applied = 0
  /\ mutator = [m \in Mutator |-> 0]
  /\ pc = [p \in Browser |-> "idle"]
  /\ label = [p \in Browser |-> Current]
  /\ body = [p \in Browser |-> 0]
  /\ signal = [p \in Browser |-> FALSE]
  /\ held = [p \in Browser |-> NoPage]
  /\ floor = [v \in 1..MaxVersion |-> 0]

Next ==
  \/ \E m \in Mutator : Apply(m) \/ Announce(m)
  \/ NotifyOnly
  \/ \E p \in Poller : PollerStep(p)
  \/ \E p \in Loader : LoaderStep(p)
  \/ Close
  \/ Tick

Spec == Init /\ [][Next]_vars

(* The goroutines that answer requests and that mutate go on, and browsers *)
(* poll again and again; nothing has to arrive, close or tick.             *)
FairSpec ==
  /\ Spec
  /\ \A m \in Mutator : WF_vars(Announce(m))
  /\ \A p \in Poller : WF_vars(PollerStep(p))

----

\* No body of a polled section is older than its label: it has every mutation
\* that had been announced when the label was current ("ETag: matching current
\* representation state").
NeverAhead(p) ==
  held[p] # NoPage => held[p].body >= floor[held[p].label.version]

LabelsNeverAhead == \A p \in Poller : NeverAhead(p)

\* The same of the full page, which carries an ETag as well.
DashboardNeverAhead == \A p \in Loader : NeverAhead(p)

\* No lost wake-up: a browser that waits with an empty channel already shows
\* every mutation announced so far (check and subscription are one step under
\* the hub's lock; the channel holds a notification until it is read).
SleepersAreUpToDate ==
  \A p \in Poller :
    pc[p] = "waiting" /\ ~signal[p] => held[p].body >= floor[version]

(* The inductive invariant behind these two.  Only applied mutations are    *)
(* announced; labels are of the past, so that the floor under them is      *)
(* settled; and a sleeper that was not signalled holds the current label.  *)
AnnouncedWasApplied ==
  /\ floor[version] <= applied
  /\ \A m \in Mutator : mutator[m] <= applied

LabelsAreOfThePast ==
  /\ \A p \in Browser :
       pc[p] = "page" =>
         label[p].version <= version /\ floor[label[p].version] <= applied
  /\ \A p \in Poller :
       held[p] # NoPage => held[p].label.version <= version /\ NeverAhead(p)

SleepersHoldCurrentLabel ==
  \A p \in Poller :
    pc[p] = "waiting" /\ ~signal[p] =>
      held[p] # NoPage /\ held[p].label.version = version

IInv ==
  /\ AnnouncedWasApplied
  /\ LabelsAreOfThePast
  /\ SleepersHoldCurrentLabel

\* Every announced mutation is shown by every browser that keeps polling.
AnnouncedIsShown ==
  \A p \in Poller, n \in 1..MaxApplied :
    floor[version] >= n ~> held[p] # NoPage /\ held[p].body >= n

====
