# nx-cache: specifications and proofs

TLA+ modules of the parts of nx-cache that keep state and run concurrently,
TLC configurations that model-check them on small instances, and theorems about
them that TLAPS proves for every value of the constants. Paths below are
relative to the repository; line numbers are in `PROJECT.json` (`map`).

## The system

nx-cache stores build artifacts by hash. Its state lies in four places:

| Component | Code | State | Operations |
|---|---|---|---|
| Storage | `internal/storage` (S3, Memory) | the objects of a bucket; one metadata object | Exists, Put (`If-None-Match: *`), Get, Delete, List, PutMeta, GetMeta |
| S3 catalog | `internal/store/object.go` | entries and counters in memory, `dirty`, `loadFailed`, two mutexes; one JSON snapshot in the bucket | Load, Start (ticker), Flush, Close, eight mutators, listings |
| SQLite catalog | `internal/store/store.go` | the same in tables, durable at once | the same interface, several statements per call, no transactions |
| Notifying store, hub | `internal/store/notifying.go`, `internal/longpoll` | a version, a time, subscribers, `closed` | Notify, Snapshot, WaitOrModified, Close |
| Cache API | `internal/cacheapi` | none of its own | PUT, GET, HEAD of an artifact |
| Cleanup | `internal/cleanup` | `lastRun` | Start (ticker), MaybeRun (after a PUT), Run |
| Dashboard | `internal/httpserver/server.go` | none of its own | pages, polls, purge, cleanup button |
| Start-up, shutdown | `cmd/server/main.go` | the process | load, reconcile goroutine, deferred closes |
| Login gate, rate limit | `internal/httpserver/login.go`, `access.go` | attempts and tokens by address | allow, failure, success, eviction |
| Metrics | `internal/metrics` | sample windows | observe, Snapshot |
| Sessions | `internal/auth` | none on the server: a signed cookie, a signed token in forms | login, logout, check of a cookie and of a form |
| Inspection | `internal/nxartifact` | none | task labels of an archive, of headers, merged |
| Pages | `internal/web` | none | numbers, bars, pie, table and pager of a page |
| Configuration | `internal/config` | none that changes | read once |

How they interact. A PUT asks the bucket, writes the bucket, writes the
catalog and may start a cleanup; a GET reads the bucket and then writes the
catalog; a cleanup lists the catalog, lists the bucket, deletes from the
bucket and then from the catalog; the reconcile goroutine lists the bucket
once per process and writes the catalog. There is no transaction between
bucket and catalog and none of these holds a lock from one call to the next.
Every mutation of the catalog is announced to the hub after it was applied;
polls of the dashboard sleep on the hub and then read the catalog. The S3
catalog writes itself to the bucket behind everybody's back and is read again
by the next process.

What is hard, and what makes each part correct:

* **S3 catalog.** Flushes overlap with mutators and with each other; S3 may
  apply a write and report an error; processes die at any point; a load may
  fail. A Flush that returns nil must have made durable what preceded it, a
  snapshot must never lose what an earlier one had, a clean catalog must be a
  persisted one, and what is written must be consistent although it is
  marshalled without the lock.
* **Life of artifacts.** Every handler works on what it learnt some calls ago.
  An artifact must not be replaced, an acknowledged upload must survive the
  failures of other uploads and be listed (after a crash: again), fresh
  artifacts must not be cleaned up, expired ones must go, and entries without
  an artifact and artifacts without an entry must not stay for ever.
* **Long poll.** No wake-up may be lost, a label must never promise more than
  its body shows, and what is announced must be shown in the end.
* **SQLite catalog.** One connection, one statement at a time, no
  transactions: calls interleave, fail and are cut off between their
  statements, and so does the migration. Counters and days must differ by no
  more than that explains, rows keep their history, and some process must get
  through the migration.
* **Dashboard.** A page is several queries and a walk is several pages, while
  the catalog changes. A walk must not skip an entry that was there all along,
  and a page must not say what was never true: its counters are all-time, its days
  are the last seven.
* **Labels.** The store, the tee, the pipe and the inspecting goroutine of a
  PUT wait for each other; the reconcile inspects and overwrites later, and logs or
  skips what fails. They must not wait for ever, the labels of a PUT must come from
  whole archives, and labels stay.
* **Login gate, rate limit.** Tables keyed by an address that partly comes from
  the client are evicted while requests use them; a login holds no lock between
  the gate and its failure. Forgetting must give away no more than the idle time
  explains, a lock must hold.
* **Sessions.** Tabs share a cookie; forms are served after logouts, logins, the
  end of a session and restarts that draw another secret.
* **Process.** Goroutines that nobody waits for outlive `Shutdown`, Close races
  the ticker, runs of the cleanup overlap. A clean exit must have saved
  everything, and a signal must end the process.

`PROJECT.json` lists these hazards one by one, each at its line.

## Modules

| Module | Models | Proofs |
|---|---|---|
| `ObjectCatalog` | the S3 catalog | `ObjectCatalogProofs` |
| `WriteBehind` | what the S3 catalog promises, abstractly | implemented by `ObjectCatalog` |
| `MCObjectCatalog` | model values and symmetry for TLC | |
| `CacheServer` | the life of artifacts: requests, cleanup, reconcile, restart over both stores | `CacheServerProofs` |
| `LongPoll` | hub, notifying store, labels and bodies of the dashboard | `LongPollProofs` |
| `SQLiteCatalog` | the statements of the SQLite catalog and its migration, next to `store.Object`'s calls | `DashboardProofs` |
| `Dashboard` | extends it with a browser that walks through the pages | `DashboardProofs` |
| `Access` | client address, rate limit, login gate | `DoorProofs` |
| `Sessions` | cookie, forms, login and logout of a browser with several tabs | `DoorProofs` |
| `Metrics` | window of samples and percentiles | `ProcessProofs` |
| `Lifecycle` | the process from bucket to exit, with its goroutines | `ProcessProofs` |
| `MCServer` | the six above, composed for TLC | |
| `Inspection` | operators: the labels of an archive | |
| `Artifacts` | extends it with uploads, their pipe, and the reconcile's reclassification | `ArtifactsProofs` |
| `MCArtifacts` | archives and requests for TLC | |
| `SumTheorems` | lemmas about sums over finite sets and about sorting | used by three of the above |

### ObjectCatalog

Each mutator holds `o.mu` from its first to its last line and is one action
(`UpsertEntry`, `RecordHit`, `RecordMiss`, `Delete`, `EnsureEntry`,
`UpdateTaskInfo`, all through `Mutate`, which sets `dirty`). A `Flush` is
several: `FlushCall`, then under `flushMu` one of `FlushRefused` (load
failed), `FlushClean` or `FlushClone` (clone, `dirty = FALSE`), then `PutMetaOk`, or
`PutMetaError` (with the write applied or not) and `MarkDirty`, then
`FlushReturn`. Three kinds of goroutine flush: the ticker of `Start`, `Close`
(once, after the ticker has ended) and, as `Flush` is exported, any other.
`LoadOk` and `LoadError` start a process with what is in the bucket or with
nothing; `Crash` ends it at any point, with a write under way applied or not.
`main` exits when the load fails; the model lets the process go on as well,
which the package allows and its tests do.

An entry keeps its creation time, size, hits and one field of the task
information (the four merge alike); times are calendar days. `ops`, `started`,
`nextOp` are history: which mutations memory, a snapshot or the start of a
call contain. The program never reads them, and neither does a guard except
for the bound on `nextOp`. `Seed` is left out: tests alone call it.

`WriteBehind` has only a volatile and a durable set of operations and the
status of each call. `ImplementsWriteBehind` instantiates it with `ops` and
the bucket's `ops`; an ambiguous write is its background write.

### CacheServer

One action per call to a store, each handler being a record with a `pc` that
remembers what it learnt: `PutExists`, `PutObject` (or `PutObjectError`,
`PutShort`), `UpsertEntry` (or `UpsertError`), `Undo`; `GetObject`,
`RecordHit`; `PurgeObject`, `PurgeEntry`; `ListOlderThan`, `ListObjects`,
`DeleteObjects` (or `DeleteObjectsPartly`), `ForgetEntries`, `RunError`;
`ReconcileList`, `ReconcileEnsure`, `ReconcileDone`, `ReconcileError` (of the listing,
which ends it) and `EnsureError` (of one object, which is skipped). Objects
are an upload's number and time, entries a creation time. `backend`, fixed when
a behaviour begins, is the configured catalog: SQLite is durable at once and may
fail; `store.Object` never fails but is only as durable as `Flush`. That is one
step here, at the moment of the clone: the snapshot is read by a restart alone,
and one that is written later is the same to it, or was not written at all;
`ObjectCatalog` has the steps in between. Requests that change neither store (409, 404, HEAD,
malformed ones) are not steps: they leave the state unchanged.

### LongPoll

The data is the number of mutations applied; a body is that number when it was
read. `Apply` and `Announce` are two steps of a mutator, as `NotifyingStore`
calls the store and then the hub. What runs under the hub's lock is one step:
`Notify`, `Close`, the first half of `WaitOrModified` (`Poll`), its label after
a wake-up (`Wake`). `ReadPage` reads the catalog after the label was taken;
the full page does it the other way round (`ReadDashboard`,
`LabelDashboard`). `floor` is history: the last mutation announced by each
version. A browser that polls holds the label and body of its last answer.
The 304 that ends a poll in vain carries the label the browser has.

### SQLiteCatalog and Dashboard

A call is the list of its statements (`Bump` is two, `UpsertEntry` and
`RecordHit` three); `Statement` runs the first one, `StatementError` gives up the
rest, as the code returns on an error, and `End` ends the process anywhere,
inside `Migrate` too, whose nine statements are `CREATE ... IF NOT EXISTS` and
`ALTER TABLE ... ADD COLUMN` with `isDuplicateColumn` tolerated. With
`backend = "s3"` the statements of a call run at once, as they do under `o.mu`.
`cut` is history: the bumps that ended between their two statements.

A page is `Queries`, each answered from the catalog of its moment; the days are those
`Since` today less `DaysShown` (seven in the code; a day of `Since` is any that is not
before what was counted). A filter is the hashes and the labels its string is found in
(`Filter`; kinds stand for all labels), so that uploads, ensures and updates make rows
match and cease to match during a walk (`Found`, as `MatchesQuery` and `LIKE`). Rows with equal
creation times come in any order, since neither `ORDER BY created_at DESC` nor
`sort.Slice` decides between them. `NewDashboard`, `StatsSection`,
`EntriesSection` and `Links` are what the page makes of the answers. `steady`,
`departed`, `arrived`, `before` are history of the walk.

### Access, Sessions, Metrics

`Received` is what becomes of a client's headers behind the proxies: either each appends
the address it was called from to `X-Forwarded-For`, behind whatever the client wrote,
or the first drops that header and sets `X-Real-IP`, and the others pass it on. `ClientIP`
reads the chain (`ForwardedChain`) from the right. That the proxies do one or the other is
assumed of them; so is that they join several lines of `X-Forwarded-For` into one, since
`Header.Get` reads the first. `Arrive` is a
request in the allow list and the limiter, with the eviction that follows it;
`ideal` is history: the buckets of a limiter that forgets nobody. Time and
tokens are integers: a request takes `Token` parts, a tick gives `Rate` of them. `Gate` is `allow`;
`LoginFails`, `LoginSucceeds` and `BadForm` come later and without a lock in between.
`dropLocked` keeps what a map's iteration happens to give: any half.

In `Sessions` a signature is the number of the secret that made it, and a name
with a `.` or `|` is not recognized again, since `strings.Cut` splits at the first
one: with such a `UI_USERNAME` nobody can use the dashboard, and the properties
hold because nobody acts. A tab's request carries the cookie of the moment
it was sent (`Send`), is served (`LoginPost`, `GetPage`, `Act`, `Logout`, `Refuse`)
and its reply is read (`Receive`) in steps of their own.

`Metrics` is `observe` and the percentile of the sorted copy (`Sorted` is what
`sort.Slice` gives, in whatever order it compares); counts and bytes are sums under
the same lock.

### Lifecycle

`main` is a program counter through the body of the function and its deferred
calls; the goroutines it starts go on until the process is gone. What a change
of the catalog is does not matter: the catalog is the number of changes made, a
snapshot the number it holds. The catalog's ticker is three actions
(`TickerFlushes`, `TickerReturns`, `TickerLeaves`), `Close` takes its copy when
the ticker is gone, and `CloseReturns` succeeds or not. A minute is one tick;
deadlines of seconds may expire at any time.

### Inspection and Artifacts

An archive is the sequence of its tar entries: a path with what the two scans of
paths see in it, a terminal output with what the parsers match in it, in order
(`Matched`: a parser goes by its first match, that of commands by the last it accepts), something
else, a corrupt entry, or one a library panics at. `Inspect(archive, n)` is what
`inspect` returns when its reader ends after `n` entries, `Partial(archive)` what it may
return of a body that breaks off. A PUT is `Start`, then
`Tee` (the store reads, the tee offers) and `Take` (the pipe's other end takes)
for each entry, `PutStores`, `PutFails` or `PutIsShort`, `Close` of the pipe,
`InspectorEnds`, `Wait`, and `UpsertEntry` or its failure and `Rollback`. The
reconcile is `List`, `EnsureEntry`, `Select` (the listing of the catalog with the
number of objects as its limit, and List's own when that is 0), `Reinspect`,
`UpdateTaskInfo`. Each may fail: `ListFails` ends the goroutine, `SelectFails` skips the
classification, and `EnsureFails`, `ReinspectFails` (`Get`, or a body that breaks off, whose
error `Inspect` drops) and `UpdateFails` are logged or left unsaid, and the loop goes on;
`missed` is history, the hashes whose calls failed. The catalog is a function
on the hashes that have a row. Purges and cleanups are left to `CacheServer`.

## Runs

| Run | Checks | Shows |
|---|---|---|
| `CatalogDurability` | FlushDurable, CleanIsPersisted, IInv, NothingForgotten, ImplementsWriteBehind, EventuallyPersisted | nothing a Flush promised is lost: three flushers, two S3 faults, two processes; mutations reach the bucket when S3 recovers |
| `CatalogData` | TypeOK, CountersAgree, EntriesKeepHistory | every mutator, two hashes and two days, with clones being written |
| `Uploads` | AckedUploadSurvives, AckedUploadIsListed, NoOverwrite | three racing uploads of one hash, ambiguous and short writes, failing upserts, two restarts, either catalog |
| `Expiry` | CleanupSparesFresh | a cleanup racing uploads and reads and one restart, either catalog |
| `Retention` | ExpiredAreDeleted, GhostsAreForgotten | what expires goes, whatever failed, either catalog |
| `Polling` | LabelsNeverAhead, SleepersAreUpToDate, IInv, AnnouncedIsShown | a poll, the full page, two mutators, clock, close |
| `Server`, dashboard | TotalsLeadDays, RowsKeepHistory, WalkShowsAll, ReportIsHonest, BarsFillTheFrame, ComesUp | two writers, two calls, an error or a crash, a database file that is new or half migrated, either catalog, one walk of a browser through what a string matches, which is in a hash and in a kind, pages that show one day |
| `Server`, door | LimiterForgetsLittle, KeysAreAddresses, LockHolds, LateFailuresAreFew, GateIsBounded | three connections from two addresses behind two proxies of either style, forged headers, tables that overflow at one record, a burst that does not refill within the idle time |
| `Server`, sessions | ActsFollowLogins, FormsOutliveSessions | two tabs, one restart, a session that ends |
| `Server`, metrics | PercentilesAreRanks | a window of three, five samples, a clock that goes back |
| `Server`, process | CleanExitSavesAll, OverlapIsBounded, SignalEndsProcess | a signal at any moment of start, service and shutdown |
| `Artifacts` | LabelsAreWhole, ObjectsAreLabelled, LabelsAreKept, UploadsEnd | two uploads, racing for a hash or apart, and an older object, six archives, failures of the store and of every call of the reconcile, a restart, two reconciles |
| `HeaderOverride` (violated) | HeadersWin | finding 4 |
| `ExpiryRestart` (violated) | CleanupHonoursTTL | finding 1 |
| `PollingDashboard` (violated) | DashboardNeverAhead | finding 2 |
| `PollingDates` (violated) | SleepersAreUpToDate | finding 3 |

`Server` is a run of five parts. They share no variable, so that a state of the
whole is a tuple of states of the parts and a property of one part holds in all
interleavings exactly if it holds with the others at rest: `part` says which one
moves. The composition keeps the sum of their states instead of the product.

Every property of a passing run has a mutant: a definition replaced by what a
plausible bug would make of it, next to the definition and marked `Mutant`,
under which the run fails.

### Bounds

`MaxOps`, `MaxFaults`, `MaxStarts`, `MaxUploads`, `MaxTime`, `MaxApplied` and
`MaxVersion` bound counters that the program does not bound; each is named in its
module and appears in guards only. `CatalogDurability` has two mutations, one to be
persisted or in a clone and one to come after it; two faults and two processes
are two failed writes in a row, or a failed load before or after a failed write
and a crash; the properties are about pairs
(two snapshots, a call and a mutation), so that one hash and one day do there,
while `CatalogData` takes three mutations, two hashes and two days and no faults, as
its properties are about the data. In `CacheServer` one hash does, since no handler but a cleanup, which
treats hashes one by one, touches two; three clients on it are an upload, one
that loses to it and one that rolls back. `TTL = 1` and `MaxTime = 3` make
room for an upload to be fresh, to be exactly of age, to expire and to be
uploaded again; in `Retention` `LastRequest = 1` stops requests early
enough for the last one's artifact to expire. One poll does in `Polling`: a poll
changes nothing another one reads. In `Server` the
`PageSize` of one and three hashes make three pages for a string that is in one hash
and in a kind, which a row may have from the start, come with, get or lose; `DaysShown` of one and two days a
day that is too old for the page; `BucketCap` and `MaxMap` of one
make every second address an overflow; a `Burst` of six parts, two ticks of idleness and
one part a tick leave an empty bucket short of two requests when it is forgotten; `MaxFails = 2` leaves room for a login that
is under way when another one locks; a window of three wraps with five samples;
`RunDeadline = 1` and two minutes let three runs of `MaybeRun` be due. Two days
and two calls are a pair of bumps. In `Artifacts` two uploads meet at one hash, or
leave one each, next to an object of an earlier process; an archive has up to three
entries, of which one is behind the one that ends the scan. The runs that say
`CHECK_DEADLOCK FALSE` stop at their bounds; those of `LongPoll` never do.

### Fairness

* `CatalogDurability`: a Flush once called goes on, the ticker calls again and
  again, Close is called and `main` returns after it; nobody else has to call.
  The ticker goroutine loops until the context is done and every call to S3
  returns; that S3 fails only finitely often is a bound.
* `Retention`: time passes, handlers and reconcile return (their calls have
  deadlines or return) and cleanups recur, as `Cleaner.Start` runs one at each
  interval for ever. Flush, restarts and requests are not fair.
* `Server`: a process that is down is started again and its statements end
  (`ComesUp`; an `End` is bounded); `main` goes on, `PutMeta` of the ticker returns,
  and the ticker's `select`, which Go lets choose at random among what is ready,
  does not prefer the tick for ever (strong fairness of `TickerLeaves`). Requests,
  runs of the cleanup and the reconcile need not end: `Shutdown` has a deadline.
* `Artifacts`: every started upload goes on: client and store make progress or
  fail, both goroutines are scheduled. Failures themselves are not fair.
* `Polling`: a mutator that applied announces (the next statement);
  a browser's polls go on: htmx requests `/ui/stats` every 15 seconds (and
  `/ui/entries` when the filter is typed in; the model asks again whichever it is),
  and `WaitOrModified` ends with a timer. No wake-up is needed for that; losing
  one costs time only, which is why `SleepersAreUpToDate` is stated too.

### What does not hold

1. `CACHE_TTL` deletes fresh artifacts after a restart (`ExpiryRestart`). A
   cleanup deletes artifact and entry; the process ends before the next flush
   and the snapshot still has the entry; the hash is uploaded again and the
   entry keeps its old creation time; the next cleanup deletes by it. `README.md`:
   "Delete artifacts whose **create time** is older than this".
   `CleanupSparesFresh` states how far the promise holds: only an old entry
   makes a cleanup delete a fresh artifact (one cleanup at a time, no purge,
   no failing calls).
2. The full page takes its label after its body (`PollingDashboard`), so that its
   ETag need not be "matching current representation state". The polled sections
   do it in the right order and carry their own labels.
3. A poll with only `If-Modified-Since` may wait on a stale page
   (`PollingDates`): its precision is a second. Browsers send the ETag, which
   takes precedence.
4. Headers do not override inference for good (`HeaderOverride`): `README.md` says
   they do, and PUT merges them so. But when the reconcile lists an object whose PUT has
   stored it and has not reached the catalog yet, it makes an entry without labels for it
   and picks that entry to be classified. The PUT then writes its labels, the project
   from a header among them, and answers 200; after that the goroutine reads the archive, and every
   field it offers replaces the entry's, the project included. `LabelsAreKept` states
   what does hold: a known label is never forgotten, only replaced.

Smaller limits that the properties state as their conditions: `WalkShowsAll` does not
cover entries that share a creation time or a walk during which a matching row is deleted
or relabelled; `ReportIsHonest` compares an all-time counter with the days shown and
those too old for the page together; `ObjectsAreLabelled` does not cover an object for which
a call of the reconcile failed, nor a catalog with more entries than objects, since the
listing is limited to the number of objects. An object whose body broke off while it was read
may even have got labels of a part of its archive and then counts as known in every later
process; nothing in the code repairs that, and no property claims it.
`LimiterForgetsLittle` lets an address that was forgotten be ahead by what an empty bucket
still lacked (`Gift`), which is nothing if the burst refills in the idle time
of two minutes; the configuration sets any rate and burst.
`CleanExitSavesAll`
needs requests, cleanups and reconcile to be through when Close takes its copy,
which nobody waits for beyond Shutdown's ten seconds; `OverlapIsBounded` allows as
many runs of `MaybeRun` as their deadline holds minimum gaps, and one more.

## Proofs

Eight modules hold proofs: every safety invariant and every action property that a
passing run checks, and the refinement, is a theorem of the specification, for every
value of the constants. Everything is proved from the named assumptions on
the constants of the module it is about, which TLC evaluates in that module's
runs: bounds are naturals; absent values (`NoEntry`, `NoRow`, `NotSeen`, `Nobody`,
`NoCookie`, `Never`) are not present ones; ticker, closer and direct callers differ; in
`Access` visitors are finitely many and connect from an address that is not a proxy's
(`VisitorAssumption`), what a client forges are addresses, and a burst is at least one
request (`newIPLimiter` sees to it). Where a theorem counts or adds, the
sets it counts over are finite (`FiniteAssumption` of `ObjectCatalog`, `SQLiteCatalog`
and `Artifacts`): a hash is a string of at most 128 characters (`hashPattern`), and
times, days, kinds and goroutines are those of one execution. Otherwise sets of hashes,
days, goroutines, browsers, clients, cleanups, archives, visitors and tabs, and every
number, are arbitrary. A theorem about the part of `Server` it belongs to
is stated over that part's own specification (`DashboardSpec`, `DoorSpec`,
`SessionSpec`, `CollectorSpec`, `ProcessSpec`).

**SumTheorems.** What the counters, the pie and the page's numbers need: `SumFunction` of
the community modules is a recursive fold, and nothing can be computed with it until
`SumIs` says that it is the element's value plus the sum of the rest, whichever
element comes first. That is an induction, and the library's induction theorems take a
predicate, which the provers cannot instantiate; here it is stated with sets instead
(`AllUpTo`, `AllSubsets`), from the least element of a set of numbers (`Least`), which
comes from the well-founded order of the naturals. `SumChanges`, `SumAdds`,
`SumIsMonotonic`, `Greatest` and `TwoShares` are what the invariants use. `SomeOrderSorts`:
numbers come in ascending order by their ranks, and ranks are a bijection.

**ObjectCatalog.** `TypeCorrect` is by one step per action. `IInv` is the
inductive invariant: the caller between clone and return is alone
(`FlushMuIsExclusive`); the bucket's mutations are contained in its clone's,
the ones before its call too, and the clone's in memory's
(`CloneInBetween`); a process with a failed load holds no flushMu and no
caller survives a process (`InProcess`); memory contains what is in the bucket
unless the load failed (`MemoryIsAhead`); together with `CleanIsPersisted`
and `FlushDurable`. Neither of the last two is inductive alone: that a Flush
which finds the catalog clean may return nil needs that clean means persisted,
that needs that nobody else is writing, and that a write adds to the bucket
needs the order of the clone and the bucket. `FlushIsDurable` and
`CleanCatalogIsPersisted` are conjuncts; `BucketForgetsNothing` and the
refinement `CatalogIsWriteBehind` are by one simulation lemma per action under
the invariant. `EntriesRemember` is by one case per mutator; that a load brings
nothing back into an entry that is there needs that a process that is down has
none (`DownIsEmpty`). `CountersAlwaysAgree`: a mutator keeps the sums of memory by
`SumChanges`, and everything else there is (`Held`: clones, the bucket's snapshot) is
a copy of something that agreed, or empty (`NothingNewHeld`).

**CacheServer.** `ServerTypeCorrect` has one lemma per handler.
`NothingIsOverwritten` follows from the types alone, as `Put` asks the store and
not the handler. `AckedUploadsSurvive` needs `UploadsApart`: an upload between its
`PutObject` and its answer owns its object, no two clients own one, and whoever owns
one has not been acknowledged, so that an `Undo` deletes nobody else's. It is
proved for servers without purges and cleanups, which delete on purpose.
`AckedUploadsAreListed` adds `UploadsListed`: an acknowledged upload has an entry, or
the reconcile still has its object to ensure. `FreshArtifactsAreSpared` is about
one cleanup at a time, no purge and no failing call, the conditions of
`CleanupSparesFresh`; its invariant `OldOnly` says that everything a run has listed
stays old, by its entry or by its object, until the run deletes it, which holds
because nothing replaces an object and an entry keeps its creation time.

**SQLiteCatalog and Dashboard.** `DataOK` types the catalog and, above all, the calls: what
is left of one is whole or a lone day (`Left`), so that the statement that comes first says
which bump is half done. `TotalsAlwaysLead` is then by one case per statement: a total
adds one to the counter and to `HalfDone`, its day takes one from the latter, and an
error or the end moves it to `cut`. With the S3 catalog all statements of a call are one
step and both sides grow alike. `RowsRemember` follows from what each statement makes of
a row (`RowsGoOn`).
`PageOK` types the answers and says which queries may be left (`QueriesLeft`: a tail of
those of one page). `BarsAlwaysFit` is arithmetic on top of it: the widths are two shares
of a hundred of the busiest day, each rounded down (`TwoShares`).
`ReportsAreHonest` needs `CountersRead`: a counter that was read lies between what it
was when the page was begun and what it is now, and with the S3 catalog the pie's sum
is the count, read under one lock. That the days, those shown and those
in front of `since`, lack only half done and cut bumps is `TotalsAlwaysLead`, at the moment
they are read.
`WalksShowAll` is the deepest of them. Its invariant `WalkOK` says of the entries the walk
still owes (`Waiting`: matching since the walk began, with a time of their own, and
on no page so far) that at least as many rows are newer as all the pages so far had
places (`Behind`). Matching rows only come, so that this number never falls, and an entry
that is behind the pages so far and not on the next one is behind that, too
(`RowsOfPage`). `MoreToCome`: as long as one is owed the pager has a next page, because
the count was taken of the catalog the rows were (`CountHolds`) and the page is not
empty, as places have no gaps (`EveryPlaceIsTaken`). The last page thus owes none.

**Access.** `Types` bounds tokens by the burst and times by now. `KeysInv`: a
request goes by the address its visitor connects from, which is the one `clientIP` finds
behind the proxies, and so do buckets and records. `BucketsKept`: for every address the bucket, or a
full one where there is none, filled up to now, is level with the one of a limiter that
forgets nobody when `Gift` is 0, and otherwise ahead of it by at most `Gift` or a part of
a request, and behind it by less than a request (`Close`). Forgetting gives
away at most `Gift`, and a request that only one of them grants comes off the lead
of the one that does. `LocksRecorded`: a lock that has not ended has its
record, with enough failures and at least that end, since idle records are forgotten only when
their lock is over; a success clears both, and so does the overflow that drops half
of a full table, the two exceptions `LockHolds` names. `FewRecords`
counts records by the theorems on finite sets. `LateAreInside`: while an address is locked, the
failures since and the logins still inside are together fewer than its visitors: one of them
made the failure that locked.

**Sessions.** `Genuine`: every cookie and every form that the browser, one of its requests or a
reply holds was signed by a secret that has been in use, a cookie by a login one term before
its end. Without the requests and replies on their way it is not inductive: a tab
receives what was served before another one logged out.

**Lifecycle.** `LastFlush`: while Close writes, the ticker is gone and the copy is the
catalog unless somebody was left who may change it. `Throttled`: the runs that
MaybeRun started began at different minimum gaps after each other, and those
that are older than the deadline are over.

**Metrics.** `Window`: the samples are the last of the observed durations, moved by
`Before`. `PercentileHasItsPlace`: the samples below the percentile come from places in
front of its index in the sorted window and those above from places behind it, so that
there are no more of them (`PlacesBound`, by an injection); `RanksAreExact` puts in
the index of each percentile.

**LongPoll.** `HubTypeCorrect` as above. `IInv`: what is announced was applied
(`AnnouncedWasApplied`); labels are of the past, so that the floor under them
is settled, and a body read after its label covers it
(`LabelsAreOfThePast`); who sleeps unsignalled holds the current label
(`SleepersHoldCurrentLabel`). `NoLostWakeUp` and `LabelsAreHonest` follow. They
assume that polls carry ETags, and `LabelsNeverAhead` is about the polled
sections only; findings 2 and 3 show that both are needed.

**Artifacts.** `OnlyWholeLabels`: `Shape` and, for each upload, `Consistent`, which says
what handler, tee, pipe and inspector know of each other: an entry is offered only
while the store still reads, a body that was stored has been taken to its end, a scan
that is done has labels of the whole archive or belongs to a PUT that will not
write any. The lemma `ScanEndsAtEnd` says that a scan that stops at its last entry
has found what a scan of everything finds. `LabelsStay`: no step but a restart takes a row
or a label of one (`LabelsGrow`); every write goes through `Overlay`, which falls back on
what is there. `ObjectsGetLabels` follows the goroutine: `Progress` says of each object it
listed that is still there (`Still`) that it is yet to be ensured or has a row; then, that
it is yet to be read, has just been read, or has its labels (`Fine`). "Still there" is what
makes it hard, as an upload may have been rolled back and another one have taken the hash:
`Clocked` says that such an object is newer than everything that was listed, so that
one that is still there was there all along (`StillBefore`). That the page `Select` takes
misses no row unless there are more rows than objects is `PageIsWhole`.

Only model-checked: the liveness properties (`EventuallyPersisted`, `ExpiredAreDeleted`,
`GhostsAreForgotten`, `AnnouncedIsShown`, `ComesUp`, `SignalEndsProcess`, `UploadsEnd`),
since liveness and ENABLED are out of the prover's reach, the four properties that are
violated, and what `Inspect` finds in an archive: it enters the proofs through
`ScanEndsAtEnd` alone. The theorems of `CacheServer` hold under the conditions its
runs check them under (no purge, one cleanup at a time, no failing call), those of
`LongPoll` for polls with ETags.

## Not modelled

Regular expressions and tar parsing, the parsing of addresses, headers and
environment variables, wording and formats of pages: string work that enters the
models as its results. UI components, style sheets and the login page are markup
around text they are given. Logging is output. `BearerOK` compares strings.
Paging of S3 listings and S3's own retries are below the steps of the models;
`Seed`, `Pack`, `SetTime` and `DeleteMeta` are called by tests or by nobody. The
health check, the screenshot tool and the end-to-end tests are clients of the
server. Two processes on one prefix are excluded by the program's documentation
("single-replica").

## Plan

1. Abstract specifications of an artifact store (for `CacheServer`), of a catalog
   that both implementations implement, and of a hub without subscriptions, with
   refinements.
2. `CacheServer` with two overlapping runs of the cleanup, scheduled as in
   `Lifecycle`.
3. Proofs: what those refinements need; `CleanupSparesFresh` with failing calls, as far
   as it holds.
