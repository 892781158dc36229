---- MODULE CacheServer ----
(***************************************************************************)
(* The life of artifacts: PUT and GET of internal/cacheapi/handler.go, the *)
(* purge of internal/httpserver/server.go, the runs of                     *)
(* internal/cleanup/cleanup.go and the reconcile goroutine of              *)
(* cmd/server/main.go, over the objects of a bucket (internal/storage) and *)
(* the entries of a catalog (internal/store).                              *)
(*                                                                         *)
(* The bucket and the catalog are two stores with no transaction between   *)
(* them: each handler is a sequence of calls, one step per call.  Of an    *)
(* entry only the creation time is kept, of an object its upload and time. *)
(* Requests that change neither (409, 404, HEAD, invalid ones) are no      *)
(* steps.  When the catalog is store.Object, it is what ObjectCatalog      *)
(* promises: volatile, written to the bucket now and then, reloaded.       *)
(***************************************************************************)
EXTENDS Integers

CONSTANTS
  Hash,          \* artifact hashes
  Client,        \* goroutines serving requests
  Run,           \* goroutines running a cleanup: ticker, MaybeRun, dashboard
  Gets,          \* whether clients GET
  Purges,        \* whether the dashboard purges entries
  Backends,      \* CATALOG_BACKEND: "sqlite", or "s3" for store.Object
  NoObject,      \* no object under the hash
  NoEntry,       \* no entry under the hash
  TTL,           \* CACHE_TTL
  MaxTime,       \* bound: the clock
  LastRequest,   \* bound: no request arrives after this time
  MaxUploads,    \* bound: uploads begun
  MaxFaults,     \* bound: failing calls
  MaxStarts      \* bound: restarts

ASSUME TimeAssumption ==
  /\ TTL \in Nat \ {0}
  /\ MaxTime \in Nat
  /\ LastRequest \in Nat
ASSUME ModeAssumption ==
  Gets \in BOOLEAN /\ Purges \in BOOLEAN /\ Backends \subseteq {"sqlite", "s3"}
ASSUME BoundAssumption ==
  MaxUploads \in Nat /\ MaxFaults \in Nat /\ MaxStarts \in Nat

Time == 0..MaxTime
Upload == 1..MaxUploads
Object == [upload : Upload, modified : Time]

ASSUME NoObjectAssumption == NoObject \notin Object
ASSUME NoEntryAssumption == NoEntry \notin Nat

VARIABLES
  now,       \* the clock
  backend,   \* the catalog this server is configured for
  bucket,    \* the artifacts in the bucket
  catalog,   \* the creation time of each entry
  saved,     \* what a restarted process finds of the catalog
  client,    \* of each client: the next call, its hash and its upload
  run,       \* of each cleanup: the next call, its cutoff and its hashes
  recon,     \* of the reconcile goroutine: the next call and its objects
  acked,     \* history: the uploads that were answered 200, with their hash
  uploads, faults, starts

env == <<now, backend>>   \* what no goroutine of the server changes
stores == <<bucket, catalog, saved>>
bounds == <<uploads, faults, starts>>
vars == <<env, stores, client, run, recon, acked, bounds>>

IdleClient == [pc |-> "idle"]
IdleRun == [pc |-> "idle"]

ClientState ==
  {IdleClient} \cup
  [pc : {"put", "upsert", "discard", "rollback"}, hash : Hash, upload : Upload] \cup
  [pc : {"hit", "forget"}, hash : Hash]

RunState ==
  {IdleRun} \cup [pc : {"list", "delete", "forget"}, cutoff : Int, hashes : SUBSET Hash]

ReconState ==
  [pc : {"list", "done", "failed"}] \cup
  [pc : {"ensure"}, objects : [Hash -> Object \cup {NoObject}]]

TypeOK ==
  /\ now \in Time
  /\ backend \in Backends
  /\ bucket \in [Hash -> Object \cup {NoObject}]
  /\ catalog \in [Hash -> Time \cup {NoEntry}]
  /\ saved \in [Hash -> Time \cup {NoEntry}]
  /\ client \in [Client -> ClientState]
  /\ run \in [Run -> RunState]
  /\ recon \in ReconState
  /\ acked \in SUBSET (Hash \X Upload)
  /\ uploads \in 0..MaxUploads
  /\ faults \in 0..MaxFaults
  /\ starts \in 0..MaxStarts

Fault == faults < MaxFaults /\ faults' = faults + 1 /\ UNCHANGED <<uploads, starts>>

SQLite == backend = "sqlite"

\* The catalog of SQLite is on disk; that of store.Object waits for a flush.
Catalog(newCatalog) ==
  /\ catalog' = newCatalog
  /\ saved' = IF SQLite THEN newCatalog ELSE saved

Without(f, hs, none) == [h \in Hash |-> IF h \in hs THEN none ELSE f[h]]

----
(* PUT.                                                                    *)

Then(c, state) == client' = [client EXCEPT ![c] = state]
Done(c) == Then(c, IdleClient)

\* Backend.Exists says no; the upload proceeds.
PutExists(c, h) ==
  /\ client[c] = IdleClient
  /\ now <= LastRequest
  /\ uploads < MaxUploads
  /\ bucket[h] = NoObject
  /\ uploads' = uploads + 1
  /\ Then(c, [pc |-> "put", hash |-> h, upload |-> uploads + 1])
  /\ UNCHANGED <<env, stores, run, recon, acked, faults, starts>>

Uploaded(c) ==
  [bucket EXCEPT ![client[c].hash] = [upload |-> client[c].upload, modified |-> now]]

\* Mutant: Put without If-None-Match.
PutObjectAnyway(c) ==
  /\ client[c].pc = "put"
  /\ bucket' = Uploaded(c)
  /\ Then(c, [client[c] EXCEPT !.pc = "upsert"])
  /\ UNCHANGED <<env, catalog, saved, run, recon, acked, bounds>>

\* Mutant: a Put that lost to another one is rolled back.
PutObjectUndone(c) ==
  /\ client[c].pc = "put"
  /\ bucket' = IF bucket[client[c].hash] = NoObject THEN Uploaded(c) ELSE bucket
  /\ Then(c, [client[c] EXCEPT !.pc =
                IF bucket[client[c].hash] = NoObject THEN "upsert" ELSE "rollback"])
  /\ UNCHANGED <<env, catalog, saved, run, recon, acked, bounds>>

\* Backend.Put with If-None-Match: *.
PutObject(c) ==
  /\ client[c].pc = "put"
  /\ \/ /\ bucket[client[c].hash] = NoObject
        /\ bucket' = Uploaded(c)
        /\ Then(c, [client[c] EXCEPT !.pc = "upsert"])
     \/ /\ bucket[client[c].hash] # NoObject
        /\ Done(c)
        /\ UNCHANGED bucket
  /\ UNCHANGED <<env, catalog, saved, run, recon, acked, bounds>>

\* An error of PutObject: the object may be there all the same.
PutObjectError(c) ==
  /\ client[c].pc = "put"
  /\ Fault
  /\ \/ UNCHANGED bucket
     \/ bucket[client[c].hash] = NoObject /\ bucket' = Uploaded(c)
  /\ Done(c)
  /\ UNCHANGED <<env, catalog, saved, run, recon, acked>>

\* S3 took fewer bytes than announced: Put deletes the object.
PutShort(c) ==
  /\ client[c].pc = "put"
  /\ bucket[client[c].hash] = NoObject
  /\ Fault
  /\ bucket' = Uploaded(c)
  /\ Then(c, [client[c] EXCEPT !.pc = "discard"])
  /\ UNCHANGED <<env, catalog, saved, run, recon, acked>>

\* UpsertEntry keeps the creation time of an entry that is there.
Upserted(h) == [catalog EXCEPT ![h] = IF @ = NoEntry THEN now ELSE @]

UpsertEntry(c) ==
  /\ client[c].pc = "upsert"
  /\ Catalog(Upserted(client[c].hash))
  /\ acked' = acked \cup {<<client[c].hash, client[c].upload>>}
  /\ Done(c)
  /\ UNCHANGED <<env, bucket, run, recon, bounds>>

\* SQLite fails in the INSERT or, with the row in place, in bump.
UpsertError(c) ==
  /\ client[c].pc = "upsert"
  /\ SQLite
  /\ Fault
  /\ Catalog(catalog) \/ Catalog(Upserted(client[c].hash))
  /\ Then(c, [client[c] EXCEPT !.pc = "rollback"])
  /\ UNCHANGED <<env, bucket, run, recon, acked>>

\* Backend.Delete of the hash; its own failure is logged or ignored.
Undo(c) ==
  /\ client[c].pc \in {"discard", "rollback"}
  /\ \/ bucket' = Without(bucket, {client[c].hash}, NoObject) /\ UNCHANGED bounds
     \/ Fault /\ UNCHANGED bucket
  /\ Done(c)
  /\ UNCHANGED <<env, catalog, saved, run, recon, acked>>

----
(* GET and purge.                                                          *)

GetObject(c, h) ==
  /\ Gets
  /\ client[c] = IdleClient
  /\ now <= LastRequest
  /\ bucket[h] # NoObject
  /\ Then(c, [pc |-> "hit", hash |-> h])
  /\ UNCHANGED <<env, stores, run, recon, acked, bounds>>

\* store.Object creates the entry a hit finds missing; SQLite does not.
RecordHit(c) ==
  /\ client[c].pc = "hit"
  /\ Catalog(IF SQLite THEN catalog ELSE Upserted(client[c].hash))
  /\ Done(c)
  /\ UNCHANGED <<env, bucket, run, recon, acked, bounds>>

PurgeObject(c, h) ==
  /\ Purges
  /\ client[c] = IdleClient
  /\ now <= LastRequest
  /\ bucket[h] # NoObject \/ catalog[h] # NoEntry
  /\ bucket' = Without(bucket, {h}, NoObject)
  /\ Then(c, [pc |-> "forget", hash |-> h])
  /\ UNCHANGED <<env, catalog, saved, run, recon, acked, bounds>>

PurgeEntry(c) ==
  /\ client[c].pc = "forget"
  /\ \/ /\ Catalog(Without(catalog, {client[c].hash}, NoEntry))
        /\ UNCHANGED bounds
     \/ SQLite /\ Fault /\ UNCHANGED <<catalog, saved>>
  /\ Done(c)
  /\ UNCHANGED <<env, bucket, run, recon, acked>>

ClientStep(c) ==
  \/ \E h \in Hash : PutExists(c, h) \/ GetObject(c, h) \/ PurgeObject(c, h)
  \/ PutObject(c) \/ PutObjectError(c) \/ PutShort(c)
  \/ UpsertEntry(c) \/ UpsertError(c) \/ Undo(c)
  \/ RecordHit(c) \/ PurgeEntry(c)

----
(* A cleanup run.                                                          *)

RunThen(r, state) == run' = [run EXCEPT ![r] = state]
RunDone(r) == RunThen(r, IdleRun)

\* The cutoff is taken, then Store.ListOlderThan.
ListOlderThan(r) ==
  /\ run[r] = IdleRun
  /\ RunThen(r, [pc |-> "list", cutoff |-> now - TTL,
                 hashes |-> {h \in Hash : catalog[h] # NoEntry /\ catalog[h] < now - TTL}])
  /\ UNCHANGED <<env, stores, client, recon, acked, bounds>>

\* Mutant: an object that is exactly TTL old has expired.
ListObjectsEarly(r) ==
  /\ run[r].pc = "list"
  /\ LET old == {h \in Hash : /\ bucket[h] # NoObject
                              /\ bucket[h].modified <= run[r].cutoff}
     IN RunThen(r, [run[r] EXCEPT !.pc = "delete", !.hashes = @ \cup old])
  /\ UNCHANGED <<env, stores, client, recon, acked, bounds>>

\* Mutant: the run trusts the catalog and does not list the bucket.
ListObjectsNot(r) ==
  /\ run[r].pc = "list"
  /\ IF run[r].hashes = {} THEN RunDone(r)
     ELSE RunThen(r, [run[r] EXCEPT !.pc = "delete"])
  /\ UNCHANGED <<env, stores, client, recon, acked, bounds>>

\* Backend.List adds the objects the catalog does not know to be old.
ListObjects(r) ==
  /\ run[r].pc = "list"
  /\ LET old == {h \in Hash : /\ bucket[h] # NoObject
                              /\ bucket[h].modified < run[r].cutoff}
         hashes == run[r].hashes \cup old
     IN IF hashes = {} THEN RunDone(r)
        ELSE RunThen(r, [run[r] EXCEPT !.pc = "delete", !.hashes = hashes])
  /\ UNCHANGED <<env, stores, client, recon, acked, bounds>>

DeleteObjects(r) ==
  /\ run[r].pc = "delete"
  /\ bucket' = Without(bucket, run[r].hashes, NoObject)
  /\ RunThen(r, [run[r] EXCEPT !.pc = "forget"])
  /\ UNCHANGED <<env, catalog, saved, client, recon, acked, bounds>>

\* A batch fails after others went through, or S3 reports errors for single
\* keys, which Delete does not look at.
DeleteObjectsPartly(r) ==
  /\ run[r].pc = "delete"
  /\ Fault
  /\ \E hs \in SUBSET run[r].hashes : bucket' = Without(bucket, hs, NoObject)
  /\ RunDone(r) \/ RunThen(r, [run[r] EXCEPT !.pc = "forget"])
  /\ UNCHANGED <<env, catalog, saved, client, recon, acked>>

\* Mutant: the entries stay.
ForgetNothing(r) ==
  /\ run[r].pc = "forget"
  /\ RunDone(r)
  /\ UNCHANGED <<env, stores, client, recon, acked, bounds>>

ForgetEntries(r) ==
  /\ run[r].pc = "forget"
  /\ Catalog(Without(catalog, run[r].hashes, NoEntry))
  /\ RunDone(r)
  /\ UNCHANGED <<env, bucket, client, recon, acked, bounds>>

\* Listing the bucket fails, or SQLite does.
RunError(r) ==
  /\ run[r].pc = "list" \/ (SQLite /\ run[r].pc = "forget")
  /\ Fault
  /\ RunDone(r)
  /\ UNCHANGED <<env, stores, client, recon, acked>>

RunStep(r) ==
  \/ ListOlderThan(r) \/ ListObjects(r) \/ DeleteObjects(r)
  \/ DeleteObjectsPartly(r) \/ ForgetEntries(r) \/ RunError(r)

----
(* The reconcile goroutine.                                                *)

\* Mutant: only the first process reconciles, a later one has its snapshot.
ReconcileOnce ==
  /\ recon.pc = "list"
  /\ recon' = [pc |-> "ensure",
               objects |-> [h \in Hash |-> IF starts = 0 THEN bucket[h] ELSE NoObject]]
  /\ UNCHANGED <<env, stores, client, run, acked, bounds>>

ReconcileList ==
  /\ recon.pc = "list"
  /\ recon' = [pc |-> "ensure", objects |-> bucket]
  /\ UNCHANGED <<env, stores, client, run, acked, bounds>>

\* EnsureEntry of one of the objects that were listed.
ReconcileEnsure(h) ==
  /\ recon.pc = "ensure"
  /\ recon.objects[h] # NoObject
  /\ Catalog([catalog EXCEPT ![h] = IF @ = NoEntry THEN recon.objects[h].modified ELSE @])
  /\ recon' = [recon EXCEPT !.objects[h] = NoObject]
  /\ UNCHANGED <<env, bucket, client, run, acked, bounds>>

ReconcileDone ==
  /\ recon.pc = "ensure"
  /\ \A h \in Hash : recon.objects[h] = NoObject
  /\ recon' = [pc |-> "done"]
  /\ UNCHANGED <<env, stores, client, run, acked, bounds>>

\* The listing fails: the goroutine returns.
ReconcileError ==
  /\ recon.pc = "list"
  /\ Fault
  /\ recon' = [pc |-> "failed"]
  /\ UNCHANGED <<env, stores, client, run, acked>>

\* EnsureEntry fails for one object: it is logged, and the next has its turn.
EnsureError(h) ==
  /\ SQLite
  /\ recon.pc = "ensure"
  /\ recon.objects[h] # NoObject
  /\ Fault
  /\ recon' = [recon EXCEPT !.objects[h] = NoObject]
  /\ UNCHANGED <<env, stores, client, run, acked>>

Reconcile ==
  \/ ReconcileList
  \/ \E h \in Hash : ReconcileEnsure(h) \/ EnsureError(h)
  \/ ReconcileDone
  \/ ReconcileError

----
(* The catalog's flush, the clock and the process.                         *)

Flush ==
  /\ saved # catalog
  /\ saved' = catalog
  /\ UNCHANGED <<env, bucket, catalog, client, run, recon, acked, bounds>>

Tick ==
  /\ now < MaxTime
  /\ now' = now + 1
  /\ UNCHANGED <<backend, stores, client, run, recon, acked, bounds>>

\* The process ends at any point and another one starts.
Restart ==
  /\ starts < MaxStarts
  /\ starts' = starts + 1
  /\ catalog' = saved
  /\ client' = [c \in Client |-> IdleClient]
  /\ run' = [r \in Run |-> IdleRun]
  /\ recon' = [pc |-> "list"]
  /\ UNCHANGED <<env, bucket, saved, acked, uploads, faults>>

Init ==
  /\ now = 0
  /\ backend \in Backends
  /\ bucket = [h \in Hash |-> NoObject]
  /\ catalog = [h \in Hash |-> NoEntry]
  /\ saved = [h \in Hash |-> NoEntry]
  /\ client = [c \in Client |-> IdleClient]
  /\ run = [r \in Run |-> IdleRun]
  /\ recon = [pc |-> "list"]
  /\ acked = {}
  /\ uploads = 0
  /\ faults = 0
  /\ starts = 0

Next ==
  \/ \E c \in Client : ClientStep(c)
  \/ \E r \in Run : RunStep(r)
  \/ Reconcile
  \/ Flush
  \/ Tick
  \/ Restart

Spec == Init /\ [][Next]_vars

(* Time passes, handlers and the reconcile return, and the cleanups that   *)
(* recur (Cleaner.Start) run again and again; calls fail MaxFaults times.  *)
FairSpec ==
  /\ Spec
  /\ WF_vars(Tick)
  /\ WF_vars(Reconcile)
  /\ \A c \in Client : WF_vars(ClientStep(c))
  /\ \A r \in Run : WF_vars(RunStep(r))

----

\* An object is never replaced by another one in place, though every PUT looks
\* first and writes later ("Cannot override an existing record").
NoOverwrite ==
  [][\A h \in Hash : bucket[h] # NoObject /\ bucket'[h] # NoObject =>
       bucket'[h] = bucket[h]]_vars

\* With no purge and no cleanup, an upload that was answered 200 stays, however
\* the other PUTs of its hash fail, are rolled back or are cut short.
AckedUploadSurvives ==
  \A a \in acked : bucket[a[1]] # NoObject /\ bucket[a[1]].upload = a[2]

\* With no purge and no cleanup, an upload that was answered 200 is in the
\* catalog, also after a crash that lost its entry, once reconcile is through;
\* and where ensuring an entry may fail, in SQLite, none is lost.
AckedUploadIsListed ==
  recon.pc = "done" => \A a \in acked : catalog[a[1]] # NoEntry

DeletedBy(r, h) ==
  /\ run[r].pc = "delete" /\ run'[r] # run[r]
  /\ bucket[h] # NoObject /\ bucket'[h] = NoObject

\* A cleanup deletes an artifact only when the artifact is older than the TTL
\* ("Delete artifacts whose create time is older than this").
CleanupHonoursTTL ==
  [][\A r \in Run, h \in Hash :
       DeletedBy(r, h) => bucket[h].modified < now - TTL]_vars

\* With one cleanup at a time, no purge and no failing call, a fresh artifact
\* is deleted only when an entry from before the artifact claims it is old.
CleanupSparesFresh ==
  [][\A r \in Run, h \in Hash :
       DeletedBy(r, h) =>
         \/ bucket[h].modified < now - TTL
         \/ catalog[h] # NoEntry /\ catalog[h] < now - TTL]_vars

\* Every artifact that gets older than the TTL goes, also one the catalog lost
\* or never knew, and also when deletions fail part of the way.
ExpiredAreDeleted ==
  \A h \in Hash, u \in Upload :
    /\ bucket[h] # NoObject
    /\ bucket[h].upload = u
    /\ bucket[h].modified + TTL < MaxTime
    ~> bucket[h] = NoObject \/ bucket[h].upload # u

\* An entry whose artifact is gone goes too, or its artifact comes back.
GhostsAreForgotten ==
  \A h \in Hash, t \in Time :
    t + TTL < MaxTime /\ catalog[h] = t /\ bucket[h] = NoObject
    ~> catalog[h] # t \/ bucket[h] # NoObject

====
