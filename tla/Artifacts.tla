---- MODULE Artifacts ----
(***************************************************************************)
(* How an entry of the catalog gets its labels: the upload that streams an *)
(* archive to the store and, through a pipe, to a goroutine that inspects  *)
(* it (Handler.Put of internal/cacheapi/handler.go), and the goroutine of  *)
(* main that reconciles the catalog with the bucket at every start and     *)
(* inspects again what has no labels.                                      *)
(*                                                                         *)
(* The pipe is synchronous: the tee in the body the store reads is blocked *)
(* until the inspector took what it wrote.  An archive goes through it one *)
(* tar entry at a time.  Nothing is purged here: see CacheServer.          *)
(***************************************************************************)
EXTENDS Inspection, FiniteSetsExt

CONSTANTS
  Hash,
  Upload,       \* requests PUT /v1/cache/{hash}
  Old,          \* those an earlier process has answered
  Archives,     \* the archives that are uploaded
  Requests,     \* what the uploads may be: functions on Upload
  Nobody,       \* no upload stored the object, no labels were read
  PageLimit,    \* the limit List puts in the place of 0
  MaxRestarts   \* bound: processes after the first

ASSUME OldAssumption == Old \subseteq Upload /\ Nobody \notin Upload
ASSUME RequestsAssumption ==
  \A r \in Requests, u \in Upload :
    r[u].hash \in Hash /\ r[u].archive \in Archives /\ Len(r[u].archive) \in Nat
ASSUME FiniteAssumption == IsFiniteSet(Hash)
ASSUME PageLimitAssumption == PageLimit \in Nat \ {0}

VARIABLES
  request,   \* of each upload: its hash, what FromHeaders returns and its archive
  objects,   \* the bucket: by which upload an object is, and when it came
  catalog,   \* its rows, by hash: their labels and their creation time
  clock,     \* one tick for each object stored
  pc,        \* where a request is in Put
  result,    \* what Backend.Put returned, and what the client was told
  got,       \* the tar entries the store has read from the body
  offered,   \* the tee has written an entry that was not taken yet
  pipe,      \* "open", "closed" by Put or "broken" by the inspector
  inspector, \* "inspecting", "draining" or "done"
  inspected, \* of the closure in Put
  reconcile, \* where the goroutine of main is
  listed,    \* what it listed, by hash
  todo,      \* the hashes it has yet to ensure or classify
  reading,   \* the hash and the labels of the object it just inspected
  crowded,   \* history: there were more entries than objects
  missed,    \* history: the hashes for which a call of the goroutine failed
  restarts

upload == <<pc, result, got, offered, pipe, inspector, inspected>>
worker == <<reconcile, listed, todo, reading>>
store == <<objects, catalog, clock>>
history == <<crowded, missed>>
vars == <<request, store, upload, worker, history, restarts>>

\* What inspect returns after n entries, of a body that breaks off, and after all.
Scan == [a \in Archives |-> [n \in 0..Len(a) |-> Inspect(a, n)]]
Parts == [a \in Archives |-> Partial(a)]
Whole(archive) == Scan[archive][Len(archive)]

Archive(u) == request[u].archive
HashOf(u) == request[u].hash
NewEntry(info, at) == [info |-> info, at |-> at]

ASSUME NobodyAssumption ==
  \A h \in Hash, a \in Archives : Nobody # [hash |-> h, info |-> Whole(a)]

Objects == {h \in Hash : objects[h] # Nobody}
Entries == DOMAIN catalog

\* The catalog with the entry for the hash.
WithEntry(h, entry) == [g \in Entries \cup {h} |-> IF g = h THEN entry ELSE catalog[g]]

\* The catalog with the labels over those of the hash's row, if it has one.
Relabelled(h, info) ==
  IF h \in Entries THEN WithEntry(h, NewEntry(Overlay(info, catalog[h].info), catalog[h].at))
  ELSE catalog

----
(* A request: Handler.Put.                                                 *)

\* Exists; the conflict is answered without the body being read.
Start(u) ==
  /\ pc[u] = "idle"
  /\ IF objects[HashOf(u)] = Nobody
       THEN pc' = [pc EXCEPT ![u] = "sending"] /\ UNCHANGED result
       ELSE /\ pc' = [pc EXCEPT ![u] = "answered"]
            /\ result' = [result EXCEPT ![u] = "conflict"]
  /\ UNCHANGED <<request, store, got, offered, pipe, inspector, inspected, worker, history, restarts>>

\* The store reads the body: the tee writes what it read to the pipe.
Tee(u) ==
  /\ pc[u] = "sending"
  /\ pipe[u] = "open"
  /\ ~offered[u]
  /\ got[u] < Len(Archive(u))
  /\ offered' = [offered EXCEPT ![u] = TRUE]
  /\ UNCHANGED <<request, store, pc, result, got, pipe, inspector, inspected, worker, history, restarts>>

\* Mutant: the goroutine ends with Inspect and neither drains nor closes.
TakeNoDrain(u) ==
  /\ offered[u]
  /\ inspector[u] = "inspecting"
  /\ offered' = [offered EXCEPT ![u] = FALSE]
  /\ got' = [got EXCEPT ![u] = @ + 1]
  /\ IF got[u] + 1 < End(Archive(u))
       THEN UNCHANGED <<inspected, inspector, pipe>>
       ELSE /\ inspected' = [inspected EXCEPT ![u] = Scan[Archive(u)][got[u] + 1]]
            /\ inspector' = [inspector EXCEPT ![u] = "done"]
            /\ UNCHANGED pipe
  /\ UNCHANGED <<request, store, pc, result, worker, history, restarts>>

\* Inspect, then io.Copy, reads from the pipe, and the write returns.  At its
\* last entry Inspect returns, or a library panics and the pipe is closed.
Take(u) ==
  /\ offered[u]
  /\ inspector[u] # "done"
  /\ offered' = [offered EXCEPT ![u] = FALSE]
  /\ got' = [got EXCEPT ![u] = @ + 1]
  /\ IF got[u] + 1 # End(Archive(u))
       THEN UNCHANGED <<inspected, inspector, pipe>>
       ELSE /\ inspected' = [inspected EXCEPT ![u] = Scan[Archive(u)][got[u] + 1]]
            /\ IF Archive(u)[got[u] + 1].entry = "poison"
                 THEN /\ inspector' = [inspector EXCEPT ![u] = "done"]
                      /\ pipe' = [pipe EXCEPT ![u] = "broken"]
                 ELSE /\ inspector' = [inspector EXCEPT ![u] = "draining"]
                      /\ UNCHANGED pipe
  /\ UNCHANGED <<request, store, pc, result, worker, history, restarts>>

PutReturns(u, r) ==
  /\ pc[u] = "sending"
  /\ pc' = [pc EXCEPT ![u] = "closing"]
  /\ result' = [result EXCEPT ![u] = r]
  /\ UNCHANGED <<request, catalog, got, offered, pipe, inspector, inspected, worker, history, restarts>>

Store(u) ==
  /\ objects' = [objects EXCEPT ![HashOf(u)] = [by |-> u, at |-> clock]]
  /\ clock' = clock + 1

AllRead(u) == got[u] = Len(Archive(u)) /\ ~offered[u]

\* If-None-Match: * lets one of several uploads through.
PutStores(u) ==
  /\ AllRead(u)
  /\ IF objects[HashOf(u)] = Nobody
       THEN Store(u) /\ PutReturns(u, "stored")
       ELSE PutReturns(u, "conflict") /\ UNCHANGED <<objects, clock>>

\* The store refuses before it has read the body; the network, the store or
\* the client fails; the answer to a whole body may be lost.
PutFails(u) ==
  \/ /\ objects[HashOf(u)] # Nobody
     /\ PutReturns(u, "conflict")
     /\ UNCHANGED <<objects, clock>>
  \/ PutReturns(u, "error") /\ UNCHANGED <<objects, clock>>
  \/ AllRead(u) /\ objects[HashOf(u)] = Nobody /\ Store(u) /\ PutReturns(u, "error")

\* The tee passes on the EOF of a broken pipe: the body is too short.
PutIsShort(u) ==
  /\ pipe[u] = "broken"
  /\ ~AllRead(u)
  /\ PutReturns(u, "incomplete")
  /\ UNCHANGED <<objects, clock>>

\* pw.Close: a write that still waits fails.
Close(u) ==
  /\ pc[u] = "closing"
  /\ pc' = [pc EXCEPT ![u] = "waiting"]
  /\ pipe' = [pipe EXCEPT ![u] = IF @ = "open" THEN "closed" ELSE @]
  /\ offered' = [offered EXCEPT ![u] = FALSE]
  /\ UNCHANGED <<request, store, result, got, inspector, inspected, worker, history, restarts>>

InspectorEnds(u) ==
  /\ pipe[u] = "closed"
  /\ inspector[u] # "done"
  /\ inspector' = [inspector EXCEPT ![u] = "done"]
  /\ inspected' = [inspected EXCEPT
       ![u] = IF inspector[u] = "inspecting" THEN Scan[Archive(u)][got[u]] ELSE @]
  /\ UNCHANGED <<request, store, pc, result, got, offered, pipe, worker, history, restarts>>

\* Mutant: no wg.Wait.
NoWait(u) ==
  /\ pc[u] = "waiting"
  /\ pc' = [pc EXCEPT ![u] = IF result[u] = "stored" THEN "upserting" ELSE "answered"]
  /\ UNCHANGED <<request, store, result, got, offered, pipe, inspector, inspected, worker, history, restarts>>

Wait(u) ==
  /\ pc[u] = "waiting"
  /\ inspector[u] = "done"
  /\ pc' = [pc EXCEPT ![u] = IF result[u] = "stored" THEN "upserting" ELSE "answered"]
  /\ UNCHANGED <<request, store, result, got, offered, pipe, inspector, inspected, worker, history, restarts>>

Labels(u) == Merge(request[u].headers, inspected[u])

UpsertEntry(u) ==
  /\ pc[u] = "upserting"
  /\ pc' = [pc EXCEPT ![u] = "answered"]
  /\ catalog' = IF HashOf(u) \in Entries THEN Relabelled(HashOf(u), Labels(u))
                ELSE WithEntry(HashOf(u), NewEntry(Labels(u), clock))
  /\ UNCHANGED <<request, objects, clock, result, got, offered, pipe, inspector,
                 inspected, worker, history, restarts>>

UpsertFails(u) ==
  /\ pc[u] = "upserting"
  /\ pc' = [pc EXCEPT ![u] = "rollback"]
  /\ result' = [result EXCEPT ![u] = "error"]
  /\ UNCHANGED <<request, store, got, offered, pipe, inspector, inspected, worker, history, restarts>>

\* Delete of the object may fail, too.
Rollback(u) ==
  /\ pc[u] = "rollback"
  /\ pc' = [pc EXCEPT ![u] = "answered"]
  /\ objects' \in {objects, [objects EXCEPT ![HashOf(u)] = Nobody]}
  /\ UNCHANGED <<request, catalog, clock, result, got, offered, pipe, inspector,
                 inspected, worker, history, restarts>>

----
(* The goroutine of main.  An error of the first call ends it; the errors   *)
(* of all others, those after its two minutes included, are logged or left *)
(* unsaid, and it goes on.                                                 *)

List ==
  /\ reconcile = "listing"
  /\ reconcile' = "ensuring"
  /\ listed' = [h \in Objects |-> objects[h].at]
  /\ todo' = Objects
  /\ UNCHANGED <<request, store, upload, reading, history, restarts>>

ListFails ==
  /\ reconcile = "listing"
  /\ reconcile' = "failed"
  /\ UNCHANGED <<request, store, upload, listed, todo, reading, history, restarts>>

EnsureEntry(h) ==
  /\ reconcile = "ensuring"
  /\ h \in todo
  /\ todo' = todo \ {h}
  /\ catalog' = IF h \in Entries THEN catalog ELSE WithEntry(h, NewEntry(NoInfo, listed[h]))
  /\ UNCHANGED <<request, objects, clock, upload, reconcile, listed, reading, history, restarts>>

EnsureFails(h) ==
  /\ reconcile = "ensuring"
  /\ h \in todo
  /\ todo' = todo \ {h}
  /\ missed' = missed \cup {h}
  /\ UNCHANGED <<request, store, upload, reconcile, listed, reading, crowded, restarts>>

Known(h) == Labelled(catalog[h].info) /\ catalog[h].info.kind # ""

\* Mutant: the default limit.
FirstPage == PageLimit

\* List is asked for as many entries as there were objects.
Limit == IF DOMAIN listed = {} THEN PageLimit ELSE Cardinality(DOMAIN listed)

\* The newest entries, up to the limit.
NewestEntries(page) ==
  /\ page \subseteq Entries
  /\ Cardinality(page) = Min({Limit, Cardinality(Entries)})
  /\ \A h \in page, g \in Entries \ page : catalog[h].at >= catalog[g].at

\* catalog.List, and the entries that are not skipped.
Select ==
  /\ reconcile = "ensuring"
  /\ todo = {}
  /\ reconcile' = "classifying"
  /\ \E page \in SUBSET Hash : NewestEntries(page) /\ todo' = {h \in page : ~Known(h)}
  /\ crowded' = (Cardinality(Entries) > Cardinality(DOMAIN listed))
  /\ UNCHANGED <<request, store, upload, listed, reading, missed, restarts>>

\* The loop is not entered.
SelectFails ==
  /\ reconcile = "ensuring"
  /\ todo = {}
  /\ reconcile' = "reconciled"
  /\ missed' = missed \cup DOMAIN listed
  /\ UNCHANGED <<request, store, upload, listed, todo, reading, crowded, restarts>>

\* Get is asked for the next entry.
NextEntry(h) ==
  /\ reconcile = "classifying"
  /\ reading = Nobody
  /\ h \in todo
  /\ todo' = todo \ {h}
  /\ UNCHANGED <<request, store, upload, reconcile, listed, crowded, restarts>>

\* What Inspect returned of the hash; an archive that says nothing is skipped.
Read(h, info) == reading' = IF Empty(info) THEN Nobody ELSE [hash |-> h, info |-> info]

Stored(h) == Archive(objects[h].by)

\* Get and Inspect.  An object that is gone is skipped; nobody recovers from a
\* panic here, it is a Restart.
Reinspect(h) ==
  /\ NextEntry(h)
  /\ IF objects[h] = Nobody THEN reading' = Nobody
     ELSE /\ \A i \in DOMAIN Stored(h) : Stored(h)[i].entry # "poison"
          /\ Read(h, Whole(Stored(h)))
  /\ UNCHANGED missed

\* Get fails, or the body breaks off and the error of inspect is dropped.
ReinspectFails(h) ==
  /\ NextEntry(h)
  /\ objects[h] # Nobody
  /\ reading' = Nobody \/ \E info \in Parts[Stored(h)] : Read(h, info)
  /\ missed' = missed \cup {h}

\* Mutant: the row takes the labels as they are.
ReplaceTaskInfo ==
  /\ reading # Nobody
  /\ reading' = Nobody
  /\ catalog' = IF reading.hash \in Entries
                  THEN WithEntry(reading.hash, NewEntry(reading.info, catalog[reading.hash].at))
                  ELSE catalog
  /\ UNCHANGED <<request, objects, clock, upload, reconcile, listed, todo, history, restarts>>

UpdateTaskInfo ==
  /\ reading # Nobody
  /\ reading' = Nobody
  /\ catalog' = Relabelled(reading.hash, reading.info)
  /\ UNCHANGED <<request, objects, clock, upload, reconcile, listed, todo, history, restarts>>

UpdateFails ==
  /\ reading # Nobody
  /\ reading' = Nobody
  /\ missed' = missed \cup {reading.hash}
  /\ UNCHANGED <<request, store, upload, reconcile, listed, todo, crowded, restarts>>

Reconciled ==
  /\ reconcile = "classifying"
  /\ todo = {}
  /\ reading = Nobody
  /\ reconcile' = "reconciled"
  /\ UNCHANGED <<request, store, upload, listed, todo, reading, history, restarts>>

----
(* The process.                                                            *)

\* Requests and the goroutine are cut off; rows that were not flushed are lost.
Restart ==
  /\ restarts < MaxRestarts
  /\ restarts' = restarts + 1
  /\ \E kept \in SUBSET Entries : catalog' = [h \in kept |-> catalog[h]]
  /\ pc' = [u \in Upload |-> IF pc[u] \in {"idle", "answered"} THEN pc[u] ELSE "cut"]
  /\ offered' = [u \in Upload |-> FALSE]
  /\ pipe' = [u \in Upload |-> IF pc[u] = "idle" THEN "open" ELSE "broken"]
  /\ inspector' = [u \in Upload |-> IF pc[u] = "idle" THEN "inspecting" ELSE "done"]
  /\ reconcile' = "listing"
  /\ listed' = <<>>
  /\ todo' = {}
  /\ reading' = Nobody
  /\ crowded' = FALSE
  /\ missed' = {}
  /\ UNCHANGED <<request, objects, clock, result, got, inspected>>

Init ==
  /\ request \in Requests
  /\ objects \in [Hash -> {Nobody} \cup {[by |-> u, at |-> 0] : u \in Old}]
  /\ \A h \in Hash : objects[h] # Nobody => HashOf(objects[h].by) = h
  /\ catalog = <<>>
  /\ clock = 1
  /\ pc = [u \in Upload |-> IF u \in Old THEN "answered" ELSE "idle"]
  /\ result = [u \in Upload |-> "none"]
  /\ got = [u \in Upload |-> 0]
  /\ offered = [u \in Upload |-> FALSE]
  /\ pipe = [u \in Upload |-> "open"]
  /\ inspector = [u \in Upload |-> "inspecting"]
  /\ inspected = [u \in Upload |-> NoInfo]
  /\ reconcile = "listing"
  /\ listed = <<>>
  /\ todo = {}
  /\ reading = Nobody
  /\ crowded = FALSE
  /\ missed = {}
  /\ restarts = 0

Request(u) ==
  \/ Start(u) \/ Tee(u) \/ Take(u) \/ PutStores(u) \/ PutIsShort(u) \/ Close(u)
  \/ InspectorEnds(u) \/ Wait(u) \/ UpsertEntry(u) \/ UpsertFails(u) \/ Rollback(u)

Reconcile ==
  \/ List \/ (\E h \in Hash : EnsureEntry(h) \/ Reinspect(h))
  \/ Select \/ UpdateTaskInfo \/ Reconciled

ReconcileFails ==
  \/ ListFails \/ (\E h \in Hash : EnsureFails(h) \/ ReinspectFails(h))
  \/ SelectFails \/ UpdateFails

Next ==
  \/ \E u \in Upload : Request(u) \/ PutFails(u)
  \/ Reconcile \/ ReconcileFails
  \/ Restart

Spec == Init /\ [][Next]_vars

\* Clients send what they announced and the store answers in the end; both
\* goroutines of a request are scheduled.
FairSpec == Spec /\ \A u \in Upload \ Old : WF_vars(pc[u] # "idle" /\ Request(u))

----

Place == {"idle", "sending", "closing", "waiting", "upserting", "rollback", "answered", "cut"}
Answer == {"none", "stored", "conflict", "incomplete", "error"}

\* Every part of a request, of the goroutine and of the catalog has its type.
TypeOK ==
  /\ objects \in [Hash -> {Nobody} \cup [by : Upload, at : Nat]]
  /\ Entries \subseteq Hash /\ \A h \in Entries : catalog[h] \in [info : Info, at : Nat]
  /\ pc \in [Upload -> Place]
  /\ result \in [Upload -> Answer]
  /\ \A u \in Upload : got[u] \in 0..Len(Archive(u))
  /\ offered \in [Upload -> BOOLEAN]
  /\ pipe \in [Upload -> {"open", "closed", "broken"}]
  /\ inspector \in [Upload -> {"inspecting", "draining", "done"}]
  /\ inspected \in [Upload -> Info]
  /\ reconcile \in {"listing", "ensuring", "classifying", "reconciled", "failed"}
  /\ todo \subseteq Hash /\ missed \subseteq Hash
  /\ reading # Nobody => reconcile = "classifying" /\ reading \in [hash : Hash, info : Info]

\* What Put writes to the catalog is what a scan of the whole archive gives,
\* however the two goroutines and the store took turns at the pipe: never the
\* labels of a part of it, never those of a scan that still runs.
LabelsAreWhole ==
  \A u \in Upload : pc[u] = "upserting" => inspected[u] = Whole(Archive(u))

\* A label that is known is not forgotten while the process lives, whoever
\* writes to the row: uploads, or the reconcile with what it read before.
LabelsAreKept ==
  [][restarts' = restarts =>
       \A h \in Entries : /\ h \in Entries'
                          /\ \A f \in DOMAIN NoInfo :
                               catalog[h].info[f] # "" => catalog'[h].info[f] # ""]_vars

\* When the goroutine is through, an object it listed that is still there has a
\* row with the labels its archive offers, whatever uploads do meanwhile and
\* whatever calls failed for other objects.  Two things it does not make good: a
\* call for this object, or List of the catalog, that failed; and more entries
\* than objects, as newer rows, of uploads that ended since or of objects that
\* are gone, then take the place of older ones.
ObjectsAreLabelled ==
  reconcile = "reconciled" /\ ~crowded =>
    \A h \in DOMAIN listed \ missed :
      objects[h] # Nobody /\ objects[h].at = listed[h] =>
        LET info == Whole(Archive(objects[h].by))
        IN /\ h \in Entries
           /\ Labelled(info) => Labelled(catalog[h].info)
           /\ info.kind # "" => catalog[h].info.kind # ""

\* Handler, tee and inspecting goroutine do not wait for each other for ever,
\* whatever the archive holds and wherever the store gives up on it.
UploadsEnd ==
  \A u \in Upload \ Old : pc[u] # "idle" ~> pc[u] \in {"answered", "cut"}

\* README.md:143: "Optional headers X-Nx-Project, X-Nx-Target, and
\* X-Nx-Configuration override inference if a wrapper sets them".
HeadersWin ==
  [][restarts' = restarts =>
       \A u \in Upload, f \in {"project", "target", "config"} :
         LET h == HashOf(u) IN
         /\ pc[u] = "answered" /\ result[u] = "stored" /\ request[u].headers[f] # ""
         /\ h \in Entries /\ catalog[h].info[f] = request[u].headers[f]
         => catalog'[h].info[f] = request[u].headers[f]]_vars

====
