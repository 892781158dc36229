---- MODULE CacheServerProofs ----
(***************************************************************************)
(* Proofs about CacheServer, for any number of hashes, clients, cleanups,  *)
(* uploads, failing calls and restarts, and for both catalogs.             *)
(***************************************************************************)
EXTENDS CacheServer, TLAPS

USE TimeAssumption, BoundAssumption, NoObjectAssumption, NoEntryAssumption

----
(* The states of goroutines.                                               *)

Uploading == {"put", "upsert", "discard", "rollback"}

LEMMA UploadingClient ==
  ASSUME NEW s \in ClientState, s.pc \in Uploading
  PROVE  /\ s.hash \in Hash /\ s.upload \in Upload
         /\ \A p \in Uploading : /\ [s EXCEPT !.pc = p] \in ClientState
                                 /\ [s EXCEPT !.pc = p].pc = p
                                 /\ [s EXCEPT !.pc = p].hash = s.hash
                                 /\ [s EXCEPT !.pc = p].upload = s.upload
<1>1. s \in [pc : Uploading, hash : Hash, upload : Upload]
  BY DEF ClientState, IdleClient, Uploading
<1>2. QED BY <1>1 DEF ClientState, Uploading

LEMMA OtherClient ==
  ASSUME NEW s \in ClientState, s.pc \in {"hit", "forget"}
  PROVE  s.hash \in Hash
BY DEF ClientState, IdleClient

LEMMA NewClients ==
  ASSUME NEW h \in Hash
  PROVE  /\ IdleClient \in ClientState
         /\ \A u \in Upload : [pc |-> "put", hash |-> h, upload |-> u] \in ClientState
         /\ [pc |-> "hit", hash |-> h] \in ClientState
         /\ [pc |-> "forget", hash |-> h] \in ClientState
BY DEF ClientState

LEMMA RunFields ==
  ASSUME NEW s \in RunState, s.pc \in {"list", "delete", "forget"}
  PROVE  /\ s.cutoff \in Int /\ s.hashes \in SUBSET Hash
         /\ \A hs \in SUBSET Hash, p \in {"list", "delete", "forget"} :
              /\ [s EXCEPT !.pc = p] \in RunState
              /\ [s EXCEPT !.pc = p, !.hashes = hs] \in RunState
<1>1. s \in [pc : {"list", "delete", "forget"}, cutoff : Int, hashes : SUBSET Hash]
  BY DEF RunState, IdleRun
<1>2. QED BY <1>1 DEF RunState

LEMMA ReconFields ==
  ASSUME NEW s \in ReconState, s.pc = "ensure", NEW h \in Hash
  PROVE  /\ s.objects \in [Hash -> Object \cup {NoObject}]
         /\ [s EXCEPT !.objects[h] = NoObject] \in ReconState
         /\ [s EXCEPT !.objects[h] = NoObject].pc = "ensure"
         /\ [s EXCEPT !.objects[h] = NoObject].objects = [s.objects EXCEPT ![h] = NoObject]
<1>1. s \in [pc : {"ensure"}, objects : [Hash -> Object \cup {NoObject}]]
  BY DEF ReconState
<1>2. QED BY <1>1 DEF ReconState

----
(* Types.                                                                  *)

Catalogs == [Hash -> Time \cup {NoEntry}]
Buckets == [Hash -> Object \cup {NoObject}]

LEMMA CatalogType ==
  ASSUME TypeOK, NEW new \in Catalogs, Catalog(new)
  PROVE  catalog' \in Catalogs /\ saved' \in Catalogs
BY DEF TypeOK, Catalog, Catalogs

LEMMA WithoutType ==
  /\ \A hs : Without(bucket, hs, NoObject) \in Buckets \/ bucket \notin Buckets
  /\ \A hs : Without(catalog, hs, NoEntry) \in Catalogs \/ catalog \notin Catalogs
BY DEF Without, Buckets, Catalogs

LEMMA UpsertedType ==
  ASSUME TypeOK, NEW h \in Hash
  PROVE  Upserted(h) \in Catalogs
BY DEF TypeOK, Upserted, Catalogs

LEMMA UploadedType ==
  ASSUME TypeOK, NEW c \in Client, client[c].pc \in Uploading
  PROVE  /\ Uploaded(c) \in Buckets
         /\ Uploaded(c)[client[c].hash] = [upload |-> client[c].upload, modified |-> now]
         /\ \A h \in Hash \ {client[c].hash} : Uploaded(c)[h] = bucket[h]
<1>1. client[c].hash \in Hash /\ client[c].upload \in Upload
  BY UploadingClient DEF TypeOK
<1>2. [upload |-> client[c].upload, modified |-> now] \in Object
  BY <1>1 DEF TypeOK, Object
<1>3. QED BY <1>1, <1>2 DEF Uploaded, TypeOK, Buckets

LEMMA FaultType == TypeOK /\ Fault => faults' \in 0..MaxFaults /\ UNCHANGED <<uploads, starts>>
BY DEF TypeOK, Fault

\* What a step of a client may change.
LEMMA ClientTypes ==
  ASSUME TypeOK, NEW c \in Client, NEW s \in ClientState, Then(c, s),
         UNCHANGED <<env, run, recon>>,
         bucket' \in Buckets, catalog' \in Catalogs, saved' \in Catalogs,
         acked' \in SUBSET (Hash \X Upload),
         uploads' \in 0..MaxUploads, faults' \in 0..MaxFaults, starts' \in 0..MaxStarts
  PROVE  TypeOK'
BY DEF TypeOK, Then, env, Buckets, Catalogs

LEMMA ClientStepType ==
  ASSUME TypeOK, NEW c \in Client, ClientStep(c)
  PROVE  TypeOK'
<1>0. /\ bucket \in Buckets /\ catalog \in Catalogs /\ saved \in Catalogs
      /\ client[c] \in ClientState
      /\ acked \in SUBSET (Hash \X Upload)
      /\ uploads \in 0..MaxUploads /\ faults \in 0..MaxFaults /\ starts \in 0..MaxStarts
  BY DEF TypeOK, Buckets, Catalogs
<1> USE DEF Done, stores, bounds
<1>1. ASSUME NEW h \in Hash, PutExists(c, h)
      PROVE  TypeOK'
  <2>1. uploads + 1 \in 0..MaxUploads /\ uploads + 1 \in Upload
    BY <1>0, <1>1 DEF PutExists, Upload
  <2>2. [pc |-> "put", hash |-> h, upload |-> uploads + 1] \in ClientState
    BY <2>1, NewClients
  <2>3. QED BY <1>0, <1>1, <2>1, <2>2, ClientTypes DEF PutExists
<1>2. ASSUME NEW h \in Hash, GetObject(c, h)
      PROVE  TypeOK'
  BY <1>0, <1>2, NewClients, ClientTypes DEF GetObject
<1>3. ASSUME NEW h \in Hash, PurgeObject(c, h)
      PROVE  TypeOK'
  BY <1>0, <1>3, NewClients, WithoutType, ClientTypes DEF PurgeObject
<1>4. CASE PutObject(c)
  <2>1. client[c].pc \in Uploading
    BY <1>4 DEF PutObject, Uploading
  <2>2. client[c].hash \in Hash /\ IdleClient \in ClientState
        /\ [client[c] EXCEPT !.pc = "upsert"] \in ClientState /\ Uploaded(c) \in Buckets
    BY <1>0, <2>1, UploadingClient, UploadedType, NewClients DEF Uploading
  <2>3. QED BY <1>0, <1>4, <2>2, ClientTypes DEF PutObject
<1>5. CASE PutObjectError(c)
  <2>1. client[c].pc \in Uploading
    BY <1>5 DEF PutObjectError, Uploading
  <2>2. client[c].hash \in Hash /\ IdleClient \in ClientState /\ Uploaded(c) \in Buckets
    BY <1>0, <2>1, UploadingClient, UploadedType, NewClients DEF Uploading
  <2>3. QED BY <1>0, <1>5, <2>2, FaultType, ClientTypes DEF PutObjectError
<1>6. CASE PutShort(c)
  <2>1. client[c].pc \in Uploading
    BY <1>6 DEF PutShort, Uploading
  <2>2. [client[c] EXCEPT !.pc = "discard"] \in ClientState /\ Uploaded(c) \in Buckets
    BY <1>0, <2>1, UploadingClient, UploadedType DEF Uploading
  <2>3. QED BY <1>0, <1>6, <2>2, FaultType, ClientTypes DEF PutShort
<1>7. CASE UpsertEntry(c)
  <2>1. client[c].pc \in Uploading
    BY <1>7 DEF UpsertEntry, Uploading
  <2>2. /\ client[c].hash \in Hash /\ client[c].upload \in Upload
        /\ IdleClient \in ClientState /\ Upserted(client[c].hash) \in Catalogs
    BY <1>0, <2>1, UploadingClient, UpsertedType, NewClients DEF Uploading
  <2>3. catalog' \in Catalogs /\ saved' \in Catalogs
    BY <1>7, <2>2, CatalogType DEF UpsertEntry
  <2>4. acked' \in SUBSET (Hash \X Upload)
    BY <1>0, <1>7, <2>2 DEF UpsertEntry
  <2>5. QED BY <1>0, <1>7, <2>2, <2>3, <2>4, ClientTypes DEF UpsertEntry
<1>8. CASE UpsertError(c)
  <2>1. client[c].pc \in Uploading
    BY <1>8 DEF UpsertError, Uploading
  <2>2. /\ client[c].hash \in Hash /\ Upserted(client[c].hash) \in Catalogs
        /\ [client[c] EXCEPT !.pc = "rollback"] \in ClientState
    BY <1>0, <2>1, UploadingClient, UpsertedType DEF Uploading
  <2>3. catalog' \in Catalogs /\ saved' \in Catalogs
    BY <1>0, <1>8, <2>2, CatalogType DEF UpsertError
  <2>4. QED BY <1>0, <1>8, <2>2, <2>3, FaultType, ClientTypes DEF UpsertError
<1>9. CASE Undo(c)
  <2>1. client[c].pc \in Uploading
    BY <1>9 DEF Undo, Uploading
  <2>2. client[c].hash \in Hash /\ IdleClient \in ClientState
    BY <1>0, <2>1, UploadingClient, NewClients
  <2>3. bucket' \in Buckets /\ faults' \in 0..MaxFaults /\ UNCHANGED <<uploads, starts>>
    BY <1>0, <1>9, WithoutType, FaultType DEF Undo
  <2>4. QED BY <1>0, <1>9, <2>2, <2>3, ClientTypes DEF Undo
<1>10. CASE RecordHit(c)
  <2>1. client[c].hash \in Hash
    BY <1>0, <1>10, OtherClient DEF RecordHit
  <2>2. Upserted(client[c].hash) \in Catalogs /\ IdleClient \in ClientState
    BY <2>1, UpsertedType, NewClients
  <2>3. catalog' \in Catalogs /\ saved' \in Catalogs
    BY <1>0, <1>10, <2>2, CatalogType DEF RecordHit
  <2>4. QED BY <1>0, <1>10, <2>2, <2>3, ClientTypes DEF RecordHit
<1>11. CASE PurgeEntry(c)
  <2>1. client[c].hash \in Hash
    BY <1>0, <1>11, OtherClient DEF PurgeEntry
  <2>2. IdleClient \in ClientState /\ Without(catalog, {client[c].hash}, NoEntry) \in Catalogs
    BY <1>0, <2>1, NewClients, WithoutType
  <2>3. /\ catalog' \in Catalogs /\ saved' \in Catalogs
        /\ faults' \in 0..MaxFaults /\ UNCHANGED <<uploads, starts>>
    BY <1>0, <1>11, <2>2, CatalogType, FaultType DEF PurgeEntry
  <2>4. QED BY <1>0, <1>11, <2>2, <2>3, ClientTypes DEF PurgeEntry
<1>12. QED
  BY <1>1, <1>2, <1>3, <1>4, <1>5, <1>6, <1>7, <1>8, <1>9, <1>10, <1>11 DEF ClientStep

LEMMA RunTypes ==
  ASSUME TypeOK, NEW r \in Run, NEW s \in RunState, RunThen(r, s),
         UNCHANGED <<env, client, recon, acked>>,
         bucket' \in Buckets, catalog' \in Catalogs, saved' \in Catalogs,
         uploads' \in 0..MaxUploads, faults' \in 0..MaxFaults, starts' \in 0..MaxStarts
  PROVE  TypeOK'
BY DEF TypeOK, RunThen, env, Buckets, Catalogs

LEMMA RunStepType ==
  ASSUME TypeOK, NEW r \in Run, RunStep(r)
  PROVE  TypeOK'
<1>0. /\ bucket \in Buckets /\ catalog \in Catalogs /\ saved \in Catalogs
      /\ run[r] \in RunState /\ IdleRun \in RunState
      /\ uploads \in 0..MaxUploads /\ faults \in 0..MaxFaults /\ starts \in 0..MaxStarts
  BY DEF TypeOK, Buckets, Catalogs, RunState
<1> USE DEF RunDone, stores, bounds
<1>1. CASE ListOlderThan(r)
  <2>1. now - TTL \in Int
    BY DEF TypeOK, Time
  <2>2. [pc |-> "list", cutoff |-> now - TTL,
         hashes |-> {h \in Hash : catalog[h] # NoEntry /\ catalog[h] < now - TTL}] \in RunState
    BY <2>1 DEF RunState
  <2>3. QED BY <1>0, <1>1, <2>2, RunTypes DEF ListOlderThan
<1>2. CASE ListObjects(r)
  <2> DEFINE hashes == run[r].hashes \cup
                       {h \in Hash : bucket[h] # NoObject /\ bucket[h].modified < run[r].cutoff}
  <2>1. run[r].hashes \in SUBSET Hash
    BY <1>0, <1>2, RunFields DEF ListObjects
  <2>2. hashes \in SUBSET Hash
    BY <2>1
  <2>3. [run[r] EXCEPT !.pc = "delete", !.hashes = hashes] \in RunState
    BY <1>0, <1>2, <2>2, RunFields DEF ListObjects
  <2>4. /\ RunThen(r, IdleRun) \/ RunThen(r, [run[r] EXCEPT !.pc = "delete", !.hashes = hashes])
        /\ UNCHANGED <<env, stores, client, recon, acked, bounds>>
    BY <1>2 DEF ListObjects
  <2>5. QED BY <1>0, <2>3, <2>4, RunTypes
<1>3. CASE DeleteObjects(r)
  <2>1. [run[r] EXCEPT !.pc = "forget"] \in RunState
    BY <1>0, <1>3, RunFields DEF DeleteObjects
  <2>2. bucket' \in Buckets
    BY <1>0, <1>3, WithoutType DEF DeleteObjects
  <2>3. QED BY <1>0, <1>3, <2>1, <2>2, RunTypes DEF DeleteObjects
<1>4. CASE DeleteObjectsPartly(r)
  <2>1. [run[r] EXCEPT !.pc = "forget"] \in RunState
    BY <1>0, <1>4, RunFields DEF DeleteObjectsPartly
  <2>2. bucket' \in Buckets
    BY <1>0, <1>4, WithoutType DEF DeleteObjectsPartly
  <2>3. QED BY <1>0, <1>4, <2>1, <2>2, FaultType, RunTypes DEF DeleteObjectsPartly
<1>5. CASE ForgetEntries(r)
  <2>1. catalog' \in Catalogs /\ saved' \in Catalogs
    BY <1>0, <1>5, WithoutType, CatalogType DEF ForgetEntries
  <2>2. QED BY <1>0, <1>5, <2>1, RunTypes DEF ForgetEntries
<1>6. CASE RunError(r)
  BY <1>0, <1>6, FaultType, RunTypes DEF RunError
<1>7. QED BY <1>1, <1>2, <1>3, <1>4, <1>5, <1>6 DEF RunStep

LEMMA ReconcileType ==
  ASSUME TypeOK, Reconcile
  PROVE  TypeOK'
<1>0. /\ bucket \in Buckets /\ catalog \in Catalogs /\ saved \in Catalogs /\ recon \in ReconState
      /\ UNCHANGED <<env, client, run, acked, uploads, starts>>
  BY DEF TypeOK, Buckets, Catalogs, Reconcile, ReconcileList, ReconcileEnsure, ReconcileDone,
         EnsureError, ReconcileError, Fault, bounds
<1>1. ASSUME bucket' = bucket, catalog' \in Catalogs, saved' \in Catalogs, recon' \in ReconState,
             faults' \in 0..MaxFaults
      PROVE  TypeOK'
  BY <1>0, <1>1 DEF TypeOK, env, Buckets, Catalogs
<1> USE DEF stores, bounds
<1>2. CASE ReconcileList
  <2>1. recon' \in ReconState
    BY <1>0, <1>2 DEF ReconcileList, ReconState, Buckets
  <2>2. QED BY <1>0, <1>1, <1>2, <2>1 DEF ReconcileList, TypeOK
<1>3. ASSUME NEW h \in Hash, ReconcileEnsure(h)
      PROVE  TypeOK'
  <2>1. recon.objects[h] \in Object /\ recon' \in ReconState
    BY <1>0, <1>3, ReconFields DEF ReconcileEnsure
  <2>2. [catalog EXCEPT ![h] = IF @ = NoEntry THEN recon.objects[h].modified ELSE @] \in Catalogs
    BY <1>0, <2>1 DEF Object, Catalogs
  <2>3. catalog' \in Catalogs /\ saved' \in Catalogs
    BY <1>3, <2>2, CatalogType DEF ReconcileEnsure
  <2>4. QED BY <1>1, <1>3, <2>1, <2>3 DEF ReconcileEnsure, TypeOK
<1>4. CASE ReconcileDone \/ ReconcileError
  <2>1. recon' \in ReconState
    BY <1>4 DEF ReconcileDone, EnsureError, ReconcileError, ReconState
  <2>2. QED BY <1>0, <1>1, <1>4, <2>1, FaultType DEF ReconcileDone, EnsureError, ReconcileError, TypeOK
<1>5. ASSUME NEW h \in Hash, EnsureError(h)
      PROVE  TypeOK'
  <2>1. recon' \in ReconState
    BY <1>0, <1>5, ReconFields DEF EnsureError
  <2>2. QED BY <1>0, <1>1, <1>5, <2>1, FaultType DEF EnsureError, TypeOK
<1>6. QED BY <1>2, <1>3, <1>4, <1>5 DEF Reconcile

LEMMA TypeInit == Init => TypeOK
<1> SUFFICES ASSUME Init PROVE TypeOK
  OBVIOUS
<1>1. IdleClient \in ClientState /\ IdleRun \in RunState /\ [pc |-> "list"] \in ReconState
  BY DEF ClientState, RunState, ReconState
<1>2. QED BY <1>1 DEF Init, TypeOK, Time

LEMMA TypeNext == TypeOK /\ [Next]_vars => TypeOK'
<1> SUFFICES ASSUME TypeOK, [Next]_vars PROVE TypeOK'
  OBVIOUS
<1>1. CASE Flush
  BY <1>1 DEF Flush, TypeOK, env, bounds
<1>2. CASE Tick
  BY <1>2 DEF Tick, TypeOK, Time, stores, bounds
<1>3. CASE Restart
  <2>1. IdleClient \in ClientState /\ IdleRun \in RunState /\ [pc |-> "list"] \in ReconState
    BY DEF ClientState, RunState, ReconState
  <2>2. QED BY <1>3, <2>1 DEF Restart, TypeOK, env
<1>4. CASE UNCHANGED vars
  BY <1>4 DEF vars, TypeOK, env, stores, bounds
<1>5. QED BY <1>1, <1>2, <1>3, <1>4, ClientStepType, RunStepType, ReconcileType DEF Next

\* Requests, cleanups and the reconcile are where the code can be, with hashes,
\* times and uploads of the server.
THEOREM ServerTypeCorrect == Spec => []TypeOK
<1>1. QED BY TypeInit, TypeNext, PTL DEF Spec

----
(* Objects are not replaced.                                               *)

LEMMA StepReplacesNothing ==
  ASSUME TypeOK, [Next]_vars, NEW h \in Hash, bucket[h] # NoObject, bucket'[h] # NoObject
  PROVE  bucket'[h] = bucket[h]
<1>1. ASSUME NEW c \in Client, ClientStep(c)
      PROVE  bucket'[h] = bucket[h]
  <2>1. CASE PutObject(c) \/ PutObjectError(c) \/ PutShort(c)
    <3>1. client[c].pc \in Uploading
      BY <2>1 DEF PutObject, PutObjectError, PutShort, Uploading
    <3>2. bucket' = bucket \/ (bucket[client[c].hash] = NoObject /\ bucket' = Uploaded(c))
      BY <2>1 DEF PutObject, PutObjectError, PutShort
    <3>3. h # client[c].hash => Uploaded(c)[h] = bucket[h]
      BY <3>1, UploadedType
    <3>4. QED BY <3>2, <3>3
  <2>2. CASE Undo(c) \/ \E g \in Hash : PurgeObject(c, g)
    <3>1. bucket' = bucket \/ \E hs : bucket' = Without(bucket, hs, NoObject)
      BY <2>2 DEF Undo, PurgeObject
    <3>2. QED BY <3>1 DEF Without
  <2>3. CASE UNCHANGED bucket
    BY <2>3
  <2>4. QED
    BY <1>1, <2>1, <2>2, <2>3
       DEF ClientStep, PutExists, GetObject, UpsertEntry, UpsertError, RecordHit, PurgeEntry, stores
<1>2. ASSUME NEW r \in Run, RunStep(r)
      PROVE  bucket'[h] = bucket[h]
  <2>1. bucket' = bucket \/ \E hs : bucket' = Without(bucket, hs, NoObject)
    BY <1>2
       DEF RunStep, ListOlderThan, ListObjects, DeleteObjects, DeleteObjectsPartly, ForgetEntries,
           RunError, stores
  <2>2. QED BY <2>1 DEF Without
<1>3. CASE Reconcile \/ Flush \/ Tick \/ Restart \/ UNCHANGED vars
  BY <1>3
     DEF Reconcile, ReconcileList, ReconcileEnsure, ReconcileDone, EnsureError, ReconcileError, Flush, Tick,
         Restart, vars, stores
<1>4. QED BY <1>1, <1>2, <1>3 DEF Next

\* An object is never replaced in place, though every PUT looks first and writes
\* later (Handler.Put, and Put of internal/storage).
THEOREM NothingIsOverwritten == Spec => NoOverwrite
<1>1. TypeOK /\ [Next]_vars
        => [\A h \in Hash : bucket[h] # NoObject /\ bucket'[h] # NoObject
                             => bucket'[h] = bucket[h]]_vars
  BY StepReplacesNothing
<1>2. QED BY <1>1, TypeInit, TypeNext, PTL DEF Spec, NoOverwrite

----
(* Uploads that were acknowledged, with no purge and no cleanup.           *)

\* The object of a client that may yet undo its upload is its own.
Owner(c) == client[c].pc \in {"upsert", "discard", "rollback"}

UploadsApart ==
  /\ \A c \in Client : client[c].pc # "forget"
  /\ \A c \in Client : client[c].pc \in Uploading => client[c].upload <= uploads
  /\ \A c, d \in Client : /\ c # d
                          /\ client[c].pc \in Uploading /\ client[d].pc \in Uploading
                          => client[c].upload # client[d].upload
  /\ \A c \in Client : Owner(c) => /\ bucket[client[c].hash] # NoObject
                                  /\ bucket[client[c].hash].upload = client[c].upload
  /\ \A a \in acked : /\ a[2] <= uploads
                      /\ \A c \in Client : client[c].pc \in Uploading => client[c].upload # a[2]
  /\ AckedUploadSurvives

\* A client that is through, and an object more where there was none.
LEMMA ClientGoes ==
  ASSUME TypeOK, UploadsApart, NEW c \in Client, NEW s,
         s.pc \notin Uploading \cup {"forget"},
         client' = [client EXCEPT ![c] = s], UNCHANGED <<acked, uploads>>,
         \A h \in Hash : bucket[h] # NoObject => bucket'[h] = bucket[h]
  PROVE  UploadsApart'
<1>1. \A d \in Client : client'[d].pc \in Uploading \cup {"forget"} => d # c /\ client'[d] = client[d]
  BY DEF TypeOK
<1>2. \A d \in Client : client[d].pc \in Uploading => client[d].hash \in Hash
  BY UploadingClient DEF TypeOK
<1>3. \A a \in acked : a[1] \in Hash
  BY DEF TypeOK
<1>4. QED BY <1>1, <1>2, <1>3 DEF UploadsApart, Owner, Uploading, AckedUploadSurvives

\* A client that goes on with its upload, which is or becomes the object.
LEMMA ClientOwns ==
  ASSUME TypeOK, UploadsApart, NEW c \in Client, NEW s, client[c].pc \in Uploading,
         s.pc \in {"upsert", "discard", "rollback"},
         s.hash = client[c].hash, s.upload = client[c].upload,
         client' = [client EXCEPT ![c] = s], UNCHANGED <<acked, uploads>>,
         \A h \in Hash : bucket[h] # NoObject => bucket'[h] = bucket[h],
         bucket'[s.hash] # NoObject, bucket'[s.hash].upload = s.upload
  PROVE  UploadsApart'
<1>1. client'[c] = s /\ \A d \in Client \ {c} : client'[d] = client[d]
  BY DEF TypeOK
<1>2. \A d \in Client : client[d].pc \in Uploading => client[d].hash \in Hash
  BY UploadingClient DEF TypeOK
<1>3. \A a \in acked : a[1] \in Hash
  BY DEF TypeOK
<1>4. QED BY <1>1, <1>2, <1>3 DEF UploadsApart, Owner, Uploading, AckedUploadSurvives

LEMMA PutExistsApart ==
  ASSUME TypeOK, UploadsApart, NEW c \in Client, NEW h \in Hash, PutExists(c, h)
  PROVE  UploadsApart'
<1>1. /\ client'[c] = [pc |-> "put", hash |-> h, upload |-> uploads + 1]
      /\ \A d \in Client \ {c} : client'[d] = client[d]
      /\ uploads' = uploads + 1
      /\ UNCHANGED <<bucket, acked>>
  BY DEF PutExists, Then, TypeOK, stores
<1>2. \A d \in Client : client[d].pc \in Uploading => client[d].upload \in Nat
  BY UploadingClient DEF TypeOK, Upload
<1>3. \A a \in acked : a[2] \in Nat
  BY DEF TypeOK, Upload
<1>4. uploads \in Nat
  BY DEF TypeOK
<1>5. \A d \in Client : client'[d].pc \in Uploading => client'[d].upload <= uploads'
  BY <1>1, <1>2, <1>4 DEF UploadsApart
<1>6. \A d, e \in Client : /\ d # e
                          /\ client'[d].pc \in Uploading /\ client'[e].pc \in Uploading
                          => client'[d].upload # client'[e].upload
  BY <1>1, <1>2, <1>4 DEF UploadsApart
<1>7. \A a \in acked : a[2] <= uploads' /\ a[2] # uploads + 1
  BY <1>1, <1>3, <1>4 DEF UploadsApart
<1>8. \A d \in Client : client'[d].pc # "forget" /\ (Owner(d)' => d # c)
  BY <1>1 DEF UploadsApart, Owner
<1>9. QED BY <1>1, <1>5, <1>6, <1>7, <1>8 DEF UploadsApart, Owner, AckedUploadSurvives

LEMMA UpsertEntryApart ==
  ASSUME TypeOK, UploadsApart, NEW c \in Client, UpsertEntry(c)
  PROVE  UploadsApart'
<1>1. /\ client'[c] = IdleClient
      /\ \A d \in Client \ {c} : client'[d] = client[d]
      /\ acked' = acked \cup {<<client[c].hash, client[c].upload>>}
      /\ UNCHANGED <<bucket, uploads>>
      /\ client[c].pc = "upsert"
  BY DEF UpsertEntry, Done, Then, TypeOK, bounds
<1>2. IdleClient.pc \notin Uploading \cup {"forget"}
  BY DEF IdleClient, Uploading
<1>3. \A a \in acked' : a \in acked \/ (a[1] = client[c].hash /\ a[2] = client[c].upload)
  BY <1>1
<1>4. QED BY <1>1, <1>2, <1>3 DEF UploadsApart, Owner, Uploading, AckedUploadSurvives

LEMMA UndoApart ==
  ASSUME TypeOK, UploadsApart, NEW c \in Client, Undo(c)
  PROVE  UploadsApart'
<1>1. /\ client'[c] = IdleClient
      /\ \A d \in Client \ {c} : client'[d] = client[d]
      /\ UNCHANGED <<acked, uploads>>
      /\ Owner(c)
      /\ \/ bucket' = Without(bucket, {client[c].hash}, NoObject)
         \/ bucket' = bucket
  BY DEF Undo, Done, Then, TypeOK, bounds, Fault, Owner
<1>2. IdleClient.pc \notin Uploading \cup {"forget"}
  BY DEF IdleClient, Uploading
<1>3. \A d \in Client : client[d].pc \in Uploading => client[d].hash \in Hash
  BY UploadingClient DEF TypeOK
<1>4. \A a \in acked : a[1] \in Hash
  BY DEF TypeOK
<1>5. \A h \in Hash : h # client[c].hash => bucket'[h] = bucket[h]
  BY <1>1 DEF Without
<1>6. /\ \A d \in Client \ {c} : Owner(d) => client[d].hash # client[c].hash
      /\ \A a \in acked : a[1] # client[c].hash
  BY <1>1 DEF UploadsApart, Owner, Uploading, AckedUploadSurvives
<1>7. \A d \in Client : Owner(d)' => d # c /\ Owner(d) /\ client'[d] = client[d]
  BY <1>1, <1>2 DEF Owner, Uploading
<1>8. \A d \in Client : Owner(d)' => /\ bucket'[client'[d].hash] # NoObject
                                   /\ bucket'[client'[d].hash].upload = client'[d].upload
  BY <1>3, <1>5, <1>6, <1>7 DEF UploadsApart, Owner, Uploading
<1>9. AckedUploadSurvives'
  BY <1>1, <1>4, <1>5, <1>6 DEF UploadsApart, AckedUploadSurvives
<1>10. QED BY <1>1, <1>2, <1>8, <1>9 DEF UploadsApart

LEMMA ApartNext ==
  ASSUME Run = {}, ~Purges, TypeOK, UploadsApart, [Next]_vars
  PROVE  UploadsApart'
<1>1. ASSUME NEW c \in Client, ClientStep(c)
      PROVE  UploadsApart'
  <2>1. client[c] \in ClientState /\ IdleClient.pc \notin Uploading \cup {"forget"}
    BY DEF TypeOK, IdleClient, Uploading
  <2>2. ASSUME NEW h \in Hash, PutExists(c, h)
        PROVE  UploadsApart'
    BY <2>2, PutExistsApart
  <2>3. ASSUME NEW h \in Hash, GetObject(c, h)
        PROVE  UploadsApart'
    <3>1. [pc |-> "hit", hash |-> h].pc \notin Uploading \cup {"forget"}
      BY DEF Uploading
    <3>2. QED BY <2>3, <3>1, ClientGoes DEF GetObject, Then, stores, bounds
  <2>4. CASE PutObject(c) \/ PutObjectError(c) \/ PutShort(c)
    <3>1. client[c].pc = "put"
      BY <2>4 DEF PutObject, PutObjectError, PutShort
    <3>2. /\ client[c].hash \in Hash
          /\ \A p \in Uploading : /\ [client[c] EXCEPT !.pc = p].pc = p
                                 /\ [client[c] EXCEPT !.pc = p].hash = client[c].hash
                                 /\ [client[c] EXCEPT !.pc = p].upload = client[c].upload
      BY <2>1, <3>1, UploadingClient DEF Uploading
    <3>3. /\ Uploaded(c)[client[c].hash] = [upload |-> client[c].upload, modified |-> now]
          /\ \A h \in Hash \ {client[c].hash} : Uploaded(c)[h] = bucket[h]
          /\ Uploaded(c) \in Buckets
      BY <3>1, UploadedType DEF Uploading
    <3>4. UNCHANGED <<acked, uploads>>
      BY <2>4 DEF PutObject, PutObjectError, PutShort, Fault, bounds
    <3>5. \A h \in Hash : bucket[h] # NoObject => bucket'[h] = bucket[h]
      BY <2>4, <3>3 DEF PutObject, PutObjectError, PutShort
    <3>6. CASE Done(c)
      BY <2>1, <3>4, <3>5, <3>6, ClientGoes DEF Done, Then
    <3>7. ASSUME NEW p \in {"upsert", "discard"}, Then(c, [client[c] EXCEPT !.pc = p]),
                 bucket' = Uploaded(c)
          PROVE  UploadsApart'
      <4>1. [upload |-> client[c].upload, modified |-> now] # NoObject
        <5>1. client[c].upload \in Upload /\ now \in Time
          BY <2>1, <3>1, UploadingClient DEF Uploading, TypeOK
        <5>2. QED BY <5>1 DEF Object
      <4>2. p \in Uploading /\ client[c].pc \in Uploading
        BY <3>1 DEF Uploading
      <4> DEFINE s == [client[c] EXCEPT !.pc = p]
      <4>3. s.pc = p /\ s.hash = client[c].hash /\ s.upload = client[c].upload
        BY <3>2, <4>2
      <4>4. client' = [client EXCEPT ![c] = s]
        BY <3>7 DEF Then
      <4> HIDE DEF s
      <4>5. bucket'[s.hash] # NoObject /\ bucket'[s.hash].upload = s.upload
        BY <3>3, <3>7, <4>1, <4>3
      <4>6. QED BY <3>4, <3>5, <4>2, <4>3, <4>4, <4>5, ClientOwns
    <3>8. QED BY <2>4, <3>6, <3>7 DEF PutObject, PutObjectError, PutShort
  <2>5. CASE UpsertEntry(c)
    BY <2>5, UpsertEntryApart
  <2>6. CASE UpsertError(c)
    <3>1. client[c].pc = "upsert" /\ client[c].pc \in Uploading /\ Owner(c)
      BY <2>6 DEF UpsertError, Uploading, Owner
    <3> DEFINE s == [client[c] EXCEPT !.pc = "rollback"]
    <3>2. s.pc = "rollback" /\ s.hash = client[c].hash /\ s.upload = client[c].upload
      BY <2>1, <3>1, UploadingClient DEF Uploading
    <3>3. client' = [client EXCEPT ![c] = s] /\ UNCHANGED <<bucket, acked, uploads>>
      BY <2>6 DEF UpsertError, Then, Fault
    <3> HIDE DEF s
    <3>4. bucket'[s.hash] # NoObject /\ bucket'[s.hash].upload = s.upload
      BY <3>1, <3>2, <3>3 DEF UploadsApart
    <3>5. QED BY <3>1, <3>2, <3>3, <3>4, ClientOwns
  <2>7. CASE Undo(c)
    BY <2>7, UndoApart
  <2>8. CASE RecordHit(c)
    BY <2>1, <2>8, ClientGoes DEF RecordHit, Done, Then, bounds
  <2>9. ~PurgeEntry(c) /\ \A h \in Hash : ~PurgeObject(c, h)
    BY DEF PurgeEntry, PurgeObject, UploadsApart
  <2>10. QED
    BY <1>1, <2>2, <2>3, <2>4, <2>5, <2>6, <2>7, <2>8, <2>9 DEF ClientStep
<1>2. CASE Restart
  <2>1. /\ \A c \in Client : client'[c] = IdleClient
        /\ UNCHANGED <<bucket, acked, uploads>>
    BY <1>2 DEF Restart
  <2>2. IdleClient.pc \notin Uploading \cup {"forget"}
    BY DEF IdleClient, Uploading
  <2>3. QED BY <2>1, <2>2 DEF UploadsApart, Owner, Uploading, AckedUploadSurvives
<1>3. CASE Reconcile \/ Flush \/ Tick \/ UNCHANGED vars
  <2>1. UNCHANGED <<bucket, client, acked, uploads>>
    BY <1>3
       DEF Reconcile, ReconcileList, ReconcileEnsure, ReconcileDone, EnsureError, ReconcileError, Fault, Flush,
           Tick, vars, stores, bounds
  <2>2. QED BY <2>1 DEF UploadsApart, Owner, AckedUploadSurvives
<1>4. QED BY <1>1, <1>2, <1>3 DEF Next

LEMMA ApartInit == Init => UploadsApart
BY DEF Init, UploadsApart, Owner, Uploading, IdleClient, AckedUploadSurvives

\* With no purge and no cleanup, an upload that was answered 200 stays, however
\* the other PUTs of its hash fail, are rolled back or are cut short.
THEOREM AckedUploadsSurvive ==
  ASSUME Run = {}, ~Purges
  PROVE  Spec => []AckedUploadSurvives
<1>1. TypeOK /\ UploadsApart /\ [Next]_vars => UploadsApart'
  BY ApartNext
<1>2. UploadsApart => AckedUploadSurvives
  BY DEF UploadsApart
<1>3. QED BY <1>1, <1>2, TypeInit, TypeNext, ApartInit, PTL DEF Spec

----
(* Entries stay where nothing forgets them.                                *)

LEMMA UpsertKeeps ==
  ASSUME TypeOK, NEW h \in Hash, NEW g \in Hash, catalog[g] # NoEntry
  PROVE  Upserted(h)[g] = catalog[g]
BY DEF TypeOK, Upserted

LEMMA UpsertAdds ==
  ASSUME TypeOK, NEW h \in Hash
  PROVE  Upserted(h)[h] # NoEntry
BY DEF TypeOK, Upserted, Time

LEMMA ClientsKeepEntries ==
  ASSUME TypeOK, NEW c \in Client, ClientStep(c), client[c].pc # "forget",
         NEW g \in Hash, catalog[g] # NoEntry
  PROVE  catalog'[g] = catalog[g]
<1>1. CASE UpsertEntry(c) \/ UpsertError(c) \/ RecordHit(c)
  <2>1. client[c].hash \in Hash
    BY <1>1, UploadingClient, OtherClient
       DEF UpsertEntry, UpsertError, RecordHit, Uploading, TypeOK
  <2>2. catalog' = catalog \/ catalog' = Upserted(client[c].hash)
    BY <1>1 DEF UpsertEntry, UpsertError, RecordHit, Catalog
  <2>3. QED BY <2>1, <2>2, UpsertKeeps
<1>2. CASE UNCHANGED catalog
  BY <1>2
<1>3. QED
  BY <1>1, <1>2
     DEF ClientStep, PutExists, GetObject, PurgeObject, PutObject, PutObjectError, PutShort, Undo,
         PurgeEntry, stores

LEMMA ReconcileKeepsEntries ==
  ASSUME TypeOK, Reconcile, NEW g \in Hash, catalog[g] # NoEntry
  PROVE  catalog'[g] = catalog[g]
BY DEF Reconcile, ReconcileList, ReconcileEnsure, ReconcileDone, EnsureError, ReconcileError, Catalog, stores,
       TypeOK

\* The reconcile has an entry, or still has to ensure one, for every upload that
\* was acknowledged.
UploadsListed ==
  \A a \in acked :
    /\ recon.pc = "ensure" => recon.objects[a[1]] # NoObject \/ catalog[a[1]] # NoEntry
    /\ recon.pc = "done" => catalog[a[1]] # NoEntry

\* With SQLite the file has the entries, and none of them is lost.
OnDisk == SQLite => saved = catalog /\ \A a \in acked : catalog[a[1]] # NoEntry

LEMMA OnDiskNext ==
  ASSUME Run = {}, TypeOK, UploadsApart, OnDisk, [Next]_vars
  PROVE  OnDisk'
<1> SUFFICES ASSUME SQLite'
             PROVE  saved' = catalog' /\ \A a \in acked' : catalog'[a[1]] # NoEntry
  BY DEF OnDisk
<1>0. SQLite /\ \A a \in acked : a[1] \in Hash
  BY DEF TypeOK, SQLite, Next, ClientStep, PutExists, GetObject, PurgeObject, PutObject,
         PutObjectError, PutShort, UpsertEntry, UpsertError, Undo, RecordHit, PurgeEntry,
         Reconcile, ReconcileList, ReconcileEnsure, ReconcileDone, EnsureError, ReconcileError,
         Flush, Tick, Restart, vars, env
<1>1. saved = catalog /\ \A a \in acked : catalog[a[1]] # NoEntry
  BY <1>0 DEF OnDisk
<1>2. ASSUME NEW c \in Client, ClientStep(c)
      PROVE  saved' = catalog' /\ \A a \in acked' : catalog'[a[1]] # NoEntry
  <2>1. \A g \in Hash : catalog[g] # NoEntry => catalog'[g] # NoEntry
    BY <1>2, ClientsKeepEntries DEF UploadsApart
  <2>2. saved' = catalog'
    <3>1. ASSUME NEW new, Catalog(new) PROVE saved' = catalog'
      BY <1>0, <3>1 DEF Catalog
    <3>2. CASE UpsertEntry(c) \/ UpsertError(c) \/ RecordHit(c)
      BY <3>1, <3>2 DEF UpsertEntry, UpsertError, RecordHit
    <3>3. CASE UNCHANGED <<catalog, saved>>
      BY <1>1, <3>3
    <3>4. ~PurgeEntry(c)
      BY DEF PurgeEntry, UploadsApart
    <3>5. QED
      BY <1>2, <3>2, <3>3, <3>4
         DEF ClientStep, PutExists, GetObject, PurgeObject, PutObject, PutObjectError, PutShort,
             Undo, stores
  <2>3. CASE acked' = acked
    BY <1>0, <1>1, <2>1, <2>2, <2>3
  <2>4. CASE UpsertEntry(c)
    <3>1. client[c].hash \in Hash
      BY <2>4, UploadingClient DEF UpsertEntry, Uploading, TypeOK
    <3>2. catalog'[client[c].hash] # NoEntry
      BY <2>4, <3>1, UpsertAdds DEF UpsertEntry, Catalog
    <3>3. \A a \in acked' : a \in acked \/ a[1] = client[c].hash
      BY <2>4 DEF UpsertEntry
    <3>4. QED BY <1>0, <1>1, <2>1, <2>2, <3>2, <3>3
  <2>5. QED
    BY <1>2, <2>3, <2>4
       DEF ClientStep, PutExists, GetObject, PurgeObject, PutObject, PutObjectError, PutShort,
           UpsertError, Undo, RecordHit, PurgeEntry
<1>3. CASE Reconcile
  <2>1. acked' = acked /\ \A g \in Hash : catalog[g] # NoEntry => catalog'[g] # NoEntry
    BY <1>3, ReconcileKeepsEntries
       DEF Reconcile, ReconcileList, ReconcileEnsure, ReconcileDone, EnsureError, ReconcileError
  <2>2. saved' = catalog'
    BY <1>0, <1>1, <1>3
       DEF Reconcile, ReconcileList, ReconcileEnsure, ReconcileDone, EnsureError, ReconcileError,
           Catalog, stores
  <2>3. QED BY <1>0, <1>1, <2>1, <2>2
<1>4. CASE Restart \/ Flush \/ Tick \/ UNCHANGED vars
  BY <1>1, <1>4 DEF Restart, Flush, Tick, vars, stores
<1>5. QED BY <1>2, <1>3, <1>4 DEF Next

LEMMA ListedNext ==
  ASSUME Run = {}, ~Purges, TypeOK, UploadsApart, OnDisk, UploadsListed, [Next]_vars
  PROVE  UploadsListed'
<1>0. \A a \in acked : a[1] \in Hash
  BY DEF TypeOK
<1>1. ASSUME NEW c \in Client, ClientStep(c)
      PROVE  UploadsListed'
  <2>1. \A g \in Hash : catalog[g] # NoEntry => catalog'[g] # NoEntry
    BY <1>1, ClientsKeepEntries DEF UploadsApart
  <2>2. recon' = recon
    BY <1>1
       DEF ClientStep, PutExists, GetObject, PurgeObject, PutObject, PutObjectError, PutShort,
           UpsertEntry, UpsertError, Undo, RecordHit, PurgeEntry
  <2>3. CASE acked' = acked
    BY <1>0, <2>1, <2>2, <2>3 DEF UploadsListed
  <2>4. CASE UpsertEntry(c)
    <3>1. client[c].hash \in Hash
      BY <2>4, UploadingClient DEF UpsertEntry, Uploading, TypeOK
    <3>2. catalog'[client[c].hash] # NoEntry
      BY <2>4, <3>1, UpsertAdds DEF UpsertEntry, Catalog
    <3>3. \A a \in acked' : a \in acked \/ a[1] = client[c].hash
      BY <2>4 DEF UpsertEntry
    <3>4. QED BY <1>0, <2>1, <2>2, <3>2, <3>3 DEF UploadsListed
  <2>5. QED
    BY <1>1, <2>3, <2>4
       DEF ClientStep, PutExists, GetObject, PurgeObject, PutObject, PutObjectError, PutShort,
           UpsertError, Undo, RecordHit, PurgeEntry
<1>2. CASE Reconcile
  <2>1. acked' = acked /\ \A g \in Hash : catalog[g] # NoEntry => catalog'[g] # NoEntry
    BY <1>2, ReconcileKeepsEntries
       DEF Reconcile, ReconcileList, ReconcileEnsure, ReconcileDone, EnsureError, ReconcileError
  <2>2. CASE ReconcileList
    BY <2>1, <2>2 DEF ReconcileList, UploadsListed, UploadsApart, AckedUploadSurvives
  <2>3. ASSUME NEW h \in Hash, ReconcileEnsure(h)
        PROVE  UploadsListed'
    <3>1. recon \in ReconState /\ recon.pc = "ensure" /\ recon.objects[h] # NoObject
      BY <2>3 DEF ReconcileEnsure, TypeOK
    <3>2. /\ recon' = [recon EXCEPT !.objects[h] = NoObject]
          /\ catalog' = [catalog EXCEPT ![h] = IF @ = NoEntry THEN recon.objects[h].modified ELSE @]
      BY <2>3 DEF ReconcileEnsure, Catalog
    <3>3. recon'.pc = "ensure" /\ \A g \in Hash \ {h} : recon'.objects[g] = recon.objects[g]
      BY <3>1, <3>2, ReconFields
    <3>4. recon.objects[h].modified \in Time
      <4>1. recon.objects \in [Hash -> Object \cup {NoObject}]
        BY <3>1, ReconFields
      <4>2. recon.objects[h] \in Object
        BY <3>1, <4>1
      <4>3. QED BY ONLY <4>2 DEF Object
    <3>5. catalog'[h] # NoEntry
      BY <3>2, <3>4 DEF TypeOK, Time
    <3>6. ASSUME NEW a \in acked
          PROVE  recon'.objects[a[1]] # NoObject \/ catalog'[a[1]] # NoEntry
      <4>1. a[1] \in Hash
        BY <1>0
      <4>2. recon.objects[a[1]] # NoObject \/ catalog[a[1]] # NoEntry
        BY <3>1 DEF UploadsListed
      <4>3. CASE a[1] = h
        BY <3>5, <4>3
      <4>4. CASE a[1] # h
        BY <2>1, <3>3, <4>1, <4>2, <4>4
      <4>5. QED BY <4>3, <4>4
    <3>7. recon'.pc # "done"
      BY <3>3
    <3>8. QED BY <2>1, <3>6, <3>7 DEF UploadsListed
  <2>4. CASE ReconcileDone
    BY <1>0, <2>1, <2>4 DEF ReconcileDone, UploadsListed
  <2>5. CASE ReconcileError
    BY <2>5 DEF ReconcileError, UploadsListed
  <2>6. ASSUME NEW h \in Hash, EnsureError(h)
        PROVE  UploadsListed'
    <3>1. \A a \in acked : catalog[a[1]] # NoEntry
      BY <2>6 DEF EnsureError, OnDisk
    <3>2. catalog' = catalog
      BY <2>6 DEF EnsureError, stores
    <3>3. QED BY <2>1, <3>1, <3>2 DEF UploadsListed
  <2>7. QED BY <1>2, <2>2, <2>3, <2>4, <2>5, <2>6 DEF Reconcile
<1>3. CASE Restart
  BY <1>3 DEF Restart, UploadsListed
<1>4. CASE Flush \/ Tick \/ UNCHANGED vars
  BY <1>4 DEF Flush, Tick, vars, stores, UploadsListed
<1>5. QED BY <1>1, <1>2, <1>3, <1>4 DEF Next

\* With no purge and no cleanup, an upload that was answered 200 is in the catalog,
\* also after a crash that lost its entry, once the reconcile of main is through.
THEOREM AckedUploadsAreListed ==
  ASSUME Run = {}, ~Purges
  PROVE  Spec => []AckedUploadIsListed
<1>1. TypeOK /\ UploadsApart /\ [Next]_vars => UploadsApart'
  BY ApartNext
<1>2. TypeOK /\ UploadsApart /\ OnDisk /\ UploadsListed /\ [Next]_vars =>
        UploadsListed' /\ OnDisk'
  BY ListedNext, OnDiskNext
<1>3. Init => UploadsListed /\ OnDisk
  BY DEF Init, UploadsListed, OnDisk
<1>4. UploadsListed => AckedUploadIsListed
  BY DEF UploadsListed, AckedUploadIsListed
<1>5. QED BY <1>1, <1>2, <1>3, <1>4, TypeInit, TypeNext, ApartInit, PTL DEF Spec

----
(* What a cleanup deletes.                                                 *)

\* With one cleanup, no purge and no failing call, what the cleanup has listed
\* is old in one of the stores until it deletes it.
OldEntry(h, cutoff) == catalog[h] # NoEntry /\ catalog[h] < cutoff
OldObject(h, cutoff) == bucket[h] # NoObject /\ bucket[h].modified < cutoff

OldOnly ==
  /\ \A c \in Client : client[c].pc \notin {"discard", "rollback", "forget"}
  /\ \A r \in Run :
       /\ run[r].pc \in {"list", "delete"} => run[r].cutoff <= now - TTL
       /\ run[r].pc = "list" => \A h \in run[r].hashes : OldEntry(h, run[r].cutoff)
       /\ run[r].pc = "delete" => \A h \in run[r].hashes : \/ OldEntry(h, run[r].cutoff)
                                                         \/ OldObject(h, run[r].cutoff)

LEMMA OldStays ==
  ASSUME TypeOK, OldOnly, UNCHANGED run, now' \in Time, now' >= now,
         \A c \in Client : client'[c].pc \notin {"discard", "rollback", "forget"},
         \A h \in Hash : catalog[h] # NoEntry => catalog'[h] = catalog[h],
         \A h \in Hash : bucket[h] # NoObject => bucket'[h] = bucket[h]
  PROVE  OldOnly'
<1>1. ASSUME NEW r \in Run, run[r].pc \in {"list", "delete"}
      PROVE  run[r].cutoff <= now' - TTL /\ run[r].hashes \in SUBSET Hash
  <2>1. run[r].cutoff \in Int /\ run[r].hashes \in SUBSET Hash
    BY <1>1, RunFields DEF TypeOK
  <2>2. run[r].cutoff <= now - TTL /\ now \in Int /\ now' \in Int
    BY <1>1 DEF OldOnly, TypeOK, Time
  <2>3. QED BY <2>1, <2>2
<1>2. QED BY <1>1 DEF OldOnly, OldEntry, OldObject

LEMMA OldNext ==
  ASSUME NEW one, Run = {one}, MaxFaults = 0, ~Purges, TypeOK, OldOnly, [Next]_vars
  PROVE  OldOnly'
<1>0. ~Fault /\ now \in Time /\ now >= now
  BY DEF Fault, TypeOK, Time
<1>1. ASSUME NEW c \in Client, ClientStep(c)
      PROVE  OldOnly'
  <2>1. \A h \in Hash : catalog[h] # NoEntry => catalog'[h] = catalog[h]
    BY <1>1, ClientsKeepEntries DEF OldOnly
  <2>2. ~Undo(c) /\ \A h \in Hash : ~PurgeObject(c, h)
    BY DEF Undo, PurgeObject, OldOnly
  <2>3. \A h \in Hash : bucket[h] # NoObject => bucket'[h] = bucket[h]
    <3>1. CASE PutObject(c)
      <4>1. client[c].pc \in Uploading
        BY <3>1 DEF PutObject, Uploading
      <4>2. \A h \in Hash \ {client[c].hash} : Uploaded(c)[h] = bucket[h]
        BY <4>1, UploadedType
      <4>3. QED BY <3>1, <4>2 DEF PutObject
    <3>2. CASE UNCHANGED bucket
      BY <3>2
    <3>3. QED
      BY <1>0, <1>1, <2>2, <3>1, <3>2
         DEF ClientStep, PutExists, GetObject, PutObjectError, PutShort, UpsertEntry, UpsertError,
             RecordHit, PurgeEntry, stores
  <2>4. client'[c].pc \in {"put", "hit", "upsert", "idle"} /\ UNCHANGED <<run, now>>
        /\ \A d \in Client \ {c} : client'[d] = client[d]
    <3>1. client[c].pc = "put" => [client[c] EXCEPT !.pc = "upsert"].pc = "upsert"
      BY UploadingClient DEF TypeOK, Uploading
    <3>2. CASE \E h \in Hash : PutExists(c, h) \/ GetObject(c, h)
      BY <3>2 DEF PutExists, GetObject, Then, TypeOK, env
    <3>3. CASE PutObject(c)
      <4>1. client[c].pc = "put" /\ UNCHANGED <<run, now>>
        BY <3>3 DEF PutObject, env
      <4>2. \/ client' = [client EXCEPT ![c] = [client[c] EXCEPT !.pc = "upsert"]]
            \/ client' = [client EXCEPT ![c] = IdleClient]
        BY <3>3 DEF PutObject, Then, Done
      <4> DEFINE s == [client[c] EXCEPT !.pc = "upsert"]
      <4>3. s.pc = "upsert" /\ IdleClient.pc = "idle"
        BY <3>1, <4>1 DEF IdleClient
      <4> HIDE DEF s
      <4>4. client'[c] \in {s, IdleClient} /\ \A d \in Client \ {c} : client'[d] = client[d]
        BY <4>2 DEF TypeOK, s
      <4>5. QED BY <4>1, <4>3, <4>4
    <3>4. CASE UpsertEntry(c) \/ RecordHit(c)
      BY <3>4 DEF UpsertEntry, RecordHit, Then, Done, IdleClient, TypeOK, env
    <3>5. ~PutObjectError(c) /\ ~PutShort(c) /\ ~UpsertError(c) /\ ~PurgeEntry(c)
      BY <1>0 DEF PutObjectError, PutShort, UpsertError, PurgeEntry, OldOnly
    <3>6. QED BY <1>1, <2>2, <3>2, <3>3, <3>4, <3>5 DEF ClientStep
  <2>5. \A d \in Client : client'[d].pc \notin {"discard", "rollback", "forget"}
    BY <2>4 DEF OldOnly
  <2>6. QED BY <1>0, <2>1, <2>3, <2>4, <2>5, OldStays
<1>2. ASSUME NEW r \in Run, RunStep(r)
      PROVE  OldOnly'
  <2>1. Run = {r} /\ run[r] \in RunState /\ client' = client /\ now' = now
    BY <1>2
       DEF TypeOK, RunStep, ListOlderThan, ListObjects, DeleteObjects, DeleteObjectsPartly,
           ForgetEntries, RunError, env
  <2>2. CASE run'[r].pc \in {"idle", "forget"}
    BY <2>1, <2>2 DEF OldOnly
  <2>3. CASE ListOlderThan(r)
    <3> DEFINE s == [pc |-> "list", cutoff |-> now - TTL,
                     hashes |-> {h \in Hash : catalog[h] # NoEntry /\ catalog[h] < now - TTL}]
    <3>1. run'[r] = s /\ UNCHANGED <<catalog, bucket>>
      BY <2>3 DEF ListOlderThan, RunThen, TypeOK, stores
    <3>2. QED BY <1>0, <2>1, <3>1 DEF OldOnly, OldEntry, Time
  <2>4. CASE ListObjects(r) /\ run'[r].pc \notin {"idle", "forget"}
    <3> DEFINE old == {h \in Hash : bucket[h] # NoObject /\ bucket[h].modified < run[r].cutoff}
               s == [run[r] EXCEPT !.pc = "delete", !.hashes = run[r].hashes \cup old]
    <3>1. run'[r] = s /\ UNCHANGED <<catalog, bucket>> /\ run[r].pc = "list"
      BY <2>4 DEF ListObjects, RunDone, RunThen, IdleRun, TypeOK, stores
    <3>2. s.pc = "delete" /\ s.cutoff = run[r].cutoff /\ s.hashes = run[r].hashes \cup old
      <4>1. run[r] \in [pc : {"list", "delete", "forget"}, cutoff : Int, hashes : SUBSET Hash]
        BY <2>1, <3>1 DEF RunState, IdleRun
      <4> HIDE DEF old
      <4>2. QED BY <4>1
    <3> HIDE DEF s
    <3>3. QED BY <2>1, <3>1, <3>2 DEF OldOnly, OldEntry, OldObject
  <2>5. CASE DeleteObjects(r)
    <3>1. run'[r] = [run[r] EXCEPT !.pc = "forget"] /\ run[r].pc = "delete"
      BY <2>5 DEF DeleteObjects, RunThen, TypeOK
    <3>2. run[r] \in [pc : {"list", "delete", "forget"}, cutoff : Int, hashes : SUBSET Hash]
      BY <2>1, <3>1 DEF RunState, IdleRun
    <3>3. QED BY <2>2, <3>1, <3>2
  <2>6. CASE ForgetEntries(r)
    BY <2>2, <2>6 DEF ForgetEntries, RunDone, RunThen, IdleRun, TypeOK
  <2>7. QED
    BY <1>0, <1>2, <2>2, <2>3, <2>4, <2>5, <2>6 DEF RunStep, DeleteObjectsPartly, RunError
<1>3. CASE Restart
  <2>1. /\ \A c \in Client : client'[c] = IdleClient
        /\ \A r \in Run : run'[r] = IdleRun
    BY <1>3 DEF Restart
  <2>2. QED BY <2>1 DEF OldOnly, IdleClient, IdleRun
<1>4. CASE Reconcile \/ Flush \/ Tick \/ UNCHANGED vars
  <2>1. \A h \in Hash : catalog[h] # NoEntry => catalog'[h] = catalog[h]
    BY <1>4, ReconcileKeepsEntries DEF Flush, Tick, vars, stores
  <2>2. UNCHANGED <<bucket, client, run>> /\ (UNCHANGED now \/ Tick)
    BY <1>4
       DEF Reconcile, ReconcileList, ReconcileEnsure, ReconcileDone, EnsureError, ReconcileError, Flush, Tick,
           vars, stores, env
  <2>3. now' \in Time /\ now' >= now
    BY <1>0, <2>2 DEF Tick, Time
  <2>4. QED BY <2>1, <2>2, <2>3, OldStays DEF OldOnly
<1>5. QED BY <1>1, <1>2, <1>3, <1>4 DEF Next

LEMMA OnlyOldDeleted ==
  ASSUME MaxFaults = 0, TypeOK, OldOnly, [Next]_vars, NEW r \in Run, NEW h \in Hash,
         DeletedBy(r, h), Run = {r}
  PROVE  \/ bucket[h].modified < now - TTL
         \/ catalog[h] # NoEntry /\ catalog[h] < now - TTL
<1>1. run[r].pc = "delete" /\ run'[r] # run[r] /\ bucket'[h] # bucket[h]
  BY DEF DeletedBy
<1>2. DeleteObjects(r)
  <2>1. ~Fault
    BY DEF Fault, TypeOK
  <2>2. RunStep(r)
    BY <1>1
       DEF Next, ClientStep, PutExists, GetObject, PurgeObject, PutObject, PutObjectError, PutShort,
           UpsertEntry, UpsertError, Undo, RecordHit, PurgeEntry, Reconcile, ReconcileList,
           ReconcileEnsure, ReconcileDone, EnsureError, ReconcileError, Flush, Tick, Restart, vars, stores
  <2>3. QED
    BY <1>1, <2>1, <2>2
       DEF RunStep, ListOlderThan, ListObjects, DeleteObjectsPartly, ForgetEntries, RunError, IdleRun
<1>3. h \in run[r].hashes
  BY <1>1, <1>2 DEF DeleteObjects, Without
<1>4. run[r].cutoff \in Int /\ run[r].cutoff <= now - TTL /\ now \in Int /\ TTL \in Int
  <2>1. run[r] \in RunState /\ now \in Int /\ TTL \in Int
    BY DEF TypeOK, Time
  <2>2. run[r].cutoff \in Int
    BY <1>1, <2>1, RunFields
  <2>3. QED BY <1>1, <2>1, <2>2 DEF OldOnly
<1>5. CASE OldEntry(h, run[r].cutoff)
  <2>1. catalog[h] \in Int
    BY <1>5 DEF OldEntry, TypeOK, Time
  <2>2. QED BY <1>4, <1>5, <2>1 DEF OldEntry
<1>6. CASE OldObject(h, run[r].cutoff)
  <2>1. bucket[h].modified \in Int
    BY <1>6 DEF OldObject, TypeOK, Object, Time
  <2>2. QED BY <1>4, <1>6, <2>1 DEF OldObject
<1>7. QED BY <1>1, <1>3, <1>5, <1>6 DEF OldOnly

\* With one cleanup at a time, no purge and no failing call, a fresh artifact is
\* deleted only when an entry from before the artifact claims it is old (Cleaner.Run).
THEOREM FreshArtifactsAreSpared ==
  ASSUME NEW one, Run = {one}, MaxFaults = 0, ~Purges
  PROVE  Spec => CleanupSparesFresh
<1>1. Init => OldOnly
  BY DEF Init, OldOnly, IdleClient, IdleRun
<1>2. TypeOK /\ OldOnly /\ [Next]_vars => OldOnly'
  BY OldNext
<1>3. TypeOK /\ OldOnly /\ [Next]_vars
        => [\A r \in Run, h \in Hash :
             DeletedBy(r, h) => \/ bucket[h].modified < now - TTL
                                \/ catalog[h] # NoEntry /\ catalog[h] < now - TTL]_vars
  BY OnlyOldDeleted
<1>4. QED BY <1>1, <1>2, <1>3, TypeInit, TypeNext, PTL DEF Spec, CleanupSparesFresh

====
