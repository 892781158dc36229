---- MODULE ArtifactsProofs ----
(***************************************************************************)
(* Proofs about Artifacts, for all archives, requests and hashes and any   *)
(* number of uploads and restarts.                                         *)
(***************************************************************************)
EXTENDS Artifacts, FiniteSetTheorems, TLAPS

----
(* The variables of a request.                                             *)

Shape ==
  /\ request \in Requests
  /\ pc \in [Upload -> Place]
  /\ result \in [Upload -> Answer]
  /\ got \in [Upload -> Nat]
  /\ offered \in [Upload -> BOOLEAN]
  /\ pipe \in [Upload -> {"open", "closed", "broken"}]
  /\ inspector \in [Upload -> {"inspecting", "draining", "done"}]
  /\ inspected = [u \in Upload |-> inspected[u]]

\* What the goroutines of a request know of each other: of a request for an
\* archive that is at a place of Put, was answered so, and has read so much.
Consistent(archive, place, answer, read, waits, end, scan, info) ==
  /\ read <= Len(archive)
  /\ waits => place \in {"sending", "closing"} /\ read < Len(archive)
  /\ end = "closed" => place \notin {"idle", "sending", "closing"}
  /\ answer = "stored" /\ place \in {"closing", "waiting", "upserting"}
       => read = Len(archive) /\ ~waits
  /\ place \in {"idle", "sending"} => answer = "none"
  /\ place = "upserting" => answer = "stored" /\ scan = "done"
  /\ scan = "draining" => info = Whole(archive)
  /\ scan = "done" => \/ info = Whole(archive)
                      \/ place = "waiting" /\ answer # "stored"
                      \/ place \in {"rollback", "answered", "cut"}
  /\ scan = "done" => place # "idle"

UploadOK(u) ==
  Consistent(Archive(u), pc[u], result[u], got[u], offered[u], pipe[u], inspector[u], inspected[u])

IInv == Shape /\ \A u \in Upload : UploadOK(u)

\* A scan that came to its last entry has seen what a scan of the archive sees.
LEMMA ScanEndsAtEnd ==
  ASSUME NEW a \in Archives, Len(a) \in Nat, NEW n \in 1..Len(a), n = End(a)
  PROVE  Scan[a][n] = Whole(a)
<1>1. Inspect(a, n) = Inspect(a, Len(a))
  <2>1. ~(n < End(a)) /\ ~(Len(a) < End(a))
    OBVIOUS
  <2>2. QED BY <2>1 DEF Inspect
<1>2. n \in 0..Len(a) /\ Len(a) \in 0..Len(a)
  OBVIOUS
<1>3. QED BY <1>1, <1>2 DEF Scan, Whole

LEMMA IInvInit == Init => IInv
<1> SUFFICES ASSUME Init PROVE IInv
  OBVIOUS
<1>1. Shape
  BY DEF Init, Shape, Place, Answer
<1>2. \A u \in Upload : Len(Archive(u)) \in Nat
  BY RequestsAssumption DEF Init, Archive
<1>3. QED BY <1>1, <1>2 DEF Init, IInv, UploadOK, Consistent

\* A step of one request leaves the others as they are.
Apart(u) ==
  \A v \in Upload \ {u} :
    /\ pc'[v] = pc[v] /\ result'[v] = result[v] /\ got'[v] = got[v]
    /\ offered'[v] = offered[v] /\ pipe'[v] = pipe[v]
    /\ inspector'[v] = inspector[v] /\ inspected'[v] = inspected[v]

LEMMA OneRequest ==
  ASSUME IInv, NEW u \in Upload, Shape', request' = request, Apart(u), UploadOK(u)'
  PROVE  IInv'
<1>1. ASSUME NEW v \in Upload \ {u}
      PROVE  UploadOK(v)'
  BY DEF IInv, UploadOK, Apart, Archive, Whole
<1>2. QED BY <1>1 DEF IInv

LEMMA TakeOK ==
  ASSUME IInv, NEW u \in Upload, Take(u)
  PROVE  Shape' /\ Apart(u) /\ UploadOK(u)'
<1> DEFINE n == got[u] + 1
           a == Archive(u)
<1>1. Shape /\ UploadOK(u)
  BY DEF IInv
<1>2. a \in Archives /\ Len(a) \in Nat
  BY <1>1, RequestsAssumption DEF Shape, Archive
<1>3. n \in 1..Len(a)
  <2>1. got[u] \in Nat /\ offered[u]
    BY <1>1 DEF Shape, Take
  <2>2. got[u] < Len(a)
    BY <1>1, <2>1 DEF UploadOK, Consistent
  <2> HIDE DEF a
  <2>3. QED BY <1>2, <2>1, <2>2
<1>4. n = End(a) => Scan[a][n] = Whole(a)
  BY <1>2, <1>3, ScanEndsAtEnd
<1>5. /\ UNCHANGED <<request, pc, result>>
      /\ inspector[u] # "done" /\ offered[u]
      /\ offered' = [offered EXCEPT ![u] = FALSE]
      /\ got' = [got EXCEPT ![u] = n]
  BY DEF Take
<1>6. \/ UNCHANGED <<inspected, inspector, pipe>>
      \/ /\ inspected' = [inspected EXCEPT ![u] = Whole(a)]
         /\ \/ inspector' = [inspector EXCEPT ![u] = "done"] /\ pipe' = [pipe EXCEPT ![u] = "broken"]
            \/ inspector' = [inspector EXCEPT ![u] = "draining"] /\ UNCHANGED pipe
  BY <1>4 DEF Take
<1>7. /\ Archive(u)' = a /\ Whole(Archive(u))' = Whole(a)
      /\ a = Archive(u)
  BY <1>5 DEF Archive, Whole
<1> HIDE DEF a, n
<1>8. Shape' /\ Apart(u)
  <2>1. n \in Nat
    BY <1>3
  <2>2. QED BY <1>1, <1>5, <1>6, <2>1 DEF Shape, Apart
<1>9. UploadOK(u)'
  <2>1. /\ got'[u] = n /\ ~offered'[u] /\ pc'[u] = pc[u] /\ result'[u] = result[u]
        /\ pc[u] \in {"sending", "closing"}
        /\ result[u] # "stored"
        /\ pipe[u] # "closed"
        /\ pc[u] = "sending" => result[u] = "none"
    BY <1>1, <1>5 DEF Shape, UploadOK, Consistent
  <2>2. /\ pipe'[u] # "closed"
        /\ inspector'[u] = "draining" => inspected'[u] = Whole(a)
        /\ inspector'[u] = "done" => inspected'[u] = Whole(a)
    BY <1>1, <1>5, <1>6, <1>7, <2>1 DEF Shape, UploadOK, Consistent
  <2>3. Consistent(a, pc'[u], result'[u], got'[u], offered'[u], pipe'[u], inspector'[u],
                   inspected'[u])
    <3>1. n <= Len(a)
      BY <1>2, <1>3
    <3>2. pc'[u] \notin {"waiting", "upserting", "idle"}
      BY <2>1
    <3>3. pc'[u] \in {"idle", "sending"} => result'[u] = "none"
      BY <2>1
    <3>4. result'[u] # "stored" /\ ~offered'[u] /\ pipe'[u] # "closed" /\ got'[u] <= Len(a)
      BY <2>1, <2>2, <3>1
    <3>5. QED BY <2>2, <3>2, <3>3, <3>4 DEF Consistent
  <2>4. QED BY <1>7, <2>3 DEF UploadOK
<1>10. QED BY <1>8, <1>9

----
(* The other steps of a request.                                           *)

LEMMA StartOK ==
  ASSUME IInv, NEW u \in Upload, Start(u)
  PROVE  Shape' /\ Apart(u) /\ UploadOK(u)'
<1> DEFINE a == Archive(u)
<1>1. Shape /\ Consistent(a, pc[u], result[u], got[u], offered[u], pipe[u], inspector[u], inspected[u])
  BY DEF IInv, UploadOK
<1>2. request' = request /\ Archive(u)' = a
  BY DEF Start, Archive
<1>3. Shape' /\ Apart(u)
  BY <1>1 DEF Start, Shape, Apart, Place, Answer
<1> HIDE DEF a
<1>4. /\ pc[u] = "idle"
      /\ \/ pc'[u] = "sending" /\ result'[u] = result[u]
         \/ pc'[u] = "answered" /\ result'[u] = "conflict"
      /\ got'[u] = got[u] /\ offered'[u] = offered[u] /\ pipe'[u] = pipe[u]
      /\ inspector'[u] = inspector[u] /\ inspected'[u] = inspected[u]
  BY <1>1 DEF Start, Shape
<1>5. Consistent(a, pc'[u], result'[u], got'[u], offered'[u], pipe'[u], inspector'[u], inspected'[u])
  BY <1>1, <1>4 DEF Consistent
<1>6. QED BY <1>2, <1>3, <1>5 DEF UploadOK


LEMMA TeeOK ==
  ASSUME IInv, NEW u \in Upload, Tee(u)
  PROVE  Shape' /\ Apart(u) /\ UploadOK(u)'
<1> DEFINE a == Archive(u)
<1>1. Shape /\ Consistent(a, pc[u], result[u], got[u], offered[u], pipe[u], inspector[u], inspected[u])
  BY DEF IInv, UploadOK
<1>2. request' = request /\ Archive(u)' = a
  BY DEF Tee, Archive
<1>3. Shape' /\ Apart(u)
  BY <1>1 DEF Tee, Shape, Apart, Place, Answer
<1> HIDE DEF a
<1>4. /\ pc[u] = "sending" /\ got[u] < Len(a) /\ offered'[u]
      /\ pc'[u] = pc[u] /\ result'[u] = result[u] /\ got'[u] = got[u] /\ pipe'[u] = pipe[u]
      /\ inspector'[u] = inspector[u] /\ inspected'[u] = inspected[u]
  BY <1>1 DEF Tee, Shape, Archive, a
<1>5. Consistent(a, pc'[u], result'[u], got'[u], offered'[u], pipe'[u], inspector'[u], inspected'[u])
  BY <1>1, <1>4 DEF Consistent
<1>6. QED BY <1>2, <1>3, <1>5 DEF UploadOK


LEMMA PutReturnsOK ==
  ASSUME IInv, NEW u \in Upload, NEW r \in Answer \ {"none"}, PutReturns(u, r),
         r = "stored" => AllRead(u)
  PROVE  Shape' /\ Apart(u) /\ UploadOK(u)'
<1> DEFINE a == Archive(u)
<1>1. Shape /\ Consistent(a, pc[u], result[u], got[u], offered[u], pipe[u], inspector[u], inspected[u])
  BY DEF IInv, UploadOK
<1>2. request' = request /\ Archive(u)' = a
  BY DEF PutReturns, Archive
<1>3. Shape' /\ Apart(u)
  BY <1>1 DEF PutReturns, Shape, Apart, Place, Answer
<1> HIDE DEF a
<1>4. /\ pc[u] = "sending" /\ pc'[u] = "closing" /\ result'[u] = r
      /\ r = "stored" => got[u] = Len(a) /\ ~offered[u]
      /\ got'[u] = got[u] /\ offered'[u] = offered[u] /\ pipe'[u] = pipe[u]
      /\ inspector'[u] = inspector[u] /\ inspected'[u] = inspected[u]
  BY <1>1 DEF PutReturns, Shape, AllRead, a
<1>5. Consistent(a, pc'[u], result'[u], got'[u], offered'[u], pipe'[u], inspector'[u], inspected'[u])
  BY <1>1, <1>4 DEF Consistent
<1>6. QED BY <1>2, <1>3, <1>5 DEF UploadOK


LEMMA CloseOK ==
  ASSUME IInv, NEW u \in Upload, Close(u)
  PROVE  Shape' /\ Apart(u) /\ UploadOK(u)'
<1> DEFINE a == Archive(u)
<1>1. Shape /\ Consistent(a, pc[u], result[u], got[u], offered[u], pipe[u], inspector[u], inspected[u])
  BY DEF IInv, UploadOK
<1>2. request' = request /\ Archive(u)' = a
  BY DEF Close, Archive
<1>3. Shape' /\ Apart(u)
  BY <1>1 DEF Close, Shape, Apart, Place, Answer
<1> HIDE DEF a
<1>4. /\ pc[u] = "closing" /\ pc'[u] = "waiting" /\ ~offered'[u]
      /\ result'[u] = result[u] /\ got'[u] = got[u] /\ inspector'[u] = inspector[u] /\ inspected'[u] = inspected[u]
  BY <1>1 DEF Close, Shape
<1>5. Consistent(a, pc'[u], result'[u], got'[u], offered'[u], pipe'[u], inspector'[u], inspected'[u])
  BY <1>1, <1>4 DEF Consistent
<1>6. QED BY <1>2, <1>3, <1>5 DEF UploadOK


LEMMA InspectorEndsOK ==
  ASSUME IInv, NEW u \in Upload, InspectorEnds(u)
  PROVE  Shape' /\ Apart(u) /\ UploadOK(u)'
<1> DEFINE a == Archive(u)
<1>1. Shape /\ Consistent(a, pc[u], result[u], got[u], offered[u], pipe[u], inspector[u], inspected[u])
  BY DEF IInv, UploadOK
<1>2. request' = request /\ Archive(u)' = a
  BY DEF InspectorEnds, Archive
<1>3. Shape' /\ Apart(u)
  BY <1>1 DEF InspectorEnds, Shape, Apart, Place, Answer
<1> HIDE DEF a
<1>4. /\ pipe[u] = "closed" /\ inspector[u] # "done" /\ inspector'[u] = "done"
      /\ inspector[u] = "draining" => inspected'[u] = inspected[u]
      /\ inspector[u] = "inspecting" => inspected'[u] = Scan[a][got[u]]
      /\ pc'[u] = pc[u] /\ result'[u] = result[u] /\ got'[u] = got[u] /\ offered'[u] = offered[u] /\ pipe'[u] = pipe[u]
  BY <1>1 DEF InspectorEnds, Shape, a
<1>5. Consistent(a, pc'[u], result'[u], got'[u], offered'[u], pipe'[u], inspector'[u], inspected'[u])
  <2>1. pc[u] \in Place /\ inspector[u] \in {"inspecting", "draining"}
    BY <1>1, <1>4 DEF Shape
  <2>2. pc[u] = "waiting" /\ result[u] = "stored" => inspected'[u] = Whole(a)
    BY <1>1, <1>4, <2>1 DEF Consistent, Whole
  <2>3. pc[u] \in {"waiting", "rollback", "answered", "cut"}
    BY <1>1, <1>4, <2>1 DEF Consistent, Place
  <2>4. QED BY <1>1, <1>4, <2>2, <2>3 DEF Consistent
<1>6. QED BY <1>2, <1>3, <1>5 DEF UploadOK


LEMMA WaitOK ==
  ASSUME IInv, NEW u \in Upload, Wait(u)
  PROVE  Shape' /\ Apart(u) /\ UploadOK(u)'
<1> DEFINE a == Archive(u)
<1>1. Shape /\ Consistent(a, pc[u], result[u], got[u], offered[u], pipe[u], inspector[u], inspected[u])
  BY DEF IInv, UploadOK
<1>2. request' = request /\ Archive(u)' = a
  BY DEF Wait, Archive
<1>3. Shape' /\ Apart(u)
  BY <1>1 DEF Wait, Shape, Apart, Place, Answer
<1> HIDE DEF a
<1>4. /\ pc[u] = "waiting" /\ inspector[u] = "done"
      /\ pc'[u] = IF result[u] = "stored" THEN "upserting" ELSE "answered"
      /\ result'[u] = result[u] /\ got'[u] = got[u] /\ offered'[u] = offered[u] /\ pipe'[u] = pipe[u]
      /\ inspector'[u] = inspector[u] /\ inspected'[u] = inspected[u]
  BY <1>1 DEF Wait, Shape
<1>5. Consistent(a, pc'[u], result'[u], got'[u], offered'[u], pipe'[u], inspector'[u], inspected'[u])
  BY <1>1, <1>4 DEF Consistent
<1>6. QED BY <1>2, <1>3, <1>5 DEF UploadOK


LEMMA EndOK ==
  ASSUME IInv, NEW u \in Upload, UpsertEntry(u) \/ UpsertFails(u) \/ Rollback(u)
  PROVE  Shape' /\ Apart(u) /\ UploadOK(u)'
<1> DEFINE a == Archive(u)
<1>1. Shape /\ Consistent(a, pc[u], result[u], got[u], offered[u], pipe[u], inspector[u], inspected[u])
  BY DEF IInv, UploadOK
<1>2. request' = request /\ Archive(u)' = a
  BY DEF UpsertEntry, UpsertFails, Rollback, Archive
<1>3. Shape' /\ Apart(u)
  BY <1>1 DEF UpsertEntry, UpsertFails, Rollback, Shape, Apart, Place, Answer
<1> HIDE DEF a
<1>4. /\ pc[u] \in {"upserting", "rollback"}
      /\ pc'[u] \in {"answered", "rollback"}
      /\ got'[u] = got[u] /\ offered'[u] = offered[u] /\ pipe'[u] = pipe[u]
      /\ inspector'[u] = inspector[u] /\ inspected'[u] = inspected[u]
  BY <1>1 DEF UpsertEntry, UpsertFails, Rollback, Shape
<1>5. Consistent(a, pc'[u], result'[u], got'[u], offered'[u], pipe'[u], inspector'[u], inspected'[u])
  BY <1>1, <1>4 DEF Consistent
<1>6. QED BY <1>2, <1>3, <1>5 DEF UploadOK

----
(* Every step.                                                             *)

LEMMA RequestNext ==
  ASSUME IInv, NEW u \in Upload, Request(u) \/ PutFails(u)
  PROVE  IInv'
<1>1. CASE PutStores(u) \/ PutFails(u) \/ PutIsShort(u)
  <2>1. PICK r \in Answer \ {"none"} : PutReturns(u, r) /\ (r = "stored" => AllRead(u))
    BY <1>1 DEF PutStores, PutFails, PutIsShort, Answer
  <2>2. request' = request
    BY <2>1 DEF PutReturns
  <2>3. QED BY <2>1, <2>2, PutReturnsOK, OneRequest
<1>2. CASE Start(u) \/ Tee(u) \/ Take(u) \/ Close(u) \/ InspectorEnds(u) \/ Wait(u)
  <2>1. request' = request
    BY <1>2 DEF Start, Tee, Take, Close, InspectorEnds, Wait
  <2>2. QED
    BY <1>2, <2>1, StartOK, TeeOK, TakeOK, CloseOK, InspectorEndsOK, WaitOK, OneRequest
<1>3. CASE UpsertEntry(u) \/ UpsertFails(u) \/ Rollback(u)
  <2>1. request' = request
    BY <1>3 DEF UpsertEntry, UpsertFails, Rollback
  <2>2. QED BY <1>3, <2>1, EndOK, OneRequest
<1>4. QED BY <1>1, <1>2, <1>3 DEF Request

LEMMA RestartNext == IInv /\ Restart => IInv'
<1> SUFFICES ASSUME IInv, Restart PROVE IInv'
  OBVIOUS
<1>1. Shape'
  BY DEF IInv, Shape, Restart, Place
<1>2. ASSUME NEW u \in Upload
      PROVE  UploadOK(u)'
  <2> DEFINE a == Archive(u)
  <2>1. Consistent(a, pc[u], result[u], got[u], offered[u], pipe[u], inspector[u], inspected[u])
    BY DEF IInv, UploadOK
  <2>2. Archive(u)' = a
    BY DEF Restart, Archive
  <2> HIDE DEF a
  <2>3. /\ got'[u] = got[u] /\ result'[u] = result[u] /\ ~offered'[u] /\ pipe'[u] # "closed"
        /\ \/ pc[u] = "idle" /\ pc'[u] = "idle" /\ inspector'[u] = "inspecting"
           \/ pc'[u] \in {"answered", "cut"} /\ inspector'[u] = "done"
    BY DEF Restart
  <2>4. Consistent(a, pc'[u], result'[u], got'[u], offered'[u], pipe'[u], inspector'[u],
                   inspected'[u])
    BY <2>1, <2>3 DEF Consistent
  <2>5. QED BY <2>2, <2>4 DEF UploadOK
<1>3. QED BY <1>1, <1>2 DEF IInv

LEMMA IInvNext == IInv /\ [Next]_vars => IInv'
<1> SUFFICES ASSUME IInv, [Next]_vars PROVE IInv'
  OBVIOUS
<1>1. CASE UNCHANGED <<request, upload>>
  BY <1>1 DEF IInv, Shape, UploadOK, Consistent, Archive, Whole, upload
<1>2. Reconcile \/ ReconcileFails \/ UNCHANGED vars => UNCHANGED <<request, upload>>
  BY DEF Reconcile, List, EnsureEntry, Select, NextEntry, Reinspect, UpdateTaskInfo, Reconciled,
         ReconcileFails, ListFails, EnsureFails, SelectFails, ReinspectFails, UpdateFails, vars
<1>3. QED BY <1>1, <1>2, RequestNext, RestartNext DEF Next

\* What Put writes to the catalog is what a scan of the whole archive gives,
\* however handler, tee, inspecting goroutine and store take turns (Handler.Put).
THEOREM OnlyWholeLabels == Spec => []LabelsAreWhole
<1>1. IInv => LabelsAreWhole
  BY DEF IInv, UploadOK, Consistent, LabelsAreWhole
<1>2. QED BY <1>1, IInvInit, IInvNext, PTL DEF Spec

----
(* The rows.                                                               *)

\* No row is lost, and no label of one.
LabelsGrow ==
  \A h \in Entries : /\ h \in Entries'
                     /\ \A f \in DOMAIN NoInfo :
                          catalog[h].info[f] # "" => catalog'[h].info[f] # ""

LEMMA NewRowKeeps ==
  ASSUME NEW h, NEW e, h \notin Entries, catalog' = WithEntry(h, e)
  PROVE  LabelsGrow /\ Entries' = Entries \cup {h}
BY DEF LabelsGrow, WithEntry, Entries

LEMMA OverlayKeeps ==
  ASSUME NEW top, NEW info, NEW f \in DOMAIN NoInfo, info[f] # ""
  PROVE  Overlay(top, info)[f] # ""
<1>1. f = "project" \/ f = "target" \/ f = "config" \/ f = "kind"
  BY DEF NoInfo
<1>2. /\ Overlay(top, info)["project"] = Or(top.project, info["project"])
      /\ Overlay(top, info)["target"] = Or(top.target, info["target"])
      /\ Overlay(top, info)["config"] = Or(top.config, info["config"])
      /\ Overlay(top, info)["kind"] = Or(top.kind, info["kind"])
  BY DEF Overlay
<1>3. \A s, t : t # "" => Or(s, t) # ""
  BY DEF Or
<1>4. QED BY <1>1, <1>2, <1>3

LEMMA RelabelledKeeps ==
  ASSUME NEW h, NEW info, catalog' = Relabelled(h, info)
  PROVE  /\ LabelsGrow /\ Entries' = Entries
         /\ h \in Entries => catalog'[h].info = Overlay(info, catalog[h].info)
<1>1. CASE h \notin Entries
  BY <1>1 DEF Relabelled, LabelsGrow, Entries
<1>2. CASE h \in Entries
  <2> DEFINE e == NewEntry(Overlay(info, catalog[h].info), catalog[h].at)
  <2>1. catalog' = [g \in Entries |-> IF g = h THEN e ELSE catalog[g]]
    BY <1>2 DEF Relabelled, WithEntry
  <2>2. Entries' = Entries
    BY <2>1 DEF Entries
  <2>3. e.info = Overlay(info, catalog[h].info)
    BY DEF NewEntry
  <2> HIDE DEF e
  <2>4. catalog'[h].info = Overlay(info, catalog[h].info)
    BY <1>2, <2>1, <2>3
  <2>5. \A g \in Entries : g # h => catalog'[g] = catalog[g]
    BY <2>1
  <2>6. LabelsGrow
    <3> SUFFICES ASSUME NEW g \in Entries, NEW f \in DOMAIN NoInfo, catalog[g].info[f] # ""
                 PROVE  catalog'[g].info[f] # ""
      BY <2>2 DEF LabelsGrow
    <3>1. CASE g = h
      BY <2>4, <3>1, OverlayKeeps
    <3>2. CASE g # h
      BY <2>5, <3>2
    <3>3. QED BY <3>1, <3>2
  <2>7. QED BY <2>2, <2>4, <2>6
<1>3. QED BY <1>1, <1>2

LEMMA RequestLabels ==
  ASSUME NEW u \in Upload, Request(u) \/ PutFails(u)
  PROVE  LabelsGrow
<1>1. CASE UpsertEntry(u)
  BY <1>1, NewRowKeeps, RelabelledKeeps DEF UpsertEntry
<1>2. CASE ~UpsertEntry(u)
  <2>1. catalog' = catalog
    BY <1>2
    DEF Request, Start, Tee, Take, PutStores, PutFails, PutIsShort, PutReturns, Close, InspectorEnds,
        Wait, UpsertFails, Rollback, store
  <2>2. QED BY <2>1 DEF LabelsGrow, Entries
<1>3. QED BY <1>1, <1>2

LEMMA LabelsNext == [Next]_vars => LabelsGrow \/ Restart
<1> SUFFICES ASSUME [Next]_vars PROVE LabelsGrow \/ Restart
  OBVIOUS
<1>1. catalog' = catalog => LabelsGrow
  BY DEF LabelsGrow, Entries
<1>2. ASSUME NEW h \in Hash, EnsureEntry(h) PROVE LabelsGrow
  BY <1>1, <1>2, NewRowKeeps DEF EnsureEntry
<1>3. CASE UpdateTaskInfo
  BY <1>3, RelabelledKeeps DEF UpdateTaskInfo
<1>4. ASSUME Reconcile \/ ReconcileFails, ~UpdateTaskInfo, \A h \in Hash : ~EnsureEntry(h)
      PROVE  catalog' = catalog
  BY <1>4
  DEF Reconcile, List, Select, NextEntry, Reinspect, Reconciled, store,
      ReconcileFails, ListFails, EnsureFails, SelectFails, ReinspectFails, UpdateFails
<1>5. QED
  BY <1>1, <1>2, <1>3, <1>4, RequestLabels DEF Next, vars, store

\* A label that is known is not forgotten while the process lives (UpsertEntry,
\* UpdateTaskInfo and mergeTaskInfo, object.go).
THEOREM LabelsStay == Spec => LabelsAreKept
<1>1. LabelsGrow =>
        (restarts' = restarts =>
           \A h \in Entries : /\ h \in Entries'
                              /\ \A f \in DOMAIN NoInfo :
                                   catalog[h].info[f] # "" => catalog'[h].info[f] # "")
  BY DEF LabelsGrow
<1>2. restarts \in Nat /\ Restart => restarts' # restarts
  BY DEF Restart
<1>3. Init => restarts \in Nat
  BY DEF Init
<1>4. restarts \in Nat /\ [Next]_vars => (restarts \in Nat)'
  BY DEF Next, Request, Start, Tee, Take, PutStores, PutFails, PutIsShort, PutReturns, Close,
         InspectorEnds, Wait, UpsertEntry, UpsertFails, Rollback, Reconcile, List, EnsureEntry,
         Select, NextEntry, Reinspect, UpdateTaskInfo, Reconciled, Restart, vars,
         ReconcileFails, ListFails, EnsureFails, SelectFails, ReinspectFails, UpdateFails
<1>5. restarts \in Nat /\ [Next]_vars =>
        [restarts' = restarts =>
           \A h \in Entries : /\ h \in Entries'
                              /\ \A f \in DOMAIN NoInfo :
                                   catalog[h].info[f] # "" => catalog'[h].info[f] # ""]_vars
  BY <1>1, <1>2, LabelsNext
<1>6. QED BY <1>3, <1>4, <1>5, PTL DEF Spec, LabelsAreKept

----
(* The reconcile.                                                          *)

\* The clock is past every time that was noted.
Clocked ==
  /\ clock \in Nat
  /\ DOMAIN objects = Hash
  /\ Entries \subseteq Hash
  /\ DOMAIN listed \subseteq Hash
  /\ \A h \in Objects : /\ objects[h].at \in Nat /\ objects[h].at < clock
                        /\ objects[h].by \in Upload
  /\ \A h \in DOMAIN listed : listed[h] \in Nat /\ listed[h] < clock

\* The object is the one the goroutine listed.
Still(h) == objects[h] # Nobody /\ objects[h].at = listed[h]

\* What the archive of the object says, and the row that says as much.
Told(h) == Whole(Archive(objects[h].by))
Fine(h) ==
  /\ h \in Entries
  /\ Labelled(Told(h)) => Labelled(catalog[h].info)
  /\ Told(h).kind # "" => catalog[h].info.kind # ""

\* How far the goroutine is with a hash for which no call has failed.
Served(h) ==
  /\ reconcile = "ensuring" => h \in todo \cup Entries
  /\ reconcile = "classifying" =>
       /\ h \in Entries
       /\ crowded \/ h \in todo \/ Fine(h) \/ reading = [hash |-> h, info |-> Told(h)]
  /\ reconcile = "reconciled" => crowded \/ Fine(h)

Progress == \A h \in DOMAIN listed \ missed : Still(h) => Served(h)

\* The goroutine is where it was.
Aside == UNCHANGED <<request, reconcile, listed, todo, reading, history>>

\* An object that is there after the step was there before, or is a new one.
BucketStep ==
  /\ clock' \in Nat /\ clock <= clock'
  /\ DOMAIN objects' = DOMAIN objects
  /\ \A h \in Objects' :
       \/ objects'[h] = objects[h]
       \/ objects'[h].at = clock /\ objects'[h].by \in Upload /\ clock' > clock

LEMMA RequestBucket ==
  ASSUME Clocked, NEW u \in Upload, Request(u) \/ PutFails(u)
  PROVE  BucketStep /\ Aside
<1>1. clock \in Nat
  BY DEF Clocked
<1>2. Aside
  BY DEF Aside, worker, history, Request, Start, Tee, Take, PutStores, PutFails, PutIsShort, PutReturns,
         Close, InspectorEnds, Wait, UpsertEntry, UpsertFails, Rollback
<1>3. UNCHANGED <<objects, clock>> => BucketStep
  BY <1>1 DEF BucketStep
<1>4. Store(u) => BucketStep
  <2> SUFFICES ASSUME Store(u) PROVE BucketStep
    OBVIOUS
  <2>1. clock' = clock + 1 /\ objects' = [objects EXCEPT ![HashOf(u)] = [by |-> u, at |-> clock]]
    BY DEF Store
  <2>2. ASSUME NEW h \in Objects', objects'[h] # objects[h]
        PROVE  objects'[h].at = clock /\ objects'[h].by \in Upload
    <3>1. objects'[h] = [by |-> u, at |-> clock]
      BY <2>1, <2>2
    <3>2. QED BY <3>1
  <2>3. DOMAIN objects' = DOMAIN objects
    BY <2>1
  <2>4. QED BY <1>1, <2>1, <2>2, <2>3 DEF BucketStep
<1>5. Rollback(u) => BucketStep
  <2> SUFFICES ASSUME Rollback(u) PROVE BucketStep
    OBVIOUS
  <2>1. clock' = clock /\ DOMAIN objects' = DOMAIN objects
    BY DEF Rollback
  <2>2. ASSUME NEW h \in Objects' PROVE objects'[h] = objects[h]
    <3>1. h \in DOMAIN objects /\ objects'[h] # Nobody
      BY DEF Objects, Clocked
    <3>2. objects' = objects \/ objects' = [objects EXCEPT ![HashOf(u)] = Nobody]
      BY DEF Rollback
    <3>3. QED BY <3>1, <3>2
  <2>3. QED BY <1>1, <2>1, <2>2 DEF BucketStep
<1>6. Store(u) \/ Rollback(u) \/ UNCHANGED <<objects, clock>>
  BY DEF store, Request, Start, Tee, Take, PutStores, PutFails, PutIsShort, PutReturns,
         Close, InspectorEnds, Wait, UpsertEntry, UpsertFails
<1>7. QED BY <1>2, <1>3, <1>4, <1>5, <1>6

LEMMA EntriesNext ==
  ASSUME IInv, Clocked, [Next]_vars
  PROVE  Entries' \subseteq Hash
<1>1. catalog' = catalog => Entries' = Entries
  BY DEF Entries
<1>2. ASSUME NEW h \in Hash, NEW e, h \notin Entries, catalog' = WithEntry(h, e)
      PROVE  Entries' \subseteq Hash
  BY <1>2, NewRowKeeps DEF Clocked
<1>3. ASSUME NEW h, NEW info, catalog' = Relabelled(h, info)
      PROVE  Entries' = Entries
  BY <1>3, RelabelledKeeps
<1>4. ASSUME NEW u \in Upload, Request(u) \/ PutFails(u)
      PROVE  Entries' \subseteq Hash
  <2>1. HashOf(u) \in Hash
    BY RequestsAssumption DEF IInv, Shape, HashOf
  <2>2. CASE UpsertEntry(u)
    BY <1>2, <1>3, <2>1, <2>2 DEF UpsertEntry, Clocked
  <2>3. CASE ~UpsertEntry(u)
    <3>1. catalog' = catalog
      BY <1>4, <2>3
      DEF Request, Start, Tee, Take, PutStores, PutFails, PutIsShort, PutReturns, Close,
          InspectorEnds, Wait, UpsertFails, Rollback, store
    <3>2. QED BY <1>1, <3>1 DEF Clocked
  <2>4. QED BY <2>2, <2>3
<1>5. ASSUME NEW h \in Hash, EnsureEntry(h) PROVE Entries' \subseteq Hash
  BY <1>1, <1>2, <1>5 DEF EnsureEntry, Clocked
<1>6. UpdateTaskInfo => Entries' \subseteq Hash
  BY <1>3 DEF UpdateTaskInfo, Clocked
<1>7. List \/ Select \/ (\E h \in Hash : Reinspect(h)) \/ Reconciled \/ ReconcileFails
        \/ UNCHANGED vars => catalog' = catalog
  BY DEF List, Select, NextEntry, Reinspect, Reconciled, vars, store,
         ReconcileFails, ListFails, EnsureFails, SelectFails, ReinspectFails, UpdateFails
<1>8. Restart => Entries' \subseteq Entries
  BY DEF Restart, Entries
<1>9. QED
  BY <1>1, <1>4, <1>5, <1>6, <1>7, <1>8 DEF Next, Reconcile, Clocked

LEMMA ClockedInit == Init => Clocked
<1> SUFFICES ASSUME Init PROVE Clocked
  OBVIOUS
<1>1. clock = 1 /\ catalog = <<>> /\ listed = <<>>
  BY DEF Init
<1>2. Entries = {} /\ DOMAIN listed = {}
  BY <1>1 DEF Entries
<1>3. ASSUME NEW h \in Objects
      PROVE  objects[h].at \in Nat /\ objects[h].at < clock /\ objects[h].by \in Upload
  <2>1. PICK u \in Old : objects[h] = [by |-> u, at |-> 0]
    BY DEF Init, Objects
  <2>2. QED BY <1>1, <2>1, OldAssumption
<1>4. DOMAIN objects = Hash
  BY DEF Init
<1>5. QED BY <1>1, <1>2, <1>3, <1>4 DEF Clocked

\* The steps of the goroutine and of the process leave the bucket alone.
LEMMA WorkerBucket ==
  ASSUME Reconcile \/ ReconcileFails \/ Restart \/ UNCHANGED vars
  PROVE  UNCHANGED <<objects, clock, request>>
BY DEF Reconcile, List, EnsureEntry, Select, NextEntry, Reinspect, UpdateTaskInfo, Reconciled,
       ReconcileFails, ListFails, EnsureFails, SelectFails, ReinspectFails, UpdateFails,
       Restart, vars, store

LEMMA ClockedNext == IInv /\ Clocked /\ [Next]_vars => Clocked'
<1> SUFFICES ASSUME IInv, Clocked, [Next]_vars PROVE Clocked'
  OBVIOUS
<1>1. BucketStep
  <2>1. UNCHANGED <<objects, clock>> => BucketStep
    BY DEF BucketStep, Clocked
  <2>2. QED BY <2>1, RequestBucket, WorkerBucket DEF Next
<1>2. ASSUME NEW h \in Objects'
      PROVE  objects'[h].at \in Nat /\ objects'[h].at < clock' /\ objects'[h].by \in Upload
  <2>1. clock \in Nat /\ clock' \in Nat
    BY <1>1 DEF BucketStep, Clocked
  <2>2. CASE objects'[h] = objects[h]
    <3>1. h \in Objects
      BY <2>2 DEF Objects
    <3>2. objects[h].at \in Nat /\ objects[h].at < clock /\ objects[h].by \in Upload
      BY <3>1 DEF Clocked
    <3>3. clock <= clock'
      BY <1>1 DEF BucketStep
    <3>4. QED BY <2>1, <2>2, <3>2, <3>3
  <2>3. CASE objects'[h] # objects[h]
    BY <1>1, <2>1, <2>3 DEF BucketStep
  <2>4. QED BY <2>2, <2>3
<1>3. /\ DOMAIN listed' \subseteq Hash
      /\ \A h \in DOMAIN listed' : listed'[h] \in Nat /\ listed'[h] < clock'
  <2>1. CASE listed' = listed
    BY <1>1, <2>1 DEF Clocked, BucketStep
  <2>2. CASE List
    <3>1. listed' = [h \in Objects |-> objects[h].at] /\ clock' = clock
      BY <2>2 DEF List, store
    <3>2. QED BY <3>1 DEF Clocked, Objects
  <2>3. CASE Restart
    BY <2>3 DEF Restart
  <2>4. List \/ Restart \/ listed' = listed
    <3>1. (\E u \in Upload : Request(u) \/ PutFails(u)) => listed' = listed
      BY RequestBucket DEF Aside
    <3>2. Reconcile \/ ReconcileFails \/ UNCHANGED vars => List \/ listed' = listed
      BY DEF Reconcile, EnsureEntry, Select, NextEntry, Reinspect, UpdateTaskInfo, Reconciled,
             ReconcileFails, ListFails, EnsureFails, SelectFails, ReinspectFails, UpdateFails,
             vars, worker
    <3>3. QED BY <3>1, <3>2 DEF Next
  <2>5. QED BY <2>1, <2>2, <2>3, <2>4
<1>4. QED BY <1>1, <1>2, <1>3, EntriesNext DEF Clocked, BucketStep

\* A listed object that is still there was there before the step.
LEMMA StillBefore ==
  ASSUME Clocked, BucketStep, UNCHANGED <<request, listed>>, NEW h \in DOMAIN listed, Still(h)'
  PROVE  Still(h) /\ objects'[h] = objects[h] /\ Told(h)' = Told(h)
<1>1. h \in Objects'
  BY DEF Still, Objects, Clocked
<1>2. listed[h] < clock /\ listed[h] \in Nat /\ clock \in Nat
  BY DEF Clocked
<1>3. objects'[h].at = listed[h]
  BY DEF Still
<1>4. objects'[h] = objects[h]
  BY <1>1, <1>2, <1>3 DEF BucketStep
<1>5. QED BY <1>4 DEF Still, Told, Archive

LEMMA FineStays ==
  ASSUME LabelsGrow, NEW h, Fine(h), Told(h)' = Told(h)
  PROVE  Fine(h)'
<1>1. /\ h \in Entries'
      /\ catalog[h].info.project # "" => catalog'[h].info.project # ""
      /\ catalog[h].info.target # "" => catalog'[h].info.target # ""
      /\ catalog[h].info.kind # "" => catalog'[h].info.kind # ""
  BY DEF LabelsGrow, Fine, NoInfo
<1>2. QED BY <1>1 DEF Fine, Labelled

\* The steps of the others.
LEMMA AsideKeepsProgress ==
  ASSUME Clocked, BucketStep, Aside, LabelsGrow, Progress
  PROVE  Progress'
<1> SUFFICES ASSUME NEW h \in DOMAIN listed \ missed, Still(h)'
             PROVE  Served(h)'
  BY DEF Progress, Aside, history
<1>1. Still(h) /\ Told(h)' = Told(h)
  BY StillBefore DEF Aside
<1>2. Served(h)
  BY <1>1 DEF Progress
<1>3. Fine(h) => Fine(h)'
  BY <1>1, FineStays
<1>4. Entries \subseteq Entries'
  BY DEF LabelsGrow
<1>5. QED BY <1>1, <1>2, <1>3, <1>4 DEF Served, Aside, history

LEMMA OverlayLabels ==
  ASSUME NEW top, NEW info
  PROVE  /\ Labelled(top) => Labelled(Overlay(top, info))
         /\ top.kind # "" => Overlay(top, info).kind # ""
BY DEF Labelled, Overlay, Or

LEMMA UpdateKeepsProgress ==
  ASSUME UpdateTaskInfo, Progress
  PROVE  Progress'
<1>1. /\ UNCHANGED <<request, objects, reconcile, listed, todo, crowded, missed>>
      /\ catalog' = Relabelled(reading.hash, reading.info)
  BY DEF UpdateTaskInfo, history
<1>2. LabelsGrow /\ Entries' = Entries
  BY <1>1, RelabelledKeeps
<1> SUFFICES ASSUME NEW h \in DOMAIN listed \ missed, Still(h)
             PROVE  Served(h)'
  BY <1>1 DEF Progress, Still
<1>3. Served(h)
  BY DEF Progress
<1>4. Told(h)' = Told(h)
  BY <1>1 DEF Told, Archive
<1>5. Fine(h) => Fine(h)'
  BY <1>2, <1>4, FineStays
<1>6. ASSUME h \in Entries, reading = [hash |-> h, info |-> Told(h)]
      PROVE  Fine(h)'
  <2>1. catalog' = Relabelled(h, Told(h))
    BY <1>1, <1>6
  <2>2. catalog'[h].info = Overlay(Told(h), catalog[h].info)
    BY <1>6, <2>1, RelabelledKeeps
  <2>3. QED BY <1>2, <1>4, <1>6, <2>2, OverlayLabels DEF Fine
<1>7. QED BY <1>1, <1>2, <1>3, <1>5, <1>6 DEF Served

\* List asks for no more than there are objects, and there are no more rows.
LEMMA PageIsWhole ==
  ASSUME Clocked, NEW h \in DOMAIN listed, NEW page, NewestEntries(page),
         ~(Cardinality(Entries) > Cardinality(DOMAIN listed))
  PROVE  page = Entries
<1> DEFINE m == Cardinality(DOMAIN listed)
           n == Cardinality(Entries)
<1>1. IsFiniteSet(Entries) /\ IsFiniteSet(DOMAIN listed)
  BY FiniteAssumption, FS_Subset DEF Clocked
<1>2. m \in Nat /\ n \in Nat
  BY <1>1, FS_CardinalityType
<1>3. Limit = m
  BY DEF Limit
<1>4. ~(n > m)
  OBVIOUS
<1>5. page \subseteq Entries /\ Cardinality(page) = Min({m, n})
  BY <1>3 DEF NewestEntries
<1> HIDE DEF m
<1>6. Min({m, n}) = n
  <2> HIDE DEF n
  <2>1. n \in {m, n} /\ \A y \in {m, n} : n <= y
    BY <1>2, <1>4
  <2>2. \A x \in {m, n} : (\A y \in {m, n} : x <= y) => x = n
    BY <1>2, <1>4
  <2>3. QED BY <2>1, <2>2 DEF Min
<1>7. Cardinality(Entries) = Cardinality(page)
  BY <1>5, <1>6
<1>8. page \in SUBSET Entries
  BY <1>5
<1> HIDE DEF n
<1>9. QED BY <1>1, <1>7, <1>8, FS_Subset

LEMMA SelectKeepsProgress ==
  ASSUME Clocked, Select, Progress
  PROVE  Progress'
<1>1. /\ UNCHANGED <<request, objects, catalog, listed, missed>>
      /\ reconcile = "ensuring" /\ todo = {} /\ reconcile' = "classifying"
      /\ crowded' = (Cardinality(Entries) > Cardinality(DOMAIN listed))
  BY DEF Select, store
<1>2. PICK page : NewestEntries(page) /\ todo' = {h \in page : ~Known(h)}
  BY DEF Select
<1> SUFFICES ASSUME NEW h \in DOMAIN listed \ missed, Still(h)
             PROVE  Served(h)'
  BY <1>1 DEF Progress, Still
<1>3. h \in Entries
  BY <1>1 DEF Progress, Served
<1>4. Fine(h)' <=> Fine(h)
  BY <1>1 DEF Fine, Told, Archive, Entries
<1>5. Entries' = Entries
  BY <1>1 DEF Entries
<1>6. ~crowded' => h \in todo' \/ Fine(h)
  <2> SUFFICES ASSUME ~crowded' PROVE h \in todo' \/ Fine(h)
    OBVIOUS
  <2>1. h \in page
    BY <1>1, <1>2, <1>3, PageIsWhole
  <2>2. QED BY <1>2, <1>3, <2>1 DEF Known, Fine
<1>7. QED BY <1>1, <1>3, <1>4, <1>5, <1>6 DEF Served

LEMMA LabelsAreSomething ==
  ASSUME IInv, Clocked, NEW h \in DOMAIN listed, Still(h)
  PROVE  Nobody # [hash |-> h, info |-> Told(h)]
<1>1. h \in Hash /\ objects[h].by \in Upload
  BY DEF Clocked, Still, Objects
<1>2. Archive(objects[h].by) \in Archives
  BY <1>1, RequestsAssumption DEF IInv, Shape, Archive
<1>3. QED BY <1>1, <1>2, NobodyAssumption DEF Told

LEMMA ReinspectKeepsProgress ==
  ASSUME IInv, Clocked, NEW g \in Hash, Reinspect(g), Progress
  PROVE  Progress'
<1>1. /\ UNCHANGED <<request, objects, catalog, reconcile, listed, crowded, missed>>
      /\ reconcile = "classifying" /\ reading = Nobody /\ todo' = todo \ {g}
      /\ reading' = IF objects[g] = Nobody \/ Empty(Told(g)) THEN Nobody
                    ELSE [hash |-> g, info |-> Told(g)]
  BY DEF Reinspect, NextEntry, Read, Stored, Told, store
<1> SUFFICES ASSUME NEW h \in DOMAIN listed \ missed, Still(h)
             PROVE  Served(h)'
  BY <1>1 DEF Progress, Still
<1>2. Served(h)
  BY DEF Progress
<1>3. Told(h)' = Told(h) /\ Entries' = Entries
  BY <1>1 DEF Told, Archive, Entries
<1>4. Fine(h)' <=> Fine(h)
  BY <1>1, <1>3 DEF Fine
<1>5. h \in Entries /\ Empty(Told(h)) => Fine(h)
  BY DEF Fine, Empty, Labelled
<1>6. /\ h \in Entries
      /\ crowded \/ h \in todo \/ Fine(h) \/ reading = [hash |-> h, info |-> Told(h)]
  BY <1>1, <1>2 DEF Served
<1>7. Fine(h) \/ crowded \/ h \in todo' \/ reading' = [hash |-> h, info |-> Told(h)]
  <2>1. CASE h = g /\ h \in todo
    BY <1>1, <1>5, <1>6, <2>1 DEF Still
  <2>2. CASE h # g /\ h \in todo
    BY <1>1, <2>2
  <2>3. CASE reading = [hash |-> h, info |-> Told(h)] /\ h \notin todo
    BY <1>1, <2>3, LabelsAreSomething
  <2>4. QED BY <1>6, <2>1, <2>2, <2>3
<1>8. QED BY <1>1, <1>3, <1>4, <1>6, <1>7 DEF Served

LEMMA ReconciledKeepsProgress ==
  ASSUME IInv, Clocked, Reconciled, Progress
  PROVE  Progress'
<1>1. /\ UNCHANGED <<request, objects, catalog, listed, crowded, missed>>
      /\ reconcile = "classifying" /\ todo = {} /\ reading = Nobody
      /\ reconcile' = "reconciled"
  BY DEF Reconciled, store, history
<1> SUFFICES ASSUME NEW h \in DOMAIN listed \ missed, Still(h)
             PROVE  Served(h)'
  BY <1>1 DEF Progress, Still
<1>2. crowded \/ Fine(h)
  BY <1>1, LabelsAreSomething DEF Progress, Served
<1>3. Fine(h) => Fine(h)'
  BY <1>1 DEF Fine, Told, Archive, Entries
<1>4. QED BY <1>1, <1>2, <1>3 DEF Served

LEMMA EnsureKeepsProgress ==
  ASSUME NEW g \in Hash, EnsureEntry(g), Progress
  PROVE  Progress'
<1>1. /\ UNCHANGED <<objects, listed, reconcile, missed>>
      /\ reconcile = "ensuring" /\ todo' = todo \ {g}
  BY DEF EnsureEntry, history
<1>2. Entries' = Entries \cup {g}
  BY NewRowKeeps DEF EnsureEntry, Entries
<1> SUFFICES ASSUME NEW h \in DOMAIN listed \ missed, Still(h)
             PROVE  Served(h)'
  BY <1>1 DEF Progress, Still
<1>3. h \in todo \cup Entries
  BY <1>1 DEF Progress, Served
<1>4. QED BY <1>1, <1>2, <1>3 DEF Served

\* A call that fails takes its hash out of the account, and no other one.
LEMMA FailureKeepsProgress ==
  ASSUME IInv, Clocked, ReconcileFails, Progress
  PROVE  Progress'
<1>1. UNCHANGED <<request, objects, catalog>>
  BY DEF ReconcileFails, ListFails, EnsureFails, SelectFails, NextEntry, ReinspectFails,
         UpdateFails, store
<1>2. \A h : Still(h) /\ listed' = listed => Still(h)' /\ Told(h)' = Told(h)
  BY <1>1 DEF Still, Told, Archive
<1>3. Entries' = Entries /\ \A h : Fine(h)' <=> Fine(h)
  BY <1>1 DEF Fine, Told, Archive, Entries
<1>4. CASE ListFails
  BY <1>3, <1>4 DEF ListFails, Progress, Served, Still, store, history
<1>5. CASE SelectFails
  BY <1>5 DEF SelectFails, Progress
<1>6. ASSUME NEW g \in Hash, EnsureFails(g) PROVE Progress'
  <2>1. /\ UNCHANGED <<objects, listed, reconcile, reading, crowded>>
        /\ reconcile = "ensuring" /\ todo' = todo \ {g} /\ missed' = missed \cup {g}
    BY <1>6 DEF EnsureFails, store
  <2>2. ASSUME NEW h \in DOMAIN listed \ missed', Still(h) PROVE Served(h)'
    BY <1>3, <2>1, <2>2 DEF Progress, Served
  <2>3. QED BY <2>1, <2>2 DEF Progress, Still
<1>7. ASSUME NEW g \in Hash, ReinspectFails(g) PROVE Progress'
  <2>1. /\ UNCHANGED <<objects, listed, reconcile, crowded>>
        /\ reconcile = "classifying" /\ reading = Nobody
        /\ todo' = todo \ {g} /\ missed' = missed \cup {g}
    BY <1>7 DEF ReinspectFails, NextEntry, store
  <2>2. ASSUME NEW h \in DOMAIN listed \ missed', Still(h) PROVE Served(h)'
    <3>1. Served(h) /\ h # g /\ reading # [hash |-> h, info |-> Told(h)]
      BY <2>1, <2>2, LabelsAreSomething DEF Progress
    <3>2. QED BY <1>3, <2>1, <3>1 DEF Served
  <2>3. QED BY <2>1, <2>2 DEF Progress, Still
<1>8. CASE UpdateFails
  <2>1. /\ UNCHANGED <<objects, listed, reconcile, todo, crowded>>
        /\ missed' = missed \cup {reading.hash}
    BY <1>8 DEF UpdateFails, store
  <2>2. ASSUME NEW h \in DOMAIN listed \ missed', Still(h) PROVE Served(h)'
    <3>1. Served(h) /\ h # reading.hash
      BY <2>1, <2>2 DEF Progress
    <3>2. reading # [hash |-> h, info |-> Told(h)]
      BY <3>1
    <3>3. QED BY <1>3, <2>1, <3>1, <3>2 DEF Served
  <2>3. QED BY <2>1, <2>2 DEF Progress, Still
<1>9. QED BY <1>4, <1>5, <1>6, <1>7, <1>8 DEF ReconcileFails

LEMMA ProgressNext == IInv /\ Clocked /\ Progress /\ [Next]_vars => Progress'
<1> SUFFICES ASSUME IInv, Clocked, Progress, [Next]_vars PROVE Progress'
  OBVIOUS
<1>1. ASSUME NEW u \in Upload, Request(u) \/ PutFails(u) PROVE Progress'
  <2>1. LabelsGrow
    BY <1>1, RequestLabels
  <2>2. QED BY <1>1, <2>1, RequestBucket, AsideKeepsProgress
<1>2. CASE List
  BY <1>2 DEF List, Progress, Served, Still, Objects, Clocked
<1>3. ASSUME NEW h \in Hash, EnsureEntry(h) \/ Reinspect(h) PROVE Progress'
  BY <1>3, EnsureKeepsProgress, ReinspectKeepsProgress
<1>4. CASE Select \/ UpdateTaskInfo \/ Reconciled
  BY <1>4, SelectKeepsProgress, UpdateKeepsProgress, ReconciledKeepsProgress
<1>5. CASE ReconcileFails
  BY <1>5, FailureKeepsProgress
<1>6. CASE Restart
  BY <1>6 DEF Restart, Progress
<1>7. CASE UNCHANGED vars
  BY <1>7 DEF vars, store, worker, history, Progress, Served, Still, Fine, Told, Archive, Entries
<1>8. QED BY <1>1, <1>2, <1>3, <1>4, <1>5, <1>6, <1>7 DEF Next, Reconcile

\* When the goroutine of main is through, every object it listed that is still
\* there and for which none of its calls failed has a row with the labels its
\* archive offers, however uploads came in between, and whatever calls failed
\* for other objects, of which the loops only log or skip the errors.
THEOREM ObjectsGetLabels == Spec => []ObjectsAreLabelled
<1>1. Init => Progress
  BY DEF Init, Progress
<1>2. Progress => ObjectsAreLabelled
  BY DEF Progress, Served, Still, Fine, Told, ObjectsAreLabelled
<1>3. QED BY <1>1, <1>2, IInvInit, IInvNext, ClockedInit, ClockedNext, ProgressNext, PTL DEF Spec

====
