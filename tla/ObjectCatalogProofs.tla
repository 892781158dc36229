---- MODULE ObjectCatalogProofs ----
(***************************************************************************)
(* Proofs about ObjectCatalog, for every set of artifacts, callers of      *)
(* Flush and bounds.                                                       *)
(***************************************************************************)
EXTENDS ObjectCatalog, SumTheorems, TLAPS

USE FiniteAssumption, SizeAssumption, KindAssumption, FlusherAssumption, FlushEveryAssumption,
    BoundAssumption, NoEntryAssumption, NoSnapshotAssumption

----
(* The data the mutators build.                                            *)

LEMMA BumpLockedType ==
  ASSUME NEW s \in Stats, NEW c \in Counter, NEW at \in Day
  PROVE  BumpLocked(s, c, at) \in Stats
<1>1. [s.total EXCEPT ![c] = @ + 1] \in [Counter -> Nat]
  BY DEF Stats
<1>2. [s.days EXCEPT ![at][c] = @ + 1] \in [Day -> [Counter -> Nat]]
  BY DEF Stats
<1>3. QED BY <1>1, <1>2 DEF BumpLocked, Stats

LEMMA UpsertedType ==
  ASSUME NEW e \in Entry \cup {NoEntry}, NEW size \in Size, NEW at \in Day,
         NEW info \in Info
  PROVE  Upserted(e, size, at, info) \in Entry
BY DEF Upserted, Entry, MergeInfo, Info

LEMMA HitType ==
  ASSUME NEW e \in Entry \cup {NoEntry}, NEW at \in Day
  PROVE  Hit(e, at) \in Entry
BY DEF Hit, Entry, Info

LEMMA EmptySnapshotType ==
  /\ EmptyEntries \in Entries
  /\ EmptyStats \in Stats
  /\ EmptySnapshot \in Snapshot
BY DEF EmptySnapshot, Snapshot, EmptyEntries, EmptyStats, ZeroCounters,
       Entries, Stats

\* The common part of every mutator keeps the types.
LEMMA MutateType ==
  ASSUME TypeOK, NEW e \in Entries, NEW s \in Stats, Mutate(e, s)
  PROVE  TypeOK'
<1>1. nextOp' \in 0..MaxOps /\ nextOp + 1 \in 1..MaxOps
  BY DEF TypeOK, Mutate
<1>2. ops' \in SUBSET (1..MaxOps)
  BY <1>1 DEF TypeOK, Mutate
<1>3. QED BY <1>1, <1>2 DEF TypeOK, Mutate, flush

\* Every mutator is a Mutate of well-typed data.
LEMMA MutationIsMutate ==
  ASSUME TypeOK, Mutation
  PROVE  \E e \in Entries, s \in Stats : Mutate(e, s)
<1> USE DEF TypeOK
<1>1. CASE \E h \in Hash, at \in Day, size \in Size, info \in Info :
             UpsertEntry(h, size, at, info)
  <2>1. PICK h \in Hash, at \in Day, size \in Size, info \in Info :
               UpsertEntry(h, size, at, info)
    BY <1>1
  <2>2. [entries EXCEPT ![h] = Upserted(@, size, at, info)] \in Entries
    BY UpsertedType DEF Entries
  <2>3. BumpLocked(stats, "stores", at) \in Stats
    BY BumpLockedType DEF Counter
  <2>4. QED BY <2>1, <2>2, <2>3 DEF UpsertEntry
<1>2. CASE \E h \in Hash, at \in Day : RecordHit(h, at)
  <2>1. PICK h \in Hash, at \in Day : RecordHit(h, at)
    BY <1>2
  <2>2. [entries EXCEPT ![h] = Hit(@, at)] \in Entries
    BY HitType DEF Entries
  <2>3. BumpLocked(stats, "hits", at) \in Stats
    BY BumpLockedType DEF Counter
  <2>4. QED BY <2>1, <2>2, <2>3 DEF RecordHit
<1>3. CASE \E h \in Hash, at \in Day, size \in Size : EnsureEntry(h, size, at)
  <2>1. PICK h \in Hash, at \in Day, size \in Size : EnsureEntry(h, size, at)
    BY <1>3
  <2>2. [entries EXCEPT ![h] = Upserted(NoEntry, size, at, NoKind)] \in Entries
    BY UpsertedType DEF Entries, Info
  <2>3. entries[h] # NoEntry => [entries EXCEPT ![h].size = size] \in Entries
    BY DEF Entries, Entry
  <2>4. QED BY <2>1, <2>2, <2>3 DEF EnsureEntry
<1>4. CASE \E at \in Day : RecordMiss(at)
  <2>1. PICK at \in Day : RecordMiss(at)
    BY <1>4
  <2>2. BumpLocked(stats, "misses", at) \in Stats
    BY BumpLockedType DEF Counter
  <2>3. QED BY <2>1, <2>2 DEF RecordMiss
<1>5. CASE \E hs \in SUBSET Hash : Delete(hs)
  <2>1. PICK hs \in SUBSET Hash : Delete(hs)
    BY <1>5
  <2>2. [h \in Hash |-> IF h \in hs THEN NoEntry ELSE entries[h]] \in Entries
    BY DEF Entries
  <2>3. QED BY <2>1, <2>2 DEF Delete
<1>6. CASE \E h \in Hash, info \in Info : UpdateTaskInfo(h, info)
  <2>1. PICK h \in Hash, info \in Info : UpdateTaskInfo(h, info)
    BY <1>6
  <2>2. entries[h] # NoEntry =>
          [entries EXCEPT ![h].kind = MergeInfo(@, info)] \in Entries
    BY DEF Entries, Entry, MergeInfo
  <2>3. QED BY <2>1, <2>2 DEF UpdateTaskInfo
<1>7. QED BY <1>1, <1>2, <1>3, <1>4, <1>5, <1>6 DEF Mutation

----
(* Type correctness.                                                       *)

LEMMA StoredType == TypeOK => Stored \in Snapshot
BY EmptySnapshotType DEF TypeOK, Stored

LEMMA CloneType == TypeOK => Clone \in Snapshot
BY DEF TypeOK, Clone, Snapshot

LEMMA TypeInit == Init => TypeOK
<1> SUFFICES ASSUME Init PROVE TypeOK
  OBVIOUS
<1>1. nextOp \in 0..MaxOps /\ faults \in Nat /\ starts \in Nat
  BY DEF Init
<1>2. entries \in Entries /\ stats \in Stats /\ snap \in [Flushers -> Snapshot]
  BY EmptySnapshotType, Zenon DEF Init
<1>3. QED BY <1>1, <1>2 DEF Init, TypeOK, Pc

LEMMA TypeStep == TypeOK /\ [Next]_vars => TypeOK'
<1> SUFFICES ASSUME TypeOK, [Next]_vars PROVE TypeOK'
  OBVIOUS
<1>1. CASE Mutation
  BY <1>1, MutationIsMutate, MutateType
<1>2. ASSUME NEW f \in Flushers, FlushStep(f) PROVE TypeOK'
  <2> USE DEF TypeOK, memory, Pc
  <2>1. CASE FlushCall(f) BY <2>1 DEF FlushCall
  <2>2. CASE FlushRefused(f) BY <2>2 DEF FlushRefused
  <2>3. CASE FlushClean(f) BY <2>3 DEF FlushClean
  <2>4. CASE FlushClone(f) BY <2>4, CloneType DEF FlushClone
  <2>5. CASE PutMetaOk(f) BY <2>5, EmptySnapshotType DEF PutMetaOk
  <2>6. CASE PutMetaError(f) BY <2>6, EmptySnapshotType DEF PutMetaError
  <2>7. CASE MarkDirty(f) BY <2>7 DEF MarkDirty
  <2>8. CASE FlushReturn(f) BY <2>8 DEF FlushReturn
  <2>9. QED
    BY <1>2, <2>1, <2>2, <2>3, <2>4, <2>5, <2>6, <2>7, <2>8 DEF FlushStep, FlushGoesOn
<1>3. ASSUME NEW failed \in BOOLEAN, NEW content \in Snapshot,
             Boot(failed, content), faults' \in Nat
      PROVE  TypeOK'
  <2>1. entries' \in Entries /\ stats' \in Stats /\ ops' \in SUBSET (1..MaxOps)
    BY <1>3 DEF Boot, Snapshot
  <2>2. snap' \in [Flushers -> Snapshot]
    BY <1>3, EmptySnapshotType, Zenon DEF Boot, NoFlushUnderWay
  <2>3. started' \in [Flushers -> SUBSET (1..MaxOps)]
    BY <1>3 DEF Boot, NoFlushUnderWay
  <2>4. pc' \in [Flushers -> Pc]
    BY <1>3 DEF Boot, Pc
  <2>5. starts' \in Nat
    BY <1>3 DEF Boot, TypeOK
  <2>6. QED BY <1>3, <2>1, <2>2, <2>3, <2>4, <2>5 DEF TypeOK, Boot
<1>4. CASE LoadOk
  <2>1. Boot(FALSE, Stored) /\ faults' \in Nat
    BY <1>4 DEF LoadOk, TypeOK
  <2>2. QED BY <1>3, <2>1, StoredType
<1>5. CASE LoadError
  <2>1. faults' \in Nat
    BY <1>5 DEF LoadError, TypeOK
  <2>2. Boot(TRUE, EmptySnapshot)
    BY <1>5, Zenon DEF LoadError
  <2>3. QED BY <1>3, <2>1, <2>2, EmptySnapshotType
<1>6. CASE Cancel
  BY <1>6 DEF Cancel, TypeOK, memory, flush
<1>7. CASE TickerExit
  BY <1>7 DEF TickerExit, TypeOK, memory, Pc, Flushers
<1>8. CASE Crash
  BY <1>8, EmptySnapshotType
     DEF Crash, Down, NoFlushUnderWay, TypeOK, Pc
<1>9. CASE UNCHANGED vars
  BY <1>9 DEF vars, TypeOK
<1>10. QED BY <1>1, <1>2, <1>4, <1>5, <1>6, <1>7, <1>8, <1>9 DEF Next

\* Every variable of the catalog, of the callers of Flush and of the bucket
\* always holds a value of its type, through crashes and failed calls.
THEOREM TypeCorrect == Spec => []TypeOK
BY TypeInit, TypeStep, PTL DEF Spec

----
(* The inductive invariant.                                                *)

LEMMA EmptyOps == EmptySnapshot.ops = {}
BY DEF EmptySnapshot

LEMMA IInvInit == Init => IInv
BY EmptyOps
   DEF Init, IInv, FlushMuIsExclusive, CloneInBetween, InProcess,
       MemoryIsAhead, CleanIsPersisted, FlushDurable, HoldsFlushMu, Running,
       Stored

\* Mutators only add to memory and leave the catalog dirty.
LEMMA MutateInv ==
  ASSUME TypeOK, IInv, NEW e, NEW s, Mutate(e, s)
  PROVE  IInv'
<1> USE DEF Mutate, flush
<1>1. Stored' = Stored /\ ops \subseteq ops'
  BY DEF Stored
<1>2. (FlushMuIsExclusive /\ CloneInBetween /\ InProcess /\ FlushDurable)'
  BY <1>1 DEF IInv, FlushMuIsExclusive, CloneInBetween, InProcess,
              FlushDurable, HoldsFlushMu, Running
<1>3. MemoryIsAhead'
  <2>1. ops' \cup Stored'.ops \subseteq 1..nextOp'
    BY <1>1 DEF TypeOK, IInv, MemoryIsAhead
  <2>2. QED BY <1>1, <2>1 DEF IInv, MemoryIsAhead, Running
<1>4. CleanIsPersisted'
  BY DEF CleanIsPersisted
<1>5. QED BY <1>2, <1>3, <1>4 DEF IInv

LEMMA FlushCallInv ==
  ASSUME TypeOK, IInv, NEW f \in Flushers, FlushCall(f)
  PROVE  IInv'
<1> USE DEF FlushCall, memory, TypeOK
<1>1. Stored' = Stored /\ Clone' = Clone
  BY DEF Stored, Clone
<1>2. \A g \in Flushers : HoldsFlushMu(g)' <=> HoldsFlushMu(g)
  BY DEF HoldsFlushMu
<1>3. (FlushMuIsExclusive /\ MemoryIsAhead)'
  BY <1>1, <1>2 DEF IInv, FlushMuIsExclusive, MemoryIsAhead, Running
<1>4. (CloneInBetween /\ FlushDurable)'
  BY <1>1 DEF IInv, CloneInBetween, FlushDurable
<1>5. InProcess'
  <2>1. Running
    BY DEF MayCall, Running
  <2>2. QED BY <1>2, <2>1 DEF IInv, InProcess, Running
<1>6. CleanIsPersisted'
  BY <1>1, <1>2 DEF IInv, CleanIsPersisted, FlushMuFree, Running
<1>7. QED BY <1>3, <1>4, <1>5, <1>6 DEF IInv

LEMMA FlushRefusedInv ==
  ASSUME TypeOK, IInv, NEW f \in Flushers, FlushRefused(f)
  PROVE  IInv'
<1> USE DEF FlushRefused, memory, TypeOK
<1>1. Stored' = Stored /\ Clone' = Clone
  BY DEF Stored, Clone
<1>2. \A g \in Flushers : HoldsFlushMu(g)' <=> HoldsFlushMu(g)
  BY DEF HoldsFlushMu
<1>3. QED
  BY <1>1, <1>2
     DEF IInv, FlushMuIsExclusive, CloneInBetween, InProcess, MemoryIsAhead,
         CleanIsPersisted, FlushDurable, FlushMuFree, Running

\* The catalog is clean and no write is under way: the bucket has it all.
LEMMA FlushCleanInv ==
  ASSUME TypeOK, IInv, NEW f \in Flushers, FlushClean(f)
  PROVE  IInv'
<1> USE DEF FlushClean, memory, TypeOK
<1>1. Stored' = Stored /\ Clone' = Clone
  BY DEF Stored, Clone
<1>2. \A g \in Flushers : HoldsFlushMu(g)' <=> HoldsFlushMu(g)
  BY DEF HoldsFlushMu
<1>3. (FlushMuIsExclusive /\ CloneInBetween /\ InProcess /\ MemoryIsAhead)'
  BY <1>1, <1>2 DEF IInv, FlushMuIsExclusive, CloneInBetween, InProcess,
                    MemoryIsAhead, Running
<1>4. Clone = Stored
  BY DEF IInv, InProcess, CleanIsPersisted, FlushMuFree, HoldsFlushMu
<1>5. started[f] \subseteq Stored.ops
  BY <1>4 DEF IInv, InProcess, Clone
<1>6. FlushDurable'
  BY <1>1, <1>5 DEF IInv, FlushDurable
<1>7. CleanIsPersisted'
  BY <1>1, <1>2, <1>4 DEF CleanIsPersisted, FlushMuFree
<1>8. QED BY <1>3, <1>6, <1>7 DEF IInv

LEMMA FlushCloneInv ==
  ASSUME TypeOK, IInv, NEW f \in Flushers, FlushClone(f)
  PROVE  IInv'
<1> USE DEF FlushClone, memory, TypeOK
<1>1. Stored' = Stored /\ Clone' = Clone /\ snap'[f] = Clone
  BY DEF Stored, Clone
<1>2. \A g \in Flushers : HoldsFlushMu(g)' <=> g = f
  BY DEF HoldsFlushMu, FlushMuFree
<1>3. Running
  BY DEF IInv, InProcess
<1>4. (FlushMuIsExclusive /\ InProcess /\ MemoryIsAhead /\ FlushDurable)'
  BY <1>1, <1>2, <1>3
     DEF IInv, FlushMuIsExclusive, InProcess, MemoryIsAhead, FlushDurable, Running
<1>5. CloneInBetween'
  <2>1. Stored.ops \subseteq ops /\ started[f] \subseteq ops
    BY <1>3 DEF IInv, InProcess, MemoryIsAhead
  <2>2. \A g \in Flushers : pc'[g] = "put" => g = f
    BY <1>2 DEF HoldsFlushMu
  <2>3. snap'[f].ops = ops
    BY <1>1 DEF Clone
  <2>4. QED BY <1>1, <2>1, <2>2, <2>3 DEF CloneInBetween
<1>6. CleanIsPersisted'
  BY <1>1 DEF CleanIsPersisted
<1>7. QED BY <1>4, <1>5, <1>6 DEF IInv

LEMMA PutMetaOkInv ==
  ASSUME TypeOK, IInv, NEW f \in Flushers, PutMetaOk(f)
  PROVE  IInv'
<1> USE DEF PutMetaOk, memory, TypeOK
<1>1. Stored' = snap[f] /\ Clone' = Clone
  BY DEF Stored, Clone
<1>2. /\ \A g \in Flushers : HoldsFlushMu(g) => g = f
      /\ \A g \in Flushers : ~HoldsFlushMu(g)'
  BY DEF IInv, FlushMuIsExclusive, HoldsFlushMu
<1>3. Running /\ ~loadFailed
  BY DEF IInv, InProcess, HoldsFlushMu
<1>4. (FlushMuIsExclusive /\ InProcess /\ CloneInBetween)'
  BY <1>2, <1>3
     DEF IInv, FlushMuIsExclusive, InProcess, CloneInBetween, Running, HoldsFlushMu
<1>5. (MemoryIsAhead /\ FlushDurable)'
  <2>1. /\ Stored.ops \subseteq snap[f].ops
        /\ started[f] \subseteq snap[f].ops
        /\ snap[f].ops \subseteq ops
    BY DEF IInv, CloneInBetween
  <2>2. \A g \in Flushers : pc'[g] = "ok" => g = f \/ pc[g] = "ok"
    OBVIOUS
  <2>3. QED
    BY <1>1, <2>1, <2>2 DEF IInv, MemoryIsAhead, FlushDurable, Running
<1>6. CleanIsPersisted'
  <2>1. ~dirty => Clone = snap[f]
    BY <1>2, <1>3 DEF IInv, CleanIsPersisted, FlushMuFree, HoldsFlushMu
  <2>2. QED BY <1>1, <1>2, <2>1 DEF CleanIsPersisted, FlushMuFree
<1>7. QED BY <1>4, <1>5, <1>6 DEF IInv

LEMMA PutMetaErrorInv ==
  ASSUME TypeOK, IInv, NEW f \in Flushers, PutMetaError(f)
  PROVE  IInv'
<1> USE DEF PutMetaError, memory, TypeOK
<1>1. Stored' \in {Stored, snap[f]}
  BY DEF Stored
<1>2. \A g \in Flushers : /\ HoldsFlushMu(g) <=> g = f
                         /\ HoldsFlushMu(g)' <=> g = f
  BY DEF IInv, FlushMuIsExclusive, HoldsFlushMu
<1>3. Running /\ ~loadFailed
  BY <1>2 DEF IInv, InProcess
<1>4. (FlushMuIsExclusive /\ InProcess /\ CloneInBetween)'
  BY <1>2, <1>3
     DEF IInv, FlushMuIsExclusive, InProcess, CloneInBetween, Running, HoldsFlushMu
<1>5. (MemoryIsAhead /\ FlushDurable)'
  <2>1. Stored.ops \subseteq snap[f].ops /\ snap[f].ops \subseteq ops
    BY DEF IInv, CloneInBetween
  <2>2. Stored.ops \subseteq Stored'.ops /\ Stored'.ops \subseteq ops
    BY <1>1, <1>3, <2>1 DEF IInv, MemoryIsAhead
  <2>3. QED BY <2>2 DEF IInv, MemoryIsAhead, FlushDurable, Running
<1>6. CleanIsPersisted'
  BY DEF CleanIsPersisted
<1>7. QED BY <1>4, <1>5, <1>6 DEF IInv

LEMMA MarkDirtyInv ==
  ASSUME TypeOK, IInv, NEW f \in Flushers, MarkDirty(f)
  PROVE  IInv'
<1> USE DEF MarkDirty, memory, TypeOK
<1>1. Stored' = Stored
  BY DEF Stored
<1>2. \A g \in Flushers : HoldsFlushMu(g)' => HoldsFlushMu(g)
  BY DEF HoldsFlushMu
<1>3. QED
  BY <1>1, <1>2
     DEF IInv, FlushMuIsExclusive, CloneInBetween, InProcess, MemoryIsAhead,
         CleanIsPersisted, FlushDurable, Running

LEMMA FlushReturnInv ==
  ASSUME TypeOK, IInv, NEW f \in Flushers, FlushReturn(f)
  PROVE  IInv'
<1> USE DEF FlushReturn, memory, TypeOK
<1>1. Stored' = Stored /\ Clone' = Clone
  BY DEF Stored, Clone
<1>2. \A g \in Flushers : HoldsFlushMu(g)' <=> HoldsFlushMu(g)
  BY DEF HoldsFlushMu
<1>3. Running
  BY DEF IInv, InProcess
<1>4. QED
  BY <1>1, <1>2, <1>3
     DEF IInv, FlushMuIsExclusive, CloneInBetween, InProcess, MemoryIsAhead,
         CleanIsPersisted, FlushDurable, FlushMuFree, Running

\* A process starts with what the bucket holds, or with nothing it may write.
LEMMA BootInv ==
  ASSUME TypeOK, IInv, NEW failed, NEW content, Boot(failed, content),
         \/ failed = FALSE /\ content = Stored
         \/ failed = TRUE /\ content = EmptySnapshot
  PROVE  IInv'
<1> USE DEF Boot, NoFlushUnderWay, TypeOK
<1>1. Stored' = Stored
  BY DEF Stored
<1>2. \A g \in Flushers : pc'[g] \in {"idle", "exited"}
  OBVIOUS
<1>3. (FlushMuIsExclusive /\ InProcess /\ CloneInBetween /\ FlushDurable)'
  BY <1>2
     DEF FlushMuIsExclusive, InProcess, CloneInBetween, FlushDurable, Running,
         HoldsFlushMu
<1>4. MemoryIsAhead'
  BY <1>1, EmptyOps DEF IInv, MemoryIsAhead, Running
<1>5. CleanIsPersisted'
  <2>1. failed = FALSE => Clone' = Stored
    BY StoredType DEF Clone, Snapshot
  <2>2. QED
    BY <1>1, <1>2, <2>1 DEF CleanIsPersisted, FlushMuFree, HoldsFlushMu
<1>6. QED BY <1>3, <1>4, <1>5 DEF IInv

LEMMA CrashInv ==
  ASSUME TypeOK, IInv, Crash
  PROVE  IInv'
<1> USE DEF Crash, Down, NoFlushUnderWay, TypeOK
<1>1. Stored'.ops \subseteq 1..nextOp
  <2>1. Stored' = Stored \/ \E f \in Flushers : pc[f] = "put" /\ Stored' = snap[f]
    BY DEF Stored
  <2>2. QED BY <2>1 DEF IInv, CloneInBetween, MemoryIsAhead
<1>2. QED
  BY <1>1
     DEF IInv, FlushMuIsExclusive, InProcess, CloneInBetween, FlushDurable,
         MemoryIsAhead, CleanIsPersisted, Running, HoldsFlushMu

LEMMA IInvStep == TypeOK /\ IInv /\ [Next]_vars => IInv'
<1> SUFFICES ASSUME TypeOK, IInv, [Next]_vars PROVE IInv'
  OBVIOUS
<1>1. CASE Mutation
  BY <1>1, MutationIsMutate, MutateInv
<1>2. ASSUME NEW f \in Flushers, FlushStep(f) PROVE IInv'
  BY <1>2, FlushCallInv, FlushRefusedInv, FlushCleanInv, FlushCloneInv,
     PutMetaOkInv, PutMetaErrorInv, MarkDirtyInv, FlushReturnInv DEF FlushStep, FlushGoesOn
<1>3. CASE LoadOk
  BY <1>3, BootInv, Zenon DEF LoadOk
<1>4. CASE LoadError
  BY <1>4, BootInv, Zenon DEF LoadError
<1>5. CASE Cancel
  BY <1>5
     DEF Cancel, memory, flush, IInv, FlushMuIsExclusive, CloneInBetween,
         InProcess, MemoryIsAhead, CleanIsPersisted, FlushDurable, FlushMuFree,
         HoldsFlushMu, Running, Stored, Clone
<1>6. CASE TickerExit
  <2>1. \A g \in Flushers : HoldsFlushMu(g)' <=> HoldsFlushMu(g)
    BY <1>6 DEF TickerExit, TypeOK, HoldsFlushMu
  <2>2. QED
    BY <1>6, <2>1
       DEF TickerExit, memory, TypeOK, IInv, FlushMuIsExclusive,
           CloneInBetween, InProcess, MemoryIsAhead, CleanIsPersisted,
           FlushDurable, FlushMuFree, Running, Stored, Clone
<1>7. CASE Crash
  BY <1>7, CrashInv
<1>8. CASE UNCHANGED vars
  BY <1>8
     DEF vars, IInv, FlushMuIsExclusive, CloneInBetween, InProcess,
         MemoryIsAhead, CleanIsPersisted, FlushDurable, FlushMuFree,
         HoldsFlushMu, Running, Stored, Clone
<1>9. QED BY <1>1, <1>2, <1>3, <1>4, <1>5, <1>6, <1>7, <1>8 DEF Next

\* The inductive invariant holds: what the bucket, a clone under way and the
\* memory hold always contain each other in this order.
THEOREM Invariance == Spec => []IInv
<1>1. TypeOK /\ IInv /\ [Next]_vars => (TypeOK /\ IInv)'
  BY TypeStep, IInvStep
<1>2. QED BY <1>1, TypeInit, IInvInit, PTL DEF Spec

\* A Flush that returned nil has made durable all that preceded its call, for
\* any number of concurrent callers, failing writes and crashes (the reason
\* for flushMu, and for clearing dirty before the write).
THEOREM FlushIsDurable == Spec => []FlushDurable
<1>1. IInv => FlushDurable
  BY DEF IInv
<1>2. QED BY <1>1, Invariance, PTL

\* A clean catalog is in the bucket or on its way there, so that the flushes
\* that are skipped lose nothing.
THEOREM CleanCatalogIsPersisted == Spec => []CleanIsPersisted
<1>1. IInv => CleanIsPersisted
  BY DEF IInv
<1>2. QED BY <1>1, Invariance, PTL

----
(* The bucket only moves forward.                                          *)

LEMMA ForwardStep ==
  ASSUME TypeOK, IInv, [Next]_vars
  PROVE  Stored.ops \subseteq Stored'.ops
<1>1. CASE UNCHANGED bucket
  BY <1>1 DEF Stored
<1>2. CASE \E f \in Flushers : pc[f] = "put" /\ bucket' = snap[f]
  <2>1. PICK f \in Flushers : pc[f] = "put" /\ bucket' = snap[f]
    BY <1>2
  <2>2. Stored' = snap[f]
    BY <2>1 DEF Stored, TypeOK
  <2>3. QED BY <2>1, <2>2 DEF IInv, CloneInBetween
<1>3. \/ UNCHANGED bucket
      \/ \E f \in Flushers : pc[f] = "put" /\ bucket' = snap[f]
  <2>1. CASE Mutation
    BY <2>1, MutationIsMutate DEF Mutate
  <2>2. ASSUME NEW f \in Flushers, FlushStep(f)
        PROVE  UNCHANGED bucket \/ (pc[f] = "put" /\ bucket' = snap[f])
    BY <2>2 DEF FlushStep, FlushGoesOn, FlushCall, FlushRefused, FlushClean, FlushClone,
                PutMetaOk, PutMetaError, MarkDirty, FlushReturn
  <2>3. CASE LoadOk \/ LoadError
    BY <2>3 DEF LoadOk, LoadError, Boot
  <2>4. CASE Cancel \/ TickerExit \/ Crash \/ UNCHANGED vars
    BY <2>4 DEF Cancel, TickerExit, Crash, vars
  <2>5. QED BY <2>1, <2>2, <2>3, <2>4 DEF Next
<1>4. QED BY <1>1, <1>2, <1>3

\* No step puts a snapshot over one that has a mutation it lacks.
THEOREM BucketForgetsNothing == Spec => NothingForgotten
<1>1. TypeOK /\ IInv /\ [Next]_vars => [Stored.ops \subseteq Stored'.ops]_vars
  BY ForwardStep
<1>2. QED BY <1>1, TypeCorrect, Invariance, PTL DEF Spec, NothingForgotten

----
(* The catalog implements the write-behind store.                          *)

LEMMA PromiseInit == Init => Promise!Init
BY EmptyOps
   DEF Init, Promise!Init, Volatile, Running, Stored, StatusOf, PromisedTo

\* A mutator is an Apply, or nothing when the load had failed.
LEMMA MutateSimulates ==
  ASSUME TypeOK, IInv, NEW e, NEW s, Mutate(e, s)
  PROVE  Promise!Apply \/ UNCHANGED Promise!vars
<1> USE DEF Mutate, flush
<1>1. Stored' = Stored
  BY DEF Stored
<1>2. /\ \A f \in Flushers : StatusOf(f)' = StatusOf(f)
      /\ \A f \in Flushers : PromisedTo(f)' = PromisedTo(f)
  BY <1>1 DEF StatusOf, PromisedTo
<1>3. CASE loadFailed
  BY <1>1, <1>2, <1>3 DEF Promise!vars, Volatile
<1>4. CASE ~loadFailed
  <2>1. Volatile = ops /\ Volatile' = ops \cup {nextOp + 1}
    BY <1>4 DEF Volatile, Running
  <2>2. nextOp + 1 \in (1..MaxOps) \ ops
    BY DEF IInv, MemoryIsAhead, TypeOK
  <2>3. QED BY <1>1, <1>2, <2>1, <2>2 DEF Promise!Apply
<1>5. QED BY <1>3, <1>4

\* The bucket is behind the volatile store.
LEMMA WriteIsBehind == TypeOK /\ IInv => Stored.ops \subseteq Volatile
BY DEF IInv, MemoryIsAhead, Volatile

LEMMA CallSimulates ==
  ASSUME TypeOK, IInv, NEW f \in Flushers, FlushCall(f)
  PROVE  Promise!Call(f)
<1> USE DEF FlushCall, memory, TypeOK
<1>1. Stored' = Stored /\ Volatile' = Volatile /\ Running
  BY DEF Stored, Volatile, Running, MayCall
<1>2. StatusOf(f) = "idle" /\ StatusOf(f)' = "called" /\ PromisedTo(f)' = Volatile
  BY <1>1 DEF StatusOf, PromisedTo, Volatile
<1>3. \A g \in Flushers \ {f} :
        StatusOf(g)' = StatusOf(g) /\ PromisedTo(g)' = PromisedTo(g)
  BY <1>1 DEF StatusOf, PromisedTo
<1>4. QED BY <1>1, <1>2, <1>3 DEF Promise!Call

LEMMA FailSimulates ==
  ASSUME TypeOK, IInv, NEW f \in Flushers, FlushRefused(f) \/ MarkDirty(f)
  PROVE  Promise!Fail(f)
<1> USE DEF FlushRefused, MarkDirty, memory, TypeOK
<1>1. Stored' = Stored /\ Volatile' = Volatile
  BY DEF Stored, Volatile, Running
<1>2. StatusOf(f) = "called" /\ StatusOf(f)' = "err"
  BY DEF StatusOf
<1>3. /\ \A g \in Flushers \ {f} : StatusOf(g)' = StatusOf(g)
      /\ \A g \in Flushers : PromisedTo(g)' = PromisedTo(g)
  BY <1>1 DEF StatusOf, PromisedTo
<1>4. QED BY <1>1, <1>2, <1>3 DEF Promise!Fail

LEMMA SucceedSimulates ==
  ASSUME TypeOK, IInv, [Next]_vars, NEW f \in Flushers,
         FlushClean(f) \/ PutMetaOk(f)
  PROVE  Promise!Succeed(f)
<1> USE DEF FlushClean, PutMetaOk, memory, TypeOK
<1>1. Volatile' = Volatile /\ Volatile = ops /\ ~loadFailed
  BY DEF Stored, Volatile, Running, IInv, InProcess, HoldsFlushMu
<1>2. StatusOf(f) = "called" /\ StatusOf(f)' = "ok"
  BY DEF StatusOf
<1>3. /\ \A g \in Flushers \ {f} : StatusOf(g)' = StatusOf(g)
      /\ \A g \in Flushers : PromisedTo(g)' = PromisedTo(g) /\ PromisedTo(g) = started[g]
  BY <1>1 DEF StatusOf, PromisedTo, IInv, InProcess
<1>4. started[f] \subseteq Stored'.ops
  <2>1. FlushDurable'
    BY IInvStep DEF IInv
  <2>2. QED BY <2>1 DEF FlushDurable
<1>5. Stored.ops \subseteq Stored'.ops /\ Stored'.ops \subseteq Volatile
  BY <1>1, IInvStep, TypeStep, WriteIsBehind, ForwardStep
     DEF IInv, MemoryIsAhead, Running, InProcess
<1>6. QED
  BY <1>1, <1>2, <1>3, <1>4, <1>5 DEF Promise!Succeed, Promise!Write

LEMMA BackgroundSimulates ==
  ASSUME TypeOK, IInv, [Next]_vars, NEW f \in Flushers, PutMetaError(f)
  PROVE  Promise!Background
<1> USE DEF PutMetaError, memory, TypeOK
<1>1. Volatile' = Volatile /\ Volatile = ops /\ ~loadFailed
  BY DEF Stored, Volatile, Running, IInv, InProcess, HoldsFlushMu
<1>2. \A g \in Flushers : StatusOf(g)' = StatusOf(g) /\ PromisedTo(g)' = PromisedTo(g)
  BY <1>1 DEF StatusOf, PromisedTo, IInv, InProcess
<1>3. Stored.ops \subseteq Stored'.ops /\ Stored'.ops \subseteq Volatile
  BY <1>1, IInvStep, ForwardStep DEF IInv, MemoryIsAhead, Running, InProcess
<1>4. QED BY <1>1, <1>2, <1>3 DEF Promise!Background, Promise!Write

LEMMA ReturnSimulates ==
  ASSUME TypeOK, IInv, NEW f \in Flushers, FlushReturn(f)
  PROVE  Promise!Return(f)
<1> USE DEF FlushReturn, memory, TypeOK
<1>1. Stored' = Stored /\ Volatile' = Volatile
  BY DEF Stored, Volatile, Running
<1>2. /\ StatusOf(f) \in {"ok", "err"}
      /\ StatusOf(f)' = "idle"
      /\ PromisedTo(f)' = {}
  BY DEF StatusOf, PromisedTo
<1>3. \A g \in Flushers \ {f} :
        StatusOf(g)' = StatusOf(g) /\ PromisedTo(g)' = PromisedTo(g)
  BY <1>1 DEF StatusOf, PromisedTo
<1>4. QED BY <1>1, <1>2, <1>3 DEF Promise!Return

LEMMA LoseSimulates ==
  ASSUME TypeOK, IInv, [Next]_vars, Crash
  PROVE  Promise!Lose
<1> USE DEF Crash, Down, NoFlushUnderWay, TypeOK
<1>1. Volatile' = Stored'.ops
  BY DEF Volatile, Running
<1>2. \A g \in Flushers : StatusOf(g)' = "idle" /\ PromisedTo(g)' = {}
  BY DEF StatusOf, PromisedTo
<1>3. Stored'.ops \subseteq Volatile
  <2>1. CASE UNCHANGED bucket
    BY <2>1, WriteIsBehind DEF Stored
  <2>2. CASE \E f \in Flushers : pc[f] = "put" /\ bucket' = snap[f]
    <3>1. PICK f \in Flushers : pc[f] = "put" /\ bucket' = snap[f]
      BY <2>2
    <3>2. Stored' = snap[f]
      BY <3>1 DEF Stored
    <3>3. Running /\ ~loadFailed
      BY <3>1 DEF IInv, InProcess, HoldsFlushMu
    <3>4. QED BY <3>1, <3>2, <3>3 DEF IInv, CloneInBetween, Volatile
  <2>3. QED BY <2>1, <2>2
<1>4. QED
  BY <1>1, <1>2, <1>3, ForwardStep DEF Promise!Lose, Promise!Write

LEMMA StutterSimulates ==
  ASSUME TypeOK, IInv,
         \/ \E f \in Flushers : FlushClone(f)
         \/ LoadOk \/ LoadError \/ Cancel \/ TickerExit \/ UNCHANGED vars
  PROVE  UNCHANGED Promise!vars
<1>1. SUFFICES /\ UNCHANGED <<Volatile, Stored.ops>>
               /\ \A g \in Flushers : UNCHANGED <<StatusOf(g), PromisedTo(g)>>
  BY DEF Promise!vars
<1> USE DEF TypeOK
<1>2. CASE \E f \in Flushers : FlushClone(f)
  BY <1>2 DEF FlushClone, memory, Volatile, Stored, Running, StatusOf, PromisedTo
<1>3. CASE LoadOk \/ LoadError
  <2>1. /\ Stored' = Stored
        /\ ~Running
        /\ loadFailed' \/ ops' = Stored.ops
    BY <1>3 DEF LoadOk, LoadError, Boot, Stored, Running
  <2>2. Volatile = Stored.ops /\ Volatile' = Stored.ops
    BY <2>1 DEF Volatile
  <2>3. \A g \in Flushers : /\ pc[g] = "exited" /\ started[g] = {}
                           /\ pc'[g] \in {"idle", "exited"} /\ started'[g] = {}
    BY <1>3, <2>1
       DEF LoadOk, LoadError, Boot, NoFlushUnderWay, IInv, InProcess
  <2>4. QED BY <2>1, <2>2, <2>3 DEF StatusOf, PromisedTo
<1>4. CASE Cancel \/ UNCHANGED vars
  BY <1>4 DEF Cancel, vars, memory, flush, Volatile, Stored, Running,
              StatusOf, PromisedTo
<1>5. CASE TickerExit
  BY <1>5 DEF TickerExit, memory, Volatile, Stored, Running, StatusOf, PromisedTo
<1>6. QED BY <1>2, <1>3, <1>4, <1>5

LEMMA PromiseStep == TypeOK /\ IInv /\ [Next]_vars => [Promise!Next]_(Promise!vars)
<1> SUFFICES ASSUME TypeOK, IInv, [Next]_vars
             PROVE  Promise!Next \/ UNCHANGED Promise!vars
  OBVIOUS
<1>1. CASE Mutation
  BY <1>1, MutationIsMutate, MutateSimulates DEF Promise!Next
<1>2. ASSUME NEW f \in Flushers, FlushStep(f)
      PROVE  Promise!Next \/ UNCHANGED Promise!vars
  <2>1. CASE FlushCall(f)
    BY <2>1, CallSimulates DEF Promise!Next
  <2>2. CASE FlushRefused(f) \/ MarkDirty(f)
    BY <2>2, FailSimulates DEF Promise!Next
  <2>3. CASE FlushClean(f) \/ PutMetaOk(f)
    BY <2>3, SucceedSimulates DEF Promise!Next
  <2>4. CASE FlushClone(f)
    BY <2>4, StutterSimulates
  <2>5. CASE PutMetaError(f)
    BY <2>5, BackgroundSimulates DEF Promise!Next
  <2>6. CASE FlushReturn(f)
    BY <2>6, ReturnSimulates DEF Promise!Next
  <2>7. QED BY <1>2, <2>1, <2>2, <2>3, <2>4, <2>5, <2>6 DEF FlushStep, FlushGoesOn
<1>3. CASE Crash
  BY <1>3, LoseSimulates DEF Promise!Next
<1>4. CASE LoadOk \/ LoadError \/ Cancel \/ TickerExit \/ UNCHANGED vars
  BY <1>4, StutterSimulates
<1>5. QED BY <1>1, <1>2, <1>3, <1>4 DEF Next

\* The in-memory catalog with its snapshot implements the write-behind store:
\* every step of it is one of the store's, or invisible to the callers.
THEOREM CatalogIsWriteBehind == Spec => ImplementsWriteBehind
BY PromiseInit, PromiseStep, TypeCorrect, Invariance, PTL
   DEF ImplementsWriteBehind, Promise!Spec, Spec

----
(* What the mutators leave of an entry.                                    *)

\* What EntriesKeepHistory says of one entry before and after a step.
KeepsHistory(e, f) ==
  e # NoEntry /\ f # NoEntry =>
    /\ f.createdAt = e.createdAt
    /\ f.hits >= e.hits
    /\ f.kind = NoKind => e.kind = NoKind

DownIsEmpty == phase = "down" => entries = EmptyEntries

LEMMA SameKeepsHistory ==
  ASSUME NEW e \in Entry \cup {NoEntry}
  PROVE  KeepsHistory(e, e)
BY DEF KeepsHistory, Entry

LEMMA UpsertedKeepsHistory ==
  ASSUME NEW e \in Entry \cup {NoEntry}, NEW size \in Size, NEW at \in Day,
         NEW info \in Info
  PROVE  KeepsHistory(e, Upserted(e, size, at, info))
BY DEF KeepsHistory, Upserted, Entry, MergeInfo, Info

LEMMA HitKeepsHistory ==
  ASSUME NEW e \in Entry \cup {NoEntry}, NEW at \in Day
  PROVE  KeepsHistory(e, Hit(e, at))
BY DEF KeepsHistory, Hit, Entry, Info

LEMMA MutationKeepsHistory ==
  ASSUME TypeOK, Mutation, NEW g \in Hash
  PROVE  KeepsHistory(entries[g], entries'[g])
<1>1. entries \in [Hash -> Entry \cup {NoEntry}] /\ entries[g] \in Entry \cup {NoEntry}
  BY DEF TypeOK, Entries
<1>2. KeepsHistory(entries[g], entries[g])
  BY <1>1, SameKeepsHistory
<1>3. ASSUME NEW h \in Hash, NEW at \in Day, NEW size \in Size, NEW info \in Info,
             UpsertEntry(h, size, at, info)
      PROVE  KeepsHistory(entries[g], entries'[g])
  <2>1. entries' = [entries EXCEPT ![h] = Upserted(@, size, at, info)]
    BY <1>3 DEF UpsertEntry, Mutate
  <2>2. KeepsHistory(entries[g], Upserted(entries[g], size, at, info))
    BY <1>1, UpsertedKeepsHistory
  <2>3. QED BY <1>1, <1>2, <2>1, <2>2
<1>4. ASSUME NEW h \in Hash, NEW at \in Day, RecordHit(h, at)
      PROVE  KeepsHistory(entries[g], entries'[g])
  <2>1. entries' = [entries EXCEPT ![h] = Hit(@, at)]
    BY <1>4 DEF RecordHit, Mutate
  <2>2. KeepsHistory(entries[g], Hit(entries[g], at))
    BY <1>1, HitKeepsHistory
  <2>3. QED BY <1>1, <1>2, <2>1, <2>2
<1>5. ASSUME NEW h \in Hash, NEW at \in Day, NEW size \in Size, EnsureEntry(h, size, at)
      PROVE  KeepsHistory(entries[g], entries'[g])
  <2>1. CASE entries[h] = NoEntry
    BY <1>1, <1>2, <1>5, <2>1 DEF EnsureEntry, Mutate, KeepsHistory
  <2>2. CASE entries[h] # NoEntry
    BY <1>1, <1>2, <1>5, <2>2 DEF EnsureEntry, Mutate, KeepsHistory, Entry
  <2>3. QED BY <2>1, <2>2
<1>6. ASSUME NEW at \in Day, RecordMiss(at)
      PROVE  KeepsHistory(entries[g], entries'[g])
  BY <1>2, <1>6 DEF RecordMiss, Mutate
<1>7. ASSUME NEW hs \in SUBSET Hash, Delete(hs)
      PROVE  KeepsHistory(entries[g], entries'[g])
  BY <1>2, <1>7 DEF Delete, Mutate, KeepsHistory
<1>8. ASSUME NEW h \in Hash, NEW info \in Info, UpdateTaskInfo(h, info)
      PROVE  KeepsHistory(entries[g], entries'[g])
  BY <1>1, <1>2, <1>8 DEF UpdateTaskInfo, Mutate, KeepsHistory, Entry, MergeInfo, Info
<1>9. QED BY <1>3, <1>4, <1>5, <1>6, <1>7, <1>8 DEF Mutation

LEMMA DownStep == DownIsEmpty /\ [Next]_vars => DownIsEmpty'
BY DEF DownIsEmpty, Next, Mutation, UpsertEntry, RecordHit, EnsureEntry, RecordMiss, Delete,
       UpdateTaskInfo, Mutate, FlushStep, FlushCall, FlushGoesOn, FlushRefused, FlushClean,
       FlushClone, PutMetaOk, PutMetaError, MarkDirty, FlushReturn, LoadOk, LoadError, Boot,
       Cancel, TickerExit, Crash, Down, Running, EmptyEntries, memory, vars

LEMMA HistoryStep ==
  ASSUME TypeOK, DownIsEmpty, [Next]_vars, NEW h \in Hash
  PROVE  KeepsHistory(entries[h], entries'[h])
<1>1. entries[h] \in Entry \cup {NoEntry}
  BY DEF TypeOK, Entries
<1>2. CASE entries' = entries
  BY <1>1, <1>2, SameKeepsHistory
<1>3. CASE Mutation
  BY <1>3, MutationKeepsHistory
<1>4. CASE LoadOk \/ LoadError
  BY <1>4 DEF LoadOk, LoadError, Boot, DownIsEmpty, EmptyEntries, KeepsHistory
<1>5. CASE Crash
  BY <1>5 DEF Crash, Down, EmptyEntries, KeepsHistory
<1>6. CASE Cancel \/ TickerExit \/ (\E f \in Flushers : FlushStep(f)) \/ UNCHANGED vars
  BY <1>2, <1>6 DEF Cancel, TickerExit, FlushStep, FlushCall, FlushGoesOn, FlushRefused,
       FlushClean, FlushClone, PutMetaOk, PutMetaError, MarkDirty, FlushReturn, memory, vars
<1>7. QED BY <1>3, <1>4, <1>5, <1>6 DEF Next

\* While an entry stays in the catalog it keeps its creation time, its hits and
\* its classification, whichever of the six mutators run (object.go).
THEOREM EntriesRemember == Spec => EntriesKeepHistory
<1>1. Init => DownIsEmpty
  BY DEF Init, DownIsEmpty
<1>2. TypeOK /\ DownIsEmpty /\ [Next]_vars =>
        \A h \in Hash : KeepsHistory(entries[h], entries'[h])
  BY HistoryStep
<1>3. (\A h \in Hash : KeepsHistory(entries[h], entries'[h])) =>
        [\A h \in Hash :
           entries[h] # NoEntry /\ entries'[h] # NoEntry =>
             /\ entries'[h].createdAt = entries[h].createdAt
             /\ entries'[h].hits >= entries[h].hits
             /\ entries'[h].kind = NoKind => entries[h].kind = NoKind]_vars
  BY DEF KeepsHistory
<1>4. QED BY <1>1, <1>2, <1>3, DownStep, TypeCorrect, PTL DEF Spec, EntriesKeepHistory

----
(* The counters agree.                                                     *)

\* A flush, a load or the end of a process makes no snapshot of its own: what
\* it leaves is one that was there, or the empty one.
LEMMA NothingNewHeld ==
  ASSUME TypeOK, [Next]_vars, ~Mutation
  PROVE  Held' \subseteq Held \cup {EmptySnapshot}
<1>0. \A content \in Snapshot :
        content = [entries |-> content.entries, stats |-> content.stats, ops |-> content.ops]
  BY DEF Snapshot
<1>1. \A f \in Flushers : snap[f] \in Snapshot /\ snap[f] # NoSnapshot
  BY DEF TypeOK
<1>2. CASE UNCHANGED <<entries, stats, ops, snap, bucket>>
  BY <1>2 DEF Held, Clone, Stored
<1>3. ASSUME NEW f \in Flushers, FlushClone(f)
      PROVE  Held' \subseteq Held \cup {EmptySnapshot}
  <2>1. Clone' = Clone /\ Stored' = Stored
    BY <1>3 DEF FlushClone, memory, Clone, Stored
  <2>2. \A g \in Flushers : snap'[g] \in {snap[g], Clone}
    BY <1>3 DEF FlushClone, TypeOK
  <2>3. QED BY <2>1, <2>2 DEF Held
<1>4. ASSUME NEW f \in Flushers, PutMetaOk(f) \/ PutMetaError(f)
      PROVE  Held' \subseteq Held \cup {EmptySnapshot}
  <2>1. Clone' = Clone
    BY <1>4 DEF PutMetaOk, PutMetaError, memory, Clone
  <2>2. bucket' = bucket \/ bucket' = snap[f]
    BY <1>4 DEF PutMetaOk, PutMetaError
  <2>3. Stored' \in {Stored, snap[f]}
    BY <1>1, <2>2 DEF Stored
  <2>4. \A g \in Flushers : snap'[g] \in {snap[g], EmptySnapshot}
    BY <1>4 DEF PutMetaOk, PutMetaError, TypeOK
  <2>5. QED BY <2>1, <2>3, <2>4 DEF Held
<1>5. ASSUME NEW failed, NEW content \in {Stored, EmptySnapshot}, Boot(failed, content)
      PROVE  Held' \subseteq Held \cup {EmptySnapshot}
  <2>1. content \in Snapshot
    BY StoredType, EmptySnapshotType
  <2>2. Clone' = content
    BY <1>0, <1>5, <2>1 DEF Boot, Clone
  <2>3. Stored' = Stored
    BY <1>5 DEF Boot, Stored
  <2>4. \A g \in Flushers : snap'[g] = EmptySnapshot
    BY <1>5 DEF Boot, NoFlushUnderWay
  <2>5. QED BY <2>2, <2>3, <2>4 DEF Held
<1>6. CASE Crash
  <2>1. Clone' = EmptySnapshot
    BY <1>6 DEF Crash, Down, Clone, EmptySnapshot
  <2>2. Stored' = Stored \/ \E f \in Flushers : Stored' = snap[f]
    BY <1>1, <1>6 DEF Crash, Stored
  <2>3. \A g \in Flushers : snap'[g] = EmptySnapshot
    BY <1>6 DEF Crash, Down, NoFlushUnderWay
  <2>4. QED BY <2>1, <2>2, <2>3 DEF Held
<1>7. QED
  BY <1>2, <1>3, <1>4, <1>5, <1>6 DEF Next, FlushStep, FlushGoesOn, FlushCall, FlushRefused,
     FlushClean, MarkDirty, FlushReturn, LoadOk, LoadError, Cancel, TickerExit, memory, flush, vars

\* The sums Agree is about are sums of natural numbers.
DayCounts(s, c) == [d \in Day |-> s.stats.days[d][c]]
AllHits(s) == [h \in Hash |-> HitsOf(s, h)]

LEMMA SummandsType ==
  ASSUME NEW s \in Snapshot
  PROVE  /\ \A c \in Counter : DayCounts(s, c) \in [Day -> Nat]
         /\ AllHits(s) \in [Hash -> Nat]
         /\ \A c \in Counter : s.stats.total[c] \in Nat
<1>1. /\ s.stats.days \in [Day -> [Counter -> Nat]]
      /\ s.stats.total \in [Counter -> Nat]
      /\ s.entries \in [Hash -> Entry \cup {NoEntry}]
  BY DEF Snapshot, Stats, Entries
<1>2. ASSUME NEW h \in Hash PROVE HitsOf(s, h) \in Nat
  BY <1>1 DEF HitsOf, Entry
<1>3. QED BY <1>1, <1>2 DEF DayCounts, AllHits

LEMMA AgreeIs ==
  ASSUME NEW s
  PROVE  Agree(s) <=> /\ \A c \in Counter : s.stats.total[c] = SumFunction(DayCounts(s, c))
                      /\ SumFunction(AllHits(s)) <= s.stats.total["hits"]
BY DEF Agree, DayCounts, AllHits

LEMMA EmptyAgrees == Agree(EmptySnapshot)
<1>1. \A c \in Counter : EmptySnapshot.stats.total[c] = 0
  BY DEF EmptySnapshot, EmptyStats, ZeroCounters
<1>2. \A c \in Counter : DayCounts(EmptySnapshot, c) = [d \in Day |-> 0]
  BY DEF DayCounts, EmptySnapshot, EmptyStats, ZeroCounters
<1>3. AllHits(EmptySnapshot) = [h \in Hash |-> 0]
  BY DEF AllHits, HitsOf, EmptySnapshot, EmptyEntries
<1>4. SumFunction([d \in Day |-> 0]) = 0 /\ SumFunction([h \in Hash |-> 0]) = 0
  BY SumOfZeros
<1>5. \A c \in Counter : EmptySnapshot.stats.total[c] = SumFunction(DayCounts(EmptySnapshot, c))
  BY <1>1, <1>2, <1>4
<1>6. SumFunction(AllHits(EmptySnapshot)) <= EmptySnapshot.stats.total["hits"]
  BY <1>1, <1>3, <1>4 DEF Counter
<1>7. QED BY <1>5, <1>6, AgreeIs

\* bumpLocked adds one to the total and to one day.
LEMMA BumpAgrees ==
  ASSUME NEW s \in Snapshot, NEW t \in Snapshot, NEW c \in Counter, NEW at \in Day,
         t.stats = BumpLocked(s.stats, c, at),
         \A k \in Counter : s.stats.total[k] = SumFunction(DayCounts(s, k))
  PROVE  /\ \A k \in Counter : t.stats.total[k] = SumFunction(DayCounts(t, k))
         /\ \A k \in Counter : t.stats.total[k] = s.stats.total[k] + IF k = c THEN 1 ELSE 0
<1>1. s.stats.total \in [Counter -> Nat] /\ s.stats.days \in [Day -> [Counter -> Nat]]
  BY DEF Snapshot, Stats
<1>2. /\ t.stats.total = [s.stats.total EXCEPT ![c] = @ + 1]
      /\ t.stats.days = [s.stats.days EXCEPT ![at][c] = @ + 1]
  BY DEF BumpLocked
<1>3. ASSUME NEW k \in Counter
      PROVE  /\ t.stats.total[k] = SumFunction(DayCounts(t, k))
             /\ t.stats.total[k] = s.stats.total[k] + IF k = c THEN 1 ELSE 0
  <2>1. CASE k = c
    <3>1. t.stats.total[k] = s.stats.total[k] + 1
      BY <1>1, <1>2, <2>1
    <3>2. /\ DayCounts(t, k)[at] = DayCounts(s, k)[at] + 1
          /\ \A d \in Day : d # at => DayCounts(t, k)[d] = DayCounts(s, k)[d]
      BY <1>1, <1>2, <2>1 DEF DayCounts
    <3>3. /\ DayCounts(s, k) \in [Day -> Nat] /\ DayCounts(t, k) \in [Day -> Nat]
          /\ SumFunction(DayCounts(s, k)) \in Nat
      BY SummandsType, SumType
    <3>4. SumFunction(DayCounts(t, k)) =
            SumFunction(DayCounts(s, k)) + (DayCounts(t, k)[at] - DayCounts(s, k)[at])
      BY <3>2, <3>3, SumChanges
    <3>5. DayCounts(s, k)[at] \in Nat
      BY <3>3
    <3>6. SumFunction(DayCounts(t, k)) = SumFunction(DayCounts(s, k)) + 1
      BY <3>2, <3>3, <3>4, <3>5
    <3>7. QED BY <2>1, <3>1, <3>6
  <2>2. CASE k # c
    <3>1. t.stats.total[k] = s.stats.total[k]
      BY <1>1, <1>2, <2>2
    <3>2. \A d \in Day : t.stats.days[d][k] = s.stats.days[d][k]
      BY <1>1, <1>2, <2>2
    <3>3. DayCounts(t, k) = DayCounts(s, k)
      BY <3>2 DEF DayCounts
    <3>4. s.stats.total[k] \in Nat
      BY <1>1
    <3>5. QED BY <2>2, <3>1, <3>3, <3>4
  <2>3. QED BY <2>1, <2>2
<1>4. QED BY <1>3

\* Counts that do not change agree with entries that gain no hits.
LEMMA SameStatsAgree ==
  ASSUME NEW s \in Snapshot, NEW t \in Snapshot, Agree(s), t.stats = s.stats,
         \A h \in Hash : HitsOf(t, h) <= HitsOf(s, h)
  PROVE  Agree(t)
<1>1. \A c \in Counter : DayCounts(t, c) = DayCounts(s, c)
  BY DEF DayCounts
<1>2. SumFunction(AllHits(t)) <= SumFunction(AllHits(s))
  <2>1. \A h \in Hash : AllHits(t)[h] <= AllHits(s)[h]
    BY DEF AllHits
  <2>2. AllHits(t) \in [Hash -> Nat] /\ AllHits(s) \in [Hash -> Nat]
    BY SummandsType
  <2>3. QED BY <2>1, <2>2, SumIsMonotonic
<1>3. /\ SumFunction(AllHits(t)) \in Nat /\ SumFunction(AllHits(s)) \in Nat
      /\ s.stats.total["hits"] \in Nat
  BY SummandsType, SumType DEF Counter
<1>4. QED BY <1>1, <1>2, <1>3, AgreeIs

\* A bump keeps the counts in agreement; a bump of the hits makes room for one
\* more hit.
LEMMA BumpedStatsAgree ==
  ASSUME NEW s \in Snapshot, NEW t \in Snapshot, Agree(s),
         NEW c \in Counter, NEW at \in Day, t.stats = BumpLocked(s.stats, c, at),
         NEW g \in Hash, c = "hits" => HitsOf(t, g) <= HitsOf(s, g) + 1,
         c # "hits" => HitsOf(t, g) <= HitsOf(s, g),
         \A h \in Hash : h # g => HitsOf(t, h) = HitsOf(s, h)
  PROVE  Agree(t)
<1>1. /\ \A k \in Counter : t.stats.total[k] = SumFunction(DayCounts(t, k))
      /\ t.stats.total["hits"] = s.stats.total["hits"] + IF "hits" = c THEN 1 ELSE 0
  BY BumpAgrees, AgreeIs DEF Counter
<1>2. AllHits(t) \in [Hash -> Nat] /\ AllHits(s) \in [Hash -> Nat]
  BY SummandsType
<1>3. SumFunction(AllHits(t)) = SumFunction(AllHits(s)) + (HitsOf(t, g) - HitsOf(s, g))
  <2>1. \A h \in Hash : h # g => AllHits(t)[h] = AllHits(s)[h]
    BY DEF AllHits
  <2>2. AllHits(t)[g] = HitsOf(t, g) /\ AllHits(s)[g] = HitsOf(s, g)
    BY DEF AllHits
  <2>3. QED BY <1>2, <2>1, <2>2, SumChanges
<1>4. /\ SumFunction(AllHits(t)) \in Nat /\ SumFunction(AllHits(s)) \in Nat
      /\ s.stats.total["hits"] \in Nat
  BY SummandsType, SumType DEF Counter
<1>5. HitsOf(t, g) \in Nat /\ HitsOf(s, g) \in Nat
  BY <1>2 DEF AllHits
<1>6. SumFunction(AllHits(s)) <= s.stats.total["hits"]
  BY AgreeIs
<1>7. SumFunction(AllHits(t)) <= t.stats.total["hits"]
  <2>1. CASE c = "hits"
    BY <1>1, <1>3, <1>4, <1>5, <1>6, <2>1
  <2>2. CASE c # "hits"
    BY <1>1, <1>3, <1>4, <1>5, <1>6, <2>2
  <2>3. QED BY <2>1, <2>2
<1>8. QED BY <1>1, <1>7, AgreeIs

LEMMA MissAgrees ==
  ASSUME NEW s \in Snapshot, NEW t \in Snapshot, Agree(s), NEW at \in Day,
         t.stats = BumpLocked(s.stats, "misses", at), t.entries = s.entries
  PROVE  Agree(t)
<1>1. /\ \A k \in Counter : t.stats.total[k] = SumFunction(DayCounts(t, k))
      /\ t.stats.total["hits"] = s.stats.total["hits"] + IF "hits" = "misses" THEN 1 ELSE 0
  BY BumpAgrees, AgreeIs DEF Counter
<1>2. AllHits(t) = AllHits(s)
  BY DEF AllHits, HitsOf
<1>3. s.stats.total["hits"] \in Nat
  BY SummandsType DEF Counter
<1>4. QED BY <1>1, <1>2, <1>3, AgreeIs

LEMMA MutationAgrees ==
  ASSUME TypeOK, TypeOK', Mutation, Agree(Clone)
  PROVE  Agree(Clone')
<1>1. Clone \in Snapshot /\ Clone' \in Snapshot
  BY CloneType DEF TypeOK, Clone, Snapshot
<1>2. /\ Clone.stats = stats /\ Clone.entries = entries
      /\ Clone'.stats = stats' /\ Clone'.entries = entries'
  BY DEF Clone
<1>3. entries \in [Hash -> Entry \cup {NoEntry}]
  BY DEF TypeOK, Entries
<1>4. ASSUME NEW h \in Hash, NEW at \in Day, NEW size \in Size, NEW info \in Info,
             UpsertEntry(h, size, at, info)
      PROVE  Agree(Clone')
  <2>1. entries' = [entries EXCEPT ![h] = Upserted(@, size, at, info)]
    BY <1>4 DEF UpsertEntry, Mutate
  <2>2. stats' = BumpLocked(stats, "stores", at)
    BY <1>4 DEF UpsertEntry, Mutate
  <2>3. HitsOf(Clone', h) <= HitsOf(Clone, h)
    BY <1>2, <1>3, <2>1 DEF HitsOf, Upserted, Entry
  <2>4. \A g \in Hash : g # h => HitsOf(Clone', g) = HitsOf(Clone, g)
    BY <1>2, <1>3, <2>1 DEF HitsOf
  <2>5. QED BY <1>1, <1>2, <2>2, <2>3, <2>4, BumpedStatsAgree DEF Counter
<1>5. ASSUME NEW h \in Hash, NEW at \in Day, RecordHit(h, at)
      PROVE  Agree(Clone')
  <2>1. entries' = [entries EXCEPT ![h] = Hit(@, at)]
    BY <1>5 DEF RecordHit, Mutate
  <2>2. stats' = BumpLocked(stats, "hits", at)
    BY <1>5 DEF RecordHit, Mutate
  <2>3. HitsOf(Clone', h) <= HitsOf(Clone, h) + 1
    BY <1>2, <1>3, <2>1 DEF HitsOf, Hit, Entry
  <2>4. \A g \in Hash : g # h => HitsOf(Clone', g) = HitsOf(Clone, g)
    BY <1>2, <1>3, <2>1 DEF HitsOf
  <2>5. QED BY <1>1, <1>2, <2>2, <2>3, <2>4, BumpedStatsAgree DEF Counter
<1>6. ASSUME NEW h \in Hash, NEW at \in Day, NEW size \in Size, EnsureEntry(h, size, at)
      PROVE  Agree(Clone')
  <2>1. stats' = stats
    BY <1>6 DEF EnsureEntry, Mutate
  <2>2. \A g \in Hash : HitsOf(Clone', g) <= HitsOf(Clone, g)
    BY <1>2, <1>3, <1>6 DEF EnsureEntry, Mutate, HitsOf, Upserted, Entry
  <2>3. QED BY <1>1, <1>2, <2>1, <2>2, SameStatsAgree
<1>7. ASSUME NEW at \in Day, RecordMiss(at)
      PROVE  Agree(Clone')
  BY <1>1, <1>2, <1>7, MissAgrees DEF RecordMiss, Mutate
<1>8. ASSUME NEW hs \in SUBSET Hash, Delete(hs)
      PROVE  Agree(Clone')
  <2>1. stats' = stats
    BY <1>8 DEF Delete, Mutate
  <2>2. \A g \in Hash : HitsOf(Clone', g) <= HitsOf(Clone, g)
    BY <1>2, <1>3, <1>8 DEF Delete, Mutate, HitsOf, Entry
  <2>3. QED BY <1>1, <1>2, <2>1, <2>2, SameStatsAgree
<1>9. ASSUME NEW h \in Hash, NEW info \in Info, UpdateTaskInfo(h, info)
      PROVE  Agree(Clone')
  <2>1. stats' = stats
    BY <1>9 DEF UpdateTaskInfo, Mutate
  <2>2. \A g \in Hash : HitsOf(Clone', g) <= HitsOf(Clone, g)
    BY <1>2, <1>3, <1>9 DEF UpdateTaskInfo, Mutate, HitsOf, Entry
  <2>3. QED BY <1>1, <1>2, <2>1, <2>2, SameStatsAgree
<1>10. QED BY <1>4, <1>5, <1>6, <1>7, <1>8, <1>9 DEF Mutation

LEMMA CountersNext ==
  ASSUME TypeOK, TypeOK', CountersAgree, [Next]_vars
  PROVE  CountersAgree'
<1>1. CASE Mutation
  <2>1. Agree(Clone')
    BY <1>1, MutationAgrees DEF CountersAgree, Held
  <2>2. Stored' = Stored /\ snap' = snap
    BY <1>1 DEF Mutation, UpsertEntry, RecordHit, EnsureEntry, RecordMiss, Delete,
       UpdateTaskInfo, Mutate, flush, Stored
  <2>3. Held' \subseteq Held \cup {Clone'}
    BY <2>2 DEF Held
  <2>4. QED BY <2>1, <2>3 DEF CountersAgree, Agree, HitsOf
<1>2. CASE ~Mutation
  BY <1>2, NothingNewHeld, EmptyAgrees DEF CountersAgree, Agree, HitsOf
<1>3. QED BY <1>1, <1>2

LEMMA CountersInit == Init => CountersAgree
<1>1. Init => Clone = EmptySnapshot
  BY DEF Init, Clone, EmptySnapshot
<1>2. Init => Stored = EmptySnapshot /\ \A f \in Flushers : snap[f] = EmptySnapshot
  BY DEF Init, Stored
<1>3. QED BY <1>1, <1>2, EmptyAgrees DEF CountersAgree, Held

\* The totals are the sums of the days and no entry has hits the totals lack, in
\* memory, in every clone a flush holds and in the bucket (bumpLocked and
\* cloneLocked, object.go).
THEOREM CountersAlwaysAgree == Spec => []CountersAgree
<1>1. TypeOK /\ TypeOK' /\ CountersAgree /\ [Next]_vars => CountersAgree'
  BY CountersNext
<1>2. QED BY <1>1, CountersInit, TypeCorrect, PTL DEF Spec
====
