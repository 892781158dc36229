---- MODULE SQLiteCatalog ----
(***************************************************************************)
(* The SQLite catalog of internal/store/store.go.  Its one connection runs *)
(* one statement at a time, and no operation is a transaction: a call is a *)
(* list of statements, other calls run between them, and an error (the     *)
(* client of the request is gone, the disk is full) or the end of the      *)
(* process leaves the rest of the list undone.  Open migrates the file one *)
(* statement at a time, too.                                               *)
(*                                                                         *)
(* With backend = "s3" the same calls are those of store.Object: all       *)
(* statements at once, under o.mu.  What a crash does to that catalog is   *)
(* in ObjectCatalog; here its process does not end.                        *)
(***************************************************************************)
EXTENDS Integers, SequencesExt

CONSTANTS
  Hash,
  Time,         \* creation times in seconds
  Kind, NoKind, \* task kinds; the other columns of TaskInfo merge the same way
  NoRow,        \* there is no row for the hash
  Writer,       \* requests and goroutines that change the catalog
  Catalogs,     \* the catalogs that are run: a subset of {"sqlite", "s3"}
  Files,        \* what the database file may hold of the schema at first
  Contents,     \* what the database file may hold of cache_entries at first
  Input,        \* the calls that are made: a subset of Calls
  DayLength,    \* the seconds of a day
  MaxCalls,     \* bound: calls made by the writers
  MaxFaults     \* bound: statements that fail and processes that end

ASSUME FiniteAssumption ==
  IsFiniteSet(Hash) /\ IsFiniteSet(Time) /\ IsFiniteSet(Kind) /\ IsFiniteSet(Writer)
ASSUME DayLengthAssumption == Time \subseteq Nat /\ DayLength \in Nat \ {0}
ASSUME CatalogsAssumption == Catalogs \subseteq {"sqlite", "s3"}

Day == {at \div DayLength : at \in Time}
Counter == {"hits", "misses", "stores"}
Row == [createdAt : Time, hits : Nat, kind : Kind \cup {NoKind}]
Rows == [Hash -> Row \cup {NoRow}]

\* The statements of migrate: CREATE TABLE and INDEX, then four ADD COLUMNs.
CreateStatements == 5
Migration == 1..(CreateStatements + 4)
Complete == CreateStatements + 4

ASSUME FilesAssumption == Files \subseteq {0} \cup Migration
ASSUME NoRowAssumption == NoRow \notin Row
ASSUME ContentsAssumption == Contents \subseteq Rows

VARIABLES
  backend,
  phase,     \* "down", "migrating" or "up"
  schema,    \* the statements of migrate the file has the effect of
  step,      \* the statement of migrate that is next
  rows,      \* cache_entries
  total,     \* counters
  days,      \* daily_stats
  call,      \* of each writer: the statements of its call that are left
  cut,       \* history: bumps that ended between their two statements
  calls, faults

file == <<rows, total, days>>
vars == <<backend, phase, schema, step, file, call, cut, calls, faults>>

NoRows == [h \in Hash |-> NoRow]
NoCounts == [c \in Counter |-> 0]

----
(* The statements of a call.                                               *)

\* Mutant: the day first.
BumpDayFirst(c, at) == <<[do |-> "day", key |-> c, day |-> at \div DayLength],
                         [do |-> "total", key |-> c]>>

Bump(c, at) == <<[do |-> "total", key |-> c],
                 [do |-> "day", key |-> c, day |-> at \div DayLength]>>

UpsertEntry(h, at, kind) ==
  <<[do |-> "upsert", hash |-> h, at |-> at, kind |-> kind]>> \o Bump("stores", at)
RecordHit(h, at) == <<[do |-> "hit", hash |-> h, at |-> at]>> \o Bump("hits", at)
RecordMiss(at) == Bump("misses", at)
EnsureEntry(h, at) == <<[do |-> "ensure", hash |-> h, at |-> at]>>
UpdateTaskInfo(h, kind) == <<[do |-> "info", hash |-> h, kind |-> kind]>>
Delete(hs) == IF hs = {} THEN <<>> ELSE <<[do |-> "delete", hashes |-> hs]>>

Calls ==
  {UpsertEntry(h, at, kind) : h \in Hash, at \in Time, kind \in Kind \cup {NoKind}} \cup
  {RecordHit(h, at) : h \in Hash, at \in Time} \cup
  {EnsureEntry(h, at) : h \in Hash, at \in Time} \cup
  {RecordMiss(at) : at \in Time} \cup
  {UpdateTaskInfo(h, kind) : h \in Hash, kind \in Kind} \cup
  {Delete(hs) : hs \in SUBSET Hash}

ASSUME InputAssumption == Input \subseteq Calls

NewRow(at, kind, hits) == [createdAt |-> at, hits |-> hits, kind |-> kind]
MergeKind(old, new) == IF new = NoKind THEN old ELSE new

\* Mutant: INSERT OR REPLACE.
RowReplaced(r, s) ==
  CASE s.do = "upsert" -> NewRow(s.at, s.kind, 0)
    [] s.do = "hit" -> IF r # NoRow THEN [r EXCEPT !.hits = @ + 1]
                       ELSE IF backend = "s3" THEN NewRow(s.at, NoKind, 1) ELSE NoRow
    [] s.do = "ensure" -> IF r = NoRow THEN NewRow(s.at, NoKind, 0) ELSE r
    [] s.do = "info" -> IF r = NoRow THEN r ELSE [r EXCEPT !.kind = MergeKind(@, s.kind)]

\* The row of the statement's hash, afterwards.
RowAfter(r, s) ==
  CASE s.do = "upsert" -> IF r = NoRow THEN NewRow(s.at, s.kind, 0)
                          ELSE [r EXCEPT !.kind = MergeKind(@, s.kind)]
    [] s.do = "hit" -> IF r # NoRow THEN [r EXCEPT !.hits = @ + 1]
                       ELSE IF backend = "s3" THEN NewRow(s.at, NoKind, 1) ELSE NoRow
    [] s.do = "ensure" -> IF r = NoRow THEN NewRow(s.at, NoKind, 0) ELSE r
    [] s.do = "info" -> IF r = NoRow THEN r ELSE [r EXCEPT !.kind = MergeKind(@, s.kind)]

Execute(s, db) ==
  CASE s.do = "total" -> [db EXCEPT !.total[s.key] = @ + 1]
    [] s.do = "day" -> [db EXCEPT !.days[s.day][s.key] = @ + 1]
    [] s.do = "delete" -> [db EXCEPT !.rows =
                             [h \in Hash |-> IF h \in s.hashes THEN NoRow ELSE @[h]]]
    [] OTHER -> [db EXCEPT !.rows[s.hash] = RowAfter(@, s)]

Database == [rows |-> rows, total |-> total, days |-> days]

Becomes(db) ==
  /\ rows' = db.rows
  /\ total' = db.total
  /\ days' = db.days

\* The catalog after the statements of b, one after the other.
ExecuteAll(b) ==
  LET after[i \in 0..Len(b)] == IF i = 0 THEN Database ELSE Execute(b[i], after[i - 1])
  IN after[Len(b)]

\* One statement, or with store.Object all of them under o.mu.
Batch(w) == IF backend = "s3" THEN call[w] ELSE <<Head(call[w])>>

Begin(w) ==
  /\ phase = "up"
  /\ call[w] = <<>>
  /\ calls < MaxCalls
  /\ \E c \in Input : call' = [call EXCEPT ![w] = c]
  /\ calls' = calls + 1
  /\ UNCHANGED <<backend, phase, schema, step, file, cut, faults>>

Statement(w) ==
  /\ phase = "up"
  /\ call[w] # <<>>
  /\ Becomes(ExecuteAll(Batch(w)))
  /\ call' = [call EXCEPT ![w] = SubSeq(@, Len(Batch(w)) + 1, Len(@))]
  /\ UNCHANGED <<backend, phase, schema, step, cut, calls, faults>>

\* The counter whose bump the writer has half done.
Half(w, c) == call[w] # <<>> /\ call[w][1].do = "day" /\ call[w][1].key = c

HalfDone(c) == {w \in Writer : Half(w, c)}

StatementError(w) ==
  /\ backend = "sqlite"
  /\ phase = "up"
  /\ call[w] # <<>>
  /\ faults < MaxFaults
  /\ faults' = faults + 1
  /\ call' = [call EXCEPT ![w] = <<>>]
  /\ cut' = [c \in Counter |-> IF Half(w, c) THEN cut[c] + 1 ELSE cut[c]]
  /\ UNCHANGED <<backend, phase, schema, step, file, calls>>

----
(* Open, and the end of the process.                                       *)

Open ==
  /\ phase = "down"
  /\ phase' = "migrating"
  /\ UNCHANGED <<backend, schema, step, file, call, cut, calls, faults>>

\* Mutant: the error "duplicate column name" is not tolerated.
MigrateOnce ==
  /\ phase = "migrating"
  /\ schema' = IF step > schema THEN step ELSE schema
  /\ phase' = IF step > CreateStatements /\ step <= schema THEN "down"
              ELSE IF step = Complete THEN "up" ELSE "migrating"
  /\ step' = IF step = Complete THEN 1 ELSE step + 1
  /\ UNCHANGED <<backend, file, call, cut, calls, faults>>

\* What is there already stays: IF NOT EXISTS, or isDuplicateColumn.
Migrate ==
  /\ phase = "migrating"
  /\ schema' = IF step > schema THEN step ELSE schema
  /\ phase' = IF step = Complete THEN "up" ELSE "migrating"
  /\ step' = IF step = Complete THEN 1 ELSE step + 1
  /\ UNCHANGED <<backend, file, call, cut, calls, faults>>

\* The process ends; main also exits when migrate returns an error.
End ==
  /\ backend = "sqlite"
  /\ phase # "down"
  /\ faults < MaxFaults
  /\ faults' = faults + 1
  /\ phase' = "down"
  /\ step' = 1
  /\ call' = [w \in Writer |-> <<>>]
  /\ cut' = [c \in Counter |-> cut[c] + Cardinality(HalfDone(c))]
  /\ UNCHANGED <<backend, schema, file, calls>>

Init ==
  /\ backend \in Catalogs
  /\ IF backend = "sqlite" THEN phase = "down" /\ schema \in Files
                           ELSE phase = "up" /\ schema = Complete
  /\ step = 1
  /\ rows \in IF schema < CreateStatements THEN {NoRows} ELSE Contents
  /\ total = NoCounts
  /\ days = [d \in Day |-> NoCounts]
  /\ call = [w \in Writer |-> <<>>]
  /\ cut = NoCounts
  /\ calls = 0
  /\ faults = 0

Next ==
  \/ \E w \in Writer : Begin(w) \/ Statement(w) \/ StatementError(w)
  \/ Open \/ Migrate \/ End

Spec == Init /\ [][Next]_vars

SumOfDays(c) == SumFunction([d \in Day |-> days[d][c]])

----

\* A counter leads the sum of its days by the bumps that are half done or
\* were cut short, and by no more, however the statements interleave.
TotalsLeadDays ==
  \A c \in Counter :
    total[c] = SumOfDays(c) + cut[c] + Cardinality(HalfDone(c))

\* A row that stays keeps its creation time, its hits only grow and its kind is
\* never forgotten: neither a repeated upload nor the reconcile resets it.
RowsKeepHistory ==
  [][\A h \in Hash : rows[h] # NoRow /\ rows'[h] # NoRow =>
       /\ rows'[h].createdAt = rows[h].createdAt
       /\ rows'[h].hits >= rows[h].hits
       /\ rows[h].kind # NoKind => rows'[h].kind # NoKind]_vars

\* However often processes end in their migration, one of them gets through, and
\* its catalog has the whole schema, whatever file the first one found.
ComesUp == <>[](phase = "up" /\ schema = Complete)

====
