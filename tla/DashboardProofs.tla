---- MODULE DashboardProofs ----
(***************************************************************************)
(* Proofs about SQLiteCatalog and Dashboard, for any number of artifacts,  *)
(* writers, days and kinds, both catalogs and any page size.               *)
(***************************************************************************)
EXTENDS Dashboard, SumTheorems, TLAPS

----
(* What may be left of a call.                                             *)

RowStatements ==
  [do : {"upsert"}, hash : Hash, at : Time, kind : Kind \cup {NoKind}] \cup
  [do : {"hit", "ensure"}, hash : Hash, at : Time] \cup
  [do : {"info"}, hash : Hash, kind : Kind] \cup
  [do : {"delete"}, hashes : SUBSET Hash]

TotalOf(c) == [do |-> "total", key |-> c]
DayOf(c, d) == [do |-> "day", key |-> c, day |-> d]

\* The statement on the row is alone or first; a bump has two; the second of
\* them is alone when the first is done.
RowAlone == {<<s>> : s \in RowStatements}
Bumps == {<<TotalOf(c), DayOf(c, d)>> : c \in Counter, d \in Day}
RowAndBump == {<<s, TotalOf(c), DayOf(c, d)>> : s \in RowStatements, c \in Counter, d \in Day}
DayAlone == {<<DayOf(c, d)>> : c \in Counter, d \in Day}

Whole == {<<>>} \cup RowAlone \cup Bumps \cup RowAndBump
Left == Whole \cup DayAlone

LEMMA OneAndTwo ==
  ASSUME NEW a, NEW b, NEW c
  PROVE  <<a>> \o <<b, c>> = <<a, b, c>>
<1> DEFINE s == <<a>> \o <<b, c>>
<1>1. <<a>> \in Seq({a, b, c}) /\ <<b, c>> \in Seq({a, b, c})
  OBVIOUS
<1>2. s \in Seq({a, b, c}) /\ Len(s) = 3
  BY <1>1
<1>3. s[1] = a /\ s[2] = b /\ s[3] = c
  BY <1>1
<1> HIDE DEF s
<1>4. \A i \in 1..3 : s[i] = <<a, b, c>>[i]
  BY <1>3
<1>5. s = <<a, b, c>>
  BY <1>2, <1>4
<1>6. QED BY <1>5 DEF s

LEMMA CallsAreWhole == Calls \subseteq Whole
<1> USE DEF Whole, RowAlone, Bumps, RowAndBump
<1>1. \A at \in Time : at \div DayLength \in Day
  BY DEF Day
<1>2. ASSUME NEW c \in Counter, NEW at \in Time
      PROVE  Bump(c, at) = <<TotalOf(c), DayOf(c, at \div DayLength)>>
  BY DEF Bump, TotalOf, DayOf
<1>3. ASSUME NEW s \in RowStatements, NEW c \in Counter, NEW at \in Time
      PROVE  <<s>> \o Bump(c, at) \in Whole
  <2>1. <<s>> \o Bump(c, at) = <<s, TotalOf(c), DayOf(c, at \div DayLength)>>
    BY <1>2, OneAndTwo
  <2>2. at \div DayLength \in Day
    BY <1>1
  <2>3. <<s, TotalOf(c), DayOf(c, at \div DayLength)>> \in RowAndBump
    BY <2>2
  <2>4. QED BY <2>1, <2>3
<1>4. ASSUME NEW h \in Hash, NEW at \in Time, NEW kind \in Kind \cup {NoKind}
      PROVE  UpsertEntry(h, at, kind) \in Whole
  <2>1. [do |-> "upsert", hash |-> h, at |-> at, kind |-> kind] \in RowStatements
    BY DEF RowStatements
  <2> HIDE DEF Whole
  <2>2. QED BY <1>3, <2>1 DEF UpsertEntry, Counter
<1>5. ASSUME NEW h \in Hash, NEW at \in Time
      PROVE  RecordHit(h, at) \in Whole /\ EnsureEntry(h, at) \in Whole
  <2>1. /\ [do |-> "hit", hash |-> h, at |-> at] \in RowStatements
        /\ [do |-> "ensure", hash |-> h, at |-> at] \in RowStatements
    BY DEF RowStatements
  <2>2. RecordHit(h, at) \in Whole
    <3> HIDE DEF Whole
    <3>1. QED BY <1>3, <2>1 DEF RecordHit, Counter
  <2>3. EnsureEntry(h, at) \in Whole
    BY <2>1 DEF EnsureEntry
  <2>4. QED BY <2>2, <2>3
<1>6. ASSUME NEW at \in Time
      PROVE  RecordMiss(at) \in Whole
  BY <1>1, <1>2 DEF RecordMiss, Counter
<1>7. ASSUME NEW h \in Hash, NEW kind \in Kind
      PROVE  UpdateTaskInfo(h, kind) \in Whole
  <2>1. [do |-> "info", hash |-> h, kind |-> kind] \in RowStatements
    BY DEF RowStatements
  <2>2. QED BY <2>1 DEF UpdateTaskInfo
<1>8. ASSUME NEW hs \in SUBSET Hash
      PROVE  Delete(hs) \in Whole
  <2>1. [do |-> "delete", hashes |-> hs] \in RowStatements
    BY DEF RowStatements
  <2>2. QED BY <2>1 DEF Delete
<1> HIDE DEF Whole
<1>9. QED BY <1>4, <1>5, <1>6, <1>7, <1>8 DEF Calls

----
(* What the statements do.                                                 *)

\* The catalog after one, two and three statements of b.
After1(b) == Execute(b[1], Database)
After2(b) == Execute(b[2], After1(b))
After3(b) == Execute(b[3], After2(b))

\* No call has more statements than three.
LEMMA ExecutedInOrder ==
  ASSUME NEW b, NEW n \in 1..3, Len(b) = n
  PROVE  ExecuteAll(b) = IF n = 1 THEN After1(b) ELSE IF n = 2 THEN After2(b) ELSE After3(b)
<1> DEFINE Going(f) == [i \in 0..Len(b) |-> IF i = 0 THEN Database ELSE Execute(b[i], f[i - 1])]
           known == [i \in 0..3 |-> IF i = 0 THEN Database ELSE IF i = 1 THEN After1(b)
                                    ELSE IF i = 2 THEN After2(b) ELSE After3(b)]
           some == [i \in 0..n |-> known[i]]
           after == CHOOSE f : f = Going(f)
<1>1. ExecuteAll(b) = after[n]
  BY DEF ExecuteAll
<1>2. /\ known[0] = Database
      /\ known[1] = Execute(b[1], known[0])
      /\ known[2] = Execute(b[2], known[1])
      /\ known[3] = Execute(b[3], known[2])
  BY DEF After1, After2, After3
<1>3. \A i \in 0..n : i # 0 => known[i] = Execute(b[i], known[i - 1])
  <2> HIDE DEF known
  <2>1. QED BY <1>2
<1>4. some = Going(some)
  <2>1. known[0] = Database
    BY <1>2
  <2> HIDE DEF known
  <2>2. \A i \in 0..n : some[i] = IF i = 0 THEN Database ELSE Execute(b[i], some[i - 1])
    BY <1>3, <2>1
  <2>3. QED BY <2>2
<1>5. after = Going(after)
  <2> HIDE DEF some, Going
  <2>1. QED BY <1>4, Zenon
<1> HIDE DEF after
<1>6. /\ after[0] = Database
      /\ after[1] = After1(b)
      /\ n > 1 => after[2] = After2(b)
      /\ n > 2 => after[3] = After3(b)
  BY <1>5 DEF After1, After2, After3
<1>7. QED BY <1>1, <1>6

LEMMA RowAfterType ==
  ASSUME NEW r \in Row \cup {NoRow}, NEW s \in RowStatements, s.do # "delete"
  PROVE  RowAfter(r, s) \in Row \cup {NoRow}
BY DEF RowStatements, RowAfter, NewRow, MergeKind, Row

\* What a row keeps, whatever is done to it.
KeepsRow(r, q) ==
  r # NoRow /\ q # NoRow =>
    /\ q.createdAt = r.createdAt
    /\ q.hits >= r.hits
    /\ r.kind # NoKind => q.kind # NoKind

LEMMA RowAfterKeeps ==
  ASSUME NEW r \in Row \cup {NoRow}, NEW s \in RowStatements, s.do # "delete"
  PROVE  KeepsRow(r, RowAfter(r, s))
BY DEF RowStatements, RowAfter, KeepsRow, NewRow, MergeKind, Row

DatabaseType == [rows : Rows, total : [Counter -> Nat], days : [Day -> [Counter -> Nat]]]

\* A statement on the row leaves the counts alone and keeps the rows' history.
LEMMA RowStatementDoes ==
  ASSUME NEW s \in RowStatements, NEW db \in DatabaseType
  PROVE  /\ Execute(s, db) \in DatabaseType
         /\ Execute(s, db).total = db.total
         /\ Execute(s, db).days = db.days
         /\ \A h \in Hash : KeepsRow(db.rows[h], Execute(s, db).rows[h])
<1>1. db.rows \in [Hash -> Row \cup {NoRow}]
  BY DEF DatabaseType, Rows
<1>2. s.do \in {"upsert", "hit", "ensure", "info", "delete"} /\ (s.do # "delete" => s.hash \in Hash)
  BY DEF RowStatements
<1>3. CASE s.do = "delete"
  <2>1. Execute(s, db) = [db EXCEPT !.rows = [h \in Hash |-> IF h \in s.hashes THEN NoRow ELSE @[h]]]
    BY <1>3 DEF Execute
  <2>2. [h \in Hash |-> IF h \in s.hashes THEN NoRow ELSE db.rows[h]] \in Rows
    BY <1>1 DEF Rows
  <2>3. Execute(s, db).rows = [h \in Hash |-> IF h \in s.hashes THEN NoRow ELSE db.rows[h]]
    BY <2>1 DEF DatabaseType
  <2>4. \A h \in Hash : KeepsRow(db.rows[h], Execute(s, db).rows[h])
    BY <1>1, <2>3 DEF KeepsRow, Row
  <2>5. QED BY <2>1, <2>2, <2>4 DEF DatabaseType
<1>4. CASE s.do # "delete"
  <2>1. Execute(s, db) = [db EXCEPT !.rows[s.hash] = RowAfter(@, s)]
    BY <1>2, <1>4 DEF Execute
  <2>2. db.rows[s.hash] \in Row \cup {NoRow}
    BY <1>1, <1>2, <1>4
  <2>3. /\ RowAfter(db.rows[s.hash], s) \in Row \cup {NoRow}
        /\ KeepsRow(db.rows[s.hash], RowAfter(db.rows[s.hash], s))
    BY <1>4, <2>2, RowAfterType, RowAfterKeeps
  <2>4. Execute(s, db).rows = [db.rows EXCEPT ![s.hash] = RowAfter(db.rows[s.hash], s)]
    BY <2>1 DEF DatabaseType
  <2>5. Execute(s, db).rows \in Rows
    BY <1>1, <2>3, <2>4 DEF Rows
  <2>6. \A h \in Hash : KeepsRow(db.rows[h], Execute(s, db).rows[h])
    <3>1. \A h \in Hash : h # s.hash => Execute(s, db).rows[h] = db.rows[h]
      BY <1>1, <2>4
    <3>2. \A h \in Hash : KeepsRow(db.rows[h], db.rows[h])
      BY <1>1 DEF KeepsRow, Row
    <3>3. Execute(s, db).rows[s.hash] = RowAfter(db.rows[s.hash], s)
      BY <1>1, <1>2, <1>4, <2>4
    <3>4. QED BY <2>3, <3>1, <3>2, <3>3
  <2>7. QED BY <2>1, <2>5, <2>6 DEF DatabaseType
<1>5. QED BY <1>3, <1>4

LEMMA TotalDoes ==
  ASSUME NEW c \in Counter, NEW db \in DatabaseType
  PROVE  /\ Execute(TotalOf(c), db) \in DatabaseType
         /\ Execute(TotalOf(c), db).rows = db.rows
         /\ Execute(TotalOf(c), db).total = [db.total EXCEPT ![c] = @ + 1]
         /\ Execute(TotalOf(c), db).days = db.days
<1>1. Execute(TotalOf(c), db) = [db EXCEPT !.total[c] = @ + 1]
  BY DEF Execute, TotalOf
<1>2. [db.total EXCEPT ![c] = @ + 1] \in [Counter -> Nat]
  BY DEF DatabaseType
<1>3. QED BY <1>1, <1>2 DEF DatabaseType

LEMMA DayDoes ==
  ASSUME NEW c \in Counter, NEW d \in Day, NEW db \in DatabaseType
  PROVE  /\ Execute(DayOf(c, d), db) \in DatabaseType
         /\ Execute(DayOf(c, d), db).rows = db.rows
         /\ Execute(DayOf(c, d), db).total = db.total
         /\ Execute(DayOf(c, d), db).days = [db.days EXCEPT ![d][c] = @ + 1]
<1>1. Execute(DayOf(c, d), db) = [db EXCEPT !.days[d][c] = @ + 1]
  BY DEF Execute, DayOf
<1>2. [db.days EXCEPT ![d][c] = @ + 1] \in [Day -> [Counter -> Nat]]
  BY DEF DatabaseType
<1>3. QED BY <1>1, <1>2 DEF DatabaseType

----
(* A step of a writer.                                                     *)

LEMMA RestOfOne ==
  ASSUME NEW a
  PROVE  Len(<<a>>) = 1 /\ Head(<<a>>) = a /\ SubSeq(<<a>>, 2, 1) = <<>>
OBVIOUS

LEMMA RestOfTwo ==
  ASSUME NEW a, NEW b
  PROVE  /\ Len(<<a, b>>) = 2 /\ Head(<<a, b>>) = a
         /\ SubSeq(<<a, b>>, 2, 2) = <<b>> /\ SubSeq(<<a, b>>, 3, 2) = <<>>
<1> DEFINE s == SubSeq(<<a, b>>, 2, 2)
<1>1. <<a, b>> \in Seq({a, b})
  OBVIOUS
<1>2. s \in Seq({a, b}) /\ Len(s) = 1 /\ s[1] = b
  BY <1>1
<1> HIDE DEF s
<1>3. s = <<b>>
  BY <1>2
<1>4. SubSeq(<<a, b>>, 3, 2) = <<>>
  BY <1>1
<1>5. QED BY <1>3, <1>4 DEF s

LEMMA RestOfThree ==
  ASSUME NEW a, NEW b, NEW c
  PROVE  /\ Len(<<a, b, c>>) = 3 /\ Head(<<a, b, c>>) = a
         /\ SubSeq(<<a, b, c>>, 2, 3) = <<b, c>> /\ SubSeq(<<a, b, c>>, 4, 3) = <<>>
<1> DEFINE s == SubSeq(<<a, b, c>>, 2, 3)
<1>1. <<a, b, c>> \in Seq({a, b, c})
  OBVIOUS
<1>2. s \in Seq({a, b, c}) /\ Len(s) = 2 /\ s[1] = b /\ s[2] = c
  BY <1>1
<1> HIDE DEF s
<1>3. \A i \in 1..2 : s[i] = <<b, c>>[i]
  BY <1>2
<1>4. s = <<b, c>>
  BY <1>2, <1>3
<1>5. SubSeq(<<a, b, c>>, 4, 3) = <<>>
  BY <1>1
<1>6. QED BY <1>4, <1>5 DEF s

\* The catalog, and what the writers still have to do to it: with the S3 catalog
\* a call is done whole.
DataOK ==
  /\ backend \in {"sqlite", "s3"}
  /\ rows \in Rows
  /\ total \in [Counter -> Nat]
  /\ days \in [Day -> [Counter -> Nat]]
  /\ cut \in [Counter -> Nat]
  /\ call \in [Writer -> IF backend = "s3" THEN Whole ELSE Left]

LEMMA DatabaseOK == DataOK => Database \in DatabaseType
BY DEF DataOK, Database, DatabaseType

\* Whether the bump of c, and only that, is half done when l is left of a call.
HalfOf(l, c) == l # <<>> /\ l[1].do = "day" /\ l[1].key = c
NoneHalf(l) == \A c \in Counter : ~HalfOf(l, c)
OneHalf(l, c) == \A k \in Counter : HalfOf(l, k) <=> k = c

LEMMA HalfShapes ==
  ASSUME NEW l
  PROVE  /\ l \in Whole => NoneHalf(l)
         /\ \A c \in Counter, d \in Day : l = <<DayOf(c, d)>> => OneHalf(l, c)
<1>1. \A s \in RowStatements : s.do # "day"
  BY DEF RowStatements
<1>2. \A c \in Counter : TotalOf(c).do # "day"
  BY DEF TotalOf
<1>3. CASE l = <<>>
  BY <1>3 DEF NoneHalf, HalfOf, OneHalf
<1>4. CASE l \in RowAlone
  BY <1>1, <1>4 DEF NoneHalf, HalfOf, RowAlone, OneHalf, DayOf
<1>5. CASE l \in Bumps
  BY <1>2, <1>5 DEF NoneHalf, HalfOf, Bumps, OneHalf, DayOf
<1>6. CASE l \in RowAndBump
  BY <1>1, <1>6 DEF NoneHalf, HalfOf, RowAndBump, OneHalf, DayOf
<1>7. \A c \in Counter, d \in Day : l = <<DayOf(c, d)>> => OneHalf(l, c)
  BY DEF OneHalf, HalfOf, DayOf
<1>8. QED BY <1>3, <1>4, <1>5, <1>6, <1>7 DEF Whole

\* What a statement does to the counts, and to the bump the writer is in.
RowOnly(w) ==
  /\ total' = total /\ days' = days
  /\ NoneHalf(call[w]) /\ NoneHalf(call'[w])
TotalFirst(w, c) ==
  /\ total' = [total EXCEPT ![c] = @ + 1] /\ days' = days
  /\ NoneHalf(call[w]) /\ OneHalf(call'[w], c)
DayLast(w, c, d) ==
  /\ total' = total /\ days' = [days EXCEPT ![d][c] = @ + 1]
  /\ OneHalf(call[w], c) /\ NoneHalf(call'[w])
BothAtOnce(w, c, d) ==
  /\ total' = [total EXCEPT ![c] = @ + 1] /\ days' = [days EXCEPT ![d][c] = @ + 1]
  /\ NoneHalf(call[w]) /\ NoneHalf(call'[w])

Effect(w) ==
  \/ RowOnly(w)
  \/ \E c \in Counter : TotalFirst(w, c)
  \/ \E c \in Counter, d \in Day : DayLast(w, c, d) \/ BothAtOnce(w, c, d)

\* The rows, next to it.
RowsGoOn ==
  /\ rows' \in Rows
  /\ \A h \in Hash : KeepsRow(rows[h], rows'[h])

LEMMA RowsAreKept == DataOK /\ rows' = rows => RowsGoOn
BY DEF DataOK, RowsGoOn, KeepsRow, Rows, Row

\* The four ways the statements of a batch follow each other.
LEMMA BatchDoes ==
  ASSUME DataOK, NEW b, Becomes(ExecuteAll(b))
  PROVE  /\ \A s \in RowStatements : b = <<s>> => total' = total /\ days' = days /\ RowsGoOn
         /\ \A c \in Counter : b = <<TotalOf(c)>> =>
              total' = [total EXCEPT ![c] = @ + 1] /\ days' = days /\ rows' = rows
         /\ \A c \in Counter, d \in Day : b = <<DayOf(c, d)>> =>
              total' = total /\ days' = [days EXCEPT ![d][c] = @ + 1] /\ rows' = rows
         /\ \A c \in Counter, d \in Day : b = <<TotalOf(c), DayOf(c, d)>> =>
              /\ total' = [total EXCEPT ![c] = @ + 1]
              /\ days' = [days EXCEPT ![d][c] = @ + 1]
              /\ rows' = rows
         /\ \A s \in RowStatements, c \in Counter, d \in Day :
              b = <<s, TotalOf(c), DayOf(c, d)>> =>
                /\ total' = [total EXCEPT ![c] = @ + 1]
                /\ days' = [days EXCEPT ![d][c] = @ + 1]
                /\ RowsGoOn
<1>1. Database \in DatabaseType
  BY DatabaseOK
<1>2. Database.rows = rows /\ Database.total = total /\ Database.days = days
  BY DEF Database
<1>3. ASSUME NEW s \in RowStatements, b = <<s>>
      PROVE  total' = total /\ days' = days /\ RowsGoOn
  <2>1. ExecuteAll(b) = Execute(s, Database)
    BY <1>3, RestOfOne, ExecutedInOrder DEF After1
  <2>2. QED BY <1>1, <1>2, <2>1, RowStatementDoes DEF Becomes, RowsGoOn, DatabaseType
<1>4. ASSUME NEW c \in Counter, b = <<TotalOf(c)>>
      PROVE  total' = [total EXCEPT ![c] = @ + 1] /\ days' = days /\ rows' = rows
  <2>1. ExecuteAll(b) = Execute(TotalOf(c), Database)
    BY <1>4, RestOfOne, ExecutedInOrder DEF After1
  <2>2. QED BY <1>1, <1>2, <2>1, TotalDoes DEF Becomes
<1>5. ASSUME NEW c \in Counter, NEW d \in Day, b = <<DayOf(c, d)>>
      PROVE  total' = total /\ days' = [days EXCEPT ![d][c] = @ + 1] /\ rows' = rows
  <2>1. ExecuteAll(b) = Execute(DayOf(c, d), Database)
    BY <1>5, RestOfOne, ExecutedInOrder DEF After1
  <2>2. QED BY <1>1, <1>2, <2>1, DayDoes DEF Becomes
<1>6. ASSUME NEW c \in Counter, NEW d \in Day, b = <<TotalOf(c), DayOf(c, d)>>
      PROVE  /\ total' = [total EXCEPT ![c] = @ + 1]
             /\ days' = [days EXCEPT ![d][c] = @ + 1]
             /\ rows' = rows
  <2> DEFINE one == Execute(TotalOf(c), Database)
  <2>1. ExecuteAll(b) = Execute(DayOf(c, d), one)
    BY <1>6, RestOfTwo, ExecutedInOrder DEF After1, After2
  <2>2. /\ one \in DatabaseType
        /\ one.rows = rows /\ one.total = [total EXCEPT ![c] = @ + 1] /\ one.days = days
    BY <1>1, <1>2, TotalDoes
  <2> HIDE DEF one
  <2>3. QED BY <2>1, <2>2, DayDoes DEF Becomes
<1>7. ASSUME NEW s \in RowStatements, NEW c \in Counter, NEW d \in Day,
             b = <<s, TotalOf(c), DayOf(c, d)>>
      PROVE  /\ total' = [total EXCEPT ![c] = @ + 1]
             /\ days' = [days EXCEPT ![d][c] = @ + 1]
             /\ RowsGoOn
  <2> DEFINE one == Execute(s, Database)
             two == Execute(TotalOf(c), one)
  <2>1. ExecuteAll(b) = Execute(DayOf(c, d), two)
    BY <1>7, RestOfThree, ExecutedInOrder DEF After1, After2, After3
  <2>2. /\ one \in DatabaseType
        /\ one.total = total /\ one.days = days
        /\ \A h \in Hash : KeepsRow(rows[h], one.rows[h])
    BY <1>1, <1>2, RowStatementDoes
  <2> HIDE DEF one
  <2>3. /\ two \in DatabaseType
        /\ two.rows = one.rows /\ two.total = [total EXCEPT ![c] = @ + 1] /\ two.days = days
    BY <2>2, TotalDoes
  <2> HIDE DEF two
  <2>4. /\ rows' = one.rows
        /\ total' = [total EXCEPT ![c] = @ + 1]
        /\ days' = [days EXCEPT ![d][c] = @ + 1]
    BY <2>1, <2>3, DayDoes DEF Becomes
  <2>5. RowsGoOn
    BY <2>2, <2>4 DEF RowsGoOn, DatabaseType
  <2>6. QED BY <2>4, <2>5
<1>8. QED BY <1>3, <1>4, <1>5, <1>6, <1>7

LEMMA StatementDoes ==
  ASSUME DataOK, NEW w \in Writer, Statement(w)
  PROVE  Effect(w) /\ RowsGoOn /\ call'[w] \in (IF backend = "s3" THEN Whole ELSE Left)
<1> DEFINE l == call[w]
<1>1. l \in Left /\ (backend = "s3" => l \in Whole) /\ l # <<>>
  BY DEF DataOK, Left, Statement
<1>2. Becomes(ExecuteAll(Batch(w))) /\ call'[w] = SubSeq(l, Len(Batch(w)) + 1, Len(l))
  BY DEF Statement, DataOK
<1>3. NoneHalf(<<>>) /\ <<>> \in Whole /\ Whole \subseteq Left
  BY DEF NoneHalf, HalfOf, Whole, Left
<1>4. rows' = rows => RowsGoOn
  BY RowsAreKept
<1>5. ASSUME NEW s \in RowStatements, l = <<s>>
      PROVE  Effect(w) /\ RowsGoOn /\ call'[w] = <<>>
  <2>1. Batch(w) = <<s>> /\ call'[w] = <<>>
    BY <1>2, <1>5, RestOfOne DEF Batch
  <2>2. total' = total /\ days' = days /\ RowsGoOn
    BY <1>2, <2>1, BatchDoes
  <2>3. l \in Whole
    BY <1>5 DEF Whole, RowAlone
  <2>4. QED BY <1>3, <2>1, <2>2, <2>3, HalfShapes DEF Effect, RowOnly
<1>6. ASSUME NEW c \in Counter, NEW d \in Day, l = <<DayOf(c, d)>>
      PROVE  Effect(w) /\ RowsGoOn /\ call'[w] = <<>>
  <2>1. Batch(w) = <<DayOf(c, d)>> /\ call'[w] = <<>>
    BY <1>2, <1>6, RestOfOne DEF Batch
  <2>2. total' = total /\ days' = [days EXCEPT ![d][c] = @ + 1] /\ RowsGoOn
    BY <1>2, <1>4, <2>1, BatchDoes
  <2>3. QED BY <1>3, <1>6, <2>1, <2>2, HalfShapes DEF Effect, DayLast
<1>7. ASSUME NEW c \in Counter, NEW d \in Day, l = <<TotalOf(c), DayOf(c, d)>>
      PROVE  Effect(w) /\ RowsGoOn /\ call'[w] \in (IF backend = "s3" THEN Whole ELSE Left)
  <2>1. l \in Whole
    BY <1>7 DEF Whole, Bumps
  <2>2. CASE backend = "s3"
    <3>1. Batch(w) = l /\ call'[w] = <<>>
      BY <1>2, <1>7, <2>2, RestOfTwo DEF Batch
    <3>2. /\ total' = [total EXCEPT ![c] = @ + 1]
          /\ days' = [days EXCEPT ![d][c] = @ + 1]
          /\ RowsGoOn
      BY <1>2, <1>4, <1>7, <3>1, BatchDoes
    <3>3. QED BY <1>3, <2>1, <3>1, <3>2, HalfShapes DEF Effect, BothAtOnce
  <2>3. CASE backend # "s3"
    <3>1. Batch(w) = <<TotalOf(c)>>
      BY <1>7, <2>3, RestOfTwo DEF Batch
    <3>2. call'[w] = <<DayOf(c, d)>>
      BY <1>2, <1>7, <3>1, RestOfOne, RestOfTwo
    <3>3. total' = [total EXCEPT ![c] = @ + 1] /\ days' = days /\ RowsGoOn
      BY <1>2, <1>4, <3>1, BatchDoes
    <3>4. call'[w] \in Left
      BY <3>2 DEF Left, DayAlone
    <3>5. QED BY <2>1, <2>3, <3>2, <3>3, <3>4, HalfShapes DEF Effect, TotalFirst
  <2>4. QED BY <2>2, <2>3
<1>8. ASSUME NEW s \in RowStatements, NEW c \in Counter, NEW d \in Day,
             l = <<s, TotalOf(c), DayOf(c, d)>>
      PROVE  Effect(w) /\ RowsGoOn /\ call'[w] \in (IF backend = "s3" THEN Whole ELSE Left)
  <2>1. l \in Whole
    BY <1>8 DEF Whole, RowAndBump
  <2>2. CASE backend = "s3"
    <3>1. Batch(w) = l /\ call'[w] = <<>>
      BY <1>2, <1>8, <2>2, RestOfThree DEF Batch
    <3>2. /\ total' = [total EXCEPT ![c] = @ + 1]
          /\ days' = [days EXCEPT ![d][c] = @ + 1]
          /\ RowsGoOn
      BY <1>2, <1>8, <3>1, BatchDoes
    <3>3. QED BY <1>3, <2>1, <3>1, <3>2, HalfShapes DEF Effect, BothAtOnce
  <2>3. CASE backend # "s3"
    <3>1. Batch(w) = <<s>>
      BY <1>8, <2>3, RestOfThree DEF Batch
    <3>2. call'[w] = <<TotalOf(c), DayOf(c, d)>>
      BY <1>2, <1>8, <3>1, RestOfOne, RestOfThree
    <3>3. total' = total /\ days' = days /\ RowsGoOn
      BY <1>2, <3>1, BatchDoes
    <3>4. call'[w] \in Whole
      BY <3>2 DEF Whole, Bumps
    <3>5. QED BY <1>3, <2>1, <2>3, <3>3, <3>4, HalfShapes DEF Effect, RowOnly
  <2>4. QED BY <2>2, <2>3
<1>9. \/ \E s \in RowStatements : l = <<s>>
      \/ \E c \in Counter, d \in Day : l = <<DayOf(c, d)>>
      \/ \E c \in Counter, d \in Day : l = <<TotalOf(c), DayOf(c, d)>>
      \/ \E s \in RowStatements, c \in Counter, d \in Day : l = <<s, TotalOf(c), DayOf(c, d)>>
  BY <1>1 DEF Left, Whole, RowAlone, Bumps, RowAndBump, DayAlone
<1>10. QED BY <1>3, <1>5, <1>6, <1>7, <1>8, <1>9

----
(* What is there in every state.                                           *)

LEMMA DataInit == Init => DataOK
<1> SUFFICES ASSUME Init PROVE DataOK
  OBVIOUS
<1>1. rows \in Rows
  BY ContentsAssumption DEF Init, NoRows, Rows
<1>2. backend \in {"sqlite", "s3"}
  BY CatalogsAssumption DEF Init
<1>3. NoCounts \in [Counter -> Nat]
  BY DEF NoCounts
<1>4. call \in [Writer -> IF backend = "s3" THEN Whole ELSE Left]
  BY DEF Init, Whole, Left
<1>5. QED BY <1>1, <1>2, <1>3, <1>4 DEF Init, DataOK

LEMMA EffectType ==
  ASSUME DataOK, NEW w \in Writer, Effect(w)
  PROVE  total' \in [Counter -> Nat] /\ days' \in [Day -> [Counter -> Nat]]
<1>1. \A c \in Counter : [total EXCEPT ![c] = @ + 1] \in [Counter -> Nat]
  BY DEF DataOK
<1>2. \A c \in Counter, d \in Day : [days EXCEPT ![d][c] = @ + 1] \in [Day -> [Counter -> Nat]]
  BY DEF DataOK
<1>3. total \in [Counter -> Nat] /\ days \in [Day -> [Counter -> Nat]]
  BY DEF DataOK
<1>4. CASE RowOnly(w)
  BY <1>3, <1>4 DEF RowOnly
<1>5. ASSUME NEW c \in Counter, TotalFirst(w, c)
      PROVE  total' \in [Counter -> Nat] /\ days' \in [Day -> [Counter -> Nat]]
  BY <1>1, <1>3, <1>5 DEF TotalFirst
<1>6. ASSUME NEW c \in Counter, NEW d \in Day, DayLast(w, c, d) \/ BothAtOnce(w, c, d)
      PROVE  total' \in [Counter -> Nat] /\ days' \in [Day -> [Counter -> Nat]]
  BY <1>1, <1>2, <1>3, <1>6 DEF DayLast, BothAtOnce
<1>7. QED BY <1>4, <1>5, <1>6 DEF Effect

\* The number of the writers whose bump of c is half done.
HalfCount(c) == Cardinality(HalfDone(c))

LEMMA HalfCountType == \A c : IsFiniteSet(HalfDone(c)) /\ HalfCount(c) \in Nat
BY FiniteAssumption, FS_Subset, FS_CardinalityType DEF HalfDone, HalfCount

LEMMA CutType ==
  ASSUME DataOK
  PROVE  /\ \A w \in Writer : [c \in Counter |-> IF Half(w, c) THEN cut[c] + 1 ELSE cut[c]]
                                 \in [Counter -> Nat]
         /\ [c \in Counter |-> cut[c] + Cardinality(HalfDone(c))] \in [Counter -> Nat]
BY HalfCountType DEF DataOK, HalfCount

LEMMA DataNext == DataOK /\ [Next]_vars => DataOK'
<1> SUFFICES ASSUME DataOK, [Next]_vars PROVE DataOK'
  OBVIOUS
<1>1. <<>> \in Whole /\ Whole \subseteq Left
  BY DEF Whole, Left
<1>2. ASSUME NEW w \in Writer, Begin(w) PROVE DataOK'
  <2>1. PICK c \in Input : call' = [call EXCEPT ![w] = c]
    BY <1>2 DEF Begin
  <2>2. c \in Whole
    BY InputAssumption, CallsAreWhole
  <2>3. QED BY <1>1, <1>2, <2>1, <2>2 DEF Begin, DataOK, file
<1>3. ASSUME NEW w \in Writer, Statement(w) PROVE DataOK'
  <2>1. Effect(w) /\ RowsGoOn /\ call'[w] \in (IF backend = "s3" THEN Whole ELSE Left)
    BY <1>3, StatementDoes
  <2>2. call' = [call EXCEPT ![w] = call'[w]]
    BY <1>3 DEF Statement, DataOK
  <2>3. QED BY <1>3, <2>1, <2>2, EffectType DEF Statement, DataOK, RowsGoOn
<1>4. ASSUME NEW w \in Writer, StatementError(w) PROVE DataOK'
  BY <1>1, <1>4, CutType DEF StatementError, DataOK, file
<1>5. CASE Open
  BY <1>5 DEF Open, DataOK, file
<1>6. CASE Migrate
  BY <1>6 DEF Migrate, DataOK, file
<1>7. CASE End
  BY <1>1, <1>7, CutType DEF End, DataOK, file
<1>8. CASE UNCHANGED vars
  BY <1>8 DEF DataOK, file, vars
<1>9. QED BY <1>2, <1>3, <1>4, <1>5, <1>6, <1>7, <1>8 DEF Next

\* A writer is in HalfDone or not, whatever the others are doing.
Num(b) == IF b THEN 1 ELSE 0

LEMMA HalfCountChanges ==
  ASSUME NEW w \in Writer, NEW l, call \in [Writer -> Left],
         call' = [call EXCEPT ![w] = l], NEW c
  PROVE  HalfCount(c)' = HalfCount(c) - Num(HalfOf(call[w], c)) + Num(HalfOf(l, c))
<1> DEFINE others == HalfDone(c) \ {w}
<1>1. IsFiniteSet(HalfDone(c)) /\ HalfCount(c) \in Nat
  BY HalfCountType
<1>2. w \in HalfDone(c) <=> HalfOf(call[w], c)
  BY DEF HalfDone, Half, HalfOf
<1>3. /\ IsFiniteSet(others) /\ Cardinality(others) \in Nat
      /\ Cardinality(others) = HalfCount(c) - Num(HalfOf(call[w], c))
  BY <1>1, <1>2, FS_RemoveElement, FS_CardinalityType DEF HalfCount, Num
<1>4. HalfDone(c)' = IF HalfOf(l, c) THEN others \cup {w} ELSE others
  BY DEF HalfDone, Half, HalfOf
<1>5. w \notin others
  OBVIOUS
<1> HIDE DEF others
<1>6. Cardinality(others \cup {w}) = Cardinality(others) + 1
  BY <1>3, <1>5, FS_AddElement
<1>7. HalfCount(c)' = Cardinality(HalfDone(c)')
  BY DEF HalfCount
<1>8. QED BY <1>1, <1>3, <1>4, <1>6, <1>7 DEF Num

LEMMA DaysAreFinite == IsFiniteSet(Day)
<1> DEFINE dayOf == [at \in Time |-> at \div DayLength]
<1>1. dayOf \in Surjection(Time, Day)
  BY DEF Day, Surjection
<1>2. QED BY <1>1, FiniteAssumption, FS_Surjection

\* One more in a day is one more in the sum of the days.
LEMMA SumOfDaysChanges ==
  ASSUME DataOK, NEW c \in Counter, NEW d \in Day, days' = [days EXCEPT ![d][c] = @ + 1],
         NEW k \in Counter
  PROVE  SumOfDays(k)' = SumOfDays(k) + Num(k = c)
<1> DEFINE f == [e \in Day |-> days[e][k]]
           g == [e \in Day |-> days'[e][k]]
<1>1. IsFiniteSet(Day)
  BY DaysAreFinite
<1>2. days \in [Day -> [Counter -> Nat]] /\ days' \in [Day -> [Counter -> Nat]]
  BY DEF DataOK
<1>3. f \in [Day -> Nat] /\ g \in [Day -> Nat]
  BY <1>2
<1>4. \A e \in Day : e # d => g[e] = f[e]
  BY <1>2
<1>5. g[d] = f[d] + Num(k = c)
  BY <1>2 DEF Num
<1>6. SumOfDays(k) = SumFunction(f) /\ SumOfDays(k)' = SumFunction(g)
  BY DEF SumOfDays
<1>7. f[d] \in Nat
  BY <1>3
<1> HIDE DEF f, g
<1>8. SumFunction(f) \in Nat /\ SumFunction(g) = SumFunction(f) + (g[d] - f[d])
  BY <1>1, <1>3, <1>4, SumType, SumChanges
<1>9. QED BY <1>5, <1>6, <1>7, <1>8 DEF Num

LEMMA SumOfDaysType == DataOK => \A c \in Counter : SumOfDays(c) \in Nat
<1> SUFFICES ASSUME DataOK, NEW c \in Counter PROVE SumOfDays(c) \in Nat
  OBVIOUS
<1> DEFINE f == [d \in Day |-> days[d][c]]
<1>1. f \in [Day -> Nat]
  BY DEF DataOK
<1>2. SumOfDays(c) = SumFunction(f)
  BY DEF SumOfDays
<1> HIDE DEF f
<1>3. QED BY <1>1, <1>2, DaysAreFinite, SumType

\* The lead of one counter over its days.
Lead(c) == total[c] = SumOfDays(c) + cut[c] + HalfCount(c)

LEMMA LeadInit == Init => TotalsLeadDays
<1> SUFFICES ASSUME Init, NEW c \in Counter
             PROVE  total[c] = SumOfDays(c) + cut[c] + Cardinality(HalfDone(c))
  BY DEF TotalsLeadDays
<1>1. [d \in Day |-> days[d][c]] = [d \in Day |-> 0]
  BY DEF Init, NoCounts
<1>2. SumOfDays(c) = 0
  BY <1>1, DaysAreFinite, SumOfZeros DEF SumOfDays
<1>3. HalfDone(c) = {}
  BY DEF Init, HalfDone, Half
<1>4. total[c] = 0 /\ cut[c] = 0
  BY DEF Init, NoCounts
<1>5. QED BY <1>2, <1>3, <1>4, FS_EmptySet

LEMMA LeadStatement ==
  ASSUME DataOK, NEW w \in Writer, Statement(w), NEW k \in Counter, Lead(k)
  PROVE  Lead(k)'
<1>1. Effect(w)
  BY StatementDoes
<1>2. cut' = cut /\ call \in [Writer -> Left] /\ call' = [call EXCEPT ![w] = call'[w]]
  BY DEF Statement, DataOK, Left
<1>3. HalfCount(k)' = HalfCount(k) - Num(HalfOf(call[w], k)) + Num(HalfOf(call'[w], k))
  BY <1>2, HalfCountChanges
<1>4. /\ HalfCount(k) \in Nat /\ SumOfDays(k) \in Nat
      /\ total \in [Counter -> Nat] /\ cut[k] \in Nat
  BY HalfCountType, SumOfDaysType DEF DataOK
<1>5. days' = days => SumOfDays(k)' = SumOfDays(k)
  BY DEF SumOfDays
<1>6. CASE RowOnly(w)
  <2>1. Num(HalfOf(call[w], k)) = 0 /\ Num(HalfOf(call'[w], k)) = 0
    BY <1>6 DEF RowOnly, NoneHalf, Num
  <2>2. QED BY <1>2, <1>3, <1>4, <1>5, <1>6, <2>1 DEF RowOnly, Lead
<1>7. ASSUME NEW c \in Counter, TotalFirst(w, c) PROVE Lead(k)'
  <2>1. Num(HalfOf(call[w], k)) = 0 /\ Num(HalfOf(call'[w], k)) = Num(k = c)
    BY <1>7 DEF TotalFirst, NoneHalf, OneHalf, Num
  <2>2. total'[k] = total[k] + Num(k = c)
    BY <1>4, <1>7 DEF TotalFirst, Num
  <2>3. Num(k = c) \in Nat
    BY DEF Num
  <2>4. QED BY <1>2, <1>3, <1>4, <1>5, <1>7, <2>1, <2>2, <2>3 DEF TotalFirst, Lead
<1>8. ASSUME NEW c \in Counter, NEW d \in Day, DayLast(w, c, d) PROVE Lead(k)'
  <2>1. Num(HalfOf(call[w], k)) = Num(k = c) /\ Num(HalfOf(call'[w], k)) = 0
    BY <1>8 DEF DayLast, NoneHalf, OneHalf, Num
  <2>2. SumOfDays(k)' = SumOfDays(k) + Num(k = c)
    BY <1>8, SumOfDaysChanges DEF DayLast
  <2>3. Num(k = c) \in Nat
    BY DEF Num
  <2>4. QED BY <1>2, <1>3, <1>4, <1>8, <2>1, <2>2, <2>3 DEF DayLast, Lead
<1>9. ASSUME NEW c \in Counter, NEW d \in Day, BothAtOnce(w, c, d) PROVE Lead(k)'
  <2>1. Num(HalfOf(call[w], k)) = 0 /\ Num(HalfOf(call'[w], k)) = 0
    BY <1>9 DEF BothAtOnce, NoneHalf, Num
  <2>2. SumOfDays(k)' = SumOfDays(k) + Num(k = c)
    BY <1>9, SumOfDaysChanges DEF BothAtOnce
  <2>3. total'[k] = total[k] + Num(k = c)
    BY <1>4, <1>9 DEF BothAtOnce, Num
  <2>4. Num(k = c) \in Nat
    BY DEF Num
  <2>5. QED BY <1>2, <1>3, <1>4, <2>1, <2>2, <2>3, <2>4 DEF Lead
<1>10. QED BY <1>1, <1>6, <1>7, <1>8, <1>9 DEF Effect

LEMMA LeadNext == DataOK /\ TotalsLeadDays /\ [Next]_vars => TotalsLeadDays'
<1> SUFFICES ASSUME DataOK, [Next]_vars, NEW k \in Counter, Lead(k)
             PROVE  Lead(k)'
  BY DEF TotalsLeadDays, Lead, HalfCount
<1>1. /\ HalfCount(k) \in Nat /\ SumOfDays(k) \in Nat
      /\ total[k] \in Nat /\ cut \in [Counter -> Nat]
  BY HalfCountType, SumOfDaysType DEF DataOK
<1>2. call \in [Writer -> Left] /\ \A c : ~HalfOf(<<>>, c)
  BY DEF DataOK, Left, HalfOf
<1>3. days' = days => SumOfDays(k)' = SumOfDays(k)
  BY DEF SumOfDays
<1>4. call' = call => HalfCount(k)' = HalfCount(k)
  BY DEF HalfCount, HalfDone, Half
<1>5. ASSUME NEW w \in Writer, Begin(w) PROVE Lead(k)'
  <2>1. PICK c \in Input : call' = [call EXCEPT ![w] = c]
    BY <1>5 DEF Begin
  <2>2. ~HalfOf(c, k)
    BY InputAssumption, CallsAreWhole, HalfShapes DEF NoneHalf
  <2>3. call[w] = <<>> /\ days' = days /\ total' = total /\ cut' = cut
    BY <1>5 DEF Begin, file
  <2>4. HalfCount(k)' = HalfCount(k) - Num(HalfOf(call[w], k)) + Num(HalfOf(c, k))
    BY <1>2, <2>1, HalfCountChanges
  <2>5. Num(HalfOf(call[w], k)) = 0 /\ Num(HalfOf(c, k)) = 0
    BY <1>2, <2>2, <2>3 DEF Num
  <2>6. QED BY <1>1, <1>3, <2>3, <2>4, <2>5 DEF Lead
<1>6. ASSUME NEW w \in Writer, Statement(w) PROVE Lead(k)'
  BY <1>6, LeadStatement
<1>7. ASSUME NEW w \in Writer, StatementError(w) PROVE Lead(k)'
  <2>1. /\ call' = [call EXCEPT ![w] = <<>>] /\ days' = days /\ total' = total
        /\ cut' = [c \in Counter |-> IF Half(w, c) THEN cut[c] + 1 ELSE cut[c]]
    BY <1>7 DEF StatementError, file
  <2>2. HalfCount(k)' = HalfCount(k) - Num(HalfOf(call[w], k)) + Num(HalfOf(<<>>, k))
    BY <1>2, <2>1, HalfCountChanges
  <2>3. Half(w, k) <=> HalfOf(call[w], k)
    BY DEF Half, HalfOf
  <2>4. cut'[k] = cut[k] + Num(HalfOf(call[w], k)) /\ cut[k] \in Nat
    BY <1>1, <2>1, <2>3 DEF Num
  <2>5. Num(HalfOf(<<>>, k)) = 0 /\ Num(HalfOf(call[w], k)) \in Nat
    BY <1>2 DEF Num
  <2>6. QED BY <1>1, <1>3, <2>1, <2>2, <2>4, <2>5 DEF Lead
<1>8. CASE End
  <2>1. /\ call' = [w \in Writer |-> <<>>] /\ days' = days /\ total' = total
        /\ cut'[k] = cut[k] + HalfCount(k) /\ cut[k] \in Nat
    BY <1>1, <1>8 DEF End, file, HalfCount
  <2>2. HalfDone(k)' = {}
    BY <2>1 DEF HalfDone, Half
  <2>3. HalfCount(k)' = 0
    BY <2>2, FS_EmptySet DEF HalfCount
  <2>4. QED BY <1>1, <1>3, <2>1, <2>3 DEF Lead
<1>9. CASE Open \/ Migrate \/ UNCHANGED vars
  <2>1. days' = days /\ total' = total /\ cut' = cut /\ call' = call
    BY <1>9 DEF Open, Migrate, vars, file
  <2>2. QED BY <1>3, <1>4, <2>1 DEF Lead
<1>10. QED BY <1>5, <1>6, <1>7, <1>8, <1>9 DEF Next

\* The steps of the browser are no steps of the catalog.
LEMMA CatalogOfDashboard ==
  /\ DashboardInit => Init
  /\ [DashboardNext]_allVars => [Next]_vars
BY DEF DashboardInit, DashboardNext, allVars, Next, FirstPage, NextPage, Request, Query

\* The rows and counts have their types, and what is left of a call is the end of
\* one: with the S3 catalog, the whole (UpsertEntry to Delete, store.go, object.go).
THEOREM CatalogDataTypes == DashboardSpec => []DataOK
<1>1. QED BY CatalogOfDashboard, DataInit, DataNext, PTL DEF DashboardSpec

\* A counter leads the sum of its days by the bumps that are half done or were
\* cut short, and by no more (BumpStat and BumpDaily, store.go).
THEOREM TotalsAlwaysLead == DashboardSpec => []TotalsLeadDays
<1>1. QED
  BY CatalogOfDashboard, LeadInit, LeadNext, DataInit, DataNext, PTL DEF DashboardSpec

----
(* What a row keeps.                                                       *)

LEMMA RowsNext == DataOK /\ [Next]_vars => RowsGoOn
<1> SUFFICES ASSUME DataOK, [Next]_vars PROVE RowsGoOn
  OBVIOUS
<1>1. rows' = rows => RowsGoOn
  BY RowsAreKept
<1>2. ASSUME NEW w \in Writer, Statement(w) PROVE RowsGoOn
  BY <1>2, StatementDoes
<1>3. QED
  BY <1>1, <1>2 DEF Next, Begin, StatementError, Open, Migrate, End, file, vars

\* A row that stays keeps its creation time, its hits only grow and its kind is
\* never forgotten (the ON CONFLICT clauses of store.go).
THEOREM RowsRemember == DashboardSpec => RowsKeepHistory
<1>1. RowsGoOn =>
        \A h \in Hash : rows[h] # NoRow /\ rows'[h] # NoRow =>
          /\ rows'[h].createdAt = rows[h].createdAt
          /\ rows'[h].hits >= rows[h].hits
          /\ rows[h].kind # NoKind => rows'[h].kind # NoKind
  BY DEF RowsGoOn, KeepsRow
<1>2. DataOK /\ [Next]_vars =>
        [\A h \in Hash : rows[h] # NoRow /\ rows'[h] # NoRow =>
          /\ rows'[h].createdAt = rows[h].createdAt
          /\ rows'[h].hits >= rows[h].hits
          /\ rows[h].kind # NoKind => rows'[h].kind # NoKind]_vars
  BY <1>1, RowsNext
<1>3. QED BY <1>2, CatalogOfDashboard, DataInit, DataNext, PTL DEF DashboardSpec, RowsKeepHistory

----
(* The page that is being made.                                            *)

Kinds == Kind \cup {NoKind}

\* The days a page has, with their numbers.
ShownDays == UNION {[D -> [Counter -> Nat]] : D \in SUBSET Day}

Answer == [total : Nat, page : SUBSET Hash, entries : Nat, kinds : [Kinds -> Nat],
           counters : [Counter -> Nat], since : Int, days : ShownDays]

Asked == {"list", "entriesAndKinds", "countersAndDays",
          "count", "select", "entries", "hits", "misses", "stores", "kinds", "days"}

\* The queries that are left are the last ones of the page.
QueriesLeft ==
  /\ query \in Seq(Asked)
  /\ Len(query) <= Len(Queries)
  /\ \A i \in 1..Len(query) : query[i] = Queries[i + Len(Queries) - Len(query)]

PageOK ==
  /\ QueriesLeft
  /\ page \in Nat
  /\ got \in Answer
  /\ before \in [Counter -> Nat]
  /\ query # <<>> => page > 0

LEMMA QueriesOfObject ==
  backend = "s3" =>
         /\ Queries \in Seq(Asked) /\ Len(Queries) = 3
         /\ Queries[1] = "list" /\ Queries[2] = "entriesAndKinds" /\ Queries[3] = "countersAndDays"
<1> DEFINE s == <<"list", "entriesAndKinds", "countersAndDays">>
<1>1. backend = "s3" => Queries = s
  BY DEF Queries
<1>2. s \in Seq(Asked) /\ Len(s) = 3
  BY DEF Asked
<1>3. s[1] = "list" /\ s[2] = "entriesAndKinds" /\ s[3] = "countersAndDays"
  OBVIOUS
<1> HIDE DEF s
<1>4. QED BY <1>1, <1>2, <1>3

LEMMA QueriesOfSQLite ==
  backend # "s3" =>
         /\ Queries \in Seq(Asked) /\ Len(Queries) = 8
         /\ Queries[1] = "count" /\ Queries[2] = "select" /\ Queries[3] = "entries"
         /\ Queries[4] = "hits" /\ Queries[5] = "misses" /\ Queries[6] = "stores"
         /\ Queries[7] = "kinds" /\ Queries[8] = "days"
<1> DEFINE s == <<"count", "select", "entries", "hits", "misses", "stores", "kinds", "days">>
<1>1. backend # "s3" => Queries = s
  BY DEF Queries
<1>2. s \in Seq(Asked) /\ Len(s) = 8
  BY DEF Asked
<1>3. /\ s[1] = "count" /\ s[2] = "select" /\ s[3] = "entries" /\ s[4] = "hits"
      /\ s[5] = "misses" /\ s[6] = "stores" /\ s[7] = "kinds" /\ s[8] = "days"
  OBVIOUS
<1> HIDE DEF s
<1>4. QED BY <1>1, <1>2, <1>3

\* Which query is next, by how many there are left.
NextOfObject(n) == IF n = 3 THEN "list" ELSE IF n = 2 THEN "entriesAndKinds" ELSE "countersAndDays"
NextOfSQLite(n) ==
  IF n = 8 THEN "count" ELSE IF n = 7 THEN "select" ELSE IF n = 6 THEN "entries"
  ELSE IF n = 5 THEN "hits" ELSE IF n = 4 THEN "misses" ELSE IF n = 3 THEN "stores"
  ELSE IF n = 2 THEN "kinds" ELSE "days"

LEMMA NextQuery ==
  ASSUME QueriesLeft, query # <<>>
  PROVE  /\ backend = "s3" => Len(query) \in 1..3 /\ Head(query) = NextOfObject(Len(query))
         /\ backend # "s3" => Len(query) \in 1..8 /\ Head(query) = NextOfSQLite(Len(query))
         /\ Head(query) \in Asked
<1> DEFINE n == Len(query)
           q == Head(query)
           k == Len(Queries)
<1>1. n \in Nat /\ n > 0 /\ q = query[1] /\ q \in Asked
  BY DEF QueriesLeft
<1>2. n <= k /\ \A i \in 1..n : query[i] = Queries[i + k - n]
  BY DEF QueriesLeft
<1> HIDE DEF n, q, k
<1>3. q = Queries[1 + k - n]
  BY <1>1, <1>2
<1>4. CASE backend = "s3"
  <2>1. k = 3
    BY <1>4, QueriesOfObject DEF k
  <2>2. n = 1 \/ n = 2 \/ n = 3
    BY <1>1, <1>2, <2>1
  <2>3. (n = 3 => q = Queries[1]) /\ (n = 2 => q = Queries[2]) /\ (n = 1 => q = Queries[3])
    BY <1>3, <2>1
  <2>4. q = NextOfObject(n)
    BY <1>4, <2>2, <2>3, QueriesOfObject DEF NextOfObject
  <2>5. QED BY <1>1, <1>4, <2>2, <2>4 DEF n, q
<1>5. CASE backend # "s3"
  <2>1. k = 8
    BY <1>5, QueriesOfSQLite DEF k
  <2>2. n \in {1, 2, 3, 4, 5, 6, 7, 8}
    BY <1>1, <1>2, <2>1
  <2>3. /\ n = 8 => q = Queries[1]
        /\ n = 7 => q = Queries[2]
        /\ n = 6 => q = Queries[3]
        /\ n = 5 => q = Queries[4]
        /\ n = 4 => q = Queries[5]
        /\ n = 3 => q = Queries[6]
        /\ n = 2 => q = Queries[7]
        /\ n = 1 => q = Queries[8]
    BY <1>3, <2>1
  <2>4. q = NextOfSQLite(n)
    BY <1>5, <2>2, <2>3, QueriesOfSQLite DEF NextOfSQLite
  <2>5. QED BY <1>1, <1>5, <2>2, <2>4 DEF n, q
<1>6. QED BY <1>1, <1>4, <1>5 DEF n, q

\* Once a query is made, the next is.
LEMMA QueriesGoOn ==
  ASSUME QueriesLeft, query # <<>>, query' = Tail(query), backend' = backend
  PROVE  QueriesLeft' /\ Len(query') = Len(query) - 1
<1>1. Queries' = Queries
  BY DEF Queries
<1>2. /\ query \in Seq(Asked) /\ Len(query) \in Nat /\ Len(query) > 0
      /\ query' \in Seq(Asked) /\ Len(query') = Len(query) - 1
      /\ \A i \in 1..Len(query') : query'[i] = query[i + 1]
  BY DEF QueriesLeft
<1>3. Len(Queries) \in Nat
  BY QueriesOfObject, QueriesOfSQLite
<1>4. QED BY <1>1, <1>2, <1>3 DEF QueriesLeft

LEMMA MatchesAreFinite ==
  /\ \A s \in SUBSET Hash : IsFiniteSet(s) /\ Cardinality(s) \in Nat
  /\ Present \in SUBSET Hash /\ Matches \in SUBSET Hash
  /\ \A o : PageOf(o) \in SUBSET Hash
BY FiniteAssumption, FS_Subset, FS_CardinalityType DEF Present, Matches, PageOf

LEMMA NoAnswerType == NoAnswer \in Answer
<1>1. [d \in {} |-> NoCounts] \in [{} -> [Counter -> Nat]]
  OBVIOUS
<1>2. [d \in {} |-> NoCounts] \in ShownDays
  BY <1>1 DEF ShownDays
<1>3. QED BY <1>2 DEF NoAnswer, Answer, NoKinds, NoCounts, Kinds

\* Days are asked for from a number on, and have their numbers.
LEMMA DaysAnswered ==
  ASSUME DataOK, NEW t \in Since
  PROVE  /\ t \in Int
         /\ DaysSince(t) \in ShownDays
         /\ \A d \in Day : d \in DOMAIN DaysSince(t) <=> days[d] # NoCounts /\ d >= t
         /\ \A d \in DOMAIN DaysSince(t) : d \in Day /\ DaysSince(t)[d] = days[d]
<1> DEFINE D == {d \in Day : days[d] # NoCounts /\ d >= t}
<1>1. DaysSince(t) = [d \in D |-> days[d]]
  BY DEF DaysSince
<1>2. days \in [Day -> [Counter -> Nat]]
  BY DEF DataOK
<1>3. DaysSince(t) \in [D -> [Counter -> Nat]] /\ D \in SUBSET Day
  BY <1>1, <1>2
<1>4. PICK d \in Day, i \in 0..DaysShown : t = d + i - DaysShown + 1
  BY DEF Since
<1>5. d \in Int
  BY DayLengthAssumption, QuotientBounds DEF Day
<1>6. t \in Int
  BY <1>4, <1>5, DaysShownAssumption
<1>7. DaysSince(t) \in ShownDays
  <2> HIDE DEF D
  <2>1. QED BY <1>3 DEF ShownDays
<1>8. QED BY <1>1, <1>6, <1>7

LEMMA ByKindType == ByKind \in [Kinds -> Nat]
<1>1. \A k \in Kinds : {h \in Present : rows[h].kind = k} \in SUBSET Hash
  BY MatchesAreFinite
<1>2. QED BY <1>1, MatchesAreFinite DEF ByKind, Kinds

LEMMA AnswersType ==
  ASSUME DataOK, got \in Answer, NEW q, NEW g \in Answers(q), q \in Asked
  PROVE  g \in Answer
<1>1. Cardinality(Matches) \in Nat /\ Cardinality(Present) \in Nat
  BY MatchesAreFinite
<1>2. \A o \in Orders : PageOf(o) \in SUBSET Hash
  BY MatchesAreFinite
<1>3. ByKind \in [Kinds -> Nat] /\ total \in [Counter -> Nat]
  BY ByKindType DEF DataOK
<1>4. CASE q = "count"
  BY <1>1, <1>4 DEF Answers, Answer
<1>5. CASE q \in {"list", "select"}
  <2>1. PICK o \in Orders : g \in {[got EXCEPT !.page = PageOf(o)],
                                 [got EXCEPT !.total = Cardinality(Matches), !.page = PageOf(o)]}
    BY <1>5 DEF Answers
  <2>2. QED BY <1>1, <1>2, <2>1 DEF Answer
<1>6. CASE q = "entries"
  BY <1>1, <1>6 DEF Answers, Answer
<1>7. CASE q = "kinds"
  BY <1>3, <1>7 DEF Answers, Answer
<1>8. CASE q = "entriesAndKinds"
  BY <1>1, <1>3, <1>8 DEF Answers, Answer
<1>9. CASE q = "days"
  <2>1. PICK t \in Since : g = [got EXCEPT !.since = t, !.days = DaysSince(t)]
    BY <1>9 DEF Answers
  <2>2. QED BY <2>1, DaysAnswered DEF Answer
<1>10. CASE q = "countersAndDays"
  <2>1. PICK t \in Since :
          g = [got EXCEPT !.counters = total, !.since = t, !.days = DaysSince(t)]
    BY <1>10 DEF Answers
  <2>2. QED BY <1>3, <2>1, DaysAnswered DEF Answer
<1>11. CASE q \in Counter
  <2>1. g = [got EXCEPT !.counters[q] = total[q]]
    BY <1>11 DEF Answers, Counter
  <2>2. [got.counters EXCEPT ![q] = total[q]] \in [Counter -> Nat]
    BY <1>3, <1>11 DEF Answer
  <2>3. QED BY <2>1, <2>2 DEF Answer
<1>12. QED
  BY <1>4, <1>5, <1>6, <1>7, <1>8, <1>9, <1>10, <1>11 DEF Asked, Counter

LEMMA PageInit == DashboardInit => PageOK
<1> SUFFICES ASSUME DashboardInit PROVE PageOK
  OBVIOUS
<1>1. query = <<>> /\ page = 0 /\ got = NoAnswer /\ before = NoCounts
  BY DEF DashboardInit
<1>2. Len(Queries) \in Nat
  BY QueriesOfObject, QueriesOfSQLite
<1>3. QueriesLeft
  BY <1>1, <1>2 DEF QueriesLeft
<1>4. QED BY <1>1, <1>3, NoAnswerType DEF PageOK, NoCounts

LEMMA QueriesStart ==
  ASSUME query' = Queries, backend' = backend
  PROVE  QueriesLeft'
<1>1. Queries' = Queries
  BY DEF Queries
<1>2. Queries \in Seq(Asked) /\ Len(Queries) \in Nat
  BY QueriesOfObject, QueriesOfSQLite
<1>3. QED BY <1>1, <1>2 DEF QueriesLeft

LEMMA PageNext == DataOK /\ PageOK /\ [DashboardNext]_allVars => PageOK'
<1> SUFFICES ASSUME DataOK, PageOK, [DashboardNext]_allVars PROVE PageOK'
  OBVIOUS
<1>1. backend' = backend
  BY DEF DashboardNext, Begin, Statement, StatementError, Open, Migrate, End, FirstPage,
         NextPage, Query, Request, allVars, vars
<1>2. NoAnswer \in Answer
  BY NoAnswerType
<1>3. Queries' = Queries
  BY <1>1 DEF Queries
<1>4. Len(Queries) \in Nat
  BY QueriesOfObject, QueriesOfSQLite
<1>5. CASE UNCHANGED <<query, page, got, before>>
  BY <1>3, <1>5 DEF PageOK, QueriesLeft
<1>6. CASE Drop
  BY <1>3, <1>4, <1>6 DEF PageOK, QueriesLeft, Drop
<1>7. ASSUME NEW p \in Nat \ {0}, Request(p) PROVE PageOK'
  <2>1. QueriesLeft'
    BY <1>1, <1>7, QueriesStart DEF Request
  <2>2. QED BY <1>2, <1>7, <2>1 DEF Request, PageOK, DataOK
<1>8. CASE Query
  <2>1. QueriesLeft' /\ Head(query) \in Asked
    BY <1>1, <1>8, QueriesGoOn, NextQuery DEF PageOK, Query
  <2>2. got' \in Answer
    BY <1>8, <2>1, AnswersType DEF PageOK, Query
  <2>3. query' # <<>> => page' > 0
    BY <1>8 DEF PageOK, Query
  <2>4. QED BY <1>8, <2>1, <2>2, <2>3 DEF PageOK, Query
<1>9. CASE FirstPage \/ NextPage
  BY <1>7, <1>9 DEF FirstPage, NextPage, PageOK
<1>10. QED
  BY <1>5, <1>6, <1>8, <1>9 DEF DashboardNext, Watch, browser, allVars

\* What a page's queries have returned has its type, and the queries that are left
\* are the last of List and Stats (dashboardData, server.go).
THEOREM PageTypes == DashboardSpec => []PageOK
<1>1. QED
  BY CatalogOfDashboard, DataInit, DataNext, PageInit, PageNext, PTL DEF DashboardSpec

----
(* The bars of the days.                                                   *)

LEMMA LongestIs ==
  ASSUME NEW D \in SUBSET Day, NEW byDay \in [D -> [Counter -> Nat]]
  PROVE  /\ Longest(byDay) \in Nat
         /\ \A d \in D : byDay[d]["hits"] + byDay[d]["misses"] <= Longest(byDay)
         /\ \/ Longest(byDay) = 0
            \/ \E d \in D : byDay[d]["hits"] + byDay[d]["misses"] = Longest(byDay)
<1> DEFINE long == [d \in D |-> byDay[d]["hits"] + byDay[d]["misses"]]
           S == {byDay[d]["hits"] + byDay[d]["misses"] : d \in D}
           L == {0} \cup S
<1>1. \A d \in D : byDay[d]["hits"] \in Nat /\ byDay[d]["misses"] \in Nat
  BY DEF Counter
<1>2. L \subseteq Nat /\ L # {}
  BY <1>1
<1>3. long \in Surjection(D, S)
  BY DEF Surjection
<1>4. IsFiniteSet(L)
  <2>1. IsFiniteSet(D)
    BY DaysAreFinite, FS_Subset
  <2> HIDE DEF long, S
  <2>2. IsFiniteSet(S)
    BY <1>3, <2>1, FS_Surjection
  <2>3. L = S \cup {0}
    OBVIOUS
  <2> HIDE DEF L
  <2>4. QED BY <2>2, <2>3, FS_AddElement
<1>5. \E n \in L : \A m \in L : m <= n
  <2> HIDE DEF L
  <2>1. QED BY <1>2, <1>4, Greatest
<1>6. \E n \in L : \A m \in L : n >= m
  <2>1. PICK n \in L : \A m \in L : m <= n
    BY <1>5
  <2>2. \A m \in L : m \in Nat
    BY <1>2
  <2> HIDE DEF L
  <2>3. \A m \in L : n >= m
    BY <2>1, <2>2
  <2>4. QED BY <2>3
<1>7. Longest(byDay) = CHOOSE n \in L : \A m \in L : n >= m
  BY DEF Longest, Max
<1>8. Longest(byDay) \in L /\ \A m \in L : Longest(byDay) >= m
  <2> HIDE DEF L
  <2>1. QED BY <1>6, <1>7
<1>9. \A d \in D : byDay[d]["hits"] + byDay[d]["misses"] \in L
  OBVIOUS
<1>10. Longest(byDay) \in Nat
  BY <1>2, <1>8
<1>11. \A d \in D : byDay[d]["hits"] + byDay[d]["misses"] <= Longest(byDay)
  <2> HIDE DEF L
  <2>1. QED BY <1>1, <1>8, <1>9, <1>10
<1>12. QED BY <1>8, <1>10, <1>11

LEMMA TrafficShown ==
  ASSUME NEW g \in Answer
  PROVE  /\ DOMAIN DashboardPage(g).stats.traffic = DOMAIN g.days
         /\ \A d \in DOMAIN g.days :
              /\ DashboardPage(g).stats.traffic[d].numbers = g.days[d]
              /\ DashboardPage(g).stats.traffic[d].bar = DayBars(g.days)[d]
BY DEF DashboardPage, StatsSection, Traffic, NewDashboard

LEMMA BarsOfDays == PageOK => BarsFillTheFrame
<1> SUFFICES ASSUME PageOK PROVE BarsFillTheFrame
  OBVIOUS
<1> DEFINE by == got.days
           n == Longest(by)
           width(d) == DayBars(by)[d]["hits"] + DayBars(by)[d]["misses"]
<1>0. got \in Answer /\ by \in ShownDays
  BY DEF PageOK, Answer
<1>1. PICK D \in SUBSET Day : by \in [D -> [Counter -> Nat]]
  BY <1>0 DEF ShownDays
<1>2. \A d \in D : by[d]["hits"] \in Nat /\ by[d]["misses"] \in Nat
  BY <1>1 DEF Counter
<1>3. /\ n \in Nat
      /\ \A d \in D : by[d]["hits"] + by[d]["misses"] <= n
      /\ n = 0 \/ \E d \in D : by[d]["hits"] + by[d]["misses"] = n
  <2> HIDE DEF by
  <2>1. QED BY <1>1, LongestIs
<1>4. \A d \in D : width(d) = IF n = 0 THEN 0 ELSE (by[d]["hits"] * 100) \div n
                                                 + (by[d]["misses"] * 100) \div n
  BY <1>1 DEF DayBars
<1> HIDE DEF n, width, by
<1>5. ASSUME NEW d \in D, n # 0
      PROVE  /\ width(d) <= 100
             /\ by[d]["hits"] + by[d]["misses"] = n => width(d) >= 99
  <2>1. width(d) = (by[d]["hits"] * 100) \div n + (by[d]["misses"] * 100) \div n
    BY <1>4, <1>5
  <2>2. /\ n \in Nat \ {0} /\ by[d]["hits"] \in Nat /\ by[d]["misses"] \in Nat
        /\ by[d]["hits"] + by[d]["misses"] <= n
    BY <1>2, <1>3, <1>5
  <2> DEFINE a == by[d]["hits"]
             b == by[d]["misses"]
  <2> HIDE DEF a, b
  <2>3. /\ (a * 100) \div n + (b * 100) \div n <= 100
        /\ a + b = n => (a * 100) \div n + (b * 100) \div n >= 99
    <3>1. n \in Nat \ {0} /\ a \in Nat /\ b \in Nat /\ a + b <= n
      BY <2>2 DEF a, b
    <3>2. QED BY <3>1, TwoShares
  <2>4. QED BY <2>1, <2>3 DEF a, b
<1>6. /\ \A d \in D : width(d) <= 100
      /\ (\E d \in D : by[d]["hits"] + by[d]["misses"] > 0) =>
           \E d \in D : width(d) >= 99
  <2>1. CASE n = 0
    <3>1. \A d \in D : width(d) = 0 /\ ~(by[d]["hits"] + by[d]["misses"] > 0)
      BY <1>2, <1>3, <1>4, <2>1
    <3>2. QED BY <3>1
  <2>2. CASE n # 0
    BY <1>3, <1>5, <2>2
  <2>3. QED BY <2>1, <2>2
<1>7. /\ DOMAIN Shown.stats.traffic = D
      /\ \A d \in D : /\ Shown.stats.traffic[d].numbers = by[d]
                      /\ Shown.stats.traffic[d].bar = DayBars(by)[d]
  BY <1>0, <1>1, TrafficShown DEF Shown, by
<1>8. QED BY <1>6, <1>7 DEF BarsFillTheFrame, width

\* The bars of a day, of which the two statements of its counters may have left
\* any numbers, fit the frame and the longest fills it (NewDashboard, models.go).
THEOREM BarsAlwaysFit == DashboardSpec => []BarsFillTheFrame
<1>1. QED BY PageTypes, BarsOfDays, PTL

----
(* What a page says of the counters.                                       *)

\* The sum of the entries by kind, without the kinds that have none.
LEMMA PieHoldsAll ==
  ASSUME DataOK
  PROVE  Cardinality(Present) =
           Total([k \in {k \in Kinds : ByKind[k] > 0} |-> ByKind[k]])
<1> DEFINE K == {k \in Kinds : ByKind[k] > 0}
           f == [k \in K |-> ByKind[k]]
           Of(s) == {h \in Present : rows[h].kind \in s}
           v == [s \in SUBSET K |-> Cardinality(Of(s))]
<1>1. IsFiniteSet(Kinds) /\ IsFiniteSet(K)
  <2>1. IsFiniteSet(Kinds)
    BY FiniteAssumption, FS_AddElement DEF Kinds
  <2>2. QED BY <2>1, FS_Subset
<1>2. ByKind \in [Kinds -> Nat] /\ f \in [K -> Nat]
  BY ByKindType
<1>3. \A k \in Kinds : ByKind[k] = Cardinality(Of({k}))
  <2>1. \A k \in Kinds : ByKind[k] = Cardinality({h \in Present : rows[h].kind = k})
    BY DEF ByKind, Kinds
  <2>2. \A k : {h \in Present : rows[h].kind = k} = Of({k})
    OBVIOUS
  <2> HIDE DEF Of
  <2>3. QED BY <2>1, <2>2
<1>4. \A s : IsFiniteSet(Of(s)) /\ Cardinality(Of(s)) \in Nat
  <2>1. \A s : Of(s) \in SUBSET Hash
    BY MatchesAreFinite
  <2> HIDE DEF Of
  <2>2. QED BY <2>1, MatchesAreFinite
<1>5. v[{}] = 0
  <2>1. Of({}) = {}
    OBVIOUS
  <2>2. QED BY <2>1, FS_EmptySet
<1>6. ASSUME NEW s \in SUBSET K, NEW x \in s
      PROVE  v[s] = f[x] + v[s \ {x}]
  <2>1. Of(s) = Of({x}) \cup Of(s \ {x}) /\ Of({x}) \cap Of(s \ {x}) = {}
    OBVIOUS
  <2>2. f[x] = Cardinality(Of({x}))
    BY <1>3
  <2>3. v[s] = Cardinality(Of(s)) /\ v[s \ {x}] = Cardinality(Of(s \ {x}))
    OBVIOUS
  <2> HIDE DEF Of, f, v
  <2>4. Cardinality(Of(s)) = Cardinality(Of({x})) + Cardinality(Of(s \ {x})) - Cardinality({})
    BY <1>4, <2>1, FS_Union
  <2>5. QED BY <1>4, <2>2, <2>3, <2>4, FS_EmptySet
<1>7. Total(f) = v[K]
  <2> HIDE DEF v, f, K
  <2>1. SumsUp(v, f, K)
    BY <1>5, <1>6 DEF SumsUp
  <2>2. QED BY <1>1, <1>2, <2>1, SumIs, Zenon DEF Total
<1>8. Of(K) = Present
  <2> SUFFICES ASSUME NEW h \in Present PROVE rows[h].kind \in K
    OBVIOUS
  <2>1. rows[h].kind \in Kinds
    BY DEF DataOK, Rows, Row, Present, Kinds
  <2>2. h \in Of({rows[h].kind})
    OBVIOUS
  <2> HIDE DEF Of
  <2>3. Cardinality(Of({rows[h].kind})) # 0
    BY <1>4, <2>2, FS_EmptySet
  <2>4. ByKind[rows[h].kind] # 0 /\ ByKind[rows[h].kind] \in Nat
    BY <1>2, <1>3, <2>1, <2>3
  <2>5. ByKind[rows[h].kind] > 0
    BY ONLY <2>4
  <2>6. QED BY <2>1, <2>5
<1>9. v[K] = Cardinality(Of(K))
  OBVIOUS
<1> HIDE DEF Of, v, K, f
<1>10. Cardinality(Present) = Total(f)
  BY <1>7, <1>8, <1>9
<1>11. QED BY <1>10 DEF f, K

\* A counter never shrinks.
LEMMA TotalsGrow ==
  DataOK /\ [Next]_vars => \A c \in Counter : total[c] <= total'[c]
<1> SUFFICES ASSUME DataOK, [Next]_vars, NEW c \in Counter
             PROVE  total[c] <= total'[c]
  OBVIOUS
<1>1. total \in [Counter -> Nat]
  BY DEF DataOK
<1>2. CASE total' = total
  BY <1>1, <1>2
<1>3. ASSUME NEW w \in Writer, Effect(w) PROVE total[c] <= total'[c]
  BY <1>1, <1>3 DEF Effect, RowOnly, TotalFirst, DayLast, BothAtOnce
<1>4. ASSUME NEW w \in Writer, Statement(w) PROVE total[c] <= total'[c]
  BY <1>3, <1>4, StatementDoes
<1>5. QED
  BY <1>2, <1>4 DEF Next, Begin, StatementError, Open, Migrate, End, file, vars

\* How many queries of SQLite's are left when the counter has been read.
LeftAfter(c) == IF c = "hits" THEN 4 ELSE IF c = "misses" THEN 3 ELSE 2

Between(c) == before[c] <= got.counters[c] /\ got.counters[c] <= total[c]

PieOf(kinds) == Total([k \in {k \in Kinds : kinds[k] > 0} |-> kinds[k]])

CountersRead ==
  query # <<>> =>
    /\ \A c \in Counter : before[c] <= total[c]
    /\ backend # "s3" => \A c \in Counter : Len(query) <= LeftAfter(c) => Between(c)
    /\ backend = "s3" /\ Len(query) = 1 => got.entries = PieOf(got.kinds)

\* What a query makes of the counters that are read.
LEMMA AnswersCounters ==
  ASSUME got \in Answer, NEW q \in Asked, q # "countersAndDays", NEW g \in Answers(q)
  PROVE  \A c \in Counter : g.counters[c] = IF q = c THEN total[c] ELSE got.counters[c]
<1>1. CASE q \in Counter
  <2>1. g = [got EXCEPT !.counters[q] = total[q]]
    BY <1>1 DEF Answers, Counter
  <2>2. QED BY <1>1, <2>1 DEF Answer
<1>2. CASE q \notin Counter
  <2>1. g.counters = got.counters
    <3>1. CASE q = "count"
      BY <3>1 DEF Answers, Answer
    <3>2. CASE q = "select"
      BY <3>2 DEF Answers, Answer
    <3>3. CASE q = "list"
      BY <3>3 DEF Answers, Answer
    <3>4. CASE q = "entries"
      BY <3>4 DEF Answers, Answer
    <3>5. CASE q = "kinds"
      BY <3>5 DEF Answers, Answer
    <3>6. CASE q = "entriesAndKinds"
      BY <3>6 DEF Answers, Answer
    <3>7. CASE q = "days"
      <4>1. PICK t \in Since : g = [got EXCEPT !.since = t, !.days = DaysSince(t)]
        BY <3>7 DEF Answers
      <4>2. QED BY <4>1 DEF Answer
    <3>8. QED
      BY <1>2, <3>1, <3>2, <3>3, <3>4, <3>5, <3>6, <3>7 DEF Asked, Counter
  <2>2. QED BY <1>2, <2>1
<1>3. QED BY <1>1, <1>2

LEMMA CountersReadNext ==
  DataOK /\ PageOK /\ CountersRead /\ [DashboardNext]_allVars => CountersRead'
<1> SUFFICES ASSUME DataOK, PageOK, CountersRead, [DashboardNext]_allVars PROVE CountersRead'
  OBVIOUS
<1>0. backend' = backend
  BY DEF DashboardNext, Begin, Statement, StatementError, Open, Migrate, End, FirstPage,
         NextPage, Query, Request, allVars, vars
<1>1. /\ total \in [Counter -> Nat] /\ before \in [Counter -> Nat]
      /\ got.counters \in [Counter -> Nat]
  BY DEF DataOK, PageOK, Answer
<1>2. DataOK' /\ \A c \in Counter : total[c] <= total'[c]
  BY TotalsGrow, DataNext, CatalogOfDashboard
<1>3. total' \in [Counter -> Nat]
  BY <1>2 DEF DataOK
<1>4. CASE UNCHANGED <<query, page, got, before>>
  BY <1>0, <1>1, <1>2, <1>3, <1>4 DEF CountersRead, Between
<1>5. CASE Drop
  BY <1>5 DEF Drop, CountersRead
<1>6. ASSUME NEW p, Request(p) PROVE CountersRead'
  <2>1. query' = Queries /\ before' = total /\ total' = total
    BY <1>6 DEF Request, vars, file
  <2> DEFINE m == Len(query')
  <2>2. (backend = "s3" => m = 3) /\ (backend # "s3" => m = 8)
    BY <2>1, QueriesOfObject, QueriesOfSQLite
  <2> HIDE DEF m
  <2>3. \A c \in Counter : LeftAfter(c) \in {2, 3, 4}
    BY DEF LeftAfter
  <2>4. backend # "s3" => \A c \in Counter : ~(m <= LeftAfter(c))
    BY <2>2, <2>3
  <2>5. backend = "s3" => m # 1
    BY <2>2
  <2>6. QED BY <1>0, <1>1, <2>1, <2>4, <2>5 DEF CountersRead, m
<1>7. CASE Query
  <2> DEFINE n == Len(query)
             m == Len(query')
             q == Head(query)
  <2>1. /\ total' = total /\ before' = before /\ query # <<>> /\ query' = Tail(query)
        /\ QueriesLeft /\ got' \in Answers(q) /\ got \in Answer
    BY <1>7 DEF Query, vars, file, PageOK
  <2>2. /\ backend = "s3" => n \in 1..3 /\ q = NextOfObject(n)
        /\ backend # "s3" => n \in 1..8 /\ q = NextOfSQLite(n)
        /\ q \in Asked
    BY <2>1, NextQuery
  <2>3. m = n - 1
    BY <1>0, <2>1, QueriesGoOn
  <2>4. /\ \A c \in Counter : before[c] <= total[c]
        /\ backend # "s3" => \A c \in Counter : n <= LeftAfter(c) => Between(c)
    BY <2>1 DEF CountersRead
  <2> HIDE DEF n, m, q
  <2>5. ASSUME NEW c \in Counter, backend # "s3", m <= LeftAfter(c)
        PROVE  Between(c)'
    <3>1. q # "countersAndDays"
      BY <2>2, <2>5 DEF NextOfSQLite
    <3>2. got'.counters[c] = IF q = c THEN total[c] ELSE got.counters[c]
      BY <2>1, <2>2, <3>1, AnswersCounters
    <3>3. CASE q = c
      BY <1>1, <2>1, <2>4, <3>2, <3>3 DEF Between
    <3>4. CASE q # c
      <4>1. n \in 1..8 /\ n - 1 <= LeftAfter(c) /\ NextOfSQLite(n) # c
        BY <2>2, <2>3, <2>5, <3>4
      <4>2. /\ NextOfSQLite(5) = "hits" /\ LeftAfter("hits") = 4
            /\ NextOfSQLite(4) = "misses" /\ LeftAfter("misses") = 3
            /\ NextOfSQLite(3) = "stores" /\ LeftAfter("stores") = 2
        BY DEF NextOfSQLite, LeftAfter
      <4>3. n <= LeftAfter(c)
        BY <4>1, <4>2 DEF Counter
      <4>4. Between(c)
        BY <2>4, <2>5, <4>3
      <4>5. QED BY <2>1, <3>2, <3>4, <4>4 DEF Between
    <3>5. QED BY <3>3, <3>4
  <2>6. ASSUME backend = "s3", m = 1
        PROVE  got'.entries = PieOf(got'.kinds)
    <3>1. n \in 1..3
      BY <2>2, <2>6
    <3>2. n = 2
      BY <2>3, <2>6, <3>1
    <3>3. q = "entriesAndKinds"
      BY <2>2, <2>6, <3>2 DEF NextOfObject
    <3>4. got' = [got EXCEPT !.entries = Cardinality(Present), !.kinds = ByKind]
      BY <2>1, <3>3 DEF Answers
    <3>5. got'.entries = Cardinality(Present) /\ got'.kinds = ByKind
      BY <2>1, <3>4 DEF Answer
    <3>6. QED BY <3>5, PieHoldsAll DEF PieOf
  <2>7. QED BY <1>0, <2>1, <2>4, <2>5, <2>6 DEF CountersRead, m
<1>8. QED
  BY <1>4, <1>5, <1>6, <1>7
  DEF DashboardNext, Watch, browser, allVars, FirstPage, NextPage

LEMMA CountersReadInit == DashboardInit => CountersRead
BY DEF DashboardInit, CountersRead

LEMMA StatsShown ==
  ASSUME NEW g \in Answer
  PROVE  /\ DashboardPage(g).stats.cards.counters = g.counters
         /\ DashboardPage(g).stats.cards.artifacts = g.entries
         /\ DashboardPage(g).stats.pie = KindLegend(g.kinds)
BY DEF DashboardPage, StatsSection, Cards, Pie, NewDashboard

\* The numbers next to the slices are those of the kinds.
LEMMA LegendShown ==
  ASSUME NEW kinds \in [Kinds -> Nat]
  PROVE  Total([k \in DOMAIN KindLegend(kinds) |-> KindLegend(kinds)[k].count]) = PieOf(kinds)
<1> DEFINE K == {k \in Kinds : kinds[k] > 0}
           pie == KindLegend(kinds)
<1>1. pie = [k \in K |-> [count |-> kinds[k], percent |-> (kinds[k] * 100) \div Total(kinds)]]
  BY DEF KindLegend
<1> HIDE DEF pie
<1>2. DOMAIN pie = K /\ \A k \in K : pie[k].count = kinds[k]
  BY <1>1
<1> HIDE DEF K
<1>3. [k \in DOMAIN pie |-> pie[k].count] = [k \in K |-> kinds[k]]
  BY <1>2
<1>4. QED BY <1>3 DEF pie, PieOf, K

\* The last query of a page, and what the page says.
HonestReport ==
  LET stats == DashboardPage(got').stats
  IN /\ \A c \in Counter :
          /\ before[c] <= stats.cards.counters[c] /\ stats.cards.counters[c] <= total[c]
          /\ stats.cards.counters[c] <= cut[c] + Cardinality(HalfDone(c)) +
               Total([d \in Day |-> IF d < got'.since THEN days[d][c]
                                   ELSE IF d \in DOMAIN stats.traffic
                                          THEN stats.traffic[d].numbers[c] ELSE 0])
     /\ backend = "s3" =>
          stats.cards.artifacts =
            Total([k \in DOMAIN stats.pie |-> stats.pie[k].count])

LEMMA HonestNext ==
  ASSUME DataOK, PageOK, CountersRead, TotalsLeadDays, Query, Len(query) = 1
  PROVE  HonestReport
<1> DEFINE q == Head(query)
<1>1. /\ query # <<>> /\ QueriesLeft /\ got' \in Answers(q) /\ got \in Answer
  BY DEF Query, PageOK
<1>2. /\ backend = "s3" => q = "countersAndDays"
      /\ backend # "s3" => q = "days"
  BY <1>1, NextQuery DEF NextOfObject, NextOfSQLite
<1>3. \A c \in Counter : /\ before[c] <= total[c]
                         /\ backend # "s3" => Between(c)
  BY <1>1 DEF CountersRead, LeftAfter
<1>4. backend = "s3" => got.entries = PieOf(got.kinds)
  BY <1>1 DEF CountersRead
<1> HIDE DEF q
<1>5. /\ total \in [Counter -> Nat] /\ before \in [Counter -> Nat]
      /\ days \in [Day -> [Counter -> Nat]]
  BY DEF DataOK, PageOK
<1>6. PICK t \in Since :
        /\ got'.since = t /\ got'.days = DaysSince(t)
        /\ got'.entries = got.entries /\ got'.kinds = got.kinds
        /\ got'.counters = IF backend = "s3" THEN total ELSE got.counters
        /\ got' \in Answer
  <2>0. \A t \in Since : t \in Int /\ DaysSince(t) \in ShownDays
    BY DaysAnswered
  <2>1. CASE backend = "s3"
    <3>1. PICK t \in Since :
            got' = [got EXCEPT !.counters = total, !.since = t, !.days = DaysSince(t)]
      BY <1>1, <1>2, <2>1 DEF Answers
    <3>2. QED BY <1>1, <1>5, <2>0, <2>1, <3>1 DEF Answer
  <2>2. CASE backend # "s3"
    <3>1. PICK t \in Since : got' = [got EXCEPT !.since = t, !.days = DaysSince(t)]
      BY <1>1, <1>2, <2>2 DEF Answers
    <3>2. QED BY <1>1, <1>5, <2>0, <2>2, <3>1 DEF Answer
  <2>3. QED BY <2>1, <2>2
<1> DEFINE stats == DashboardPage(got').stats
<1>7. /\ stats.cards.counters = got'.counters
      /\ stats.cards.artifacts = got.entries
      /\ stats.pie = KindLegend(got.kinds)
  BY <1>6, StatsShown
<1>8. \A d \in Day :
        /\ d \in DOMAIN stats.traffic <=> days[d] # NoCounts /\ d >= got'.since
        /\ d \in DOMAIN stats.traffic => stats.traffic[d].numbers = days[d]
  BY <1>6, TrafficShown, DaysAnswered
<1>9. got.kinds \in [Kinds -> Nat]
  BY <1>1 DEF Answer
<1> HIDE DEF stats
<1>10. ASSUME NEW c \in Counter
       PROVE  /\ before[c] <= stats.cards.counters[c]
              /\ stats.cards.counters[c] <= total[c]
  BY <1>3, <1>5, <1>6, <1>7 DEF Between
<1>11. ASSUME NEW c \in Counter
       PROVE  stats.cards.counters[c] <= cut[c] + Cardinality(HalfDone(c)) +
                Total([d \in Day |-> IF d < got'.since THEN days[d][c]
                                    ELSE IF d \in DOMAIN stats.traffic
                                           THEN stats.traffic[d].numbers[c] ELSE 0])
  <2> DEFINE shownOf(d) == IF d < got'.since THEN days[d][c]
                           ELSE IF d \in DOMAIN stats.traffic
                                  THEN stats.traffic[d].numbers[c] ELSE 0
  <2>0. \A d \in Day : shownOf(d) = days[d][c]
    <3> SUFFICES ASSUME NEW d \in Day, ~(d < got'.since) PROVE shownOf(d) = days[d][c]
      OBVIOUS
    <3>1. d \in Int /\ got'.since \in Int
      BY <1>6, DayLengthAssumption, QuotientBounds DEF Day, Answer
    <3>2. d >= got'.since
      BY <3>1
    <3>3. CASE days[d] = NoCounts
      BY <1>8, <3>3 DEF NoCounts
    <3>4. CASE days[d] # NoCounts
      BY <1>8, <3>2, <3>4
    <3>5. QED BY <3>3, <3>4
  <2>1. [d \in Day |-> shownOf(d)] = [d \in Day |-> days[d][c]]
    BY <2>0
  <2>2. Total([d \in Day |-> shownOf(d)]) = SumOfDays(c)
    BY <2>1 DEF Total, SumOfDays
  <2>3. total[c] = SumOfDays(c) + cut[c] + Cardinality(HalfDone(c))
    BY DEF TotalsLeadDays
  <2>4. SumOfDays(c) \in Nat /\ cut[c] \in Nat /\ Cardinality(HalfDone(c)) \in Nat
    BY SumOfDaysType, HalfCountType DEF DataOK, HalfCount
  <2>5. stats.cards.counters[c] <= total[c]
    BY <1>10
  <2>6. QED BY <2>2, <2>3, <2>4, <2>5
<1>12. backend = "s3" =>
         stats.cards.artifacts = Total([k \in DOMAIN stats.pie |-> stats.pie[k].count])
  BY <1>4, <1>7, <1>9, LegendShown
<1>13. QED BY <1>10, <1>11, <1>12 DEF HonestReport, stats

\* A page never says of a counter what was not true while it was made; the days
\* it shows and those too old for it make up the counter, up to bumps half done
\* or cut, and the pie holds what is counted (Stats, store.go and object.go).
THEOREM ReportsAreHonest == DashboardSpec => ReportIsHonest
<1>1. DataOK /\ PageOK /\ CountersRead /\ TotalsLeadDays =>
        (Query /\ Len(query) = 1 => HonestReport)
  BY HonestNext
<1>2. DashboardSpec => [](DataOK /\ PageOK /\ CountersRead /\ TotalsLeadDays)
  BY CatalogOfDashboard, DataInit, DataNext, LeadInit, LeadNext, PageInit, PageNext,
     CountersReadInit, CountersReadNext, PTL DEF DashboardSpec
<1>3. DashboardSpec => [][Query /\ Len(query) = 1 => HonestReport]_allVars
  BY <1>1, <1>2, PTL
<1>4. QED BY <1>3, PTL DEF HonestReport, ReportIsHonest

----
(* The rows of a page.                                                     *)

LEMMA MatchesHaveTimes ==
  DataOK => \A h \in Matches : rows[h].createdAt \in Nat /\ rows[h] # NoRow /\ h \in Hash
BY DayLengthAssumption DEF DataOK, Rows, Row, Matches, Found

\* The rows stand in one order.
LEMMA RowsAreOrdered ==
  ASSUME DataOK, NEW o \in Orders, NEW x \in Matches, NEW y \in Matches
  PROVE  /\ x \notin Before(o, x)
         /\ x # y => x \in Before(o, y) \/ y \in Before(o, x)
         /\ x \in Before(o, y) => Before(o, x) \subseteq Before(o, y)
<1> DEFINE at(h) == rows[h].createdAt
<1>1. \A h \in Matches : at(h) \in Nat /\ h \in Hash
  BY MatchesHaveTimes
<1>2. Cardinality(Hash) \in Nat
  BY MatchesAreFinite
<1>3. /\ \A g \in Matches : o[g] \in Nat
      /\ \A g, h \in Matches : g # h => o[g] # o[h]
  BY <1>1, <1>2 DEF Orders, IsInjective
<1>4. \A g, h \in Matches :
        g \in Before(o, h) <=> at(g) > at(h) \/ (g # h /\ at(g) = at(h) /\ o[g] < o[h])
  BY DEF Before, Newer
<1>5. Before(o, x) \subseteq Matches
  BY DEF Before, Newer
<1> HIDE DEF at
<1>6. x \notin Before(o, x)
  BY <1>1, <1>4
<1>7. ASSUME x # y PROVE x \in Before(o, y) \/ y \in Before(o, x)
  <2>1. at(x) \in Nat /\ at(y) \in Nat /\ o[x] \in Nat /\ o[y] \in Nat /\ o[x] # o[y]
    BY <1>1, <1>3, <1>7, Zenon
  <2>2. /\ at(x) > at(y) => x \in Before(o, y)
        /\ at(y) > at(x) => y \in Before(o, x)
        /\ at(x) = at(y) /\ o[x] < o[y] => x \in Before(o, y)
        /\ at(x) = at(y) /\ o[y] < o[x] => y \in Before(o, x)
    BY <1>4, <1>7
  <2>3. QED BY <2>1, <2>2
<1>8. ASSUME x \in Before(o, y), NEW g \in Before(o, x)
      PROVE  g \in Before(o, y)
  <2>1. g \in Matches
    BY <1>5
  <2>2. /\ at(x) \in Nat /\ at(y) \in Nat /\ at(g) \in Nat
        /\ o[x] \in Nat /\ o[y] \in Nat /\ o[g] \in Nat
    BY <1>1, <1>3, <2>1, Zenon
  <2>3. /\ at(x) > at(y) \/ (at(x) = at(y) /\ o[x] < o[y])
        /\ at(g) > at(x) \/ (at(g) = at(x) /\ o[g] < o[x])
    BY <1>4, <1>8, <2>1
  <2>4. at(g) > at(y) \/ (at(g) = at(y) /\ o[g] < o[y])
    BY <2>2, <2>3
  <2>5. o[g] < o[y] => g # y
    BY <2>2
  <2>6. QED BY <1>4, <2>1, <2>4, <2>5
<1>9. QED BY <1>6, <1>7, <1>8

\* How many rows h stands behind.
Place(o, h) == Cardinality(Before(o, h))

LEMMA PlacesGrow ==
  ASSUME DataOK, NEW o \in Orders
  PROVE  /\ \A h \in Matches : Place(o, h) \in Nat
         /\ \A x, y \in Matches : x \in Before(o, y) => Place(o, x) < Place(o, y)
         /\ \A x, y \in Matches : x # y => Place(o, x) # Place(o, y)
<1>1. \A h : Before(o, h) \in SUBSET Hash
  BY MatchesAreFinite DEF Before, Newer
<1>2. \A h : IsFiniteSet(Before(o, h)) /\ Place(o, h) \in Nat
  BY <1>1, MatchesAreFinite DEF Place
<1>3. ASSUME NEW x \in Matches, NEW y \in Matches, x \in Before(o, y)
      PROVE  Place(o, x) < Place(o, y)
  <2>1. x \notin Before(o, x) /\ Before(o, x) \subseteq Before(o, y)
    BY <1>3, RowsAreOrdered
  <2>2. Place(o, x) <= Place(o, y) /\ Place(o, x) # Place(o, y)
    BY <1>2, <1>3, <2>1, FS_Subset DEF Place
  <2>3. QED BY <1>2, <2>2
<1>4. ASSUME NEW x \in Matches, NEW y \in Matches, x # y
      PROVE  Place(o, x) # Place(o, y)
  BY <1>2, <1>3, <1>4, RowsAreOrdered
<1>5. QED BY <1>2, <1>3, <1>4

\* Where there is a row that stands behind n, there is one that stands behind n
\* exactly: no page in front of it is empty.
LEMMA EveryPlaceIsTaken ==
  ASSUME DataOK, NEW o \in Orders, NEW h \in Matches, NEW n \in Nat, n <= Place(o, h)
  PROVE  \E g \in Matches : Place(o, g) = n
<1> DEFINE Behind == {g \in Matches : n <= Place(o, g)}
           T == {Place(o, g) : g \in Behind}
<1>1. T \subseteq Nat /\ T # {}
  BY PlacesGrow
<1>2. PICK m \in T : \A k \in T : m <= k
  <2> HIDE DEF T
  <2>1. QED BY <1>1, Least
<1>3. PICK g \in Behind : Place(o, g) = m
  BY <1>2
<1>4. ASSUME n < m PROVE FALSE
  <2> DEFINE B == Before(o, g)
             place == [x \in B |-> Place(o, x)]
  <2>1. B \subseteq Matches /\ B \in SUBSET Hash
    BY MatchesAreFinite DEF Before, Newer
  <2>2. \A x \in B : Place(o, x) \in Nat /\ Place(o, x) < m
    BY <1>3, <2>1, PlacesGrow
  <2>3. \A x \in B : Place(o, x) < n
    <3> SUFFICES ASSUME NEW x \in B, n <= Place(o, x) PROVE FALSE
      BY <2>2
    <3>1. Place(o, x) \in T
      BY <2>1
    <3> HIDE DEF T
    <3>2. m <= Place(o, x) /\ m \in Nat
      BY <1>1, <1>2, <3>1
    <3>3. QED BY <2>2, <3>2
  <2>4. place \in [B -> 0..(n - 1)]
    BY <2>2, <2>3
  <2>5. IsFiniteSet(B) /\ Cardinality(B) = m
    BY <1>3, <2>1, MatchesAreFinite DEF Place
  <2>6. IsFiniteSet(0..(n - 1)) /\ Cardinality(0..(n - 1)) = n
    BY FS_Interval
  <2> HIDE DEF B, place
  <2>7. PICK x \in B, y \in B : x # y /\ place[x] = place[y]
    BY <1>4, <2>4, <2>5, <2>6, FS_PigeonHole
  <2>8. Place(o, x) # Place(o, y)
    BY <2>1, <2>7, PlacesGrow
  <2>9. QED BY <2>7, <2>8 DEF place
<1>5. m \in Nat /\ n <= m
  BY <1>1, <1>3
<1>6. Place(o, g) = n
  BY <1>3, <1>4, <1>5
<1>7. QED BY <1>6

----
(* The walk.                                                               *)

\* The rows of the page have been asked for, or the page has been shown.
Listed == Len(query) <= IF backend = "s3" THEN 2 ELSE 6

\* The pages whose rows have been asked for.
Reached == IF Listed THEN page ELSE page - 1

SteadyOK == \A h \in steady : h \in Matches /\ Alone(h, rows)

ShownOK ==
  /\ page > 0 /\ query = <<>> => got.page \subseteq shown
  /\ ~Listed => got.page = {}

\* The entries the walk owes.
Waiting == steady \ (shown \cup got.page)

\* They stand behind the rows of all the pages so far,
Behind == \A h \in Waiting : Cardinality(Newer(h)) >= Reached * PageSize

\* and the page says that there are more.
MoreToCome ==
  Listed /\ ~arrived /\ Waiting # {} => got.total > page * PageSize /\ got.page # {}

\* Nothing came or went between the count and the rows.
CountHolds ==
  backend # "s3" /\ Len(query) = 7 /\ ~arrived => got.total = Cardinality(Matches)

WalkOK ==
  /\ SteadyOK /\ ShownOK
  /\ page > 0 /\ ~departed => Behind /\ MoreToCome /\ CountHolds

LEMMA WalkInit == DashboardInit => WalkOK
<1> SUFFICES ASSUME DashboardInit PROVE WalkOK
  OBVIOUS
<1>1. query = <<>> /\ page = 0 /\ steady = {}
  BY DEF DashboardInit
<1>2. Listed
  BY <1>1 DEF Listed
<1>3. QED BY <1>1, <1>2 DEF WalkOK, SteadyOK, ShownOK

\* No page of the walk stands before less than it did, while rows only come.
LEMMA WalkWatch ==
  ASSUME DataOK, PageOK, WalkOK, RowsGoOn, backend' = backend, Watch
  PROVE  WalkOK'
<1>1. /\ query' = query /\ page' = page /\ got' = got /\ shown' = shown
      /\ steady' \subseteq steady /\ filter' = filter
  BY DEF Watch
<1>2. Listed' = Listed /\ Reached' = Reached
  BY <1>1 DEF Listed, Reached
<1>3. SteadyOK'
  <2> SUFFICES ASSUME NEW h \in steady' PROVE (h \in Matches /\ Alone(h, rows))'
    BY DEF SteadyOK
  <2>1. h \in Hash
    BY <1>1 DEF WalkOK, SteadyOK, Matches
  <2>2. Found(h, rows') /\ Alone(h, rows')
    BY DEF Watch
  <2>3. QED BY <1>1, <2>1, <2>2 DEF Matches, Alone, Found
<1>4. ShownOK'
  BY <1>1, <1>2 DEF WalkOK, ShownOK
<1>5. Waiting' \subseteq Waiting
  BY <1>1 DEF Waiting
<1>6. ASSUME page > 0, ~departed'
      PROVE  (Behind /\ MoreToCome /\ CountHolds)'
  <2>1. ~departed /\ \A h \in Hash : Found(h, rows) => Found(h, rows')
    BY <1>6 DEF Watch
  <2>2. Behind /\ MoreToCome /\ CountHolds
    BY <1>6, <2>1 DEF WalkOK
  <2>3. Matches \subseteq Matches' /\ Matches' \in SUBSET Hash
    BY <1>1, <2>1 DEF Matches, Found
  <2>4. \A h \in Matches : rows'[h].createdAt = rows[h].createdAt
    BY <2>3 DEF RowsGoOn, KeepsRow, Matches, Found
  <2>5. \A h \in Matches : Newer(h) \subseteq Newer(h)' /\ Newer(h)' \in SUBSET Hash
    BY <2>3, <2>4 DEF Newer
  <2>6. Behind'
    <3> SUFFICES ASSUME NEW h \in Waiting' PROVE Cardinality(Newer(h)') >= Reached' * PageSize
      BY DEF Behind
    <3>1. h \in Waiting /\ h \in Matches
      BY <1>5 DEF WalkOK, SteadyOK, Waiting
    <3>2. Cardinality(Newer(h)) >= Reached * PageSize
      BY <2>2, <3>1 DEF Behind
    <3>3. /\ Cardinality(Newer(h)) <= Cardinality(Newer(h)')
          /\ Cardinality(Newer(h)') \in Nat /\ Cardinality(Newer(h)) \in Nat
      BY <2>5, <3>1, MatchesAreFinite, FS_Subset
    <3>4. Reached * PageSize \in Int
      BY PageSizeAssumption DEF PageOK, Reached
    <3> DEFINE bound == Reached * PageSize
    <3>5. Reached' * PageSize = bound
      BY <1>2
    <3> HIDE DEF bound
    <3>6. QED BY <3>2, <3>3, <3>4, <3>5 DEF bound
  <2>7. MoreToCome'
    BY <1>1, <1>2, <1>5, <2>2 DEF MoreToCome, Watch
  <2>8. CountHolds'
    <3> SUFFICES ASSUME backend # "s3", Len(query) = 7, ~arrived'
                 PROVE  got.total = Cardinality(Matches')
      BY <1>1 DEF CountHolds
    <3>1. Head(query) = "select" /\ query # <<>>
      <4>1. query # <<>> /\ QueriesLeft
        BY DEF PageOK
      <4>2. Head(query) = NextOfSQLite(Len(query))
        BY <4>1, NextQuery
      <4>3. NextOfSQLite(7) = "select"
        BY DEF NextOfSQLite
      <4>4. QED BY <4>1, <4>2, <4>3
    <3>2. ~arrived /\ \A h \in Hash : Found(h, rows') => Found(h, rows)
      BY <3>1 DEF Watch, Lists
    <3>3. Matches' = Matches
      BY <1>1, <2>3, <3>2 DEF Matches, Found
    <3>4. QED BY <2>2, <3>2, <3>3 DEF CountHolds
  <2>9. QED BY <2>6, <2>7, <2>8
<1>7. QED BY <1>1, <1>3, <1>4, <1>6 DEF WalkOK

\* What a query makes of the rows and their number.
LEMMA AnswersRows ==
  ASSUME got \in Answer, NEW q \in Asked, NEW g \in Answers(q)
  PROVE  /\ g.total = IF q \in {"list", "count"} THEN Cardinality(Matches) ELSE got.total
         /\ q \notin {"list", "select"} => g.page = got.page
         /\ q \in {"list", "select"} => \E o \in Orders : g.page = PageOf(o)
<1>1. CASE q = "list"
  <2>1. PICK o \in Orders : g = [got EXCEPT !.total = Cardinality(Matches), !.page = PageOf(o)]
    BY <1>1 DEF Answers
  <2>2. g.total = Cardinality(Matches) /\ g.page = PageOf(o)
    BY <2>1 DEF Answer
  <2>3. QED BY <1>1, <2>2
<1>2. CASE q = "select"
  <2>1. PICK o \in Orders : g = [got EXCEPT !.page = PageOf(o)]
    BY <1>2 DEF Answers
  <2>2. g.total = got.total /\ g.page = PageOf(o)
    BY <2>1 DEF Answer
  <2>3. QED BY <1>2, <2>2
<1>3. CASE q = "count"
  BY <1>3 DEF Answers, Answer
<1>4. CASE q \notin {"list", "select", "count"}
  <2>1. g.total = got.total /\ g.page = got.page
    <3>1. CASE q \in Counter
      BY <3>1 DEF Answers, Answer, Counter
    <3>2. CASE q = "entries"
      BY <3>2 DEF Answers, Answer
    <3>3. CASE q = "kinds"
      BY <3>3 DEF Answers, Answer
    <3>4. CASE q = "entriesAndKinds"
      BY <3>4 DEF Answers, Answer
    <3>5. CASE q = "days"
      <4>1. PICK t \in Since : g = [got EXCEPT !.since = t, !.days = DaysSince(t)]
        BY <3>5 DEF Answers
      <4>2. QED BY <4>1 DEF Answer
    <3>6. CASE q = "countersAndDays"
      <4>1. PICK t \in Since :
              g = [got EXCEPT !.counters = total, !.since = t, !.days = DaysSince(t)]
        BY <3>6 DEF Answers
      <4>2. QED BY <4>1 DEF Answer
    <3>7. QED BY <1>4, <3>1, <3>2, <3>3, <3>4, <3>5, <3>6 DEF Asked, Counter
  <2>2. QED BY <1>4, <2>1
<1>5. QED BY <1>1, <1>2, <1>3, <1>4

\* A row that stands behind the pages so far and is not on this one stands behind
\* it, too; there are rows for another page, and this one is not empty.
LEMMA RowsOfPage ==
  ASSUME DataOK, page \in Nat, page > 0, NEW o \in Orders,
         NEW h \in Matches, Alone(h, rows), h \notin PageOf(o),
         Cardinality(Newer(h)) >= (page - 1) * PageSize
  PROVE  /\ Cardinality(Newer(h)) >= page * PageSize
         /\ Cardinality(Matches) > page * PageSize
         /\ PageOf(o) # {}
<1> DEFINE low == (page - 1) * PageSize
           high == page * PageSize
<1>1. low \in Nat /\ high \in Nat /\ low < high
  <2>1. high = low + PageSize
    BY PageSizeAssumption
  <2>2. low \in Nat
    BY PageSizeAssumption
  <2> HIDE DEF low, high
  <2>3. QED BY <2>1, <2>2, PageSizeAssumption
<1>2. Before(o, h) = Newer(h)
  BY MatchesHaveTimes DEF Before, Alone, Matches, Found
<1>3. \A g \in Matches : g \in PageOf(o) <=> low <= Place(o, g) /\ Place(o, g) < high
  BY DEF PageOf, Place
<1>4. Place(o, h) \in Nat /\ Place(o, h) = Cardinality(Newer(h)) /\ Place(o, h) >= low
  BY <1>2, PlacesGrow DEF Place
<1> HIDE DEF low, high
<1>5. Place(o, h) >= high
  BY <1>1, <1>3, <1>4
<1>6. Cardinality(Matches) > high
  <2>1. h \notin Newer(h) /\ Newer(h) \cup {h} \subseteq Matches
    BY MatchesHaveTimes DEF Newer
  <2>2. IsFiniteSet(Matches) /\ IsFiniteSet(Newer(h)) /\ Cardinality(Matches) \in Nat
    BY MatchesAreFinite DEF Newer
  <2>3. /\ Cardinality(Newer(h) \cup {h}) = Cardinality(Newer(h)) + 1
        /\ Cardinality(Newer(h) \cup {h}) <= Cardinality(Matches)
    BY <2>1, <2>2, FS_AddElement, FS_Subset
  <2>4. QED BY <1>1, <1>4, <1>5, <2>2, <2>3
<1>7. PICK g \in Matches : Place(o, g) = low
  BY <1>1, <1>4, EveryPlaceIsTaken
<1>8. g \in PageOf(o)
  BY <1>1, <1>3, <1>7
<1>9. QED BY <1>4, <1>5, <1>6, <1>8 DEF high

LEMMA WalkQuery ==
  ASSUME DataOK, PageOK, WalkOK, Query
  PROVE  WalkOK'
<1> DEFINE n == Len(query)
           m == Len(query')
           q == Head(query)
<1>1. /\ rows' = rows /\ filter' = filter
      /\ backend' = backend /\ page' = page /\ steady' = steady
      /\ departed' = departed /\ arrived' = arrived
      /\ query # <<>> /\ query' = Tail(query) /\ QueriesLeft
      /\ got \in Answer /\ got' \in Answers(q)
      /\ page \in Nat /\ page > 0
  BY DEF Query, vars, file, PageOK
<1>2. /\ backend = "s3" => n \in 1..3 /\ q = NextOfObject(n)
      /\ backend # "s3" => n \in 1..8 /\ q = NextOfSQLite(n)
      /\ q \in Asked
  BY <1>1, NextQuery
<1>3. m = n - 1
  BY <1>1, QueriesGoOn
<1>4. shown' = IF n = 1 THEN shown \cup got'.page ELSE shown
  BY DEF Query, DashboardPage, EntriesSection, NewDashboard
<1>5. query' = <<>> => m = 0
  OBVIOUS
<1>6. /\ Listed <=> n <= IF backend = "s3" THEN 2 ELSE 6
      /\ Listed' <=> m <= IF backend = "s3" THEN 2 ELSE 6
  BY <1>1 DEF Listed
<1>7. Matches' = Matches /\ \A h : Newer(h)' = Newer(h) /\ (Alone(h, rows)' <=> Alone(h, rows))
  BY <1>1 DEF Matches, Found, Newer, Alone
<1>8. SteadyOK'
  BY <1>1, <1>7 DEF WalkOK, SteadyOK
<1>9. CountHolds' <=> (backend # "s3" /\ m = 7 /\ ~arrived => got'.total = Cardinality(Matches))
  BY <1>1, <1>7 DEF CountHolds
<1> HIDE DEF n, m, q
<1>10. CASE q \in {"list", "select"}
  <2>1. n # 1 /\ ~Listed /\ Listed' /\ m # 0 /\ m # 7
    BY <1>2, <1>3, <1>6, <1>10 DEF NextOfObject, NextOfSQLite
  <2>2. q = "select" => backend # "s3" /\ n = 7
    BY <1>2, <1>10 DEF NextOfObject, NextOfSQLite
  <2>3. PICK o \in Orders : got'.page = PageOf(o)
    BY <1>1, <1>2, <1>10, AnswersRows
  <2>4. got.page = {} /\ Waiting = steady \ shown /\ Waiting' = (steady \ shown) \ PageOf(o)
    BY <1>1, <1>4, <2>1, <2>3 DEF WalkOK, ShownOK, Waiting
  <2>5. Reached = page - 1 /\ Reached' = page
    BY <1>1, <2>1 DEF Reached
  <2>6. ASSUME ~departed, NEW h \in Waiting'
        PROVE  /\ Cardinality(Newer(h)) >= page * PageSize
               /\ Cardinality(Matches) > page * PageSize
               /\ PageOf(o) # {}
    <3>1. h \in Waiting /\ h \notin PageOf(o) /\ h \in Matches /\ Alone(h, rows)
      BY <2>4 DEF WalkOK, SteadyOK
    <3>2. Cardinality(Newer(h)) >= (page - 1) * PageSize
      BY <1>1, <2>5, <2>6, <3>1 DEF WalkOK, Behind
    <3>3. QED BY <1>1, <3>1, <3>2, RowsOfPage
  <2>7. ~departed /\ ~arrived => got'.total = Cardinality(Matches)
    <3>1. q = "list" => got'.total = Cardinality(Matches)
      BY <1>1, <1>2, AnswersRows
    <3>2. q = "select" => got'.total = got.total
      BY <1>1, <1>2, AnswersRows
    <3>3. ~departed /\ ~arrived /\ q = "select" => got.total = Cardinality(Matches)
      BY <1>1, <2>2 DEF WalkOK, CountHolds, n
    <3>4. QED BY <1>10, <3>1, <3>2, <3>3
  <2>8. ~departed => Behind'
    BY <1>7, <2>5, <2>6 DEF Behind
  <2>9. ~departed => MoreToCome'
    <3>1. MoreToCome' <=> (~arrived /\ Waiting' # {} =>
                            got'.total > page * PageSize /\ PageOf(o) # {})
      BY <1>1, <2>1, <2>3 DEF MoreToCome
    <3>2. QED BY <2>6, <2>7, <3>1
  <2>10. ShownOK'
    BY <1>5, <2>1 DEF ShownOK
  <2>11. QED BY <1>1, <1>8, <1>9, <2>1, <2>8, <2>9, <2>10 DEF WalkOK
<1>11. CASE q \notin {"list", "select"}
  <2>1. Listed' = Listed
    <3>1. CASE backend = "s3"
      <4>1. n # 3
        BY <1>2, <1>11, <3>1 DEF NextOfObject
      <4>2. Listed /\ Listed'
        BY <1>2, <1>3, <1>6, <3>1, <4>1
      <4>3. QED BY <4>2
    <3>2. CASE backend # "s3"
      <4>1. n # 7
        BY <1>2, <1>11, <3>2 DEF NextOfSQLite
      <4>2. n \in 1..6 \/ n = 8
        BY <1>2, <3>2, <4>1
      <4>3. (n \in 1..6 => Listed /\ Listed') /\ (n = 8 => ~Listed /\ ~Listed')
        BY <1>3, <1>6, <3>2
      <4>4. Listed \in BOOLEAN /\ Listed' \in BOOLEAN
        BY DEF Listed
      <4>5. QED BY <4>2, <4>3, <4>4
    <3>3. QED BY <3>1, <3>2
  <2>2. got'.page = got.page
    BY <1>1, <1>2, <1>11, AnswersRows
  <2>3. Waiting' = Waiting
    BY <1>1, <1>4, <2>2 DEF Waiting
  <2>4. ShownOK'
    <3>1. m = 0 => got'.page \subseteq shown'
      BY <1>2, <1>3, <1>4
    <3>2. QED BY <1>5, <2>1, <2>2, <3>1 DEF WalkOK, ShownOK
  <2>5. ~departed => Behind'
    <3>1. Reached' = Reached
      BY <1>1, <2>1 DEF Reached
    <3>2. QED BY <1>1, <1>7, <2>3, <3>1 DEF WalkOK, Behind
  <2>6. ~departed => MoreToCome'
    <3>1. Listed => got'.total = got.total
      <4>1. Listed => q # "count"
        BY <1>2, <1>6 DEF NextOfObject, NextOfSQLite
      <4>2. QED BY <1>1, <1>2, <1>11, <4>1, AnswersRows
    <3>2. QED BY <1>1, <2>1, <2>2, <2>3, <3>1 DEF WalkOK, MoreToCome
  <2>7. CountHolds'
    <3>1. backend # "s3" /\ m = 7 => q = "count"
      BY <1>2, <1>3 DEF NextOfSQLite
    <3>2. q = "count" => got'.total = Cardinality(Matches)
      BY <1>1, <1>2, AnswersRows
    <3>3. QED BY <1>9, <3>1, <3>2
  <2>8. QED BY <1>1, <1>8, <2>4, <2>5, <2>6, <2>7 DEF WalkOK
<1>12. QED BY <1>10, <1>11

LEMMA WalkRequest ==
  ASSUME DataOK, PageOK, WalkOK, FirstPage \/ NextPage
  PROVE  WalkOK'
<1>1. /\ rows' = rows /\ backend' = backend /\ query' = Queries /\ got' = NoAnswer
  BY DEF FirstPage, NextPage, Request, vars, file
<1>2. NoAnswer.page = {}
  BY DEF NoAnswer
<1> DEFINE m == Len(query')
<1>3. (backend = "s3" => m = 3) /\ (backend # "s3" => m = 8)
  BY <1>1, QueriesOfObject, QueriesOfSQLite
<1>4. query' = <<>> => m = 0
  OBVIOUS
<1>5. Listed' <=> m <= IF backend = "s3" THEN 2 ELSE 6
  BY <1>1 DEF Listed
<1>6. CountHolds' <=> (backend # "s3" /\ m = 7 /\ ~arrived' => NoAnswer.total = Cardinality(Matches'))
  BY <1>1 DEF CountHolds
<1> HIDE DEF m
<1>7. ~Listed' /\ query' # <<>> /\ CountHolds'
  BY <1>3, <1>4, <1>5, <1>6
<1>8. ShownOK' /\ MoreToCome'
  BY <1>1, <1>2, <1>7 DEF ShownOK, MoreToCome
<1>9. Matches' \in SUBSET Hash /\ \A h : Newer(h)' \in SUBSET Hash
  BY DEF Matches, Newer
<1>10. Reached' = page' - 1 /\ Waiting' = steady' \ shown'
  BY <1>1, <1>2, <1>7 DEF Reached, Waiting
<1>11. CASE FirstPage
  <2>1. page' = 1 /\ steady' = {h \in Matches' : Alone(h, rows)'}
    BY <1>11 DEF FirstPage, Request
  <2>2. SteadyOK'
    BY <2>1 DEF SteadyOK
  <2>3. Reached' * PageSize = 0
    BY <1>10, <2>1, PageSizeAssumption
  <2>4. \A h : Cardinality(Newer(h)') >= 0
    BY <1>9, MatchesAreFinite
  <2>5. Behind'
    BY <2>3, <2>4 DEF Behind
  <2>6. QED BY <1>7, <1>8, <2>2, <2>5 DEF WalkOK
<1>12. CASE NextPage
  <2>1. /\ page' = page + 1 /\ steady' = steady /\ shown' = shown /\ departed' = departed
        /\ query = <<>> /\ page > 0 /\ page \in Nat /\ filter' = filter
    BY <1>12 DEF NextPage, Request, Loaded, PageOK
  <2>0. Matches' = Matches /\ \A h : Newer(h)' = Newer(h) /\ (Alone(h, rows)' <=> Alone(h, rows))
    BY <1>1, <2>1 DEF Matches, Found, Newer, Alone
  <2>2. SteadyOK'
    BY <2>0, <2>1 DEF WalkOK, SteadyOK
  <2>3. Listed /\ Reached = page
    BY <2>1 DEF Listed, Reached
  <2>4. Waiting' \subseteq Waiting
    BY <1>10, <2>1 DEF WalkOK, ShownOK, Waiting
  <2>5. Reached' = Reached
    BY <1>10, <2>1, <2>3
  <2>6. ~departed' => Behind'
    BY <2>0, <2>1, <2>4, <2>5 DEF WalkOK, Behind
  <2>7. QED BY <1>7, <1>8, <2>2, <2>6 DEF WalkOK
<1>13. QED BY <1>11, <1>12

LEMMA WalkNext == DataOK /\ PageOK /\ WalkOK /\ [DashboardNext]_allVars => WalkOK'
<1> SUFFICES ASSUME DataOK, PageOK, WalkOK, [DashboardNext]_allVars PROVE WalkOK'
  OBVIOUS
<1>1. backend' = backend
  BY DEF DashboardNext, Begin, Statement, StatementError, Open, Migrate, End, FirstPage,
         NextPage, Query, Request, allVars, vars
<1>2. RowsGoOn
  BY CatalogOfDashboard, RowsNext
<1>3. CASE Watch
  BY <1>1, <1>2, <1>3, WalkWatch
<1>4. CASE UNCHANGED browser /\ rows' = rows
  <2>1. Matches' = Matches /\ \A h : Newer(h)' = Newer(h) /\ (Alone(h, rows)' <=> Alone(h, rows))
    BY <1>4 DEF Matches, Found, Newer, Alone, browser
  <2>2. Listed' = Listed /\ Reached' = Reached /\ Waiting' = Waiting
    BY <1>1, <1>4 DEF browser, Listed, Reached, Waiting
  <2>3. SteadyOK'
    BY <1>4, <2>1 DEF WalkOK, SteadyOK, browser
  <2>4. ShownOK'
    BY <1>4, <2>2 DEF WalkOK, ShownOK, browser
  <2>5. Behind => Behind'
    BY <2>1, <2>2 DEF Behind
  <2>6. MoreToCome => MoreToCome'
    BY <1>4, <2>2 DEF MoreToCome, browser
  <2>7. CountHolds => CountHolds'
    BY <1>1, <1>4, <2>1 DEF CountHolds, browser
  <2>8. QED BY <1>4, <2>3, <2>4, <2>5, <2>6, <2>7 DEF WalkOK, browser
<1>5. CASE End /\ Drop
  <2>1. rows' = rows /\ filter' = filter /\ steady' = steady /\ page' = 0 /\ query' = <<>>
    BY <1>5 DEF End, Drop, file
  <2>2. Matches' = Matches /\ \A h : Alone(h, rows)' <=> Alone(h, rows)
    BY <2>1 DEF Matches, Found, Alone
  <2>3. SteadyOK'
    BY <2>1, <2>2 DEF WalkOK, SteadyOK
  <2>4. Listed'
    BY <2>1 DEF Listed
  <2>5. QED BY <2>1, <2>3, <2>4 DEF WalkOK, ShownOK
<1>6. CASE FirstPage \/ NextPage
  BY <1>6, WalkRequest
<1>7. CASE Query
  BY <1>7, WalkQuery
<1>8. CASE (Open \/ Migrate) /\ UNCHANGED browser
  BY <1>4, <1>8 DEF Open, Migrate, file
<1>9. CASE UNCHANGED allVars
  BY <1>4, <1>9 DEF allVars, vars, file
<1>10. QED BY <1>3, <1>5, <1>6, <1>7, <1>8, <1>9 DEF DashboardNext

\* Where the walk ends, it owes nothing.
LEMMA WalkEnds == DataOK /\ PageOK /\ WalkOK => WalkShowsAll
<1> SUFFICES ASSUME DataOK, PageOK, WalkOK, Loaded, ~departed, ~arrived,
                    NEW h \in steady, h \notin shown
             PROVE  page + 1 \in Shown.entries.links
  BY DEF WalkShowsAll
<1>1. query = <<>> /\ page \in Nat /\ page > 0 /\ got \in Answer /\ got.total \in Nat
  BY DEF Loaded, PageOK, Answer
<1>2. Listed
  BY <1>1 DEF Listed
<1>3. h \in Waiting
  BY <1>1 DEF WalkOK, ShownOK, Waiting
<1>4. got.total > page * PageSize /\ got.page # {}
  BY <1>1, <1>2, <1>3 DEF WalkOK, MoreToCome
<1> DEFINE a == got.total + PageSize - 1
           n == a \div PageSize
<1>5. n \in Nat /\ page < n
  <2>1. a \in Nat /\ PageSize \in Nat \ {0}
    BY <1>1, PageSizeAssumption
  <2>2. n \in Nat /\ a < PageSize * n + PageSize
    <3> HIDE DEF a
    <3>1. QED BY <2>1, QuotientBounds
  <2> HIDE DEF n
  <2>3. PageSize * page \in Nat /\ PageSize * page = page * PageSize
    BY <1>1, <2>1
  <2>4. PageSize * page < PageSize * n
    <3>1. PageSize * n \in Nat
      BY <2>1, <2>2
    <3> DEFINE x == PageSize * page
               y == PageSize * n
    <3> HIDE DEF x, y
    <3>2. x \in Nat /\ y \in Nat /\ got.total > x /\ a < y + PageSize
      BY <1>4, <2>2, <2>3, <3>1 DEF x, y
    <3>3. x < y
      BY <1>1, <2>1, <3>2
    <3>4. QED BY <3>3 DEF x, y
  <2>5. page < n
    BY <1>1, <2>1, <2>2, <2>4, SmallerFactor
  <2>6. QED BY <2>2, <2>5
<1> DEFINE data == NewDashboard(got)
<1>6. data.page = page /\ data.entries = got.page /\ data.pages = IF n < 1 THEN 1 ELSE n
  BY DEF NewDashboard
<1>7. Shown.entries.links =
        IF data.entries # {} /\ data.pages > 1 THEN Links(data) ELSE {}
  BY DEF Shown, DashboardPage, EntriesSection
<1> HIDE DEF data, n
<1>8. data.pages = n /\ n > 1
  BY <1>1, <1>5, <1>6
<1>9. page + 1 \in Links(data)
  BY <1>1, <1>5, <1>6, <1>8 DEF Links
<1>10. QED BY <1>4, <1>6, <1>7, <1>8, <1>9

\* A reader who follows Next to the last page has seen every entry that matched
\* the filter all the time, whichever filter it is (the queries of List with their
\* WHERE, LIMIT and OFFSET, MatchesQuery, and the pager).
THEOREM WalksShowAll == DashboardSpec => []WalkShowsAll
<1>1. QED
  BY CatalogOfDashboard, DataInit, DataNext, PageInit, PageNext, WalkInit, WalkNext,
     WalkEnds, PTL DEF DashboardSpec
====
