---- MODULE Dashboard ----
(***************************************************************************)
(* A browser that walks through the pages of the dashboard while requests, *)
(* the reconcile and cleanups change the catalog: dashboardData of         *)
(* internal/httpserver/server.go with the queries of List and Stats in     *)
(* both catalogs, NewDashboard of internal/web/models.go and the pager of  *)
(* internal/web/dashboard.templ.                                           *)
(*                                                                         *)
(* A page is made of the queries of List, then those of Stats.  Each sees  *)
(* the catalog of its own moment.  Rows with equal creation times come in  *)
(* any order: no ORDER BY or sort.Slice tells them apart.                  *)
(***************************************************************************)
EXTENDS SQLiteCatalog

CONSTANTS PageSize,  \* pageSize of server.go
          Filters,   \* what may be searched for: what a string matches
          DaysShown, \* 7 in the code: today and the six days before
          MaxWalks   \* bound: walks from page 1 on

\* A string q is found in some hashes, and in some labels; kinds stand for all
\* labels.  Without one everything matches.
Filter == [hashes : SUBSET Hash, kinds : SUBSET Kind]

ASSUME PageSizeAssumption == PageSize \in Nat \ {0}
ASSUME FiltersAssumption == Filters \subseteq Filter
ASSUME DaysShownAssumption == DaysShown \in Nat \ {0}

VARIABLES
  filter,    \* the filter of the walk
  query,     \* the queries of the page that are left
  page,      \* the page that is loaded or shown
  got,       \* what the queries returned so far
  shown,     \* history: the entries this walk has shown
  steady,    \* history: rows that matched since the walk began, with times of their own
  departed,  \* history: a row was deleted, or stopped matching, since the walk began
  arrived,   \* history: a row came to match before the page's rows were read
  before,    \* history: the counters when the page's first query was made
  walks

browser == <<filter, query, page, got, shown, steady, departed, arrived, before, walks>>
allVars == <<vars, browser>>

\* Mutant: the days before the counters.
DaysFirst ==
  IF backend = "s3" THEN <<"list", "entriesAndKinds", "countersAndDays">>
  ELSE <<"count", "select", "days", "entries", "hits", "misses", "stores", "kinds">>

\* The statements of List and of Stats; store.Object holds o.mu for all of
\* List, and takes it twice in Stats.
Queries ==
  IF backend = "s3" THEN <<"list", "entriesAndKinds", "countersAndDays">>
  ELSE <<"count", "select", "entries", "hits", "misses", "stores", "kinds", "days">>

NoKinds == [k \in Kind \cup {NoKind} |-> 0]
NoAnswer == [total |-> 0, page |-> {}, entries |-> 0, kinds |-> NoKinds,
             counters |-> NoCounts, since |-> 0, days |-> [d \in {} |-> NoCounts]]

Present == {h \in Hash : rows[h] # NoRow}

\* MatchesQuery, or LIKE.
Found(h, rs) == rs[h] # NoRow /\ (h \in filter.hashes \/ rs[h].kind \in filter.kinds)
Matches == {h \in Hash : Found(h, rows)}

Newer(h) == {g \in Matches : rows[g].createdAt > rows[h].createdAt}

\* The rows h stands behind, in some order of newest first.
Before(order, h) ==
  Newer(h) \cup {g \in Matches \ {h} : /\ rows[g].createdAt = rows[h].createdAt
                                      /\ order[g] < order[h]}

Orders == {o \in [Hash -> 1..Cardinality(Hash)] : IsInjective(o)}

\* Mutant: the offset of page 1 is a page.
PageFrom1(order) ==
  {h \in Matches : LET i == Cardinality(Before(order, h))
                   IN page * PageSize <= i /\ i < (page + 1) * PageSize}

\* LIMIT PageSize OFFSET (page-1)*PageSize.
PageOf(order) ==
  {h \in Matches : LET i == Cardinality(Before(order, h))
                   IN (page - 1) * PageSize <= i /\ i < page * PageSize}

\* GROUP BY kind, or kindCountsFromMap.
ByKind == [k \in Kind \cup {NoKind} |-> Cardinality({h \in Present : rows[h].kind = k})]

\* The days that have a row, of those from since on.
DaysSince(since) == [d \in {d \in Day : days[d] # NoCounts /\ d >= since} |-> days[d]]

\* since, for any day of today that is not before what was counted.
Since ==
  {d + i - DaysShown + 1 : d \in {d \in Day : \A e \in Day : days[e] # NoCounts => e <= d},
                           i \in 0..DaysShown}

\* The answers a query may give.
Answers(q) ==
  CASE q = "count" -> {[got EXCEPT !.total = Cardinality(Matches)]}
    [] q = "select" -> {[got EXCEPT !.page = PageOf(o)] : o \in Orders}
    [] q = "list" -> {[got EXCEPT !.total = Cardinality(Matches), !.page = PageOf(o)]
                        : o \in Orders}
    [] q = "entries" -> {[got EXCEPT !.entries = Cardinality(Present)]}
    [] q = "kinds" -> {[got EXCEPT !.kinds = ByKind]}
    [] q = "entriesAndKinds" -> {[got EXCEPT !.entries = Cardinality(Present),
                                          !.kinds = ByKind]}
    [] q = "days" -> {[got EXCEPT !.since = t, !.days = DaysSince(t)] : t \in Since}
    [] q = "countersAndDays" -> {[got EXCEPT !.counters = total, !.since = t,
                                          !.days = DaysSince(t)] : t \in Since}
    [] OTHER -> {[got EXCEPT !.counters[q] = total[q]]}

----
(* What the page shows of the answers.                                     *)

Total(counts) == SumFunction(counts)

\* Mutant: the longest bar is that of the hits.
LongestHits(byDay) == Max({0} \cup {byDay[d]["hits"] : d \in DOMAIN byDay})

\* maxDay.
Longest(byDay) == Max({0} \cup {byDay[d]["hits"] + byDay[d]["misses"] : d \in DOMAIN byDay})

\* The widths of the two parts of each day's bar, in percent.
DayBars(byDay) ==
  [d \in DOMAIN byDay |-> [c \in {"hits", "misses"} |->
     IF Longest(byDay) = 0 THEN 0 ELSE (byDay[d][c] * 100) \div Longest(byDay)]]

\* The kinds that have entries, with what is written next to their slices.
KindLegend(kinds) ==
  [k \in {k \in DOMAIN kinds : kinds[k] > 0} |->
     [count |-> kinds[k], percent |-> (kinds[k] * 100) \div Total(kinds)]]

\* The data of the page that was asked for.
NewDashboard(g) ==
  LET n == (g.total + PageSize - 1) \div PageSize
  IN [page |-> page, pages |-> IF n < 1 THEN 1 ELSE n, entries |-> g.page,
      artifacts |-> g.entries, counters |-> g.counters, days |-> g.days,
      bars |-> DayBars(g.days), legend |-> KindLegend(g.kinds)]

Cards(data) == [counters |-> data.counters, artifacts |-> data.artifacts]

\* The days, with their numbers and bars; the pie of the kinds; or hints.
Traffic(data) == [d \in DOMAIN data.days |-> [numbers |-> data.days[d], bar |-> data.bars[d]]]
Pie(data) == data.legend

StatsSection(data) == [cards |-> Cards(data), traffic |-> Traffic(data), pie |-> Pie(data)]

\* The pages the pager links to.
Links(data) ==
  {p \in {data.page - 1, data.page + 1} :
     IF p < data.page THEN data.page > 1 ELSE data.page < data.pages}

\* The table, or a hint; the pager is part of a section that has entries.
EntriesSection(data) ==
  [rows |-> data.entries,
   links |-> IF data.entries # {} /\ data.pages > 1 THEN Links(data) ELSE {}]

DashboardPage(g) ==
  [stats |-> StatsSection(NewDashboard(g)), entries |-> EntriesSection(NewDashboard(g))]

Shown == DashboardPage(got)
Loaded == query = <<>> /\ page > 0

----
(* The browser.                                                            *)

Request(p) ==
  /\ query' = Queries
  /\ page' = p
  /\ got' = NoAnswer
  /\ arrived' = FALSE
  /\ before' = total
  /\ UNCHANGED vars

\* No other row of the walk has the time of h.
Alone(h, rs) == \A g \in Hash \ {h} : Found(g, rs) => rs[g].createdAt # rs[h].createdAt

\* GET /?q=: the first page, and what the walk from it can be held to.
FirstPage ==
  /\ phase = "up"
  /\ query = <<>>
  /\ walks < MaxWalks
  /\ walks' = walks + 1
  /\ filter' \in Filters
  /\ Request(1)
  /\ shown' = {}
  /\ steady' = {h \in Matches' : Alone(h, rows)'}
  /\ departed' = FALSE

NextPage ==
  /\ phase = "up"
  /\ Loaded
  /\ page + 1 \in Shown.entries.links
  /\ Request(page + 1)
  /\ UNCHANGED <<filter, shown, steady, departed, walks>>

\* The rows came from the request's queries; the page is sent after the last.
Query ==
  /\ phase = "up"
  /\ query # <<>>
  /\ got' \in Answers(Head(query))
  /\ query' = Tail(query)
  /\ shown' = IF Len(query) = 1 THEN shown \cup DashboardPage(got').entries.rows ELSE shown
  /\ UNCHANGED <<vars, filter, page, steady, departed, arrived, before, walks>>

Lists == {"count", "select", "list"}

\* The catalog changes; the browser notices nothing.
Watch ==
  /\ steady' = {h \in steady : Found(h, rows') /\ Alone(h, rows')}
  /\ departed' = (departed \/ \E h \in Hash : Found(h, rows) /\ ~Found(h, rows'))
  /\ arrived' = (arrived \/ (/\ query # <<>> /\ Head(query) \in Lists
                            /\ \E h \in Hash : ~Found(h, rows) /\ Found(h, rows')))
  /\ UNCHANGED <<filter, query, page, got, shown, before, walks>>

\* A request that is under way dies with the process.
Drop ==
  /\ query' = <<>>
  /\ page' = 0
  /\ UNCHANGED <<filter, got, shown, steady, departed, arrived, before, walks>>

DashboardInit ==
  /\ Init
  /\ filter = [hashes |-> {}, kinds |-> {}]
  /\ query = <<>>
  /\ page = 0
  /\ got = NoAnswer
  /\ shown = {}
  /\ steady = {}
  /\ departed = FALSE
  /\ arrived = FALSE
  /\ before = NoCounts
  /\ walks = 0

DashboardNext ==
  \/ \E w \in Writer : (Begin(w) \/ Statement(w) \/ StatementError(w)) /\ Watch
  \/ (Open \/ Migrate) /\ UNCHANGED browser
  \/ End /\ Drop
  \/ FirstPage \/ NextPage \/ Query

\* A process that is down is started, and its statements end.
DashboardFairness == WF_allVars((Open \/ Migrate) /\ UNCHANGED browser)

DashboardSpec == DashboardInit /\ [][DashboardNext]_allVars /\ DashboardFairness

----

\* Following Next to the last page shows every entry that matched all along,
\* whatever is uploaded, reconciled or classified meanwhile: a row that comes to
\* match only moves others to later pages.  Not promised: entries that share a
\* creation time, a walk during which a matching row is deleted or relabelled,
\* and a last page of SQLite's between whose COUNT and SELECT a row came.
WalkShowsAll ==
  Loaded /\ page + 1 \notin Shown.entries.links /\ ~departed /\ ~arrived =>
    steady \subseteq shown

\* What a page says of a counter was true between its first query and its last.
\* All of it is on the days the page shows, on days too old for it, or in bumps
\* that were half done or cut.  With the S3 catalog, whose two statements of
\* Stats are under one lock each, the pie holds every artifact that is counted;
\* SQLite's may differ by what came and went between its queries.
ReportIsHonest ==
  [][Query /\ Len(query) = 1 =>
       LET stats == DashboardPage(got').stats
       IN /\ \A c \in Counter :
               /\ before[c] <= stats.cards.counters[c] /\ stats.cards.counters[c] <= total[c]
               /\ stats.cards.counters[c] <= cut[c] + Cardinality(HalfDone(c)) +
                    Total([d \in Day |-> IF d < got'.since THEN days[d][c]
                                        ELSE IF d \in DOMAIN stats.traffic
                                               THEN stats.traffic[d].numbers[c] ELSE 0])
          /\ backend = "s3" =>
               stats.cards.artifacts =
                 Total([k \in DOMAIN stats.pie |-> stats.pie[k].count])]_allVars

\* No bar leaves its frame, and the one of the busiest day fills it, up to what
\* rounding takes off: whatever two statements and the end of a process left of
\* a day, and with a page whose days are all empty.
BarsFillTheFrame ==
  Loaded =>
    LET traffic == Shown.stats.traffic
        width(d) == traffic[d].bar["hits"] + traffic[d].bar["misses"]
        count(d) == traffic[d].numbers["hits"] + traffic[d].numbers["misses"]
    IN /\ \A d \in DOMAIN traffic : width(d) <= 100
       /\ (\E d \in DOMAIN traffic : count(d) > 0) => \E d \in DOMAIN traffic : width(d) >= 99

====
