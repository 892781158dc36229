---- MODULE MCServer ----
(***************************************************************************)
(* The dashboard, the door, the sessions, the metrics and the process of   *)
(* one server.                                                             *)
(* They share no variable: what one of them does the others cannot tell,   *)
(* and each is run with the others at rest instead of in all their         *)
(* interleavings.                                                          *)
(***************************************************************************)
EXTENDS Dashboard, Access, Sessions, Metrics, Lifecycle

CONSTANTS h1, h2, h3, build, test, c1, c2, c3, p1, p2, v1, v2, v3

VARIABLE part

server == <<part, allVars, doorVars, sessionVars, collector, processVars>>

\* What an earlier process left: two entries, one of them never classified.
MCContents == {[h \in {h1, h2, h3} |->
                  IF h = h1 THEN NewRow(2, NoKind, 0)
                  ELSE IF h = h2 THEN NewRow(1, build, 1)
                  ELSE NoRow]}

\* A newcomer in front with its labels, or one without them and with the time of
\* another; a hit with and without a row; a miss of another day; a row that gets
\* another label; a deletion.
MCInput == {UpsertEntry(h3, 3, build), EnsureEntry(h3, 1), RecordHit(h3, 3), RecordMiss(1),
            UpdateTaskInfo(h2, test), Delete({h1})}

\* A string that is in one hash and in a kind, which rows come to have and lose.
MCFilters == {[hashes |-> {h1}, kinds |-> {build}]}

\* Two connections from one address and one from another, behind two proxies.
MCAddress == [v \in {v1, v2, v3} |-> IF v = v3 THEN c2 ELSE c1]
MCProxies == <<p1, p2>>
MCForged == {[xff |-> <<>>, real |-> <<>>], [xff |-> <<c3, p1>>, real |-> <<c3>>]}
MCDuration == {-1, 1, 2, 3}
MCUsernames == {<<"a">>, <<"a", ".", "b">>}

ServerInit ==
  /\ part \in {"dashboard", "door", "sessions", "metrics", "process"}
  /\ DashboardInit
  /\ part # "dashboard" => backend = "s3"
  /\ DoorInit
  /\ SessionInit
  /\ part # "sessions" => random /\ Separable(username)
  /\ CollectorInit
  /\ IF part = "process" THEN ProcessInit ELSE Fresh /\ main = "failed"

ServerNext ==
  /\ UNCHANGED part
  /\ \/ /\ part = "dashboard" /\ DashboardNext
        /\ UNCHANGED <<doorVars, sessionVars, collector, processVars>>
     \/ /\ part = "door" /\ DoorNext
        /\ UNCHANGED <<allVars, sessionVars, collector, processVars>>
     \/ /\ part = "sessions" /\ SessionNext
        /\ UNCHANGED <<allVars, doorVars, collector, processVars>>
     \/ /\ part = "metrics" /\ CollectorNext
        /\ UNCHANGED <<allVars, doorVars, sessionVars, processVars>>
     \/ /\ part = "process" /\ ProcessNext
        /\ UNCHANGED <<allVars, doorVars, sessionVars, collector>>

ServerSpec == ServerInit /\ [][ServerNext]_server

FairServerSpec == ServerSpec /\ DashboardFairness /\ ProcessFairness

====
