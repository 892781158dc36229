---- MODULE Access ----
(***************************************************************************)
(* The door of internal/httpserver: whose request it is (clientip.go), the *)
(* allow list and the rate limit per address (access.go) and the gate that *)
(* locks an address out after failed logins (login.go, loginPost of        *)
(* server.go).  Addresses are the keys of two tables that are cut back     *)
(* while requests use them, and a login holds no lock between the gate     *)
(* that admits it and the failure it reports.                              *)
(*                                                                         *)
(* Buckets are counted in parts of a request, Token of them: one tick of   *)
(* the clock adds Rate parts.                                              *)
(***************************************************************************)
EXTENDS Integers, FiniteSets, SequencesExt

CONSTANTS
  IP,            \* addresses
  NotSeen,       \* an address a table has no record of
  Away,          \* the visitor sends no request
  Visitor,       \* connections that send one request after the other
  Address,       \* of each visitor: where its connection comes from
  Proxies,       \* the trusted proxies on the way, the last one is the peer
  Forged,        \* the headers that clients write themselves
  AllowNets,     \* the addresses of IP_ALLOWLIST; none: everybody
  Token,         \* what a request takes
  Rate, Burst,   \* RATE_LIMIT_RPS and the size of a bucket
  BucketCap,     \* more buckets than these are looked through for idle ones
  BucketIdle,    \* two minutes
  MaxFails,      \* failed logins that lock an address out
  LockFor,       \* for how long
  MinIdle,       \* a minute
  MaxMap,        \* the records the gate keeps
  MaxTime,       \* bound: the clock
  MaxRequests    \* bound: requests

\* Who visits is none of the proxies.
ASSUME VisitorAssumption ==
  /\ IsFiniteSet(Visitor)
  /\ Address \in [Visitor -> IP]
  /\ Proxies \in Seq(IP)
  /\ \A v \in Visitor, i \in DOMAIN Proxies : Proxies[i] # Address[v]

ASSUME RateAssumption ==
  /\ Token \in Nat \ {0}
  /\ Rate \in Nat \ {0}
  /\ Burst \in Nat
  /\ Burst >= Token
  /\ BucketIdle \in Nat

\* What a table has for an address, and where a request is.
Bucket == [tokens : 0..Burst, last : Nat]
Attempt == [fails : Nat, seen : Nat, until : Nat]
Place == [is : {"gate", "form"}, ip : IP]

ASSUME AbsenceAssumption ==
  NotSeen \notin Bucket /\ NotSeen \notin Attempt /\ Away \notin Place

\* X-Forwarded-For, and X-Real-IP with one address or none.
ASSUME ForgedAssumption == \A f \in Forged : f.xff \in Seq(IP) /\ f.real \in Seq(IP)

ASSUME GateAssumption ==
  /\ MaxFails \in Nat \ {0}
  /\ LockFor \in Nat
  /\ MinIdle \in Nat
  /\ MaxMap \in Nat \ {0}

VARIABLES
  now,
  buckets,   \* byIP of ipLimiter
  ideal,     \* history: the buckets of a limiter that forgets no address
  attempts,  \* byIP of loginGate
  lock,      \* history: until when an address is locked out
  late,      \* history: failed logins of an address since it was locked out
  at,        \* where the request of a visitor is
  requests

limiter == <<buckets, ideal>>
gate == <<attempts, lock, late>>
doorVars == <<now, limiter, gate, at, requests>>

----
(* Whose request it is.                                                    *)

Trusted == {Proxies[i] : i \in DOMAIN Proxies}

Peer(v) == IF Proxies = <<>> THEN Address[v] ELSE Proxies[Len(Proxies)]

\* The headers the server gets: each proxy appends the address it was called
\* from to X-Forwarded-For, or the first drops it, sets X-Real-IP, and the others
\* pass it on.
Received(v, forged) ==
  IF Proxies = <<>> THEN {forged}
  ELSE {[xff |-> forged.xff \o <<Address[v]>> \o SubSeq(Proxies, 1, Len(Proxies) - 1),
         real |-> forged.real],
        [xff |-> <<>>, real |-> <<Address[v]>>]}

ForwardedChain(headers, peer) ==
  (IF headers.xff # <<>> THEN headers.xff ELSE headers.real) \o <<peer>>

\* Mutant: the address the client claims to have.
LeftmostIP(headers, peer) == ForwardedChain(headers, peer)[1]

\* The first hop from the right that is no trusted proxy; without proxies the
\* headers are not read.
ClientIP(headers, peer) ==
  LET hops == ForwardedChain(headers, peer)
      strangers == {i \in DOMAIN hops : hops[i] \notin Trusted}
  IN IF Proxies = <<>> THEN peer
     ELSE IF strangers = {} THEN hops[1]
     ELSE hops[CHOOSE i \in strangers : \A j \in strangers : j <= i]

Allowed(ip) == AllowNets = {} \/ ip \in AllowNets

----
(* The rate limit.                                                         *)

FullBucket == [tokens |-> Burst, last |-> now]

Level(bucket) ==
  LET tokens == bucket.tokens + (now - bucket.last) * Rate
  IN IF tokens > Burst THEN Burst ELSE tokens

BucketOf(ip) == IF buckets[ip] = NotSeen THEN FullBucket ELSE buckets[ip]

Draw(bucket) ==
  [tokens |-> IF Level(bucket) < Token THEN Level(bucket) ELSE Level(bucket) - Token,
   last |-> now]

Seen(table) == {ip \in IP : table[ip] # NotSeen}

\* Mutant: the table is emptied.
GcAll(table) ==
  IF Cardinality(Seen(table)) > BucketCap THEN [ip \in IP |-> NotSeen] ELSE table

\* gcLocked of ipLimiter, after a request that finds the table too long.
GcBuckets(table) ==
  IF Cardinality(Seen(table)) > BucketCap
    THEN [ip \in IP |-> IF table[ip] # NotSeen /\ now - table[ip].last > BucketIdle
                        THEN NotSeen ELSE table[ip]]
    ELSE table

\* A request passes the allow list and the limiter; /health needs neither.  An
\* address that is not allowed leaves no trace.
Arrive(v, login, headers) ==
  LET ip == ClientIP(headers, Peer(v)) IN
  /\ at[v] = Away
  /\ requests < MaxRequests
  /\ requests' = requests + 1
  /\ Allowed(ip)
  /\ buckets' = GcBuckets([buckets EXCEPT ![ip] = Draw(BucketOf(ip))])
  /\ ideal' = [ideal EXCEPT ![ip] = Draw(ideal[ip])]
  /\ at' = [at EXCEPT ![v] = IF login /\ Level(BucketOf(ip)) >= Token
                             THEN [is |-> "gate", ip |-> ip] ELSE Away]
  /\ UNCHANGED <<now, gate>>

----
(* The login gate.                                                         *)

\* Mutant: one more.
AdmitsOneMore(a) == a = NotSeen \/ now > a.until \/ a.fails <= MaxFails

Admits(a) == a = NotSeen \/ now > a.until \/ a.fails < MaxFails

Touch(a) == IF a = NotSeen THEN a ELSE [a EXCEPT !.seen = now]

\* allow; then the form is read, without the lock.
Gate(v) ==
  /\ at[v] # Away
  /\ at[v].is = "gate"
  /\ attempts' = [attempts EXCEPT ![at[v].ip] = Touch(@)]
  /\ at' = [at EXCEPT ![v] = IF Admits(attempts[at[v].ip]) THEN [@ EXCEPT !.is = "form"] ELSE Away]
  /\ UNCHANGED <<now, limiter, lock, late, requests>>

\* Mutant: a minute is all that counts.
ForgetIdle(table) ==
  [ip \in IP |-> IF table[ip] # NotSeen /\ now - table[ip].seen > MinIdle
                 THEN NotSeen ELSE table[ip]]

\* gcLocked of loginGate.
GcAttempts(table) ==
  LET idle == IF LockFor < MinIdle THEN MinIdle ELSE LockFor
  IN [ip \in IP |-> IF /\ table[ip] # NotSeen
                       /\ now > table[ip].until
                       /\ now - table[ip].seen > idle
                    THEN NotSeen ELSE table[ip]]

\* dropLocked(limit / 2): what a map's iteration happens to keep.
Dropped(table) ==
  {[ip \in IP |-> IF ip \in kept THEN table[ip] ELSE NotSeen] :
     kept \in {k \in SUBSET Seen(table) : Cardinality(k) = MaxMap \div 2}}

\* Mutant: the table is looked through, and grows.
RoomNoDrop(ip) ==
  {IF Cardinality(Seen(attempts)) < MaxMap THEN attempts ELSE GcAttempts(attempts)}

\* The tables failure may leave before it counts: a full one without the idle
\* records, or half empty when a new record would not fit.
Room(ip) ==
  LET table == IF Cardinality(Seen(attempts)) < MaxMap THEN attempts ELSE GcAttempts(attempts)
  IN IF table[ip] = NotSeen /\ Cardinality(Seen(table)) >= MaxMap THEN Dropped(table) ELSE {table}

Count(a) ==
  LET before == IF a = NotSeen \/ (now > a.until /\ a.fails >= MaxFails) THEN 0 ELSE a.fails
      until == IF a = NotSeen THEN 0 ELSE a.until
  IN [fails |-> before + 1, seen |-> now,
      until |-> IF before + 1 >= MaxFails THEN now + LockFor ELSE until]

\* What is left of i's record after a failure of ip that found room in table
\* locks i out, or did before.
Locked(table, ip, i) ==
  IF i = ip THEN Count(table[ip]).fails >= MaxFails
  ELSE table[i] # NotSeen \/ GcAttempts(attempts)[i] = NotSeen

Failure(table, ip) ==
  /\ attempts' = [table EXCEPT ![ip] = Count(@)]
  /\ lock' = [i \in IP |-> IF i = ip /\ Locked(table, ip, i) THEN Count(table[ip]).until
                           ELSE IF lock[i] >= now /\ Locked(table, ip, i) THEN lock[i]
                           ELSE 0]
  /\ late' = [i \in IP |-> IF lock[i] < now \/ ~Locked(table, ip, i) THEN 0
                           ELSE IF i = ip THEN late[i] + 1 ELSE late[i]]

\* A wrong password.
LoginFails(v) ==
  /\ at[v] # Away
  /\ at[v].is = "form"
  /\ \E table \in Room(at[v].ip) : Failure(table, at[v].ip)
  /\ at' = [at EXCEPT ![v] = Away]
  /\ UNCHANGED <<now, limiter, requests>>

LoginSucceeds(v) ==
  /\ at[v] # Away
  /\ at[v].is = "form"
  /\ attempts' = [attempts EXCEPT ![at[v].ip] = NotSeen]
  /\ lock' = [lock EXCEPT ![at[v].ip] = 0]
  /\ late' = [late EXCEPT ![at[v].ip] = 0]
  /\ at' = [at EXCEPT ![v] = Away]
  /\ UNCHANGED <<now, limiter, requests>>

\* ParseForm fails; nothing is counted.
BadForm(v) ==
  /\ at[v] # Away
  /\ at[v].is = "form"
  /\ at' = [at EXCEPT ![v] = Away]
  /\ UNCHANGED <<now, limiter, gate, requests>>

Tick ==
  /\ now < MaxTime
  /\ now' = now + 1
  /\ UNCHANGED <<limiter, gate, at, requests>>

DoorInit ==
  /\ now = 1
  /\ buckets = [ip \in IP |-> NotSeen]
  /\ ideal = [ip \in IP |-> FullBucket]
  /\ attempts = [ip \in IP |-> NotSeen]
  /\ lock = [ip \in IP |-> 0]
  /\ late = [ip \in IP |-> 0]
  /\ at = [v \in Visitor |-> Away]
  /\ requests = 0

DoorNext ==
  \/ \E v \in Visitor :
       \/ \E login \in BOOLEAN, forged \in Forged :
            \E headers \in Received(v, forged) : Arrive(v, login, headers)
       \/ Gate(v) \/ LoginFails(v) \/ LoginSucceeds(v) \/ BadForm(v)
  \/ Tick

DoorSpec == DoorInit /\ [][DoorNext]_doorVars

----

\* Buckets, records and places have their types, and no bucket is from the future.
DoorTypeOK ==
  /\ now \in Nat
  /\ buckets \in [IP -> Bucket \cup {NotSeen}]
  /\ ideal \in [IP -> Bucket]
  /\ attempts \in [IP -> Attempt \cup {NotSeen}]
  /\ at \in [Visitor -> Place \cup {Away}]
  /\ \A ip \in IP : /\ buckets[ip] # NotSeen => buckets[ip].last <= now
                    /\ ideal[ip].last <= now

\* What a bucket that was empty still lacks when it may be forgotten.
Gift ==
  LET lack == Burst - Rate * (BucketIdle + 1) IN IF lack > 0 THEN lack ELSE 0

\* Against a limiter that has a bucket for every address for ever: if an empty
\* bucket is full again by the time it is forgotten, the two decide alike, and
\* that idle addresses are forgotten, and when, cannot be told from outside.
\* Otherwise an address is ahead of its bucket by what was given away with one
\* forgetting, or by a part of a request; it is never a request behind.
LimiterForgetsLittle ==
  \A ip \in IP :
    LET ahead == Level(BucketOf(ip)) - Level(ideal[ip])
    IN IF Gift = 0 THEN ahead = 0
       ELSE -Token < ahead /\ (ahead <= Gift \/ ahead < Token)

\* A client chooses its bucket and its login record only by where it connects
\* from, never by what it writes into the headers.
KeysAreAddresses ==
  \A ip \in Seen(buckets) \cup Seen(attempts) : ip \in {Address[v] : v \in Visitor}

\* From the failure that locks an address out to the end of the lock no login
\* of that address is admitted, unless one that was already let in succeeds or
\* the table overflowed and its record was dropped.
LockHolds ==
  [][\A v \in Visitor : Gate(v) /\ at'[v] # Away => now > lock[at[v].ip]]_doorVars

\* Whoever passed the gate together can fail after it locked, and nobody else.
LateFailuresAreFew ==
  \A ip \in IP :
    late[ip] > 0 => late[ip] < Cardinality({v \in Visitor : Address[v] = ip})

\* However many addresses fail, the records of the gate stay within its limit.
GateIsBounded == Cardinality(Seen(attempts)) <= MaxMap

====
