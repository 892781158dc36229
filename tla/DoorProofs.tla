---- MODULE DoorProofs ----
(***************************************************************************)
(* Proofs about Access, for all addresses, proxies, forged headers, rates  *)
(* and limits and any number of visitors, and about Sessions, for any      *)
(* number of tabs, restarts and hours: what stands before the dashboard.   *)
(***************************************************************************)
EXTENDS Access, Sessions, FiniteSetTheorems, TLAPS

----
(* Whose request it is.                                                    *)

\* The hops to the right of the visitor are proxies and the visitor is none, so
\* that the search from the right ends there, whatever is to the left.
LEMMA KeyIsAddress ==
  ASSUME NEW v \in Visitor, NEW forged \in Forged, NEW headers \in Received(v, forged)
  PROVE  ClientIP(headers, Peer(v)) = Address[v]
<1> DEFINE hops == ForwardedChain(headers, Peer(v))
           n == Len(Proxies)
           strangers == {i \in DOMAIN hops : hops[i] \notin Trusted}
<1>1. /\ forged.xff \in Seq(IP) /\ forged.real \in Seq(IP)
      /\ Proxies \in Seq(IP) /\ Address[v] \in IP /\ n \in Nat
      /\ \A i \in 1..n : Proxies[i] # Address[v] /\ Proxies[i] \in IP
  BY ForgedAssumption, VisitorAssumption
<1>2. CASE Proxies = <<>>
  BY <1>2 DEF ClientIP, Peer
<1>3. CASE Proxies # <<>>
  <2>1. n > 0 /\ Peer(v) = Proxies[n] /\ Peer(v) \in IP
    BY <1>1, <1>3 DEF Peer
  <2>2. \E here \in Nat \ {0} :
          /\ hops \in Seq(IP) /\ here <= Len(hops)
          /\ hops[here] = Address[v]
          /\ \A i \in 1..Len(hops) : i > here => \E j \in 1..n : hops[i] = Proxies[j]
    <3> DEFINE front == SubSeq(Proxies, 1, n - 1)
               xff == forged.xff \o <<Address[v]>> \o front
    <3>1. /\ front \in Seq(IP) /\ Len(front) = n - 1
          /\ \A i \in 1..(n - 1) : front[i] = Proxies[i]
      <4>1. n - 1 \in Nat /\ n - 1 <= n
        BY <1>1, <2>1
      <4> DEFINE m == n - 1
      <4>2. m \in Nat /\ m <= Len(Proxies)
        BY <4>1
      <4>3. front = SubSeq(Proxies, 1, m)
        OBVIOUS
      <4> HIDE DEF m, front
      <4>4. /\ front \in Seq(IP) /\ Len(front) = m
            /\ \A i \in 1..m : front[i] = Proxies[i]
        BY <1>1, <4>2, <4>3
      <4>5. QED BY <4>4 DEF m
    <3>2. \/ headers = [xff |-> xff, real |-> forged.real]
          \/ headers = [xff |-> <<>>, real |-> <<Address[v]>>]
      BY <1>3 DEF Received
    <3> HIDE DEF front
    <3>3. CASE headers = [xff |-> xff, real |-> forged.real]
      <4> DEFINE here == Len(forged.xff) + 1
      <4>1. /\ xff \in Seq(IP) /\ Len(xff) = here + n - 1 /\ xff[here] = Address[v]
            /\ \A i \in 1..Len(xff) : i > here => xff[i] = front[i - here] /\ i - here \in 1..(n - 1)
            /\ here \in Nat \ {0} /\ here <= Len(xff)
        <5> DEFINE head == forged.xff \o <<Address[v]>>
        <5>1. /\ head \in Seq(IP) /\ Len(head) = here /\ head[here] = Address[v]
              /\ here \in Nat \ {0}
          BY <1>1
        <5> HIDE DEF head, here
        <5>2. xff = head \o front
          BY DEF head
        <5> HIDE DEF xff
        <5>3. /\ xff \in Seq(IP) /\ Len(xff) = here + (n - 1)
              /\ \A i \in 1..here : xff[i] = head[i]
              /\ \A i \in 1..Len(xff) : i > here => xff[i] = front[i - here]
          BY <1>1, <2>1, <3>1, <5>1, <5>2
        <5>4. \A i \in 1..Len(xff) : i > here => i - here \in 1..(n - 1)
          BY <1>1, <2>1, <5>1, <5>3
        <5>5. here <= Len(xff) /\ Len(xff) = here + n - 1
          BY <1>1, <2>1, <5>1, <5>3
        <5>6. QED BY <5>1, <5>3, <5>4, <5>5
      <4> HIDE DEF xff, here
      <4>2. xff # <<>>
        BY <4>1
      <4>3. hops = xff \o <<Peer(v)>>
        BY <3>3, <4>2 DEF ForwardedChain
      <4>4. /\ hops \in Seq(IP) /\ Len(hops) = Len(xff) + 1
            /\ \A i \in 1..Len(xff) : hops[i] = xff[i]
            /\ hops[Len(xff) + 1] = Proxies[n]
        BY <2>1, <4>1, <4>3
      <4> HIDE DEF hops
      <4>5. ASSUME NEW i \in 1..Len(hops), i > here
            PROVE  \E j \in 1..n : hops[i] = Proxies[j]
        <5>1. CASE i = Len(xff) + 1
          BY <1>1, <2>1, <4>4, <5>1
        <5>2. CASE i # Len(xff) + 1
          <6>1. i \in 1..Len(xff)
            <7>1. Len(xff) \in Nat /\ Len(hops) = Len(xff) + 1
              BY <4>1, <4>4
            <7>2. QED BY <5>2, <7>1
          <6>2. hops[i] = Proxies[i - here] /\ i - here \in 1..n
            BY <1>1, <3>1, <4>1, <4>4, <4>5, <6>1
          <6>3. QED BY <6>2
        <5>3. QED BY <5>1, <5>2
      <4>6. here <= Len(hops) /\ hops[here] = Address[v]
        BY <4>1, <4>4
      <4>7. QED BY <4>1, <4>4, <4>5, <4>6
    <3>4. CASE headers = [xff |-> <<>>, real |-> <<Address[v]>>]
      <4>1. hops = <<Address[v]>> \o <<Peer(v)>>
        BY <3>4 DEF ForwardedChain
      <4>2. hops \in Seq(IP) /\ Len(hops) = 2 /\ hops[1] = Address[v] /\ hops[2] = Proxies[n]
        BY <1>1, <2>1, <4>1
      <4> HIDE DEF hops
      <4>3. \A i \in 1..Len(hops) : i > 1 => \E j \in 1..n : hops[i] = Proxies[j]
        BY <1>1, <2>1, <4>2
      <4>4. QED BY <4>2, <4>3
    <3>5. QED BY <3>2, <3>3, <3>4
  <2>3. PICK here \in Nat \ {0} :
          /\ hops \in Seq(IP) /\ here <= Len(hops)
          /\ hops[here] = Address[v]
          /\ \A i \in 1..Len(hops) : i > here => \E j \in 1..n : hops[i] = Proxies[j]
    BY <2>2
  <2>4. ClientIP(headers, Peer(v)) =
          IF strangers = {} THEN hops[1]
          ELSE hops[CHOOSE i \in strangers : \A j \in strangers : j <= i]
    BY <1>3 DEF ClientIP
  <2>5. DOMAIN hops = 1..Len(hops) /\ Len(hops) \in Nat
    BY <2>3
  <2> HIDE DEF hops
  <2>6. here \in strangers
    BY <1>1, <2>3, <2>5 DEF Trusted
  <2>7. \A i \in strangers : i \in Nat /\ i <= here
    BY <1>1, <2>3, <2>5 DEF Trusted
  <2>8. \A i \in strangers : (\A j \in strangers : j <= i) => i = here
    BY <2>6, <2>7
  <2>9. here = CHOOSE i \in strangers : \A j \in strangers : j <= i
    <3> HIDE DEF strangers
    <3>1. \E i \in strangers : \A j \in strangers : j <= i
      BY <2>6, <2>7
    <3>2. QED BY <2>8, <3>1
  <2>10. strangers # {}
    BY <2>6
  <2>11. QED BY <2>3, <2>4, <2>9, <2>10
<1>4. QED BY <1>2, <1>3

----
(* Types.                                                                  *)

\* The history of the locks, next to the types the model checker sees.
Types ==
  /\ DoorTypeOK
  /\ now >= 1
  /\ lock \in [IP -> Nat]
  /\ late \in [IP -> Nat]

LEMMA RefillIsNatural ==
  ASSUME NEW n \in Nat
  PROVE  n * Rate \in Nat
BY RateAssumption

LEMMA LevelType ==
  ASSUME now \in Nat, NEW b \in Bucket, b.last <= now
  PROVE  Level(b) \in 0..Burst
<1>1. (now - b.last) * Rate \in Nat
  BY RefillIsNatural DEF Bucket
<1>2. QED BY <1>1, RateAssumption DEF Level, Bucket

LEMMA DrawType ==
  ASSUME now \in Nat, NEW b \in Bucket, b.last <= now
  PROVE  Draw(b) \in Bucket /\ Draw(b).last = now
<1>1. Level(b) \in 0..Burst
  BY LevelType
<1>2. QED BY <1>1, RateAssumption DEF Draw, Bucket

LEMMA FullBucketType ==
  ASSUME now \in Nat
  PROVE  FullBucket \in Bucket /\ FullBucket.last = now
BY RateAssumption DEF FullBucket, Bucket

LEMMA GcBucketsKeeps ==
  ASSUME NEW table \in [IP -> Bucket \cup {NotSeen}]
  PROVE  /\ GcBuckets(table) \in [IP -> Bucket \cup {NotSeen}]
         /\ \A ip \in IP :
              GcBuckets(table)[ip] # table[ip]
                => /\ GcBuckets(table)[ip] = NotSeen
                   /\ table[ip] # NotSeen
                   /\ now - table[ip].last > BucketIdle
BY DEF GcBuckets

LEMMA GcAttemptsKeeps ==
  ASSUME NEW table \in [IP -> Attempt \cup {NotSeen}]
  PROVE  /\ GcAttempts(table) \in [IP -> Attempt \cup {NotSeen}]
         /\ \A ip \in IP :
              GcAttempts(table)[ip] # table[ip]
                => /\ GcAttempts(table)[ip] = NotSeen
                   /\ table[ip] # NotSeen
                   /\ now > table[ip].until
BY DEF GcAttempts

LEMMA RoomKeeps ==
  ASSUME attempts \in [IP -> Attempt \cup {NotSeen}], NEW ip \in IP, NEW table \in Room(ip)
  PROVE  /\ table \in [IP -> Attempt \cup {NotSeen}]
         /\ \A i \in IP : table[i] # NotSeen => table[i] = attempts[i]
<1> DEFINE base == IF Cardinality(Seen(attempts)) < MaxMap THEN attempts ELSE GcAttempts(attempts)
<1>1. /\ base \in [IP -> Attempt \cup {NotSeen}]
      /\ \A i \in IP : base[i] # NotSeen => base[i] = attempts[i]
  BY GcAttemptsKeeps
<1>2. table = base \/ table \in Dropped(base)
  BY DEF Room
<1>3. QED BY <1>1, <1>2 DEF Dropped, Seen

LEMMA CountType ==
  ASSUME now \in Nat, NEW a \in Attempt \cup {NotSeen}
  PROVE  /\ Count(a) \in Attempt
         /\ Count(a).fails >= MaxFails => Count(a).until = now + LockFor
BY GateAssumption DEF Count, Attempt

LEMMA TypesInit == DoorInit => Types
<1> SUFFICES ASSUME DoorInit PROVE Types
  OBVIOUS
<1>1. now \in Nat /\ now >= 1
  BY DEF DoorInit
<1>2. FullBucket \in Bucket /\ FullBucket.last = now
  BY <1>1, FullBucketType
<1>3. QED BY <1>1, <1>2, AbsenceAssumption DEF DoorInit, Types, DoorTypeOK

LEMMA TypesNext == Types /\ [DoorNext]_doorVars => Types'
<1> SUFFICES ASSUME Types, [DoorNext]_doorVars PROVE Types'
  OBVIOUS
<1> USE DEF Types, DoorTypeOK
<1>1. ASSUME NEW v \in Visitor, NEW login \in BOOLEAN, NEW forged \in Forged,
             NEW headers \in Received(v, forged), Arrive(v, login, headers)
      PROVE  Types'
  <2> DEFINE ip == ClientIP(headers, Peer(v))
             drawn == [buckets EXCEPT ![ip] = Draw(BucketOf(ip))]
  <2>1. ip \in IP
    BY KeyIsAddress, VisitorAssumption
  <2>2. BucketOf(ip) \in Bucket /\ BucketOf(ip).last <= now
    BY <2>1, FullBucketType DEF BucketOf
  <2>3. Draw(BucketOf(ip)) \in Bucket /\ Draw(BucketOf(ip)).last = now
    BY <2>2, DrawType
  <2>4. Draw(ideal[ip]) \in Bucket /\ Draw(ideal[ip]).last = now
    BY <2>1, DrawType
  <2>5. /\ drawn \in [IP -> Bucket \cup {NotSeen}]
        /\ \A i \in IP : drawn[i] # NotSeen => drawn[i].last <= now
    BY <2>1, <2>3
  <2>6. buckets' = GcBuckets(drawn) /\ now' = now
    BY <1>1 DEF Arrive
  <2>7. /\ buckets' \in [IP -> Bucket \cup {NotSeen}]
        /\ \A i \in IP : buckets'[i] # NotSeen => buckets'[i].last <= now'
    <3> HIDE DEF drawn
    <3>1. QED BY <2>5, <2>6, GcBucketsKeeps
  <2>8. /\ ideal' \in [IP -> Bucket]
        /\ \A i \in IP : ideal'[i].last <= now'
    BY <1>1, <2>1, <2>4 DEF Arrive
  <2>9. at' \in [Visitor -> Place \cup {Away}]
    BY <1>1, <2>1 DEF Arrive, Place
  <2>10. QED BY <1>1, <2>7, <2>8, <2>9 DEF Arrive, gate
<1>2. ASSUME NEW v \in Visitor, Gate(v)
      PROVE  Types'
  <2>1. at[v] \in Place
    BY <1>2 DEF Gate
  <2>2. Touch(attempts[at[v].ip]) \in Attempt \cup {NotSeen}
    BY <2>1 DEF Touch, Attempt, Place
  <2>3. QED BY <1>2, <2>1, <2>2 DEF Gate, limiter, Place
<1>3. ASSUME NEW v \in Visitor, LoginFails(v)
      PROVE  Types'
  <2>1. at[v] \in Place /\ at[v].ip \in IP
    BY <1>3 DEF LoginFails, Place
  <2>2. PICK table \in Room(at[v].ip) : Failure(table, at[v].ip)
    BY <1>3 DEF LoginFails
  <2>3. table \in [IP -> Attempt \cup {NotSeen}]
    BY <2>1, RoomKeeps
  <2>4. Count(table[at[v].ip]) \in Attempt
    BY <2>1, <2>3, CountType
  <2>5. attempts' \in [IP -> Attempt \cup {NotSeen}]
    BY <2>1, <2>2, <2>3, <2>4 DEF Failure
  <2>6. lock' \in [IP -> Nat] /\ late' \in [IP -> Nat]
    BY <2>2, <2>4 DEF Failure, Attempt
  <2>7. QED BY <1>3, <2>5, <2>6 DEF LoginFails, limiter
<1>4. ASSUME NEW v \in Visitor, LoginSucceeds(v)
      PROVE  Types'
  <2>1. at[v] \in Place /\ at[v].ip \in IP
    BY <1>4 DEF LoginSucceeds, Place
  <2>2. QED BY <1>4, <2>1 DEF LoginSucceeds, limiter
<1>5. ASSUME NEW v \in Visitor, BadForm(v)
      PROVE  Types'
  <2>1. at' \in [Visitor -> Place \cup {Away}]
    BY <1>5 DEF BadForm
  <2>2. QED BY <1>5, <2>1 DEF BadForm, limiter, gate
<1>6. CASE Tick
  <2>1. now' = now + 1 /\ UNCHANGED <<buckets, ideal, attempts, lock, late, at>>
    BY <1>6 DEF Tick, limiter, gate
  <2>2. \A ip \in IP : /\ buckets[ip] # NotSeen => buckets[ip].last \in Nat
                       /\ ideal[ip].last \in Nat
    BY DEF Bucket
  <2>3. \A ip \in IP : /\ buckets'[ip] # NotSeen => buckets'[ip].last <= now'
                       /\ ideal'[ip].last <= now'
    BY <2>1, <2>2
  <2>4. QED BY <2>1, <2>3
<1>7. CASE UNCHANGED doorVars
  BY <1>7 DEF doorVars, limiter, gate
<1>8. QED BY <1>1, <1>2, <1>3, <1>4, <1>5, <1>6, <1>7 DEF DoorNext

\* Buckets and records have their types, whatever the doors decide.
THEOREM DoorTypeCorrect == DoorSpec => []Types
<1>1. QED BY TypesInit, TypesNext, PTL DEF DoorSpec

----
(* Keys.                                                                   *)

\* Whoever is inside goes by the address it connected from.
OwnPlaces == \A v \in Visitor : at[v] # Away => at[v].ip = Address[v]

KeysInv == OwnPlaces /\ KeysAreAddresses

LEMMA KeysInit == DoorInit => KeysInv
BY DEF DoorInit, KeysInv, OwnPlaces, KeysAreAddresses, Seen

LEMMA KeysNext == Types /\ KeysInv /\ [DoorNext]_doorVars => KeysInv'
<1> SUFFICES ASSUME Types, KeysInv, [DoorNext]_doorVars PROVE KeysInv'
  OBVIOUS
<1> DEFINE Addresses == {Address[v] : v \in Visitor}
           Own(table) == \A ip \in IP : table[ip] # NotSeen => ip \in Addresses
<1>1. Own(buckets) /\ Own(attempts)
  BY DEF KeysInv, KeysAreAddresses, Seen
<1>2. SUFFICES OwnPlaces' /\ Own(buckets') /\ Own(attempts')
  BY DEF KeysInv, KeysAreAddresses, Seen
<1> USE DEF Types, DoorTypeOK, KeysInv, OwnPlaces
<1>3. ASSUME NEW v \in Visitor, NEW login \in BOOLEAN, NEW forged \in Forged,
             NEW headers \in Received(v, forged), Arrive(v, login, headers)
      PROVE  OwnPlaces' /\ Own(buckets') /\ Own(attempts')
  <2> DEFINE drawn == [buckets EXCEPT ![Address[v]] = Draw(BucketOf(Address[v]))]
  <2>1. ClientIP(headers, Peer(v)) = Address[v] /\ Address[v] \in IP /\ Address[v] \in Addresses
    BY KeyIsAddress, VisitorAssumption
  <2>2. buckets' = GcBuckets(drawn) /\ attempts' = attempts
    BY <1>3, <2>1 DEF Arrive, gate
  <2>3. Own(drawn)
    BY <1>1, <2>1
  <2>4. Own(GcBuckets(drawn))
    BY <2>3 DEF GcBuckets
  <2>5. OwnPlaces'
    BY <1>3, <2>1 DEF Arrive
  <2>6. QED BY <1>1, <2>2, <2>4, <2>5
<1>4. ASSUME NEW v \in Visitor, Gate(v)
      PROVE  OwnPlaces' /\ Own(buckets') /\ Own(attempts')
  <2>1. at[v].ip \in IP /\ at[v] \in Place
    BY <1>4 DEF Gate, Place
  <2>2. Own(attempts')
    BY <1>1, <1>4, <2>1 DEF Gate, Touch
  <2>3. OwnPlaces'
    BY <1>4, <2>1 DEF Gate, Place
  <2>4. QED BY <1>1, <1>4, <2>2, <2>3 DEF Gate, limiter
<1>5. ASSUME NEW v \in Visitor, LoginFails(v)
      PROVE  OwnPlaces' /\ Own(buckets') /\ Own(attempts')
  <2>1. at[v].ip \in IP /\ at[v].ip \in Addresses
    BY <1>5, VisitorAssumption DEF LoginFails
  <2>2. PICK table \in Room(at[v].ip) : Failure(table, at[v].ip)
    BY <1>5 DEF LoginFails
  <2>3. Own(table) /\ table \in [IP -> Attempt \cup {NotSeen}]
    BY <1>1, <2>1, RoomKeeps
  <2>4. attempts' = [table EXCEPT ![at[v].ip] = Count(@)]
    BY <2>2 DEF Failure
  <2>5. Own(attempts')
    BY <2>1, <2>3, <2>4
  <2>6. QED BY <1>1, <1>5, <2>5 DEF LoginFails, limiter
<1>6. ASSUME NEW v \in Visitor, LoginSucceeds(v)
      PROVE  OwnPlaces' /\ Own(buckets') /\ Own(attempts')
  BY <1>1, <1>6 DEF LoginSucceeds, limiter
<1>7. ASSUME NEW v \in Visitor, BadForm(v)
      PROVE  OwnPlaces' /\ Own(buckets') /\ Own(attempts')
  BY <1>1, <1>7 DEF BadForm, limiter, gate
<1>8. CASE Tick \/ UNCHANGED doorVars
  BY <1>1, <1>8 DEF Tick, doorVars, limiter, gate
<1>9. QED BY <1>3, <1>4, <1>5, <1>6, <1>7, <1>8 DEF DoorNext

\* A client chooses its bucket and its login record only by where it connects
\* from (clientIP, forwardedChain).
THEOREM ClientsDoNotChooseKeys == DoorSpec => []KeysAreAddresses
<1>1. KeysInv => KeysAreAddresses
  BY DEF KeysInv
<1>2. QED BY <1>1, TypesInit, TypesNext, KeysInit, KeysNext, PTL DEF DoorSpec

----
(* The rate limit.                                                         *)

\* How far what a limiter has may be from what one that forgets nothing has.
Close(real, perfect) ==
  LET ahead == real - perfect
  IN IF Gift = 0 THEN ahead = 0 ELSE -Token < ahead /\ (ahead <= Gift \/ ahead < Token)

\* A bucket the limiter has is close to the one it would have if it forgot none,
\* and one it has forgotten lacks no more than the gift.
BucketsKept ==
  \A ip \in IP : IF buckets[ip] = NotSeen THEN Burst - Level(ideal[ip]) <= Gift
                 ELSE /\ buckets[ip].last = ideal[ip].last
                      /\ Close(buckets[ip].tokens, ideal[ip].tokens)

LEMMA GiftType ==
  Gift \in Nat /\ Gift <= Burst /\ Burst - Rate * (BucketIdle + 1) <= Gift
<1>1. Rate * (BucketIdle + 1) \in Nat
  BY RateAssumption
<1> DEFINE filled == Rate * (BucketIdle + 1)
<1> HIDE DEF filled
<1>2. filled \in Nat /\ Gift = IF Burst - filled > 0 THEN Burst - filled ELSE 0
  BY <1>1 DEF filled, Gift
<1>3. Gift \in Nat /\ Gift <= Burst /\ Burst - filled <= Gift
  BY <1>2, RateAssumption
<1>4. QED BY <1>3 DEF filled

\* A bucket that has been idle long enough lacks no more than the gift.
LEMMA IdleLacksLittle ==
  ASSUME now \in Nat, NEW b \in Bucket, now - b.last > BucketIdle
  PROVE  Burst - Level(b) <= Gift
<1>1. /\ now - b.last \in Nat /\ BucketIdle \in Nat /\ Rate \in Nat
      /\ b.tokens \in Nat /\ Burst \in Nat
  BY RateAssumption DEF Bucket
<1>2. PICK d \in Nat : now - b.last = BucketIdle + 1 + d
  <2>1. now - b.last - BucketIdle - 1 \in Nat
    BY <1>1
  <2>2. QED BY <1>1, <2>1
<1>3. (BucketIdle + 1 + d) * Rate = Rate * (BucketIdle + 1) + d * Rate /\ d * Rate \in Nat
  BY <1>1, <1>2, RefillIsNatural
<1> DEFINE filled == Rate * (BucketIdle + 1)
           extra == d * Rate
<1>4. filled \in Nat
  BY <1>1
<1>5. (now - b.last) * Rate = filled + extra
  BY <1>2, <1>3
<1> HIDE DEF filled, extra
<1>6. Level(b) = IF b.tokens + (filled + extra) > Burst THEN Burst ELSE b.tokens + (filled + extra)
  BY <1>5 DEF Level
<1>7. extra \in Nat /\ Gift \in Nat /\ Burst - filled <= Gift
  BY <1>3, GiftType DEF extra, filled
<1>8. QED BY <1>1, <1>4, <1>6, <1>7

LEMMA LevelGrows ==
  ASSUME now \in Nat, now' = now + 1, NEW b \in Bucket, b.last <= now
  PROVE  Level(b) <= Level(b)'
<1>1. b.tokens \in Nat /\ b.last \in Nat /\ Rate \in Nat /\ Burst \in Nat
  BY RateAssumption DEF Bucket
<1>2. (now + 1 - b.last) * Rate = (now - b.last) * Rate + Rate
  BY <1>1
<1>3. (now - b.last) * Rate \in Nat
  BY <1>1, RefillIsNatural
<1>4. QED BY <1>1, <1>2, <1>3 DEF Level

\* What is close stays close as both are filled,
LEMMA CloseFilled ==
  ASSUME now \in Nat, NEW a \in Bucket, NEW b \in Bucket, a.last = b.last, b.last <= now,
         Close(a.tokens, b.tokens)
  PROVE  Close(Level(a), Level(b))
<1> DEFINE k == (now - b.last) * Rate
<1>1. k \in Nat
  BY RefillIsNatural DEF Bucket
<1>2. /\ Level(a) = IF a.tokens + k > Burst THEN Burst ELSE a.tokens + k
      /\ Level(b) = IF b.tokens + k > Burst THEN Burst ELSE b.tokens + k
  BY DEF Level
<1> HIDE DEF k
<1>3. a.tokens \in 0..Burst /\ b.tokens \in 0..Burst /\ Burst \in Nat /\ Token \in Nat \ {0}
  BY RateAssumption DEF Bucket
<1>4. QED BY <1>1, <1>2, <1>3, GiftType DEF Close

\* and as a request draws from both, or from one that has enough for it.
LEMMA CloseDrawn ==
  ASSUME NEW a \in Bucket, NEW b \in Bucket,
         Level(a) \in Nat, Level(b) \in Nat, Close(Level(a), Level(b))
  PROVE  Close(Draw(a).tokens, Draw(b).tokens)
<1> DEFINE x == Level(a)
           y == Level(b)
<1>1. /\ Draw(a).tokens = IF x < Token THEN x ELSE x - Token
      /\ Draw(b).tokens = IF y < Token THEN y ELSE y - Token
  BY DEF Draw
<1>2. x \in Nat /\ y \in Nat /\ Close(x, y)
  OBVIOUS
<1> HIDE DEF x, y
<1>3. QED BY <1>1, <1>2, RateAssumption, GiftType DEF Close

LEMMA KeptBucketsAreClose ==
  ASSUME Types, BucketsKept, NEW ip \in IP
  PROVE  Close(Level(BucketOf(ip)), Level(ideal[ip]))
<1>1. /\ now \in Nat /\ ideal[ip] \in Bucket /\ ideal[ip].last <= now
      /\ Level(ideal[ip]) \in 0..Burst
  BY LevelType DEF Types, DoorTypeOK
<1>2. CASE buckets[ip] = NotSeen
  <2>1. Level(FullBucket) = Burst
    BY <1>1, RateAssumption DEF Level, FullBucket
  <2>2. Level(BucketOf(ip)) = Burst /\ Burst - Level(ideal[ip]) <= Gift
    BY <1>2, <2>1 DEF BucketsKept, BucketOf
  <2>3. QED BY <1>1, <2>2, RateAssumption, GiftType DEF Close
<1>3. CASE buckets[ip] # NotSeen
  <2>1. /\ BucketOf(ip) = buckets[ip] /\ buckets[ip] \in Bucket
        /\ buckets[ip].last = ideal[ip].last
        /\ Close(buckets[ip].tokens, ideal[ip].tokens)
    BY <1>3 DEF BucketsKept, BucketOf, Types, DoorTypeOK
  <2>2. QED BY <1>1, <2>1, CloseFilled
<1>4. QED BY <1>2, <1>3

LEMMA BucketsInit == DoorInit => BucketsKept
<1> SUFFICES ASSUME DoorInit PROVE BucketsKept
  OBVIOUS
<1>1. Level(FullBucket) = Burst
  BY RateAssumption DEF Level, FullBucket, DoorInit
<1>2. QED BY <1>1, RateAssumption, GiftType DEF BucketsKept, DoorInit

LEMMA BucketsNext == Types /\ BucketsKept /\ [DoorNext]_doorVars => BucketsKept'
<1> SUFFICES ASSUME Types, BucketsKept, [DoorNext]_doorVars PROVE BucketsKept'
  OBVIOUS
<1>1. ASSUME NEW v \in Visitor, NEW login \in BOOLEAN, NEW forged \in Forged,
             NEW headers \in Received(v, forged), Arrive(v, login, headers)
      PROVE  BucketsKept'
  <2> DEFINE ip == ClientIP(headers, Peer(v))
             mine == Draw(BucketOf(ip))
             drawn == [buckets EXCEPT ![ip] = mine]
             Kept(b, i) == IF b = NotSeen THEN Burst - Level(i) <= Gift
                           ELSE b.last = i.last /\ Close(b.tokens, i.tokens)
  <2>1. ip \in IP
    BY KeyIsAddress, VisitorAssumption
  <2>2. /\ buckets' = GcBuckets(drawn)
        /\ ideal' = [ideal EXCEPT ![ip] = Draw(ideal[ip])]
        /\ now' = now
    BY <1>1 DEF Arrive
  <2>3. BucketOf(ip) \in Bucket /\ BucketOf(ip).last <= now /\ now \in Nat
    BY <2>1, FullBucketType DEF BucketOf, Types, DoorTypeOK
  <2>4. /\ mine \in Bucket /\ mine.last = now
        /\ Draw(ideal[ip]) \in Bucket /\ Draw(ideal[ip]).last = now
        /\ Level(BucketOf(ip)) \in Nat /\ Level(ideal[ip]) \in Nat
    BY <2>1, <2>3, DrawType, LevelType DEF Types, DoorTypeOK
  <2>5. Close(mine.tokens, Draw(ideal[ip]).tokens)
    BY <2>1, <2>3, <2>4, KeptBucketsAreClose, CloseDrawn DEF Types, DoorTypeOK
  <2> HIDE DEF mine, ip
  <2>6. drawn \in [IP -> Bucket \cup {NotSeen}] /\ ideal' \in [IP -> Bucket]
    BY <2>1, <2>2, <2>4 DEF Types, DoorTypeOK
  <2>7. \A i \in IP : Kept(buckets[i], ideal[i])
    BY DEF BucketsKept
  <2>8. Kept(mine, Draw(ideal[ip]))
    BY <2>4, <2>5, AbsenceAssumption
  <2>9. /\ drawn[ip] = mine /\ ideal'[ip] = Draw(ideal[ip])
        /\ \A i \in IP \ {ip} : drawn[i] = buckets[i] /\ ideal'[i] = ideal[i]
    BY <2>1, <2>2 DEF Types, DoorTypeOK
  <2> HIDE DEF drawn, Kept
  <2>10. \A i \in IP : Kept(drawn[i], ideal'[i])
    BY <2>7, <2>8, <2>9
  <2>11. ASSUME NEW i \in IP
         PROVE  Kept(buckets'[i], ideal'[i])
    <3>1. CASE buckets'[i] = drawn[i]
      BY <2>10, <3>1
    <3>2. CASE buckets'[i] # drawn[i]
      <4>1. /\ buckets'[i] = NotSeen
            /\ drawn[i] # NotSeen
            /\ now - drawn[i].last > BucketIdle
        BY <2>2, <2>6, <3>2, GcBucketsKeeps
      <4>2. drawn[i].last = ideal'[i].last /\ ideal'[i] \in Bucket
        BY <2>6, <2>10, <4>1 DEF Kept
      <4>3. Burst - Level(ideal'[i]) <= Gift
        BY <2>3, <4>1, <4>2, IdleLacksLittle
      <4>4. QED BY <4>1, <4>3 DEF Kept
    <3>3. QED BY <3>1, <3>2
  <2>12. QED BY <2>2, <2>11 DEF BucketsKept, Level, Kept
<1>2. CASE Tick
  <2>1. now' = now + 1 /\ UNCHANGED <<buckets, ideal>>
    BY <1>2 DEF Tick, limiter
  <2>2. ASSUME NEW ip \in IP, Burst - Level(ideal[ip]) <= Gift
        PROVE  Burst - Level(ideal[ip])' <= Gift
    <3>1. ideal[ip] \in Bucket /\ ideal[ip].last <= now /\ now \in Nat
      BY DEF Types, DoorTypeOK
    <3>2. Level(ideal[ip]) \in 0..Burst /\ Level(ideal[ip]) <= Level(ideal[ip])'
      <4> DEFINE b == ideal[ip]
      <4>1. b \in Bucket /\ b.last <= now
        BY <3>1
      <4>2. Level(b) \in 0..Burst
        BY <3>1, <4>1, LevelType
      <4>3. b' = b
        BY <2>1
      <4>5. ASSUME NEW c \in Bucket, c.last <= now PROVE Level(c) <= Level(c)'
        BY <2>1, <3>1, <4>5, LevelGrows
      <4>6. Level(b) <= Level(b)'
        BY <2>1, <4>1, <4>3, <4>5 DEF Level
      <4>7. QED BY <4>2, <4>6
    <3>3. Level(ideal[ip])' \in Int
      BY <2>1, <3>1, RateAssumption, RefillIsNatural DEF Level, Bucket
    <3>4. QED BY <2>2, <3>2, <3>3, RateAssumption, GiftType
  <2>3. QED BY <2>1, <2>2 DEF BucketsKept
<1>3. CASE UNCHANGED <<now, limiter>>
  BY <1>3 DEF BucketsKept, Level, limiter
<1>4. QED
  BY <1>1, <1>2, <1>3 DEF DoorNext, Gate, LoginFails, LoginSucceeds, BadForm, doorVars

\* Next to a limiter that has a bucket for every address for ever, what gcLocked
\* forgets is nothing if an empty bucket is full again by then; in general it is
\* worth the tokens an empty bucket still lacks, whatever rate and burst are set.
THEOREM LittleIsForgotten == DoorSpec => []LimiterForgetsLittle
<1>1. Types /\ BucketsKept => LimiterForgetsLittle
  BY KeptBucketsAreClose DEF LimiterForgetsLittle, Close
<1>2. QED BY <1>1, TypesInit, TypesNext, BucketsInit, BucketsNext, PTL DEF DoorSpec

----
(* The login gate.                                                         *)

\* An address that is locked out has a record that says so.
LocksRecorded ==
  \A ip \in IP :
    lock[ip] >= now => /\ attempts[ip] # NotSeen
                       /\ attempts[ip].fails >= MaxFails
                       /\ attempts[ip].until >= lock[ip]

LEMMA LocksInit == DoorInit => LocksRecorded
BY DEF DoorInit, LocksRecorded

LEMMA LocksNext == Types /\ LocksRecorded /\ [DoorNext]_doorVars => LocksRecorded'
<1> SUFFICES ASSUME Types, LocksRecorded, [DoorNext]_doorVars PROVE LocksRecorded'
  OBVIOUS
<1> USE DEF Types, DoorTypeOK
<1>1. ASSUME NEW v \in Visitor, Gate(v)
      PROVE  LocksRecorded'
  <2>1. at[v].ip \in IP
    BY <1>1 DEF Gate, Place
  <2>2. ASSUME NEW ip \in IP, attempts[ip] # NotSeen
        PROVE  /\ attempts'[ip] # NotSeen
               /\ attempts'[ip].fails = attempts[ip].fails
               /\ attempts'[ip].until = attempts[ip].until
    <3>1. attempts[ip] \in Attempt /\ [attempts[ip] EXCEPT !.seen = now] \in Attempt
      BY <2>2 DEF Attempt
    <3>2. attempts'[ip] = attempts[ip] \/ attempts'[ip] = [attempts[ip] EXCEPT !.seen = now]
      BY <1>1, <2>1 DEF Gate, Touch
    <3>3. QED BY <3>1, <3>2, AbsenceAssumption DEF Attempt
  <2>3. now' = now /\ lock' = lock
    BY <1>1 DEF Gate
  <2>4. QED BY <2>2, <2>3 DEF LocksRecorded
<1>2. ASSUME NEW v \in Visitor, LoginFails(v)
      PROVE  LocksRecorded'
  <2>1. at[v].ip \in IP /\ now' = now
    BY <1>2 DEF LoginFails, Place
  <2>2. PICK table \in Room(at[v].ip) : Failure(table, at[v].ip)
    BY <1>2 DEF LoginFails
  <2>3. /\ table \in [IP -> Attempt \cup {NotSeen}]
        /\ \A i \in IP : table[i] # NotSeen => table[i] = attempts[i]
    BY <2>1, RoomKeeps
  <2>4. ASSUME NEW ip \in IP, lock'[ip] >= now
        PROVE  /\ attempts'[ip] # NotSeen
               /\ attempts'[ip].fails >= MaxFails
               /\ attempts'[ip].until >= lock'[ip]
    <3>1. lock'[ip] # 0
      BY <2>4
    <3>2. Locked(table, at[v].ip, ip)
      BY <2>2, <3>1 DEF Failure
    <3>3. CASE ip = at[v].ip
      <4> DEFINE a == Count(table[ip])
      <4>1. /\ a \in Attempt
            /\ a.fails >= MaxFails
            /\ attempts'[ip] = a
            /\ lock'[ip] = a.until
        BY <2>1, <2>2, <2>3, <3>2, <3>3, CountType DEF Failure, Locked
      <4> HIDE DEF a
      <4>2. QED BY <4>1, AbsenceAssumption DEF Attempt
    <3>4. CASE ip # at[v].ip
      <4>1. lock[ip] >= now /\ lock'[ip] = lock[ip] /\ attempts'[ip] = table[ip]
        BY <2>2, <2>3, <3>1, <3>4 DEF Failure
      <4>2. /\ attempts[ip] # NotSeen
            /\ attempts[ip].fails >= MaxFails
            /\ attempts[ip].until >= lock[ip]
        BY <4>1 DEF LocksRecorded
      <4>3. ~(now > attempts[ip].until)
        BY <4>1, <4>2 DEF Attempt
      <4>4. GcAttempts(attempts)[ip] # NotSeen
        BY <4>2, <4>3, GcAttemptsKeeps
      <4>5. table[ip] = attempts[ip]
        BY <2>3, <3>2, <3>4, <4>4 DEF Locked
      <4>6. QED BY <4>1, <4>2, <4>5
    <3>5. QED BY <3>3, <3>4
  <2>5. QED BY <2>1, <2>4 DEF LocksRecorded
<1>3. ASSUME NEW v \in Visitor, LoginSucceeds(v)
      PROVE  LocksRecorded'
  <2>1. at[v].ip \in IP
    BY <1>3 DEF LoginSucceeds, Place
  <2>2. QED BY <1>3, <2>1 DEF LoginSucceeds, LocksRecorded
<1>4. CASE Tick
  <2>1. now' = now + 1 /\ UNCHANGED <<attempts, lock>>
    BY <1>4 DEF Tick, gate
  <2>2. \A ip \in IP : lock[ip] >= now + 1 => lock[ip] >= now
    OBVIOUS
  <2>3. QED BY <2>1, <2>2 DEF LocksRecorded
<1>5. CASE UNCHANGED <<now, gate>>
  BY <1>5 DEF LocksRecorded, gate
<1>6. QED
  BY <1>1, <1>2, <1>3, <1>4, <1>5 DEF DoorNext, Arrive, BadForm, doorVars

LEMMA LockedAreRefused ==
  ASSUME Types, LocksRecorded, NEW v \in Visitor, Gate(v), at'[v] # Away
  PROVE  now > lock[at[v].ip]
<1> DEFINE ip == at[v].ip
<1>1. ip \in IP
  BY DEF Gate, Place, Types, DoorTypeOK
<1>2. Admits(attempts[ip])
  BY DEF Gate, Types, DoorTypeOK
<1>3. SUFFICES ASSUME lock[ip] >= now PROVE FALSE
  BY <1>1 DEF Types, DoorTypeOK
<1>4. /\ attempts[ip] \in Attempt
      /\ attempts[ip] # NotSeen
      /\ attempts[ip].fails >= MaxFails
      /\ attempts[ip].until >= now
  <2>1. attempts[ip] # NotSeen /\ attempts[ip].fails >= MaxFails /\ attempts[ip].until >= lock[ip]
    BY <1>1, <1>3 DEF LocksRecorded
  <2>2. attempts[ip] \in Attempt
    BY <1>1, <2>1 DEF Types, DoorTypeOK
  <2>3. QED BY <1>1, <1>3, <2>1, <2>2 DEF Attempt, Types, DoorTypeOK
<1>5. QED BY <1>2, <1>4, GateAssumption DEF Admits, Attempt, Types, DoorTypeOK

\* From the failure that locks an address out to the end of the lock no login of
\* that address is admitted (loginGate.allow, failure and gcLocked), unless one
\* inside succeeds or the full table drops its record.
THEOREM LocksHold == DoorSpec => LockHolds
<1>1. Types /\ LocksRecorded /\ [DoorNext]_doorVars
        => [\A v \in Visitor : Gate(v) /\ at'[v] # Away => now > lock[at[v].ip]]_doorVars
  BY LockedAreRefused
<1>2. QED BY <1>1, TypesInit, TypesNext, LocksInit, LocksNext, PTL DEF DoorSpec, LockHolds

----
(* The size of the gate's table.                                           *)

FewRecords == IsFiniteSet(Seen(attempts)) /\ GateIsBounded

LEMMA FewerAreFew ==
  ASSUME FewRecords, Seen(attempts)' \subseteq Seen(attempts)
  PROVE  FewRecords'
<1>1. IsFiniteSet(Seen(attempts)') /\ Cardinality(Seen(attempts)') <= Cardinality(Seen(attempts))
  BY FS_Subset DEF FewRecords
<1>2. Cardinality(Seen(attempts)) \in Nat /\ Cardinality(Seen(attempts)') \in Nat
  BY <1>1, FS_CardinalityType DEF FewRecords
<1>3. QED BY <1>1, <1>2, GateAssumption DEF FewRecords, GateIsBounded

\* One record fits into what failure leaves, unless the address has it already.
LEMMA RoomForOne ==
  ASSUME Types, FewRecords, NEW ip \in IP, NEW table \in Room(ip)
  PROVE  /\ IsFiniteSet(Seen(table) \cup {ip})
         /\ Cardinality(Seen(table) \cup {ip}) <= MaxMap
<1> DEFINE base == IF Cardinality(Seen(attempts)) < MaxMap THEN attempts ELSE GcAttempts(attempts)
<1>1. Seen(base) \subseteq Seen(attempts)
  BY DEF Seen, GcAttempts
<1>2. /\ IsFiniteSet(Seen(base))
      /\ Cardinality(Seen(base)) \in Nat
      /\ Cardinality(Seen(base)) <= MaxMap
  <2> HIDE DEF base
  <2>1. IsFiniteSet(Seen(base)) /\ Cardinality(Seen(base)) <= Cardinality(Seen(attempts))
    BY <1>1, FS_Subset DEF FewRecords
  <2>2. Cardinality(Seen(base)) \in Nat /\ Cardinality(Seen(attempts)) \in Nat
    BY <2>1, FS_CardinalityType DEF FewRecords
  <2>3. QED BY <2>1, <2>2, GateAssumption DEF FewRecords, GateIsBounded
<1>3. ASSUME IsFiniteSet(Seen(table)), Cardinality(Seen(table)) < MaxMap \/ ip \in Seen(table),
             Cardinality(Seen(table)) <= MaxMap
      PROVE  /\ IsFiniteSet(Seen(table) \cup {ip})
             /\ Cardinality(Seen(table) \cup {ip}) <= MaxMap
  <2>1. /\ IsFiniteSet(Seen(table) \cup {ip})
        /\ Cardinality(Seen(table) \cup {ip})
             = IF ip \in Seen(table) THEN Cardinality(Seen(table)) ELSE Cardinality(Seen(table)) + 1
    BY <1>3, FS_AddElement
  <2>2. Cardinality(Seen(table)) \in Nat
    BY <1>3, FS_CardinalityType
  <2>3. QED BY <1>3, <2>1, <2>2, GateAssumption
<1>4. CASE table = base /\ ~(base[ip] = NotSeen /\ Cardinality(Seen(base)) >= MaxMap)
  <2>1. Cardinality(Seen(table)) < MaxMap \/ ip \in Seen(table)
    <3> HIDE DEF base
    <3>1. QED BY <1>2, <1>4, GateAssumption DEF Seen
  <2>2. QED BY <1>2, <1>3, <1>4, <2>1
<1>5. CASE table \in Dropped(base)
  <2> HIDE DEF base
  <2>1. PICK kept \in SUBSET Seen(base) :
          /\ Cardinality(kept) = MaxMap \div 2
          /\ table = [i \in IP |-> IF i \in kept THEN base[i] ELSE NotSeen]
    BY <1>5 DEF Dropped
  <2>2. Seen(table) = kept
    BY <2>1 DEF Seen
  <2>3. IsFiniteSet(Seen(table))
    BY <1>2, <2>2, FS_Subset
  <2>4. Cardinality(Seen(table)) < MaxMap
    BY <2>1, <2>2, GateAssumption
  <2>5. QED BY <1>3, <2>3, <2>4, GateAssumption, FS_CardinalityType
<1>6. QED BY <1>4, <1>5 DEF Room

LEMMA FewInit == DoorInit => FewRecords
<1> SUFFICES ASSUME DoorInit PROVE FewRecords
  OBVIOUS
<1>1. Seen(attempts) = {}
  BY DEF DoorInit, Seen
<1>2. QED BY <1>1, FS_EmptySet, GateAssumption DEF FewRecords, GateIsBounded

LEMMA FewNext == Types /\ FewRecords /\ [DoorNext]_doorVars => FewRecords'
<1> SUFFICES ASSUME Types, FewRecords, [DoorNext]_doorVars PROVE FewRecords'
  OBVIOUS
<1>1. ASSUME NEW v \in Visitor, Gate(v)
      PROVE  FewRecords'
  <2>1. at[v].ip \in IP
    BY <1>1 DEF Gate, Place, Types, DoorTypeOK
  <2>2. Seen(attempts)' \subseteq Seen(attempts)
    BY <1>1, <2>1 DEF Gate, Seen, Touch, Types, DoorTypeOK
  <2>3. QED BY <2>2, FewerAreFew
<1>2. ASSUME NEW v \in Visitor, LoginFails(v)
      PROVE  FewRecords'
  <2>1. at[v].ip \in IP
    BY <1>2 DEF LoginFails, Place, Types, DoorTypeOK
  <2>2. PICK table \in Room(at[v].ip) : Failure(table, at[v].ip)
    BY <1>2 DEF LoginFails
  <2>3. table \in [IP -> Attempt \cup {NotSeen}]
    BY <2>1, RoomKeeps DEF Types, DoorTypeOK
  <2>4. Seen(attempts)' \subseteq Seen(table) \cup {at[v].ip}
    BY <2>1, <2>2, <2>3 DEF Failure, Seen
  <2>5. /\ IsFiniteSet(Seen(table) \cup {at[v].ip})
        /\ Cardinality(Seen(table) \cup {at[v].ip}) <= MaxMap
    BY <2>1, RoomForOne
  <2>6. /\ IsFiniteSet(Seen(attempts)')
        /\ Cardinality(Seen(attempts)') <= Cardinality(Seen(table) \cup {at[v].ip})
    BY <2>4, <2>5, FS_Subset
  <2>7. /\ Cardinality(Seen(attempts)') \in Nat
        /\ Cardinality(Seen(table) \cup {at[v].ip}) \in Nat
    BY <2>5, <2>6, FS_CardinalityType
  <2>8. QED BY <2>5, <2>6, <2>7, GateAssumption DEF FewRecords, GateIsBounded
<1>3. ASSUME NEW v \in Visitor, LoginSucceeds(v)
      PROVE  FewRecords'
  <2>1. Seen(attempts)' \subseteq Seen(attempts)
    BY <1>3 DEF LoginSucceeds, Seen, Types, DoorTypeOK
  <2>2. QED BY <2>1, FewerAreFew
<1>4. CASE UNCHANGED attempts
  BY <1>4 DEF FewRecords, GateIsBounded, Seen
<1>5. QED
  BY <1>1, <1>2, <1>3, <1>4 DEF DoorNext, Arrive, BadForm, Tick, doorVars, gate

\* However many addresses fail, the records stay within the limit, with a table
\* of one record, too (loginGate.failure, gcLocked and dropLocked).
THEOREM GateStaysBounded == DoorSpec => []GateIsBounded
<1>1. FewRecords => GateIsBounded
  BY DEF FewRecords
<1>2. QED BY <1>1, TypesInit, TypesNext, FewInit, FewNext, PTL DEF DoorSpec

----
(* Failures after the lock.                                                *)

Visitors(ip) == {v \in Visitor : Address[v] = ip}
Inside(ip) == {v \in Visitor : at[v] # Away /\ at[v].is = "form" /\ at[v].ip = ip}

\* While an address is locked out, who is inside is all that can still fail, and
\* the one who locked it is not.
LateAreInside ==
  \A ip \in IP :
    /\ late[ip] > 0 => late[ip] < Cardinality(Visitors(ip))
    /\ lock[ip] >= now => late[ip] + Cardinality(Inside(ip)) < Cardinality(Visitors(ip))

LEMMA Finite ==
  \A ip : /\ IsFiniteSet(Visitors(ip)) /\ Cardinality(Visitors(ip)) \in Nat
          /\ IsFiniteSet(Inside(ip)) /\ Cardinality(Inside(ip)) \in Nat
<1> SUFFICES ASSUME NEW ip
             PROVE  /\ IsFiniteSet(Visitors(ip)) /\ Cardinality(Visitors(ip)) \in Nat
                    /\ IsFiniteSet(Inside(ip)) /\ Cardinality(Inside(ip)) \in Nat
  OBVIOUS
<1>1. Visitors(ip) \subseteq Visitor /\ Inside(ip) \subseteq Visitor
  BY DEF Visitors, Inside
<1>2. IsFiniteSet(Visitors(ip)) /\ IsFiniteSet(Inside(ip))
  BY <1>1, VisitorAssumption, FS_Subset
<1>3. QED BY <1>2, FS_CardinalityType

LEMMA LateKept ==
  ASSUME Types, NEW ip \in IP,
         late[ip] > 0 => late[ip] < Cardinality(Visitors(ip)),
         lock[ip] >= now => late[ip] + Cardinality(Inside(ip)) < Cardinality(Visitors(ip)),
         Inside(ip)' \subseteq Inside(ip),
         late'[ip] = late[ip] \/ late'[ip] = 0,
         now' >= now, now' \in Nat,
         lock'[ip] >= now' => lock[ip] >= now /\ late'[ip] = late[ip]
  PROVE  /\ late'[ip] > 0 => late'[ip] < Cardinality(Visitors(ip))
         /\ lock'[ip] >= now'
              => late'[ip] + Cardinality(Inside(ip)') < Cardinality(Visitors(ip))
<1>1. /\ IsFiniteSet(Inside(ip)')
      /\ Cardinality(Inside(ip)') <= Cardinality(Inside(ip))
  BY Finite, FS_Subset
<1>2. Cardinality(Inside(ip)') \in Nat
  BY <1>1, FS_CardinalityType
<1>3. QED BY <1>1, <1>2, Finite DEF Types

LEMMA LateInit == DoorInit => LateAreInside
BY DEF DoorInit, LateAreInside

LEMMA LateFails ==
  ASSUME Types, OwnPlaces, LateAreInside, NEW v \in Visitor, LoginFails(v)
  PROVE  LateAreInside'
<1> PICK ip \in IP : ip = at[v].ip /\ ip = Address[v]
  BY VisitorAssumption DEF LoginFails, OwnPlaces
<1>1. now' = now /\ v \in Inside(ip) /\ v \in Visitors(ip)
  BY DEF LoginFails, Inside, Visitors
<1>2. PICK table \in Room(ip) : Failure(table, ip)
  BY DEF LoginFails
<1>3. Inside(ip)' = Inside(ip) \ {v} /\ Inside(ip)' \subseteq Visitors(ip) \ {v}
  <2>1. at' = [at EXCEPT ![v] = Away]
    BY DEF LoginFails
  <2>2. QED BY <1>1, <2>1 DEF Inside, Visitors, OwnPlaces, Types, DoorTypeOK
<1>4. /\ Cardinality(Inside(ip)') = Cardinality(Inside(ip)) - 1
      /\ Cardinality(Inside(ip)') < Cardinality(Visitors(ip))
      /\ Cardinality(Inside(ip)') \in Nat
  <2>1. /\ IsFiniteSet(Inside(ip)')
        /\ Cardinality(Inside(ip)') = Cardinality(Inside(ip)) - 1
    BY <1>1, <1>3, Finite, FS_RemoveElement
  <2>2. /\ IsFiniteSet(Visitors(ip) \ {v})
        /\ Cardinality(Visitors(ip) \ {v}) = Cardinality(Visitors(ip)) - 1
    BY <1>1, Finite, FS_RemoveElement
  <2>3. Cardinality(Inside(ip)') <= Cardinality(Visitors(ip) \ {v})
    BY <1>3, <2>2, FS_Subset
  <2>4. Cardinality(Inside(ip)') \in Nat
    BY <2>1, FS_CardinalityType
  <2>5. QED BY <2>1, <2>2, <2>3, <2>4, Finite
<1>5. /\ late'[ip] > 0 => late'[ip] < Cardinality(Visitors(ip))
      /\ late'[ip] + Cardinality(Inside(ip)') < Cardinality(Visitors(ip))
  <2>1. late'[ip] = 0 \/ (lock[ip] >= now /\ late'[ip] = late[ip] + 1)
    BY <1>1, <1>2 DEF Failure, Types, DoorTypeOK
  <2>2. late[ip] \in Nat
    BY <1>1 DEF Types
  <2>3. CASE late'[ip] = 0
    BY <1>4, <2>3, Finite
  <2>4. CASE lock[ip] >= now /\ late'[ip] = late[ip] + 1
    <3>1. late[ip] + Cardinality(Inside(ip)) < Cardinality(Visitors(ip))
      BY <1>1, <2>4 DEF LateAreInside
    <3>2. QED BY <1>4, <2>2, <2>4, <3>1, Finite
  <2>5. QED BY <2>1, <2>3, <2>4
<1>6. ASSUME NEW i \in IP, i # ip
      PROVE  /\ late'[i] > 0 => late'[i] < Cardinality(Visitors(i))
             /\ lock'[i] >= now' => late'[i] + Cardinality(Inside(i)') < Cardinality(Visitors(i))
  <2>1. Inside(i)' \subseteq Inside(i)
    BY <1>6 DEF Inside, LoginFails, Types, DoorTypeOK
  <2>2. /\ late'[i] = late[i] \/ late'[i] = 0
        /\ lock'[i] >= now' => lock[i] >= now /\ late'[i] = late[i]
    BY <1>1, <1>2, <1>6 DEF Failure, Types, DoorTypeOK
  <2>3. QED BY <1>1, <2>1, <2>2, LateKept DEF LateAreInside, Types, DoorTypeOK
<1>7. QED BY <1>5, <1>6 DEF LateAreInside, Visitors

LEMMA LateNext ==
  Types /\ OwnPlaces /\ LocksRecorded /\ LateAreInside /\ [DoorNext]_doorVars => LateAreInside'
<1> SUFFICES ASSUME Types, OwnPlaces, LocksRecorded, LateAreInside, [DoorNext]_doorVars
             PROVE  LateAreInside'
  OBVIOUS
<1> DEFINE Calm ==
      \A ip \in IP : /\ Inside(ip)' \subseteq Inside(ip) \/ lock'[ip] < now'
                     /\ late'[ip] = late[ip] \/ late'[ip] = 0
                     /\ lock'[ip] >= now' => lock[ip] >= now /\ late'[ip] = late[ip]
<1>1. ASSUME now' >= now, now' \in Nat, Calm
      PROVE  LateAreInside'
  <2>1. SUFFICES ASSUME NEW ip \in IP
                 PROVE  /\ late'[ip] > 0 => late'[ip] < Cardinality(Visitors(ip))
                        /\ lock'[ip] >= now'
                             => late'[ip] + Cardinality(Inside(ip)') < Cardinality(Visitors(ip))
    BY DEF LateAreInside, Visitors
  <2>2. CASE Inside(ip)' \subseteq Inside(ip)
    BY <1>1, <2>2, LateKept DEF LateAreInside
  <2>3. CASE lock'[ip] < now'
    <3>1. lock'[ip] \in Nat
      BY TypesNext DEF Types
    <3>2. QED BY <1>1, <2>3, <3>1 DEF LateAreInside
  <2>4. QED BY <1>1, <2>2, <2>3
<1> HIDE DEF Calm
<1>2. ASSUME NEW v \in Visitor, NEW login \in BOOLEAN, NEW forged \in Forged,
             NEW headers \in Received(v, forged), Arrive(v, login, headers)
      PROVE  LateAreInside'
  <2>1. \A ip \in IP : Inside(ip)' \subseteq Inside(ip)
    BY <1>2 DEF Arrive, Inside, Types, DoorTypeOK
  <2>2. now' = now /\ now \in Nat /\ Calm
    BY <1>2, <2>1 DEF Arrive, gate, Calm, Types, DoorTypeOK
  <2>3. QED BY <1>1, <2>2
<1>3. ASSUME NEW v \in Visitor, Gate(v)
      PROVE  LateAreInside'
  <2>1. \A ip \in IP : Inside(ip)' \subseteq Inside(ip) \/ (ip = at[v].ip /\ at'[v] # Away)
    BY <1>3 DEF Gate, Inside, Place, Types, DoorTypeOK
  <2>2. at'[v] # Away => lock[at[v].ip] < now
    BY <1>3, LockedAreRefused DEF Types, DoorTypeOK
  <2>3. now' = now /\ now \in Nat /\ Calm
    BY <1>3, <2>1, <2>2 DEF Gate, Calm, Types, DoorTypeOK
  <2>4. QED BY <1>1, <2>3
<1>4. ASSUME NEW v \in Visitor, LoginFails(v)
      PROVE  LateAreInside'
  BY <1>4, LateFails
<1>5. ASSUME NEW v \in Visitor, LoginSucceeds(v) \/ BadForm(v)
      PROVE  LateAreInside'
  <2>1. \A ip \in IP : Inside(ip)' \subseteq Inside(ip)
    BY <1>5 DEF LoginSucceeds, BadForm, Inside, Types, DoorTypeOK
  <2>2. now' = now /\ now \in Nat /\ now >= 1
    BY <1>5 DEF LoginSucceeds, BadForm, Types, DoorTypeOK
  <2>3. Calm
    BY <1>5, <2>1, <2>2 DEF LoginSucceeds, BadForm, gate, Calm, Types, DoorTypeOK
  <2>4. QED BY <1>1, <2>2, <2>3
<1>6. CASE Tick
  <2>1. \A ip \in IP : Inside(ip)' \subseteq Inside(ip)
    BY <1>6 DEF Tick, Inside
  <2>2. now' = now + 1 /\ now \in Nat /\ UNCHANGED <<lock, late>>
    BY <1>6 DEF Tick, gate, Types, DoorTypeOK
  <2>3. Calm
    BY <2>1, <2>2 DEF Calm, Types
  <2>4. QED BY <1>1, <2>2, <2>3
<1>7. CASE UNCHANGED doorVars
  BY <1>7 DEF doorVars, gate, LateAreInside, Inside, Visitors
<1>8. QED BY <1>2, <1>3, <1>4, <1>5, <1>6, <1>7 DEF DoorNext

\* After the failure that locks an address, fewer logins of it can fail than it has
\* visitors: those that had passed the gate with the one that failed
\* (loginPost holds no lock between allow and failure).
THEOREM FewFailLate == DoorSpec => []LateFailuresAreFew
<1>1. LateAreInside => LateFailuresAreFew
  BY DEF LateAreInside, LateFailuresAreFew, Visitors
<1>2. KeysInv => OwnPlaces
  BY DEF KeysInv
<1>3. QED
  BY <1>1, <1>2, TypesInit, TypesNext, KeysInit, KeysNext, LocksInit, LocksNext,
     LateInit, LateNext, PTL
     DEF DoorSpec

----
(* What was signed.                                                        *)

\* The secrets that have signed so far.
Secrets == IF random THEN 1..process ELSE {0}

\* A cookie was made by a login, and ends one term after it.
Made(c) ==
  c # NoCookie =>
    /\ c \in Cookies
    /\ c.name = username
    /\ c.signedBy \in Secrets
    /\ \E l \in logins : c.exp = l.at + SessionTTL /\ (random => l.process = c.signedBy)

\* A form has the name of the user and one of the secrets.
Issued(f) == f # LoginPage => f \in Forms /\ f.name = username /\ f.signedBy \in Secrets

WayOK(w) ==
  \/ w = Ready
  \/ /\ w \in Asked
     /\ Made(w.cookie)
     /\ Issued(w.token)
     /\ w.is \in {"act", "logout"} => w.token # LoginPage
  \/ /\ w \in Answered
     /\ \A c \in w.set : Made(c)
     /\ Issued(w.shows)

Clocks ==
  /\ username \in Usernames
  /\ random \in BOOLEAN
  /\ process \in Nat \ {0}
  /\ hour \in Nat
  /\ logins \subseteq [process : Nat, at : Nat]

\* Every cookie and every form of the browser, of its requests and of their
\* replies is one that the server made.
Genuine ==
  /\ Clocks
  /\ Made(cookie)
  /\ tab \in [Tab -> Forms \cup {LoginPage}]
  /\ \A t \in Tab : Issued(tab[t])
  /\ DOMAIN way = Tab
  /\ \A t \in Tab : WayOK(way[t])

LEMMA GenuineInit == SessionInit => Genuine
BY DEF SessionInit, Genuine, Clocks, Made, Issued, WayOK

LEMMA SecretSigned == Clocks => Secret \in Secrets /\ Secret \in Nat
BY DEF Clocks, Secret, Secrets

LEMMA FormIssued == Clocks => Issued(CSRFToken) /\ CSRFToken \in Forms
BY SecretSigned DEF Issued, CSRFToken, Forms, Clocks

\* A request and a reply are told apart by what they are.
LEMMA AskedOrAnswered ==
  ASSUME NEW w, WayOK(w), w # Ready
  PROVE  IF w.is = "reply"
         THEN w \in Answered /\ (\A c \in w.set : Made(c)) /\ Issued(w.shows)
         ELSE w \in Asked /\ Made(w.cookie) /\ Issued(w.token)
              /\ (w.is \in {"act", "logout"} => w.token # LoginPage)
BY DEF WayOK, Asked, Answered

\* What was signed stays signed as time, processes and logins go on.
LEMMA StaysGenuine ==
  ASSUME Clocks, Clocks', UNCHANGED <<username, random>>, process <= process',
         logins \subseteq logins'
  PROVE  /\ \A c : Made(c) => Made(c)'
         /\ \A f : Issued(f) => Issued(f)'
         /\ \A w : WayOK(w) => WayOK(w)'
<1>1. Secrets \subseteq Secrets'
  BY DEF Secrets, Clocks
<1>2. ASSUME NEW c, Made(c) PROVE Made(c)'
  BY <1>1, <1>2 DEF Made
<1>3. ASSUME NEW f, Issued(f) PROVE Issued(f)'
  BY <1>1, <1>3 DEF Issued
<1>4. ASSUME NEW w, WayOK(w) PROVE WayOK(w)'
  BY <1>2, <1>3, <1>4 DEF WayOK
<1>5. QED BY <1>2, <1>3, <1>4

----
(* The steps.                                                              *)

LEMMA SendGenuine ==
  ASSUME Genuine, NEW t \in Tab, NEW what \in {"login", "page", "act", "logout"}, Send(t, what)
  PROVE  Genuine'
<1>1. UNCHANGED <<username, random, process, hour, cookie, tab, logins>>
  BY DEF Send
<1>2. Clocks' /\ Made(cookie)' /\ (tab \in [Tab -> Forms \cup {LoginPage}])'
      /\ (\A u \in Tab : Issued(tab[u]))'
  BY <1>1 DEF Genuine, Clocks, Made, Issued, Secrets
<1>3. \A w : WayOK(w) => WayOK(w)'
  BY <1>1, <1>2, StaysGenuine DEF Genuine, Clocks
<1>4. Made(Jar) /\ Jar \in Cookies \cup {NoCookie}
  BY DEF Genuine, Jar, Made
<1>5. WayOK([is |-> what, cookie |-> Jar, token |-> tab[t]])
  BY <1>4 DEF Genuine, WayOK, Asked, Send
<1>6. way' = [way EXCEPT ![t] = [is |-> what, cookie |-> Jar, token |-> tab[t]]]
  BY DEF Send
<1>7. QED BY <1>2, <1>3, <1>5, <1>6 DEF Genuine

LEMMA ReplyGenuine ==
  ASSUME Genuine, NEW t \in Tab, NEW set, NEW shows, Reply(t, set, shows),
         set \subseteq Cookies \cup {NoCookie}, shows \in Forms \cup {LoginPage},
         \A c \in set : Made(c)', Issued(shows),
         UNCHANGED <<username, random, process, hour, cookie, tab>>,
         logins \subseteq logins', Clocks'
  PROVE  Genuine'
<1>1. /\ \A c : Made(c) => Made(c)'
      /\ \A f : Issued(f) => Issued(f)'
      /\ \A w : WayOK(w) => WayOK(w)'
  BY StaysGenuine DEF Genuine, Clocks
<1>2. way' = [way EXCEPT ![t] = [is |-> "reply", set |-> set, shows |-> shows]]
  BY DEF Reply
<1>3. WayOK([is |-> "reply", set |-> set, shows |-> shows])'
  BY <1>1 DEF WayOK, Answered
<1>4. DOMAIN way' = Tab /\ \A u \in Tab : WayOK(way[u])'
  BY <1>1, <1>2, <1>3 DEF Genuine
<1>5. QED BY <1>1, <1>4 DEF Genuine

LEMMA LoginGenuine ==
  ASSUME Genuine, NEW t \in Tab, LoginPost(t)
  PROVE  Genuine'
<1>1. Clocks' /\ logins \subseteq logins'
  BY DEF LoginPost, Genuine, Clocks
<1>2. SessionCookie \in Cookies
  BY SecretSigned, SessionTTLAssumption DEF Genuine, Clocks, SessionCookie, Cookies
<1>3. [process |-> process, at |-> hour] \in logins'
  BY DEF LoginPost
<1>4. random => process = Secret
  BY DEF Secret
<1>5. Made(SessionCookie)'
  <2>1. Secrets' = Secrets /\ SessionCookie' = SessionCookie /\ random' = random
    BY DEF LoginPost, Secrets, SessionCookie, Secret
  <2>2. SessionCookie.signedBy = Secret /\ SessionCookie.exp = hour + SessionTTL
        /\ SessionCookie.name = username
    BY DEF SessionCookie
  <2>3. username' = username
    BY DEF LoginPost
  <2>4. QED BY <1>2, <1>3, <1>4, <2>1, <2>2, <2>3, SecretSigned DEF Made, Genuine
<1>6. SessionCookie' = SessionCookie
  BY DEF LoginPost, SessionCookie, Secret
<1>7. \A c \in {SessionCookie} : Made(c)'
  BY <1>5, <1>6 DEF Made, Secrets, LoginPost
<1>8. QED BY <1>1, <1>2, <1>7, ReplyGenuine DEF LoginPost, Issued

LEMMA ServeGenuine ==
  ASSUME Genuine, NEW t \in Tab, GetPage(t) \/ Act(t) \/ Logout(t) \/ Refuse(t)
  PROVE  Genuine'
<1>1. Clocks' /\ UNCHANGED <<username, random, process, hour, cookie, tab, logins>>
  BY DEF GetPage, Act, Logout, Refuse, Genuine, Clocks
<1>2. Made(NoCookie)'
  BY DEF Made
<1>3. Issued(LoginPage)
  BY DEF Issued
<1>4. CASE GetPage(t)
  <2>1. Issued(CSRFToken) /\ CSRFToken \in Forms
    BY FormIssued DEF Genuine
  <2>2. QED BY <1>1, <1>3, <1>4, <2>1, ReplyGenuine DEF GetPage
<1>5. CASE Act(t)
  <2>1. Issued(way[t].token) /\ way[t].token \in Forms \cup {LoginPage}
    BY <1>5, AskedOrAnswered DEF Act, Pending, Genuine, Asked
  <2>2. QED BY <1>1, <1>5, <2>1, ReplyGenuine DEF Act
<1>6. CASE Logout(t)
  BY <1>1, <1>2, <1>3, <1>6, ReplyGenuine DEF Logout
<1>7. CASE Refuse(t)
  BY <1>1, <1>3, <1>7, ReplyGenuine DEF Refuse
<1>8. QED BY <1>4, <1>5, <1>6, <1>7

LEMMA ReceiveGenuine ==
  ASSUME Genuine, NEW t \in Tab, Receive(t)
  PROVE  Genuine'
<1>1. UNCHANGED <<username, random, process, hour, logins>> /\ Clocks'
  BY DEF Receive, Genuine, Clocks
<1>2. /\ \A c : Made(c) => Made(c)'
      /\ \A f : Issued(f) => Issued(f)'
      /\ \A w : WayOK(w) => WayOK(w)'
  BY <1>1, StaysGenuine DEF Genuine, Clocks
<1>3. way[t] \in Answered /\ (\A c \in way[t].set : Made(c)) /\ Issued(way[t].shows)
  BY AskedOrAnswered DEF Receive, Pending, Genuine
<1>4. Made(cookie')
  BY <1>3 DEF Receive, Genuine
<1>5. way[t].shows \in Forms \cup {LoginPage}
  BY <1>3 DEF Answered
<1>6. tab' = [tab EXCEPT ![t] = way[t].shows] /\ way' = [way EXCEPT ![t] = Ready]
  BY DEF Receive
<1>7. (tab \in [Tab -> Forms \cup {LoginPage}])' /\ \A u \in Tab : Issued(tab'[u])
  BY <1>3, <1>5, <1>6 DEF Genuine
<1>8. DOMAIN way' = Tab /\ \A u \in Tab : WayOK(way'[u])
  BY <1>6 DEF Genuine, WayOK
<1>9. QED BY <1>1, <1>2, <1>4, <1>7, <1>8 DEF Genuine

LEMMA GenuineNext == Genuine /\ [SessionNext]_sessionVars => Genuine'
<1> SUFFICES ASSUME Genuine, [SessionNext]_sessionVars PROVE Genuine'
  OBVIOUS
<1>1. CASE HourPasses \/ NewProcess \/ UNCHANGED sessionVars
  <2>1. /\ UNCHANGED <<username, random, cookie, tab, logins>>
        /\ Clocks' /\ process <= process'
    BY <1>1 DEF HourPasses, NewProcess, sessionVars, Genuine, Clocks
  <2>2. /\ \A c : Made(c) => Made(c)'
        /\ \A f : Issued(f) => Issued(f)'
        /\ \A w : WayOK(w) => WayOK(w)'
    BY <2>1, StaysGenuine DEF Genuine
  <2>3. DOMAIN way' = Tab /\ \A t \in Tab : WayOK(way'[t])
    BY <1>1 DEF HourPasses, NewProcess, sessionVars, Genuine, WayOK
  <2>4. QED BY <2>1, <2>2, <2>3 DEF Genuine
<1>2. QED
  BY <1>1, SendGenuine, LoginGenuine, ServeGenuine, ReceiveGenuine DEF SessionNext

----
(* What follows.                                                           *)

LEMMA SessionsAreAlive ==
  ASSUME Clocks, NEW c, Made(c), IsSession(c)
  PROVE  Alive # {}
<1>1. PICK l \in logins : c.exp = l.at + SessionTTL /\ (random => l.process = c.signedBy)
  BY DEF Made, IsSession
<1>2. hour - l.at <= SessionTTL
  BY <1>1, SessionTTLAssumption DEF Clocks, IsSession
<1>3. random => l.process = process
  BY <1>1 DEF IsSession, Secret
<1>4. QED BY <1>2, <1>3 DEF Alive

\* Whatever a tab does or is shown by the dashboard, there was a login for it that
\* has not ended (requireSession, validCSRF, UsernameFromRequest).
THEOREM NobodyActsWithoutLogin == SessionSpec => ActsFollowLogins
<1>1. ASSUME Genuine, NEW t \in Tab, Act(t) \/ (GetPage(t) /\ way'[t].shows # LoginPage)
      PROVE  Alive # {}
  <2>1. Clocks /\ Made(way[t].cookie)
    BY <1>1, AskedOrAnswered DEF Act, GetPage, Pending, Genuine
  <2>2. CASE Act(t)
    BY <2>1, <2>2, SessionsAreAlive DEF Act, ValidCSRF
  <2>3. CASE GetPage(t) /\ way'[t].shows # LoginPage
    <3>1. IsSession(way[t].cookie)
      BY <1>1, <2>3 DEF GetPage, Reply, Genuine
    <3>2. QED BY <2>1, <3>1, SessionsAreAlive
  <2>4. QED BY <1>1, <2>2, <2>3
<1>2. Genuine =>
        [\A t \in Tab : Act(t) \/ (GetPage(t) /\ way'[t].shows # LoginPage) => Alive # {}]_sessionVars
  BY <1>1
<1>3. QED BY <1>2, GenuineInit, GenuineNext, PTL DEF SessionSpec, ActsFollowLogins

\* A form is refused only when the session has ended or the secret is another
\* one: logouts and logins in other tabs do not matter (validCSRF, CSRFToken).
THEOREM FormsStayGood == SessionSpec => FormsOutliveSessions
<1>1. ASSUME Genuine, NEW t \in Tab, Refuse(t), Separable(username), way[t].cookie # NoCookie
      PROVE  hour > way[t].cookie.exp \/ (random /\ process > 1)
  <2>1. SUFFICES ASSUME hour <= way[t].cookie.exp, ~(random /\ process > 1)
                 PROVE  FALSE
    <3>1. way[t].cookie \in Cookies
      BY <1>1, AskedOrAnswered DEF Refuse, Pending, Genuine, Made
    <3>2. way[t].cookie.exp \in Nat
      BY <3>1 DEF Cookies
    <3>3. QED BY <1>1, <3>2 DEF Genuine, Clocks
  <2>2. /\ way[t] \in Asked /\ Made(way[t].cookie) /\ Issued(way[t].token)
        /\ way[t].token # LoginPage
    BY <1>1, AskedOrAnswered DEF Refuse, Pending, Genuine
  <2>3. Secrets = {Secret}
    BY <1>1, <2>1 DEF Secrets, Secret, Genuine, Clocks
  <2>4. IsSession(way[t].cookie)
    BY <1>1, <2>1, <2>2, <2>3 DEF Made, IsSession
  <2>5. way[t].token = CSRFToken
    BY <2>2, <2>3 DEF Issued, Forms, CSRFToken
  <2>6. QED BY <1>1, <2>2, <2>4, <2>5 DEF Refuse, ValidCSRF
<1>2. Genuine =>
        [\A t \in Tab :
           Refuse(t) /\ Separable(username) /\ way[t].cookie # NoCookie =>
             \/ hour > way[t].cookie.exp
             \/ random /\ process > 1]_sessionVars
  BY <1>1
<1>3. QED BY <1>2, GenuineInit, GenuineNext, PTL DEF SessionSpec, FormsOutliveSessions
====
