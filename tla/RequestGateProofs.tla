------------------------- MODULE RequestGateProofs -------------------------
(* Theorems about what the server does with a request: RequestGate, for any
   visitors, limits, windows, routes and goroutines; OperatorLookup, for any
   files; Observations, for any measurements, answers and readers; and
   CellState, for any measurements, windows and thresholds. *)
EXTENDS RequestGate, OperatorLookup, Observations, CellState, FiniteSetTheorems, TLAPS

(* A request in the hands of a handler. *)
GateRequest ==
    [pc : {"device", "bucket", "count", "limited", "crowded"}, browser : Browsers,
     ip : {Address[b] : b \in Browsers}, route : Routes, now : Nat]

Devices == {Device(b) : b \in Browsers}

Admission == [now : Nat, at : Nat]

GateType ==
    /\ gateClock \in Nat
    /\ gate \in [Handlers -> {Idle, Allowed} \cup GateRequest]
    /\ DOMAIN buckets \subseteq Parties
    /\ buckets \in [DOMAIN buckets -> [count : Nat, resetAt : Nat]]
    /\ admitted \in [Parties -> Seq(Admission)]
    /\ recorded \in [Devices -> Nat \cup {Never}]
    /\ \A a \in DOMAIN seen : seen[a] \in [DOMAIN seen[a] -> Nat]

(* The address that is counted is the visitor's own, and no request carries a
   time that is still to come. *)
OwnAddress ==
    \A h \in Handlers : gate[h] \in GateRequest =>
        /\ gate[h].ip = Address[gate[h].browser]
        /\ gate[h].now <= gateClock

(* What a window has counted are the last admissions of its visitor, none of
   them before the window. *)
Counted(p, bucket) ==
    /\ bucket.count <= Len(p)
    /\ \A j \in (Len(p) - bucket.count + 1)..Len(p) : p[j].at >= bucket.resetAt - Window

BucketsCount ==
    \A k \in DOMAIN buckets :
        /\ Counted(admitted[k], buckets[k])
        /\ buckets[k].resetAt - Window <= gateClock

(* What the tracker remembers of an address was recorded for it. *)
SeenRecorded ==
    \A a \in DOMAIN seen : \A d \in DOMAIN seen[a] :
        <<a, d>> \in Devices /\ recorded[<<a, d>>] >= seen[a][d]

GateInv ==
    /\ GateType
    /\ OwnAddress
    /\ BucketsCount
    /\ SeenRecorded

----------------------------------------------------------------------------
(* clientIP finds the visitor's address in whatever his network and the
   trusted proxies made of the request. *)
LEMMA ClientIPIsAddress ==
    ASSUME NEW b \in Browsers, NEW e \in Envelopes(Address[b])
    PROVE  ClientIP(e) = Address[b]
<1> DEFINE v == Address[b]
<1>0. v \notin Proxies /\ v # NoAddr
  BY GateAssumption
<1>1. CASE e \in [remote : {v}, cf : {NoAddr}, xff : {<<>>, <<Lan>>}]
  BY <1>0, <1>1 DEF ClientIP
<1>2. CASE e \in [remote : Proxies, cf : {v}, xff : {<<>>, <<Lan>>}]
  BY <1>0, <1>2 DEF ClientIP
<1>3. CASE e \in [remote : Proxies, cf : {NoAddr},
                  xff : {<<v>>, <<Lan, v>>, <<v, NoAddr>>} \cup {<<v, p>> : p \in Proxies}]
  <2>1. e.remote \in Proxies /\ e.cf = NoAddr
    BY <1>3
  <2> DEFINE last(i) == i \in Hops(e) /\ \A j \in Hops(e) : j <= i
  <2>2. ASSUME NEW i, last(i), e.xff[i] = v, Hops(e) \subseteq Nat
        PROVE  ClientIP(e) = v
    <3>1. ASSUME NEW k, last(k) PROVE k = i
      BY <2>2, <3>1
    <3>2. Hops(e) # {}
      BY <2>2
    <3>3. (CHOOSE k \in Hops(e) : \A j \in Hops(e) : j <= k) = i
      BY <2>2, <3>1
    <3> QED BY <2>1, <2>2, <3>2, <3>3 DEF ClientIP
  <2>3. CASE e.xff = <<v>>
    <3>1. Hops(e) = {1}
      BY <1>0, <2>3 DEF Hops
    <3> QED BY <2>2, <2>3, <3>1
  <2>4. CASE e.xff = <<Lan, v>>
    <3>1. 2 \in Hops(e) /\ Hops(e) \subseteq {1, 2}
      BY <1>0, <2>4 DEF Hops
    <3> QED BY <2>2, <2>4, <3>1
  <2>5. CASE e.xff = <<v, NoAddr>>
    <3>1. Hops(e) = {1}
      BY <1>0, <2>5 DEF Hops
    <3> QED BY <2>2, <2>5, <3>1
  <2>6. ASSUME NEW p \in Proxies, e.xff = <<v, p>> PROVE ClientIP(e) = v
    <3>1. Hops(e) = {1}
      BY <1>0, <2>6 DEF Hops
    <3> QED BY <2>2, <2>6, <3>1
  <2> QED BY <1>3, <2>3, <2>4, <2>5, <2>6
<1> QED BY <1>1, <1>2, <1>3 DEF Envelopes

(* There are as many devices as browsers at most. *)
LEMMA DevicesFinite == IsFiniteSet(Devices)
<1> DEFINE f == [b \in Browsers |-> Device(b)]
<1>1. f \in Surjection(Browsers, Devices)
  BY DEF Surjection, Devices
<1> QED BY <1>1, FS_Surjection, GateAssumption

----------------------------------------------------------------------------
(* A handler that holds a request holds a typed one, whose party and bucket
   are the visitor's. *)
LEMMA HeldRequest ==
    ASSUME GateInv, NEW h \in Handlers,
           gate[h].pc \in {"device", "bucket", "count", "limited", "crowded"}
    PROVE  /\ gate[h] \in GateRequest
           /\ gate[h].ip = Address[gate[h].browser]
           /\ gate[h].now <= gateClock
           /\ BucketKey(gate[h]) = Party(gate[h].route, gate[h].browser)
           /\ BucketKey(gate[h]) \in Parties
<1>1. gate[h] \in GateRequest
  BY DEF GateInv, GateType, Idle, Allowed
<1>2. gate[h].ip = Address[gate[h].browser] /\ gate[h].now <= gateClock
  BY <1>1 DEF GateInv, OwnAddress
<1>3. gate[h].route \in Routes /\ gate[h].browser \in Browsers
  BY <1>1 DEF GateRequest
<1> QED BY <1>1, <1>2, <1>3 DEF BucketKey, Party, Parties

(* A step that leaves the counters alone, and gives no handler a request that
   is not typed, keeps the invariant. *)
LEMMA OnlyGate ==
    ASSUME GateInv, NEW h \in Handlers, NEW q \in {Idle, Allowed} \cup GateRequest,
           gate' = [gate EXCEPT ![h] = q],
           q \in GateRequest => q.ip = Address[q.browser] /\ q.now <= gateClock,
           UNCHANGED <<gateClock, buckets, seen, admitted, recorded>>
    PROVE  GateInv'
<1>1. GateType'
  BY DEF GateInv, GateType
<1>2. OwnAddress'
  BY DEF GateInv, OwnAddress, GateType
<1>3. BucketsCount'
  BY DEF GateInv, BucketsCount
<1>4. SeenRecorded'
  BY DEF GateInv, SeenRecorded
<1> QED BY <1>1, <1>2, <1>3, <1>4 DEF GateInv

LEMMA ArriveKeeps ==
    ASSUME GateInv, NEW h \in Handlers, NEW b \in Browsers, NEW route \in Routes,
           Arrive(h, b, route)
    PROVE  GateInv'
<1>1. PICK e \in Envelopes(Address[b]) :
        gate' = [gate EXCEPT ![h] =
                   [pc |-> IF AsksTracker(route, b) THEN "device" ELSE "bucket",
                    browser |-> b, ip |-> ClientIP(e), route |-> route,
                    now |-> IF AsksTracker(route, b) THEN gateClock ELSE 0]]
  BY DEF Arrive
<1> DEFINE q == [pc |-> IF AsksTracker(route, b) THEN "device" ELSE "bucket",
                 browser |-> b, ip |-> ClientIP(e), route |-> route,
                 now |-> IF AsksTracker(route, b) THEN gateClock ELSE 0]
<1>2. ClientIP(e) = Address[b]
  BY ClientIPIsAddress
<1>3. gateClock \in Nat
  BY DEF GateInv, GateType
<1>4. q \in GateRequest
  BY <1>2, <1>3 DEF GateRequest
<1>5. q.ip = Address[q.browser] /\ q.now <= gateClock
  BY <1>2, <1>3
<1>6. gate' = [gate EXCEPT ![h] = q]
  BY <1>1
<1>7. UNCHANGED <<gateClock, buckets, seen, admitted, recorded>>
  BY DEF Arrive
<1> HIDE DEF q
<1> QED BY <1>4, <1>5, <1>6, <1>7, OnlyGate

LEMMA ReadClockKeeps ==
    ASSUME GateInv, NEW h \in Handlers, ReadClock(h)
    PROVE  GateInv'
<1> DEFINE q == [gate[h] EXCEPT !.pc = "count", !.now = gateClock]
<1>1. gate[h] \in GateRequest /\ gate[h].ip = Address[gate[h].browser]
  BY HeldRequest DEF ReadClock
<1>2. gateClock \in Nat
  BY DEF GateInv, GateType
<1>3. q \in GateRequest
  BY <1>1, <1>2 DEF GateRequest
<1>4. q.ip = Address[q.browser] /\ q.now <= gateClock
  BY <1>1, <1>2 DEF GateRequest
<1>5. gate' = [gate EXCEPT ![h] = q]
  BY DEF ReadClock, GateInv, GateType
<1>6. UNCHANGED <<gateClock, buckets, seen, admitted, recorded>>
  BY DEF ReadClock
<1> HIDE DEF q
<1> QED BY <1>3, <1>4, <1>5, <1>6, OnlyGate

LEMMA OverLimitKeeps ==
    ASSUME GateInv, NEW h \in Handlers, OverLimit(h)
    PROVE  GateInv'
<1> DEFINE q == [gate[h] EXCEPT !.pc = "limited"]
<1>1. /\ gate[h] \in GateRequest
      /\ gate[h].ip = Address[gate[h].browser]
      /\ gate[h].now <= gateClock
  BY HeldRequest DEF OverLimit
<1>3. q \in GateRequest
  BY <1>1 DEF GateRequest
<1>4. q.ip = Address[q.browser] /\ q.now <= gateClock
  BY <1>1 DEF GateRequest
<1>5. gate' = [gate EXCEPT ![h] = q]
  BY DEF OverLimit, GateInv, GateType
<1>6. UNCHANGED <<gateClock, buckets, seen, admitted, recorded>>
  BY DEF OverLimit
<1> HIDE DEF q
<1> QED BY <1>3, <1>4, <1>5, <1>6, OnlyGate

LEMMA ServeKeeps ==
    ASSUME GateInv, NEW h \in Handlers, Serve(h)
    PROVE  GateInv'
<1>1. Idle \notin GateRequest
  BY DEF Idle, GateRequest
<1> QED BY <1>1, OnlyGate DEF Serve

LEMMA GateTickKeeps ==
    ASSUME GateInv, GateTick
    PROVE  GateInv'
<1>1. GateType'
  BY DEF GateInv, GateType, GateTick
<1>2. OwnAddress'
  <2>1. SUFFICES ASSUME NEW h \in Handlers, gate[h] \in GateRequest
                 PROVE  gate[h].ip = Address[gate[h].browser] /\ gate[h].now <= gateClock + 1
    BY DEF OwnAddress, GateTick
  <2>2. gate[h].now \in Nat /\ gateClock \in Nat
    BY <2>1 DEF GateRequest, GateInv, GateType
  <2> QED BY <2>1, <2>2 DEF GateInv, OwnAddress
<1>3. BucketsCount'
  <2>1. SUFFICES ASSUME NEW k \in DOMAIN buckets
                 PROVE  /\ Counted(admitted[k], buckets[k])
                        /\ buckets[k].resetAt - Window <= gateClock + 1
    BY DEF BucketsCount, GateTick
  <2>2. buckets[k].resetAt \in Nat /\ gateClock \in Nat /\ Window \in Nat
    BY <2>1, GateAssumption DEF GateInv, GateType
  <2> QED BY <2>1, <2>2 DEF GateInv, BucketsCount
<1>4. SeenRecorded'
  BY DEF GateInv, SeenRecorded, GateTick
<1> QED BY <1>1, <1>2, <1>3, <1>4 DEF GateInv

(* An admission keeps the invariant when the window of its visitor, new or one
   longer, counts it. *)
LEMMA AdmitKeeps ==
    ASSUME GateInv, NEW h \in Handlers, gate[h].pc = "count", Admit(h),
           NEW B \in [count : Nat, resetAt : Nat],
           buckets' = Extended(buckets, BucketKey(gate[h]), B),
           B.resetAt - Window <= gateClock,
           B.count = 1
             \/ /\ BucketKey(gate[h]) \in DOMAIN buckets
                /\ B.count = buckets[BucketKey(gate[h])].count + 1
                /\ B.resetAt = buckets[BucketKey(gate[h])].resetAt
    PROVE  GateInv'
<1> DEFINE k == BucketKey(gate[h])
           a == [now |-> gate[h].now, at |-> gateClock]
           p == admitted[k]
<1>1. /\ gate[h] \in GateRequest
      /\ k = Party(gate[h].route, gate[h].browser)
      /\ k \in Parties
  BY HeldRequest
<1>2. gateClock \in Nat /\ gate[h].now \in Nat /\ Window \in Nat
  BY <1>1, GateAssumption DEF GateInv, GateType, GateRequest
<1>3. a \in Admission
  BY <1>2 DEF Admission
<1>4. p \in Seq(Admission)
  BY <1>1 DEF GateInv, GateType
<1>5. /\ admitted \in [Parties -> Seq(Admission)]
      /\ admitted' = [admitted EXCEPT ![k] = Append(p, a)]
  BY <1>1 DEF GateInv, GateType, Admit
<1>6. Append(p, a) \in Seq(Admission) /\ Len(Append(p, a)) = Len(p) + 1 /\ Len(p) \in Nat
  BY <1>3, <1>4
<1>7. /\ DOMAIN buckets' = DOMAIN buckets \cup {k}
      /\ buckets'[k] = B
      /\ \A x \in DOMAIN buckets : x # k => buckets'[x] = buckets[x]
      /\ buckets' = [x \in DOMAIN buckets' |-> buckets'[x]]
  BY DEF Extended
<1>8. UNCHANGED <<gateClock, seen, recorded>> /\ gate' = [gate EXCEPT ![h] = Allowed]
  BY DEF Admit
<1>9. GateType'
  <2>1. admitted' \in [Parties -> Seq(Admission)]
    BY <1>1, <1>5, <1>6
  <2>2. gate' \in [Handlers -> {Idle, Allowed} \cup GateRequest]
    BY <1>8 DEF GateInv, GateType
  <2>3. DOMAIN buckets' \subseteq Parties
    BY <1>1, <1>7 DEF GateInv, GateType
  <2>4. \A x \in DOMAIN buckets' : buckets'[x] \in [count : Nat, resetAt : Nat]
    BY <1>7 DEF GateInv, GateType
  <2>5. buckets' \in [DOMAIN buckets' -> [count : Nat, resetAt : Nat]]
    BY <1>7, <2>4
  <2> QED BY <1>8, <2>1, <2>2, <2>3, <2>5 DEF GateInv, GateType
<1>10. OwnAddress'
  <2>1. Allowed \notin GateRequest
    BY DEF Allowed, GateRequest
  <2> QED BY <1>8, <2>1 DEF GateInv, OwnAddress, GateType
<1>11. BucketsCount'
  <2>1. ASSUME NEW x \in DOMAIN buckets, x # k
        PROVE  Counted(admitted'[x], buckets'[x]) /\ buckets'[x].resetAt - Window <= gateClock
    <3>1. x \in Parties
      BY <2>1 DEF GateInv, GateType
    <3>2. admitted'[x] = admitted[x]
      BY <1>5, <2>1, <3>1
    <3> QED BY <1>7, <2>1, <3>2 DEF GateInv, BucketsCount
  <2>2. admitted'[k] = Append(p, a)
    BY <1>1, <1>5
  <2>3. Counted(Append(p, a), B)
    <3>1. \A j \in 1..Len(p) : Append(p, a)[j] = p[j]
      BY <1>3, <1>4
    <3>2. Append(p, a)[Len(p) + 1].at = gateClock
      BY <1>3, <1>4
    <3>3. CASE B.count = 1
      BY <1>2, <1>6, <3>2, <3>3 DEF Counted
    <3>4. CASE /\ k \in DOMAIN buckets
               /\ B.count = buckets[k].count + 1
               /\ B.resetAt = buckets[k].resetAt
      <4>1. Counted(p, buckets[k]) /\ buckets[k].count \in Nat /\ buckets[k].resetAt \in Nat
        BY <3>4 DEF GateInv, BucketsCount, GateType
      <4>2. B.count <= Len(p) + 1
        BY <1>6, <3>4, <4>1 DEF Counted
      <4>3. ASSUME NEW j \in (Len(p) + 1 - B.count + 1)..(Len(p) + 1)
            PROVE  Append(p, a)[j].at >= B.resetAt - Window
        <5>1. CASE j = Len(p) + 1
          BY <1>2, <3>2, <5>1
        <5>2. CASE j # Len(p) + 1
          <6> HIDE DEF p, k
          <6>1. B.count = buckets[k].count + 1 /\ buckets[k].count \in Nat /\ Len(p) \in Nat
            BY <1>6, <3>4, <4>1
          <6>2. j >= Len(p) - buckets[k].count + 1 /\ j <= Len(p) /\ j \in Int
            BY <5>2, <6>1
          <6>3. buckets[k].count <= Len(p)
            BY <4>1 DEF Counted
          <6>4. j \in (Len(p) - buckets[k].count + 1)..Len(p) /\ j \in 1..Len(p)
            BY <6>1, <6>2, <6>3
          <6> QED BY <3>1, <3>4, <4>1, <6>4 DEF Counted
        <5> QED BY <5>1, <5>2
      <4> HIDE DEF p, a
      <4> QED BY <1>6, <4>2, <4>3 DEF Counted
    <3> QED BY <3>3, <3>4
  <2> QED BY <1>7, <1>8, <2>1, <2>2, <2>3 DEF BucketsCount
<1>12. SeenRecorded'
  BY <1>8 DEF GateInv, SeenRecorded
<1> QED BY <1>9, <1>10, <1>11, <1>12 DEF GateInv

LEMMA OpenWindowKeeps ==
    ASSUME GateInv, NEW h \in Handlers, OpenWindow(h)
    PROVE  GateInv'
<1> DEFINE B == [count |-> 1, resetAt |-> gate[h].now + Window]
<1>1. gate[h] \in GateRequest /\ gate[h].now <= gateClock
  BY HeldRequest DEF OpenWindow
<1>2. gateClock \in Nat /\ gate[h].now \in Nat /\ Window \in Nat
  BY <1>1, GateAssumption DEF GateInv, GateType, GateRequest
<1>3. B \in [count : Nat, resetAt : Nat] /\ B.count = 1 /\ B.resetAt - Window <= gateClock
  BY <1>1, <1>2
<1>4. /\ gate[h].pc = "count"
      /\ Admit(h)
      /\ buckets' = Extended(buckets, BucketKey(gate[h]), B)
  BY DEF OpenWindow
<1> HIDE DEF B
<1> QED BY <1>3, <1>4, AdmitKeeps

LEMMA CountOneKeeps ==
    ASSUME GateInv, NEW h \in Handlers, CountOne(h)
    PROVE  GateInv'
<1> DEFINE k == BucketKey(gate[h])
           B == [buckets[k] EXCEPT !.count = buckets[k].count + 1]
<1>1. k \in DOMAIN buckets
  BY DEF CountOne, Fresh
<1>2. buckets[k] \in [count : Nat, resetAt : Nat] /\ buckets[k].resetAt - Window <= gateClock
  BY <1>1 DEF GateInv, GateType, BucketsCount
<1>3. /\ B \in [count : Nat, resetAt : Nat]
      /\ B.count = buckets[k].count + 1
      /\ B.resetAt = buckets[k].resetAt
  BY <1>2
<1>4. gate[h].pc = "count" /\ Admit(h) /\ buckets' = [buckets EXCEPT ![k] = B]
  BY DEF CountOne
<1>5. buckets' = Extended(buckets, k, B)
  <2>1. DOMAIN buckets \cup {k} = DOMAIN buckets
    BY <1>1
  <2>2. buckets = [x \in DOMAIN buckets |-> buckets[x]]
    BY DEF GateInv, GateType
  <2> HIDE DEF B, k
  <2> QED BY <1>4, <2>1, <2>2 DEF Extended
<1> HIDE DEF B
<1> QED BY <1>1, <1>2, <1>3, <1>4, <1>5, AdmitKeeps

(* What Recent keeps of an address is what the tracker had. *)
LEMMA RecentIsSeen ==
    ASSUME NEW ip, NEW now, NEW d \in DOMAIN Recent(ip, now)
    PROVE  /\ ip \in DOMAIN seen
           /\ d \in DOMAIN seen[ip]
           /\ Recent(ip, now)[d] = seen[ip][d]
           /\ now - seen[ip][d] <= DeviceWindow
  BY DEF Recent

LEMMA TrackKeeps ==
    ASSUME GateInv, NEW h \in Handlers, Track(h)
    PROVE  GateInv'
<1> DEFINE q == gate[h]
           fps == Recent(q.ip, q.now)
           d == Fingerprint[q.browser]
           dev == Device(q.browser)
           ok == d \in DOMAIN fps \/ Cardinality(DOMAIN fps) < MaxDistinct
<1>1. q \in GateRequest /\ q.ip = Address[q.browser] /\ q.now <= gateClock
  BY HeldRequest DEF Track
<1>2. q.now \in Nat /\ q.browser \in Browsers /\ gateClock \in Nat
  BY <1>1 DEF GateRequest, GateInv, GateType
<1>3. dev \in Devices /\ dev = <<q.ip, d>>
  BY <1>1, <1>2 DEF Devices, Device
<1>4. UNCHANGED <<gateClock, buckets, admitted>>
  BY DEF Track
<1>5. recorded \in [Devices -> Nat \cup {Never}] /\ recorded[dev] \in Nat \cup {Never}
  BY <1>3 DEF GateInv, GateType
<1>6. PICK r \in {Idle, Allowed} \cup GateRequest :
        /\ gate' = [gate EXCEPT ![h] = r]
        /\ r.ip = q.ip /\ r.browser = q.browser /\ r.now <= gateClock
  <2>1. CASE ok
    <3> DEFINE r == [q EXCEPT !.pc = "bucket", !.now = 0]
    <3> HIDE DEF q
    <3>1. r.ip = q.ip /\ r.browser = q.browser /\ r.now = 0
      BY <1>1 DEF GateRequest
    <3>2. r \in GateRequest
      BY <1>1 DEF GateRequest
    <3>3. gate' = [gate EXCEPT ![h] = r]
      BY <2>1 DEF Track, q
    <3>4. r.now <= gateClock
      BY <1>2, <3>1
    <3> HIDE DEF r
    <3> QED BY <3>1, <3>2, <3>3, <3>4
  <2>2. CASE ~ok
    <3> DEFINE r == [q EXCEPT !.pc = "crowded"]
    <3>1. r \in GateRequest /\ r.ip = q.ip /\ r.browser = q.browser /\ r.now <= gateClock
      BY <1>1, <1>2 DEF GateRequest
    <3>2. gate' = [gate EXCEPT ![h] = r]
      BY <2>2 DEF Track
    <3> QED BY <3>1, <3>2
  <2> QED BY <2>1, <2>2
<1>7. PICK new :
        /\ seen' = Extended(seen, q.ip, new)
        /\ new \in [DOMAIN new -> Nat]
        /\ \A x \in DOMAIN new : <<q.ip, x>> \in Devices /\ recorded'[<<q.ip, x>>] >= new[x]
  <2>1. /\ fps \in [DOMAIN fps -> Nat]
        /\ \A x \in DOMAIN fps : <<q.ip, x>> \in Devices /\ recorded[<<q.ip, x>>] >= fps[x]
    <3>1. fps = [x \in DOMAIN fps |-> fps[x]]
      BY DEF Recent
    <3>2. ASSUME NEW x \in DOMAIN fps
          PROVE  /\ fps[x] \in Nat
                 /\ <<q.ip, x>> \in Devices
                 /\ recorded[<<q.ip, x>>] >= fps[x]
      <4>1. q.ip \in DOMAIN seen /\ x \in DOMAIN seen[q.ip] /\ fps[x] = seen[q.ip][x]
        BY <3>2, RecentIsSeen
      <4> HIDE DEF fps, q
      <4> QED BY <4>1 DEF GateInv, GateType, SeenRecorded
    <3> HIDE DEF fps
    <3> QED BY <3>1, <3>2
  <2>2. CASE ok
    <3> DEFINE new == Extended(fps, d, q.now)
    <3>1. seen' = Extended(seen, q.ip, new)
      BY <2>2 DEF Track
    <3>2. recorded' = [recorded EXCEPT ![dev] = Later(recorded[dev], q.now)]
      BY <2>2 DEF Track
    <3>3. /\ Later(recorded[dev], q.now) >= recorded[dev]
          /\ Later(recorded[dev], q.now) >= q.now
      BY <1>2, <1>5 DEF Later, Never
    <3>4. /\ DOMAIN new = DOMAIN fps \cup {d}
          /\ new[d] = q.now
          /\ \A x \in DOMAIN fps : x # d => new[x] = fps[x]
          /\ new = [x \in DOMAIN new |-> new[x]]
      BY DEF Extended
    <3>5. recorded'[dev] >= q.now
      BY <1>3, <1>5, <3>2, <3>3
    <3> HIDE DEF new, fps, q, d, dev
    <3>6. new \in [DOMAIN new -> Nat]
      BY <1>2, <2>1, <3>4
    <3>7. ASSUME NEW x \in DOMAIN new
          PROVE  <<q.ip, x>> \in Devices /\ recorded'[<<q.ip, x>>] >= new[x]
      <4>1. CASE x = d
        BY <1>3, <3>4, <3>5, <4>1
      <4>2. CASE x # d
        <5>1. x \in DOMAIN fps /\ new[x] = fps[x]
          BY <3>4, <3>7, <4>2
        <5>2. <<q.ip, x>> # dev /\ <<q.ip, x>> \in Devices
          BY <1>3, <2>1, <4>2, <5>1
        <5> QED BY <1>5, <2>1, <3>2, <5>1, <5>2
      <4> QED BY <4>1, <4>2
    <3> QED BY <3>1, <3>6, <3>7
  <2>3. CASE ~ok
    BY <2>1, <2>3 DEF Track
  <2> QED BY <2>2, <2>3
<1>8. /\ recorded' \in [Devices -> Nat \cup {Never}]
      /\ \A x \in Devices : recorded'[x] >= recorded[x]
  <2>1. recorded' = recorded
          \/ recorded' = [recorded EXCEPT ![dev] = Later(recorded[dev], q.now)]
    BY DEF Track
  <2>2. /\ Later(recorded[dev], q.now) >= recorded[dev]
        /\ Later(recorded[dev], q.now) \in Nat \cup {Never}
    BY <1>2, <1>5 DEF Later, Never
  <2>3. \A x \in Devices : recorded[x] >= recorded[x]
    BY <1>5 DEF Never
  <2> HIDE DEF dev, q
  <2> QED BY <1>5, <2>1, <2>2, <2>3
<1>9. \A a \in DOMAIN seen' :
        /\ seen'[a] \in [DOMAIN seen'[a] -> Nat]
        /\ \A x \in DOMAIN seen'[a] :
              <<a, x>> \in Devices /\ recorded'[<<a, x>>] >= seen'[a][x]
  <2>1. SUFFICES ASSUME NEW a \in DOMAIN seen'
        PROVE  /\ seen'[a] \in [DOMAIN seen'[a] -> Nat]
               /\ \A x \in DOMAIN seen'[a] :
                     <<a, x>> \in Devices /\ recorded'[<<a, x>>] >= seen'[a][x]
    OBVIOUS
  <2>2. CASE a = q.ip
    BY <1>7, <2>2 DEF Extended
  <2>3. CASE a # q.ip
    <3>1. a \in DOMAIN seen /\ seen'[a] = seen[a]
      BY <1>7, <2>1, <2>3 DEF Extended
    <3>2. seen[a] \in [DOMAIN seen[a] -> Nat]
      BY <3>1 DEF GateInv, GateType
    <3>3. ASSUME NEW x \in DOMAIN seen[a]
          PROVE  <<a, x>> \in Devices /\ recorded'[<<a, x>>] >= seen[a][x]
      <4>1. <<a, x>> \in Devices /\ recorded[<<a, x>>] >= seen[a][x]
        BY <3>1, <3>3 DEF GateInv, SeenRecorded
      <4>2. /\ recorded'[<<a, x>>] >= recorded[<<a, x>>]
            /\ recorded[<<a, x>>] \in Nat \cup {Never}
            /\ recorded'[<<a, x>>] \in Nat \cup {Never}
            /\ seen[a][x] \in Nat
        BY <1>5, <1>8, <3>2, <3>3, <4>1
      <4> QED BY <4>1, <4>2 DEF Never
    <3> QED BY <3>1, <3>2, <3>3
  <2> QED BY <2>2, <2>3
<1> HIDE DEF q
<1>10. GateType'
  BY <1>4, <1>6, <1>8, <1>9 DEF GateInv, GateType
<1>11. OwnAddress'
  BY <1>1, <1>4, <1>6 DEF GateInv, OwnAddress, GateType
<1>12. BucketsCount'
  BY <1>4 DEF GateInv, BucketsCount
<1>13. SeenRecorded'
  BY <1>9 DEF SeenRecorded
<1> QED BY <1>10, <1>11, <1>12, <1>13 DEF GateInv

(* The invariant holds: whatever a network and the trusted proxies write in
   the headers, a request is counted for the visitor who made it. *)
THEOREM GateInvariant == GateSpec => []GateInv
<1>1. GateInit => GateInv
  <2> SUFFICES ASSUME GateInit PROVE GateInv
    OBVIOUS
  <2>1. GateType
    <3>1. <<>> \in Seq(Admission)
      OBVIOUS
    <3>2. Parties = DOMAIN admitted /\ admitted \in [Parties -> Seq(Admission)]
      BY <3>1 DEF GateInit
    <3>3. recorded \in [Devices -> Nat \cup {Never}]
      BY DEF GateInit, Devices
    <3> QED BY <3>2, <3>3 DEF GateInit, GateType
  <2>2. OwnAddress
    BY DEF GateInit, OwnAddress, Idle, GateRequest
  <2>3. BucketsCount
    BY DEF GateInit, BucketsCount
  <2>4. SeenRecorded
    BY DEF GateInit, SeenRecorded
  <2> QED BY <2>1, <2>2, <2>3, <2>4 DEF GateInv
<1>2. GateInv /\ [GateNext]_gateVars => GateInv'
  <2> SUFFICES ASSUME GateInv, [GateNext]_gateVars PROVE GateInv'
    OBVIOUS
  <2>1. CASE UNCHANGED gateVars
    BY <2>1 DEF gateVars, GateInv, GateType, OwnAddress, BucketsCount, Counted, SeenRecorded
  <2>2. ASSUME NEW h \in Handlers, GateStep(h) PROVE GateInv'
    BY <2>2, TrackKeeps, ReadClockKeeps, OpenWindowKeeps, CountOneKeeps, OverLimitKeeps,
       ServeKeeps DEF GateStep
  <2>3. ASSUME NEW h \in Handlers, NEW b \in Browsers, NEW route \in Routes,
               Arrive(h, b, route)
        PROVE  GateInv'
    BY <2>3, ArriveKeeps
  <2>4. CASE GateTick
    BY <2>4, GateTickKeeps
  <2> QED BY <2>1, <2>2, <2>3, <2>4 DEF GateNext
<1> QED BY <1>1, <1>2, PTL DEF GateSpec

(* How a handler comes to hold a refused request, and what becomes of it. *)
LEMMA RefusedStep ==
    ASSUME GateInv, [GateNext]_gateVars, NEW h \in Handlers, NEW pc \in {"limited", "crowded"},
           gate'[h].pc = pc
    PROVE  \/ gate[h] = gate'[h]
           \/ (pc = "limited" /\ OverLimit(h))
           \/ /\ pc = "crowded" /\ Track(h) /\ recorded' = recorded
              /\ gate'[h] = [gate[h] EXCEPT !.pc = "crowded"]
              /\ Cardinality(DOMAIN Recent(gate[h].ip, gate[h].now)) >= MaxDistinct
              /\ Fingerprint[gate[h].browser] \notin DOMAIN Recent(gate[h].ip, gate[h].now)
<1>1. DOMAIN gate = Handlers
  BY DEF GateInv, GateType
<1>2. ASSUME NEW g \in Handlers, NEW q, gate' = [gate EXCEPT ![g] = q], g # h
      PROVE  gate[h] = gate'[h]
  BY <1>1, <1>2
<1>3. CASE UNCHANGED gateVars
  BY <1>3 DEF gateVars
<1>4. CASE GateTick
  BY <1>4 DEF GateTick
<1>5. ASSUME NEW g \in Handlers, NEW b \in Browsers, NEW route \in Routes, Arrive(g, b, route)
      PROVE  gate[h] = gate'[h]
  BY <1>1, <1>2, <1>5 DEF Arrive
<1>6. ASSUME NEW g \in Handlers, GateStep(g), g # h
      PROVE  gate[h] = gate'[h]
  BY <1>1, <1>6 DEF GateStep, Track, ReadClock, OpenWindow, CountOne, OverLimit, Serve, Admit
<1>7. CASE GateStep(h)
  <2>1. CASE Track(h)
    <3> DEFINE q == gate[h]
               fps == Recent(q.ip, q.now)
               ok == \/ Fingerprint[q.browser] \in DOMAIN fps
                     \/ Cardinality(DOMAIN fps) < MaxDistinct
    <3>1. q \in GateRequest
      BY <2>1, HeldRequest DEF Track
    <3>2. CASE ok
      <4>1. gate'[h] = [q EXCEPT !.pc = "bucket", !.now = 0]
        BY <1>1, <2>1, <3>2 DEF Track
      <4>2. gate'[h].pc = "bucket"
        BY <3>1, <4>1 DEF GateRequest
      <4> QED BY <4>2
    <3>3. CASE ~ok
      <4>1. gate'[h] = [q EXCEPT !.pc = "crowded"] /\ recorded' = recorded
        BY <1>1, <2>1, <3>3 DEF Track
      <4>2. gate'[h].pc = "crowded"
        BY <3>1, <4>1 DEF GateRequest
      <4>3. ASSUME NEW x \in DOMAIN fps PROVE <<q.ip, x>> \in Devices
        <5>1. q.ip \in DOMAIN seen /\ x \in DOMAIN seen[q.ip]
          BY RecentIsSeen, <4>3
        <5> HIDE DEF q, fps
        <5> QED BY <5>1 DEF GateInv, SeenRecorded
      <4>4. Cardinality(DOMAIN fps) \in Nat
        <5> DEFINE f == [x \in DOMAIN fps |-> <<q.ip, x>>]
        <5>1. f \in Injection(DOMAIN fps, Devices)
          <6> HIDE DEF fps, q
          <6> QED BY <4>3 DEF Injection, IsInjective
        <5> HIDE DEF f, fps
        <5> QED BY <5>1, DevicesFinite, FS_Injection, FS_CardinalityType
      <4>5. Cardinality(DOMAIN fps) >= MaxDistinct
        BY <3>3, <4>4, GateAssumption
      <4> QED BY <2>1, <3>3, <4>1, <4>2, <4>5
    <3> QED BY <3>2, <3>3
  <2>2. CASE ReadClock(h)
    BY <1>1, <2>2, HeldRequest DEF ReadClock, GateRequest
  <2>3. CASE OpenWindow(h) \/ CountOne(h)
    BY <1>1, <2>3 DEF OpenWindow, CountOne, Admit, Allowed
  <2>4. CASE OverLimit(h)
    BY <1>1, <2>4, HeldRequest DEF OverLimit, GateRequest
  <2>5. CASE Serve(h)
    BY <1>1, <2>5 DEF Serve, Idle
  <2> QED BY <1>7, <2>1, <2>2, <2>3, <2>4, <2>5 DEF GateStep
<1> QED BY <1>3, <1>4, <1>5, <1>6, <1>7 DEF GateNext

(* No step forgets or changes an admission. *)
LEMMA AdmittedGrows ==
    ASSUME GateInv, [GateNext]_gateVars, NEW k \in Parties
    PROVE  /\ Len(admitted'[k]) >= Len(admitted[k])
           /\ \A j \in 1..Len(admitted[k]) : admitted'[k][j] = admitted[k][j]
<1>1. admitted[k] \in Seq(Admission) /\ admitted \in [Parties -> Seq(Admission)]
  BY DEF GateInv, GateType
<1>2. CASE admitted' = admitted
  BY <1>1, <1>2
<1>3. ASSUME NEW h \in Handlers, gate[h].pc = "count", Admit(h)
      PROVE  /\ Len(admitted'[k]) >= Len(admitted[k])
             /\ \A j \in 1..Len(admitted[k]) : admitted'[k][j] = admitted[k][j]
  <2> DEFINE a == [now |-> gate[h].now, at |-> gateClock]
             x == Party(gate[h].route, gate[h].browser)
  <2>1. a \in Admission /\ x \in Parties
    BY <1>3, HeldRequest DEF Admission, GateRequest, GateInv, GateType
  <2>2. admitted' = [admitted EXCEPT ![x] = Append(admitted[x], a)]
    BY <1>3, <1>1, <2>1 DEF Admit
  <2> HIDE DEF a, x
  <2>3. CASE k = x
    <3>1. admitted'[k] = Append(admitted[k], a)
      BY <1>1, <2>1, <2>2, <2>3
    <3> QED BY <1>1, <2>1, <3>1
  <2>4. CASE k # x
    <3>1. admitted'[k] = admitted[k]
      BY <1>1, <2>2, <2>4
    <3> QED BY <1>1, <3>1
  <2> QED BY <2>3, <2>4
<1>4. ASSUME NEW h \in Handlers, GateStep(h)
      PROVE  admitted' = admitted \/ (gate[h].pc = "count" /\ Admit(h))
  <2>1. CASE Track(h)
    BY <2>1 DEF Track
  <2>2. CASE OpenWindow(h) \/ CountOne(h)
    BY <2>2 DEF OpenWindow, CountOne
  <2>3. CASE ReadClock(h) \/ OverLimit(h) \/ Serve(h)
    BY <2>3 DEF ReadClock, OverLimit, Serve
  <2> QED BY <1>4, <2>1, <2>2, <2>3 DEF GateStep
<1>5. ASSUME NEW h \in Handlers, NEW b \in Browsers, NEW route \in Routes, Arrive(h, b, route)
      PROVE  admitted' = admitted
  BY <1>5 DEF Arrive
<1>6. CASE GateTick \/ UNCHANGED gateVars
  BY <1>2, <1>6 DEF GateTick, gateVars
<1> QED BY <1>2, <1>3, <1>4, <1>5, <1>6 DEF GateNext

(* RefusedMeansBusy for every set of visitors, goroutines, limits and windows:
   a request the limiter refuses comes after Limit admissions of that visitor
   and session on that route, all within the last window. *)
THEOREM GateRefusedMeansBusy == GateSpec => []RefusedMeansBusy
<1>1. GateInit => RefusedMeansBusy
  BY DEF GateInit, RefusedMeansBusy, Idle
<1>2. GateInv /\ GateInv' /\ RefusedMeansBusy /\ [GateNext]_gateVars => RefusedMeansBusy'
  <2> SUFFICES ASSUME GateInv, GateInv', RefusedMeansBusy, [GateNext]_gateVars,
                      NEW h \in Handlers, gate'[h].pc = "limited"
               PROVE  LET p == admitted'[Party(gate'[h].route, gate'[h].browser)]
                          n == Limit[gate'[h].route]
                      IN  \E i \in 1..Len(p) :
                            /\ i + n - 1 <= Len(p)
                            /\ \A j \in i..(i + n - 1) : p[j].at >= gate'[h].now - Window
    BY DEF RefusedMeansBusy, Admissions
  <2> DEFINE q == gate[h]
             k == Party(q.route, q.browser)
             p == admitted[k]
             n == Limit[q.route]
  <2>1. CASE OverLimit(h)
    <3>1. q \in GateRequest /\ BucketKey(q) = k /\ k \in Parties
      BY <2>1, HeldRequest DEF OverLimit
    <3>2. /\ gate' = [gate EXCEPT ![h] = [q EXCEPT !.pc = "limited"]]
          /\ admitted' = admitted
      BY <2>1 DEF OverLimit, GateInv, GateType
    <3>3. gate'[h].route = q.route /\ gate'[h].browser = q.browser /\ gate'[h].now = q.now
      BY <3>1, <3>2 DEF GateInv, GateType, GateRequest
    <3>4. /\ k \in DOMAIN buckets
          /\ q.now <= buckets[k].resetAt
          /\ buckets[k].count >= n
      <4>1. k \in DOMAIN buckets /\ ~(q.now > buckets[k].resetAt) /\ buckets[k].count >= n
        BY <2>1, <3>1 DEF OverLimit, Fresh
      <4>2. q.now \in Nat /\ buckets[k].resetAt \in Nat
        BY <3>1, <4>1 DEF GateInv, GateType, GateRequest
      <4> QED BY <4>1, <4>2
    <3>5. /\ p \in Seq(Admission)
          /\ buckets[k].count \in Nat
          /\ buckets[k].resetAt \in Nat
          /\ q.now \in Nat
          /\ n \in Nat \ {0}
          /\ Window \in Nat
          /\ Len(p) \in Nat
      BY <3>1, <3>4, GateAssumption DEF GateInv, GateType, GateRequest
    <3>6. Counted(p, buckets[k])
      BY <3>4 DEF GateInv, BucketsCount
    <3> DEFINE i == Len(p) - n + 1
    <3> HIDE DEF p, n, q, k
    <3> DEFINE c == buckets[k].count
               from == buckets[k].resetAt - Window
    <3>12. c <= Len(p) /\ \A j \in (Len(p) - c + 1)..Len(p) : p[j].at >= from
      BY <3>6 DEF Counted
    <3>11. c \in Nat /\ c >= n /\ from \in Int /\ from >= q.now - Window
      BY <3>4, <3>5
    <3> HIDE DEF c, from
    <3>7. i \in 1..Len(p) /\ i + n - 1 = Len(p)
      BY <3>5, <3>12, <3>11
    <3>8. ASSUME NEW j \in i..(i + n - 1) PROVE p[j].at >= q.now - Window
      <4>1. j \in (Len(p) - c + 1)..Len(p) /\ j \in 1..Len(p)
        BY <3>5, <3>12, <3>11
      <4>2. p[j] \in Admission
        BY <3>5, <4>1
      <4>3. p[j].at >= from /\ p[j].at \in Nat
        BY <3>12, <4>1, <4>2 DEF Admission
      <4> QED BY <3>5, <3>11, <4>3
    <3> HIDE DEF i
    <3>9. /\ i + n - 1 <= Len(p)
          /\ \A j \in i..(i + n - 1) : p[j].at >= q.now - Window
      BY <3>5, <3>7, <3>8
    <3> QED BY <3>2, <3>3, <3>7, <3>9 DEF p, n, k
  <2>2. CASE gate'[h] = q
    <3>1. q \in GateRequest /\ k \in Parties
      BY <2>2, HeldRequest
    <3>2. PICK i \in 1..Len(p) :
            /\ i + n - 1 <= Len(p)
            /\ \A j \in i..(i + n - 1) : p[j].at >= q.now - Window
      BY <2>2 DEF RefusedMeansBusy, Admissions
    <3>3. p \in Seq(Admission) /\ n \in Nat
      BY <3>1, GateAssumption DEF GateInv, GateType, GateRequest
    <3>4. Len(admitted'[k]) >= Len(p) /\ \A j \in 1..Len(p) : admitted'[k][j] = p[j]
      BY <3>1, AdmittedGrows
    <3>5. Len(admitted'[k]) \in Nat
      BY <3>1 DEF GateInv, GateType
    <3> HIDE DEF p, n
    <3>6. /\ i \in 1..Len(admitted'[k])
          /\ i + n - 1 <= Len(admitted'[k])
      BY <3>2, <3>3, <3>4, <3>5
    <3>7. ASSUME NEW j \in i..(i + n - 1) PROVE admitted'[k][j].at >= q.now - Window
      <4>1. j \in 1..Len(p)
        BY <3>2, <3>3
      <4> QED BY <3>2, <3>4, <4>1
    <3> QED BY <2>2, <3>6, <3>7 DEF n
  <2> QED BY <2>1, <2>2, RefusedStep
<1>3. GateSpec => []GateInv
  BY GateInvariant
<1> QED BY <1>1, <1>2, <1>3, PTL DEF GateSpec

(* What the tracker has recorded is never lost, nor made older. *)
LEMMA RecordedGrows ==
    ASSUME GateInv, [GateNext]_gateVars, NEW x \in Devices
    PROVE  recorded'[x] >= recorded[x]
<1>1. recorded \in [Devices -> Nat \cup {Never}] /\ recorded[x] \in Nat \cup {Never}
  BY DEF GateInv, GateType
<1>2. CASE recorded' = recorded
  BY <1>1, <1>2 DEF Never
<1>3. ASSUME NEW h \in Handlers, Track(h) PROVE recorded'[x] >= recorded[x]
  <2> DEFINE q == gate[h]
             dev == Device(q.browser)
  <2>1. q.now \in Nat
    BY <1>3, HeldRequest DEF Track, GateRequest
  <2>2. \/ recorded' = recorded
        \/ recorded' = [recorded EXCEPT ![dev] = Later(recorded[dev], q.now)]
    BY <1>3 DEF Track
  <2> HIDE DEF q, dev
  <2>3. CASE x = dev
    <3>1. Later(recorded[x], q.now) >= recorded[x]
      BY <1>1, <2>1 DEF Later, Never
    <3> QED BY <1>1, <1>2, <2>2, <2>3, <3>1
  <2>4. CASE x # dev
    BY <1>1, <1>2, <2>2, <2>4 DEF Never
  <2> QED BY <2>3, <2>4
<1>4. ASSUME NEW h \in Handlers, GateStep(h), ~Track(h) PROVE recorded' = recorded
  BY <1>4 DEF GateStep, ReadClock, OpenWindow, CountOne, OverLimit, Serve, Admit
<1>5. ASSUME NEW h \in Handlers, NEW b \in Browsers, NEW route \in Routes, Arrive(h, b, route)
      PROVE  recorded' = recorded
  BY <1>5 DEF Arrive
<1>6. CASE GateTick \/ UNCHANGED gateVars
  BY <1>2, <1>6 DEF GateTick, gateVars
<1> QED BY <1>2, <1>3, <1>4, <1>5, <1>6 DEF GateNext

(* The other devices of a request's address that were recorded in its window. *)
Crowd(q) ==
    {d \in {x \in DOMAIN recorded : x[1] = Device(q.browser)[1] /\ x # Device(q.browser)} :
        /\ recorded[d] # Never
        /\ recorded[d] >= q.now - DeviceWindow}

(* DevicesRefusedByCrowd for every set of visitors and goroutines: the tracker
   turns a device away only when MaxDistinct others of the same visitor address
   were recorded within its window. *)
THEOREM GateDevicesRefusedByCrowd == GateSpec => []DevicesRefusedByCrowd
<1>1. GateInit => DevicesRefusedByCrowd
  BY DEF GateInit, DevicesRefusedByCrowd, Idle
<1>2. GateInv /\ GateInv' /\ DevicesRefusedByCrowd /\ [GateNext]_gateVars
        => DevicesRefusedByCrowd'
  <2> SUFFICES ASSUME GateInv, GateInv', DevicesRefusedByCrowd, [GateNext]_gateVars,
                      NEW h \in Handlers, gate'[h].pc = "crowded"
               PROVE  Cardinality(Crowd(gate[h])') >= MaxDistinct
    BY DEF DevicesRefusedByCrowd, Crowd
  <2> DEFINE q == gate[h]
             old == Crowd(q)
             new == Crowd(q)'
             fps == Recent(q.ip, q.now)
  <2>0. /\ DOMAIN recorded = Devices /\ DOMAIN recorded' = Devices
        /\ \A x \in Devices : recorded[x] \in Nat \cup {Never} /\ recorded'[x] \in Nat \cup {Never}
    BY DEF GateInv, GateType
  <2>1. /\ q \in GateRequest
        /\ q.ip = Address[q.browser]
        /\ q.now \in Nat
    BY HeldRequest, RefusedStep DEF Track, GateRequest
  <2>2. gate'[h].browser = q.browser /\ gate'[h].now = q.now
    BY <2>1, RefusedStep DEF GateRequest
  <2>3. IsFiniteSet(new) /\ Cardinality(new) \in Nat
    <3>1. new \subseteq Devices
      BY <2>0 DEF Crowd
    <3> QED BY <3>1, DevicesFinite, FS_Subset, FS_CardinalityType
  <2>4. CASE gate'[h] = q
    <3>1. Cardinality(old) >= MaxDistinct
      BY <2>4 DEF DevicesRefusedByCrowd, Crowd
    <3>2. old \subseteq new
      <4> SUFFICES ASSUME NEW d \in old PROVE d \in new
        OBVIOUS
      <4>1. /\ d \in Devices /\ recorded[d] # Never /\ recorded[d] >= q.now - DeviceWindow
            /\ d[1] = Device(q.browser)[1] /\ d # Device(q.browser)
        BY <2>0 DEF Crowd
      <4>2. recorded'[d] # Never /\ recorded'[d] >= q.now - DeviceWindow
        <5>1. recorded'[d] >= recorded[d]
          BY <4>1, RecordedGrows
        <5> QED BY <2>0, <2>1, <4>1, <5>1, GateAssumption DEF Never
      <4> QED BY <2>0, <2>2, <4>1, <4>2 DEF Crowd
    <3>3. Cardinality(old) <= Cardinality(new) /\ Cardinality(old) \in Nat
      BY <2>3, <3>2, FS_Subset, FS_CardinalityType
    <3> HIDE DEF old, new
    <3> QED BY <2>3, <3>1, <3>3, GateAssumption DEF new
  <2>5. ASSUME Track(h), recorded' = recorded,
               Cardinality(DOMAIN fps) >= MaxDistinct,
               Fingerprint[q.browser] \notin DOMAIN fps
        PROVE  Cardinality(new) >= MaxDistinct
    <3> DEFINE f == [x \in DOMAIN fps |-> <<q.ip, x>>]
    <3>1. ASSUME NEW x \in DOMAIN fps PROVE <<q.ip, x>> \in new
      <4>1. /\ q.ip \in DOMAIN seen /\ x \in DOMAIN seen[q.ip]
            /\ q.now - seen[q.ip][x] <= DeviceWindow
        BY <3>1, RecentIsSeen
      <4>2. x # Fingerprint[q.browser]
        BY <2>5, <3>1
      <4> HIDE DEF fps
      <4>3. /\ <<q.ip, x>> \in Devices
            /\ recorded[<<q.ip, x>>] >= seen[q.ip][x]
            /\ seen[q.ip][x] \in Nat
        BY <4>1 DEF GateInv, SeenRecorded, GateType
      <4>4. Device(q.browser) = <<q.ip, Fingerprint[q.browser]>>
        BY <2>1 DEF Device
      <4>5. recorded[<<q.ip, x>>] # Never /\ recorded[<<q.ip, x>>] >= q.now - DeviceWindow
        BY <2>0, <2>1, <4>1, <4>3, GateAssumption DEF Never
      <4> QED BY <2>0, <2>2, <2>5, <4>2, <4>3, <4>4, <4>5 DEF Crowd
    <3>2. f \in Injection(DOMAIN fps, new)
      <4> HIDE DEF fps, new, q
      <4> QED BY <3>1 DEF Injection, IsInjective
    <3>3. Cardinality(DOMAIN fps) <= Cardinality(new) /\ Cardinality(DOMAIN fps) \in Nat
      <4> HIDE DEF f, fps, new
      <4> QED BY <2>3, <3>2, FS_Injection, FS_CardinalityType
    <3> HIDE DEF fps, new
    <3> QED BY <2>3, <2>5, <3>3, GateAssumption
  <2> QED BY <2>4, <2>5, RefusedStep
<1>3. GateSpec => []GateInv
  BY GateInvariant
<1> QED BY <1>1, <1>2, <1>3, PTL DEF GateSpec

----------------------------------------------------------------------------
(* Whose goroutine was not kept waiting for the lock, among the first n. *)
OnTime(p, n) == {i \in 1..n : p[i].now = p[i].at}

(* What the admissions p of a party have to do with its current window, which
   holds the last bucket.count of them: those on time lie in the window, the
   earlier ones lie before it and, one short of the limit, within a window's
   length of it; and they kept the bound in their turn. *)
Windowed(p, bucket, limit) ==
    LET n == Len(p) - bucket.count
        from == bucket.resetAt - Window
    IN  /\ bucket.count \in 1..limit
        /\ bucket.count <= Len(p)
        /\ p[n + 1].now = from
        /\ \A i \in OnTime(p, Len(p)) : IF i > n THEN p[i].at \in from..bucket.resetAt
                                        ELSE p[i].at < from
        /\ Cardinality({i \in OnTime(p, n) : p[i].at >= from - Window}) <= limit - 1
        /\ \A t \in Int :
              Cardinality({i \in OnTime(p, n) : p[i].at \in t..(t + Window)}) <= 2 * limit - 1

WindowInv ==
    \A k \in Parties :
        IF k \in DOMAIN buckets THEN Windowed(admitted[k], buckets[k], Limit[k[1]])
        ELSE admitted[k] = <<>>

(* Admissions on time are no more than admissions. *)
LEMMA OnTimeFinite ==
    ASSUME NEW p, NEW n \in Nat, NEW S \in SUBSET OnTime(p, n)
    PROVE  IsFiniteSet(S) /\ Cardinality(S) \in Nat /\ Cardinality(S) <= n
<1>1. IsFiniteSet(1..n) /\ Cardinality(1..n) = n
  BY FS_Interval
<1>2. S \in SUBSET (1..n)
  BY DEF OnTime
<1> QED BY <1>1, <1>2, FS_Subset, FS_CardinalityType

(* The place of an admission on time. *)
LEMMA OnTimeTyped ==
    ASSUME NEW p \in Seq(Admission), NEW i \in OnTime(p, Len(p))
    PROVE  i \in 1..Len(p) /\ i \in Nat /\ p[i].at \in Nat /\ p[i].now = p[i].at
<1>1. i \in 1..Len(p) /\ p[i].now = p[i].at
  BY DEF OnTime
<1>2. p[i] \in Admission
  BY <1>1
<1> QED BY <1>1, <1>2 DEF Admission

(* What two finite sets cover is no more than both together. *)
LEMMA CardinalityOfTwo ==
    ASSUME NEW A, NEW B, NEW S \in SUBSET (A \cup B), IsFiniteSet(A), IsFiniteSet(B)
    PROVE  Cardinality(S) <= Cardinality(A) + Cardinality(B)
<1>1. /\ IsFiniteSet(A \cup B)
      /\ Cardinality(A \cup B) = Cardinality(A) + Cardinality(B) - Cardinality(A \cap B)
  BY FS_Union
<1>2. Cardinality(A \cap B) \in Nat
  BY FS_Intersection, FS_CardinalityType
<1>3. /\ Cardinality(S) <= Cardinality(A \cup B) /\ Cardinality(S) \in Nat
      /\ Cardinality(A) \in Nat /\ Cardinality(B) \in Nat
  BY <1>1, FS_Subset, FS_CardinalityType
<1> QED BY <1>1, <1>2, <1>3

(* A party whose windows are as Windowed says keeps the bound: an interval as
   long as a window meets the current window or holds only earlier ones. *)
LEMMA WindowedBound ==
    ASSUME NEW p \in Seq(Admission), NEW b \in [count : Nat, resetAt : Nat],
           NEW limit \in Nat \ {0}, Windowed(p, b, limit), NEW t \in Int
    PROVE  Cardinality({i \in OnTime(p, Len(p)) : p[i].at \in t..(t + Window)})
              <= 2 * limit - 1
<1> DEFINE n == Len(p) - b.count
           from == b.resetAt - Window
           S == {i \in OnTime(p, Len(p)) : p[i].at \in t..(t + Window)}
           A == {i \in OnTime(p, n) : p[i].at \in t..(t + Window)}
           B == {i \in S : i > n}
           C == {i \in OnTime(p, n) : p[i].at >= from - Window}
<1>1. /\ b.count \in 1..limit /\ n \in Nat /\ Len(p) \in Nat /\ from \in Int /\ Window \in Nat
      /\ b.resetAt \in Nat /\ Len(p) = n + b.count
  BY GateAssumption DEF Windowed
<1>2. \A i \in OnTime(p, Len(p)) : IF i > n THEN p[i].at \in from..b.resetAt ELSE p[i].at < from
  BY DEF Windowed
<1>3. Cardinality(C) <= limit - 1 /\ Cardinality(A) <= 2 * limit - 1
  BY DEF Windowed
<1>4. \A i \in OnTime(p, Len(p)) : i \in Nat /\ p[i].at \in Nat
  BY OnTimeTyped
<1> HIDE DEF n, from
<1>5. /\ IsFiniteSet(A) /\ IsFiniteSet(C) /\ Cardinality(A) \in Nat /\ Cardinality(C) \in Nat
  BY <1>1, OnTimeFinite
<1>6. IsFiniteSet(B) /\ Cardinality(B) \in Nat /\ Cardinality(B) <= b.count
  <2>1. B \in SUBSET ((n + 1)..Len(p))
    BY <1>1 DEF OnTime
  <2>2. IsFiniteSet((n + 1)..Len(p)) /\ Cardinality((n + 1)..Len(p)) = b.count
    BY <1>1, FS_Interval
  <2> QED BY <2>1, <2>2, FS_Subset, FS_CardinalityType
<1>7. S \in SUBSET (A \cup B)
  BY <1>1 DEF OnTime
<1>8. CASE t + Window < from
  <2>1. B = {}
    BY <1>1, <1>2, <1>4, <1>8
  <2>2. S \in SUBSET A
    BY <1>7, <2>1
  <2> HIDE DEF S, A, B, C
  <2> QED BY <1>1, <1>3, <1>5, <2>2, FS_Subset, FS_CardinalityType DEF S
<1>9. CASE t + Window >= from
  <2>1. A \in SUBSET C
    <3>1. \A i \in OnTime(p, n) : p[i].at \in Nat
      BY <1>1, <1>4 DEF OnTime
    <3> QED BY <1>1, <1>9, <3>1
  <2> HIDE DEF S, A, B, C
  <2>2. Cardinality(A) <= Cardinality(C)
    BY <1>5, <2>1, FS_Subset
  <2>3. Cardinality(S) <= Cardinality(A) + Cardinality(B)
    BY <1>5, <1>6, <1>7, CardinalityOfTwo
  <2>4. IsFiniteSet(S) /\ Cardinality(S) \in Nat
    BY <1>5, <1>6, <1>7, FS_Union, FS_Subset, FS_CardinalityType
  <2>5. Cardinality(S) <= 2 * limit - 1
    BY <1>1, <1>3, <1>5, <1>6, <2>2, <2>3, <2>4
  <2> QED BY <2>5 DEF S
<1> QED BY <1>1, <1>8, <1>9

(* One admission more changes none of the earlier ones. *)
LEMMA AppendKeepsOnTime ==
    ASSUME NEW p \in Seq(Admission), NEW a \in Admission, NEW n \in 0..Len(p)
    PROVE  /\ OnTime(Append(p, a), n) = OnTime(p, n)
           /\ \A i \in 1..Len(p) : Append(p, a)[i] = p[i]
           /\ Append(p, a)[Len(p) + 1] = a
           /\ Len(Append(p, a)) = Len(p) + 1 /\ Append(p, a) \in Seq(Admission)
           /\ OnTime(Append(p, a), Len(p) + 1)
                = OnTime(p, Len(p)) \cup (IF a.now = a.at THEN {Len(p) + 1} ELSE {})
<1>1. /\ \A i \in 1..Len(p) : Append(p, a)[i] = p[i]
      /\ Append(p, a)[Len(p) + 1] = a
      /\ Len(Append(p, a)) = Len(p) + 1 /\ Append(p, a) \in Seq(Admission)
  OBVIOUS
<1>2. \A i \in 1..n : i \in 1..Len(p)
  OBVIOUS
<1>3. OnTime(Append(p, a), n) = OnTime(p, n)
  BY <1>1, <1>2 DEF OnTime
<1>4. 1..(Len(p) + 1) = 1..Len(p) \cup {Len(p) + 1}
  OBVIOUS
<1>5. OnTime(Append(p, a), Len(p) + 1)
        = OnTime(p, Len(p)) \cup (IF a.now = a.at THEN {Len(p) + 1} ELSE {})
  BY <1>1, <1>4 DEF OnTime
<1> QED BY <1>1, <1>3, <1>5

(* The admission that opens a window: the window before it ended earlier, and
   its own opener lies more than a window's length before this one. *)
LEMMA OpenedWindowed ==
    ASSUME NEW p \in Seq(Admission), NEW b \in [count : Nat, resetAt : Nat],
           NEW limit \in Nat \ {0}, NEW a \in Admission, a.now <= a.at,
           p = <<>> \/ (Windowed(p, b, limit) /\ a.now > b.resetAt)
    PROVE  Windowed(Append(p, a), [count |-> 1, resetAt |-> a.now + Window], limit)
<1> DEFINE q == Append(p, a)
           n == Len(p)
           c == [count |-> 1, resetAt |-> a.now + Window]
           C == {i \in OnTime(p, n) : p[i].at >= a.now - Window}
           D(t) == {i \in OnTime(p, n) : p[i].at \in t..(t + Window)}
<1>1. /\ n \in Nat /\ a.now \in Nat /\ a.at \in Nat /\ Window \in Nat /\ b.resetAt \in Nat
      /\ b.count \in Nat
  BY GateAssumption DEF Admission
<1>2. /\ OnTime(q, n) = OnTime(p, n)
      /\ \A i \in 1..n : q[i] = p[i]
      /\ q[n + 1] = a /\ Len(q) = n + 1
      /\ OnTime(q, n + 1) = OnTime(p, n) \cup (IF a.now = a.at THEN {n + 1} ELSE {})
  BY AppendKeepsOnTime
<1>3. \A i \in OnTime(p, n) : i \in 1..n /\ p[i].at \in Nat /\ p[i].now = p[i].at
  BY OnTimeTyped
<1>4. /\ \A i \in OnTime(p, n) : p[i].at < a.now
      /\ Cardinality(C) <= limit - 1
      /\ \A t \in Int : Cardinality(D(t)) <= 2 * limit - 1
  <2>1. CASE p = <<>>
    <3>1. OnTime(p, n) = {}
      BY <2>1 DEF OnTime
    <3>2. C = {} /\ \A t \in Int : D(t) = {}
      BY <3>1
    <3> QED BY <3>1, <3>2, FS_EmptySet
  <2>2. CASE Windowed(p, b, limit) /\ a.now > b.resetAt
    <3> DEFINE m == n - b.count
               from == b.resetAt - Window
    <3>1. /\ b.count \in 1..limit /\ m \in Nat /\ p[m + 1].now = from /\ m + 1 \in 1..n
          /\ \A i \in OnTime(p, n) : IF i > m THEN p[i].at \in from..b.resetAt ELSE p[i].at < from
      BY <1>1, <2>2 DEF Windowed
    <3>2. \A i \in OnTime(p, n) : p[i].at < a.now
      BY <1>1, <1>3, <2>2, <3>1
    <3>3. ASSUME NEW i \in C PROVE i \in (m + 2)..n
      <4>1. i \in OnTime(p, n) /\ p[i].at >= a.now - Window /\ i \in 1..n
        BY <1>3, <3>3
      <4>2. p[i].at > from
        BY <1>1, <1>3, <2>2, <4>1
      <4>3. i > m
        BY <1>1, <1>3, <3>1, <4>1, <4>2
      <4>4. i # m + 1
        BY <1>1, <1>3, <3>1, <4>1, <4>2
      <4> HIDE DEF m, n, from, C
      <4> QED BY <1>1, <3>1, <4>1, <4>3, <4>4
    <3>4. Cardinality(C) <= limit - 1
      <4>1. IsFiniteSet((m + 2)..n) /\ Cardinality((m + 2)..n) = b.count - 1
        <5>1. m + 2 \in Int /\ n \in Int /\ n - (m + 2) + 1 = b.count - 1 /\ b.count - 1 \in Nat
          BY <1>1, <3>1
        <5> HIDE DEF m, n
        <5>2. /\ IsFiniteSet((m + 2)..n)
              /\ Cardinality((m + 2)..n) = IF m + 2 > n THEN 0 ELSE n - (m + 2) + 1
          BY <5>1, FS_Interval
        <5> QED BY <5>1, <5>2
      <4>2. IsFiniteSet(C) /\ Cardinality(C) <= b.count - 1 /\ Cardinality(C) \in Nat
        <5>1. C \subseteq (m + 2)..n
          BY <3>3
        <5> HIDE DEF C
        <5> QED BY <4>1, <5>1, FS_Subset, FS_CardinalityType
      <4> HIDE DEF C
      <4> QED BY <1>1, <3>1, <4>2
    <3>5. \A t \in Int : Cardinality(D(t)) <= 2 * limit - 1
      BY <2>2, WindowedBound
    <3> QED BY <3>2, <3>4, <3>5
  <2> QED BY <2>1, <2>2
<1>5. {i \in OnTime(q, n) : q[i].at >= (c.resetAt - Window) - Window} = C
  BY <1>1, <1>2, <1>3
<1>6. \A t \in Int : {i \in OnTime(q, n) : q[i].at \in t..(t + Window)} = D(t)
  BY <1>2, <1>3
<1>7. ASSUME NEW i \in OnTime(q, Len(q))
      PROVE  IF i > n THEN q[i].at \in (c.resetAt - Window)..c.resetAt
             ELSE q[i].at < c.resetAt - Window
  <2>1. CASE i \in OnTime(p, n)
    BY <1>1, <1>2, <1>3, <1>4, <2>1
  <2>2. CASE i = n + 1 /\ a.now = a.at
    BY <1>1, <1>2, <2>2
  <2> QED BY <1>2, <2>1, <2>2
<1>8. /\ c.count \in 1..limit /\ c.count <= Len(q) /\ Len(q) - c.count = n
      /\ q[n + 1].now = c.resetAt - Window
  BY <1>1, <1>2
<1> HIDE DEF q, c, C, D
<1>9. Windowed(q, c, limit)
  BY <1>4, <1>5, <1>6, <1>7, <1>8 DEF Windowed
<1> QED BY <1>9 DEF q, c

(* An admission in the current window. *)
LEMMA CountedWindowed ==
    ASSUME NEW p \in Seq(Admission), NEW b \in [count : Nat, resetAt : Nat],
           NEW limit \in Nat \ {0}, NEW a \in Admission,
           Windowed(p, b, limit), b.count < limit,
           a.now <= b.resetAt, a.at >= b.resetAt - Window
    PROVE  Windowed(Append(p, a), [count |-> b.count + 1, resetAt |-> b.resetAt], limit)
<1> DEFINE q == Append(p, a)
           n == Len(p) - b.count
           c == [count |-> b.count + 1, resetAt |-> b.resetAt]
           from == b.resetAt - Window
<1>1. /\ Len(p) \in Nat /\ a.now \in Nat /\ a.at \in Nat /\ Window \in Nat /\ b.resetAt \in Nat
      /\ b.count \in 1..limit /\ n \in 0..Len(p) /\ n + 1 \in 1..Len(p)
  <2>1. /\ Len(p) \in Nat /\ Window \in Nat /\ b.resetAt \in Nat /\ a.now \in Nat /\ a.at \in Nat
    BY GateAssumption DEF Admission
  <2>2. b.count \in 1..limit /\ b.count <= Len(p)
    BY DEF Windowed
  <2> QED BY <2>1, <2>2
<1>2. /\ OnTime(q, n) = OnTime(p, n)
      /\ \A i \in 1..Len(p) : q[i] = p[i]
      /\ q[Len(p) + 1] = a /\ Len(q) = Len(p) + 1
      /\ OnTime(q, Len(p) + 1)
           = OnTime(p, Len(p)) \cup (IF a.now = a.at THEN {Len(p) + 1} ELSE {})
  <2> HIDE DEF n
  <2> QED BY <1>1, AppendKeepsOnTime
<1>3. /\ \A i \in OnTime(p, Len(p)) : i \in 1..Len(p)
      /\ \A i \in OnTime(p, n) : i \in 1..Len(p)
  BY <1>1 DEF OnTime
<1>4. /\ p[n + 1].now = from
      /\ \A i \in OnTime(p, Len(p)) : IF i > n THEN p[i].at \in from..b.resetAt ELSE p[i].at < from
      /\ Cardinality({i \in OnTime(p, n) : p[i].at >= from - Window}) <= limit - 1
      /\ \A t \in Int :
              Cardinality({i \in OnTime(p, n) : p[i].at \in t..(t + Window)}) <= 2 * limit - 1
  BY DEF Windowed
<1>5. /\ Len(q) - c.count = n /\ c.count \in 1..limit /\ c.count <= Len(q)
  BY <1>1, <1>2
<1>6. q[n + 1].now = from
  BY <1>1, <1>2, <1>4
<1>7. ASSUME NEW i \in OnTime(q, Len(q))
      PROVE  IF i > n THEN q[i].at \in from..b.resetAt ELSE q[i].at < from
  <2>1. CASE i \in OnTime(p, Len(p))
    BY <1>2, <1>3, <1>4, <2>1
  <2>2. CASE i = Len(p) + 1 /\ a.now = a.at
    BY <1>1, <1>2, <2>2
  <2> QED BY <1>2, <2>1, <2>2
<1>8. /\ {i \in OnTime(q, n) : q[i].at >= from - Window}
           = {i \in OnTime(p, n) : p[i].at >= from - Window}
      /\ \A t \in Int : {i \in OnTime(q, n) : q[i].at \in t..(t + Window)}
                          = {i \in OnTime(p, n) : p[i].at \in t..(t + Window)}
  BY <1>2, <1>3
<1>9. Windowed(q, c, limit)
  <2>1. c.resetAt = b.resetAt
    OBVIOUS
  <2> HIDE DEF q, c, n
  <2> QED BY <1>4, <1>5, <1>6, <1>7, <1>8, <2>1 DEF Windowed
<1> QED BY <1>9 DEF q, c

(* An admission of its visitor that his window counts, new or one longer, and
   nobody else's: everybody's windows stay as they should be. *)
LEMMA AdmitKeepsWindows ==
    ASSUME GateInv, WindowInv, NEW h \in Handlers, OpenWindow(h) \/ CountOne(h)
    PROVE  WindowInv'
<1> DEFINE k == BucketKey(gate[h])
           a == [now |-> gate[h].now, at |-> gateClock]
           p == admitted[k]
<1>1. /\ gate[h] \in GateRequest /\ gate[h].now <= gateClock
      /\ k = Party(gate[h].route, gate[h].browser) /\ k \in Parties
      /\ k[1] = gate[h].route /\ gate[h].route \in Routes
  <2>1. gate[h].pc = "count"
    BY DEF OpenWindow, CountOne
  <2>2. gate[h] \in GateRequest
    BY <2>1, HeldRequest
  <2> QED BY <2>1, <2>2, HeldRequest DEF BucketKey, GateRequest
<1>2. a \in Admission /\ a.now = gate[h].now /\ a.at = gateClock /\ a.now <= a.at
  BY <1>1 DEF GateInv, GateType, GateRequest, Admission
<1>3. /\ admitted \in [Parties -> Seq(Admission)] /\ p \in Seq(Admission)
      /\ admitted' = [admitted EXCEPT ![k] = Append(p, a)]
  BY <1>1 DEF GateInv, GateType, OpenWindow, CountOne, Admit
<1>4. Limit[k[1]] \in Nat \ {0}
  BY <1>1, GateAssumption
<1>5. DOMAIN buckets \subseteq Parties /\ buckets \in [DOMAIN buckets -> [count : Nat, resetAt : Nat]]
  BY DEF GateInv, GateType
<1>6. /\ DOMAIN buckets' = DOMAIN buckets \cup {k}
      /\ \A x \in DOMAIN buckets : x # k => buckets'[x] = buckets[x]
  <2>1. CASE OpenWindow(h)
    BY <2>1 DEF OpenWindow, Extended
  <2>2. CASE CountOne(h)
    BY <2>2 DEF CountOne, Fresh
  <2> QED BY <2>1, <2>2
<1>7. Windowed(Append(p, a), buckets'[k], Limit[k[1]])
  <2>1. CASE OpenWindow(h)
    <3>1. buckets'[k] = [count |-> 1, resetAt |-> a.now + Window]
      BY <1>2, <2>1 DEF OpenWindow, Extended
    <3>2. CASE k \in DOMAIN buckets
      <4>1. Windowed(p, buckets[k], Limit[k[1]])
        BY <1>1, <3>2 DEF WindowInv
      <4>2. a.now > buckets[k].resetAt
        BY <1>2, <2>1, <3>2 DEF OpenWindow, Fresh
      <4>3. buckets[k] \in [count : Nat, resetAt : Nat]
        BY <1>5, <3>2
      <4> HIDE DEF k, a, p
      <4> QED BY <1>2, <1>3, <1>4, <3>1, <4>1, <4>2, <4>3, OpenedWindowed
    <3>3. CASE k \notin DOMAIN buckets
      <4>1. p = <<>>
        BY <1>1, <3>3 DEF WindowInv
      <4>2. [count |-> 1, resetAt |-> 1] \in [count : Nat, resetAt : Nat]
        OBVIOUS
      <4> HIDE DEF k, a, p
      <4> QED BY <1>2, <1>3, <1>4, <3>1, <4>1, <4>2, OpenedWindowed
    <3> QED BY <3>2, <3>3
  <2>2. CASE CountOne(h)
    <3>1. /\ k \in DOMAIN buckets /\ a.now <= buckets[k].resetAt
          /\ buckets[k].count < Limit[k[1]]
      <4>1. k \in DOMAIN buckets /\ ~(gate[h].now > buckets[k].resetAt)
        BY <2>2 DEF CountOne, Fresh
      <4>2. gate[h].now \in Nat /\ buckets[k].resetAt \in Nat
        BY <1>1, <1>5, <4>1 DEF GateRequest
      <4>3. a.now <= buckets[k].resetAt
        BY <4>1, <4>2
      <4> QED BY <1>1, <2>2, <4>1, <4>3 DEF CountOne
    <3>2. buckets'[k] = [count |-> buckets[k].count + 1, resetAt |-> buckets[k].resetAt]
      <4>1. buckets[k] \in [count : Nat, resetAt : Nat]
        BY <1>5, <3>1
      <4>2. buckets'[k] = [buckets[k] EXCEPT !.count = @ + 1]
        BY <2>2, <3>1 DEF CountOne
      <4> HIDE DEF k
      <4> QED BY <4>1, <4>2
    <3>3. Windowed(p, buckets[k], Limit[k[1]]) /\ buckets[k] \in [count : Nat, resetAt : Nat]
      BY <1>1, <1>5, <3>1 DEF WindowInv
    <3>4. a.at >= buckets[k].resetAt - Window
      <4>1. buckets[k].resetAt - Window <= gateClock
        BY <3>1 DEF GateInv, BucketsCount
      <4>2. gateClock \in Nat /\ buckets[k].resetAt \in Nat /\ Window \in Nat
        BY <1>5, <3>1, GateAssumption DEF GateInv, GateType
      <4> QED BY <1>2, <4>1, <4>2
    <3> HIDE DEF k, a, p
    <3> QED BY <1>2, <1>3, <1>4, <3>1, <3>2, <3>3, <3>4, CountedWindowed
  <2> QED BY <2>1, <2>2
<1>8. ASSUME NEW x \in Parties
      PROVE  IF x \in DOMAIN buckets' THEN Windowed(admitted'[x], buckets'[x], Limit[x[1]])
             ELSE admitted'[x] = <<>>
  <2>1. CASE x = k
    <3>1. admitted'[x] = Append(p, a)
      BY <1>1, <1>3, <2>1
    <3> HIDE DEF k, a, p
    <3> QED BY <1>6, <1>7, <2>1, <3>1
  <2>2. CASE x # k
    <3>1. admitted'[x] = admitted[x]
      BY <1>1, <1>3, <2>2
    <3>2. IF x \in DOMAIN buckets THEN Windowed(admitted[x], buckets[x], Limit[x[1]])
          ELSE admitted[x] = <<>>
      BY DEF WindowInv
    <3> HIDE DEF k, a, p
    <3> QED BY <1>6, <2>2, <3>1, <3>2
  <2> QED BY <2>1, <2>2
<1> QED BY <1>8 DEF WindowInv

(* A step that neither counts nor admits changes nobody's windows. *)
LEMMA OthersKeepWindows ==
    ASSUME WindowInv, UNCHANGED <<buckets, admitted>>
    PROVE  WindowInv'
BY DEF WindowInv, Windowed, OnTime

(* WindowBound for every set of visitors, goroutines, limits and windows: any
   interval as long as a window holds at most twice the limit less one of the
   admissions that did not wait for the lock. *)
THEOREM GateWindowBound == GateSpec => []WindowBound
<1>1. GateInit => WindowInv
  BY DEF GateInit, WindowInv
<1>2. GateInv /\ WindowInv /\ [GateNext]_gateVars => WindowInv'
  <2> SUFFICES ASSUME GateInv, WindowInv, [GateNext]_gateVars PROVE WindowInv'
    OBVIOUS
  <2>1. ASSUME NEW h \in Handlers, GateStep(h) PROVE WindowInv'
    <3>1. CASE OpenWindow(h) \/ CountOne(h)
      BY <3>1, AdmitKeepsWindows
    <3>2. CASE Track(h) \/ ReadClock(h) \/ OverLimit(h) \/ Serve(h)
      <4>1. UNCHANGED <<buckets, admitted>>
        BY <3>2 DEF Track, ReadClock, OverLimit, Serve
      <4> QED BY <4>1, OthersKeepWindows
    <3> QED BY <2>1, <3>1, <3>2 DEF GateStep
  <2>2. ASSUME NEW h \in Handlers, NEW b \in Browsers, NEW route \in Routes,
               Arrive(h, b, route)
        PROVE  WindowInv'
    BY <2>2, OthersKeepWindows DEF Arrive
  <2>3. CASE GateTick \/ UNCHANGED gateVars
    <3>1. UNCHANGED <<buckets, admitted>>
      BY <2>3 DEF GateTick, gateVars
    <3> QED BY <3>1, OthersKeepWindows
  <2> QED BY <2>1, <2>2, <2>3 DEF GateNext
<1>3. GateInv /\ WindowInv => WindowBound
  <2> SUFFICES ASSUME GateInv, WindowInv, NEW k \in Parties, NEW t \in 0..gateClock
               PROVE  Cardinality({i \in DOMAIN admitted[k] :
                                      /\ admitted[k][i].now = admitted[k][i].at
                                      /\ admitted[k][i].at \in t..(t + Window)})
                        <= 2 * Limit[k[1]] - 1
    BY DEF WindowBound, GateInv, GateType
  <2> DEFINE p == admitted[k]
             S == {i \in OnTime(p, Len(p)) : p[i].at \in t..(t + Window)}
             limit == Limit[k[1]]
  <2>1. p \in Seq(Admission) /\ t \in Int
    BY DEF GateInv, GateType
  <2>2. {i \in DOMAIN p : p[i].now = p[i].at /\ p[i].at \in t..(t + Window)} = S
    BY <2>1 DEF OnTime
  <2>3. limit \in Nat \ {0}
    BY GateAssumption DEF Parties, Party
  <2>4. Cardinality(S) <= 2 * limit - 1
    <3>1. CASE k \in DOMAIN buckets
      <4>1. Windowed(p, buckets[k], limit) /\ buckets[k] \in [count : Nat, resetAt : Nat]
        BY <3>1 DEF WindowInv, GateInv, GateType
      <4> HIDE DEF p, limit
      <4> QED BY <2>1, <2>3, <4>1, WindowedBound
    <3>2. CASE k \notin DOMAIN buckets
      <4>1. S = {}
        BY <3>2 DEF WindowInv, OnTime
      <4>2. Cardinality(S) = 0
        BY <4>1, FS_EmptySet
      <4> HIDE DEF S, limit
      <4> QED BY <2>3, <4>2
    <3> QED BY <3>1, <3>2
  <2> QED BY <2>2, <2>4
<1> QED BY <1>1, <1>2, <1>3, GateInvariant, PTL DEF GateSpec

(* A set of naturals has a least one. *)
LEMMA LeastNatural ==
    ASSUME NEW T \in SUBSET Nat, T # {}
    PROVE  \E x \in T : \A y \in T : x <= y
<1> DEFINE R == {ss \in Nat \X Nat : ss[1] < ss[2]}
<1>1. IsWellFoundedOn(R, Nat)
  BY NatLessThanWellFounded DEF OpToRel
<1>2. ASSUME NEW x \in Nat, NEW y \in Nat, y < x PROVE <<y, x>> \in R
  <2>1. <<y, x>> \in Nat \X Nat /\ <<y, x>>[1] = y /\ <<y, x>>[2] = x
    OBVIOUS
  <2> QED BY <1>2, <2>1
<1> HIDE DEF R
<1>3. PICK x \in T : \A y \in T : ~ (<<y, x>> \in R)
  BY <1>1, WFMin
<1>4. ASSUME NEW y \in T PROVE x <= y
  <2>1. x \in Nat /\ y \in Nat
    OBVIOUS
  <2>2. ~(y < x)
    BY <1>2, <1>3, <2>1
  <2> QED BY <2>1, <2>2
<1> QED BY <1>4
----------------------------------------------------------------------------
(* The history of the measurements *)

(* What a visitor's word may be once it is understood. *)
UserWords == {UserOperator[name] : name \in DOMAIN UserOperator}

ObservationRow ==
    [at : Int, operator : UserWords \cup Networks \cup {OpDesconocido}, user : UserWords,
     call : {p.call : p \in Payloads} \cup CallAnswers, network : Networks, given : UserWords]

ObservationScan ==
    [pc : {"asked", "shown"}, filter : Filters, offset : Nat, total : Nat,
     seen : SUBSET Nat, kept : SUBSET Nat, left : BOOLEAN]

ObservationType ==
    /\ table \in Seq(ObservationRow)
    /\ updates \in Seq([id : 1..Len(table), user : UserWords, call : CallAnswers \cup {Unset}])
    /\ scan \in {NoScan} \cup ObservationScan

(* The matching rows that an answer of the history gives before a row. *)
Ahead(f, list, id) == {x \in Matching(f, list) : Before(list, x, id)}

(* Where the next page begins, or the page that has been asked for. *)
NextOffset == IF scan.pc = "asked" THEN scan.offset ELSE scan.offset + PageLimit

(* A row that has matched all along and has not been shown comes at or after
   the place where the next page begins. *)
UnseenComeLater ==
    scan # NoScan =>
        /\ scan.kept \subseteq Matching(scan.filter, table)
        /\ \A id \in scan.kept \ scan.seen :
              scan.left \/ Cardinality(Ahead(scan.filter, table, id)) >= NextOffset

ObservationInv ==
    /\ ObservationType
    /\ UnseenComeLater
    /\ ScanComplete
    /\ OperatorIsExplained

----------------------------------------------------------------------------
(* Rows in the order of the history *)

(* The rows that match are finitely many, and typed. *)
LEMMA MatchingFinite ==
    ASSUME NEW list \in Seq(ObservationRow), NEW f, NEW S \in SUBSET Matching(f, list)
    PROVE  IsFiniteSet(S) /\ Cardinality(S) \in Nat /\ S \subseteq 1..Len(list)
<1>1. IsFiniteSet(1..Len(list)) /\ S \subseteq 1..Len(list)
  BY FS_Interval DEF Matching
<1> QED BY <1>1, FS_Subset, FS_CardinalityType

(* A row that matches is a row of the table. *)
LEMMA MatchingTyped ==
    ASSUME NEW list \in Seq(ObservationRow), NEW f, NEW x \in Matching(f, list)
    PROVE  x \in 1..Len(list) /\ x \in Int /\ list[x] \in ObservationRow /\ list[x].at \in Int
<1>1. x \in 1..Len(list)
  BY DEF Matching
<1>2. list[x] \in ObservationRow
  BY <1>1
<1> QED BY <1>1, <1>2 DEF ObservationRow

(* What comes before a row comes before those after it as well, which have the
   row itself besides. *)
LEMMA AheadGrows ==
    ASSUME NEW list \in Seq(ObservationRow), NEW f,
           NEW a \in Matching(f, list), NEW b \in Matching(f, list), Before(list, a, b)
    PROVE  Cardinality(Ahead(f, list, a)) < Cardinality(Ahead(f, list, b))
<1>1. ASSUME NEW x \in Matching(f, list) PROVE list[x].at \in Int /\ x \in Int
  BY MatchingTyped
<1>2. Ahead(f, list, a) \cup {a} \subseteq Ahead(f, list, b) /\ a \notin Ahead(f, list, a)
  BY <1>1 DEF Ahead, Before
<1>3. IsFiniteSet(Ahead(f, list, a)) /\ IsFiniteSet(Ahead(f, list, b))
  BY MatchingFinite DEF Ahead
<1>4. Cardinality(Ahead(f, list, a) \cup {a}) = Cardinality(Ahead(f, list, a)) + 1
  BY <1>2, <1>3, FS_AddElement
<1>5. Cardinality(Ahead(f, list, a) \cup {a}) <= Cardinality(Ahead(f, list, b))
  BY <1>2, <1>3, FS_Subset
<1>6. Cardinality(Ahead(f, list, a)) \in Nat /\ Cardinality(Ahead(f, list, b)) \in Nat
  BY <1>3, FS_CardinalityType
<1> QED BY <1>4, <1>5, <1>6

(* Any two rows are ordered. *)
LEMMA BeforeTotal ==
    ASSUME NEW list \in Seq(ObservationRow), NEW f,
           NEW a \in Matching(f, list), NEW b \in Matching(f, list), a # b
    PROVE  Before(list, a, b) \/ Before(list, b, a)
<1>1. list[a].at \in Int /\ a \in Int /\ list[b].at \in Int /\ b \in Int
  BY MatchingTyped
<1> QED BY <1>1 DEF Before

(* A row that has offset rows before it, or more, leaves no page empty. *)
LEMMA PageNotEmpty ==
    ASSUME NEW list \in Seq(ObservationRow), NEW f, NEW offset \in Nat,
           NEW id \in Matching(f, list), Cardinality(Ahead(f, list, id)) >= offset
    PROVE  PageAt(f, list, offset) # {}
<1> DEFINE rank(x) == Cardinality(Ahead(f, list, x))
           M == Matching(f, list)
           late == {x \in M : rank(x) >= offset}
           T == {rank(x) : x \in late}
<1>1. \A x : rank(x) \in Nat /\ IsFiniteSet(Ahead(f, list, x))
  BY MatchingFinite DEF Ahead
<1>2. PICK m \in late : \A x \in late : rank(m) <= rank(x)
  <2>1. T \in SUBSET Nat /\ T # {}
    BY <1>1
  <2>2. PICK r \in T : \A y \in T : r <= y
    <3> HIDE DEF T
    <3> QED BY <2>1, LeastNatural
  <2> QED BY <2>2
<1>3. \A x \in Ahead(f, list, m) : x \in M /\ rank(x) < rank(m)
  BY AheadGrows DEF Ahead
<1>4. \A x \in Ahead(f, list, m) : rank(x) \in 0..(offset - 1)
  <2> SUFFICES ASSUME NEW x \in Ahead(f, list, m) PROVE rank(x) \in 0..(offset - 1)
    OBVIOUS
  <2>1. x \notin late
    <3>1. rank(x) < rank(m) /\ rank(x) \in Nat /\ rank(m) \in Nat
      BY <1>1, <1>3
    <3> HIDE DEF rank
    <3> QED BY <1>2, <3>1
  <2>2. rank(x) \in Nat /\ ~(rank(x) >= offset)
    BY <1>1, <1>3, <2>1
  <2> HIDE DEF rank
  <2> QED BY <2>2
<1> DEFINE g == [x \in Ahead(f, list, m) |-> rank(x)]
<1>5. g \in Injection(Ahead(f, list, m), 0..(offset - 1))
  <2>1. g \in [Ahead(f, list, m) -> 0..(offset - 1)]
    BY <1>4
  <2>2. ASSUME NEW x \in Ahead(f, list, m), NEW y \in Ahead(f, list, m), x # y
        PROVE  g[x] # g[y]
    <3>1. rank(x) < rank(y) \/ rank(y) < rank(x)
      BY <1>3, <2>2, BeforeTotal, AheadGrows
    <3>2. rank(x) \in Nat /\ rank(y) \in Nat
      BY <1>1
    <3> HIDE DEF rank
    <3> QED BY <3>1, <3>2
  <2> HIDE DEF g
  <2> QED BY <2>1, <2>2 DEF Injection, IsInjective
<1>6. rank(m) <= offset
  <2>1. IsFiniteSet(0..(offset - 1)) /\ Cardinality(0..(offset - 1)) = offset
    <3>1. 0 \in Int /\ offset - 1 \in Int /\ (0 > offset - 1 <=> offset = 0)
      OBVIOUS
    <3>2. Cardinality(0..(offset - 1)) = IF 0 > offset - 1 THEN 0 ELSE (offset - 1) - 0 + 1
      BY <3>1, FS_Interval
    <3> QED BY <3>1, <3>2, FS_Interval
  <2> DEFINE A == Ahead(f, list, m)
             B == 0..(offset - 1)
  <2> HIDE DEF g, A, B
  <2>2. g \in Injection(A, B) /\ IsFiniteSet(B)
    BY <1>5, <2>1 DEF A, B
  <2>3. Cardinality(A) <= Cardinality(B)
    BY <2>2, FS_Injection
  <2> QED BY <2>1, <2>3 DEF A, B
<1>7. rank(m) \in offset..(offset + PageLimit - 1) /\ m \in M
  BY <1>1, <1>2, <1>6, ObservationAssumption
<1> QED BY <1>7 DEF PageAt, Ahead

----------------------------------------------------------------------------
(* The steps *)

(* A write keeps what the panel is owed, when it adds rows or changes what is
   not their time: a row that matched still matches, or the scan has lost one,
   and no row comes to stand before its place. *)
LEMMA WriteKeepsScan ==
    ASSUME ObservationType, UnseenComeLater, ScanComplete,
           NEW list \in Seq(ObservationRow), Len(list) >= Len(table),
           \A id \in 1..Len(table) : list[id].at = table[id].at,
           table' = list, scan' = Watched(list)
    PROVE  scan' \in {NoScan} \cup ObservationScan /\ UnseenComeLater' /\ ScanComplete'
<1>1. table \in Seq(ObservationRow) /\ scan \in {NoScan} \cup ObservationScan
  BY DEF ObservationType
<1>2. CASE scan = NoScan
  <2>1. scan' = NoScan
    BY <1>2 DEF Watched, NoScan
  <2>2. NoScan.pc = "closed"
    BY DEF NoScan
  <2> QED BY <2>1, <2>2 DEF UnseenComeLater, ScanComplete
<1>3. CASE scan \in ObservationScan
  <2> DEFINE f == scan.filter
             gone == ~(Matching(f, table) \subseteq Matching(f, list))
             left == scan.left \/ gone
  <2>1. /\ scan.pc \in {"asked", "shown"} /\ scan # NoScan
        /\ scan.offset \in Nat /\ scan.total \in Nat /\ scan.left \in BOOLEAN
        /\ scan.kept \subseteq Nat
    BY <1>3 DEF ObservationScan, NoScan
  <2>2. scan' = [scan EXCEPT !.kept = scan.kept \cap Matching(f, list),
                             !.left = left]
    BY <2>1 DEF Watched
  <2>3. scan' \in ObservationScan
    <3>1. scan.kept \cap Matching(f, list) \in SUBSET Nat /\ left \in BOOLEAN
      BY <2>1
    <3> HIDE DEF left
    <3> QED BY <1>3, <2>2, <3>1 DEF ObservationScan
  <2>4. /\ scan'.pc = scan.pc /\ scan'.filter = f /\ scan'.offset = scan.offset
        /\ scan'.total = scan.total /\ scan'.seen = scan.seen
        /\ scan'.kept = scan.kept \cap Matching(f, list)
        /\ scan'.left = left
    <3> HIDE DEF left, f
    <3> QED BY <1>3, <2>2 DEF ObservationScan, f
  <2>5. scan' # NoScan
    BY <2>3 DEF ObservationScan, NoScan
  <2>6. UnseenComeLater'
    <3>1. scan'.kept \subseteq Matching(f, list)
      BY <2>4
    <3>2. ASSUME NEW id \in scan'.kept \ scan'.seen, ~scan'.left
          PROVE  Cardinality(Ahead(f, list, id)) >= NextOffset
      <4>1. id \in scan.kept \ scan.seen /\ ~scan.left /\ ~gone
        BY <2>4, <3>2
      <4>2. id \in Matching(f, table) /\ Cardinality(Ahead(f, table, id)) >= NextOffset
        BY <2>1, <4>1 DEF UnseenComeLater
      <4>3. ASSUME NEW x \in Matching(f, table) PROVE x \in Matching(f, list) /\ list[x].at = table[x].at
        BY <1>1, <4>1, MatchingTyped
      <4>4. Ahead(f, table, id) \subseteq Ahead(f, list, id)
        BY <4>2, <4>3 DEF Ahead, Before
      <4>5. IsFiniteSet(Ahead(f, list, id)) /\ Cardinality(Ahead(f, list, id)) \in Nat
        BY MatchingFinite DEF Ahead
      <4>6. Cardinality(Ahead(f, table, id)) <= Cardinality(Ahead(f, list, id))
        BY <4>4, <4>5, FS_Subset
      <4>7. Cardinality(Ahead(f, table, id)) \in Nat
        BY <1>1, MatchingFinite DEF Ahead
      <4>8. NextOffset \in Nat
        BY <2>1, ObservationAssumption DEF NextOffset
      <4> HIDE DEF f
      <4> QED BY <4>2, <4>5, <4>6, <4>7, <4>8
    <3>3. NextOffset' = NextOffset
      BY <2>4 DEF NextOffset
    <3> HIDE DEF f
    <3> QED BY <2>4, <3>1, <3>2, <3>3 DEF UnseenComeLater
  <2>7. ScanComplete'
    BY <2>4 DEF ScanComplete, LastPage
  <2> QED BY <2>3, <2>6, <2>7
<1> QED BY <1>1, <1>2, <1>3

(* A scan begins with the first page and is owed all that matches. *)
LEMMA StartScanKeeps ==
    ASSUME ObservationInv, StartScan
    PROVE  scan' \in ObservationScan /\ UnseenComeLater' /\ ScanComplete'
<1>1. PICK f \in Filters :
        scan' = [pc |-> "asked", filter |-> f, offset |-> 0, total |-> 0, seen |-> {},
                 kept |-> Matching(f, table), left |-> FALSE]
  BY DEF StartScan
<1>2. table \in Seq(ObservationRow) /\ table' = table
  BY DEF StartScan, ObservationInv, ObservationType
<1>3. Matching(f, table) \subseteq Nat
  BY <1>2, MatchingTyped
<1>4. scan' \in ObservationScan
  <2>1. Matching(f, table) \in SUBSET Nat /\ {} \in SUBSET Nat /\ 0 \in Nat
    BY <1>3
  <2> QED BY <1>1, <2>1 DEF ObservationScan
<1>5. ASSUME NEW id \in Matching(f, table) PROVE Cardinality(Ahead(f, table, id)) >= 0
  <2>1. Cardinality(Ahead(f, table, id)) \in Nat
    BY <1>2, MatchingFinite DEF Ahead
  <2> QED BY <2>1
<1>6. UnseenComeLater'
  BY <1>1, <1>2, <1>5 DEF UnseenComeLater, NextOffset
<1>7. ScanComplete'
  BY <1>1 DEF ScanComplete
<1> QED BY <1>4, <1>6, <1>7

(* The page that is shown holds whatever unseen row comes before the next one:
   the others come at the next offset or later; and if there is one left, then
   the page is not empty and its total tells that there is more. *)
LEMMA ShowPageKeeps ==
    ASSUME ObservationInv, ShowPage
    PROVE  scan' \in ObservationScan /\ UnseenComeLater' /\ ScanComplete'
<1> DEFINE f == scan.filter
           page == PageAt(f, table, scan.offset)
           total == TotalAt(f, table, scan.offset)
           M == Matching(f, table)
<1>1. table \in Seq(ObservationRow) /\ table' = table /\ scan.pc = "asked"
  BY DEF ShowPage, ObservationInv, ObservationType
<1>2. scan \in ObservationScan
  BY <1>1 DEF ObservationInv, ObservationType, NoScan
<1>3. /\ scan.offset \in Nat /\ scan # NoScan /\ scan.seen \subseteq Nat
  BY <1>1, <1>2 DEF ObservationScan, NoScan
<1>4. page \subseteq Nat /\ total \in Nat
  <2>1. page \subseteq M
    BY DEF PageAt
  <2>2. M \subseteq 1..Len(table) /\ Cardinality(M) \in Nat
    BY <1>1, MatchingFinite
  <2>3. Len(table) \in Nat
    BY <1>1
  <2> QED BY <2>1, <2>2, <2>3 DEF TotalAt
<1>5. scan' = [scan EXCEPT !.pc = "shown", !.total = total, !.seen = scan.seen \cup page]
  BY DEF ShowPage
<1>6. scan' \in ObservationScan
  <2> HIDE DEF page, total
  <2> QED BY <1>2, <1>3, <1>4, <1>5 DEF ObservationScan
<1>7. /\ scan'.pc = "shown" /\ scan'.filter = f /\ scan'.offset = scan.offset
      /\ scan'.total = total /\ scan'.seen = scan.seen \cup page
      /\ scan'.kept = scan.kept /\ scan'.left = scan.left
  <2> HIDE DEF page, total, f
  <2> QED BY <1>2, <1>5 DEF ObservationScan, f
<1>8. scan.kept \subseteq M
  BY <1>3 DEF ObservationInv, UnseenComeLater
<1>9. ASSUME NEW id \in scan'.kept \ scan'.seen, ~scan'.left
      PROVE  /\ Cardinality(Ahead(f, table, id)) >= scan.offset + PageLimit
             /\ total > scan.offset + PageLimit
  <2>1. id \in scan.kept \ scan.seen /\ id \notin page /\ id \in M
    BY <1>7, <1>8, <1>9
  <2>2. Cardinality(Ahead(f, table, id)) >= scan.offset
    BY <1>1, <1>3, <1>7, <1>9, <2>1 DEF ObservationInv, UnseenComeLater, NextOffset
  <2>3. IsFiniteSet(Ahead(f, table, id)) /\ Cardinality(Ahead(f, table, id)) \in Nat
    BY <1>1, MatchingFinite DEF Ahead
  <2>4. Cardinality(Ahead(f, table, id)) \notin scan.offset..(scan.offset + PageLimit - 1)
    BY <2>1 DEF PageAt, Ahead
  <2>5. PageLimit \in Nat
    BY ObservationAssumption
  <2>6. Cardinality(Ahead(f, table, id)) >= scan.offset + PageLimit
    BY <1>3, <2>2, <2>3, <2>4, <2>5
  <2>7. total = Cardinality(M)
    BY <1>1, <1>3, <2>1, <2>2, PageNotEmpty DEF TotalAt
  <2>8. Cardinality(Ahead(f, table, id)) < Cardinality(M)
    <3>1. Ahead(f, table, id) \subseteq M /\ id \notin Ahead(f, table, id)
      BY <1>1, <2>1, MatchingTyped DEF Ahead, Before
    <3>2. IsFiniteSet(M) /\ Cardinality(M) \in Nat
      BY <1>1, MatchingFinite
    <3>3. Cardinality(Ahead(f, table, id)) # Cardinality(M)
      BY <2>1, <3>1, <3>2, FS_Subset
    <3>4. Cardinality(Ahead(f, table, id)) <= Cardinality(M)
      BY <3>1, <3>2, FS_Subset
    <3> QED BY <2>3, <3>2, <3>3, <3>4
  <2>9. Cardinality(M) \in Nat
    BY <1>1, MatchingFinite
  <2> HIDE DEF total, M
  <2> QED BY <1>3, <2>3, <2>5, <2>6, <2>7, <2>8, <2>9
<1>10. UnseenComeLater'
  <2>1. NextOffset' = scan.offset + PageLimit
    BY <1>7 DEF NextOffset
  <2> HIDE DEF f
  <2> QED BY <1>1, <1>7, <1>8, <1>9, <2>1 DEF UnseenComeLater, f
<1>11. ScanComplete'
  <2>1. scan.offset + PageLimit \in Nat
    BY <1>3, ObservationAssumption
  <2>2. LastPage' <=> scan.offset + PageLimit >= total
    BY <1>7 DEF LastPage
  <2> HIDE DEF total
  <2> QED BY <1>4, <1>7, <1>9, <2>1, <2>2 DEF ScanComplete
<1> QED BY <1>6, <1>10, <1>11

(* The next page begins where the one that is shown ends. *)
LEMMA NextPageKeeps ==
    ASSUME ObservationInv, NextPage
    PROVE  scan' \in ObservationScan /\ UnseenComeLater' /\ ScanComplete'
<1>1. /\ scan.pc = "shown" /\ table' = table
      /\ scan' = [scan EXCEPT !.pc = "asked", !.offset = scan.offset + PageLimit]
  BY DEF NextPage
<1>2. scan \in ObservationScan /\ scan # NoScan
  BY <1>1 DEF ObservationInv, ObservationType, NoScan
<1>3. scan.offset + PageLimit \in Nat
  BY <1>2, ObservationAssumption DEF ObservationScan
<1>4. scan' \in ObservationScan
  BY <1>1, <1>2, <1>3 DEF ObservationScan
<1>5. /\ scan'.pc = "asked" /\ scan'.filter = scan.filter
      /\ scan'.offset = scan.offset + PageLimit /\ scan'.seen = scan.seen
      /\ scan'.kept = scan.kept /\ scan'.left = scan.left
  BY <1>1, <1>2 DEF ObservationScan
<1>6. NextOffset' = NextOffset
  BY <1>1, <1>5 DEF NextOffset
<1>7. UnseenComeLater'
  BY <1>1, <1>2, <1>5, <1>6 DEF ObservationInv, UnseenComeLater
<1>8. ScanComplete'
  BY <1>5 DEF ScanComplete
<1> QED BY <1>4, <1>7, <1>8

(* What is understood of a name is a word, or nothing, and never the token of
   an unknown operator. *)
LEMMA UserWordsKnown ==
    /\ OpDesconocido \notin UserWords
    /\ \A p \in Payloads : UserOperator[p.op] \in UserWords
    /\ \A name \in Answers : UserOperator[name] \in UserWords
<1>1. ASSUME NEW name \in DOMAIN UserOperator PROVE UserOperator[name] # OpDesconocido
  <2>1. UserOperator[name] = IF NormalizeOperator(name) = OpDesconocido THEN Unset
                             ELSE NormalizeOperator(name)
    BY DEF UserOperator
  <2>2. Unset # OpDesconocido
    BY DEF Unset, OpDesconocido
  <2> QED BY <2>1, <2>2
<1>2. DOMAIN UserOperator = {p.op : p \in Payloads} \cup Answers
  BY DEF UserOperator
<1> QED BY <1>1, <1>2 DEF UserWords

(* A row as handleObserve and handleSync build it. *)
AsBuilt(row) ==
    /\ row.user = row.given
    /\ row.operator = IF row.given # Unset THEN row.given
                      ELSE IF row.network \notin {Unset, OpDesconocido} THEN row.network
                      ELSE OpDesconocido

(* Both writers build such rows. *)
LEMMA BuiltRow ==
    ASSUME NEW p \in Payloads, NEW n \in Networks
    PROVE  BuildObservation(p, n) \in ObservationRow /\ AsBuilt(BuildObservation(p, n))
<1>1. ObservedAt(p) \in Int /\ UserOperator[p.op] \in UserWords
  BY ObservationAssumption, UserWordsKnown DEF ObservedAt
<1>2. StoredOperator(n, UserOperator[p.op]) \in UserWords \cup Networks \cup {OpDesconocido}
  BY <1>1 DEF StoredOperator
<1> DEFINE word == UserOperator[p.op]
           op == StoredOperator(n, word)
           at == ObservedAt(p)
<1>3. BuildObservation(p, n)
        = [at |-> at, operator |-> op, user |-> word, call |-> p.call,
           network |-> n, given |-> word]
  BY DEF BuildObservation
<1>4. p.call \in {x.call : x \in Payloads} \cup CallAnswers
  OBVIOUS
<1>5. op = IF word # Unset THEN word
           ELSE IF n \notin {Unset, OpDesconocido} THEN n ELSE OpDesconocido
  BY DEF StoredOperator
<1> HIDE DEF op, word, at
<1>6. BuildObservation(p, n) \in ObservationRow
  BY <1>1, <1>2, <1>3, <1>4 DEF ObservationRow, op, word, at
<1> QED BY <1>3, <1>5, <1>6 DEF AsBuilt

(* New rows follow the others and nobody has answered about them yet. *)
LEMMA InsertKeeps ==
    ASSUME ObservationInv, NEW list \in Seq(ObservationRow), Insert(list),
           \A i \in 1..Len(list) : AsBuilt(list[i])
    PROVE  ObservationInv'
<1> DEFINE longer == table \o list
           old == 1..Len(table)
<1>1. table \in Seq(ObservationRow) /\ table' = longer /\ updates' = updates
  BY DEF Insert, ObservationInv, ObservationType
<1>2. /\ longer \in Seq(ObservationRow) /\ Len(longer) = Len(table) + Len(list)
      /\ Len(table) \in Nat /\ Len(list) \in Nat
      /\ \A id \in old : longer[id] = table[id]
      /\ \A id \in 1..Len(longer) \ old : id - Len(table) \in 1..Len(list)
                                         /\ longer[id] = list[id - Len(table)]
  BY <1>1
<1> HIDE DEF longer
<1>3. scan' \in {NoScan} \cup ObservationScan /\ UnseenComeLater' /\ ScanComplete'
  <2>1. scan' = Watched(longer)
    BY <1>1 DEF Insert, longer
  <2> QED BY <1>1, <1>2, <2>1, WriteKeepsScan DEF ObservationInv
<1>4. updates' \in Seq([id : 1..Len(table'), user : UserWords, call : CallAnswers \cup {Unset}])
  <2> DEFINE A == [id : old, user : UserWords, call : CallAnswers \cup {Unset}]
             B == [id : 1..Len(longer), user : UserWords, call : CallAnswers \cup {Unset}]
  <2>1. updates \in Seq(A)
    BY DEF ObservationInv, ObservationType
  <2>2. A \subseteq B
    BY <1>2
  <2> HIDE DEF A, B
  <2>3. updates \in Seq(B)
    BY <2>1, <2>2
  <2> QED BY <1>1, <2>3 DEF B
<1>5. \A id : Named(id)' = Named(id)
  BY <1>1 DEF Named
<1>6. OperatorIsExplained'
  <2> SUFFICES ASSUME NEW id \in 1..Len(longer)
               PROVE  LET row == longer[id]
                          known == row.network \notin {Unset, OpDesconocido}
                          named == Named(id)
                      IN  /\ row.user = IF named = {} THEN row.given ELSE updates[Max(named)].user
                          /\ row.operator = IF row.given # Unset THEN row.given
                                            ELSE IF known THEN row.network
                                            ELSE IF named # {} THEN updates[Min(named)].user
                                            ELSE OpDesconocido
    BY <1>1, <1>2, <1>5 DEF OperatorIsExplained
  <2>1. CASE id \in old
    BY <1>1, <1>2, <2>1 DEF ObservationInv, OperatorIsExplained
  <2>2. CASE id \notin old
    <3>1. AsBuilt(longer[id])
      BY <1>2, <2>2
    <3>2. Named(id) = {}
      <4> DEFINE A == [id : old, user : UserWords, call : CallAnswers \cup {Unset}]
      <4>1. ASSUME NEW j \in DOMAIN updates PROVE updates[j].id \in old
        <5>1. updates \in Seq(A)
          BY DEF ObservationInv, ObservationType
        <5>2. updates[j] \in A
          <6> HIDE DEF A
          <6> QED BY <4>1, <5>1
        <5> QED BY <5>2
      <4> QED BY <2>2, <4>1 DEF Named
    <3> QED BY <3>1, <3>2 DEF AsBuilt
  <2> QED BY <2>1, <2>2
<1> QED BY <1>1, <1>2, <1>3, <1>4, <1>6 DEF ObservationInv, ObservationType

(* The largest place of some places of a sequence, and the smallest. *)
LEMMA LargestNatural ==
    ASSUME NEW n \in Nat, NEW T \in SUBSET (1..n), T # {}
    PROVE  Max(T) \in T /\ (\A y \in T : y <= Max(T))
<1> DEFINE U == {n - y : y \in T}
<1>1. U \in SUBSET Nat /\ U # {}
  <2>1. \A y \in T : n - y \in Nat
    OBVIOUS
  <2> QED BY <2>1
<1>2. PICK u \in U : \A v \in U : u <= v
  <2> HIDE DEF U
  <2> QED BY <1>1, LeastNatural
<1>3. PICK x \in T : u = n - x
  BY <1>2
<1>4. \A y \in T : x >= y
  <2> SUFFICES ASSUME NEW y \in T PROVE x >= y
    OBVIOUS
  <2>1. x \in 1..n /\ y \in 1..n /\ n - y \in U
    OBVIOUS
  <2>2. n - x <= n - y
    BY <1>2, <1>3, <2>1
  <2> QED BY <2>1, <2>2
<1>5. Max(T) \in T /\ \A y \in T : Max(T) >= y
  BY <1>4 DEF Max
<1> QED BY <1>5

LEMMA SmallestOfNaturals ==
    ASSUME NEW T \in SUBSET Nat, T # {}
    PROVE  Min(T) \in T /\ (\A y \in T : Min(T) <= y)
BY LeastNatural DEF Min

(* A later answer: a row that has an operator keeps it, one that has none gets
   the first word that comes. *)
LEMMA UpdateKeeps ==
    ASSUME ObservationInv, Update
    PROVE  ObservationInv'
<1>1. PICK id \in DOMAIN table, name \in Answers, c \in CallAnswers \cup {Unset} :
        LET user == UserOperator[name]
            row == table[id]
            new == [row EXCEPT !.call = IF c = Unset THEN @ ELSE c,
                               !.user = IF user = Unset THEN @ ELSE user,
                               !.operator = UpdatedOperator(row, user)]
        IN  /\ updates' = Append(updates, [id |-> id, user |-> user, call |-> c])
            /\ table' = [table EXCEPT ![id] = new]
            /\ scan' = Watched([table EXCEPT ![id] = new])
  BY DEF Update
<1> DEFINE user == UserOperator[name]
           row == table[id]
           call == IF c = Unset THEN row.call ELSE c
           word == IF user = Unset THEN row.user ELSE user
           op == UpdatedOperator(row, user)
           new == [row EXCEPT !.call = call, !.user = word, !.operator = op]
           list == [table EXCEPT ![id] = new]
           a == [id |-> id, user |-> user, call |-> c]
           n == Len(updates) + 1
           A == [id : 1..Len(table), user : UserWords, call : CallAnswers \cup {Unset}]
<1>2. /\ table \in Seq(ObservationRow) /\ id \in 1..Len(table) /\ row \in ObservationRow
      /\ updates \in Seq(A)
  BY DEF ObservationInv, ObservationType
<1>3. user \in UserWords /\ OpDesconocido \notin UserWords
  BY UserWordsKnown
<1>4. updates' = Append(updates, a) /\ table' = list /\ scan' = Watched(list)
  BY <1>1
<1>5. /\ row.call \in {p.call : p \in Payloads} \cup CallAnswers
      /\ row.user \in UserWords /\ row.given \in UserWords /\ row.network \in Networks
      /\ row.operator \in UserWords \cup Networks \cup {OpDesconocido} /\ row.at \in Int
  <2> HIDE DEF row
  <2> QED BY <1>2 DEF ObservationRow
<1>6. /\ call \in {p.call : p \in Payloads} \cup CallAnswers /\ word \in UserWords
      /\ op \in UserWords \cup Networks \cup {OpDesconocido}
  <2> HIDE DEF row, user
  <2> QED BY <1>3, <1>5 DEF UpdatedOperator
<1>7. /\ new \in ObservationRow
      /\ new.at = row.at /\ new.given = row.given /\ new.network = row.network
      /\ new.user = word /\ new.operator = op
  <2> HIDE DEF row, call, word, op
  <2> QED BY <1>2, <1>6 DEF ObservationRow
<1> HIDE DEF new
<1>8. /\ list \in Seq(ObservationRow) /\ Len(list) = Len(table) /\ DOMAIN list = 1..Len(table)
      /\ list[id] = new /\ \A x \in 1..Len(table) : x # id => list[x] = table[x]
  BY <1>2, <1>7
<1>9. a \in A /\ a.id = id /\ a.user = user
  <2> HIDE DEF user
  <2> QED BY <1>2, <1>3
<1>10. /\ updates' \in Seq(A) /\ Len(updates') = n /\ n \in Nat /\ DOMAIN updates = 1..Len(updates)
       /\ DOMAIN updates' = 1..Len(updates) \cup {n}
       /\ updates'[n] = a /\ \A j \in 1..Len(updates) : updates'[j] = updates[j]
  <2> HIDE DEF a, A
  <2> QED BY <1>2, <1>4, <1>9
<1>11. scan' \in {NoScan} \cup ObservationScan /\ UnseenComeLater' /\ ScanComplete'
  <2>1. \A x \in 1..Len(table) : list[x].at = table[x].at
    BY <1>7, <1>8
  <2>2. Len(list) >= Len(table)
    BY <1>2, <1>8
  <2> HIDE DEF list
  <2> QED BY <1>4, <1>8, <2>1, <2>2, WriteKeepsScan DEF ObservationInv
<1> HIDE DEF a, A, list
<1>12. ASSUME NEW x PROVE Named(x)' = Named(x) \cup (IF x = id /\ user # Unset THEN {n} ELSE {})
  BY <1>9, <1>10 DEF Named
<1>13. ASSUME NEW x PROVE Named(x) \subseteq 1..Len(updates) /\ n \notin Named(x)
  BY <1>2, <1>10 DEF Named
<1>14. ASSUME NEW x, Named(x)' # {}
       PROVE  updates'[Max(Named(x)')].user = IF x = id /\ user # Unset THEN user
                                              ELSE updates[Max(Named(x))].user
  <2>1. CASE x = id /\ user # Unset
    <3>1. Named(x)' \in SUBSET (1..n) /\ n \in Named(x)'
      BY <1>2, <1>10, <1>12, <1>13, <2>1
    <3>2. Max(Named(x)') = n
      <4>1. /\ Max(Named(x)') \in Named(x)' /\ \A y \in Named(x)' : y <= Max(Named(x)')
        BY <1>10, <3>1, LargestNatural
      <4> QED BY <1>10, <3>1, <4>1
    <3> QED BY <1>9, <1>10, <2>1, <3>2
  <2>2. CASE ~(x = id /\ user # Unset)
    <3>1. Named(x)' = Named(x)
      BY <1>12, <2>2
    <3>2. Max(Named(x)) \in 1..Len(updates)
      <4>1. Len(updates) \in Nat
        BY <1>2
      <4> QED BY <1>13, <1>14, <3>1, <4>1, LargestNatural
    <3> QED BY <1>10, <2>2, <3>1, <3>2
  <2> QED BY <2>1, <2>2
<1>15. ASSUME NEW x, Named(x)' # {}
       PROVE  updates'[Min(Named(x)')].user = IF Named(x) = {} THEN user
                                              ELSE updates[Min(Named(x))].user
  <2>1. CASE Named(x) = {}
    <3>1. Named(x)' = {n} /\ n \in Nat
      BY <1>10, <1>12, <1>15, <2>1
    <3>2. Min(Named(x)') = n
      BY <3>1, SmallestOfNaturals
    <3> QED BY <1>9, <1>10, <2>1, <3>2
  <2>2. CASE Named(x) # {}
    <3>1. /\ Named(x) \in SUBSET Nat /\ Named(x)' \in SUBSET Nat
          /\ \A y \in Named(x)' : y \in Named(x) \/ y = n
      BY <1>10, <1>12, <1>13
    <3>2. Min(Named(x)) \in Named(x) /\ (\A y \in Named(x) : Min(Named(x)) <= y)
      BY <2>2, <3>1, SmallestOfNaturals
    <3>3. Min(Named(x)') \in Named(x)' /\ (\A y \in Named(x)' : Min(Named(x)') <= y)
      BY <1>15, <3>1, SmallestOfNaturals
    <3>4. Min(Named(x)) \in 1..Len(updates) /\ Min(Named(x)) \in Named(x)'
      BY <1>12, <1>13, <3>2
    <3>5. Min(Named(x)') <= Min(Named(x)) /\ Min(Named(x)') # n
      BY <1>10, <3>3, <3>4
    <3>6. Min(Named(x)') = Min(Named(x))
      BY <3>1, <3>2, <3>3, <3>4, <3>5
    <3> QED BY <1>10, <2>2, <3>4, <3>6
  <2> QED BY <2>1, <2>2
<1>16. OperatorIsExplained'
  <2> DEFINE named(x) == Named(x)
  <2> SUFFICES ASSUME NEW x \in 1..Len(table)
               PROVE  /\ list[x].user = IF Named(x)' = {} THEN list[x].given
                                        ELSE updates'[Max(Named(x)')].user
                      /\ list[x].operator
                           = IF list[x].given # Unset THEN list[x].given
                             ELSE IF list[x].network \notin {Unset, OpDesconocido}
                                  THEN list[x].network
                             ELSE IF Named(x)' # {} THEN updates'[Min(Named(x)')].user
                             ELSE OpDesconocido
    BY <1>4, <1>8 DEF OperatorIsExplained
  <2>1. /\ table[x].user = IF Named(x) = {} THEN table[x].given
                           ELSE updates[Max(Named(x))].user
        /\ table[x].operator
             = IF table[x].given # Unset THEN table[x].given
               ELSE IF table[x].network \notin {Unset, OpDesconocido} THEN table[x].network
               ELSE IF Named(x) # {} THEN updates[Min(Named(x))].user
               ELSE OpDesconocido
    BY <1>2 DEF ObservationInv, OperatorIsExplained
  <2>2. CASE x # id
    <3>1. list[x] = table[x] /\ Named(x)' = Named(x)
      BY <1>8, <1>12, <2>2
    <3>2. Named(x) # {} => /\ updates'[Max(Named(x)')].user = updates[Max(Named(x))].user
                           /\ updates'[Min(Named(x)')].user = updates[Min(Named(x))].user
      BY <1>14, <1>15, <2>2, <3>1
    <3> QED BY <2>1, <3>1, <3>2
  <2>3. CASE x = id
    <3>1. list[x].user = word /\ list[x].operator = op
          /\ list[x].given = row.given /\ list[x].network = row.network
      BY <1>7, <1>8, <2>3
    <3>2. list[x].user = IF Named(x)' = {} THEN list[x].given
                         ELSE updates'[Max(Named(x)')].user
      <4>1. CASE user = Unset
        BY <1>12, <1>14, <2>1, <2>3, <3>1, <4>1
      <4>2. CASE user # Unset
        BY <1>12, <1>14, <2>3, <3>1, <4>2
      <4> QED BY <4>1, <4>2
    <3>3. Named(x) # {} => updates[Min(Named(x))].user \in UserWords
      <4>1. ASSUME Named(x) # {} PROVE Min(Named(x)) \in 1..Len(updates)
        <5>1. Named(x) \in SUBSET Nat
          BY <1>13
        <5> QED BY <1>13, <4>1, <5>1, SmallestOfNaturals
      <4>2. ASSUME NEW j \in 1..Len(updates) PROVE updates[j].user \in UserWords
        <5>1. updates[j] \in A
          BY <1>2, <4>2
        <5> QED BY <5>1 DEF A
      <4> QED BY <4>1, <4>2
    <3>4. op = IF user # Unset /\ row.operator = OpDesconocido THEN user ELSE row.operator
      BY DEF UpdatedOperator
    <3>5. CASE row.given # Unset \/ row.network \notin {Unset, OpDesconocido}
      <4>1. row.operator # OpDesconocido
        BY <1>3, <1>5, <2>1, <2>3, <3>5
      <4> HIDE DEF row, op, user
      <4> QED BY <2>1, <2>3, <3>1, <3>2, <3>4, <3>5, <4>1 DEF row
    <3>6. CASE ~(row.given # Unset \/ row.network \notin {Unset, OpDesconocido})
      <4>1. CASE Named(x) # {}
        <5>1. row.operator = updates[Min(Named(x))].user /\ row.operator # OpDesconocido
          BY <1>3, <2>1, <2>3, <3>3, <3>6, <4>1
        <5>2. Named(x)' # {} /\ updates'[Min(Named(x)')].user = updates[Min(Named(x))].user
          BY <1>12, <1>15, <4>1
        <5> HIDE DEF row, op, user
        <5> QED BY <2>3, <3>1, <3>2, <3>4, <3>6, <5>1, <5>2
      <4>2. CASE Named(x) = {}
        <5>1. row.operator = OpDesconocido
          BY <2>1, <2>3, <3>6, <4>2
        <5>2. CASE user = Unset
          <6>1. Named(x)' = {}
            BY <1>12, <4>2, <5>2
          <6> HIDE DEF row, op, user
          <6> QED BY <2>3, <3>1, <3>2, <3>4, <3>6, <5>1, <5>2, <6>1
        <5>3. CASE user # Unset
          <6>1. Named(x)' # {}
            BY <1>12, <2>3, <4>2, <5>3
          <6>2. updates'[Min(Named(x)')].user = user
            BY <1>15, <4>2, <6>1
          <6> HIDE DEF row, op, user
          <6> QED BY <2>3, <3>1, <3>2, <3>4, <3>6, <5>1, <5>3, <6>1, <6>2
        <5> QED BY <5>2, <5>3
      <4> QED BY <4>1, <4>2
    <3> QED BY <3>5, <3>6
  <2> QED BY <2>2, <2>3
<1>17. ObservationType'
  BY <1>4, <1>8, <1>10, <1>11 DEF ObservationType, A
<1> QED BY <1>11, <1>16, <1>17 DEF ObservationInv

(* The invariant of the history, whatever is measured, answered and paged. *)
THEOREM ObservationInvariant == ObservationSpec => []ObservationInv
<1>1. ObservationInit => ObservationInv
  <2> SUFFICES ASSUME ObservationInit PROVE ObservationInv
    OBVIOUS
  <2>1. table = <<>> /\ updates = <<>> /\ scan = NoScan /\ scan.pc = "closed"
    BY DEF ObservationInit, NoScan
  <2>2. ObservationType
    BY <2>1 DEF ObservationType
  <2>3. UnseenComeLater /\ ScanComplete /\ OperatorIsExplained
    BY <2>1 DEF UnseenComeLater, ScanComplete, OperatorIsExplained
  <2> QED BY <2>2, <2>3 DEF ObservationInv
<1>2. ObservationInv /\ [ObservationNext]_observationVars => ObservationInv'
  <2> SUFFICES ASSUME ObservationInv, [ObservationNext]_observationVars
               PROVE  ObservationInv'
    OBVIOUS
  <2>1. CASE Observe
    <3>1. PICK p \in Payloads, n \in Networks : Insert(<<BuildObservation(p, n)>>)
      BY <2>1 DEF Observe
    <3> DEFINE row == BuildObservation(p, n)
    <3>2. row \in ObservationRow /\ AsBuilt(row)
      BY BuiltRow
    <3> HIDE DEF row
    <3>3. <<row>> \in Seq(ObservationRow) /\ \A i \in 1..Len(<<row>>) : AsBuilt(<<row>>[i])
      BY <3>2
    <3> QED BY <3>1, <3>3, InsertKeeps DEF row
  <2>2. CASE Sync
    <3>1. PICK p \in Payloads, q \in Payloads, n \in Networks :
            LET good == Accepted(p) \o Accepted(q)
            IN  Insert([i \in DOMAIN good |-> BuildObservation(good[i], n)])
      BY <2>2 DEF Sync
    <3> DEFINE good == Accepted(p) \o Accepted(q)
               list == [i \in DOMAIN good |-> BuildObservation(good[i], n)]
    <3>2. Accepted(p) \in Seq(Payloads) /\ Accepted(q) \in Seq(Payloads)
      BY DEF Accepted
    <3>3. good \in Seq(Payloads)
      BY <3>2
    <3> HIDE DEF good
    <3>4. \A i \in 1..Len(good) : good[i] \in Payloads
      BY <3>3
    <3>5. \A i \in 1..Len(good) : list[i] \in ObservationRow /\ AsBuilt(list[i])
      BY <3>3, <3>4, BuiltRow
    <3>6. DOMAIN list = 1..Len(good) /\ Len(good) \in Nat
      BY <3>3
    <3>7. list \in [1..Len(good) -> ObservationRow]
      BY <3>5, <3>6
    <3> HIDE DEF list
    <3>8. list \in Seq(ObservationRow) /\ Len(list) = Len(good)
      BY <3>6, <3>7
    <3> QED BY <3>1, <3>5, <3>8, InsertKeeps DEF list, good
  <2>3. CASE Update
    BY <2>3, UpdateKeeps
  <2>4. ASSUME scan' \in ObservationScan, UnseenComeLater', ScanComplete',
               UNCHANGED <<table, updates>>
        PROVE  ObservationInv'
    <3>1. ObservationType'
      BY <2>4 DEF ObservationInv, ObservationType
    <3>2. OperatorIsExplained'
      BY <2>4 DEF ObservationInv, OperatorIsExplained, Named
    <3> QED BY <2>4, <3>1, <3>2 DEF ObservationInv
  <2>5. CASE StartScan \/ ShowPage \/ NextPage
    <3>1. UNCHANGED <<table, updates>>
      BY <2>5 DEF StartScan, ShowPage, NextPage
    <3> QED BY <2>4, <2>5, <3>1, StartScanKeeps, ShowPageKeeps, NextPageKeeps
  <2>6. CASE UNCHANGED observationVars
    BY <2>6 DEF observationVars, ObservationInv, ObservationType, UnseenComeLater, ScanComplete,
       OperatorIsExplained, NextOffset, LastPage, Named
  <2> QED BY <2>1, <2>2, <2>3, <2>5, <2>6 DEF ObservationNext
<1> QED BY <1>1, <1>2, PTL DEF ObservationSpec

(* ScanComplete for any measurements, filters and page sizes: whoever pages to
   the end has seen every measurement that matched all along. *)
THEOREM HistoryIsComplete == ObservationSpec => []ScanComplete
BY ObservationInvariant, PTL DEF ObservationInv

(* OperatorIsExplained for any measurements and answers: each stored operator
   has one source, in the order of precedence of the writers. *)
THEOREM OperatorExplained == ObservationSpec => []OperatorIsExplained
BY ObservationInvariant, PTL DEF ObservationInv

----------------------------------------------------------------------------
(* The address table *)

AddressRow == {r \in FileRows : Valid(r)}

(* The table is the file in the order of the addresses. *)
TableSorted ==
    \E s \in [1..Len(rows) -> 1..Len(rows)] :
        /\ \A j \in 1..Len(rows) : \E i \in 1..Len(rows) : s[i] = j
        /\ \A i, j \in 1..Len(rows) : i < j => rows[s[i]].start <= rows[s[j]].start
        /\ ranges = [i \in 1..Len(rows) |-> rows[s[i]]]

(* The operators are those of the last rows about each system. *)
LastMapped ==
    /\ DOMAIN mappings = {mapRows[j].asn : j \in DOMAIN mapRows}
    /\ \A j \in DOMAIN mapRows :
          (\A k \in DOMAIN mapRows : mapRows[k].asn = mapRows[j].asn => k <= j)
              => mappings[mapRows[j].asn] = MappedOperator(mapRows[j].name)

LookupInv ==
    /\ rows \in Seq(AddressRow)
    /\ mapRows \in Seq([asn : MappedAsns, name : Names])
    /\ lookup.pc \in {"addresses", "mappings", "serving", "answered"}
    /\ lookup.pc # "addresses" => TableSorted
    /\ LastMapped
    /\ LookupIsReference

(* A row that was read denotes addresses. *)
LEMMA AddressRowTyped ==
    ASSUME NEW r \in AddressRow
    PROVE  r.start \in Addr /\ r.end \in Addr /\ r.start \in Int /\ r.end \in Int /\ r.start <= r.end
BY DEF AddressRow, Valid, Addr

(* The search finds, of the rows that start at the address or before, one that
   starts nearest to it. *)
LEMMA CandidateIsNearest ==
    ASSUME rows \in Seq(AddressRow), TableSorted, NEW ip \in Addr,
           NEW upTo, upTo = {i \in DOMAIN ranges : ranges[i].start <= ip}, upTo # {}
    PROVE  \E i \in DOMAIN rows :
              /\ ranges[Cardinality(upTo)] = rows[i]
              /\ rows[i].start <= ip
              /\ \A j \in DOMAIN rows : rows[j].start <= ip => rows[j].start <= rows[i].start
<1> DEFINE n == Len(rows)
           m == Max(upTo)
<1>1. PICK s \in [1..n -> 1..n] :
        /\ \A j \in 1..n : \E i \in 1..n : s[i] = j
        /\ \A i, j \in 1..n : i < j => rows[s[i]].start <= rows[s[j]].start
        /\ ranges = [i \in 1..n |-> rows[s[i]]]
  BY DEF TableSorted
<1>2. n \in Nat /\ DOMAIN rows = 1..n /\ DOMAIN ranges = 1..n /\ ip \in Int
  BY <1>1 DEF Addr
<1>3. \A i \in 1..n : rows[i].start \in Int
  BY <1>2, AddressRowTyped
<1>4. m \in upTo /\ (\A i \in upTo : i <= m) /\ upTo \subseteq 1..n
  BY <1>2, LargestNatural
<1>5. m \in 1..n /\ s[m] \in 1..n /\ ranges[m] = rows[s[m]] /\ rows[s[m]].start <= ip
  BY <1>1, <1>4
<1>6. ASSUME NEW i \in 1..n PROVE i \in upTo <=> i <= m
  <2>1. CASE i <= m
    <3>1. rows[s[i]].start <= rows[s[m]].start
      <4>1. CASE i = m
        BY <1>3, <1>5, <4>1
      <4>2. CASE i < m
        BY <1>1, <1>5, <4>2
      <4> QED BY <1>5, <2>1, <4>1, <4>2
    <3>2. rows[s[i]].start \in Int /\ rows[s[m]].start \in Int
      BY <1>1, <1>3, <1>5
    <3>3. rows[s[i]].start <= ip
      BY <1>2, <1>5, <3>1, <3>2
    <3> QED BY <1>1, <1>2, <2>1, <3>3
  <2> QED BY <1>4, <2>1
<1>7. upTo = 1..m
  <2> HIDE DEF m, n
  <2>1. ASSUME NEW i \in upTo PROVE i \in 1..m
    <3>1. i \in 1..n /\ i <= m /\ m \in 1..n
      BY <1>4, <1>5
    <3> QED BY <1>2, <3>1
  <2>2. \A i \in 1..m : i \in 1..n
    BY <1>2, <1>5
  <2> QED BY <1>6, <2>1, <2>2
<1>8. Cardinality(upTo) = m
  <2> HIDE DEF m, n
  <2>1. 1 \in Int /\ m \in Int /\ m >= 1
    BY <1>5
  <2>2. Cardinality(1..m) = IF 1 > m THEN 0 ELSE m - 1 + 1
    BY <2>1, FS_Interval
  <2>3. Cardinality(1..m) = m
    BY <2>1, <2>2
  <2> QED BY <1>7, <2>3
<1>9. ASSUME NEW j \in 1..n, rows[j].start <= ip PROVE rows[j].start <= rows[s[m]].start
  <2>1. PICK i \in 1..n : s[i] = j
    BY <1>1
  <2>2. i \in upTo
    BY <1>1, <1>2, <1>9, <2>1
  <2>3. CASE i = m
    BY <1>3, <2>1, <2>3
  <2>4. CASE i < m
    BY <1>1, <1>5, <2>1, <2>4
  <2>5. i <= m /\ i \in Int /\ m \in Int
    BY <1>2, <1>5, <1>6, <2>2
  <2> HIDE DEF m
  <2> QED BY <2>3, <2>4, <2>5
<1> HIDE DEF m, n
<1> QED BY <1>2, <1>5, <1>8, <1>9

(* SortRanges takes every row once. *)
LEMMA SortedKeeps ==
    ASSUME rows \in Seq(AddressRow), SortRanges
    PROVE  TableSorted'
<1> DEFINE n == Len(rows)
<1>1. n \in Nat /\ DOMAIN rows = 1..n /\ rows' = rows
  BY DEF SortRanges
<1>2. IsFiniteSet(1..n) /\ Cardinality(1..n) = n
  <2>1. 1 \in Int /\ n \in Int
    BY <1>1
  <2>2. IsFiniteSet(1..n) /\ Cardinality(1..n) = IF 1 > n THEN 0 ELSE n - 1 + 1
    BY <2>1, FS_Interval
  <2> QED BY <1>1, <2>2
<1>3. PICK s \in SetToSeqs(1..n) :
        /\ \A i, j \in DOMAIN s : i < j => rows[s[i]].start <= rows[s[j]].start
        /\ ranges' = [i \in DOMAIN s |-> rows[s[i]]]
  BY <1>1 DEF SortRanges
<1>4. s \in [1..n -> 1..n] /\ \A i, j \in 1..n : i # j => s[i] # s[j]
  BY <1>2 DEF SetToSeqs
<1>5. s \in Injection(1..n, 1..n)
  BY <1>4 DEF Injection, IsInjective
<1>6. s \in Surjection(1..n, 1..n)
  BY <1>2, <1>5, FS_Injection
<1>7. \A j \in 1..n : \E i \in 1..n : s[i] = j
  BY <1>6 DEF Surjection
<1>8. DOMAIN s = 1..n
  BY <1>4
<1>9. /\ \A i, j \in 1..n : i < j => rows'[s[i]].start <= rows'[s[j]].start
      /\ ranges' = [i \in 1..n |-> rows'[s[i]]] /\ n = Len(rows')
  BY <1>1, <1>3, <1>8
<1> HIDE DEF n
<1> QED BY <1>4, <1>7, <1>9 DEF TableSorted

(* Resolve answers what the last row about a system says. *)
LEMMA SaidOfLast ==
    ASSUME LookupInv, NEW asn
    PROVE  Resolve(asn) = IF SaidOf(asn) = {} THEN OpDesconocido
                          ELSE CHOOSE op \in SaidOf(asn) : TRUE
<1> DEFINE about == {j \in DOMAIN mapRows : mapRows[j].asn = asn}
<1>1. Len(mapRows) \in Nat /\ about \in SUBSET (1..Len(mapRows))
  BY DEF LookupInv
<1>2. CASE about = {}
  <2>1. SaidOf(asn) = {} /\ asn \notin DOMAIN mappings
    BY <1>2 DEF SaidOf, LookupInv, LastMapped
  <2> QED BY <2>1 DEF Resolve
<1>3. CASE about # {}
  <2> DEFINE m == Max(about)
  <2>1. m \in about /\ \A j \in about : j <= m
    <3> HIDE DEF about
    <3> QED BY <1>1, <1>3, LargestNatural
  <2>2. {j \in about : \A k \in about : k <= j} = {m}
    <3>1. about \subseteq Int
      BY <1>1
    <3> HIDE DEF about, m
    <3>2. \A j \in about : (\A k \in about : k <= j) => j = m
      BY <2>1, <3>1
    <3> QED BY <2>1, <3>2
  <2>3. SaidOf(asn) = {MappedOperator(mapRows[m].name)}
    BY <2>2 DEF SaidOf
  <2>4. mappings[asn] = MappedOperator(mapRows[m].name) /\ asn \in DOMAIN mappings
    BY <2>1 DEF LookupInv, LastMapped
  <2> QED BY <2>3, <2>4 DEF Resolve
<1> QED BY <1>2, <1>3

(* What a lookup answers, before it is stored in an observation. *)
LEMMA LookupAnswer ==
    ASSUME LookupInv, TableSorted, NEW ip \in Addr
    PROVE  /\ Lookup(ip).found =>
                 \E i \in Covering(ip) :
                    /\ rows[i].asn = Lookup(ip).asn
                    /\ \A j \in DOMAIN rows :
                          rows[j].start <= ip => rows[j].start <= rows[i].start
           /\ DisjointRows => Lookup(ip).found = (Covering(ip) # {})
<1> DEFINE upTo == {i \in DOMAIN ranges : ranges[i].start <= ip}
           k == Cardinality(upTo)
<1>1. rows \in Seq(AddressRow)
  BY DEF LookupInv
<1>2. ip \in Int /\ \A i \in DOMAIN rows : rows[i] \in AddressRow
  BY <1>1 DEF Addr
<1>3. CASE upTo = {}
  <2>1. Lookup(ip) = NotFound
    BY <1>3 DEF Lookup
  <2>2. Covering(ip) = {}
    <3> SUFFICES ASSUME NEW j \in DOMAIN rows, rows[j].start <= ip PROVE FALSE
      BY DEF Covering
    <3>1. PICK s \in [1..Len(rows) -> 1..Len(rows)] :
            /\ \A x \in 1..Len(rows) : \E i \in 1..Len(rows) : s[i] = x
            /\ ranges = [x \in 1..Len(rows) |-> rows[s[x]]]
      BY DEF TableSorted
    <3>2. DOMAIN rows = 1..Len(rows)
      BY <1>1
    <3>3. PICK i \in 1..Len(rows) : s[i] = j
      BY <3>1, <3>2
    <3>4. i \in upTo
      BY <3>1, <3>3
    <3> QED BY <1>3, <3>4
  <2>3. Lookup(ip).found = FALSE
    BY <2>1 DEF NotFound
  <2> QED BY <2>2, <2>3
<1>4. CASE upTo # {}
  <2>1. PICK i \in DOMAIN rows :
          /\ ranges[k] = rows[i]
          /\ rows[i].start <= ip
          /\ \A j \in DOMAIN rows : rows[j].start <= ip => rows[j].start <= rows[i].start
    <3> HIDE DEF k
    <3> QED BY <1>1, <1>4, CandidateIsNearest DEF k
  <2>2. Lookup(ip) = IF ip <= rows[i].end THEN [found |-> TRUE, asn |-> rows[i].asn] ELSE NotFound
    BY <1>4, <2>1 DEF Lookup
  <2>3. CASE ip <= rows[i].end
    <3>1. Lookup(ip).found = TRUE /\ Lookup(ip).asn = rows[i].asn
      BY <2>2, <2>3
    <3>2. i \in Covering(ip)
      BY <2>1, <2>3 DEF Covering
    <3>3. Lookup(ip).found = (Covering(ip) # {})
      BY <3>1, <3>2
    <3> QED BY <2>1, <3>1, <3>2, <3>3
  <2>4. CASE ~(ip <= rows[i].end)
    <3>1. Lookup(ip).found = FALSE
      BY <2>2, <2>4 DEF NotFound
    <3>2. ASSUME DisjointRows PROVE Covering(ip) = {}
      <4> SUFFICES ASSUME NEW j \in Covering(ip) PROVE FALSE
        OBVIOUS
      <4>1. j \in DOMAIN rows /\ rows[j].start <= ip /\ ip <= rows[j].end
        BY DEF Covering
      <4> DEFINE a == rows[i].start
      <4>2. /\ a \in Addr /\ a \in Int /\ rows[i].end \in Int /\ a <= rows[i].end
            /\ rows[j].start \in Int /\ rows[j].end \in Int
        BY <1>2, <4>1, AddressRowTyped
      <4>3. i \in Covering(a)
        BY <4>2 DEF Covering
      <4>4. rows[j].start <= a /\ a <= rows[j].end
        BY <1>2, <2>1, <4>1, <4>2
      <4>5. j \in Covering(a)
        BY <4>1, <4>4 DEF Covering
      <4>6. i # j
        BY <2>4, <4>1
      <4>7. Cardinality(Covering(a)) <= 1
        BY <3>2, <4>2 DEF DisjointRows
      <4>8. IsFiniteSet(Covering(a))
        <5>1. IsFiniteSet(1..Len(rows)) /\ Covering(a) \in SUBSET (1..Len(rows))
          BY <1>1, FS_Interval DEF Covering
        <5> QED BY <5>1, FS_Subset
      <4>9. Cardinality({i, j}) = 2 /\ {i, j} \in SUBSET Covering(a)
        <5>1. IsFiniteSet({i}) /\ Cardinality({i}) = 1
          BY FS_Singleton
        <5> DEFINE one == {i}
        <5>2. j \notin one
          BY <4>6
        <5>3. Cardinality({i} \cup {j}) = 2
          <6> HIDE DEF one
          <6>1. IsFiniteSet(one) /\ Cardinality(one) = 1
            BY <5>1 DEF one
          <6>2. Cardinality(one \cup {j}) = Cardinality(one) + 1
            BY <5>2, <6>1, FS_AddElement
          <6> QED BY <6>1, <6>2 DEF one
        <5>4. {i, j} = {i} \cup {j}
          OBVIOUS
        <5> QED BY <4>3, <4>5, <5>3, <5>4
      <4>10. Cardinality({i, j}) <= Cardinality(Covering(a)) /\ Cardinality(Covering(a)) \in Nat
        BY <4>8, <4>9, FS_Subset, FS_CardinalityType
      <4> QED BY <4>7, <4>9, <4>10
    <3> QED BY <3>1, <3>2
  <2> QED BY <2>3, <2>4
<1> QED BY <1>3, <1>4

(* The table stays sorted while nobody touches it. *)
LEMMA TableUnchanged ==
    ASSUME UNCHANGED <<rows, ranges>>, TableSorted
    PROVE  TableSorted'
BY DEF TableSorted

(* A lookup changes only its own answer. *)
LEMMA LookupAddressKeeps ==
    ASSUME LookupInv, NEW ip \in Addr, LookupAddress(ip)
    PROVE  LookupInv'
<1>1. /\ UNCHANGED <<rows, ranges, mapRows, mappings>> /\ lookup.pc \in {"serving", "answered"}
      /\ lookup' = [pc |-> "answered", ip |-> ip, info |-> Lookup(ip),
                    operator |-> IF Lookup(ip).found THEN Resolve(Lookup(ip).asn) ELSE ""]
  BY DEF LookupAddress
<1>2. TableSorted
  BY <1>1 DEF LookupInv
<1>3. /\ lookup'.ip = ip /\ lookup'.info = Lookup(ip) /\ lookup'.pc = "answered"
      /\ Lookup(ip).found => lookup'.operator = Resolve(Lookup(ip).asn)
  BY <1>1
<1>4. /\ \A a : Covering(a)' = Covering(a)
      /\ \A asn : SaidOf(asn)' = SaidOf(asn)
      /\ DisjointRows' <=> DisjointRows
  BY <1>1 DEF Covering, SaidOf, DisjointRows
<1>5. LookupIsReference'
  <2>1. PICK info : info = Lookup(ip)
    OBVIOUS
  <2>2. /\ info.found =>
              \E i \in Covering(ip) :
                 /\ rows[i].asn = info.asn
                 /\ \A j \in DOMAIN rows :
                       rows[j].start <= ip => rows[j].start <= rows[i].start
        /\ DisjointRows => info.found = (Covering(ip) # {})
    BY <1>2, <2>1, LookupAnswer
  <2>3. info.found => lookup'.operator = IF SaidOf(info.asn) = {} THEN OpDesconocido
                                         ELSE CHOOSE op \in SaidOf(info.asn) : TRUE
    BY <1>3, <2>1, SaidOfLast
  <2>4. lookup'.info = info /\ lookup'.ip = ip
    BY <1>3, <2>1
  <2>5. Covering(lookup.ip)' = Covering(ip) /\ SaidOf(lookup.info.asn)' = SaidOf(info.asn)
    BY <1>1, <2>4 DEF Covering, SaidOf
  <2> QED BY <1>1, <1>4, <2>2, <2>3, <2>4, <2>5 DEF LookupIsReference
<1>6. TableSorted' /\ LastMapped'
  BY <1>1, <1>2, TableUnchanged DEF LookupInv, LastMapped
<1> QED BY <1>1, <1>3, <1>5, <1>6 DEF LookupInv

(* A later row about a system is the last one about it. *)
LEMMA LoadMappingKeeps ==
    ASSUME LookupInv, LoadMappingRow
    PROVE  LastMapped' /\ mapRows' \in Seq([asn : MappedAsns, name : Names])
<1>1. PICK a \in MappedAsns, name \in Names :
        /\ mapRows' = Append(mapRows, [asn |-> a, name |-> name])
        /\ mappings' = [x \in DOMAIN mappings \cup {a} |->
                          IF x = a THEN MappedOperator(name) ELSE mappings[x]]
  BY DEF LoadMappingRow
<1> DEFINE row == [asn |-> a, name |-> name]
           n == Len(mapRows) + 1
<1>2. mapRows \in Seq([asn : MappedAsns, name : Names])
  BY DEF LookupInv
<1>3. row \in [asn : MappedAsns, name : Names] /\ row.asn = a /\ row.name = name
  OBVIOUS
<1>4. mapRows' = Append(mapRows, row)
  BY <1>1
<1> HIDE DEF row
<1>5. /\ mapRows' \in Seq([asn : MappedAsns, name : Names])
      /\ n \in Nat /\ DOMAIN mapRows = 1..(n - 1) /\ DOMAIN mapRows' = 1..n
      /\ mapRows'[n] = row /\ \A j \in 1..(n - 1) : mapRows'[j] = mapRows[j]
  BY <1>2, <1>3, <1>4
<1>6. DOMAIN mappings' = {mapRows'[j].asn : j \in DOMAIN mapRows'}
  <2>1. DOMAIN mappings' = {mapRows[j].asn : j \in DOMAIN mapRows} \cup {a}
    BY <1>1 DEF LookupInv, LastMapped
  <2>2. 1..n = 1..(n - 1) \cup {n}
    BY <1>5
  <2> HIDE DEF n
  <2> QED BY <1>3, <1>5, <2>1, <2>2
<1>7. ASSUME NEW j \in 1..n, \A k \in 1..n : mapRows'[k].asn = mapRows'[j].asn => k <= j
      PROVE  mappings'[mapRows'[j].asn] = MappedOperator(mapRows'[j].name)
  <2>1. CASE j = n
    BY <1>1, <1>3, <1>5, <2>1
  <2>2. CASE j # n
    <3>1. j \in 1..(n - 1) /\ n \in 1..n /\ ~(n <= j)
      BY <1>5, <2>2
    <3>2. mapRows'[n].asn # mapRows'[j].asn
      BY <1>7, <3>1
    <3>3. mapRows[j].asn # a /\ mapRows'[j] = mapRows[j]
      BY <1>3, <1>5, <3>1, <3>2
    <3>4. \A k \in 1..(n - 1) : mapRows[k].asn = mapRows[j].asn => k <= j
      BY <1>5, <1>7, <3>1
    <3>5. mappings[mapRows[j].asn] = MappedOperator(mapRows[j].name)
      BY <1>5, <3>1, <3>4 DEF LookupInv, LastMapped
    <3>6. mapRows[j].asn \in DOMAIN mappings
      BY <1>5, <3>1 DEF LookupInv, LastMapped
    <3> QED BY <1>1, <3>3, <3>5, <3>6
  <2> QED BY <2>1, <2>2
<1> HIDE DEF n
<1> QED BY <1>5, <1>6, <1>7 DEF LastMapped

(* LookupIsReference for any width of addresses and any files: the search
   answers with the row that starts nearest to the address and holds it, and
   finds every covered address when the rows do not overlap. *)
THEOREM LookupReference == LookupSpec => []LookupIsReference
<1>1. LookupInit => LookupInv
  BY DEF LookupInit, LookupInv, LastMapped, LookupIsReference, NoMappings
<1>2. LookupInv /\ [LookupNext]_lookupVars => LookupInv'
  <2> SUFFICES ASSUME LookupInv, [LookupNext]_lookupVars PROVE LookupInv'
    OBVIOUS
  <2>1. CASE LoadAddressRow
    <3>1. PICK row \in AddressRow : rows' = Append(rows, row)
      BY <2>1 DEF LoadAddressRow, AddressRow
    <3>2. rows' \in Seq(AddressRow)
      BY <3>1 DEF LookupInv
    <3>3. lookup.pc = "addresses" /\ UNCHANGED <<mapRows, mappings, lookup>>
      BY <2>1 DEF LoadAddressRow
    <3> QED BY <3>2, <3>3 DEF LookupInv, LastMapped, LookupIsReference
  <2>2. CASE SortRanges
    <3>1. UNCHANGED <<rows, mapRows, mappings>> /\ lookup'.pc = "mappings"
      BY <2>2 DEF SortRanges
    <3>2. TableSorted'
      BY <2>2, SortedKeeps DEF LookupInv
    <3> QED BY <3>1, <3>2 DEF LookupInv, LastMapped, LookupIsReference
  <2>3. CASE LoadMappingRow
    <3>1. UNCHANGED <<rows, ranges, lookup>> /\ lookup.pc = "mappings"
      BY <2>3 DEF LoadMappingRow
    <3>2. LastMapped' /\ mapRows' \in Seq([asn : MappedAsns, name : Names])
      BY <2>3, LoadMappingKeeps
    <3> QED BY <3>1, <3>2 DEF LookupInv, TableSorted, LookupIsReference
  <2>4. CASE StartServing
    <3>1. /\ UNCHANGED <<rows, ranges, mapRows, mappings>> /\ lookup.pc = "mappings"
          /\ lookup'.pc = "serving"
      BY <2>4 DEF StartServing
    <3>2. TableSorted'
      BY <3>1, TableUnchanged DEF LookupInv
    <3> QED BY <3>1, <3>2 DEF LookupInv, LastMapped, LookupIsReference
  <2>5. ASSUME NEW ip \in Addr, LookupAddress(ip) PROVE LookupInv'
    BY <2>5, LookupAddressKeeps
  <2>6. CASE UNCHANGED lookupVars
    <3>1. UNCHANGED <<rows, ranges, mapRows, mappings, lookup>>
      BY <2>6 DEF lookupVars
    <3>2. lookup.pc # "addresses" => TableSorted'
      BY <3>1, TableUnchanged DEF LookupInv
    <3>3. LookupIsReference'
      BY <3>1 DEF LookupInv, LookupIsReference, Covering, DisjointRows, SaidOf
    <3> QED BY <3>1, <3>2, <3>3 DEF LookupInv, LastMapped
  <2> QED BY <2>1, <2>2, <2>3, <2>4, <2>5, <2>6 DEF LookupNext
<1> QED BY <1>1, <1>2, PTL DEF LookupSpec, LookupInv

----------------------------------------------------------------------------
(* The state of a cell *)

CellRow == [rtt : Nat, jitter : Nat, success : Nat, at : Nat]

(* The rows of the cell are finitely many, each with a measurement or more. *)
CellInv ==
    /\ cellClock \in Nat
    /\ cell \in [DOMAIN cell -> Nat \ {0}]
    /\ DOMAIN cell \subseteq CellRow
    /\ IsFiniteSet(DOMAIN cell)

(* A finite set of naturals has a greatest one: the one with fewest above. *)
LEMMA GreatestNatural ==
    ASSUME NEW S \in SUBSET Nat, S # {}, IsFiniteSet(S)
    PROVE  \E x \in S : \A y \in S : y <= x
<1> DEFINE Above(x) == {y \in S : x < y}
<1>1. ASSUME NEW x \in S PROVE IsFiniteSet(Above(x)) /\ Cardinality(Above(x)) \in Nat
  BY FS_Subset, FS_CardinalityType
<1>2. PICK x \in S : \A y \in S : Cardinality(Above(x)) <= Cardinality(Above(y))
  <2> DEFINE T == {Cardinality(Above(x)) : x \in S}
  <2>1. T \subseteq Nat /\ T # {}
    BY <1>1
  <2>2. PICK n \in T : \A m \in T : n <= m
    <3> HIDE DEF T
    <3> QED BY <2>1, LeastNatural
  <2>3. PICK x \in S : n = Cardinality(Above(x))
    OBVIOUS
  <2>4. \A y \in S : Cardinality(Above(y)) \in T
    OBVIOUS
  <2> HIDE DEF T
  <2> QED BY <2>2, <2>3, <2>4
<1>3. \A y \in S : y \in Nat
  OBVIOUS
<1>4. ASSUME NEW y \in S, x < y PROVE FALSE
  <2>1. Above(y) \cup {y} \subseteq Above(x) /\ y \notin Above(y)
    <3>1. x \in Nat /\ y \in Nat /\ \A z \in S : y < z => x < z
      BY <1>3, <1>4
    <3>2. ~(y < y)
      BY <3>1
    <3> QED BY <1>4, <3>1, <3>2
  <2>2. Cardinality(Above(y) \cup {y}) = Cardinality(Above(y)) + 1
    BY <1>1, <2>1, FS_AddElement
  <2>3. Cardinality(Above(y) \cup {y}) <= Cardinality(Above(x))
    BY <1>1, <2>1, FS_Subset
  <2>4. Cardinality(Above(x)) <= Cardinality(Above(y))
    BY <1>2
  <2>5. Cardinality(Above(y)) \in Nat /\ Cardinality(Above(x)) \in Nat
    BY <1>1
  <2> HIDE DEF Above
  <2> QED BY <2>2, <2>3, <2>4, <2>5
<1> HIDE DEF Above
<1> QED BY <1>3, <1>4

(* The values of a function on a finite set are finitely many. *)
LEMMA ValuesFinite ==
    ASSUME NEW S, IsFiniteSet(S), NEW f, DOMAIN f = S, f = [x \in S |-> f[x]]
    PROVE  IsFiniteSet({f[x] : x \in S})
<1> DEFINE T == {f[x] : x \in S}
<1>1. f \in [S -> T] /\ \A t \in T : \E x \in S : f[x] = t
  OBVIOUS
<1>2. f \in Surjection(S, T)
  <2> HIDE DEF T
  <2> QED BY <1>1 DEF Surjection
<1> HIDE DEF T
<1>3. IsFiniteSet(T)
  BY <1>2, FS_Surjection
<1> QED BY <1>3 DEF T

(* The measurements of some rows are finitely many. *)
LEMMA CopiesFinite ==
    ASSUME CellInv, NEW sample \in SUBSET DOMAIN cell
    PROVE  IsFiniteSet(sample) /\ IsFiniteSet(Copies(sample)) /\ NumberOf(sample) \in Nat
<1> DEFINE parts == {{r} \X (1..cell[r]) : r \in sample}
<1>1. IsFiniteSet(sample)
  BY FS_Subset DEF CellInv
<1>2. IsFiniteSet(parts)
  <2> DEFINE f == [r \in sample |-> {r} \X (1..cell[r])]
  <2>1. parts = {f[r] : r \in sample}
    OBVIOUS
  <2>2. DOMAIN f = sample /\ f = [r \in sample |-> f[r]]
    OBVIOUS
  <2> HIDE DEF f, parts
  <2> QED BY <1>1, <2>1, <2>2, ValuesFinite
<1>3. ASSUME NEW p \in parts PROVE IsFiniteSet(p)
  <2>1. PICK r \in sample : p = {r} \X (1..cell[r])
    OBVIOUS
  <2>2. cell[r] \in Nat
    BY DEF CellInv
  <2>3. IsFiniteSet(1..cell[r])
    BY <2>2, FS_Interval
  <2>4. IsFiniteSet({r})
    BY FS_Singleton
  <2> QED BY <2>1, <2>3, <2>4, FS_Product
<1>4. IsFiniteSet(Copies(sample))
  <2> HIDE DEF parts
  <2>1. IsFiniteSet(UNION parts)
    BY <1>2, <1>3, FS_UNION
  <2> QED BY <2>1 DEF Copies, parts
<1> QED BY <1>1, <1>4, FS_CardinalityType DEF NumberOf

(* A measurement is its row and a number among those of the row. *)
LEMMA CopiesOf ==
    ASSUME NEW sample, NEW x
    PROVE  x \in Copies(sample) <=> \E r \in sample : \E n \in 1..cell[r] : x = <<r, n>>
BY DEF Copies

(* Rows are split into two, and the measurements with them. *)
LEMMA NumberSplit ==
    ASSUME CellInv, NEW sample \in SUBSET DOMAIN cell, NEW S \in SUBSET sample
    PROVE  NumberOf(sample) = NumberOf(S) + NumberOf(sample \ S)
<1>1. Copies(sample) = Copies(S) \cup Copies(sample \ S)
  BY CopiesOf
<1>2. Copies(S) \cap Copies(sample \ S) = {}
  BY CopiesOf
<1>3. IsFiniteSet(Copies(S)) /\ IsFiniteSet(Copies(sample \ S))
  BY CopiesFinite
<1>4. NumberOf(S) \in Nat /\ NumberOf(sample \ S) \in Nat
  BY CopiesFinite
<1>5. Cardinality(Copies(sample)) = Cardinality(Copies(S)) + Cardinality(Copies(sample \ S)) - Cardinality({})
  BY <1>1, <1>2, <1>3, FS_Union
<1> QED BY <1>4, <1>5, FS_EmptySet DEF NumberOf

(* Fewer rows have no more measurements. *)
LEMMA NumberGrows ==
    ASSUME CellInv, NEW sample \in SUBSET DOMAIN cell, NEW S \in SUBSET sample
    PROVE  NumberOf(S) <= NumberOf(sample)
<1>1. NumberOf(S) \in Nat /\ NumberOf(sample \ S) \in Nat /\ NumberOf(sample) \in Nat
  BY CopiesFinite
<1> QED BY <1>1, NumberSplit

(* No rows, no measurements. *)
LEMMA NumberOfNone == NumberOf({}) = 0
<1>1. Copies({}) = {}
  BY CopiesOf
<1> QED BY <1>1, FS_EmptySet DEF NumberOf

----------------------------------------------------------------------------
(* The median *)

Below(sample, column, v) == {r \in sample : r[column] < v}
UpTo(sample, column, v) == {r \in sample : r[column] <= v}

(* The k-th smallest value exists: the least that has k values up to it. *)
LEMMA NthExists ==
    ASSUME CellInv, NEW sample \in SUBSET DOMAIN cell, NEW column \in {"rtt", "jitter"},
           NEW k \in Nat, 1 <= k, k <= NumberOf(sample)
    PROVE  LET v == Nth(sample, column, k)
           IN  /\ v \in Nat
               /\ NumberOf(Below(sample, column, v)) < k
               /\ k <= NumberOf(UpTo(sample, column, v))
<1> DEFINE values == {r[column] : r \in sample}
           high == {v \in values : NumberOf(UpTo(sample, column, v)) >= k}
<1>1. \A r \in sample : r[column] \in Nat
  BY DEF CellInv, CellRow
<1>2. values \subseteq Nat
  BY <1>1
<1>3. sample # {}
  BY NumberOfNone
<1>4. ASSUME NEW S \in SUBSET sample PROVE IsFiniteSet({r[column] : r \in S})
  <2> DEFINE f == [r \in S |-> r[column]]
             T == {r[column] : r \in S}
  <2>1. T = {f[r] : r \in S}
    OBVIOUS
  <2>2. DOMAIN f = S /\ f = [r \in S |-> f[r]]
    OBVIOUS
  <2>3. IsFiniteSet(S)
    BY CopiesFinite
  <2> HIDE DEF f, T
  <2>4. IsFiniteSet({f[r] : r \in S})
    BY <2>2, <2>3, ValuesFinite
  <2>5. IsFiniteSet(T)
    BY <2>1, <2>4
  <2> QED BY <2>5 DEF T
<1>5. PICK top \in values : \A v \in values : v <= top
  <2>1. values # {}
    BY <1>3
  <2>2. IsFiniteSet(values)
    BY <1>4
  <2> HIDE DEF values
  <2> QED BY <1>2, <2>1, <2>2, GreatestNatural
<1>6. top \in high
  <2>1. UpTo(sample, column, top) = sample
    BY <1>5 DEF UpTo
  <2> QED BY <2>1, CopiesFinite
<1>7. PICK v \in high : \A w \in high : v <= w
  <2>1. high \subseteq Nat /\ high # {}
    BY <1>2, <1>6
  <2> HIDE DEF high
  <2> QED BY <2>1, LeastNatural
<1>8. NumberOf(Below(sample, column, v)) < k
  <2>1. CASE Below(sample, column, v) = {}
    BY <2>1, NumberOfNone
  <2>2. CASE Below(sample, column, v) # {}
    <3> DEFINE under == {r[column] : r \in Below(sample, column, v)}
    <3>1. Below(sample, column, v) \in SUBSET DOMAIN cell
      BY DEF Below
    <3>2. under \subseteq Nat /\ under # {} /\ IsFiniteSet(under)
      <4>1. IsFiniteSet(under)
        BY <1>4 DEF Below
      <4> QED BY <1>1, <2>2, <4>1 DEF Below
    <3>3. PICK w \in under : \A y \in under : y <= w
      <4> HIDE DEF under
      <4> QED BY <3>2, GreatestNatural
    <3>4. w \in values /\ w < v /\ w \in Nat /\ v \in Nat
      BY <1>2, <3>2, <3>3 DEF Below
    <3>5. Below(sample, column, v) = UpTo(sample, column, w)
      BY <1>1, <3>3, <3>4 DEF Below, UpTo
    <3>6. w \notin high
      BY <1>7, <3>4
    <3>7. ~(NumberOf(UpTo(sample, column, w)) >= k)
      BY <3>4, <3>6
    <3>8. NumberOf(Below(sample, column, v)) \in Nat
      BY <3>1, CopiesFinite
    <3> HIDE DEF under, values, high
    <3> QED BY <3>5, <3>7, <3>8
  <2> QED BY <2>1, <2>2
<1>9. NumberOf(UpTo(sample, column, v)) \in Nat
  <2>1. UpTo(sample, column, v) \in SUBSET DOMAIN cell
    BY DEF UpTo
  <2> QED BY <2>1, CopiesFinite
<1> DEFINE IsNth(x) == /\ NumberOf({r \in sample : r[column] < x}) < k
                       /\ NumberOf({r \in sample : r[column] <= x}) >= k
<1>10. v \in values /\ IsNth(v)
  BY <1>7, <1>8 DEF Below, UpTo
<1>11. Nth(sample, column, k) = CHOOSE x \in values : IsNth(x)
  BY DEF Nth
<1>12. Nth(sample, column, k) \in values /\ IsNth(Nth(sample, column, k))
  <2> HIDE DEF values, IsNth
  <2> QED BY <1>10, <1>11
<1>13. NumberOf(UpTo(sample, column, Nth(sample, column, k))) \in Nat
  <2>1. UpTo(sample, column, Nth(sample, column, k)) \in SUBSET DOMAIN cell
    BY DEF UpTo
  <2> QED BY <2>1, CopiesFinite
<1> QED BY <1>2, <1>12, <1>13 DEF Below, UpTo

(* One measurement beyond a limit does not take the k-th smallest value beyond
   it, unless k is the last. *)
LEMMA NthWithin ==
    ASSUME CellInv, NEW sample \in SUBSET DOMAIN cell, NEW column \in {"rtt", "jitter"},
           NEW limit \in Nat, NumberOf({r \in sample : r[column] > limit}) <= 1,
           NEW k \in Nat, 1 <= k, k < NumberOf(sample)
    PROVE  Nth(sample, column, k) \in Nat /\ Nth(sample, column, k) <= limit
<1> DEFINE v == Nth(sample, column, k)
<1>1. NumberOf(sample) \in Nat
  BY CopiesFinite
<1>2. v \in Nat /\ NumberOf(Below(sample, column, v)) < k
  BY <1>1, NthExists
<1> HIDE DEF v
<1>3. ASSUME limit < v PROVE FALSE
  <2>1. \A r \in sample : r[column] \in Nat
    BY DEF CellInv, CellRow
  <2>2. sample \ Below(sample, column, v) \subseteq {r \in sample : r[column] > limit}
    BY <1>2, <1>3, <2>1 DEF Below
  <2>3. NumberOf(sample \ Below(sample, column, v)) <= NumberOf({r \in sample : r[column] > limit})
    BY <2>2, NumberGrows
  <2>4. NumberOf(sample) = NumberOf(Below(sample, column, v)) + NumberOf(sample \ Below(sample, column, v))
    BY NumberSplit DEF Below
  <2>5. /\ NumberOf(Below(sample, column, v)) \in Nat
        /\ NumberOf(sample \ Below(sample, column, v)) \in Nat
        /\ NumberOf({r \in sample : r[column] > limit}) \in Nat
    BY CopiesFinite DEF Below
  <2> QED BY <1>1, <1>2, <2>3, <2>4, <2>5
<1> QED BY <1>2, <1>3 DEF v

(* With three measurements, one beyond the limit does not take the median
   beyond it. *)
LEMMA MedianWithin ==
    ASSUME CellInv, NEW sample \in SUBSET DOMAIN cell, NEW column \in {"rtt", "jitter"},
           NEW limit \in Nat, NumberOf({r \in sample : r[column] > limit}) <= 1,
           NumberOf(sample) >= 3
    PROVE  ~(TwiceMedian(sample, column) > 2 * limit)
<1> DEFINE n == NumberOf(sample)
           a == (n + 1) \div 2
           b == n \div 2 + 1
<1>1. n \in Nat /\ n >= 3
  BY CopiesFinite
<1>2. TwiceMedian(sample, column) = Nth(sample, column, a) + Nth(sample, column, b)
  BY DEF TwiceMedian
<1> HIDE DEF n
<1>3. a \in Nat /\ 1 <= a /\ a < n /\ b \in Nat /\ 1 <= b /\ b < n
  BY <1>1
<1> HIDE DEF a, b
<1>4. Nth(sample, column, a) \in Nat /\ Nth(sample, column, a) <= limit
  BY <1>3, NthWithin DEF n
<1>5. Nth(sample, column, b) \in Nat /\ Nth(sample, column, b) <= limit
  BY <1>3, NthWithin DEF n
<1> QED BY <1>2, <1>4, <1>5

----------------------------------------------------------------------------
(* The mean *)

(* Good measurements alone bring a hundred hundredths each. *)
LEMMA SuccessOfGood ==
    ASSUME CellInv, NEW sample \in SUBSET DOMAIN cell, NEW S \in SUBSET sample,
           \A r \in S : r.success = 100
    PROVE  SuccessSum(sample) \in Nat /\ 100 * NumberOf(S) <= SuccessSum(sample)
<1>1. IsFiniteSet(Copies(sample)) /\ IsFiniteSet(Copies(S)) /\ NumberOf(S) \in Nat
  BY CopiesFinite
<1>2. ASSUME NEW x \in Copies(sample) PROVE x[1] \in sample /\ x[1].success \in Nat
  <2>1. PICK r \in sample : \E n \in 1..cell[r] : x = <<r, n>>
    BY CopiesOf
  <2>2. x[1] = r
    BY <2>1
  <2>3. r \in CellRow
    BY DEF CellInv
  <2> QED BY <2>2, <2>3 DEF CellRow
<1>3. IsFiniteSet(Hundredths(sample))
  <2> DEFINE parts == {{c} \X (1..c[1].success) : c \in Copies(sample)}
  <2>1. IsFiniteSet(parts)
    <3> DEFINE f == [c \in Copies(sample) |-> {c} \X (1..c[1].success)]
    <3>1. parts = {f[c] : c \in Copies(sample)}
      OBVIOUS
    <3>2. DOMAIN f = Copies(sample) /\ f = [c \in Copies(sample) |-> f[c]]
      OBVIOUS
    <3> HIDE DEF f, parts
    <3> QED BY <1>1, <3>1, <3>2, ValuesFinite
  <2>2. ASSUME NEW p \in parts PROVE IsFiniteSet(p)
    <3>1. PICK c \in Copies(sample) : p = {c} \X (1..c[1].success)
      OBVIOUS
    <3>2. c[1].success \in Nat
      BY <1>2
    <3>3. IsFiniteSet(1..c[1].success)
      BY <3>2, FS_Interval
    <3>4. IsFiniteSet({c})
      BY FS_Singleton
    <3> QED BY <3>1, <3>3, <3>4, FS_Product
  <2> HIDE DEF parts
  <2>3. IsFiniteSet(UNION parts)
    BY <2>1, <2>2, FS_UNION
  <2> QED BY <2>3 DEF Hundredths, parts
<1>4. Copies(S) \X (1..100) \subseteq Hundredths(sample)
  <2> SUFFICES ASSUME NEW x \in Copies(S) \X (1..100) PROVE x \in Hundredths(sample)
    OBVIOUS
  <2>0. PICK c \in Copies(S), n \in 1..100 : x = <<c, n>>
    OBVIOUS
  <2>1. PICK r \in S : \E i \in 1..cell[r] : c = <<r, i>>
    BY CopiesOf
  <2>2. c[1] = r /\ r.success = 100
    BY <2>1
  <2>3. c \in Copies(sample)
    BY <2>1, CopiesOf
  <2>4. <<c, n>> \in {c} \X (1..c[1].success)
    BY <2>2
  <2> QED BY <2>0, <2>3, <2>4 DEF Hundredths
<1>5. IsFiniteSet(1..100) /\ Cardinality(1..100) = 100
  <2> DEFINE a == 1
             b == 100
  <2>1. a \in Int /\ b \in Int /\ ~(a > b) /\ b - a + 1 = 100
    OBVIOUS
  <2> HIDE DEF a, b
  <2>2. IsFiniteSet(a..b) /\ Cardinality(a..b) = 100
    BY <2>1, FS_Interval
  <2> QED BY <2>2 DEF a, b
<1>6. Cardinality(Copies(S) \X (1..100)) = NumberOf(S) * 100
  BY <1>1, <1>5, FS_Product DEF NumberOf
<1>7. Cardinality(Copies(S) \X (1..100)) <= Cardinality(Hundredths(sample))
  BY <1>3, <1>4, FS_Subset
<1>8. Cardinality(Hundredths(sample)) \in Nat
  BY <1>3, FS_CardinalityType
<1> QED BY <1>1, <1>6, <1>7, <1>8 DEF SuccessSum

(* One failure among enough measurements is not below the threshold. *)
LEMMA MeanWithin ==
    ASSUME NEW n \in Nat, n >= ProbableAffectMinSamples
    PROVE  /\ n >= 3
           /\ DegradedMaxSuccess * n \in Nat
           /\ DegradedMaxSuccess * n <= 100 * (n - 1)
<1> DEFINE d == DegradedMaxSuccess
           p == ProbableAffectMinSamples
<1>1. d \in Nat /\ p \in Int /\ p >= 3 /\ d * p <= 100 * (p - 1)
  BY CellAssumption
<1> HIDE DEF d, p
<1>2. d < 100
  BY <1>1
<1>3. PICK m \in Nat : n = p + m
  BY <1>1 DEF p
<1>4. d * n = d * p + d * m
  BY <1>1, <1>3
<1>5. d * m <= 100 * m
  BY <1>1, <1>2, <1>3
<1>6. d * n \in Nat /\ d * p \in Nat /\ d * m \in Nat
  BY <1>1, <1>3
<1>7. d * n <= 100 * (n - 1)
  BY <1>1, <1>3, <1>4, <1>5, <1>6
<1> QED BY <1>1, <1>3, <1>6, <1>7 DEF d, p

(* Rows with one measurement that is not good do not condemn the cell. *)
LEMMA OneIsNotEnough ==
    ASSUME CellInv, NEW sample \in SUBSET DOMAIN cell,
           NumberOf(sample) >= ProbableAffectMinSamples,
           NumberOf({r \in sample : ~Good(r)}) < 2
    PROVE  ~Degraded(sample)
<1> DEFINE bad == {r \in sample : ~Good(r)}
           n == NumberOf(sample)
<1>1. n \in Nat /\ NumberOf(bad) \in Nat /\ NumberOf(sample \ bad) \in Nat
  BY CopiesFinite
<1>2. n >= 3 /\ DegradedMaxSuccess * n \in Nat /\ DegradedMaxSuccess * n <= 100 * (n - 1)
  BY <1>1, MeanWithin
<1>3. n = NumberOf(bad) + NumberOf(sample \ bad)
  BY NumberSplit
<1>4. \A r \in sample \ bad : r.success = 100
  BY DEF Good
<1>5. SuccessSum(sample) \in Nat /\ 100 * NumberOf(sample \ bad) <= SuccessSum(sample)
  BY <1>4, SuccessOfGood
<1>6. ~(SuccessSum(sample) < DegradedMaxSuccess * n)
  <2> HIDE DEF bad, n
  <2>1. NumberOf(bad) < 2
    BY DEF bad
  <2> QED BY <1>1, <1>2, <1>3, <1>5, <2>1
<1>7. \A r \in sample : r.rtt \in Nat /\ r.jitter \in Nat
  BY DEF CellInv, CellRow
<1>8. ASSUME NEW S \in SUBSET bad PROVE NumberOf(S) <= 1
  <2>1. NumberOf(S) <= NumberOf(bad) /\ NumberOf(S) \in Nat
    BY NumberGrows, CopiesFinite
  <2> QED BY <1>1, <2>1
<1>9. ~(TwiceMedian(sample, "rtt") > 2 * DegradedMinRTT)
  <2>1. {r \in sample : r["rtt"] > DegradedMinRTT} \subseteq bad /\ DegradedMinRTT \in Nat
    BY <1>7, CellAssumption DEF Good
  <2>2. NumberOf({r \in sample : r["rtt"] > DegradedMinRTT}) <= 1
    BY <1>8, <2>1
  <2> HIDE DEF bad
  <2> QED BY <1>2, <2>1, <2>2, MedianWithin
<1>10. ~(TwiceMedian(sample, "jitter") > 2 * JitterElevated)
  <2>1. {r \in sample : r["jitter"] > JitterElevated} \subseteq bad /\ JitterElevated \in Nat
    BY <1>7, CellAssumption DEF Good
  <2>2. NumberOf({r \in sample : r["jitter"] > JitterElevated}) <= 1
    BY <1>8, <2>1
  <2> HIDE DEF bad
  <2> QED BY <1>2, <2>1, <2>2, MedianWithin
<1> QED BY <1>6, <1>9, <1>10 DEF Degraded

(* What validation stores is a row. *)
LEMMA RowTyped ==
    ASSUME NEW m \in Measured, NEW t \in Nat
    PROVE  Row(m, t) \in CellRow
<1>1. {m.rtt, m.jitter, m.ok, m.failed} \subseteq Nat /\ m.ratio \in 0..100
  BY CellAssumption
<1>2. SuccessRatio(m.ok, m.failed) \in Nat
  <2> DEFINE a == 100 * m.ok
             b == m.ok + m.failed
  <2>1. a \in Nat /\ b \in Nat
    BY <1>1
  <2>2. SuccessRatio(m.ok, m.failed) = IF b = 0 THEN 0 ELSE a \div b
    BY DEF SuccessRatio
  <2> HIDE DEF a, b
  <2> QED BY <2>1, <2>2
<1>3. StoredRatio(m) \in Nat
  BY <1>1, <1>2 DEF StoredRatio
<1> QED BY <1>1, <1>3 DEF Row, CellRow

(* OneMeasurementCannotCondemn for any measurements, windows and thresholds in
   the relation of the defaults: with one measurement that is not good, neither
   mean nor medians pass their thresholds. *)
THEOREM OneCannotCondemn == CellSpec => OneMeasurementCannotCondemn
<1>1. CellInit => CellInv
  BY FS_EmptySet DEF CellInit, CellInv
<1>2. CellInv /\ [CellNext]_cellVars => CellInv'
  <2> SUFFICES ASSUME CellInv, [CellNext]_cellVars PROVE CellInv'
    OBVIOUS
  <2>1. CASE Measure
    <3>1. PICK m \in Measured, t \in 0..cellClock :
              cell' = [r \in DOMAIN cell \cup {Row(m, t)} |->
                        IF r \notin DOMAIN cell THEN 1
                        ELSE IF r = Row(m, t) THEN cell[r] + 1 ELSE cell[r]]
      BY <2>1 DEF Measure
    <3>2. Row(m, t) \in CellRow
      BY RowTyped DEF CellInv
    <3> DEFINE row == Row(m, t)
    <3>3. DOMAIN cell' = DOMAIN cell \cup {row}
      BY <3>1
    <3> HIDE DEF row
    <3>4. IsFiniteSet(DOMAIN cell')
      BY <3>3, FS_AddElement DEF CellInv
    <3>5. \A r \in DOMAIN cell : cell[r] \in Nat \ {0}
      BY DEF CellInv
    <3>6. cell' \in [DOMAIN cell' -> Nat \ {0}]
      BY <3>1, <3>3, <3>5 DEF row
    <3>7. cellClock' \in Nat
      BY <2>1 DEF Measure, CellInv
    <3> QED BY <3>2, <3>3, <3>4, <3>6, <3>7 DEF CellInv, row
  <2>2. CASE CellTick
    BY <2>2 DEF CellTick, CellInv
  <2>3. CASE BringSites \/ ShowCell \/ UNCHANGED cellVars
    BY <2>3 DEF BringSites, ShowCell, cellVars, CellInv
  <2> QED BY <2>1, <2>2, <2>3 DEF CellNext
<1>3. CellInv /\ [CellNext]_cellVars =>
        [shown' # shown /\ shown'.state = "AFECTACION_PROBABLE" =>
            NumberOf({r \in InWindow : ~Good(r)}) >= 2]_cellVars
  <2> SUFFICES ASSUME CellInv, CellNext, shown' # shown, shown'.state = "AFECTACION_PROBABLE"
               PROVE  NumberOf({r \in InWindow : ~Good(r)}) >= 2
    BY DEF cellVars
  <2> DEFINE sample == InWindow
  <2>1. ShowCell
    BY DEF CellNext, Measure, BringSites, CellTick
  <2>2. sample \in SUBSET DOMAIN cell
    BY DEF InWindow
  <2>3. Classify(sample, sites > 0) = "AFECTACION_PROBABLE"
    BY <2>1 DEF ShowCell
  <2> HIDE DEF sample
  <2>4. NumberOf(sample) >= ProbableAffectMinSamples /\ Degraded(sample)
    BY <2>3 DEF Classify
  <2>5. ~(NumberOf({r \in sample : ~Good(r)}) < 2)
    BY <2>2, <2>4, OneIsNotEnough
  <2>6. NumberOf({r \in sample : ~Good(r)}) \in Nat
    BY <2>2, CopiesFinite
  <2> QED BY <2>5, <2>6 DEF sample
<1> QED BY <1>1, <1>2, <1>3, PTL DEF CellSpec, OneMeasurementCannotCondemn
=============================================================================
