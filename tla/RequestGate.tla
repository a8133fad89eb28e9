---------------------------- MODULE RequestGate ----------------------------
(***************************************************************************)
(* What every handler asks before it works: Server.allow.  It finds the    *)
(* visitor's address (clientIP), on some routes counts the distinct        *)
(* devices seen behind it (fingerprintTracker.allow), and counts the       *)
(* request in a fixed window per route, address and session                *)
(* (rateLimiter.allow).                                                    *)
(*                                                                         *)
(* Both counters read the clock before they wait for their mutex, so a     *)
(* goroutine may count with a time older than that of one that came later. *)
(* A browser is known to the model by its true public address; what the    *)
(* code makes of a request is computed from the headers.                   *)
(***************************************************************************)
EXTENDS Integers, Sequences, FiniteSets, SequencesExt

CONSTANTS
    Browsers,           \* a browser at an address, with the cookie it holds
    Address,            \* [Browsers -> its true public address]
    Cookie,             \* [Browsers -> a session, or NoSid]
    Fingerprint,        \* [Browsers -> a device, or NoDevice]
    Lan,                \* a private address some network writes in X-Forwarded-For
    Proxies,            \* the addresses in cfg.TrustedProxies
    NoAddr,             \* an absent header, or text that is no address
    NoSid,              \* no cookie, or a malformed one
    NoDevice,           \* no X-Client-Fingerprint, or a malformed one
    Routes,             \* the buckets of s.limits
    FingerprintRoutes,  \* bucketUsesFingerprint: /o, /sync, /update, /report
    Limit,              \* [Routes -> requests per window]
    Window,             \* time.Minute
    MaxDistinct,        \* newFingerprintTracker(32, time.Hour)
    DeviceWindow,
    Handlers,           \* goroutines that serve requests
    MaxClock,           \* bound: last instant of the clock
    MaxRequests         \* bound: requests in one behaviour

ASSUME GateAssumption ==
    /\ Limit \in [Routes -> Nat \ {0}]
    /\ FingerprintRoutes \subseteq Routes
    /\ Window \in Nat
    /\ MaxDistinct \in Nat
    /\ DeviceWindow \in Nat
    /\ IsFiniteSet(Browsers)
    /\ \A b \in Browsers : Address[b] \notin Proxies \cup {NoAddr}

VARIABLES
    gateClock,  \* time.Now()
    buckets,    \* rateLimiter.buckets: key -> its window
    seen,       \* fingerprintTracker.seen: address -> device -> last time
    gate,       \* handler -> the request it serves
    admitted,   \* history: <<route, address, session>> -> its admissions in order
    recorded,   \* history: <<address, device>> -> newest time it was recorded with
    requests    \* requests so far

gateVars == <<gateClock, buckets, seen, gate, admitted, recorded, requests>>

\* Never is the time of what did not happen.
Never == -1

\* Whose requests are counted together: a browser's address and session.
Party(route, b) == <<route, Address[b], Cookie[b]>>

Parties == {Party(route, b) : route \in Routes, b \in Browsers}

Device(b) == <<Address[b], Fingerprint[b]>>

Idle == [pc |-> "idle"]
Allowed == [pc |-> "allowed"]

GateInit ==
    /\ gateClock = 0
    /\ buckets = [k \in {} |-> 0]
    /\ seen = [a \in {} |-> 0]
    /\ gate = [h \in Handlers |-> Idle]
    /\ admitted = [k \in Parties |-> <<>>]
    /\ recorded = [k \in {Device(b) : b \in Browsers} |-> Never]
    /\ requests = 0

----------------------------------------------------------------------------
(* The address of a request *)

\* What reaches the server from address v: the connection itself, which some
\* networks decorate, or one a trusted proxy opened, with v in
\* CF-Connecting-IP or in a list to which each hop has appended its peer.
Envelopes(v) ==
    [remote : {v}, cf : {NoAddr}, xff : {<<>>, <<Lan>>}]
    \cup [remote : Proxies, cf : {v}, xff : {<<>>, <<Lan>>}]
    \cup [remote : Proxies, cf : {NoAddr},
          xff : {<<v>>, <<Lan, v>>, <<v, NoAddr>>} \cup {<<v, p>> : p \in Proxies}]

\* The places of the list that hold an address of no trusted proxy.
Hops(e) == {i \in DOMAIN e.xff : e.xff[i] \notin Proxies \cup {NoAddr}}

\* Mutant: the leftmost address of the list is believed.
ClientIP_Leftmost(e) ==
    IF e.remote \notin Proxies THEN e.remote
    ELSE IF e.cf # NoAddr THEN e.cf
    ELSE IF Hops(e) = {} THEN e.remote
    ELSE e.xff[CHOOSE i \in Hops(e) : \A j \in Hops(e) : i <= j]

\* clientIP: only a trusted proxy's headers count, and of its list the last
\* address that is not a trusted proxy.
ClientIP(e) ==
    IF e.remote \notin Proxies THEN e.remote
    ELSE IF e.cf # NoAddr THEN e.cf
    ELSE IF Hops(e) = {} THEN e.remote
    ELSE e.xff[CHOOSE i \in Hops(e) : \A j \in Hops(e) : j <= i]

----------------------------------------------------------------------------
(* Server.allow *)

AsksTracker(route, b) == route \in FingerprintRoutes /\ Fingerprint[b] # NoDevice

\* A request arrives.  The tracker's clock is read at once; the wait for its
\* lock comes after.
Arrive(h, b, route) ==
    /\ gate[h].pc = "idle"
    /\ requests < MaxRequests
    /\ \E e \in Envelopes(Address[b]) :
          gate' = [gate EXCEPT ![h] =
                     [pc |-> IF AsksTracker(route, b) THEN "device" ELSE "bucket",
                      browser |-> b, ip |-> ClientIP(e), route |-> route,
                      now |-> IF AsksTracker(route, b) THEN gateClock ELSE 0]]
    /\ requests' = requests + 1
    /\ UNCHANGED <<gateClock, buckets, seen, admitted, recorded>>

Extended(f, k, x) == [y \in DOMAIN f \cup {k} |-> IF y = k THEN x ELSE f[y]]

\* Mutant: devices are never forgotten.
Recent_Forever(ip, now) ==
    IF ip \in DOMAIN seen THEN seen[ip] ELSE [d \in {} |-> 0]

\* The devices of an address that are still within the window.
Recent(ip, now) ==
    IF ip \in DOMAIN seen
    THEN LET live == {d \in DOMAIN seen[ip] : now - seen[ip][d] <= DeviceWindow}
         IN  [d \in live |-> seen[ip][d]]
    ELSE [d \in {} |-> 0]

Later(a, b) == IF a > b THEN a ELSE b

\* fingerprintTracker.allow under its mutex.  What has expired is dropped even
\* when the request is then refused.
Track(h) ==
    LET q == gate[h]
        fps == Recent(q.ip, q.now)
        d == Fingerprint[q.browser]
        ok == d \in DOMAIN fps \/ Cardinality(DOMAIN fps) < MaxDistinct
    IN  /\ q.pc = "device"
        /\ seen' = Extended(seen, q.ip, IF ok THEN Extended(fps, d, q.now) ELSE fps)
        /\ gate' = [gate EXCEPT ![h] =
                       IF ok THEN [q EXCEPT !.pc = "bucket", !.now = 0]
                       ELSE [q EXCEPT !.pc = "crowded"]]
        /\ recorded' = IF ok THEN [recorded EXCEPT ![Device(q.browser)] = Later(@, q.now)]
                       ELSE recorded
        /\ UNCHANGED <<gateClock, buckets, admitted, requests>>

\* rateLimiter.allow reads the clock before it locks.
ReadClock(h) ==
    /\ gate[h].pc = "bucket"
    /\ gate' = [gate EXCEPT ![h].pc = "count", ![h].now = gateClock]
    /\ UNCHANGED <<gateClock, buckets, seen, admitted, recorded, requests>>

BucketKey(q) == <<q.route, q.ip, Cookie[q.browser]>>

\* Mutant: a window that ends now has ended.
Fresh_AtEnd(q) ==
    BucketKey(q) \in DOMAIN buckets => q.now >= buckets[BucketKey(q)].resetAt

\* !ok || now.After(b.resetAt)
Fresh(q) ==
    BucketKey(q) \in DOMAIN buckets => q.now > buckets[BucketKey(q)].resetAt

Admit(h) ==
    LET q == gate[h] IN
    /\ gate' = [gate EXCEPT ![h] = Allowed]
    /\ admitted' = [admitted EXCEPT ![Party(q.route, q.browser)] =
                      Append(@, [now |-> q.now, at |-> gateClock])]
    /\ UNCHANGED <<gateClock, seen, recorded, requests>>

\* rateLimiter.allow under its mutex: a new window, one more in the current
\* one, or a refusal that leaves it as it is.
OpenWindow(h) ==
    LET q == gate[h] IN
    /\ q.pc = "count"
    /\ Fresh(q)
    /\ buckets' = Extended(buckets, BucketKey(q), [count |-> 1, resetAt |-> q.now + Window])
    /\ Admit(h)

CountOne(h) ==
    LET q == gate[h] IN
    /\ q.pc = "count"
    /\ ~Fresh(q)
    /\ buckets[BucketKey(q)].count < Limit[q.route]
    /\ buckets' = [buckets EXCEPT ![BucketKey(q)].count = @ + 1]
    /\ Admit(h)

OverLimit(h) ==
    LET q == gate[h] IN
    /\ q.pc = "count"
    /\ ~Fresh(q)
    /\ buckets[BucketKey(q)].count >= Limit[q.route]
    /\ gate' = [gate EXCEPT ![h].pc = "limited"]
    /\ UNCHANGED <<gateClock, buckets, seen, admitted, recorded, requests>>

\* The handler works, or answers 429 with tooManyRequests, and is done.
Serve(h) ==
    /\ gate[h].pc \in {"allowed", "limited", "crowded"}
    /\ gate' = [gate EXCEPT ![h] = Idle]
    /\ UNCHANGED <<gateClock, buckets, seen, admitted, recorded, requests>>

GateTick ==
    /\ gateClock < MaxClock
    /\ gateClock' = gateClock + 1
    /\ UNCHANGED <<buckets, seen, gate, admitted, recorded, requests>>

GateStep(h) ==
    \/ Track(h)
    \/ ReadClock(h)
    \/ OpenWindow(h)
    \/ CountOne(h)
    \/ OverLimit(h)
    \/ Serve(h)

GateNext ==
    \/ \E h \in Handlers : GateStep(h)
    \/ \E h \in Handlers, b \in Browsers, route \in Routes : Arrive(h, b, route)
    \/ GateTick

GateSpec == GateInit /\ [][GateNext]_gateVars

----------------------------------------------------------------------------
(* Properties *)

Admissions(q) == admitted[Party(q.route, q.browser)]

\* Nobody pays for another visitor, for another session or for an old window:
\* a request the limiter refuses comes after Limit admissions of that same
\* visitor and session on that route, all within the last Window (rateLimiter
\* and clientIP, whatever the goroutines' delays before the lock).
RefusedMeansBusy ==
    \A h \in Handlers :
        gate[h].pc = "limited" =>
            LET p == Admissions(gate[h])
                n == Limit[gate[h].route]
            IN  \E i \in 1..Len(p) :
                    /\ i + n - 1 <= Len(p)
                    /\ \A j \in i..(i + n - 1) : p[j].at >= gate[h].now - Window

\* A fixed window lets a burst straddle its end, and no more: any interval as
\* long as a window holds at most twice the limit less one of the admissions
\* whose goroutine was not kept waiting.
WindowBound ==
    \A k \in DOMAIN admitted : \A t \in 0..gateClock :
        Cardinality({i \in DOMAIN admitted[k] :
                        /\ admitted[k][i].now = admitted[k][i].at
                        /\ admitted[k][i].at \in t..(t + Window)})
            <= 2 * Limit[k[1]] - 1

\* A device is only turned away when MaxDistinct other devices of the same
\* visitor address were recorded within the tracker's window.
DevicesRefusedByCrowd ==
    \A h \in Handlers :
        gate[h].pc = "crowded" =>
            LET mine == Device(gate[h].browser)
                others == {d \in DOMAIN recorded : d[1] = mine[1] /\ d # mine}
            IN  Cardinality({d \in others :
                                /\ recorded[d] # Never
                                /\ recorded[d] >= gate[h].now - DeviceWindow}) >= MaxDistinct
=============================================================================
