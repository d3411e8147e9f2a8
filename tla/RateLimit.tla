------------------------------ MODULE RateLimit ------------------------------
(***************************************************************************)
(* IpRateLimitGuard: a fixed window of requests per address, in the memory *)
(* of the instance.  Time passes in whole units.                           *)
(***************************************************************************)
EXTENDS Integers, Sequences, FiniteSets

CONSTANTS Addresses, WINDOW_MS, MAX_REQUESTS_PER_WINDOW, MaxTime, MaxHits

ASSUME RateLimitAssumption == {WINDOW_MS, MAX_REQUESTS_PER_WINDOW} \subseteq Nat \ {0} /\ {MaxTime, MaxHits} \subseteq Nat

VARIABLES
  now,
  hits,     \* hits[ip]: the entry of the map; count 0: none
  allowed,  \* history: the times of the requests of ip let through
  seen      \* requests so far

limitVars == <<now, hits, allowed, seen>>

RateLimitTypeOK ==
  /\ now \in 0..MaxTime
  /\ hits \in [Addresses -> [count : 0..MaxHits, windowStart : 0..MaxTime]]
  /\ allowed \in [Addresses -> Seq(0..MaxTime)]
  /\ seen \in 0..MaxHits

RateLimitInit ==
  /\ now = 0
  /\ hits = [ip \in Addresses |-> [count |-> 0, windowStart |-> 0]]
  /\ allowed = [ip \in Addresses |-> <<>>]
  /\ seen = 0

Expired(e) == e.count = 0 \/ now - e.windowStart > WINDOW_MS
Refused(e) == ~Expired(e) /\ e.count + 1 > MAX_REQUESTS_PER_WINDOW

CountedTwice(e) == [count |-> IF Expired(e) THEN 1 ELSE e.count + MaxHits, windowStart |-> now]

\* A window that slides with every request, so that an address that keeps asking is never let in.
CountedSliding(e) == [count |-> IF Expired(e) THEN 1 ELSE e.count + 1, windowStart |-> now]
Counted(e) == IF Expired(e) THEN [count |-> 1, windowStart |-> now]
              ELSE [e EXCEPT !.count = @ + 1]

CanActivate(ip) ==
  /\ seen < MaxHits
  /\ seen' = seen + 1
  /\ hits' = [hits EXCEPT ![ip] = Counted(@)]
  /\ allowed' = [allowed EXCEPT ![ip] = IF Refused(hits[ip]) THEN @ ELSE Append(@, now)]
  /\ UNCHANGED now

Tick == now < MaxTime /\ now' = now + 1 /\ UNCHANGED <<hits, allowed, seen>>

RateLimitNext == Tick \/ \E ip \in Addresses : CanActivate(ip)

-----------------------------------------------------------------------------
Within(ip, from, to) == Cardinality({i \in DOMAIN allowed[ip] : from <= allowed[ip][i] /\ allowed[ip][i] <= to})

\* Across the edges of the windows: no span of a window's length lets through more than two
\* windows' worth, and an address is refused only if a whole window's worth of its requests
\* was let through within the last window's length.
WindowsHold ==
  \A ip \in Addresses :
    /\ \A t \in 0..MaxTime : Within(ip, t, t + WINDOW_MS) <= 2 * MAX_REQUESTS_PER_WINDOW
    /\ Refused(hits[ip]) => Within(ip, now - WINDOW_MS, now) >= MAX_REQUESTS_PER_WINDOW
=============================================================================
