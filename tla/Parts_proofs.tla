---------------------------- MODULE Parts_proofs ----------------------------
(***************************************************************************)
(* What the services promise together, for every instance: how much is let *)
(* through, who may do what, that lists keep up with what they list, and   *)
(* the types of what they keep.                                            *)
(* The modules share no variable, so each part has an inductive invariant  *)
(* of its own, and a step of the services is a step of each part, or none. *)
(***************************************************************************)
EXTENDS MCServices, Services_proofs, Answers_proofs, FiniteSetTheorems, SequenceTheorems,
        WellFoundedInduction, TLAPS

Less == {ss \in Nat \X Nat : ss[1] < ss[2]}

\* The order of the naturals.
LEMMA LessIsWellFounded == IsWellFoundedOn(Less, Nat)
  BY NatLessThanWellFounded, Zenon DEF OpToRel, Less

\* A set of naturals that is not empty has a least element.
LEMMA LeastNatural ==
  ASSUME NEW T \in SUBSET Nat, T # {}
  PROVE  \E x \in T : \A y \in T : x <= y
<1>1. \E x \in T : \A y \in T : ~ (<<y, x>> \in Less)
  BY WFMin, LessIsWellFounded
<1>2. PICK x \in T : \A y \in T : ~ (<<y, x>> \in Less)
  BY <1>1
<1>3. \A y \in T : y \in Nat
  OBVIOUS
<1>4. \A y \in T : ~ (y < x)
  BY <1>2, <1>3 DEF Less
<1>5. \A y \in T : x <= y
  BY <1>2, <1>3, <1>4
<1> QED BY <1>2, <1>5

-----------------------------------------------------------------------------
(* Requests per address.  The requests let through in the window of the    *)
(* entry are the last ones, as many as it counts, at most a window's       *)
(* worth; those before them are older than the window, and all but a       *)
(* window's worth of those older by more than its length.                  *)

\* How many requests of the window of e were let through.
InWindow(e) == IF e.count < MAX_REQUESTS_PER_WINDOW THEN e.count ELSE MAX_REQUESTS_PER_WINDOW

\* The times s[1..L], the last n of them in the window that began at ws.
Spaced(s, L, n, ws, t) ==
  /\ \A i \in 1..L :
       /\ s[i] \in Nat /\ s[i] <= t
       /\ i > L - n => ws <= s[i] /\ s[i] <= ws + WINDOW_MS
       /\ i <= L - n => s[i] < ws
       /\ i <= L - n - MAX_REQUESTS_PER_WINDOW => s[i] + WINDOW_MS < ws
  /\ \A i, j \in 1..L : j - i >= 2 * MAX_REQUESTS_PER_WINDOW => s[j] - s[i] > WINDOW_MS

\* e is the entry and s the times let through, at the time t.
Fits(e, s, t) ==
  /\ e \in [count : Nat, windowStart : Nat] /\ s \in Seq(Nat) /\ t \in Nat
  /\ e.windowStart <= t /\ InWindow(e) <= Len(s)
  /\ e.count = 0 => Len(s) = 0
  /\ Spaced(s, Len(s), InWindow(e), e.windowStart, t)

LimitIInv ==
  /\ DOMAIN hits = Addresses /\ DOMAIN allowed = Addresses
  /\ \A ip \in Addresses : Fits(hits[ip], allowed[ip], now)

\* The window and its limit.
LEMMA LimitsAreNatural ==
  MAX_REQUESTS_PER_WINDOW \in Nat /\ MAX_REQUESTS_PER_WINDOW > 0 /\ WINDOW_MS \in Nat /\ MaxTime \in Nat
<1>1. MAX_REQUESTS_PER_WINDOW \in Nat \ {0} /\ WINDOW_MS \in Nat \ {0} /\ MaxTime \in Nat
  BY RateLimitAssumption
<1> QED BY <1>1

\* One more request, in the same window or in a new one that begins with it.
LEMMA OneMore ==
  ASSUME NEW L \in Nat, NEW n \in Nat, NEW ws \in Nat, NEW t \in Nat, NEW s, NEW r,
         Spaced(s, L, n, ws, t), n <= L, n <= MAX_REQUESTS_PER_WINDOW, ws <= t,
         r[L + 1] = t, \A i \in 1..L : r[i] = s[i],
         NEW m \in Nat, NEW vs \in Nat,
         \/ m = n + 1 /\ m <= MAX_REQUESTS_PER_WINDOW /\ vs = ws /\ t <= ws + WINDOW_MS
         \/ m = 1 /\ vs = t /\ (L > 0 => t > ws + WINDOW_MS)
  PROVE  Spaced(r, L + 1, m, vs, t)
<1>1. PICK M \in Nat : M = MAX_REQUESTS_PER_WINDOW
  BY LimitsAreNatural
<1>2. PICK W \in Nat : W = WINDOW_MS
  BY LimitsAreNatural
<1>3. M > 0
  BY <1>1, LimitsAreNatural
<1>4. \A i \in 1..L : /\ s[i] \in Nat /\ s[i] <= t
                      /\ i > L - n => ws <= s[i] /\ s[i] <= ws + W
                      /\ i <= L - n => s[i] < ws
                      /\ i <= L - n - M => s[i] + W < ws
  BY <1>1, <1>2 DEF Spaced
<1>5. \A i, j \in 1..L : j - i >= 2 * M => s[j] - s[i] > W
  BY <1>1, <1>2 DEF Spaced
<1>6. n <= M /\ (\/ m = n + 1 /\ m <= M /\ vs = ws /\ t <= ws + W
                 \/ m = 1 /\ vs = t /\ (L > 0 => t > ws + W))
  BY <1>1, <1>2
<1>7. ASSUME NEW i \in 1..L, NEW v \in Nat, v = s[i]
      PROVE  /\ v <= t
             /\ i > L + 1 - m => vs <= v /\ v <= vs + W
             /\ i <= L + 1 - m => v < vs
             /\ i <= L + 1 - m - M => v + W < vs
  <2>1. /\ v <= t
        /\ i > L - n => ws <= v /\ v <= ws + W
        /\ i <= L - n => v < ws
        /\ i <= L - n - M => v + W < ws
    BY <1>4, <1>7
  <2>2. CASE m = n + 1 /\ m <= M /\ vs = ws /\ t <= ws + W
    BY <2>1, <2>2
  <2>3. CASE m = 1 /\ vs = t /\ (L > 0 => t > ws + W)
    <3>1. t > ws + W
      BY <2>3
    <3>2. i <= L + 1 - m - M => i <= L - n
      BY <1>3, <1>6, <2>3
    <3>3. v <= ws + W
      BY <2>1
    <3> QED BY <2>1, <2>3, <3>1, <3>2, <3>3
  <2> QED BY <1>6, <2>2, <2>3
<1>8. ASSUME NEW i \in 1..(L + 1)
      PROVE  /\ r[i] \in Nat /\ r[i] <= t
             /\ i > L + 1 - m => vs <= r[i] /\ r[i] <= vs + W
             /\ i <= L + 1 - m => r[i] < vs
             /\ i <= L + 1 - m - M => r[i] + W < vs
  <2>1. CASE i = L + 1
    <3>1. PICK v \in Nat : v = t /\ v = r[i]
      BY <2>1
    <3>2. m > 0 /\ vs <= t /\ t <= vs + W
      BY <1>6
    <3> QED BY <2>1, <3>1, <3>2
  <2>2. CASE i # L + 1
    <3>1. i \in 1..L
      BY <2>2
    <3>2. PICK v \in Nat : v = s[i] /\ v = r[i]
      BY <1>4, <3>1
    <3>3. /\ v <= t
          /\ i > L + 1 - m => vs <= v /\ v <= vs + W
          /\ i <= L + 1 - m => v < vs
          /\ i <= L + 1 - m - M => v + W < vs
      BY <1>7, <3>1, <3>2
    <3> QED BY <3>2, <3>3
  <2> QED BY <2>1, <2>2
<1>9. ASSUME NEW i \in 1..(L + 1), NEW j \in 1..(L + 1), j - i >= 2 * M
      PROVE  r[j] - r[i] > W
  <2>1. i \in 1..L
    BY <1>3, <1>9
  <2>2. PICK v \in Nat : v = s[i] /\ v = r[i]
    BY <1>4, <2>1
  <2>3. CASE j = L + 1
    <3>1. i <= L + 1 - m - M
      BY <1>3, <1>6, <1>9, <2>3
    <3>2. v + W < vs
      BY <1>7, <2>1, <2>2, <3>1
    <3>3. vs <= t
      BY <1>6
    <3>4. t - v > W
      BY <3>2, <3>3
    <3> QED BY <2>2, <2>3, <3>4
  <2>4. CASE j # L + 1
    <3>1. j \in 1..L
      BY <2>4
    <3> QED BY <1>5, <1>9, <2>1, <3>1
  <2> QED BY <2>3, <2>4
<1> QED BY <1>1, <1>2, <1>8, <1>9 DEF Spaced

\* What an entry and the times say after a request at t.
LEMMA RequestFits ==
  ASSUME NEW e, NEW s, NEW t, Fits(e, s, t)
  PROVE  LET over == e.count = 0 \/ t - e.windowStart > WINDOW_MS
         IN  Fits(IF over THEN [count |-> 1, windowStart |-> t] ELSE [e EXCEPT !.count = e.count + 1],
                  IF ~over /\ e.count + 1 > MAX_REQUESTS_PER_WINDOW THEN s ELSE Append(s, t), t)
<1>5. s \in Seq(Nat) /\ t \in Nat /\ e \in [count : Nat, windowStart : Nat]
  BY DEF Fits
<1>1. PICK M \in Nat : M = MAX_REQUESTS_PER_WINDOW
  BY LimitsAreNatural
<1>2. PICK W \in Nat : W = WINDOW_MS
  BY LimitsAreNatural
<1>3. PICK k \in Nat : k = e.count
  BY <1>5
<1>4. PICK ws \in Nat : ws = e.windowStart
  BY <1>5
<1>6. PICK L \in Nat : L = Len(s)
  BY <1>5, LenProperties
<1>7. PICK n \in Nat : n = InWindow(e)
  BY <1>1, <1>3 DEF InWindow
<1>8. n = (IF k < M THEN k ELSE M) /\ n <= L /\ ws <= t /\ (k = 0 => L = 0) /\ Spaced(s, L, n, ws, t) /\ M > 0
  BY <1>1, <1>3, <1>4, <1>6, <1>7, LimitsAreNatural DEF InWindow, Fits
<1>9. e.count = 0 \/ t - e.windowStart > WINDOW_MS <=> k = 0 \/ t - ws > W
  BY <1>2, <1>3, <1>4
<1>a. PICK r : r = Append(s, t)
  OBVIOUS
<1>b. r \in Seq(Nat) /\ Len(r) = L + 1 /\ r[L + 1] = t /\ \A i \in 1..L : r[i] = s[i]
  BY <1>5, <1>6, <1>a, AppendProperties
<1>10. CASE ~(k = 0 \/ t - ws > W)
  <2>1. PICK f : f = [e EXCEPT !.count = k + 1]
    OBVIOUS
  <2>2. f \in [count : Nat, windowStart : Nat] /\ f.count = k + 1 /\ f.windowStart = ws
    BY <1>4, <1>5, <2>1
  <2>3. k + 1 \in Nat /\ k + 1 # 0 /\ ws <= t /\ t <= ws + W
    BY <1>5, <1>8, <1>10
  <2>4. CASE k + 1 > M
    <3>1. InWindow(f) = n
      BY <1>1, <1>8, <2>2, <2>4 DEF InWindow
    <3>2. Fits(f, s, t)
      BY <1>5, <1>6, <1>8, <2>2, <2>3, <3>1 DEF Fits
    <3> QED BY <1>1, <1>3, <1>9, <1>10, <2>1, <2>4, <3>2
  <2>5. CASE ~(k + 1 > M)
    <3>1. InWindow(f) = n + 1 /\ n + 1 <= M /\ n <= M /\ n + 1 \in Nat /\ n + 1 <= L + 1
      BY <1>1, <1>8, <2>2, <2>5 DEF InWindow
    <3>2. Spaced(r, L + 1, n + 1, ws, t)
      BY <1>1, <1>2, <1>5, <1>8, <1>b, <2>3, <3>1, OneMore
    <3>3. Fits(f, r, t)
      BY <1>5, <1>b, <2>2, <2>3, <3>1, <3>2 DEF Fits
    <3> QED BY <1>1, <1>3, <1>9, <1>10, <1>a, <2>1, <2>5, <3>3
  <2> QED BY <2>4, <2>5
<1>11. CASE k = 0 \/ t - ws > W
  <2>1. PICK f : f = [count |-> 1, windowStart |-> t]
    OBVIOUS
  <2>2. f \in [count : Nat, windowStart : Nat] /\ f.count = 1 /\ f.windowStart = t
    BY <1>5, <2>1
  <2>3. InWindow(f) = 1
    BY <1>1, <1>8, <2>2 DEF InWindow
  <2>4. (L > 0 => t > ws + W) /\ n <= M /\ 1 <= L + 1
    BY <1>5, <1>8, <1>11
  <2>5. Spaced(r, L + 1, 1, t, t)
    BY <1>1, <1>2, <1>5, <1>8, <1>b, <2>4, OneMore
  <2>6. Fits(f, r, t)
    BY <1>5, <1>b, <2>2, <2>3, <2>4, <2>5 DEF Fits, Spaced
  <2> QED BY <1>9, <1>11, <1>a, <2>1, <2>6
<1> QED BY <1>10, <1>11

\* Time passes: an entry keeps what it says.
LEMMA TickFits ==
  ASSUME NEW e, NEW s, NEW t, Fits(e, s, t)
  PROVE  Fits(e, s, t + 1)
<1>1. /\ e \in [count : Nat, windowStart : Nat] /\ s \in Seq(Nat) /\ t \in Nat
      /\ e.windowStart <= t /\ InWindow(e) <= Len(s)
      /\ e.count = 0 => Len(s) = 0
  BY DEF Fits
<1>2. t + 1 \in Nat /\ e.windowStart <= t + 1
  BY <1>1
<1>3. PICK n : n = InWindow(e)
  OBVIOUS
<1>4. PICK ws : ws = e.windowStart
  OBVIOUS
<1>5. Spaced(s, Len(s), n, ws, t)
  BY <1>3, <1>4 DEF Fits
<1>6. Spaced(s, Len(s), n, ws, t + 1)
  <2>1. \A i \in 1..Len(s) : s[i] \in Nat /\ s[i] <= t + 1
    BY <1>1, <1>5 DEF Spaced
  <2> QED BY <1>5, <2>1 DEF Spaced
<1> QED BY <1>1, <1>2, <1>3, <1>4, <1>6 DEF Fits

\* What the entries say of the requests that were let through.
LEMMA FitsHolds ==
  ASSUME NEW e, NEW s, NEW t, Fits(e, s, t), NEW from \in Int,
         NEW C, C = {i \in DOMAIN s : from <= s[i] /\ s[i] <= from + WINDOW_MS}
  PROVE  /\ Cardinality(C) <= 2 * MAX_REQUESTS_PER_WINDOW
         /\ e.count # 0 /\ ~(t - e.windowStart > WINDOW_MS) /\ e.count + 1 > MAX_REQUESTS_PER_WINDOW /\ from = t - WINDOW_MS
            => Cardinality(C) >= MAX_REQUESTS_PER_WINDOW
<1>1. PICK M \in Nat : M = MAX_REQUESTS_PER_WINDOW /\ M > 0
  BY RateLimitAssumption
<1>2. PICK W \in Nat : W = WINDOW_MS /\ W > 0
  BY RateLimitAssumption
<1>5. s \in Seq(Nat) /\ t \in Nat /\ e \in [count : Nat, windowStart : Nat]
  BY DEF Fits
<1>a. Len(s) \in Nat /\ DOMAIN s = 1..Len(s) /\ \A i \in 1..Len(s) : s[i] \in Nat
  BY <1>5, LenProperties, ElementOfSeq
<1>6. PICK L \in Nat : L = Len(s) /\ DOMAIN s = 1..L /\ \A i \in 1..L : s[i] \in Nat
  BY <1>a, Zenon
<1>b. \A i, j \in 1..L : j - i >= 2 * M => s[j] - s[i] > W
  BY <1>1, <1>2, <1>6 DEF Fits, Spaced
<1>7. C \in SUBSET (1..L) /\ C \in SUBSET Nat
  BY <1>6
<1>8. IsFiniteSet(1..L) /\ IsFiniteSet(C) /\ Cardinality(C) \in Nat
  <2>1. IsFiniteSet(1..L)
    BY <1>6, FS_Interval
  <2>2. IsFiniteSet(C)
    BY <1>7, <2>1, FS_Subset
  <2> QED BY <2>1, <2>2, FS_CardinalityType
<1>9. Cardinality(C) <= 2 * M
  <2>1. CASE C = {}
    BY <1>1, <2>1, FS_EmptySet
  <2>2. CASE C # {}
    <3>1. PICK m \in C : \A y \in C : m <= y
      BY <1>7, <2>2, LeastNatural
    <3>2. \A y \in C : s[y] - s[m] <= W
      <4> TAKE y \in C
      <4>1. PICK a \in Nat : a = s[y] /\ a <= from + W
        BY <1>2, <1>6
      <4>2. PICK b \in Nat : b = s[m] /\ from <= b
        BY <1>2, <1>6
      <4> QED BY <4>1, <4>2
    <3>3. \A y \in C : s[y] \in Nat /\ s[m] \in Nat
      BY <1>6
    <3>4. \A y \in C : ~(y - m >= 2 * M)
      BY <1>b, <1>7, <3>2, <3>3
    <3>5. \A y \in C : y \in m..(m + 2 * M - 1)
      BY <1>1, <1>7, <3>1, <3>4
    <3>6. m \in Int /\ m + 2 * M - 1 \in Int /\ ~(m > m + 2 * M - 1) /\ (m + 2 * M - 1) - m + 1 = 2 * M
      BY <1>1, <1>7
    <3>7. IsFiniteSet(m..(m + 2 * M - 1)) /\ Cardinality(m..(m + 2 * M - 1)) = 2 * M
      BY <3>6, FS_Interval
    <3> QED BY <3>5, <3>7, FS_Subset
  <2> QED BY <2>1, <2>2
<1>10. ASSUME e.count # 0, ~(t - e.windowStart > W), e.count + 1 > M, from = t - W
       PROVE  Cardinality(C) >= M
  <2>1. PICK ws \in Nat : ws = e.windowStart /\ t - ws <= W
    BY <1>5, <1>10
  <2>2. InWindow(e) = M
    <3>1. PICK k \in Nat : k = e.count
      BY <1>5
    <3> QED BY <1>1, <1>10, <3>1 DEF InWindow
  <2>3. M <= L
    BY <1>1, <1>6, <2>2 DEF Fits
  <2>4. \A i \in (L - M + 1)..L : i \in C
    <3> TAKE i \in (L - M + 1)..L
    <3>1. i \in 1..L /\ i > L - M
      BY <1>1, <2>3
    <3>2. PICK v \in Nat : v = s[i]
      BY <1>6, <3>1
    <3>3. v <= t /\ ws <= v
      BY <1>6, <2>1, <2>2, <3>1, <3>2 DEF Fits, Spaced
    <3>4. from <= v /\ v <= from + W
      BY <1>10, <1>2, <1>5, <2>1, <3>3
    <3> QED BY <1>2, <1>6, <3>1, <3>2, <3>4
  <2>5. L - M + 1 \in Int /\ ~(L - M + 1 > L) /\ L - (L - M + 1) + 1 = M
    BY <1>1
  <2>6. Cardinality((L - M + 1)..L) = M
    BY <2>5, FS_Interval
  <2>7. (L - M + 1)..L \in SUBSET C
    BY <2>4
  <2>8. Cardinality((L - M + 1)..L) <= Cardinality(C)
    BY <1>8, <2>7, FS_Subset
  <2> QED BY <2>6, <2>8
<1> QED BY <1>1, <1>2, <1>9, <1>10

\* Before the first request.
LEMMA LimitInit == RateLimitInit => LimitIInv
<1> SUFFICES ASSUME RateLimitInit PROVE LimitIInv
  OBVIOUS
<1>1. DOMAIN hits = Addresses /\ DOMAIN allowed = Addresses /\ now = 0
  BY DEF RateLimitInit
<1>2. ASSUME NEW ip \in Addresses
      PROVE  Fits(hits[ip], allowed[ip], now)
  <2>1. hits[ip] = [count |-> 0, windowStart |-> 0] /\ allowed[ip] = <<>>
    BY DEF RateLimitInit
  <2>2. PICK e : e = hits[ip]
    OBVIOUS
  <2>3. e \in [count : Nat, windowStart : Nat] /\ e.count = 0 /\ e.windowStart = 0
    BY <2>1, <2>2
  <2>4. InWindow(e) = 0
    BY <2>3, RateLimitAssumption DEF InWindow
  <2>5. <<>> \in Seq(Nat) /\ Len(<<>>) = 0
    BY EmptySeq
  <2> QED BY <1>1, <2>1, <2>2, <2>3, <2>4, <2>5 DEF Fits, Spaced
<1> QED BY <1>1, <1>2 DEF LimitIInv

\* Time passes, or a request is let through or refused.
LEMMA LimitStep == LimitIInv /\ [RateLimitNext]_limitVars => LimitIInv'
<1> SUFFICES ASSUME LimitIInv, [RateLimitNext]_limitVars PROVE LimitIInv'
  OBVIOUS
<1>1. CASE Tick
  <2>1. now' = now + 1 /\ UNCHANGED <<hits, allowed>>
    BY <1>1 DEF Tick
  <2>2. \A ip \in Addresses : Fits(hits[ip], allowed[ip], now + 1)
    BY TickFits DEF LimitIInv
  <2> QED BY <2>1, <2>2 DEF LimitIInv
<1>2. ASSUME NEW ip \in Addresses, CanActivate(ip) PROVE LimitIInv'
  <2>1. PICK e : e = hits[ip]
    OBVIOUS
  <2>2. PICK s : s = allowed[ip]
    OBVIOUS
  <2>3. PICK over \in BOOLEAN : over <=> (e.count = 0 \/ now - e.windowStart > WINDOW_MS)
    OBVIOUS
  <2>4. PICK f : f = IF over THEN [count |-> 1, windowStart |-> now] ELSE [e EXCEPT !.count = e.count + 1]
    OBVIOUS
  <2>5. PICK r : r = IF ~over /\ e.count + 1 > MAX_REQUESTS_PER_WINDOW THEN s ELSE Append(s, now)
    OBVIOUS
  <2>6. Fits(e, s, now)
    BY <2>1, <2>2 DEF LimitIInv
  <2>7. Fits(f, r, now)
    BY <2>3, <2>4, <2>5, <2>6, RequestFits, Zenon
  <2>8. Counted(e) = f /\ (Refused(e) <=> (~over /\ e.count + 1 > MAX_REQUESTS_PER_WINDOW))
    BY <2>3, <2>4 DEF Counted, Refused, Expired
  <2>9. hits' = [hits EXCEPT ![ip] = f]
    BY <1>2, <2>1, <2>8 DEF CanActivate
  <2>10. allowed' = [allowed EXCEPT ![ip] = r]
    BY <1>2, <2>1, <2>2, <2>5, <2>8 DEF CanActivate
  <2>11. now' = now
    BY <1>2 DEF CanActivate
  <2> QED BY <2>7, <2>9, <2>10, <2>11 DEF LimitIInv
<1>3. CASE UNCHANGED limitVars
  BY <1>3 DEF limitVars, LimitIInv
<1> QED BY <1>1, <1>2, <1>3 DEF RateLimitNext

\* Requests that are a window apart are counted apart, so no stretch of a window has two.
LEMMA LimitHolds == LimitIInv => WindowsHold
<1> SUFFICES ASSUME LimitIInv, NEW ip \in Addresses
             PROVE  /\ \A t \in 0..MaxTime : Within(ip, t, t + WINDOW_MS) <= 2 * MAX_REQUESTS_PER_WINDOW
                    /\ Refused(hits[ip]) => Within(ip, now - WINDOW_MS, now) >= MAX_REQUESTS_PER_WINDOW
  BY DEF WindowsHold
<1>1. Fits(hits[ip], allowed[ip], now) /\ now \in Nat
  BY DEF LimitIInv, Fits
<1>2. WINDOW_MS \in Nat /\ now - WINDOW_MS \in Int /\ now - WINDOW_MS + WINDOW_MS = now
  BY <1>1, RateLimitAssumption
<1>3. ASSUME NEW t \in 0..MaxTime PROVE Within(ip, t, t + WINDOW_MS) <= 2 * MAX_REQUESTS_PER_WINDOW
  <2>1. t \in Int
    BY RateLimitAssumption
  <2> QED BY <1>1, <2>1, FitsHolds DEF Within
<1>4. ASSUME Refused(hits[ip]) PROVE Within(ip, now - WINDOW_MS, now) >= MAX_REQUESTS_PER_WINDOW
  <2>1. PICK C : C = {i \in DOMAIN allowed[ip] : now - WINDOW_MS <= allowed[ip][i] /\ allowed[ip][i] <= now - WINDOW_MS + WINDOW_MS}
    OBVIOUS
  <2>2. Cardinality(C) >= MAX_REQUESTS_PER_WINDOW
    BY <1>1, <1>2, <1>4, <2>1, FitsHolds DEF Refused, Expired
  <2>3. Within(ip, now - WINDOW_MS, now) = Cardinality(C)
    BY <1>2, <2>1 DEF Within
  <2> QED BY <2>2, <2>3
<1> QED BY <1>3, <1>4

-----------------------------------------------------------------------------
(* Consent.  Whatever says that an account agreed says when: the column,   *)
(* that it does now; an answer that was read, or is about to be kept, that *)
(* it did since it was asked for; an entry, within an await of its own     *)
(* time; an event being filled, within the life of an entry and an await.  *)

Sending == [step : {"idle", "reads", "read", "fills"}, since : Nat, of : Subjects, value : BOOLEAN]
Changing == [step : {"stored"}, since : Nat, of : Subjects, value : BOOLEAN]
Entry == [known : BOOLEAN, value : BOOLEAN, at : Nat]

\* At the instant t, with the last instants at which the accounts agreed.
EntryOK(e, last) == e.known = TRUE /\ e.value = TRUE => last >= 0 /\ e.at - last <= MaxAwait
SendingOK(r, t, agreed) ==
  r.step # "idle" =>
    /\ r \in Sending /\ r.since <= t /\ t - r.since <= MaxAwait
    /\ r.step = "read" /\ r.value = TRUE => agreed[r.of] >= r.since
    /\ r.step = "fills" => agreed[r.of] >= 0 /\ r.since - agreed[r.of] < MaxAwait + CONSENT_TTL_MS
ChangingOK(r, t, agreed) ==
  r.step # "idle" =>
    /\ r \in Changing /\ r.since <= t /\ t - r.since <= MaxAwait
    /\ r.value = TRUE => agreed[r.of] >= r.since

Agreed(agreed, t) == agreed \in [Subjects -> Int] /\ \A u \in Subjects : agreed[u] <= t

ConsentIInv ==
  /\ instant \in Nat /\ Agreed(lastAgreed, instant)
  /\ consentOf \in [Subjects -> BOOLEAN]
  /\ \A u \in Subjects : consentOf[u] = TRUE => lastAgreed[u] = instant
  /\ consent \in [Subjects -> Entry] /\ \A u \in Subjects : EntryOK(consent[u], lastAgreed[u])
  /\ DOMAIN capturing = Captures /\ \A c \in Captures : SendingOK(capturing[c], instant, lastAgreed)
  /\ DOMAIN answering = Answering /\ \A p \in Answering : ChangingOK(answering[p], instant, lastAgreed)
  /\ tooLate = FALSE

\* The life of an entry and the longest await.
LEMMA ConsentLimits == CONSENT_TTL_MS \in Nat /\ CONSENT_TTL_MS > 0 /\ MaxAwait \in Nat
<1>1. CONSENT_TTL_MS \in Nat \ {0} /\ MaxAwait \in Nat
  BY ConsentCacheAssumption
<1> QED BY <1>1

\* Agreeing later breaks nothing.
LEMMA AgreedLater ==
  ASSUME NEW t \in Nat, NEW f, Agreed(f, t), NEW w \in Nat, NEW g, Agreed(g, w), \A u \in Subjects : f[u] <= g[u]
  PROVE  /\ \A r : SendingOK(r, t, f) => SendingOK(r, t, g)
         /\ \A r : ChangingOK(r, t, f) => ChangingOK(r, t, g)
         /\ \A e \in Entry, u \in Subjects : EntryOK(e, f[u]) => EntryOK(e, g[u])
<1>1. ASSUME NEW r, SendingOK(r, t, f) PROVE SendingOK(r, t, g)
  <2>1. SUFFICES ASSUME r.step # "idle" PROVE SendingOK(r, t, g)
    BY DEF SendingOK
  <2>2. r.since \in Nat /\ r.of \in Subjects
    BY <1>1, <2>1 DEF SendingOK, Sending
  <2>3. f[r.of] \in Int /\ g[r.of] \in Int /\ f[r.of] <= g[r.of]
    BY <2>2 DEF Agreed
  <2>4. PICK a \in Int : a = f[r.of]
    BY <2>3
  <2>5. PICK b \in Int : b = g[r.of]
    BY <2>3
  <2>6. PICK n \in Nat : n = r.since
    BY <2>2
  <2>7. PICK M \in Nat : M = MaxAwait
    BY ConsentLimits
  <2>8. PICK T \in Nat : T = CONSENT_TTL_MS
    BY ConsentLimits
  <2>9. a <= b /\ (a >= n => b >= n) /\ (a >= 0 /\ n - a < M + T => b >= 0 /\ n - b < M + T)
    BY <2>3, <2>4, <2>5
  <2> QED BY <1>1, <2>1, <2>4, <2>5, <2>6, <2>7, <2>8, <2>9 DEF SendingOK
<1>2. ASSUME NEW r, ChangingOK(r, t, f) PROVE ChangingOK(r, t, g)
  <2>1. SUFFICES ASSUME r.step # "idle" PROVE ChangingOK(r, t, g)
    BY DEF ChangingOK
  <2>2. r.since \in Nat /\ r.of \in Subjects
    BY <1>2, <2>1 DEF ChangingOK, Changing
  <2>3. f[r.of] \in Int /\ g[r.of] \in Int /\ f[r.of] <= g[r.of]
    BY <2>2 DEF Agreed
  <2>9. f[r.of] >= r.since => g[r.of] >= r.since
    BY <2>2, <2>3
  <2> QED BY <1>2, <2>1, <2>9 DEF ChangingOK
<1>3. ASSUME NEW e \in Entry, NEW u \in Subjects, EntryOK(e, f[u]) PROVE EntryOK(e, g[u])
  <2>1. PICK a \in Int : a = f[u]
    BY DEF Agreed
  <2>2. PICK b \in Int : b = g[u] /\ a <= b
    BY <2>1 DEF Agreed
  <2>3. PICK n \in Nat : n = e.at
    BY DEF Entry
  <2>4. PICK M \in Nat : M = MaxAwait
    BY ConsentLimits
  <2>5. a >= 0 /\ n - a <= M => b >= 0 /\ n - b <= M
    BY <2>2
  <2> QED BY <1>3, <2>1, <2>2, <2>3, <2>4, <2>5 DEF EntryOK
<1> QED BY <1>1, <1>2, <1>3

\* Before the first event nothing is known of anyone.
LEMMA ConsentInit == ConsentCacheInit => ConsentIInv
<1> SUFFICES ASSUME ConsentCacheInit PROVE ConsentIInv
  OBVIOUS
<1>1. /\ instant = 0 /\ tooLate = FALSE /\ consentOf = [u \in Subjects |-> FALSE] /\ lastAgreed = [u \in Subjects |-> -1]
      /\ consent = [u \in Subjects |-> [known |-> FALSE, value |-> FALSE, at |-> 0]]
      /\ DOMAIN capturing = Captures /\ DOMAIN answering = Answering
      /\ \A c \in Captures : capturing[c].step = "idle"
      /\ \A p \in Answering : answering[p].step = "idle"
  BY DEF ConsentCacheInit, Idle
<1>2. Agreed(lastAgreed, instant) /\ consentOf \in [Subjects -> BOOLEAN] /\ consent \in [Subjects -> Entry]
  BY <1>1 DEF Agreed, Entry
<1>3. \A u \in Subjects : consentOf[u] = FALSE /\ consent[u].known = FALSE
  BY <1>1
<1>4. \A u \in Subjects : EntryOK(consent[u], lastAgreed[u])
  BY <1>3, Zenon DEF EntryOK
<1>5. \A u \in Subjects : consentOf[u] = TRUE => lastAgreed[u] = instant
  BY <1>3, Zenon
<1> QED BY <1>1, <1>2, <1>4, <1>5 DEF ConsentIInv, SendingOK, ChangingOK

\* A send asks, or keeps an answer: it remembers when.
LEMMA GoKeeps ==
  ASSUME ConsentIInv, NEW c \in Captures, NEW step \in {"idle", "reads", "fills"}, NEW u \in Subjects, Go(c, step, u),
         step = "fills" => lastAgreed[u] >= 0 /\ instant - lastAgreed[u] < MaxAwait + CONSENT_TTL_MS
  PROVE  DOMAIN capturing' = Captures /\ \A d \in Captures : SendingOK(capturing'[d], instant, lastAgreed)
<1>1. PICK r : r = [step |-> step, since |-> instant, of |-> u, value |-> FALSE]
  OBVIOUS
<1>2. capturing' = [capturing EXCEPT ![c] = r]
  BY <1>1 DEF Go
<1>3. r \in Sending /\ r.step = step /\ r.since = instant /\ r.of = u /\ instant \in Nat
  BY <1>1 DEF Sending, ConsentIInv
<1>4. r.step # "read" /\ r.since <= instant /\ instant - r.since <= MaxAwait
  BY <1>3, ConsentLimits
<1>5. SendingOK(r, instant, lastAgreed)
  BY <1>3, <1>4 DEF SendingOK
<1> QED BY <1>2, <1>5 DEF ConsentIInv

\* An entry is made.
LEMMA RememberKeeps ==
  ASSUME ConsentIInv, NEW u \in Subjects, NEW v \in BOOLEAN, consent' = Remember(u, v),
         v = TRUE => lastAgreed[u] >= 0 /\ instant - lastAgreed[u] <= MaxAwait
  PROVE  consent' \in [Subjects -> Entry] /\ \A w \in Subjects : EntryOK(consent'[w], lastAgreed[w])
<1>1. PICK e : e = [known |-> TRUE, value |-> v, at |-> instant]
  OBVIOUS
<1>2. e \in Entry /\ e.value = v /\ e.at = instant
  BY <1>1 DEF Entry, ConsentIInv
<1>3. consent' = [consent EXCEPT ![u] = e]
  BY <1>1 DEF Remember
<1>4. EntryOK(e, lastAgreed[u])
  BY <1>2 DEF EntryOK
<1> QED BY <1>2, <1>3, <1>4 DEF ConsentIInv

\* An event finds an entry that is fresh, or begins to ask.
LEMMA CaptureKeeps ==
  ASSUME ConsentIInv, NEW c \in Captures, NEW u \in Subjects, Capture(c, u)
  PROVE  ConsentIInv'
<1>1. UNCHANGED <<instant, consentOf, answering, lastAgreed, tooLate>>
  BY DEF Capture
<1>2. UNCHANGED consent
  BY DEF Capture, Hit
<1>3. PICK v \in BOOLEAN : v = consent[u].value
  BY DEF ConsentIInv, Entry
<1>4. PICK step \in {"idle", "reads", "fills"} :
        Go(c, step, u) /\ (step = "fills" => Fresh(u) /\ v = TRUE)
  <2>1. CASE ~Fresh(u)
    BY <2>1 DEF Capture
  <2>2. CASE Fresh(u) /\ v = TRUE
    BY <1>3, <2>2 DEF Capture
  <2>3. CASE Fresh(u) /\ v = FALSE
    BY <1>3, <2>3 DEF Capture
  <2> QED BY <2>1, <2>2, <2>3
<1>5. ASSUME step = "fills" PROVE lastAgreed[u] >= 0 /\ instant - lastAgreed[u] < MaxAwait + CONSENT_TTL_MS
  <2>1. consent[u].known = TRUE /\ consent[u].value = TRUE
    <3>1. consent[u].known \in BOOLEAN
      BY DEF ConsentIInv, Entry
    <3> QED BY <1>3, <1>4, <1>5, <3>1 DEF Fresh
  <2>2. PICK a \in Int : a = lastAgreed[u]
    BY DEF ConsentIInv, Agreed
  <2>3. PICK n \in Nat : n = consent[u].at
    BY DEF ConsentIInv, Entry
  <2>4. a >= 0 /\ n - a <= MaxAwait
    BY <2>1, <2>2, <2>3 DEF ConsentIInv, EntryOK
  <2>5. instant - n < CONSENT_TTL_MS
    BY <1>4, <1>5, <2>3 DEF Fresh
  <2>6. instant \in Nat
    BY DEF ConsentIInv
  <2> QED BY <2>2, <2>4, <2>5, <2>6, ConsentLimits
<1>6. DOMAIN capturing' = Captures /\ \A d \in Captures : SendingOK(capturing'[d], instant, lastAgreed)
  BY <1>4, <1>5, GoKeeps
<1> QED BY <1>1, <1>2, <1>6 DEF ConsentIInv

\* The column is read.
LEMMA ReadConsentKeeps ==
  ASSUME ConsentIInv, NEW c \in Captures, ReadConsent(c)
  PROVE  ConsentIInv'
<1>1. UNCHANGED <<instant, consentOf, consent, answering, lastAgreed, tooLate>> /\ capturing[c].step = "reads"
  BY DEF ReadConsent
<1>2. PICK r : r = capturing[c]
  OBVIOUS
<1>3. r \in Sending /\ r.since <= instant /\ instant - r.since <= MaxAwait
  BY <1>1, <1>2 DEF ConsentIInv, SendingOK
<1>4. PICK v \in BOOLEAN : v = consentOf[r.of]
  BY <1>3 DEF ConsentIInv, Sending
<1>5. PICK n : n = [r EXCEPT !.step = "read", !.value = v]
  OBVIOUS
<1>6. capturing' = [capturing EXCEPT ![c] = n]
  BY <1>2, <1>4, <1>5 DEF ReadConsent, ConsentIInv
<1>7. n \in Sending /\ n.step = "read" /\ n.value = v /\ n.since = r.since /\ n.of = r.of
  BY <1>3, <1>5 DEF Sending
<1>8. ASSUME v = TRUE PROVE lastAgreed[n.of] >= n.since
  <2>1. lastAgreed[r.of] = instant
    BY <1>3, <1>4, <1>8 DEF ConsentIInv, Sending
  <2>2. r.since \in Nat /\ instant \in Nat
    BY <1>3 DEF Sending, ConsentIInv
  <2> QED BY <1>3, <1>7, <2>1, <2>2
<1>9. SendingOK(n, instant, lastAgreed)
  BY <1>3, <1>7, <1>8 DEF SendingOK
<1> QED BY <1>1, <1>6, <1>9 DEF ConsentIInv

\* What was read is remembered, and the event goes on if it may.
LEMMA HasConsentKeeps ==
  ASSUME ConsentIInv, NEW c \in Captures, HasConsent(c)
  PROVE  ConsentIInv'
<1>1. UNCHANGED <<instant, consentOf, answering, lastAgreed, tooLate>> /\ capturing[c].step = "read"
  BY DEF HasConsent
<1>2. PICK r : r = capturing[c]
  OBVIOUS
<1>3. /\ r \in Sending /\ r.since <= instant /\ instant - r.since <= MaxAwait
      /\ r.value = TRUE => lastAgreed[r.of] >= r.since
  BY <1>1, <1>2 DEF ConsentIInv, SendingOK
<1>4. PICK v \in BOOLEAN : v = r.value
  BY <1>3 DEF Sending
<1>5. PICK u \in Subjects : u = r.of
  BY <1>3 DEF Sending
<1>6. consent' = Remember(u, v)
  BY <1>2, <1>4, <1>5 DEF HasConsent
<1>7. PICK step \in {"idle", "reads", "fills"} : Go(c, step, u) /\ (step = "fills" => v = TRUE)
  <2>1. CASE v = TRUE
    BY <1>2, <1>4, <1>5, <2>1 DEF HasConsent
  <2>2. CASE v = FALSE
    BY <1>2, <1>4, <1>5, <2>2 DEF HasConsent
  <2> QED BY <2>1, <2>2
<1>8. ASSUME v = TRUE
      PROVE  lastAgreed[u] >= 0 /\ instant - lastAgreed[u] <= MaxAwait /\ instant - lastAgreed[u] < MaxAwait + CONSENT_TTL_MS
  <2>1. PICK a \in Int : a = lastAgreed[u]
    BY DEF ConsentIInv, Agreed
  <2>2. PICK n \in Nat : n = r.since
    BY <1>3 DEF Sending
  <2>3. a >= n /\ instant - n <= MaxAwait /\ instant \in Nat
    BY <1>3, <1>4, <1>5, <1>8, <2>1, <2>2 DEF ConsentIInv
  <2> QED BY <2>1, <2>3, ConsentLimits
<1>9. consent' \in [Subjects -> Entry] /\ \A w \in Subjects : EntryOK(consent'[w], lastAgreed[w])
  BY <1>6, <1>8, RememberKeeps
<1>10. DOMAIN capturing' = Captures /\ \A d \in Captures : SendingOK(capturing'[d], instant, lastAgreed)
  BY <1>7, <1>8, GoKeeps
<1> QED BY <1>1, <1>9, <1>10 DEF ConsentIInv

\* An event is sent within the life of an entry and two awaits.
LEMMA SendsKeeps ==
  ASSUME ConsentIInv, NEW c \in Captures, Sends(c)
  PROVE  ConsentIInv'
<1>1. UNCHANGED <<instant, consentOf, consent, answering, lastAgreed>> /\ capturing[c].step = "fills"
      /\ capturing' = [capturing EXCEPT ![c] = Idle]
  BY DEF Sends
<1>2. PICK r : r = capturing[c]
  OBVIOUS
<1>3. /\ r \in Sending /\ r.since <= instant /\ instant - r.since <= MaxAwait
      /\ lastAgreed[r.of] >= 0 /\ r.since - lastAgreed[r.of] < MaxAwait + CONSENT_TTL_MS
  BY <1>1, <1>2 DEF ConsentIInv, SendingOK
<1>4. PICK a \in Int : a = lastAgreed[r.of]
  BY <1>3 DEF ConsentIInv, Agreed, Sending
<1>5. PICK n \in Nat : n = r.since
  BY <1>3 DEF Sending
<1>6. instant \in Nat
  BY DEF ConsentIInv
<1>7. ~(a = -1) /\ ~(instant - a >= Bound)
  BY <1>3, <1>4, <1>5, <1>6, ConsentLimits DEF Bound
<1>8. PICK o : o = tooLate
  OBVIOUS
<1>9. o = FALSE
  BY <1>8, Zenon DEF ConsentIInv
<1>10. tooLate' = (o \/ a = -1 \/ instant - a >= Bound)
  BY <1>2, <1>4, <1>8 DEF Sends
<1>11. tooLate' = FALSE
  BY <1>7, <1>9, <1>10
<1>12. SendingOK(Idle, instant, lastAgreed)
  BY DEF SendingOK, Idle
<1> QED BY <1>1, <1>11, <1>12 DEF ConsentIInv

\* An account agrees or withdraws: the column is written.
LEMMA StoreConsentKeeps ==
  ASSUME ConsentIInv, NEW p \in Answering, NEW u \in Subjects, NEW v \in BOOLEAN, StoreConsent(p, u, v)
  PROVE  ConsentIInv'
<1>1. /\ UNCHANGED <<instant, consent, capturing, tooLate>>
      /\ consentOf' = [consentOf EXCEPT ![u] = v]
  BY DEF StoreConsent
<1>2. PICK n : n = [step |-> "stored", since |-> instant, of |-> u, value |-> v]
  OBVIOUS
<1>3. n \in Changing /\ n.since = instant /\ n.of = u /\ n.value = v
  BY <1>2 DEF Changing, ConsentIInv
<1>4. answering' = [answering EXCEPT ![p] = n]
  BY <1>2 DEF StoreConsent
<1>5. PICK b \in BOOLEAN : b = consentOf[u]
  BY DEF ConsentIInv
<1>6. instant \in Nat /\ Agreed(lastAgreed, instant)
  BY DEF ConsentIInv
<1>7. /\ Agreed(lastAgreed', instant) /\ \A w \in Subjects : lastAgreed[w] <= lastAgreed'[w]
      /\ \A w \in Subjects : lastAgreed[w] = instant => lastAgreed'[w] = instant
      /\ v = TRUE => lastAgreed'[u] = instant
  <2>1. CASE v \/ b
    <3>1. lastAgreed' = [lastAgreed EXCEPT ![u] = instant]
      BY <1>5, <2>1 DEF StoreConsent
    <3> QED BY <1>6, <3>1 DEF Agreed
  <2>2. CASE ~(v \/ b)
    <3>1. lastAgreed' = lastAgreed
      BY <1>5, <2>2 DEF StoreConsent
    <3> QED BY <1>6, <2>2, <3>1 DEF Agreed
  <2> QED BY <2>1, <2>2
<1>8. /\ \A r : SendingOK(r, instant, lastAgreed) => SendingOK(r, instant, lastAgreed')
      /\ \A r : ChangingOK(r, instant, lastAgreed) => ChangingOK(r, instant, lastAgreed')
      /\ \A e \in Entry, w \in Subjects : EntryOK(e, lastAgreed[w]) => EntryOK(e, lastAgreed'[w])
  BY <1>6, <1>7, AgreedLater
<1>9. consentOf' \in [Subjects -> BOOLEAN]
  BY <1>1 DEF ConsentIInv
<1>10. ASSUME NEW w \in Subjects, consentOf'[w] = TRUE PROVE lastAgreed'[w] = instant
  <2>1. CASE w = u
    <3>1. consentOf'[w] = v
      BY <1>1, <2>1 DEF ConsentIInv
    <3> QED BY <1>7, <1>10, <2>1, <3>1
  <2>2. CASE w # u
    <3>1. consentOf'[w] = consentOf[w]
      BY <1>1, <2>2 DEF ConsentIInv
    <3> QED BY <1>7, <1>10, <3>1 DEF ConsentIInv
  <2> QED BY <2>1, <2>2
<1>11. ChangingOK(n, instant, lastAgreed')
  <2>1. n.since <= instant /\ instant - n.since <= MaxAwait
    BY <1>3, <1>6, ConsentLimits
  <2>2. n.value = TRUE => lastAgreed'[n.of] >= n.since
    <3>1. lastAgreed'[u] = instant => lastAgreed'[u] >= instant
      BY <1>6
    <3> QED BY <1>3, <1>7, <3>1
  <2> QED BY <1>3, <2>1, <2>2 DEF ChangingOK
<1>12. DOMAIN answering' = Answering /\ \A q \in Answering : ChangingOK(answering'[q], instant, lastAgreed')
  BY <1>4, <1>8, <1>11 DEF ConsentIInv
<1>13. \A c \in Captures : SendingOK(capturing[c], instant, lastAgreed')
  BY <1>8 DEF ConsentIInv
<1>14. \A w \in Subjects : EntryOK(consent[w], lastAgreed'[w])
  BY <1>8 DEF ConsentIInv
<1> QED BY <1>1, <1>6, <1>7, <1>9, <1>10, <1>12, <1>13, <1>14 DEF ConsentIInv

\* The new answer is remembered, and a sign-up is counted.
LEMMA ConsentChangedKeeps ==
  ASSUME ConsentIInv, NEW p \in Answering, ConsentChanged(p)
  PROVE  ConsentIInv'
<1>1. /\ UNCHANGED <<instant, consentOf, lastAgreed, tooLate>> /\ answering[p].step = "stored"
      /\ answering' = [answering EXCEPT ![p] = Idle]
  BY DEF ConsentChanged
<1>2. PICK r : r = answering[p]
  OBVIOUS
<1>3. /\ r \in Changing /\ r.since <= instant /\ instant - r.since <= MaxAwait
      /\ r.value = TRUE => lastAgreed[r.of] >= r.since
  BY <1>1, <1>2 DEF ConsentIInv, ChangingOK
<1>4. PICK v \in BOOLEAN : v = r.value
  BY <1>3 DEF Changing
<1>5. PICK u \in Subjects : u = r.of
  BY <1>3 DEF Changing
<1>6. consent' = Remember(u, v)
  BY <1>2, <1>4, <1>5 DEF ConsentChanged
<1>7. UNCHANGED capturing \/ (v = TRUE /\ \E c \in Captures : Go(c, "fills", u))
  <2>1. CASE v = TRUE
    BY <1>2, <1>4, <1>5, <2>1 DEF ConsentChanged
  <2>2. CASE v = FALSE
    BY <1>2, <1>4, <1>5, <2>2 DEF ConsentChanged
  <2> QED BY <2>1, <2>2
<1>8. ASSUME v = TRUE
      PROVE  lastAgreed[u] >= 0 /\ instant - lastAgreed[u] <= MaxAwait /\ instant - lastAgreed[u] < MaxAwait + CONSENT_TTL_MS
  <2>1. PICK a \in Int : a = lastAgreed[u]
    BY DEF ConsentIInv, Agreed
  <2>2. PICK n \in Nat : n = r.since
    BY <1>3 DEF Changing
  <2>3. a >= n /\ instant - n <= MaxAwait /\ instant \in Nat
    BY <1>3, <1>4, <1>5, <1>8, <2>1, <2>2 DEF ConsentIInv
  <2> QED BY <2>1, <2>3, ConsentLimits
<1>9. consent' \in [Subjects -> Entry] /\ \A w \in Subjects : EntryOK(consent'[w], lastAgreed[w])
  BY <1>6, <1>8, RememberKeeps
<1>10. DOMAIN capturing' = Captures /\ \A d \in Captures : SendingOK(capturing'[d], instant, lastAgreed)
  BY <1>7, <1>8, GoKeeps DEF ConsentIInv
<1>11. ChangingOK(Idle, instant, lastAgreed)
  BY DEF ChangingOK, Idle
<1> QED BY <1>1, <1>9, <1>10, <1>11 DEF ConsentIInv

\* The memory is empty and nothing runs.
LEMMA AnalyticsRestartsKeeps ==
  ASSUME ConsentIInv, AnalyticsRestarts
  PROVE  ConsentIInv'
<1>1. /\ UNCHANGED <<instant, consentOf, lastAgreed, tooLate>>
      /\ consent' = [u \in Subjects |-> [known |-> FALSE, value |-> FALSE, at |-> 0]]
      /\ DOMAIN capturing' = Captures /\ DOMAIN answering' = Answering
      /\ \A c \in Captures : capturing'[c].step = "idle"
      /\ \A p \in Answering : answering'[p].step = "idle"
  BY DEF AnalyticsRestarts, Idle
<1>2. consent' \in [Subjects -> Entry]
  BY <1>1 DEF Entry
<1>3. \A u \in Subjects : consent'[u].known = FALSE
  BY <1>1
<1>4. \A u \in Subjects : EntryOK(consent'[u], lastAgreed[u])
  BY <1>3, Zenon DEF EntryOK
<1> QED BY <1>1, <1>2, <1>4 DEF ConsentIInv, SendingOK, ChangingOK

\* Time passes while no await takes longer than it may.
LEMMA PassesKeeps ==
  ASSUME ConsentIInv, Passes
  PROVE  ConsentIInv'
<1>1. /\ UNCHANGED <<consentOf, consent, capturing, answering, tooLate>> /\ instant' = instant + 1
      /\ lastAgreed' = [u \in Subjects |-> IF consentOf[u] THEN instant + 1 ELSE lastAgreed[u]]
  BY DEF Passes
<1>2. instant \in Nat /\ instant + 1 \in Nat /\ Agreed(lastAgreed, instant) /\ consentOf \in [Subjects -> BOOLEAN]
  BY DEF ConsentIInv
<1>3. ASSUME NEW u \in Subjects
      PROVE  /\ lastAgreed'[u] \in Int /\ lastAgreed[u] <= lastAgreed'[u] /\ lastAgreed'[u] <= instant + 1
             /\ consentOf[u] = TRUE => lastAgreed'[u] = instant + 1
  <2>1. PICK b \in BOOLEAN : b = consentOf[u]
    BY <1>2
  <2>2. PICK a \in Int : a = lastAgreed[u] /\ a <= instant
    BY <1>2 DEF Agreed
  <2>3. lastAgreed'[u] = IF b THEN instant + 1 ELSE a
    BY <1>1, <2>1, <2>2
  <2> QED BY <1>2, <2>1, <2>2, <2>3
<1>4. Agreed(lastAgreed', instant + 1)
  BY <1>1, <1>3 DEF Agreed
<1>5. /\ \A r : SendingOK(r, instant, lastAgreed) => SendingOK(r, instant, lastAgreed')
      /\ \A r : ChangingOK(r, instant, lastAgreed) => ChangingOK(r, instant, lastAgreed')
      /\ \A e \in Entry, w \in Subjects : EntryOK(e, lastAgreed[w]) => EntryOK(e, lastAgreed'[w])
  BY <1>2, <1>3, <1>4, AgreedLater
<1>6. ASSUME NEW c \in Captures PROVE SendingOK(capturing[c], instant + 1, lastAgreed')
  <2>1. SendingOK(capturing[c], instant, lastAgreed')
    BY <1>5 DEF ConsentIInv
  <2>2. SUFFICES ASSUME capturing[c].step # "idle" PROVE SendingOK(capturing[c], instant + 1, lastAgreed')
    BY DEF SendingOK
  <2>3. PICK n \in Nat : n = capturing[c].since
    BY <2>1, <2>2 DEF SendingOK, Sending
  <2>4. n <= instant /\ instant - n < MaxAwait
    BY <2>1, <2>2, <2>3 DEF Passes, SendingOK
  <2>5. n <= instant + 1 /\ instant + 1 - n <= MaxAwait
    BY <1>2, <2>4, ConsentLimits
  <2>6. PICK r : r = capturing[c]
    OBVIOUS
  <2>7. PICK w \in Nat : w = instant + 1
    BY <1>2
  <2>8. r.since <= w /\ w - r.since <= MaxAwait
    <3>1. n <= w /\ w - n <= MaxAwait
      BY <1>2, <2>5, <2>7, ConsentLimits
    <3>2. r.since = n
      BY <2>3, <2>6
    <3> QED BY <3>1, <3>2
  <2>9. SendingOK(r, instant, lastAgreed') /\ r.step # "idle"
    BY <2>1, <2>2, <2>6
  <2>10. SendingOK(r, w, lastAgreed')
    BY <2>8, <2>9 DEF SendingOK
  <2> QED BY <2>6, <2>7, <2>10
<1>7. ASSUME NEW p \in Answering PROVE ChangingOK(answering[p], instant + 1, lastAgreed')
  <2>1. ChangingOK(answering[p], instant, lastAgreed')
    BY <1>5 DEF ConsentIInv
  <2>2. SUFFICES ASSUME answering[p].step # "idle" PROVE ChangingOK(answering[p], instant + 1, lastAgreed')
    BY DEF ChangingOK
  <2>3. PICK n \in Nat : n = answering[p].since
    BY <2>1, <2>2 DEF ChangingOK, Changing
  <2>4. n <= instant /\ instant - n < MaxAwait
    BY <2>1, <2>2, <2>3 DEF Passes, ChangingOK
  <2>5. n <= instant + 1 /\ instant + 1 - n <= MaxAwait
    BY <1>2, <2>4, ConsentLimits
  <2>6. PICK r : r = answering[p]
    OBVIOUS
  <2>7. PICK w \in Nat : w = instant + 1
    BY <1>2
  <2>8. r.since <= w /\ w - r.since <= MaxAwait
    <3>1. n <= w /\ w - n <= MaxAwait
      BY <1>2, <2>5, <2>7, ConsentLimits
    <3>2. r.since = n
      BY <2>3, <2>6
    <3> QED BY <3>1, <3>2
  <2>9. ChangingOK(r, instant, lastAgreed') /\ r.step # "idle"
    BY <2>1, <2>2, <2>6
  <2>10. ChangingOK(r, w, lastAgreed')
    BY <2>8, <2>9 DEF ChangingOK
  <2> QED BY <2>6, <2>7, <2>10
<1>8. \A w \in Subjects : EntryOK(consent[w], lastAgreed'[w])
  BY <1>5 DEF ConsentIInv
<1> QED BY <1>1, <1>2, <1>3, <1>4, <1>6, <1>7, <1>8 DEF ConsentIInv

\* Every operation of the analytics.
LEMMA ConsentStep == ConsentIInv /\ [ConsentCacheNext]_consentCacheVars => ConsentIInv'
<1> SUFFICES ASSUME ConsentIInv, [ConsentCacheNext]_consentCacheVars PROVE ConsentIInv'
  OBVIOUS
<1>1. CASE UNCHANGED consentCacheVars
  BY <1>1 DEF consentCacheVars, ConsentIInv
<1> QED BY <1>1, CaptureKeeps, ReadConsentKeeps, HasConsentKeeps, SendsKeeps, StoreConsentKeeps, ConsentChangedKeeps,
           AnalyticsRestartsKeeps, PassesKeeps, Zenon DEF ConsentCacheNext

\* No event was sent too late.
LEMMA ConsentHolds == ConsentIInv => WithdrawalHolds
<1> SUFFICES ASSUME ConsentIInv PROVE WithdrawalHolds
  OBVIOUS
<1>1. tooLate = FALSE
  BY DEF ConsentIInv
<1> QED BY <1>1, Zenon DEF WithdrawalHolds

-----------------------------------------------------------------------------
(* The super admins.  While no removal was written on reads older than     *)
(* another's write, what a running removal has read is how the account is, *)
(* and one that was let through leaves another super admin.                *)

Row == Account \cup {NoAccount}
AccountsTyped == account \in [Emails -> Row] /\ adminRequest \in [Admins -> RequestRecord \cup {NotAsking}]

\* r is a removal that has read how its account is in acc, the rows of all accounts.
AdminsOf(acc) == {e \in Emails : acc[e] # NoAccount /\ acc[e].role = "super_admin" /\ acc[e].locked = FALSE}
ReadAsIs(r, acc) ==
  r.step \in {"found", "counted"} /\ r.change \in Removals /\ r.stale = FALSE =>
    /\ acc[r.target] # NoAccount /\ acc[r.target].role = r.user.role /\ acc[r.target].locked = r.user.locked
    /\ r.step = "counted" /\ r.target \in AdminsOf(acc) => \E e \in AdminsOf(acc) : e # r.target

AdminIInv ==
  /\ AccountsTyped
  /\ adminsCrossed = FALSE =>
       AdminsOf(account) # {} /\ \A a \in Admins : ReadAsIs(adminRequest[a], account)
  /\ adminsCrossed \in BOOLEAN

\* old's accounts are all there in acc, with their roles and locks.
KeepsRights(old, acc) ==
  \A e \in Emails : old[e] # NoAccount =>
    acc[e] # NoAccount /\ acc[e].role = old[e].role /\ acc[e].locked = old[e].locked

\* Rows of accounts, and what the requests have read of them.
LEMMA RowsAreTyped ==
  /\ New \in Account /\ NoAccount \notin Account
  /\ \A r \in Account : /\ r.role \in {"user", "super_admin"} /\ r.locked \in BOOLEAN
                        /\ r.verified \in BOOLEAN
  BY AccountsAssumption DEF New, Account

\* The set of the super admins who are not locked.
LEMMA ActiveIs == ASSUME AccountsTyped PROVE ActiveSuperAdmins = AdminsOf(account)
<1>1. \A e \in Emails : Registered(e) => account[e].locked \in BOOLEAN
  BY DEF AccountsTyped, Row, Registered, Account
<1>2. \A e \in Emails : Registered(e) => (~account[e].locked <=> account[e].locked = FALSE)
  BY <1>1
<1> QED BY <1>2 DEF ActiveSuperAdmins, SuperAdmins, AdminsOf, Registered

\* Rights that are kept keep what running removals have read, and the super admins.
LEMMA RightsAreKept ==
  ASSUME NEW old, NEW acc, KeepsRights(old, acc)
  PROVE  /\ AdminsOf(old) \subseteq AdminsOf(acc)
         /\ \A r \in RequestRecord : ReadAsIs(r, old) => ReadAsIs(r, acc)
<1>1. \A e \in AdminsOf(old) : e \in AdminsOf(acc)
  BY DEF KeepsRights, AdminsOf
<1>2. ASSUME NEW r \in RequestRecord, ReadAsIs(r, old), r.step \in {"found", "counted"}, r.change \in Removals, r.stale = FALSE
      PROVE  /\ acc[r.target] # NoAccount /\ acc[r.target].role = r.user.role /\ acc[r.target].locked = r.user.locked
             /\ r.step = "counted" /\ r.target \in AdminsOf(acc) => \E e \in AdminsOf(acc) : e # r.target
  <2>1. r.target \in Emails
    BY DEF RequestRecord
  <2>2. /\ old[r.target] # NoAccount /\ old[r.target].role = r.user.role /\ old[r.target].locked = r.user.locked
        /\ r.step = "counted" /\ r.target \in AdminsOf(old) => \E e \in AdminsOf(old) : e # r.target
    BY <1>2 DEF ReadAsIs
  <2>3. acc[r.target] # NoAccount /\ acc[r.target].role = old[r.target].role /\ acc[r.target].locked = old[r.target].locked
    BY <2>1, <2>2 DEF KeepsRights
  <2>4. r.target \in AdminsOf(acc) => r.target \in AdminsOf(old)
    BY <2>1, <2>2, <2>3 DEF AdminsOf
  <2> QED BY <1>1, <2>2, <2>3, <2>4
<1> QED BY <1>1, <1>2 DEF ReadAsIs

\* A row is written with the role and the lock it has.
LEMMA UpdateKeeps ==
  ASSUME AccountsTyped, NEW e \in Emails, NEW row \in Account, Update(e, row),
         account[e] # NoAccount => row.role = account[e].role /\ row.locked = account[e].locked
  PROVE  account' \in [Emails -> Row] /\ KeepsRights(account, account')
<1>1. account' = [account EXCEPT ![e] = row]
  BY DEF Update
<1>2. account' \in [Emails -> Row]
  BY <1>1 DEF AccountsTyped, Row
<1>3. row # NoAccount
  BY RowsAreTyped
<1>4. ASSUME NEW d \in Emails, account[d] # NoAccount
      PROVE  account'[d] # NoAccount /\ account'[d].role = account[d].role /\ account'[d].locked = account[d].locked
  <2>1. CASE d = e
    <3>1. account'[d] = row
      BY <1>1, <2>1 DEF AccountsTyped
    <3> QED BY <1>3, <1>4, <2>1, <3>1
  <2>2. CASE d # e
    <3>1. account'[d] = account[d]
      BY <1>1, <2>2 DEF AccountsTyped
    <3> QED BY <1>4, <3>1
  <2> QED BY <2>1, <2>2
<1> QED BY <1>2, <1>4 DEF KeepsRights

\* The account that signs in or starts the app may become super admin, while there is none.
LEMMA BootstrapKeeps ==
  ASSUME AccountsTyped, NEW e \in Emails, NEW row \in Account, Update(e, Bootstrapped(e, row)),
         account[e] # NoAccount => row.role = account[e].role /\ row.locked = account[e].locked
  PROVE  /\ account' \in [Emails -> Row]
         /\ AdminsOf(account) # {} => KeepsRights(account, account')
<1>1. CASE e = BootstrapEmail /\ SuperAdmins = {}
  <2>1. AdminsOf(account) = {}
    BY <1>1 DEF SuperAdmins, AdminsOf, Registered
  <2>2. [row EXCEPT !.role = "super_admin"] \in Account
    BY DEF Account
  <2>3. account' = [account EXCEPT ![e] = [row EXCEPT !.role = "super_admin"]]
    BY <1>1 DEF Bootstrapped, Update
  <2> QED BY <2>1, <2>2, <2>3 DEF AccountsTyped, Row
<1>2. CASE ~(e = BootstrapEmail /\ SuperAdmins = {})
  <2>1. Update(e, row)
    BY <1>2 DEF Bootstrapped
  <2> QED BY <2>1, UpdateKeeps
<1> QED BY <1>1, <1>2

\* The steps beside the super admins' requests leave the rights as they are.
LEMMA OthersKeep ==
  ASSUME AdminIInv,
         \/ \E e \in Emails :
              \/ Login(e) \/ GoogleSignIn(e) \/ Exchange(e) \/ CodeExpires(e) \/ Register(e) \/ VerifyEmail(e)
              \/ ForgotPassword(e) \/ ResetPassword(e) \/ ChangePassword(e) \/ Logout(e) \/ ThirtyDays(e)
              \/ \E w \in Workspaces : CreateWorkspace(e, w) \/ SwitchWorkspace(e, w)
              \/ \E of \in Emails, must \in BOOLEAN : CreateAccount(e, of, must) \/ ResetTempPassword(e, of, must)
  PROVE  /\ account' \in [Emails -> Row] /\ UNCHANGED <<adminRequest, adminsCrossed>>
         /\ AdminsOf(account) # {} => KeepsRights(account, account')
<1>1. AccountsTyped
  BY DEF AdminIInv
<1>2. \A e \in Emails : account[e] # NoAccount => account[e] \in Account
  BY <1>1 DEF AccountsTyped, Row
<1>3. ASSUME NEW e \in Emails, Exchange(e) \/ CodeExpires(e) \/ Logout(e) \/ \E w \in Workspaces : CreateWorkspace(e, w)
      PROVE  account' \in [Emails -> Row] /\ UNCHANGED <<adminRequest, adminsCrossed>> /\ KeepsRights(account, account')
  <2>1. UNCHANGED <<account, adminRequest, adminsCrossed>>
    BY <1>3 DEF Exchange, CodeExpires, Logout, CreateWorkspace
  <2> QED BY <1>1, <2>1 DEF AccountsTyped, KeepsRights
<1>4. ASSUME NEW e \in Emails, Login(e)
      PROVE  /\ account' \in [Emails -> Row] /\ UNCHANGED <<adminRequest, adminsCrossed>>
             /\ AdminsOf(account) # {} => KeepsRights(account, account')
  <2>1. account[e] # NoAccount /\ Update(e, Bootstrapped(e, account[e])) /\ UNCHANGED <<adminRequest, adminsCrossed>>
    BY <1>4 DEF Login, Registered
  <2> QED BY <1>1, <1>2, <2>1, BootstrapKeeps
<1>5. ASSUME NEW e \in Emails, GoogleSignIn(e)
      PROVE  /\ account' \in [Emails -> Row] /\ UNCHANGED <<adminRequest, adminsCrossed>>
             /\ AdminsOf(account) # {} => KeepsRights(account, account')
  <2>1. PICK row : row = IF Registered(e) THEN [account[e] EXCEPT !.verified = TRUE, !.mustChange = FALSE]
                         ELSE [New EXCEPT !.verified = TRUE, !.password = "none"]
    OBVIOUS
  <2>2. Update(e, Bootstrapped(e, row)) /\ UNCHANGED <<adminRequest, adminsCrossed>>
    BY <1>5, <2>1 DEF GoogleSignIn
  <2>3. row \in Account /\ (account[e] # NoAccount => row.role = account[e].role /\ row.locked = account[e].locked)
    <3>1. CASE Registered(e)
      <4>1. row = [account[e] EXCEPT !.verified = TRUE, !.mustChange = FALSE] /\ account[e] \in Account
        BY <1>2, <2>1, <3>1 DEF Registered
      <4> QED BY <4>1 DEF Account
    <3>2. CASE ~Registered(e)
      <4>1. row = [New EXCEPT !.verified = TRUE, !.password = "none"] /\ New \in Account
        BY <2>1, <3>2, RowsAreTyped
      <4>2. row \in Account
        BY <4>1 DEF Account
      <4> QED BY <3>2, <4>2 DEF Registered
    <3> QED BY <3>1, <3>2
  <2> QED BY <1>1, <2>2, <2>3, BootstrapKeeps
<1>6. ASSUME NEW e \in Emails, NEW row \in Account, Update(e, row), UNCHANGED <<adminRequest, adminsCrossed>>,
             account[e] # NoAccount => row.role = account[e].role /\ row.locked = account[e].locked
      PROVE  account' \in [Emails -> Row] /\ UNCHANGED <<adminRequest, adminsCrossed>> /\ KeepsRights(account, account')
  BY <1>1, <1>6, UpdateKeeps
<1>7. ASSUME NEW e \in Emails,
             VerifyEmail(e) \/ ForgotPassword(e) \/ ResetPassword(e) \/ ThirtyDays(e)
             \/ ChangePassword(e) \/ (\E w \in Workspaces : SwitchWorkspace(e, w))
      PROVE  \E row \in Account : /\ Update(e, row) /\ UNCHANGED <<adminRequest, adminsCrossed>>
                                  /\ account[e] # NoAccount => row.role = account[e].role /\ row.locked = account[e].locked
  <2>0. account[e] \in Account /\ account[e] # NoAccount
    BY <1>2, <1>7 DEF VerifyEmail, ForgotPassword, ResetPassword, ThirtyDays, ChangePassword, SwitchWorkspace, MayAct,
                      Validated, Registered
  <2>1. CASE VerifyEmail(e)
    <3> DEFINE row == [account[e] EXCEPT !.verified = TRUE]
    <3>1. row \in Account /\ row.role = account[e].role /\ row.locked = account[e].locked
      BY <2>0 DEF Account
    <3> QED BY <2>1, <3>1 DEF VerifyEmail
  <2>2. CASE ForgotPassword(e)
    <3> DEFINE row == [account[e] EXCEPT !.reset = TRUE]
    <3>1. row \in Account /\ row.role = account[e].role /\ row.locked = account[e].locked
      BY <2>0 DEF Account
    <3> QED BY <2>2, <3>1 DEF ForgotPassword
  <2>3. CASE ResetPassword(e)
    <3> DEFINE row == [account[e] EXCEPT !.password = "own", !.reset = FALSE]
    <3>1. row \in Account /\ row.role = account[e].role /\ row.locked = account[e].locked
      BY <2>0 DEF Account
    <3> QED BY <2>3, <3>1 DEF ResetPassword
  <2>4. CASE ThirtyDays(e)
    <3> DEFINE row == [account[e] EXCEPT !.expires = "past"]
    <3>1. row \in Account /\ row.role = account[e].role /\ row.locked = account[e].locked
      BY <2>0 DEF Account
    <3> QED BY <2>4, <3>1 DEF ThirtyDays
  <2>5. CASE ChangePassword(e)
    <3> DEFINE row == [account[e] EXCEPT !.password = "own", !.mustChange = FALSE, !.expires = "never", !.reset = FALSE]
    <3>1. row \in Account /\ row.role = account[e].role /\ row.locked = account[e].locked
      BY <2>0 DEF Account
    <3> QED BY <2>5, <3>1 DEF ChangePassword
  <2>6. ASSUME NEW w \in Workspaces, SwitchWorkspace(e, w)
        PROVE  \E row \in Account : /\ Update(e, row) /\ UNCHANGED <<adminRequest, adminsCrossed>>
                                    /\ account[e] # NoAccount => row.role = account[e].role /\ row.locked = account[e].locked
    <3> DEFINE row == [account[e] EXCEPT !.active = w]
    <3>1. row \in Account /\ row.role = account[e].role /\ row.locked = account[e].locked
      BY <2>0 DEF Account
    <3> QED BY <2>6, <3>1 DEF SwitchWorkspace
  <2> QED BY <1>7, <2>1, <2>2, <2>3, <2>4, <2>5, <2>6
<1>8. ASSUME NEW e \in Emails, Register(e)
      PROVE  \E row \in Account : /\ Update(e, row) /\ UNCHANGED <<adminRequest, adminsCrossed>>
                                  /\ account[e] # NoAccount => row.role = account[e].role /\ row.locked = account[e].locked
  BY <1>8, RowsAreTyped DEF Register, Registered
<1>9. ASSUME NEW d \in Emails, NEW e \in Emails, NEW must \in BOOLEAN, CreateAccount(d, e, must)
      PROVE  \E row \in Account : /\ Update(e, row) /\ UNCHANGED <<adminRequest, adminsCrossed>>
                                  /\ account[e] # NoAccount => row.role = account[e].role /\ row.locked = account[e].locked
  <2>1. PICK v \in BOOLEAN :
          Update(e, [New EXCEPT !.password = "temp", !.verified = v, !.mustChange = must, !.expires = "later"])
    BY <1>9 DEF CreateAccount
  <2>2. [New EXCEPT !.password = "temp", !.verified = v, !.mustChange = must, !.expires = "later"] \in Account
    BY RowsAreTyped DEF Account
  <2>3. account[e] = NoAccount /\ UNCHANGED <<adminRequest, adminsCrossed>>
    BY <1>9 DEF CreateAccount, Registered
  <2> QED BY <2>1, <2>2, <2>3
<1>10. ASSUME NEW d \in Emails, NEW e \in Emails, NEW must \in BOOLEAN, ResetTempPassword(d, e, must)
       PROVE  \E row \in Account : /\ Update(e, row) /\ UNCHANGED <<adminRequest, adminsCrossed>>
                                   /\ account[e] # NoAccount => row.role = account[e].role /\ row.locked = account[e].locked
  <2>1. account[e] \in Account
    BY <1>2, <1>10 DEF ResetTempPassword, Registered
  <2> DEFINE row == [account[e] EXCEPT !.password = "temp", !.mustChange = must, !.expires = "later", !.reset = FALSE]
  <2>2. row \in Account /\ row.role = account[e].role /\ row.locked = account[e].locked
    BY <2>1 DEF Account
  <2> QED BY <1>10, <2>2 DEF ResetTempPassword
<1>11. ASSUME NEW e \in Emails,
              \E row \in Account : /\ Update(e, row) /\ UNCHANGED <<adminRequest, adminsCrossed>>
                                   /\ account[e] # NoAccount => row.role = account[e].role /\ row.locked = account[e].locked
       PROVE  account' \in [Emails -> Row] /\ UNCHANGED <<adminRequest, adminsCrossed>> /\ KeepsRights(account, account')
  BY <1>6, <1>11
<1> QED BY <1>3, <1>4, <1>5, <1>7, <1>8, <1>9, <1>10, <1>11

\* Those steps keep the invariant.
LEMMA OthersKeepInv ==
  ASSUME AdminIInv, account' \in [Emails -> Row], UNCHANGED <<adminRequest, adminsCrossed>>,
         AdminsOf(account) # {} => KeepsRights(account, account')
  PROVE  AdminIInv'
<1>1. AccountsTyped'
  BY DEF AdminIInv, AccountsTyped
<1>2. ASSUME adminsCrossed = FALSE
      PROVE  AdminsOf(account') # {} /\ \A a \in Admins : ReadAsIs(adminRequest[a], account')
  <2>1. AdminsOf(account) # {} /\ \A a \in Admins : ReadAsIs(adminRequest[a], account)
    BY <1>2 DEF AdminIInv
  <2>2. KeepsRights(account, account')
    BY <2>1
  <2>3. \A a \in Admins : adminRequest[a] \in RequestRecord \/ adminRequest[a] = NotAsking
    BY DEF AdminIInv, AccountsTyped
  <2>4. ReadAsIs(NotAsking, account')
    BY DEF ReadAsIs, NotAsking
  <2> QED BY <2>1, <2>2, <2>3, <2>4, RightsAreKept
<1> QED BY <1>1, <1>2 DEF AdminIInv

\* A request that is answered, or has just been taken.
LEMMA RequestChanges ==
  ASSUME AdminIInv, NEW a \in Admins, NEW r \in RequestRecord \cup {NotAsking},
         adminRequest' = [adminRequest EXCEPT ![a] = r], UNCHANGED <<account, adminsCrossed>>,
         adminsCrossed = FALSE => ReadAsIs(r, account)
  PROVE  AdminIInv'
<1>1. AccountsTyped'
  BY DEF AdminIInv, AccountsTyped
<1>2. ASSUME adminsCrossed = FALSE PROVE \A b \in Admins : ReadAsIs(adminRequest'[b], account)
  BY <1>2 DEF AdminIInv, AccountsTyped
<1> QED BY <1>1, <1>2 DEF AdminIInv

\* An admin who asks nothing has read nothing.
LEMMA NotAskingReads == NotAsking.step = "idle" /\ \A acc : ReadAsIs(NotAsking, acc)
  BY DEF ReadAsIs, NotAsking

\* A request passes the guards.
LEMMA AdminAsksKeeps ==
  ASSUME AdminIInv, NEW a \in Admins, NEW e \in Emails, NEW target \in Emails, NEW change \in AccountChanges,
         AdminAsks(a, e, target, change)
  PROVE  AdminIInv'
<1>1. PICK r : r = [step |-> "guarded", actor |-> e, target |-> target, change |-> change, user |-> New, stale |-> FALSE]
  OBVIOUS
<1>2. r \in RequestRecord /\ r.step = "guarded"
  BY <1>1, RowsAreTyped DEF RequestRecord
<1>3. adminRequest' = [adminRequest EXCEPT ![a] = r] /\ UNCHANGED <<account, adminsCrossed>>
  BY <1>1 DEF AdminAsks
<1>4. ReadAsIs(r, account)
  BY <1>2 DEF ReadAsIs
<1> QED BY <1>2, <1>3, <1>4, RequestChanges

\* A request reads its target.
LEMMA FindKeeps ==
  ASSUME AdminIInv, NEW a \in Admins, Find(a)
  PROVE  AdminIInv'
<1>1. PICK r : r = adminRequest[a] /\ r.step = "guarded"
  BY DEF Find
<1>2. r \in RequestRecord /\ UNCHANGED <<account, adminsCrossed>>
  BY <1>1, NotAskingReads DEF Find, AdminIInv, AccountsTyped
<1>3. CASE adminRequest' = [adminRequest EXCEPT ![a] = NotAsking]
  BY <1>2, <1>3, NotAskingReads, RequestChanges
<1>4. CASE ~(adminRequest' = [adminRequest EXCEPT ![a] = NotAsking])
  <2>1. ~(~Registered(r.target) \/ (r.target = r.actor /\ r.change \in Removals))
    BY <1>1, <1>4 DEF Find, AnswerAdmin
  <2>2. PICK step \in {"found", "counted"} : step = IF r.change \in Removals THEN "found" ELSE "counted"
    OBVIOUS
  <2>3. PICK n : n = [r EXCEPT !.user = account[r.target], !.step = step]
    OBVIOUS
  <2>4. adminRequest' = [adminRequest EXCEPT ![a] = n]
    BY <1>1, <2>1, <2>2, <2>3 DEF Find, AdminIInv, AccountsTyped
  <2>5. r.target \in Emails /\ account[r.target] \in Account /\ account[r.target] # NoAccount
    BY <1>2, <2>1 DEF RequestRecord, AdminIInv, AccountsTyped, Row, Registered
  <2>6. /\ n \in RequestRecord /\ n.step = step /\ n.user = account[r.target] /\ n.target = r.target
        /\ n.change = r.change
    BY <1>2, <2>3, <2>5 DEF RequestRecord
  <2>7. ReadAsIs(n, account)
    BY <2>2, <2>5, <2>6 DEF ReadAsIs
  <2> QED BY <1>2, <2>4, <2>6, <2>7, RequestChanges
<1> QED BY <1>3, <1>4

\* A request counts the super admins.
LEMMA AssertKeeps ==
  ASSUME AdminIInv, NEW a \in Admins, AssertNotLastSuperAdmin(a)
  PROVE  AdminIInv'
<1>1. PICK r : r = adminRequest[a] /\ r.step = "found"
  BY DEF AssertNotLastSuperAdmin
<1>2. r \in RequestRecord /\ UNCHANGED <<account, adminsCrossed>>
  BY <1>1, NotAskingReads DEF AssertNotLastSuperAdmin, AdminIInv, AccountsTyped
<1>3. CASE adminRequest' = [adminRequest EXCEPT ![a] = NotAsking]
  BY <1>2, <1>3, NotAskingReads, RequestChanges
<1>4. CASE ~(adminRequest' = [adminRequest EXCEPT ![a] = NotAsking])
  <2>1. ~RemovesLastSuperAdmin(r.user, Cardinality(ActiveSuperAdmins))
    BY <1>1, <1>4 DEF AssertNotLastSuperAdmin, AnswerAdmin
  <2>2. PICK n : n = [r EXCEPT !.step = "counted"]
    OBVIOUS
  <2>3. adminRequest' = [adminRequest EXCEPT ![a] = n]
    BY <1>1, <2>1, <2>2 DEF AssertNotLastSuperAdmin, AdminIInv, AccountsTyped
  <2>4. /\ n \in RequestRecord /\ n.step = "counted" /\ n.user = r.user /\ n.target = r.target /\ n.change = r.change
        /\ n.stale = r.stale /\ r.target \in Emails
    BY <1>2, <2>2 DEF RequestRecord
  <2>5. ASSUME adminsCrossed = FALSE, n.change \in Removals, n.stale = FALSE
        PROVE  /\ account[n.target] # NoAccount /\ account[n.target].role = n.user.role
               /\ account[n.target].locked = n.user.locked
               /\ n.target \in AdminsOf(account) => \E e \in AdminsOf(account) : e # n.target
    <3>1. /\ account[r.target] # NoAccount /\ account[r.target].role = r.user.role
          /\ account[r.target].locked = r.user.locked
      BY <1>1, <2>4, <2>5 DEF AdminIInv, ReadAsIs
    <3>2. ASSUME n.target \in AdminsOf(account), \A e \in AdminsOf(account) : e = n.target PROVE FALSE
      <4>1. AdminsOf(account) = {n.target}
        BY <3>2
      <4>2. Cardinality(ActiveSuperAdmins) = 1
        BY <4>1, ActiveIs, FS_Singleton DEF AdminIInv
      <4>3. account[n.target].role = "super_admin" /\ account[n.target].locked = FALSE
        BY <3>2 DEF AdminsOf
      <4>4. r.user.role = "super_admin" /\ r.user.locked = FALSE
        BY <2>4, <3>1, <4>3
      <4>5. ~r.user.locked
        BY <4>4, Zenon
      <4> QED BY <2>1, <4>2, <4>4, <4>5 DEF RemovesLastSuperAdmin
    <3> QED BY <2>4, <3>1, <3>2
  <2>6. adminsCrossed = FALSE => ReadAsIs(n, account)
    BY <2>4, <2>5 DEF ReadAsIs
  <2> QED BY <1>2, <2>3, <2>4, <2>6, RequestChanges
<1> QED BY <1>3, <1>4

\* What a change leaves: a removal takes one account from the super admins, nothing else any.
LEMMA ChangeLeaves ==
  ASSUME AccountsTyped, NEW t \in Emails, account[t] \in Account, NEW change \in AccountChanges,
         Update(t, AccountChanged(account[t], change))
  PROVE  /\ account' \in [Emails -> Row]
         /\ \A e \in AdminsOf(account) : e # t \/ change \notin Removals => e \in AdminsOf(account')
<1>1. PICK row : row = AccountChanged(account[t], change)
  OBVIOUS
<1>2. account' = [account EXCEPT ![t] = row]
  BY <1>1 DEF Update
<1>3. row \in Row
  <2>1. PICK x \in Account : x = account[t]
    OBVIOUS
  <2>2. CASE change = "demote"
    BY <1>1, <2>1, <2>2 DEF AccountChanged, Account, Row
  <2>3. CASE change = "promote"
    BY <1>1, <2>1, <2>3 DEF AccountChanged, Account, Row
  <2>4. CASE change = "lock"
    BY <1>1, <2>1, <2>4 DEF AccountChanged, Account, Row
  <2>5. CASE change = "unlock"
    BY <1>1, <2>1, <2>5 DEF AccountChanged, Account, Row
  <2>6. CASE change = "verify"
    BY <1>1, <2>1, <2>6 DEF AccountChanged, Account, Row
  <2>7. CASE change = "unverify"
    BY <1>1, <2>1, <2>7 DEF AccountChanged, Account, Row
  <2>8. CASE change = "delete"
    BY <1>1, <2>8 DEF AccountChanged, Row
  <2> QED BY <2>2, <2>3, <2>4, <2>5, <2>6, <2>7, <2>8 DEF AccountChanges, Removals
<1>4. ASSUME NEW e \in AdminsOf(account), e # t PROVE e \in AdminsOf(account')
  BY <1>2, <1>4 DEF AdminsOf, AccountsTyped
<1>5. ASSUME t \in AdminsOf(account), change \notin Removals PROVE t \in AdminsOf(account')
  <2>1. PICK x \in Account : x = account[t] /\ x.role = "super_admin" /\ x.locked = FALSE
    BY <1>5 DEF AdminsOf
  <2>2. change \in {"promote", "unlock", "verify", "unverify"}
    BY <1>5 DEF AccountChanges, Removals
  <2>3. row \in Account /\ row.role = "super_admin" /\ row.locked = FALSE
    <3>1. CASE change = "promote"
      BY <1>1, <2>1, <3>1 DEF AccountChanged, Account
    <3>2. CASE change = "unlock"
      BY <1>1, <2>1, <3>2 DEF AccountChanged, Account
    <3>3. CASE change = "verify"
      BY <1>1, <2>1, <3>3 DEF AccountChanged, Account
    <3>4. CASE change = "unverify"
      BY <1>1, <2>1, <3>4 DEF AccountChanged, Account
    <3> QED BY <2>2, <3>1, <3>2, <3>3, <3>4
  <2>4. row # NoAccount /\ account'[t] = row
    BY <1>2, <2>3, RowsAreTyped DEF AccountsTyped
  <2> QED BY <2>3, <2>4 DEF AdminsOf
<1> QED BY <1>2, <1>3, <1>4, <1>5 DEF AccountsTyped

\* Whoever had read before the write has read what may have changed.
LEMMA WriteKeeps ==
  ASSUME AdminIInv, NEW a \in Admins, WriteChange(a)
  PROVE  AdminIInv'
<1>1. PICK r : r = adminRequest[a] /\ r.step = "counted"
  BY DEF WriteChange
<1>2. r \in RequestRecord
  BY <1>1, NotAskingReads DEF AdminIInv, AccountsTyped
<1>3. CASE ~Registered(r.target)
  <2>1. UNCHANGED <<account, adminsCrossed>> /\ adminRequest' = [adminRequest EXCEPT ![a] = NotAsking]
    BY <1>1, <1>3 DEF WriteChange, AnswerAdmin
  <2> QED BY <2>1, NotAskingReads, RequestChanges
<1>4. CASE Registered(r.target)
  <2>1. /\ Update(r.target, AccountChanged(account[r.target], r.change))
        /\ adminsCrossed' = (adminsCrossed \/ (r.change \in Removals /\ r.stale))
        /\ adminRequest' = [b \in Admins |->
             CASE b = a -> NotAsking
               [] b # a /\ adminRequest[b].step \in {"found", "counted"} -> [adminRequest[b] EXCEPT !.stale = TRUE]
               [] OTHER -> adminRequest[b]]
    BY <1>1, <1>4 DEF WriteChange
  <2>2. r.target \in Emails /\ account[r.target] \in Account /\ r.change \in AccountChanges /\ AccountsTyped
    BY <1>2, <1>4 DEF RequestRecord, AdminIInv, AccountsTyped, Row, Registered
  <2>3. /\ account' \in [Emails -> Row]
        /\ \A e \in AdminsOf(account) : e # r.target \/ r.change \notin Removals => e \in AdminsOf(account')
    BY <2>1, <2>2, ChangeLeaves
  <2>4. ASSUME NEW b \in Admins
        PROVE  adminRequest'[b] \in RequestRecord \cup {NotAsking} /\ ReadAsIs(adminRequest'[b], account')
    <3>0. adminRequest[b] \in RequestRecord \cup {NotAsking}
      BY <2>2 DEF AccountsTyped
    <3>1. CASE b = a
      <4>1. adminRequest'[b] = NotAsking
        BY <2>1, <3>1
      <4> QED BY <4>1, NotAskingReads
    <3>2. CASE b # a /\ adminRequest[b].step \in {"found", "counted"}
      <4>1. PICK q \in RequestRecord : q = adminRequest[b]
        BY <3>0, <3>2, NotAskingReads
      <4>2. adminRequest'[b] = [q EXCEPT !.stale = TRUE]
        BY <2>1, <3>2, <4>1
      <4>3. adminRequest'[b] \in RequestRecord /\ adminRequest'[b].stale = TRUE
        BY <4>1, <4>2 DEF RequestRecord
      <4> QED BY <4>3 DEF ReadAsIs
    <3>3. CASE b # a /\ ~(adminRequest[b].step \in {"found", "counted"})
      <4>1. adminRequest'[b] = adminRequest[b]
        BY <2>1, <3>3
      <4> QED BY <3>0, <3>3, <4>1 DEF ReadAsIs
    <3> QED BY <3>1, <3>2, <3>3
  <2>5. PICK c \in BOOLEAN : c = adminsCrossed
    BY DEF AdminIInv
  <2>6. PICK s \in BOOLEAN : s = r.stale
    BY <1>2 DEF RequestRecord
  <2>7. adminsCrossed' = (c \/ (r.change \in Removals /\ s))
    BY <2>1, <2>5, <2>6
  <2>8. ASSUME adminsCrossed' = FALSE PROVE AdminsOf(account') # {}
    <3>1. c = FALSE /\ (r.change \notin Removals \/ s = FALSE)
      BY <2>7, <2>8
    <3>2. PICK e \in AdminsOf(account) : TRUE
      BY <2>5, <3>1 DEF AdminIInv
    <3>3. CASE r.change \notin Removals \/ e # r.target
      BY <2>3, <3>2, <3>3
    <3>4. CASE r.change \in Removals /\ e = r.target
      <4>1. ReadAsIs(r, account)
        BY <1>1, <2>5, <3>1 DEF AdminIInv
      <4>2. \E d \in AdminsOf(account) : d # r.target
        BY <1>1, <2>6, <3>1, <3>2, <3>4, <4>1 DEF ReadAsIs
      <4> QED BY <2>3, <4>2
    <3> QED BY <3>3, <3>4
  <2>9. AccountsTyped'
    BY <2>1, <2>3, <2>4 DEF AccountsTyped
  <2>10. adminsCrossed' \in BOOLEAN
    BY <2>7
  <2> QED BY <2>4, <2>8, <2>9, <2>10 DEF AdminIInv
<1> QED BY <1>3, <1>4

\* At startup the bootstrap account is made a super admin.
LEMMA BackendStartsKeeps ==
  ASSUME AdminIInv, BackendStarts
  PROVE  AdminIInv'
<1>1. adminRequest' = [a \in Admins |-> NotAsking] /\ UNCHANGED adminsCrossed
  BY DEF BackendStarts
<1>2. account' \in [Emails -> Row] /\ (AdminsOf(account) # {} => KeepsRights(account, account'))
  <2>1. CASE Registered(BootstrapEmail) /\ BootstrapEmail \in Emails
    <3>1. Update(BootstrapEmail, Bootstrapped(BootstrapEmail, account[BootstrapEmail]))
      BY <2>1 DEF BackendStarts
    <3>2. account[BootstrapEmail] \in Account /\ AccountsTyped
      BY <2>1 DEF AdminIInv, AccountsTyped, Row, Registered
    <3> QED BY <2>1, <3>1, <3>2, BootstrapKeeps
  <2>2. CASE ~(Registered(BootstrapEmail) /\ BootstrapEmail \in Emails)
    <3>1. account' = account
      BY <2>2 DEF BackendStarts, Update, AdminIInv, AccountsTyped
    <3> QED BY <3>1 DEF KeepsRights, AdminIInv, AccountsTyped
  <2> QED BY <2>1, <2>2
<1>3. AccountsTyped'
  BY <1>1, <1>2 DEF AccountsTyped
<1>4. \A a \in Admins : ReadAsIs(adminRequest'[a], account')
  BY <1>1, NotAskingReads
<1>5. adminsCrossed = FALSE => AdminsOf(account') # {}
  BY <1>2, RightsAreKept DEF AdminIInv
<1> QED BY <1>1, <1>3, <1>4, <1>5 DEF AdminIInv

\* The first accounts.
LEMMA AdminInit == AccountsInit => AdminIInv
<1> SUFFICES ASSUME AccountsInit PROVE AdminIInv
  OBVIOUS
<1>1. SuperAdmin \in Account /\ SuperAdmin.role = "super_admin" /\ SuperAdmin.locked = FALSE
  BY RowsAreTyped DEF SuperAdmin, New, Account
<1>2. account \in [Emails -> {SuperAdmin, NoAccount}] /\ account[BootstrapEmail] = SuperAdmin
      /\ adminRequest = [a \in Admins |-> NotAsking] /\ adminsCrossed = FALSE
  BY DEF AccountsInit
<1>3. AccountsTyped
  BY <1>1, <1>2 DEF AccountsTyped, Row
<1>a. BootstrapEmail \in Emails /\ SuperAdmin # NoAccount
  BY <1>1, RowsAreTyped, AccountsAssumption
<1>4. BootstrapEmail \in AdminsOf(account)
  BY <1>1, <1>2, <1>a DEF AdminsOf
<1>5. \A a \in Admins : ReadAsIs(adminRequest[a], account)
  BY <1>2, NotAskingReads
<1>6. adminsCrossed \in BOOLEAN
  BY <1>2
<1> QED BY <1>3, <1>4, <1>5, <1>6 DEF AdminIInv

\* Every operation on accounts.
LEMMA AdminStep == AdminIInv /\ [AccountsNext]_accountVars => AdminIInv'
<1> SUFFICES ASSUME AdminIInv, [AccountsNext]_accountVars PROVE AdminIInv'
  OBVIOUS
<1>1. CASE UNCHANGED accountVars
  <2>1. UNCHANGED <<account, adminRequest, adminsCrossed>>
    BY <1>1 DEF accountVars
  <2> QED BY <2>1 DEF AdminIInv, AccountsTyped
<1>2. ASSUME \E e \in Emails :
              \/ Login(e) \/ GoogleSignIn(e) \/ Exchange(e) \/ CodeExpires(e) \/ Register(e) \/ VerifyEmail(e)
              \/ ForgotPassword(e) \/ ResetPassword(e) \/ ChangePassword(e) \/ Logout(e) \/ ThirtyDays(e)
              \/ \E w \in Workspaces : CreateWorkspace(e, w) \/ SwitchWorkspace(e, w)
              \/ \E of \in Emails, must \in BOOLEAN : CreateAccount(e, of, must) \/ ResetTempPassword(e, of, must)
      PROVE  AdminIInv'
  BY <1>2, OthersKeep, OthersKeepInv
<1> QED BY <1>1, <1>2, AdminAsksKeeps, FindKeeps, AssertKeeps, WriteKeeps, BackendStartsKeeps, Zenon DEF AccountsNext

\* A super admin is left.
LEMMA AdminHolds == AdminIInv => AdminRemains
<1> SUFFICES ASSUME AdminIInv, ActiveSuperAdmins = {} PROVE adminsCrossed
  BY DEF AdminRemains
<1>1. AdminsOf(account) = {}
  BY ActiveIs DEF AdminIInv
<1>2. ~(adminsCrossed = FALSE)
  BY <1>1 DEF AdminIInv
<1>3. adminsCrossed = TRUE
  BY <1>2 DEF AdminIInv
<1> QED BY <1>3, Zenon

-----------------------------------------------------------------------------
(* Grants of Google Drives.  The token of a row was saved by the callback  *)
(* of its own grant; a grant that is saved keeps who began it and for      *)
(* what; and an authorization knows as saved before it only saved ones.    *)

SavedIn(g, c) == g[c].step \in {"saved", "over"}
RowIn(g, c) == <<g[c].by, g[c].as>>

GrantsOK(g) ==
  /\ DOMAIN g = Consents
  /\ \A c \in Consents :
       /\ DOMAIN g[c] = {"step", "by", "target", "as", "old", "after"}
       /\ g[c].step # "none" => g[c].by \in Grantees
       /\ g[c].step \in {"verified", "about", "found", "saved", "over"} => g[c].as \in GoogleAccounts
       /\ \A d \in g[c].after : d \in Consents /\ SavedIn(g, d)

\* The token c was stored for the account u.
Theirs(g, c, u) == c \in Consents /\ SavedIn(g, c) /\ g[c].by = u

\* What a row r says, with the grants g and the tokens that are dead.
RowOK(row, r, g, gone) ==
  row # NoGrant =>
    /\ DOMAIN row = {"token", "target", "marked"} /\ row.marked \in BOOLEAN
    /\ Theirs(g, row.token, r[1]) /\ RowIn(g, row.token) = r
    /\ g[row.token].target \in {NoGrant, row.target}
    /\ \A d \in Consents : RowIn(g, d) = r /\ SavedIn(g, d) => row.token \notin g[d].after
    /\ row.marked = TRUE => \E c \in gone : Theirs(g, c, r[1])

GrantIInv ==
  /\ GrantsOK(grant)
  /\ DOMAIN driveRow = DriveRows /\ \A r \in DriveRows : RowOK(driveRow[r], r, grant, dead)
  /\ driveCall # NoGrant => Theirs(grant, driveCall.token, driveCall.by)

\* Saved and RowOf, of the grants of the state.
LEMMA SavedIs == ASSUME NEW c PROVE (Saved(c) <=> SavedIn(grant, c)) /\ RowOf(c) = RowIn(grant, c)
  BY DEF Saved, At, SavedIn, RowOf, RowIn

\* A row does not notice what happens to grants that are not saved.
LEMMA SavedGrantsStay ==
  ASSUME NEW g, NEW h,
         \A c \in Consents : SavedIn(h, c) <=> SavedIn(g, c),
         \A c \in Consents : SavedIn(g, c) =>
           h[c].by = g[c].by /\ h[c].as = g[c].as /\ h[c].target = g[c].target /\ h[c].after = g[c].after
  PROVE  /\ \A c, u : Theirs(g, c, u) => Theirs(h, c, u)
         /\ \A row, r, gone : RowOK(row, r, g, gone) => RowOK(row, r, h, gone)
<1>1. \A c, u : Theirs(g, c, u) => Theirs(h, c, u)
  BY DEF Theirs
<1>2. ASSUME NEW row, NEW r, NEW gone, RowOK(row, r, g, gone), row # NoGrant
      PROVE  /\ DOMAIN row = {"token", "target", "marked"} /\ row.marked \in BOOLEAN
             /\ Theirs(h, row.token, r[1]) /\ RowIn(h, row.token) = r
             /\ h[row.token].target \in {NoGrant, row.target}
             /\ \A d \in Consents : RowIn(h, d) = r /\ SavedIn(h, d) => row.token \notin h[d].after
             /\ row.marked = TRUE => \E c \in gone : Theirs(h, c, r[1])
  <2>1. /\ DOMAIN row = {"token", "target", "marked"} /\ row.marked \in BOOLEAN
        /\ Theirs(g, row.token, r[1]) /\ RowIn(g, row.token) = r
        /\ g[row.token].target \in {NoGrant, row.target}
        /\ \A d \in Consents : RowIn(g, d) = r /\ SavedIn(g, d) => row.token \notin g[d].after
        /\ row.marked = TRUE => \E c \in gone : Theirs(g, c, r[1])
    BY <1>2 DEF RowOK
  <2>2. PICK t \in Consents : t = row.token /\ SavedIn(g, t)
    BY <2>1 DEF Theirs
  <2>3. RowIn(h, t) = RowIn(g, t) /\ h[t].target = g[t].target
    BY <2>2 DEF RowIn
  <2>4. \A d \in Consents : SavedIn(h, d) => SavedIn(g, d) /\ RowIn(h, d) = RowIn(g, d) /\ h[d].after = g[d].after
    BY DEF RowIn
  <2> QED BY <1>1, <2>1, <2>2, <2>3, <2>4
<1>3. \A row, r, gone : RowOK(row, r, g, gone) => RowOK(row, r, h, gone)
  <2> SUFFICES ASSUME NEW row, NEW r, NEW gone, RowOK(row, r, g, gone) PROVE RowOK(row, r, h, gone)
    OBVIOUS
  <2>1. CASE row = NoGrant
    BY <2>1 DEF RowOK
  <2>2. CASE row # NoGrant
    BY <1>2, <2>2 DEF RowOK
  <2> QED BY <2>1, <2>2
<1> QED BY <1>1, <1>3

\* A grant that is not saved goes on.
LEMMA GrantGoesOn ==
  ASSUME GrantIInv, NEW c \in Consents, ~SavedIn(grant, c), NEW n,
         grant' = [grant EXCEPT ![c] = n], UNCHANGED <<driveRow, dead, driveCall>>,
         DOMAIN n = {"step", "by", "target", "as", "old", "after"}, n.by \in Grantees,
         n.step \in {"asked", "late", "verified", "about", "found"},
         n.step \in {"verified", "about", "found"} => n.as \in GoogleAccounts,
         \A d \in n.after : d \in Consents /\ SavedIn(grant, d)
  PROVE  GrantIInv'
<1>1. PICK h : h = grant'
  OBVIOUS
<1>2. h = [grant EXCEPT ![c] = n] /\ DOMAIN grant = Consents
  BY <1>1 DEF GrantIInv, GrantsOK
<1>3. \A d \in Consents : d # c => h[d] = grant[d]
  BY <1>2
<1>4. h[c] = n /\ DOMAIN h = Consents
  BY <1>2
<1>5. \A d \in Consents : SavedIn(h, d) <=> SavedIn(grant, d)
  BY <1>3, <1>4 DEF SavedIn
<1>6. \A d \in Consents : SavedIn(grant, d) => h[d] = grant[d]
  BY <1>3
<1>7. /\ \A d, u : Theirs(grant, d, u) => Theirs(h, d, u)
      /\ \A row, r, gone : RowOK(row, r, grant, gone) => RowOK(row, r, h, gone)
  BY <1>5, <1>6, SavedGrantsStay
<1>8. GrantsOK(h)
  <2>1. ASSUME NEW e \in Consents
        PROVE  /\ DOMAIN h[e] = {"step", "by", "target", "as", "old", "after"}
               /\ h[e].step # "none" => h[e].by \in Grantees
               /\ h[e].step \in {"verified", "about", "found", "saved", "over"} => h[e].as \in GoogleAccounts
               /\ \A d \in h[e].after : d \in Consents /\ SavedIn(h, d)
    <3>1. CASE e = c
      BY <1>4, <1>5, <3>1
    <3>2. CASE e # c
      <4>1. h[e] = grant[e]
        BY <1>3, <3>2
      <4> QED BY <1>5, <4>1 DEF GrantIInv, GrantsOK
    <3> QED BY <3>1, <3>2
  <2> QED BY <1>4, <2>1 DEF GrantsOK
<1> QED BY <1>1, <1>7, <1>8 DEF GrantIInv

\* The steps of an authorization up to the row.
LEMMA AuthorizingKeeps ==
  ASSUME GrantIInv, NEW c \in Consents,
         \/ \E u \in Grantees, w \in Targets \cup {NoGrant} : AuthUrl(c, u, w)
         \/ \E g \in GoogleAccounts : VerifyState(c, g)
         \/ StateExpires(c) \/ GetToken(c) \/ CallbackFails(c) \/ FindRow(c)
  PROVE  GrantIInv'
<1>1. UNCHANGED <<driveRow, dead, driveCall>> /\ ~SavedIn(grant, c)
  BY DEF AuthUrl, VerifyState, StateExpires, GetToken, CallbackFails, FindRow, At, SavedIn
<1>2. PICK r : r = grant[c]
  OBVIOUS
<1>3. /\ DOMAIN grant = Consents /\ DOMAIN r = {"step", "by", "target", "as", "old", "after"}
      /\ r.step # "none" => r.by \in Grantees
      /\ r.step \in {"verified", "about", "found"} => r.as \in GoogleAccounts
      /\ \A d \in r.after : d \in Consents /\ SavedIn(grant, d)
  BY <1>2 DEF GrantIInv, GrantsOK
<1>4. ASSUME NEW u \in Grantees, NEW w, AuthUrl(c, u, w) PROVE GrantIInv'
  <2>1. PICK n : n = [NotAsked EXCEPT !.step = "asked", !.by = u, !.target = w]
    OBVIOUS
  <2>2. grant' = [grant EXCEPT ![c] = n]
    BY <1>4, <2>1 DEF AuthUrl
  <2>3. DOMAIN n = {"step", "by", "target", "as", "old", "after"} /\ n.by = u /\ n.step = "asked" /\ n.after = {}
    BY <2>1 DEF NotAsked
  <2> QED BY <1>1, <2>2, <2>3, GrantGoesOn
<1>5. ASSUME NEW g \in GoogleAccounts, VerifyState(c, g) PROVE GrantIInv'
  <2>1. PICK same : same = {d \in Consents : grant[d].by = grant[c].by /\ grant[d].as = g /\ Saved(d)}
    OBVIOUS
  <2>2. PICK n : n = [r EXCEPT !.step = "verified", !.as = g, !.after = same]
    OBVIOUS
  <2>3. grant' = [grant EXCEPT ![c] = n]
    BY <1>2, <1>3, <1>5, <2>1, <2>2 DEF VerifyState
  <2>4. DOMAIN n = {"step", "by", "target", "as", "old", "after"} /\ n.by = r.by /\ n.step = "verified" /\ n.as = g /\ n.after = same
    BY <1>3, <2>2
  <2>5. \A d \in same : d \in Consents /\ SavedIn(grant, d)
    BY <2>1, SavedIs
  <2>6. r.step = "asked"
    BY <1>2, <1>5 DEF VerifyState, At
  <2> QED BY <1>1, <1>3, <2>3, <2>4, <2>5, <2>6, GrantGoesOn
<1>6. ASSUME NEW step \in {"late", "about", "found"}, NEW old,
             grant' = [grant EXCEPT ![c] = [r EXCEPT !.step = step, !.old = old]],
             r.step # "none", step # "late" => r.step \in {"verified", "about"}
      PROVE  GrantIInv'
  <2>1. PICK n : n = [r EXCEPT !.step = step, !.old = old]
    OBVIOUS
  <2>2. DOMAIN n = {"step", "by", "target", "as", "old", "after"} /\ n.by = r.by /\ n.step = step /\ n.as = r.as /\ n.after = r.after
    BY <1>3, <2>1
  <2> QED BY <1>1, <1>3, <1>6, <2>1, <2>2, GrantGoesOn
<1>7. ASSUME NEW step \in {"late", "about"}, Proceeds(c, step), r.step # "none", step # "late" => r.step \in {"verified", "about"}
      PROVE  GrantIInv'
  <2>1. PICK old : old = r.old
    OBVIOUS
  <2>2. [r EXCEPT !.step = step] = [r EXCEPT !.step = step, !.old = old]
    BY <1>3, <2>1
  <2>3. grant' = [grant EXCEPT ![c] = [r EXCEPT !.step = step]]
    BY <1>2, <1>3, <1>7 DEF Proceeds
  <2> QED BY <1>6, <1>7, <2>2, <2>3
<1>8. CASE StateExpires(c)
  BY <1>2, <1>7, <1>8 DEF StateExpires, At
<1>9. CASE GetToken(c)
  BY <1>2, <1>7, <1>9 DEF GetToken, At
<1>10. CASE CallbackFails(c)
  BY <1>2, <1>7, <1>10 DEF CallbackFails
<1>11. CASE FindRow(c)
  <2>1. PICK old : old = driveRow[RowOf(c)]
    OBVIOUS
  <2>2. grant' = [grant EXCEPT ![c] = [r EXCEPT !.step = "found", !.old = old]] /\ r.step = "about"
    BY <1>2, <1>3, <1>11, <2>1 DEF FindRow, At
  <2> QED BY <1>6, <2>2
<1> QED BY <1>4, <1>5, <1>8, <1>9, <1>10, <1>11

\* A callback writes its row.
LEMMA SaveConnectionKeeps ==
  ASSUME GrantIInv, NEW c \in Consents, SaveConnection(c)
  PROVE  GrantIInv'
<1>1. PICK o : o = grant[c] /\ o.step = "found"
  BY DEF SaveConnection, At
<1>2. /\ DOMAIN grant = Consents /\ DOMAIN o = {"step", "by", "target", "as", "old", "after"}
      /\ o.by \in Grantees /\ o.as \in GoogleAccounts
      /\ \A d \in o.after : d \in Consents /\ SavedIn(grant, d)
  BY <1>1 DEF GrantIInv, GrantsOK
<1>3. PICK r \in DriveRows : r = RowOf(c) /\ r = <<o.by, o.as>> /\ r[1] = o.by
  <2>1. PICK u \in Grantees : u = o.by
    BY <1>2
  <2>2. PICK g \in GoogleAccounts : g = o.as
    BY <1>2
  <2>3. RowOf(c) = <<u, g>>
    BY <1>1, <2>1, <2>2 DEF RowOf
  <2>4. <<u, g>> \in DriveRows /\ <<u, g>>[1] = u
    BY DEF DriveRows
  <2> QED BY <2>1, <2>2, <2>3, <2>4
<1>4. PICK n : n = [o EXCEPT !.step = "saved"]
  OBVIOUS
<1>5. PICK h : h = grant' /\ h = [grant EXCEPT ![c] = n]
  BY <1>1, <1>2, <1>4 DEF SaveConnection, Proceeds
<1>6. /\ DOMAIN n = {"step", "by", "target", "as", "old", "after"} /\ n.step = "saved" /\ n.by = o.by /\ n.as = o.as
      /\ n.target = o.target /\ n.after = o.after
  BY <1>2, <1>4
<1>7. DOMAIN h = Consents /\ h[c] = n /\ \A d \in Consents : d # c => h[d] = grant[d]
  BY <1>2, <1>5
<1>8. ~SavedIn(grant, c) /\ SavedIn(h, c) /\ RowIn(h, c) = r
  BY <1>1, <1>3, <1>6, <1>7 DEF SavedIn, RowIn
<1>9. \A d \in Consents : SavedIn(grant, d) => h[d] = grant[d] /\ SavedIn(h, d)
  BY <1>7, <1>8 DEF SavedIn
<1>10. \A d \in Consents : SavedIn(h, d) => d = c \/ SavedIn(grant, d)
  BY <1>7 DEF SavedIn
<1>11. \A d, u : Theirs(grant, d, u) => Theirs(h, d, u)
  BY <1>9 DEF Theirs
<1>12. GrantsOK(h)
  <2>1. ASSUME NEW e \in Consents
        PROVE  /\ DOMAIN h[e] = {"step", "by", "target", "as", "old", "after"}
               /\ h[e].step # "none" => h[e].by \in Grantees
               /\ h[e].step \in {"verified", "about", "found", "saved", "over"} => h[e].as \in GoogleAccounts
               /\ \A d \in h[e].after : d \in Consents /\ SavedIn(h, d)
    <3>1. CASE e = c
      BY <1>2, <1>6, <1>7, <1>9, <3>1
    <3>2. CASE e # c
      <4>1. h[e] = grant[e]
        BY <1>7, <3>2
      <4> QED BY <1>9, <4>1 DEF GrantIInv, GrantsOK
    <3> QED BY <3>1, <3>2
  <2> QED BY <1>7, <2>1 DEF GrantsOK
<1>13. PICK row : row = driveRow[r]
  OBVIOUS
<1>14. PICK new : new = [token |-> c, target |-> TargetOf(c, row), marked |-> IF row = NoGrant THEN FALSE ELSE row.marked]
  OBVIOUS
<1>15. driveRow' = [driveRow EXCEPT ![r] = new]
  BY <1>3, <1>13, <1>14 DEF SaveConnection, Merged
<1>16. /\ DOMAIN new = {"token", "target", "marked"} /\ new.token = c /\ new.target = TargetOf(c, row)
       /\ new.marked = IF row = NoGrant THEN FALSE ELSE row.marked
  BY <1>14
<1>17. RowOK(row, r, grant, dead)
  BY <1>13 DEF GrantIInv
<1>18. RowOK(new, r, h, dead)
  <2>1. new.marked \in BOOLEAN /\ (new.marked = TRUE => \E e \in dead : Theirs(h, e, r[1]))
    <3>1. CASE row = NoGrant
      <4>1. new.marked = FALSE
        BY <1>16, <3>1
      <4>2. new.marked \in BOOLEAN
        BY <4>1
      <4>3. ~(new.marked = TRUE)
        BY <4>1
      <4> QED BY <4>2, <4>3
    <3>2. CASE row # NoGrant
      <4>1. PICK m \in BOOLEAN : m = row.marked /\ m = new.marked
        BY <1>16, <1>17, <3>2 DEF RowOK
      <4>2. m = TRUE => \E e \in dead : Theirs(grant, e, r[1])
        BY <1>17, <3>2, <4>1 DEF RowOK
      <4> QED BY <1>11, <4>1, <4>2
    <3> QED BY <3>1, <3>2
  <2>2. Theirs(h, c, r[1])
    BY <1>3, <1>6, <1>7, <1>8 DEF Theirs
  <2>3. h[c].target \in {NoGrant, new.target}
    BY <1>1, <1>6, <1>7, <1>16 DEF TargetOf
  <2>4. ASSUME NEW d \in Consents, SavedIn(h, d) PROVE c \notin h[d].after
    <3>1. d = c \/ h[d] = grant[d]
      BY <1>7
    <3>2. CASE d = c
      BY <1>2, <1>6, <1>7, <1>8, <3>2
    <3>3. CASE h[d] = grant[d]
      BY <1>8, <3>3 DEF GrantIInv, GrantsOK
    <3> QED BY <3>1, <3>2, <3>3
  <2> QED BY <1>8, <1>16, <2>1, <2>2, <2>3, <2>4 DEF RowOK
<1>19. ASSUME NEW q \in DriveRows, q # r PROVE RowOK(driveRow'[q], q, h, dead)
  <2>1. driveRow'[q] = driveRow[q] /\ RowOK(driveRow[q], q, grant, dead)
    BY <1>15, <1>19 DEF GrantIInv
  <2>2. SUFFICES ASSUME driveRow[q] # NoGrant PROVE RowOK(driveRow[q], q, h, dead)
    BY <2>1 DEF RowOK
  <2>3. PICK s : s = driveRow[q]
    OBVIOUS
  <2>4. /\ DOMAIN s = {"token", "target", "marked"} /\ s.marked \in BOOLEAN
        /\ Theirs(grant, s.token, q[1]) /\ RowIn(grant, s.token) = q
        /\ grant[s.token].target \in {NoGrant, s.target}
        /\ \A d \in Consents : RowIn(grant, d) = q /\ SavedIn(grant, d) => s.token \notin grant[d].after
        /\ s.marked = TRUE => \E e \in dead : Theirs(grant, e, q[1])
    BY <2>1, <2>2, <2>3 DEF RowOK
  <2>5. h[s.token] = grant[s.token] /\ Theirs(h, s.token, q[1])
    BY <1>9, <1>11, <2>4 DEF Theirs
  <2>6. RowIn(h, s.token) = q /\ h[s.token].target \in {NoGrant, s.target}
    BY <2>4, <2>5 DEF RowIn
  <2>7. ASSUME NEW d \in Consents, RowIn(h, d) = q, SavedIn(h, d) PROVE s.token \notin h[d].after
    <3>1. d # c
      BY <1>8, <1>19, <2>7
    <3>2. SavedIn(grant, d) /\ h[d] = grant[d]
      BY <1>9, <1>10, <2>7, <3>1
    <3>3. RowIn(grant, d) = q
      BY <2>7, <3>2 DEF RowIn
    <3> QED BY <2>4, <3>2, <3>3
  <2>8. s.marked = TRUE => \E e \in dead : Theirs(h, e, q[1])
    BY <1>11, <2>4
  <2>9. RowOK(s, q, h, dead)
    BY <2>4, <2>5, <2>6, <2>7, <2>8 DEF RowOK
  <2> QED BY <2>3, <2>9
<1>20. DOMAIN driveRow' = DriveRows /\ driveRow'[r] = new
  BY <1>15 DEF GrantIInv
<1>21. \A q \in DriveRows : RowOK(driveRow'[q], q, h, dead)
  BY <1>18, <1>19, <1>20
<1>22. UNCHANGED <<dead, driveCall>>
  BY DEF SaveConnection
<1> QED BY <1>5, <1>11, <1>12, <1>20, <1>21, <1>22 DEF GrantIInv

\* The rows of an account are marked, or their marks are taken off.
LEMMA MarkedKeeps ==
  ASSUME NEW g, NEW gone, DOMAIN driveRow = DriveRows, \A r \in DriveRows : RowOK(driveRow[r], r, g, gone),
         NEW u, NEW mark \in BOOLEAN, driveRow' = Marked(u, mark),
         mark = TRUE => \E c \in gone : Theirs(g, c, u)
  PROVE  DOMAIN driveRow' = DriveRows /\ \A r \in DriveRows : RowOK(driveRow'[r], r, g, gone)
<1>1. ASSUME NEW r \in DriveRows PROVE RowOK(driveRow'[r], r, g, gone)
  <2>1. CASE r[1] = u /\ driveRow[r] # NoGrant
    <3>1. PICK row : row = driveRow[r]
      OBVIOUS
    <3>2. PICK new : new = [row EXCEPT !.marked = mark]
      OBVIOUS
    <3>3. driveRow'[r] = new
      BY <2>1, <3>1, <3>2 DEF Marked
    <3>4. /\ DOMAIN row = {"token", "target", "marked"}
          /\ Theirs(g, row.token, r[1]) /\ RowIn(g, row.token) = r
          /\ g[row.token].target \in {NoGrant, row.target}
          /\ \A d \in Consents : RowIn(g, d) = r /\ SavedIn(g, d) => row.token \notin g[d].after
      BY <2>1, <3>1 DEF RowOK
    <3>5. DOMAIN new = {"token", "target", "marked"} /\ new.token = row.token /\ new.target = row.target /\ new.marked = mark
      BY <3>2, <3>4
    <3>6. RowOK(new, r, g, gone)
      BY <2>1, <3>4, <3>5 DEF RowOK
    <3> QED BY <3>3, <3>6
  <2>2. CASE ~(r[1] = u /\ driveRow[r] # NoGrant)
    <3>1. driveRow'[r] = driveRow[r]
      BY <2>2 DEF Marked
    <3> QED BY <3>1
  <2> QED BY <2>1, <2>2
<1>2. DOMAIN driveRow' = DriveRows
  BY DEF Marked
<1> QED BY <1>1, <1>2

\* An exchange that ended clears the marks of its account.
LEMMA MarkIssuedKeeps ==
  ASSUME GrantIInv, NEW c \in Consents, MarkIssued(c)
  PROVE  GrantIInv'
<1>1. PICK o : o = grant[c] /\ o.step = "saved"
  BY DEF MarkIssued, At
<1>2. DOMAIN grant = Consents /\ DOMAIN o = {"step", "by", "target", "as", "old", "after"}
  BY <1>1 DEF GrantIInv, GrantsOK
<1>3. PICK n : n = [o EXCEPT !.step = "over"]
  OBVIOUS
<1>4. PICK h : h = grant' /\ h = [grant EXCEPT ![c] = n]
  BY <1>1, <1>2, <1>3 DEF MarkIssued, Proceeds
<1>5. /\ DOMAIN n = {"step", "by", "target", "as", "old", "after"} /\ n.step = "over" /\ n.by = o.by /\ n.as = o.as
      /\ n.target = o.target /\ n.after = o.after
  BY <1>2, <1>3
<1>6. DOMAIN h = Consents /\ h[c] = n /\ \A d \in Consents : d # c => h[d] = grant[d]
  BY <1>2, <1>4
<1>7. SavedIn(grant, c) /\ SavedIn(h, c)
  BY <1>1, <1>5, <1>6 DEF SavedIn
<1>8. \A d \in Consents : SavedIn(h, d) <=> SavedIn(grant, d)
  BY <1>6, <1>7 DEF SavedIn
<1>9. \A d \in Consents : h[d].by = grant[d].by /\ h[d].as = grant[d].as /\ h[d].target = grant[d].target
                          /\ h[d].after = grant[d].after
  BY <1>1, <1>5, <1>6
<1>10. /\ \A d, u : Theirs(grant, d, u) => Theirs(h, d, u)
       /\ \A row, r, gone : RowOK(row, r, grant, gone) => RowOK(row, r, h, gone)
  BY <1>8, <1>9, SavedGrantsStay
<1>11. GrantsOK(h)
  <2>1. ASSUME NEW e \in Consents
        PROVE  /\ DOMAIN h[e] = {"step", "by", "target", "as", "old", "after"}
               /\ h[e].step # "none" => h[e].by \in Grantees
               /\ h[e].step \in {"verified", "about", "found", "saved", "over"} => h[e].as \in GoogleAccounts
               /\ \A d \in h[e].after : d \in Consents /\ SavedIn(h, d)
    <3>1. CASE e = c
      BY <1>1, <1>5, <1>6, <1>8, <3>1 DEF GrantIInv, GrantsOK
    <3>2. CASE e # c
      <4>1. h[e] = grant[e]
        BY <1>6, <3>2
      <4> QED BY <1>8, <4>1 DEF GrantIInv, GrantsOK
    <3> QED BY <3>1, <3>2
  <2> QED BY <1>6, <2>1 DEF GrantsOK
<1>12. driveRow' = Marked(o.by, FALSE) /\ UNCHANGED <<dead, driveCall>>
  BY <1>1 DEF MarkIssued
<1>13. DOMAIN driveRow = DriveRows /\ \A r \in DriveRows : RowOK(driveRow[r], r, h, dead)
  BY <1>10 DEF GrantIInv
<1>14. DOMAIN driveRow' = DriveRows /\ \A r \in DriveRows : RowOK(driveRow'[r], r, h, dead)
  BY <1>12, <1>13, MarkedKeeps
<1> QED BY <1>4, <1>10, <1>11, <1>12, <1>14 DEF GrantIInv

\* A call to the Drive goes out with the token of its row.
LEMMA CallDriveKeeps ==
  ASSUME GrantIInv, NEW r \in DriveRows, CallDrive(r)
  PROVE  GrantIInv'
<1>1. UNCHANGED <<driveRow, grant, dead>> /\ driveRow[r] # NoGrant
  BY DEF CallDrive
<1>2. driveCall' = [by |-> r[1], token |-> driveRow[r].token]
  BY DEF CallDrive
<1>3. driveCall'.by = r[1] /\ driveCall'.token = driveRow[r].token
  BY <1>2
<1>4. Theirs(grant, driveRow[r].token, r[1])
  BY <1>1 DEF GrantIInv, RowOK
<1> QED BY <1>1, <1>3, <1>4 DEF GrantIInv

\* A mark comes from a token of the account that is dead.
LEMMA GoogleAnswersKeeps ==
  ASSUME GrantIInv, GoogleAnswers
  PROVE  GrantIInv'
<1>1. UNCHANGED <<grant, dead>> /\ driveCall # NoGrant /\ driveCall' = NoGrant
  BY DEF GoogleAnswers
<1>2. PICK u : u = driveCall.by
  OBVIOUS
<1>3. Theirs(grant, driveCall.token, u)
  BY <1>1, <1>2 DEF GrantIInv
<1>4. CASE driveCall.token \in dead
  <2>1. driveRow' = Marked(u, TRUE)
    BY <1>2, <1>4 DEF GoogleAnswers, MarkInvalid
  <2>2. \E c \in dead : Theirs(grant, c, u)
    BY <1>3, <1>4
  <2>3. DOMAIN driveRow' = DriveRows /\ \A r \in DriveRows : RowOK(driveRow'[r], r, grant, dead)
    BY <2>1, <2>2, MarkedKeeps DEF GrantIInv
  <2> QED BY <1>1, <2>3 DEF GrantIInv
<1>5. CASE driveCall.token \notin dead
  <2>1. driveRow' = Marked(u, FALSE)
    BY <1>2, <1>5 DEF GoogleAnswers
  <2>2. ~(FALSE = TRUE)
    OBVIOUS
  <2>3. DOMAIN driveRow' = DriveRows /\ \A r \in DriveRows : RowOK(driveRow'[r], r, grant, dead)
    BY <2>1, <2>2, MarkedKeeps DEF GrantIInv
  <2> QED BY <1>1, <2>3 DEF GrantIInv
<1> QED BY <1>4, <1>5

\* Google takes a token back.
LEMMA GoogleRevokesKeeps ==
  ASSUME GrantIInv, NEW c \in Consents, GoogleRevokes(c)
  PROVE  GrantIInv'
<1>1. dead' = dead \cup {c} /\ UNCHANGED <<driveRow, grant, driveCall>>
  BY DEF GoogleRevokes
<1>2. \A r \in DriveRows : RowOK(driveRow[r], r, grant, dead')
  BY <1>1 DEF GrantIInv, RowOK
<1> QED BY <1>1, <1>2 DEF GrantIInv

\* A connection is deleted.
LEMMA DeleteRowKeeps ==
  ASSUME GrantIInv, NEW r \in DriveRows, DeleteRow(r)
  PROVE  GrantIInv'
<1>1. driveRow' = [driveRow EXCEPT ![r] = NoGrant] /\ UNCHANGED <<grant, dead, driveCall>>
  BY DEF DeleteRow
<1>2. DOMAIN driveRow' = DriveRows /\ \A q \in DriveRows : driveRow'[q] = NoGrant \/ driveRow'[q] = driveRow[q]
  BY <1>1 DEF GrantIInv
<1>3. \A q \in DriveRows : RowOK(driveRow'[q], q, grant, dead)
  BY <1>2 DEF GrantIInv, RowOK
<1> QED BY <1>1, <1>2, <1>3 DEF GrantIInv

\* Before the first authorization.
LEMMA GrantInit == GrantingInit => GrantIInv
<1> SUFFICES ASSUME GrantingInit PROVE GrantIInv
  OBVIOUS
<1>1. driveRow = [r \in DriveRows |-> NoGrant] /\ grant = [c \in Consents |-> NotAsked] /\ driveCall = NoGrant
  BY DEF GrantingInit
<1>2. DOMAIN NotAsked = {"step", "by", "target", "as", "old", "after"} /\ NotAsked.step = "none" /\ NotAsked.after = {}
  BY DEF NotAsked
<1>3. GrantsOK(grant)
  BY <1>1, <1>2 DEF GrantsOK
<1>4. \A r \in DriveRows : RowOK(driveRow[r], r, grant, dead)
  BY <1>1 DEF RowOK
<1> QED BY <1>1, <1>3, <1>4 DEF GrantIInv

\* Every operation on grants and rows.
LEMMA GrantStep == GrantIInv /\ [GrantingNext]_grantVars => GrantIInv'
<1> SUFFICES ASSUME GrantIInv, [GrantingNext]_grantVars PROVE GrantIInv'
  OBVIOUS
<1>1. CASE UNCHANGED grantVars
  <2>1. UNCHANGED <<driveRow, grant, dead, driveCall>>
    BY <1>1 DEF grantVars
  <2> QED BY <2>1 DEF GrantIInv
<1>2. CASE CallLost
  <2>1. UNCHANGED <<driveRow, grant, dead>> /\ driveCall' = NoGrant
    BY <1>2 DEF CallLost
  <2> QED BY <2>1 DEF GrantIInv
<1> QED BY <1>1, <1>2, AuthorizingKeeps, SaveConnectionKeeps, MarkIssuedKeeps, CallDriveKeeps, GoogleAnswersKeeps,
           GoogleRevokesKeeps, DeleteRowKeeps, Zenon DEF GrantingNext

\* A row has the token of its own account, from the grant that was begun for it.
LEMMA GrantHolds == GrantIInv => GrantedAsBegun
<1> SUFFICES ASSUME GrantIInv, NEW r \in DriveRows, driveRow[r] # NoGrant
             PROVE  /\ LET c == driveRow[r].token
                       IN  /\ RowOf(c) = r /\ grant[c].target \in {NoGrant, driveRow[r].target}
                           /\ \A d \in Consents : RowOf(d) = r /\ Saved(d) => c \notin grant[d].after
                    /\ driveRow[r].marked => \E c \in dead : grant[c].by = r[1]
  BY DEF GrantedAsBegun
<1>1. PICK row : row = driveRow[r] /\ row # NoGrant
  OBVIOUS
<1>2. /\ row.marked \in BOOLEAN
      /\ Theirs(grant, row.token, r[1]) /\ RowIn(grant, row.token) = r
      /\ grant[row.token].target \in {NoGrant, row.target}
      /\ \A d \in Consents : RowIn(grant, d) = r /\ SavedIn(grant, d) => row.token \notin grant[d].after
      /\ row.marked = TRUE => \E c \in dead : Theirs(grant, c, r[1])
  BY <1>1 DEF GrantIInv, RowOK
<1>3. PICK m \in BOOLEAN : m = row.marked
  BY <1>2
<1>4. m => \E c \in dead : grant[c].by = r[1]
  BY <1>2, <1>3 DEF Theirs
<1>5. /\ RowOf(row.token) = r
      /\ \A d \in Consents : RowOf(d) = r /\ Saved(d) => row.token \notin grant[d].after
  BY <1>2, SavedIs
<1> QED BY <1>1, <1>2, <1>3, <1>4, <1>5

-----------------------------------------------------------------------------
(* The channel's videos.  A change has a greater number than those before  *)
(* it, so a video that is there is never older than where a refresh began. *)
(* One refresh at most is under way, so what it has read is not older than *)
(* where it began, nor than where those that ended did.                    *)

Numbers == [OnChannel -> Nat]

\* The refresh r, while the videos are at now, the last change is n and ended refreshes began at low.
RefreshOK(r, new, low, n) ==
  /\ DOMAIN r = {"left", "found", "begun"} /\ r.found \in Numbers /\ r.begun \in Numbers
  /\ \A v \in OnChannel : /\ r.begun[v] <= n /\ (new[v] # 0 => r.begun[v] <= new[v])
                          /\ r.found[v] # 0 => r.begun[v] <= r.found[v] /\ low[v] <= r.found[v]

VideosOK(new, low, n) ==
  /\ n \in Nat /\ new \in Numbers /\ low \in Numbers
  /\ \A v \in OnChannel : new[v] <= n /\ low[v] <= n /\ (new[v] # 0 => low[v] <= new[v])

WritingOK(w, low, apart) ==
  w.v \in OnChannel /\ w.change \in Nat /\ (w.v \notin apart => low[w.v] <= w.change)

ChannelIInv ==
  /\ VideosOK(changed, floor, changes)
  /\ refreshes = {} \/ \E r : refreshes = {r} /\ RefreshOK(r, changed, floor, changes)
  /\ \A w \in writing : WritingOK(w, floor, stirred)
  /\ cached \in Numbers
  /\ \A v \in OnChannel : v \notin stirred /\ cached[v] # 0 => floor[v] <= cached[v]

\* One more change, of a video that is there or is new.
LEMMA ChangeKeeps ==
  ASSUME ChannelIInv, NEW v \in OnChannel, VideoChanges(v)
  PROVE  /\ VideosOK(changed', floor, changes')
         /\ refreshes = {} \/ \E r : refreshes = {r} /\ RefreshOK(r, changed', floor, changes')
         /\ changes \in Nat /\ floor[v] <= changes + 1
<1>1. PICK n \in Nat : n = changes
  BY DEF ChannelIInv, VideosOK
<1>2. changes' = n + 1 /\ changed' = [changed EXCEPT ![v] = n + 1] /\ changed \in Numbers /\ floor \in Numbers
  BY <1>1 DEF VideoChanges, ChannelIInv, VideosOK
<1>3. changed' \in Numbers /\ changed'[v] = n + 1 /\ \A u \in OnChannel : u # v => changed'[u] = changed[u]
  BY <1>2 DEF Numbers
<1>4. ASSUME NEW u \in OnChannel
      PROVE  changed'[u] <= n + 1 /\ floor[u] <= n /\ floor[u] <= n + 1 /\ (changed'[u] # 0 => floor[u] <= changed'[u])
  <2>1. PICK f \in Nat : f = floor[u] /\ f <= n
    BY <1>1, <1>2 DEF Numbers, ChannelIInv, VideosOK
  <2>2. PICK c \in Nat : c = changed[u] /\ c <= n /\ (c # 0 => f <= c)
    BY <1>1, <1>2, <2>1 DEF Numbers, ChannelIInv, VideosOK
  <2>3. PICK d \in Nat : d = changed'[u] /\ (d = n + 1 \/ d = c)
    BY <1>3, <2>2
  <2> QED BY <2>1, <2>2, <2>3
<1>5. VideosOK(changed', floor, n + 1)
  BY <1>2, <1>3, <1>4 DEF VideosOK
<1>6. ASSUME NEW r, refreshes = {r}, RefreshOK(r, changed, floor, n) PROVE RefreshOK(r, changed', floor, n + 1)
  <2>1. ASSUME NEW u \in OnChannel
        PROVE  /\ r.begun[u] <= n + 1 /\ (changed'[u] # 0 => r.begun[u] <= changed'[u])
               /\ r.found[u] # 0 => r.begun[u] <= r.found[u] /\ floor[u] <= r.found[u]
    <3>1. PICK b \in Nat : b = r.begun[u] /\ b <= n
      BY <1>6 DEF RefreshOK, Numbers
    <3>2. PICK c \in Nat : c = changed[u] /\ (c # 0 => b <= c)
      BY <1>2, <1>6, <3>1 DEF RefreshOK, Numbers
    <3>3. PICK d \in Nat : d = changed'[u] /\ (d = n + 1 \/ d = c)
      BY <1>3, <3>2
    <3>4. b <= n + 1 /\ (d # 0 => b <= d)
      BY <3>1, <3>2, <3>3
    <3>5. r.found[u] # 0 => r.begun[u] <= r.found[u] /\ floor[u] <= r.found[u]
      BY <1>6 DEF RefreshOK
    <3> QED BY <3>1, <3>3, <3>4, <3>5
  <2> QED BY <1>6, <2>1 DEF RefreshOK
<1>7. floor[v] <= n + 1
  BY <1>4
<1> QED BY <1>1, <1>2, <1>5, <1>6, <1>7 DEF ChannelIInv

\* A video is edited in the studio.
LEMMA StudioEditsKeeps ==
  ASSUME ChannelIInv, NEW v \in OnChannel, StudioEdits(v)
  PROVE  ChannelIInv'
<1>1. VideoChanges(v) /\ UNCHANGED <<cached, refreshes, writing, floor, stirred>>
  BY DEF StudioEdits
<1>2. /\ VideosOK(changed', floor, changes')
      /\ refreshes = {} \/ \E r : refreshes = {r} /\ RefreshOK(r, changed', floor, changes')
  BY <1>1, ChangeKeeps
<1> QED BY <1>1, <1>2 DEF ChannelIInv

\* A video is edited here, and its entry is about to be written.
LEMMA EditVideoKeeps ==
  ASSUME ChannelIInv, NEW v \in OnChannel, EditVideo(v)
  PROVE  ChannelIInv'
<1>1. VideoChanges(v) /\ UNCHANGED <<cached, refreshes, floor, stirred>>
  BY DEF EditVideo
<1>2. /\ VideosOK(changed', floor, changes')
      /\ refreshes = {} \/ \E r : refreshes = {r} /\ RefreshOK(r, changed', floor, changes')
      /\ changes \in Nat /\ floor[v] <= changes + 1
  BY <1>1, ChangeKeeps
<1>3. PICK w : w = [v |-> v, change |-> changes + 1]
  OBVIOUS
<1>4. writing' = writing \cup {w}
  BY <1>3 DEF EditVideo
<1>5. WritingOK(w, floor, stirred)
  BY <1>2, <1>3 DEF WritingOK
<1>6. \A x \in writing' : WritingOK(x, floor, stirred)
  BY <1>4, <1>5 DEF ChannelIInv
<1> QED BY <1>1, <1>2, <1>6 DEF ChannelIInv

\* A video is deleted in the studio.
LEMMA StudioDeletesKeeps ==
  ASSUME ChannelIInv, NEW v \in OnChannel, StudioDeletes(v)
  PROVE  ChannelIInv'
<1>1. changed' = [changed EXCEPT ![v] = 0] /\ UNCHANGED <<cached, refreshes, writing, floor, stirred, changes>>
  BY DEF StudioDeletes
<1>2. changed \in Numbers /\ changes \in Nat
  BY DEF ChannelIInv, VideosOK
<1>3. changed' \in Numbers /\ \A u \in OnChannel : changed'[u] = 0 \/ changed'[u] = changed[u]
  BY <1>1, <1>2 DEF Numbers
<1>4. VideosOK(changed', floor, changes)
  BY <1>2, <1>3 DEF ChannelIInv, VideosOK
<1>5. ASSUME NEW r, RefreshOK(r, changed, floor, changes) PROVE RefreshOK(r, changed', floor, changes)
  BY <1>3, <1>5 DEF RefreshOK
<1> QED BY <1>1, <1>4, <1>5 DEF ChannelIInv

\* A page asks; a refresh begins, or the one that runs is shared.
LEMMA GetChannelVideosKeeps ==
  ASSUME ChannelIInv, GetChannelVideos
  PROVE  ChannelIInv'
<1>1. UNCHANGED <<changed, cached, writing, floor, stirred, changes>>
  BY DEF GetChannelVideos
<1>2. CASE refreshes # {}
  <2>1. UNCHANGED refreshes
    BY <1>2 DEF GetChannelVideos
  <2> QED BY <1>1, <2>1 DEF ChannelIInv
<1>3. CASE refreshes = {}
  <2>1. Begins
    BY <1>3 DEF GetChannelVideos
  <2>2. PICK left : refreshes' = refreshes \cup {[left |-> left, found |-> [v \in OnChannel |-> 0], begun |-> changed]}
    BY <2>1 DEF Begins
  <2>3. PICK r : r = [left |-> left, found |-> [v \in OnChannel |-> 0], begun |-> changed]
    OBVIOUS
  <2>4. refreshes' = {r}
    BY <1>3, <2>2, <2>3
  <2>5. DOMAIN r = {"left", "found", "begun"} /\ r.found = [v \in OnChannel |-> 0] /\ r.begun = changed
    BY <2>3
  <2>6. changed \in Numbers /\ \A v \in OnChannel : changed[v] <= changes /\ changed[v] <= changed[v]
    BY DEF ChannelIInv, VideosOK, Numbers
  <2>7. RefreshOK(r, changed, floor, changes)
    BY <2>5, <2>6 DEF RefreshOK, Numbers
  <2> QED BY <1>1, <2>4, <2>7 DEF ChannelIInv
<1> QED BY <1>2, <1>3

\* A refresh reads some of the videos.
LEMMA ReadBatchKeeps ==
  ASSUME ChannelIInv, NEW r \in refreshes, ReadBatch(r)
  PROVE  ChannelIInv'
<1>1. UNCHANGED <<changed, cached, writing, floor, stirred, changes>>
  BY DEF ReadBatch
<1>2. refreshes = {r} /\ RefreshOK(r, changed, floor, changes)
  BY DEF ChannelIInv
<1>3. PICK x : x = Head(r.left)
  OBVIOUS
<1>4. PICK rest : rest = Tail(r.left)
  OBVIOUS
<1>5. PICK found : found = [r.found EXCEPT ![x] = changed[x]]
  OBVIOUS
<1>6. PICK n : n = [r EXCEPT !.left = rest, !.found = found]
  OBVIOUS
<1>7. DOMAIN r = {"left", "found", "begun"} /\ r.found \in Numbers /\ r.begun \in Numbers
  BY <1>2 DEF RefreshOK
<1>8. [r EXCEPT !.left = Tail(@), !.found[Head(r.left)] = changed[Head(r.left)]] = n
  BY <1>3, <1>4, <1>5, <1>6, <1>7
<1>9. refreshes' = {n}
  BY <1>2, <1>8 DEF ReadBatch
<1>10. DOMAIN n = {"left", "found", "begun"} /\ n.found = found /\ n.begun = r.begun
  BY <1>6, <1>7
<1>11. changed \in Numbers /\ floor \in Numbers /\ \A v \in OnChannel : changed[v] # 0 => floor[v] <= changed[v]
  BY DEF ChannelIInv, VideosOK
<1>12. found \in Numbers /\ \A v \in OnChannel : found[v] = changed[v] \/ found[v] = r.found[v]
  BY <1>5, <1>7, <1>11 DEF Numbers
<1>13. \A v \in OnChannel : /\ r.begun[v] <= changes /\ (changed[v] # 0 => r.begun[v] <= changed[v])
                            /\ r.found[v] # 0 => r.begun[v] <= r.found[v] /\ floor[v] <= r.found[v]
  BY <1>2 DEF RefreshOK
<1>14. \A v \in OnChannel : found[v] # 0 => r.begun[v] <= found[v] /\ floor[v] <= found[v]
  <2> TAKE v \in OnChannel
  <2>1. CASE found[v] = changed[v]
    BY <1>11, <1>13, <2>1
  <2>2. CASE found[v] = r.found[v]
    BY <1>13, <2>2
  <2> QED BY <1>12, <2>1, <2>2
<1>15. RefreshOK(n, changed, floor, changes)
  BY <1>7, <1>10, <1>12, <1>13, <1>14 DEF RefreshOK
<1> QED BY <1>1, <1>9, <1>15 DEF ChannelIInv

\* A refresh ends and replaces the cache.
LEMMA ReplaceCacheKeeps ==
  ASSUME ChannelIInv, NEW r \in refreshes, ReplaceCache(r)
  PROVE  ChannelIInv'
<1>1. UNCHANGED <<changed, writing, changes>> /\ cached' = r.found /\ floor' = Later(r.begun, floor)
      /\ stirred' = {w.v : w \in writing}
  BY DEF ReplaceCache
<1>2. refreshes = {r} /\ RefreshOK(r, changed, floor, changes)
  BY DEF ChannelIInv
<1>3. refreshes' = {}
  BY <1>2 DEF ReplaceCache
<1>4. r.found \in Numbers /\ r.begun \in Numbers /\ changed \in Numbers /\ floor \in Numbers /\ changes \in Nat
  BY <1>2 DEF RefreshOK, ChannelIInv, VideosOK
<1>5. PICK low : low = Later(r.begun, floor)
  OBVIOUS
<1>6. \A v \in OnChannel : low[v] = r.begun[v] \/ low[v] = floor[v]
  BY <1>5 DEF Later
<1>7. low \in Numbers
  BY <1>4, <1>5 DEF Later, Numbers
<1>8. /\ \A v \in OnChannel : /\ r.begun[v] <= changes /\ (changed[v] # 0 => r.begun[v] <= changed[v])
                              /\ r.found[v] # 0 => r.begun[v] <= r.found[v] /\ floor[v] <= r.found[v]
      /\ \A v \in OnChannel : changed[v] <= changes /\ floor[v] <= changes /\ (changed[v] # 0 => floor[v] <= changed[v])
  BY <1>2 DEF RefreshOK, ChannelIInv, VideosOK
<1>9. \A v \in OnChannel : low[v] <= changes /\ (changed[v] # 0 => low[v] <= changed[v]) /\ (r.found[v] # 0 => low[v] <= r.found[v])
  <2> TAKE v \in OnChannel
  <2>1. CASE low[v] = r.begun[v]
    BY <1>8, <2>1
  <2>2. CASE low[v] = floor[v]
    BY <1>8, <2>2
  <2> QED BY <1>6, <2>1, <2>2
<1>10. VideosOK(changed, low, changes)
  BY <1>4, <1>7, <1>8, <1>9 DEF VideosOK
<1>11. \A w \in writing : WritingOK(w, low, stirred')
  BY <1>1 DEF ChannelIInv, WritingOK
<1> QED BY <1>1, <1>3, <1>4, <1>5, <1>9, <1>10, <1>11 DEF ChannelIInv

\* A refresh fails and leaves the cache.
LEMMA RefreshFailsKeeps ==
  ASSUME ChannelIInv, NEW r \in refreshes, RefreshFails(r)
  PROVE  ChannelIInv'
<1>1. UNCHANGED <<changed, cached, writing, floor, stirred, changes>> /\ refreshes' = {}
  BY DEF RefreshFails, ChannelIInv
<1> QED BY <1>1 DEF ChannelIInv

\* An edit is written into the cache.
LEMMA UpdateCacheKeeps ==
  ASSUME ChannelIInv, NEW w \in writing, UpdateChannelVideoCache(w)
  PROVE  ChannelIInv'
<1>1. UNCHANGED <<changed, refreshes, floor, stirred, changes>> /\ writing' = writing \ {w}
  BY DEF UpdateChannelVideoCache
<1>2. w.v \in OnChannel /\ w.change \in Nat /\ (w.v \notin stirred => floor[w.v] <= w.change) /\ cached \in Numbers
  BY DEF ChannelIInv, WritingOK
<1>3. cached' = cached \/ cached' = [cached EXCEPT ![w.v] = w.change]
  BY DEF UpdateChannelVideoCache
<1>4. cached' \in Numbers /\ \A v \in OnChannel : cached'[v] = cached[v] \/ (v = w.v /\ cached'[v] = w.change)
  BY <1>2, <1>3 DEF Numbers
<1>5. \A v \in OnChannel : v \notin stirred /\ cached'[v] # 0 => floor[v] <= cached'[v]
  BY <1>2, <1>4 DEF ChannelIInv
<1>6. \A x \in writing' : WritingOK(x, floor, stirred)
  BY <1>1 DEF ChannelIInv
<1> QED BY <1>1, <1>4, <1>5, <1>6 DEF ChannelIInv

\* Before the first refresh.
LEMMA CacheInit == ChannelInit => ChannelIInv
<1> SUFFICES ASSUME ChannelInit PROVE ChannelIInv
  OBVIOUS
<1>1. /\ changed = [v \in OnChannel |-> 0] /\ cached = changed /\ floor = changed
      /\ refreshes = {} /\ writing = {} /\ changes = 0
  BY DEF ChannelInit
<1>2. changed \in Numbers
  BY <1>1 DEF Numbers
<1>3. VideosOK(changed, floor, changes)
  BY <1>1, <1>2 DEF VideosOK
<1>4. \A v \in OnChannel : cached[v] = 0
  BY <1>1
<1> QED BY <1>1, <1>2, <1>3, <1>4 DEF ChannelIInv

\* Every operation on the channel.
LEMMA CacheStep == ChannelIInv /\ [ChannelNext]_channelVars => ChannelIInv'
<1> SUFFICES ASSUME ChannelIInv, [ChannelNext]_channelVars PROVE ChannelIInv'
  OBVIOUS
<1>1. CASE UNCHANGED channelVars
  <2>1. UNCHANGED <<changed, cached, refreshes, writing, floor, stirred, changes>>
    BY <1>1 DEF channelVars
  <2> QED BY <2>1 DEF ChannelIInv
<1> QED BY <1>1, StudioEditsKeeps, StudioDeletesKeeps, EditVideoKeeps, GetChannelVideosKeeps, ReadBatchKeeps,
           ReplaceCacheKeeps, RefreshFailsKeeps, UpdateCacheKeeps, Zenon DEF ChannelNext

\* An entry is not older than where the last refresh that ended began.
LEMMA CacheHolds == ChannelIInv => CacheKeepsUp
<1> SUFFICES ASSUME ChannelIInv, NEW v \in OnChannel \ stirred, cached[v] # 0 PROVE cached[v] >= floor[v]
  BY DEF CacheKeepsUp
<1>1. cached[v] \in Nat /\ floor[v] \in Nat /\ floor[v] <= cached[v]
  BY DEF ChannelIInv, VideosOK, Numbers
<1> QED BY <1>1

-----------------------------------------------------------------------------
(* The months of a range.  The splitting takes one month less with every   *)
(* window; the lemmas go from the smallest number of windows for which     *)
(* they would fail.                                                        *)

\* The windows of a listing, and the life of a token.
LEMMA ListingLimits ==
  /\ MAX_RECORDING_WINDOWS \in Nat /\ MAX_RECORDING_WINDOWS > 0
  /\ RECORDING_WINDOW_CONCURRENCY \in Nat /\ RECORDING_WINDOW_CONCURRENCY > 0
  /\ MARGIN \in Nat /\ EXPIRES_IN \in Nat /\ MARGIN < EXPIRES_IN
<1>1. MAX_RECORDING_WINDOWS \in Nat \ {0} /\ RECORDING_WINDOW_CONCURRENCY \in Nat \ {0}
  BY ListingAssumption
<1> QED BY <1>1, ListingAssumption

\* The months.
LEMMA Calendar ==
  /\ Len(MonthFirsts) \in Nat /\ DOMAIN MonthFirsts = 1..Len(MonthFirsts) /\ Len(MonthFirsts) >= 2
  /\ \A m \in 1..Len(MonthFirsts) : MonthFirsts[m] \in Nat
  /\ \A m \in 2..Len(MonthFirsts) : MonthFirsts[m] - MonthFirsts[m - 1] \in 28..31
  /\ \A r \in Ranges : r \in [from : Nat, to : Nat] /\ MonthFirsts[2] <= r.from /\ r.from <= r.to
  BY ListingAssumption, LenProperties, ElementOfSeq

\* A date after the first month is in a month after the first.
LEMMA MonthOfDate ==
  ASSUME NEW d \in Int, MonthFirsts[2] <= d
  PROVE  MonthOf(d) \in 2..Len(MonthFirsts)
<1> DEFINE L == Len(MonthFirsts)
           T == {L - k : k \in {j \in 1..L : MonthFirsts[j] <= d}}
<1>1. L \in Nat /\ L >= 2 /\ DOMAIN MonthFirsts = 1..L
  BY Calendar
<1> HIDE DEF L
<1>2. T \in SUBSET Nat /\ L - 2 \in T
  BY <1>1
<1>3. PICK x \in T : \A y \in T : x <= y
  BY <1>2, LeastNatural
<1>4. PICK m \in 1..L : x = L - m /\ MonthFirsts[m] <= d
  BY <1>3
<1>5. ASSUME NEW k \in 1..L, MonthFirsts[k] <= d PROVE k <= m
  <2>1. L - k \in T
    BY <1>5
  <2>2. L - m <= L - k
    BY <1>3, <1>4, <2>1
  <2> QED BY <1>1, <2>2
<1>6. \E n \in DOMAIN MonthFirsts : MonthFirsts[n] <= d /\ \A k \in DOMAIN MonthFirsts : MonthFirsts[k] <= d => k <= n
  BY <1>1, <1>4, <1>5
<1>7. /\ MonthOf(d) \in DOMAIN MonthFirsts
      /\ \A k \in DOMAIN MonthFirsts : MonthFirsts[k] <= d => k <= MonthOf(d)
  BY <1>6 DEF MonthOf
<1>8. 2 <= MonthOf(d)
  BY <1>1, <1>7
<1> QED BY <1>1, <1>7, <1>8 DEF L

\* A month before a date is at least a day and at most 31 before it.
LEMMA MonthBeforeDate ==
  ASSUME NEW d \in Int, MonthFirsts[2] <= d
  PROVE  MonthBefore(d) \in Int /\ MonthBefore(d) < d /\ d - MonthBefore(d) <= 31
<1>1. PICK m \in 2..Len(MonthFirsts) : m = MonthOf(d)
  BY MonthOfDate
<1>2. m \in 1..Len(MonthFirsts) /\ m - 1 \in 1..Len(MonthFirsts)
  BY Calendar
<1>3. PICK a \in Nat : a = MonthFirsts[m]
  BY <1>2, Calendar
<1>4. PICK b \in Nat : b = MonthFirsts[m - 1]
  BY <1>2, Calendar
<1>5. a - b \in 28..31
  BY <1>3, <1>4, Calendar
<1>6. MonthBefore(d) = b + (d - a)
  BY <1>1, <1>3, <1>4 DEF MonthBefore
<1> QED BY <1>5, <1>6

\* The windows that end at end, the first taken from the month before it and the rest from those
\* that end where it begins.
Month(rest, n, from, to) ==
  [end \in (from - 2)..to |->
     IF end < from \/ n = 0 THEN <<>>
     ELSE LET start == IF MonthBefore(end) > from THEN MonthBefore(end) ELSE from
          IN  <<[from |-> start, to |-> end]>> \o rest[NextEnd(start)]]

Splits(s, k, from, to) == s = [n \in 0..k |-> Month(s[n - 1], n, from, to)]

\* The splitting is defined, by the smallest number of windows for which it would not be.
LEMMA SplitsExist ==
  ASSUME NEW from, NEW to, NEW k \in Nat
  PROVE  \E s : Splits(s, k, from, to)
<1> DEFINE Q == {j \in Nat : ~\E s : Splits(s, j, from, to)}
<1> SUFFICES ASSUME Q # {} PROVE FALSE
  OBVIOUS
<1>1. PICK j \in Q : \A i \in Q : j <= i
  BY LeastNatural
<1>2. CASE j = 0
  <2> DEFINE s == [n \in 0..0 |-> Month(<<>>, 0, from, to)]
  <2>1. \A x, y : Month(x, 0, from, to) = Month(y, 0, from, to)
    BY DEF Month
  <2>2. \A n \in 0..0 : n = 0 /\ Month(<<>>, 0, from, to) = Month(s[n - 1], n, from, to)
    BY <2>1
  <2> HIDE DEF Q
  <2>3. s = [n \in 0..0 |-> Month(s[n - 1], n, from, to)]
    BY <2>2
  <2>4. Splits(s, 0, from, to)
    BY <2>3 DEF Splits
  <2> QED BY <1>2, <2>4 DEF Q
<1>3. CASE j # 0
  <2>1. j \in Nat /\ j - 1 \in Nat /\ j - 1 \notin Q
    BY <1>1, <1>3
  <2>2. PICK s : Splits(s, j - 1, from, to)
    BY <2>1
  <2>3. PICK t : t = [n \in 0..j |-> IF n = j THEN Month(s[j - 1], j, from, to) ELSE s[n]]
    OBVIOUS
  <2>4. \A n \in 0..j : t[n] = Month(t[n - 1], n, from, to)
    <3> TAKE n \in 0..j
    <3>1. CASE n = 0
      <4>1. t[n] = s[0] /\ s[0] = Month(s[0 - 1], 0, from, to)
        BY <1>3, <2>1, <2>2, <2>3, <3>1 DEF Splits
      <4>2. Month(s[0 - 1], 0, from, to) = Month(t[n - 1], 0, from, to)
        BY DEF Month
      <4> QED BY <3>1, <4>1, <4>2
    <3>2. CASE n # 0 /\ n # j
      <4>1. n \in 0..(j - 1) /\ n - 1 \in 0..(j - 1) /\ n - 1 # j
        BY <2>1, <3>2
      <4>2. t[n] = s[n] /\ t[n - 1] = s[n - 1]
        BY <2>1, <2>3, <3>2, <4>1
      <4>3. s[n] = Month(s[n - 1], n, from, to)
        BY <2>2, <4>1 DEF Splits
      <4> QED BY <4>2, <4>3
    <3>3. CASE n = j
      <4>1. t[n] = Month(s[j - 1], j, from, to) /\ t[j - 1] = s[j - 1]
        BY <1>3, <2>1, <2>3, <3>3
      <4> QED BY <3>3, <4>1
    <3> QED BY <3>1, <3>2, <3>3
  <2>5. t = [n \in 0..j |-> t[n]]
    BY <2>3
  <2>6. Splits(t, j, from, to)
    BY <2>4, <2>5 DEF Splits
  <2> QED BY <1>1, <2>6
<1> QED BY <1>2, <1>3

\* What n windows up to end are: they follow each other, none is longer than a month, and they
\* reach back to from or are as many as may be asked for.
Window == [from : Int, to : Int]
Windowed(w, n, end, from) ==
  /\ w \in Seq(Window) /\ Len(w) <= n
  /\ \A i \in 1..Len(w) : w[i].to - w[i].from <= 31
  /\ end < from \/ n = 0 => Len(w) = 0
  /\ end >= from /\ n > 0 =>
       /\ Len(w) > 0 /\ from <= w[Len(w)].from /\ w[Len(w)].from <= end
       /\ w[Len(w)].from = from \/ Len(w) = n
       /\ \A d \in w[Len(w)].from..end : \E i \in 1..Len(w) : w[i].from <= d /\ d <= w[i].to

\* A window of a month before those that end where it begins.
LEMMA OneMoreWindow ==
  ASSUME NEW from \in Int, NEW end \in Int, NEW start \in Int, NEW n \in Nat, n > 0,
         from <= start, start <= end, end - start <= 31,
         NEW rest, Windowed(rest, n - 1, start - 1, from)
  PROVE  Windowed(<<[from |-> start, to |-> end]>> \o rest, n, end, from)
<1>1. PICK w : w = <<[from |-> start, to |-> end]>> \o rest
  OBVIOUS
<1>2. PICK x : x = [from |-> start, to |-> end] /\ x \in Window /\ x.from = start /\ x.to = end
  <2>1. [from |-> start, to |-> end] \in Window
    BY DEF Window
  <2> QED BY <2>1
<1>3. rest \in Seq(Window) /\ Len(rest) \in Nat /\ \A i \in 1..Len(rest) : rest[i] \in Window
  BY LenProperties, ElementOfSeq DEF Windowed
<1>4. PICK L \in Nat : L = Len(rest)
  BY <1>3
<1>5. <<x>> \in Seq(Window) /\ Len(<<x>>) = 1 /\ <<x>>[1] = x
  BY <1>2
<1>6. w \in Seq(Window) /\ Len(w) = 1 + L
      /\ \A i \in 1..(1 + L) : w[i] = IF i <= 1 THEN <<x>>[i] ELSE rest[i - 1]
  BY <1>1, <1>2, <1>3, <1>4, <1>5, ConcatProperties
<1>7. w[1] = x /\ \A i \in 1..L : i + 1 \in 1..(1 + L) /\ w[i + 1] = rest[i]
  <2>1. w[1] = x
    <3>1. 1 \in 1..(1 + L) /\ w[1] = <<x>>[1]
      BY <1>6
    <3> QED BY <1>5, <3>1
  <2>2. ASSUME NEW i \in 1..L PROVE i + 1 \in 1..(1 + L) /\ w[i + 1] = rest[i]
    <3>1. PICK j \in 1..(1 + L) : j = i + 1 /\ ~(j <= 1) /\ j - 1 = i
      OBVIOUS
    <3>2. w[j] = rest[j - 1]
      BY <1>6, <3>1
    <3> QED BY <3>1, <3>2
  <2> QED BY <2>1, <2>2
<1>8. L <= n - 1 /\ \A i \in 1..L : rest[i].to - rest[i].from <= 31
  BY <1>4 DEF Windowed
<1>9. \A i \in 1..(1 + L) : i = 1 \/ (i - 1 \in 1..L /\ w[i] = rest[i - 1])
  BY <1>6
<1>10. \A i \in 1..(1 + L) : w[i].to - w[i].from <= 31
  <2> TAKE i \in 1..(1 + L)
  <2>1. CASE i = 1
    BY <1>2, <1>7, <2>1
  <2>2. CASE i # 1
    <3>1. i - 1 \in 1..L /\ w[i] = rest[i - 1]
      BY <1>9, <2>2
    <3>2. PICK j \in 1..L : j = i - 1
      BY <3>1
    <3> QED BY <1>8, <3>1, <3>2
  <2> QED BY <2>1, <2>2
<1>11. ASSUME L = 0
       PROVE  /\ from <= w[1 + L].from /\ w[1 + L].from <= end
              /\ w[1 + L].from = from \/ 1 + L = n
              /\ \A d \in w[1 + L].from..end : \E i \in 1..(1 + L) : w[i].from <= d /\ d <= w[i].to
  <2>1. w[1 + L] = x
    BY <1>7, <1>11
  <2>2. start - 1 < from \/ n - 1 = 0
    BY <1>4, <1>11 DEF Windowed
  <2>3. start = from \/ 1 + L = n
    BY <1>11, <2>2
  <2>4. 1 \in 1..(1 + L) /\ w[1].from = start /\ w[1].to = end
    BY <1>2, <1>7
  <2>5. \A d \in start..end : \E i \in 1..(1 + L) : w[i].from <= d /\ d <= w[i].to
    BY <2>4
  <2> QED BY <1>2, <2>1, <2>3, <2>5
<1>12. ASSUME L > 0
       PROVE  /\ from <= w[1 + L].from /\ w[1 + L].from <= end
              /\ w[1 + L].from = from \/ 1 + L = n
              /\ \A d \in w[1 + L].from..end : \E i \in 1..(1 + L) : w[i].from <= d /\ d <= w[i].to
  <2>1. L \in 1..L /\ w[1 + L] = rest[L] /\ rest[L] \in Window
    BY <1>3, <1>4, <1>7, <1>12
  <2>2. start - 1 >= from /\ n - 1 > 0
    BY <1>4, <1>12 DEF Windowed
  <2>3. /\ from <= rest[L].from /\ rest[L].from <= start - 1
        /\ rest[L].from = from \/ L = n - 1
        /\ \A d \in rest[L].from..(start - 1) : \E i \in 1..L : rest[i].from <= d /\ d <= rest[i].to
    BY <1>4, <2>2 DEF Windowed
  <2>4. PICK f \in Int : f = rest[L].from
    BY <2>1 DEF Window
  <2>5. 1 \in 1..(1 + L) /\ w[1].from = start /\ w[1].to = end
    BY <1>2, <1>7
  <2>6. ASSUME NEW d \in f..end PROVE \E i \in 1..(1 + L) : w[i].from <= d /\ d <= w[i].to
    <3>1. CASE d >= start
      BY <2>5, <3>1
    <3>2. CASE d < start
      <4>1. d \in f..(start - 1)
        BY <2>4, <3>2
      <4>2. PICK i \in 1..L : rest[i].from <= d /\ d <= rest[i].to
        BY <2>3, <2>4, <4>1
      <4>3. i + 1 \in 1..(1 + L) /\ w[i + 1] = rest[i]
        BY <1>7
      <4>4. PICK j \in 1..(1 + L) : w[j] = rest[i]
        BY <4>3
      <4> QED BY <4>2, <4>4
    <3> QED BY <2>4, <3>1, <3>2
  <2>7. f <= end /\ (f = from \/ 1 + L = n)
    BY <2>3, <2>4
  <2> QED BY <2>1, <2>3, <2>4, <2>6, <2>7
<1>13. 1 + L <= n /\ 1 + L > 0 /\ ~(end < from) /\ n # 0
  BY <1>8
<1>14. Windowed(w, n, end, from)
  <2>1. L = 0 \/ L > 0
    OBVIOUS
  <2> QED BY <1>6, <1>10, <1>11, <1>12, <1>13, <2>1 DEF Windowed
<1> QED BY <1>1, <1>14

\* Every prefix of the splitting is as wanted.
LEMMA SplitsWindowed ==
  ASSUME NEW from \in Int, NEW to \in Int, MonthFirsts[2] <= from, NEW k \in Nat, NEW s, Splits(s, k, from, to)
  PROVE  \A n \in 0..k, end \in (from - 2)..to : Windowed(s[n][end], n, end, from)
<1> DEFINE Q == {n \in 0..k : \E end \in (from - 2)..to : ~Windowed(s[n][end], n, end, from)}
<1> SUFFICES ASSUME Q # {} PROVE FALSE
  OBVIOUS
<1>1. Q \in SUBSET Nat
  OBVIOUS
<1>2. PICK n \in Q : \A i \in Q : n <= i
  BY <1>1, LeastNatural
<1>3. PICK end \in (from - 2)..to : ~Windowed(s[n][end], n, end, from)
  BY <1>2
<1>4. n \in 0..k /\ n \in Nat /\ end \in Int
  BY <1>2, <1>3
<1>5. s[n] = Month(s[n - 1], n, from, to)
  BY <1>4 DEF Splits
<1>6. CASE end < from \/ n = 0
  <2>1. s[n][end] = <<>>
    BY <1>3, <1>5, <1>6 DEF Month
  <2>2. <<>> \in Seq(Window) /\ Len(<<>>) = 0
    BY EmptySeq
  <2>3. Windowed(<<>>, n, end, from)
    BY <1>4, <1>6, <2>2 DEF Windowed
  <2> QED BY <1>3, <2>1, <2>3
<1>7. CASE ~(end < from \/ n = 0)
  <2>1. MonthFirsts[2] \in Int
    <3>1. 2 \in 1..Len(MonthFirsts)
      BY Calendar
    <3> QED BY <3>1, Calendar
  <2>2. MonthFirsts[2] <= end
    BY <1>4, <1>7, <2>1
  <2>3. MonthBefore(end) \in Int /\ MonthBefore(end) < end /\ end - MonthBefore(end) <= 31
    BY <1>4, <2>2, MonthBeforeDate
  <2>4. PICK b \in Int : b = MonthBefore(end)
    BY <2>3
  <2>5. PICK start \in Int : start = (IF b > from THEN b ELSE from)
    OBVIOUS
  <2>6. from <= start /\ start <= end /\ end - start <= 31 /\ start - 1 \in (from - 2)..to
    BY <1>3, <1>4, <1>7, <2>3, <2>4, <2>5
  <2>7. s[n][end] = <<[from |-> start, to |-> end]>> \o s[n - 1][start - 1]
    BY <1>3, <1>5, <1>7, <2>4, <2>5 DEF Month, NextEnd
  <2>8. n - 1 \in 0..k /\ ~(n <= n - 1)
    BY <1>4, <1>7
  <2>9. n - 1 \notin Q
    BY <1>2, <2>8
  <2>10. Windowed(s[n - 1][start - 1], n - 1, start - 1, from)
    BY <2>6, <2>8, <2>9
  <2>11. n > 0
    BY <1>4, <1>7
  <2>12. Windowed(<<[from |-> start, to |-> end]>> \o s[n - 1][start - 1], n, end, from)
    BY <1>4, <2>6, <2>10, <2>11, OneMoreWindow
  <2> QED BY <1>3, <2>7, <2>12
<1> QED BY <1>6, <1>7

\* The windows of a range.
LEMMA RangeWindowed ==
  ASSUME NEW r \in Ranges
  PROVE  Windowed(SplitIntoMonthWindows(r.from, r.to), MAX_RECORDING_WINDOWS, r.to, r.from)
<1>1. PICK from \in Int : from = r.from
  BY Calendar
<1>2. PICK to \in Int : to = r.to
  BY Calendar
<1>3. MonthFirsts[2] <= from /\ from <= to
  BY <1>1, <1>2, Calendar
<1>4. PICK k \in Nat : k = MAX_RECORDING_WINDOWS
  BY ListingLimits
<1> DEFINE split == CHOOSE s : Splits(s, k, from, to)
<1>5. Splits(split, k, from, to)
  BY SplitsExist
<1>6. SplitIntoMonthWindows(from, to) = split[k][to]
  BY <1>4 DEF SplitIntoMonthWindows, Splits, Month
<1>7. k \in 0..k /\ to \in (from - 2)..to
  BY <1>3
<1> HIDE DEF split
<1>8. Windowed(split[k][to], k, to, from)
  BY <1>3, <1>5, <1>7, SplitsWindowed
<1> QED BY <1>1, <1>2, <1>4, <1>6, <1>8

-----------------------------------------------------------------------------
(* The list of recordings.  A month of the request is waited for, or what  *)
(* was there of it when the request came has been got.  A token is not     *)
(* older than the last moment at which its account was connected.          *)

WindowsOf(l) == SplitIntoMonthWindows(l.range.from, l.range.to)

IssuedOK(t, asked, last) ==
  t.of \in ZoomAccounts /\ t.issued \in Int /\ asked <= t.issued /\ t.issued <= last[t.of]

KeptOK(t, last) ==
  /\ t.of \in ZoomAccounts /\ t.issued \in Int /\ t.issued <= last[t.of]
  /\ t.expiresAt \in Int /\ t.expiresAt <= t.issued + EXPIRES_IN - MARGIN

ServesFor(l) == l.age \in Int /\ l.left \in Int /\ l.age < EXPIRES_IN - MARGIN /\ l.left > MARGIN

AsksOK(l, late) ==
  /\ l.range \in Ranges /\ l.before \subseteq l.range.from..l.range.to
  /\ late = TRUE \/ l.before \cap LateDays = {}

MonthsOK(l) ==
  /\ l.next \in Nat /\ 1 <= l.next /\ l.next <= Len(WindowsOf(l)) + 1 /\ l.batch \subseteq 1..(l.next - 1)
  /\ \A i \in 1..(l.next - 1) : i \notin l.batch =>
       \A d \in l.before : WindowsOf(l)[i].from <= d /\ d <= WindowsOf(l)[i].to => d \in l.got

RequestOK(l, last, hour, late) ==
  /\ DOMAIN l = {"step", "range", "token", "asked", "batch", "next", "got", "before", "age", "left"}
  /\ ServesFor(l) /\ l.asked \in Int /\ l.asked <= hour
  /\ l.step = "waits" => IssuedOK(l.token, l.asked, last)
  /\ l.step # "none" => AsksOK(l, late) /\ MonthsOK(l)
  /\ l.step = "answered" => l.batch = {} /\ l.next > Len(WindowsOf(l))

ConfiguredOK(last, hour, a) ==
  /\ hour \in Nat /\ last \in [ZoomAccounts -> Int] /\ \A x \in ZoomAccounts : last[x] <= hour
  /\ a # NotConnected => a \in ZoomAccounts /\ last[a] = hour

ListIInv ==
  /\ ConfiguredOK(lastConfigured, moment, zoomAccount)
  /\ zoomToken # NotConnected => KeptOK(zoomToken, lastConfigured)
  /\ RequestOK(listing, lastConfigured, moment, lateThere)

\* A request that is not made yet.
LEMMA NothingAsked ==
  \E n : /\ n = NoListing
         /\ DOMAIN n = {"step", "range", "token", "asked", "batch", "next", "got", "before", "age", "left"}
         /\ n.step = "none" /\ n.asked = 0 /\ n.batch = {} /\ n.next = 1 /\ ServesFor(n)
<1> DEFINE c == CHOOSE r \in Ranges : TRUE
<1>2. PICK n : n = [step |-> "none", range |-> c, token |-> NotConnected, asked |-> 0, batch |-> {}, next |-> 1,
                    got |-> {}, before |-> {}, age |-> 0, left |-> EXPIRES_IN]
  OBVIOUS
<1>3. n = NoListing
  BY <1>2, Zenon DEF NoListing
<1> HIDE DEF c
<1>4. /\ DOMAIN n = {"step", "range", "token", "asked", "batch", "next", "got", "before", "age", "left"}
      /\ n.step = "none" /\ n.asked = 0 /\ n.batch = {} /\ n.next = 1 /\ n.age = 0 /\ n.left = EXPIRES_IN
  BY <1>2
<1>5. ServesFor(n)
  BY <1>4, ListingLimits DEF ServesFor
<1> QED BY <1>3, <1>4, <1>5, Zenon

\* Nothing is wrong with it.
LEMMA NothingAskedOK ==
  ASSUME NEW last, NEW hour \in Nat, NEW late
  PROVE  RequestOK(NoListing, last, hour, late)
<1>1. PICK n : /\ n = NoListing
               /\ DOMAIN n = {"step", "range", "token", "asked", "batch", "next", "got", "before", "age", "left"}
               /\ n.step = "none" /\ n.asked = 0 /\ n.batch = {} /\ n.next = 1 /\ ServesFor(n)
  BY NothingAsked, Zenon
<1>2. RequestOK(n, last, hour, late)
  BY <1>1 DEF RequestOK
<1> QED BY <1>1, <1>2

\* A list is asked for.
LEMMA ListRecordingsKeeps ==
  ASSUME ListIInv, NEW r \in Ranges, ListRecordings(r)
  PROVE  ListIInv'
<1>0. PICK n : /\ n = NoListing
               /\ DOMAIN n = {"step", "range", "token", "asked", "batch", "next", "got", "before", "age", "left"}
               /\ n.step = "none" /\ n.asked = 0 /\ n.batch = {} /\ n.next = 1 /\ ServesFor(n)
  BY NothingAsked, Zenon
<1>1. PICK l : l = [n EXCEPT !.step = "token", !.range = r, !.before = There(r)]
  OBVIOUS
<1>2. listing' = l /\ UNCHANGED <<moment, zoomAccount, lateThere, lastConfigured, zoomToken>>
  BY <1>0, <1>1 DEF ListRecordings, Others
<1>3. /\ DOMAIN l = {"step", "range", "token", "asked", "batch", "next", "got", "before", "age", "left"}
      /\ l.step = "token" /\ l.range = r /\ l.before = There(r) /\ l.asked = 0 /\ l.batch = {} /\ l.next = 1
      /\ l.age = n.age /\ l.left = n.left
  BY <1>0, <1>1
<1>4. ServesFor(l)
  BY <1>0, <1>3 DEF ServesFor
<1>5. There(r) \subseteq r.from..r.to /\ (lateThere = TRUE \/ There(r) \cap LateDays = {})
  <2>1. CASE lateThere
    BY <2>1 DEF There
  <2>2. CASE ~lateThere
    BY <2>2 DEF There
  <2> QED BY <2>1, <2>2
<1>6. AsksOK(l, lateThere)
  BY <1>3, <1>5 DEF AsksOK
<1>7. MonthsOK(l)
  <2>1. Len(WindowsOf(l)) \in Nat
    BY <1>3, RangeWindowed, LenProperties DEF WindowsOf, Windowed
  <2> QED BY <1>3, <2>1 DEF MonthsOK
<1>8. moment \in Nat
  BY DEF ListIInv, ConfiguredOK
<1>9. RequestOK(l, lastConfigured, moment, lateThere)
  BY <1>3, <1>4, <1>6, <1>7, <1>8 DEF RequestOK
<1> QED BY <1>2, <1>9 DEF ListIInv

\* What does not speak of a request's token and times.
SameMonths(l, m) ==
  /\ DOMAIN m = DOMAIN l /\ m.range = l.range /\ m.before = l.before
  /\ m.batch = l.batch /\ m.next = l.next /\ m.got = l.got

\* It keeps what was asked for and what was got.
LEMMA MonthsCarry ==
  ASSUME NEW l, NEW m, SameMonths(l, m), NEW late
  PROVE  (AsksOK(l, late) => AsksOK(m, late)) /\ (MonthsOK(l) => MonthsOK(m))
  BY DEF SameMonths, AsksOK, MonthsOK, WindowsOf

\* A token is taken from memory: it serves for the margin, and was connected within its life.
LEMMA GetAccessTokenKeeps ==
  ASSUME ListIInv, GetAccessToken
  PROVE  ListIInv'
<1>1. UNCHANGED <<moment, zoomAccount, lateThere, lastConfigured, zoomToken>> /\ listing.step = "token"
  BY DEF GetAccessToken, Others
<1>2. PICK l : l = listing
  OBVIOUS
<1>3. RequestOK(l, lastConfigured, moment, lateThere) /\ l.step = "token" /\ moment \in Nat
  BY <1>1, <1>2 DEF ListIInv, ConfiguredOK
<1>4. CASE listing' = [listing EXCEPT !.step = "asks", !.asked = moment]
  <2>1. PICK m : m = [l EXCEPT !.step = "asks", !.asked = moment]
    OBVIOUS
  <2>2. /\ DOMAIN m = DOMAIN l /\ m.step = "asks" /\ m.asked = moment
        /\ m.age = l.age /\ m.left = l.left /\ SameMonths(l, m)
    BY <1>3, <2>1 DEF RequestOK, SameMonths
  <2>3. ServesFor(m)
    BY <1>3, <2>2 DEF RequestOK, ServesFor
  <2>4. RequestOK(m, lastConfigured, moment, lateThere)
    BY <1>3, <2>2, <2>3, MonthsCarry DEF RequestOK
  <2> QED BY <1>1, <1>2, <1>4, <2>1, <2>4 DEF ListIInv
<1>5. CASE /\ zoomToken # NotConnected /\ moment < zoomToken.expiresAt
           /\ listing' = [ListsWith(zoomToken) EXCEPT !.age = moment - lastConfigured[zoomToken.of],
                                                     !.left = zoomToken.issued + EXPIRES_IN - moment]
  <2>1. PICK m : m = [l EXCEPT !.step = "lists", !.token = zoomToken]
    OBVIOUS
  <2>2. PICK p : p = [m EXCEPT !.age = moment - lastConfigured[zoomToken.of], !.left = zoomToken.issued + EXPIRES_IN - moment]
    OBVIOUS
  <2>3. DOMAIN m = DOMAIN l /\ m.step = "lists" /\ m.asked = l.asked /\ SameMonths(l, m)
    BY <1>3, <2>1 DEF RequestOK, SameMonths
  <2>4. /\ DOMAIN p = DOMAIN l /\ p.step = "lists" /\ p.asked = l.asked /\ SameMonths(l, p)
        /\ p.age = moment - lastConfigured[zoomToken.of] /\ p.left = zoomToken.issued + EXPIRES_IN - moment
    BY <1>3, <2>2, <2>3 DEF RequestOK, SameMonths
  <2>5. KeptOK(zoomToken, lastConfigured)
    BY <1>5 DEF ListIInv
  <2>6. PICK i \in Int : i = zoomToken.issued
    BY <2>5 DEF KeptOK
  <2>7. PICK e \in Int : e = zoomToken.expiresAt
    BY <2>5 DEF KeptOK
  <2>8. PICK c \in Int : c = lastConfigured[zoomToken.of]
    BY <2>5 DEF KeptOK, ListIInv, ConfiguredOK
  <2>9. i <= c /\ e <= i + EXPIRES_IN - MARGIN /\ moment < e
    BY <1>5, <2>5, <2>6, <2>7, <2>8 DEF KeptOK
  <2>10. p.age = moment - c /\ p.left = i + EXPIRES_IN - moment
    BY <2>4, <2>6, <2>8
  <2>11. ServesFor(p)
    BY <1>3, <2>9, <2>10, ListingLimits DEF ServesFor
  <2>12. RequestOK(p, lastConfigured, moment, lateThere)
    BY <1>3, <2>4, <2>11, MonthsCarry DEF RequestOK
  <2>13. listing' = p
    BY <1>2, <1>5, <2>1, <2>2 DEF ListsWith
  <2> QED BY <1>1, <2>12, <2>13 DEF ListIInv
<1> QED BY <1>4, <1>5 DEF GetAccessToken

\* Zoom issues a token for the account that is connected.
LEMMA IssueTokenKeeps ==
  ASSUME ListIInv, IssueToken
  PROVE  ListIInv'
<1>1. PICK l : l = listing /\ l.step = "asks"
  BY DEF IssueToken
<1>2. RequestOK(l, lastConfigured, moment, lateThere) /\ moment \in Nat
  BY <1>1 DEF ListIInv, ConfiguredOK
<1>3. PICK t : t = [of |-> zoomAccount, issued |-> moment] /\ t.of = zoomAccount /\ t.issued = moment
  <2>1. PICK t : t = [of |-> zoomAccount, issued |-> moment]
    OBVIOUS
  <2>2. t.of = zoomAccount /\ t.issued = moment
    BY <2>1
  <2> QED BY <2>1, <2>2
<1>4. PICK m : m = [l EXCEPT !.step = "waits", !.token = t]
  OBVIOUS
<1>5. listing' = m /\ UNCHANGED <<moment, zoomAccount, lateThere, lastConfigured, zoomToken>> /\ zoomAccount # NotConnected
  BY <1>1, <1>3, <1>4 DEF IssueToken, Others
<1>6. /\ DOMAIN m = DOMAIN l /\ m.step = "waits" /\ m.asked = l.asked /\ m.token = t
      /\ m.age = l.age /\ m.left = l.left /\ SameMonths(l, m)
  BY <1>2, <1>4 DEF RequestOK, SameMonths
<1>7. ServesFor(m)
  BY <1>2, <1>6 DEF RequestOK, ServesFor
<1>8. IssuedOK(m.token, m.asked, lastConfigured)
  BY <1>2, <1>3, <1>5, <1>6 DEF IssuedOK, RequestOK, ListIInv, ConfiguredOK
<1>9. RequestOK(m, lastConfigured, moment, lateThere)
  BY <1>1, <1>2, <1>6, <1>7, <1>8, MonthsCarry DEF RequestOK
<1> QED BY <1>5, <1>9 DEF ListIInv

\* A token comes, and is remembered until a margin before it can expire.
LEMMA TokenComesKeeps ==
  ASSUME ListIInv, TokenComes
  PROVE  ListIInv'
<1>1. PICK l : l = listing /\ l.step = "waits"
  BY DEF TokenComes
<1>2. RequestOK(l, lastConfigured, moment, lateThere)
  BY <1>1 DEF ListIInv
<1>3. PICK k : k = [of |-> l.token.of, issued |-> l.token.issued, expiresAt |-> ExpiresAt(l.asked)]
  OBVIOUS
<1>4. k.of = l.token.of /\ k.issued = l.token.issued /\ k.expiresAt = l.asked + EXPIRES_IN - MARGIN
  BY <1>3 DEF ExpiresAt
<1>5. PICK m : m = [l EXCEPT !.step = "lists", !.token = l.token]
  OBVIOUS
<1>6. listing' = m /\ zoomToken' = k /\ UNCHANGED <<moment, zoomAccount, lateThere, lastConfigured>>
  BY <1>1, <1>3, <1>5 DEF TokenComes, Others, ListsWith
<1>7. /\ DOMAIN m = DOMAIN l /\ m.step = "lists" /\ m.asked = l.asked
      /\ m.age = l.age /\ m.left = l.left /\ SameMonths(l, m)
  BY <1>2, <1>5 DEF RequestOK, SameMonths
<1>8. ServesFor(m)
  BY <1>2, <1>7 DEF RequestOK, ServesFor
<1>9. RequestOK(m, lastConfigured, moment, lateThere)
  BY <1>1, <1>2, <1>7, <1>8, MonthsCarry DEF RequestOK
<1>10. IssuedOK(l.token, l.asked, lastConfigured) /\ l.asked \in Int
  BY <1>1, <1>2 DEF RequestOK
<1>11. PICK i \in Int : i = l.token.issued /\ l.asked <= i
  BY <1>10 DEF IssuedOK
<1>12. PICK a \in Int : a = l.asked
  BY <1>10
<1>13. k.expiresAt \in Int /\ k.expiresAt <= k.issued + EXPIRES_IN - MARGIN
  BY <1>4, <1>11, <1>12, ListingLimits
<1>14. KeptOK(k, lastConfigured)
  BY <1>4, <1>10, <1>13 DEF KeptOK, IssuedOK
<1> QED BY <1>6, <1>9, <1>14 DEF ListIInv

\* The next months are asked for, together.
LEMMA NextBatchKeeps ==
  ASSUME ListIInv, NextBatch
  PROVE  ListIInv'
<1>1. PICK l : l = listing /\ l.step = "lists" /\ l.batch = {} /\ l.next <= Len(WindowsOf(l))
  BY DEF NextBatch, Windows, WindowsOf
<1>2. RequestOK(l, lastConfigured, moment, lateThere)
  BY <1>1 DEF ListIInv
<1>3. PICK w : w = WindowsOf(l)
  OBVIOUS
<1>4. AsksOK(l, lateThere) /\ MonthsOK(l) /\ l.range \in Ranges
  BY <1>1, <1>2 DEF RequestOK, AsksOK
<1>5. PICK L \in Nat : L = Len(w) /\ DOMAIN w = 1..L
  BY <1>3, <1>4, RangeWindowed, LenProperties DEF WindowsOf, Windowed
<1>6. PICK n \in Nat : n = l.next /\ 1 <= n /\ n <= L
  BY <1>1, <1>3, <1>4, <1>5 DEF MonthsOK
<1>7. PICK c \in Nat : c = RECORDING_WINDOW_CONCURRENCY /\ c > 0
  BY ListingLimits
<1>8. PICK e \in Nat : e = (IF n + c - 1 <= L THEN n + c - 1 ELSE L)
  BY <1>6, <1>7
<1>9. n <= e /\ e <= L /\ (n..(n + c - 1)) \cap (1..L) = n..e
  BY <1>6, <1>7, <1>8
<1>10. Cardinality(n..e) = e - n + 1
  <2>1. n \in Int /\ e \in Int /\ ~(n > e)
    BY <1>9
  <2> QED BY <2>1, FS_Interval
<1>11. PICK m : m = [l EXCEPT !.batch = n..e, !.next = e + 1]
  OBVIOUS
<1>12. listing' = m /\ UNCHANGED <<moment, zoomAccount, lateThere, lastConfigured, zoomToken>>
  <2>1. /\ listing' = [l EXCEPT !.batch = (n..(n + c - 1)) \cap DOMAIN w,
                               !.next = n + Cardinality((n..(n + c - 1)) \cap DOMAIN w)]
        /\ UNCHANGED <<moment, zoomAccount, lateThere, lastConfigured, zoomToken>>
    BY <1>1, <1>3, <1>6, <1>7, Zenon DEF NextBatch, Others, Windows, WindowsOf
  <2>2. n + (e - n + 1) = e + 1
    BY <1>8
  <2> QED BY <1>5, <1>9, <1>10, <1>11, <2>1, <2>2, Zenon
<1>13. /\ DOMAIN m = DOMAIN l /\ m.step = "lists" /\ m.asked = l.asked /\ m.range = l.range /\ m.before = l.before
       /\ m.age = l.age /\ m.left = l.left /\ m.got = l.got /\ m.batch = n..e /\ m.next = e + 1
  BY <1>1, <1>2, <1>11 DEF RequestOK
<1>14. ServesFor(m) /\ AsksOK(m, lateThere) /\ WindowsOf(m) = WindowsOf(l)
  BY <1>2, <1>4, <1>13 DEF RequestOK, ServesFor, AsksOK, WindowsOf
<1>15. ASSUME NEW i \in 1..((e + 1) - 1), i \notin n..e, NEW d \in l.before, w[i].from <= d, d <= w[i].to
       PROVE  d \in l.got
  <2>1. i \in 1..(n - 1)
    BY <1>6, <1>9, <1>15
  <2> QED BY <1>1, <1>3, <1>4, <1>6, <1>15, <2>1 DEF MonthsOK
<1>16. MonthsOK(m)
  <2>1. e + 1 \in Nat /\ 1 <= e + 1 /\ e + 1 <= L + 1 /\ n..e \subseteq 1..((e + 1) - 1)
    BY <1>6, <1>8, <1>9
  <2> QED BY <1>3, <1>5, <1>13, <1>14, <1>15, <2>1 DEF MonthsOK
<1>17. RequestOK(m, lastConfigured, moment, lateThere)
  BY <1>2, <1>13, <1>14, <1>16 DEF RequestOK
<1> QED BY <1>12, <1>17 DEF ListIInv

\* A month has come, with all that is there of it.
LEMMA FetchWindowKeeps ==
  ASSUME ListIInv, NEW i \in 1..MAX_RECORDING_WINDOWS, FetchWindow(i)
  PROVE  ListIInv'
<1>1. PICK l : l = listing /\ i \in l.batch
  BY DEF FetchWindow
<1>2. RequestOK(l, lastConfigured, moment, lateThere)
  BY <1>1 DEF ListIInv
<1>3. PICK w : w = WindowsOf(l)
  OBVIOUS
<1>4. PICK m : m = [l EXCEPT !.batch = l.batch \ {i}, !.got = l.got \cup There(w[i])]
  OBVIOUS
<1>5. listing' = m /\ UNCHANGED <<moment, zoomAccount, lateThere, lastConfigured, zoomToken>>
  BY <1>1, <1>3, <1>4, Zenon DEF FetchWindow, Others, Windows, WindowsOf
<1>6. /\ DOMAIN m = DOMAIN l /\ m.step = l.step /\ m.asked = l.asked /\ m.range = l.range /\ m.before = l.before
      /\ m.age = l.age /\ m.left = l.left /\ m.token = l.token /\ m.next = l.next
      /\ m.got = l.got \cup There(w[i]) /\ m.batch = l.batch \ {i}
  BY <1>2, <1>4 DEF RequestOK
<1>7. ServesFor(m) /\ WindowsOf(m) = WindowsOf(l)
  BY <1>2, <1>6 DEF RequestOK, ServesFor, WindowsOf
<1>8. ASSUME l.step # "none" PROVE AsksOK(m, lateThere) /\ MonthsOK(m)
  <2>1. AsksOK(l, lateThere) /\ MonthsOK(l)
    BY <1>2, <1>8 DEF RequestOK
  <2>2. AsksOK(m, lateThere)
    BY <1>6, <2>1 DEF AsksOK
  <2>3. ASSUME NEW j \in 1..(l.next - 1), j \notin l.batch \ {i}, NEW d \in l.before, w[j].from <= d, d <= w[j].to
        PROVE  d \in m.got
    <3>1. CASE j = i
      <4>1. d \in Int
        <5>1. d \in l.range.from..l.range.to
          BY <2>1 DEF AsksOK
        <5> QED BY <5>1
      <4>2. w[j].from \in Int /\ w[j].to \in Int
        <5>1. w \in Seq(Window) /\ Len(w) \in Nat
          BY <1>3, <2>1, RangeWindowed, LenProperties DEF AsksOK, WindowsOf, Windowed
        <5>2. j \in 1..Len(w)
          BY <1>3, <2>1, <2>3, <5>1 DEF MonthsOK
        <5>3. w[j] \in Window
          BY <5>1, <5>2, ElementOfSeq
        <5> QED BY <5>3 DEF Window
      <4>3. d \in w[j].from..w[j].to
        BY <2>3, <4>1, <4>2
      <4>4. lateThere = TRUE \/ d \notin LateDays
        BY <2>1, <2>3 DEF AsksOK
      <4>5. d \in There(w[j])
        BY <4>3, <4>4 DEF There
      <4> QED BY <1>6, <3>1, <4>5
    <3>2. CASE j # i
      BY <1>3, <1>6, <2>1, <2>3, <3>2 DEF MonthsOK
    <3> QED BY <3>1, <3>2
  <2>4. MonthsOK(m)
    BY <1>3, <1>6, <1>7, <2>1, <2>3 DEF MonthsOK
  <2> QED BY <2>2, <2>4
<1>9. RequestOK(m, lastConfigured, moment, lateThere)
  BY <1>1, <1>2, <1>6, <1>7, <1>8 DEF RequestOK
<1> QED BY <1>5, <1>9 DEF ListIInv

\* No month is waited for, nor left.
LEMMA ListAnsweredKeeps ==
  ASSUME ListIInv, ListAnswered
  PROVE  ListIInv'
<1>1. PICK l : l = listing /\ l.step = "lists" /\ l.batch = {} /\ l.next > Len(WindowsOf(l))
  BY DEF ListAnswered, Windows, WindowsOf
<1>2. RequestOK(l, lastConfigured, moment, lateThere)
  BY <1>1 DEF ListIInv
<1>3. PICK m : m = [l EXCEPT !.step = "answered"]
  OBVIOUS
<1>4. listing' = m /\ UNCHANGED <<moment, zoomAccount, lateThere, lastConfigured, zoomToken>>
  BY <1>1, <1>3 DEF ListAnswered, Others
<1>5. /\ DOMAIN m = DOMAIN l /\ m.step = "answered" /\ m.asked = l.asked /\ m.age = l.age /\ m.left = l.left
      /\ m.batch = l.batch /\ m.next = l.next /\ m.range = l.range /\ SameMonths(l, m)
  BY <1>2, <1>3 DEF RequestOK, SameMonths
<1>6. ServesFor(m) /\ WindowsOf(m) = WindowsOf(l)
  BY <1>2, <1>5 DEF RequestOK, ServesFor, WindowsOf
<1>7. RequestOK(m, lastConfigured, moment, lateThere)
  BY <1>1, <1>2, <1>5, <1>6, MonthsCarry DEF RequestOK
<1> QED BY <1>4, <1>7 DEF ListIInv

\* A request fails.
LEMMA ListFailsKeeps ==
  ASSUME ListIInv, ListFails
  PROVE  ListIInv'
<1>1. listing' = NoListing /\ UNCHANGED <<moment, zoomAccount, lateThere, lastConfigured, zoomToken>>
  BY DEF ListFails, Others
<1>2. RequestOK(NoListing, lastConfigured, moment, lateThere)
  BY NothingAskedOK DEF ListIInv, ConfiguredOK
<1> QED BY <1>1, <1>2 DEF ListIInv

\* Later connections take nothing from a token, and later recordings nothing from a request.
LEMMA LaterKeeps ==
  ASSUME ListIInv, NEW last, NEW hour \in Nat, NEW late, moment <= hour, late = TRUE \/ late = lateThere,
         \A x \in ZoomAccounts : last[x] \in Int /\ lastConfigured[x] <= last[x]
  PROVE  /\ zoomToken # NotConnected => KeptOK(zoomToken, last)
         /\ RequestOK(listing, last, hour, late)
<1>1. ASSUME NEW x \in ZoomAccounts, NEW i \in Int, i <= lastConfigured[x]
      PROVE  i <= last[x]
  <2>1. PICK a \in Int : a = lastConfigured[x]
    BY DEF ListIInv, ConfiguredOK
  <2>2. PICK b \in Int : b = last[x] /\ a <= b
    BY <2>1
  <2> QED BY <1>1, <2>1, <2>2
<1>2. zoomToken # NotConnected => KeptOK(zoomToken, last)
  BY <1>1 DEF ListIInv, KeptOK
<1>3. PICK l : l = listing
  OBVIOUS
<1>4. RequestOK(l, lastConfigured, moment, lateThere) /\ moment \in Nat
  BY <1>3 DEF ListIInv, ConfiguredOK
<1>5. l.step = "waits" => IssuedOK(l.token, l.asked, last)
  BY <1>1, <1>4 DEF RequestOK, IssuedOK
<1>6. l.asked \in Int /\ l.asked <= hour
  <2>1. PICK q \in Int : q = l.asked /\ q <= moment
    BY <1>4 DEF RequestOK
  <2> QED BY <1>4, <2>1
<1>7. AsksOK(l, lateThere) => AsksOK(l, late)
  BY DEF AsksOK
<1>8. RequestOK(l, last, hour, late)
  BY <1>4, <1>5, <1>6, <1>7 DEF RequestOK
<1> QED BY <1>2, <1>3, <1>8

\* Another account is connected, or none.
LEMMA ReconfigureKeeps ==
  ASSUME ListIInv, NEW a \in ZoomAccounts \cup {NotConnected}, Reconfigure(a)
  PROVE  ListIInv'
<1>1. /\ UNCHANGED <<moment, lateThere, zoomToken, listing>> /\ zoomAccount' = a
      /\ lastConfigured' = IF a = NotConnected THEN lastConfigured ELSE [lastConfigured EXCEPT ![a] = moment]
  BY DEF Reconfigure
<1>2. PICK hour \in Nat : hour = moment
  BY DEF ListIInv, ConfiguredOK
<1>3. lastConfigured \in [ZoomAccounts -> Int] /\ \A x \in ZoomAccounts : lastConfigured[x] <= hour
  BY <1>2 DEF ListIInv, ConfiguredOK
<1>4. CASE a = NotConnected
  <2>1. lastConfigured' = lastConfigured
    BY <1>1, <1>4
  <2> QED BY <1>1, <1>4, <2>1 DEF ListIInv, ConfiguredOK
<1>5. CASE a # NotConnected
  <2>1. PICK last : last = [lastConfigured EXCEPT ![a] = hour] /\ lastConfigured' = last
    BY <1>1, <1>2, <1>5
  <2>2. a \in ZoomAccounts /\ last \in [ZoomAccounts -> Int] /\ last[a] = hour
        /\ \A x \in ZoomAccounts : x # a => last[x] = lastConfigured[x]
    BY <1>2, <1>3, <1>5, <2>1
  <2>3. ASSUME NEW x \in ZoomAccounts PROVE last[x] \in Int /\ lastConfigured[x] <= last[x] /\ last[x] <= hour
    <3>1. PICK b \in Int : b = lastConfigured[x] /\ b <= hour
      BY <1>3
    <3>2. last[x] = hour \/ last[x] = b
      BY <2>2, <3>1
    <3> QED BY <1>2, <3>1, <3>2
  <2>4. ConfiguredOK(last, hour, a)
    BY <1>2, <2>2, <2>3 DEF ConfiguredOK
  <2>5. (zoomToken # NotConnected => KeptOK(zoomToken, last)) /\ RequestOK(listing, last, hour, lateThere)
    <3>1. moment <= hour /\ \A x \in ZoomAccounts : last[x] \in Int /\ lastConfigured[x] <= last[x]
      BY <1>2, <2>3
    <3> QED BY <3>1, LaterKeeps
  <2> QED BY <1>1, <1>2, <2>1, <2>4, <2>5 DEF ListIInv
<1> QED BY <1>4, <1>5

\* A recording appears.
LEMMA RecordingAppearsKeeps ==
  ASSUME ListIInv, RecordingAppears
  PROVE  ListIInv'
<1>1. UNCHANGED <<moment, zoomAccount, zoomToken, listing, lastConfigured>> /\ lateThere' = TRUE
  BY DEF RecordingAppears
<1>2. moment \in Nat /\ moment <= moment /\ \A x \in ZoomAccounts : lastConfigured[x] \in Int /\ lastConfigured[x] <= lastConfigured[x]
  BY DEF ListIInv, ConfiguredOK
<1>3. RequestOK(listing, lastConfigured, moment, TRUE)
  BY <1>2, LaterKeeps
<1> QED BY <1>1, <1>3 DEF ListIInv

\* Time passes.
LEMMA MomentPassesKeeps ==
  ASSUME ListIInv, MomentPasses
  PROVE  ListIInv'
<1>1. /\ UNCHANGED <<zoomAccount, lateThere, zoomToken, listing>> /\ moment' = moment + 1
      /\ lastConfigured' = [a \in ZoomAccounts |-> IF a = zoomAccount THEN moment + 1 ELSE lastConfigured[a]]
  BY DEF MomentPasses
<1>2. PICK t \in Nat : t = moment
  BY DEF ListIInv, ConfiguredOK
<1>3. lastConfigured \in [ZoomAccounts -> Int] /\ \A x \in ZoomAccounts : lastConfigured[x] <= t
  BY <1>2 DEF ListIInv, ConfiguredOK
<1>4. PICK last : lastConfigured' = last /\ last = [a \in ZoomAccounts |-> IF a = zoomAccount THEN t + 1 ELSE lastConfigured[a]]
  BY <1>1, <1>2
<1>5. last \in [ZoomAccounts -> Int] /\ \A x \in ZoomAccounts : last[x] = IF x = zoomAccount THEN t + 1 ELSE lastConfigured[x]
  BY <1>2, <1>3, <1>4
<1>6. ASSUME NEW x \in ZoomAccounts PROVE last[x] \in Int /\ lastConfigured[x] <= last[x] /\ last[x] <= t + 1
  <2>1. PICK b \in Int : b = lastConfigured[x] /\ b <= t
    BY <1>3
  <2>2. last[x] = t + 1 \/ last[x] = b
    BY <1>5, <2>1
  <2> QED BY <1>2, <2>1, <2>2
<1>7. zoomAccount # NotConnected => zoomAccount \in ZoomAccounts /\ last[zoomAccount] = t + 1
  BY <1>5 DEF ListIInv, ConfiguredOK
<1>8. ConfiguredOK(last, t + 1, zoomAccount)
  BY <1>2, <1>5, <1>6, <1>7 DEF ConfiguredOK
<1>9. t + 1 \in Nat /\ moment <= t + 1
  BY <1>2
<1>10. (zoomToken # NotConnected => KeptOK(zoomToken, last)) /\ RequestOK(listing, last, t + 1, lateThere)
  BY <1>6, <1>9, LaterKeeps
<1>11. moment' = t + 1
  BY <1>1, <1>2
<1> QED BY <1>1, <1>4, <1>8, <1>10, <1>11 DEF ListIInv

\* Before the first list.
LEMMA ListInit == ListingInit => ListIInv
<1> SUFFICES ASSUME ListingInit PROVE ListIInv
  OBVIOUS
<1>1. /\ moment = 0 /\ zoomAccount \in ZoomAccounts /\ zoomToken = NotConnected /\ listing = NoListing
      /\ lastConfigured = [a \in ZoomAccounts |-> IF a = zoomAccount THEN 0 ELSE -1]
  BY DEF ListingInit
<1>2. lastConfigured \in [ZoomAccounts -> Int] /\ lastConfigured[zoomAccount] = 0
      /\ \A a \in ZoomAccounts : lastConfigured[a] <= 0
  BY <1>1
<1>3. ConfiguredOK(lastConfigured, moment, zoomAccount)
  BY <1>1, <1>2 DEF ConfiguredOK
<1>4. RequestOK(NoListing, lastConfigured, 0, lateThere)
  BY NothingAskedOK
<1> QED BY <1>1, <1>3, <1>4 DEF ListIInv

\* Every operation of a listing.
LEMMA ListStep == ListIInv /\ [ListingNext]_listingVars => ListIInv'
<1> SUFFICES ASSUME ListIInv, [ListingNext]_listingVars PROVE ListIInv'
  OBVIOUS
<1>1. CASE UNCHANGED listingVars
  <2>1. UNCHANGED <<moment, zoomAccount, lateThere, zoomToken, listing, lastConfigured>>
    BY <1>1 DEF listingVars
  <2> QED BY <2>1 DEF ListIInv
<1> QED BY <1>1, ListRecordingsKeeps, GetAccessTokenKeeps, IssueTokenKeeps, TokenComesKeeps, NextBatchKeeps,
           ListAnsweredKeeps, ListFailsKeeps, FetchWindowKeeps, ReconfigureKeeps, RecordingAppearsKeeps,
           MomentPassesKeeps, Zenon DEF ListingNext

\* An answered list is whole, and a token that is used serves.
LEMMA ListHolds == ListIInv => ListIsWhole /\ TokenServes
<1> SUFFICES ASSUME ListIInv PROVE ListIsWhole /\ TokenServes
  OBVIOUS
<1>1. PICK l : l = listing
  OBVIOUS
<1>2. RequestOK(l, lastConfigured, moment, lateThere)
  BY <1>1 DEF ListIInv
<1>3. TokenServes
  BY <1>1, <1>2 DEF RequestOK, ServesFor, TokenServes
<1>4. PICK w : w = WindowsOf(l) /\ w = Windows
  BY <1>1 DEF Windows, WindowsOf
<1>5. ASSUME l.step = "answered"
      PROVE  /\ {d \in l.before : d >= w[Len(w)].from} \subseteq l.got
             /\ w[Len(w)].from = l.range.from \/ Len(w) = MAX_RECORDING_WINDOWS
             /\ \A i \in DOMAIN w : w[i].to - w[i].from <= 31
  <2>1. AsksOK(l, lateThere) /\ MonthsOK(l) /\ l.batch = {} /\ l.next > Len(w)
    BY <1>2, <1>4, <1>5 DEF RequestOK
  <2>2. PICK r \in Ranges : r = l.range
    BY <2>1 DEF AsksOK
  <2>3. PICK from \in Int : from = r.from
    BY Calendar
  <2>4. PICK to \in Int : to = r.to
    BY Calendar
  <2>5. from <= to /\ MAX_RECORDING_WINDOWS > 0
    BY <2>3, <2>4, Calendar, ListingLimits
  <2>6. Windowed(w, MAX_RECORDING_WINDOWS, to, from)
    BY <1>4, <2>2, <2>3, <2>4, RangeWindowed DEF WindowsOf
  <2>7. PICK L \in Nat : L = Len(w) /\ DOMAIN w = 1..L /\ \A i \in 1..L : w[i] \in Window
    BY <2>6, LenProperties, ElementOfSeq DEF Windowed
  <2>8. to >= from
    BY <2>5
  <2>9. /\ L > 0 /\ (w[L].from = from \/ L = MAX_RECORDING_WINDOWS) /\ from <= w[L].from
        /\ \A d \in w[L].from..to : \E i \in 1..L : w[i].from <= d /\ d <= w[i].to
        /\ \A i \in 1..L : w[i].to - w[i].from <= 31
    BY <2>5, <2>6, <2>7, <2>8 DEF Windowed
  <2>10. PICK f \in Int : f = w[L].from
    <3>1. L \in 1..L
      BY <2>9
    <3> QED BY <2>7, <3>1 DEF Window
  <2>11. PICK n \in Nat : n = l.next /\ n > L
    BY <2>1, <2>7 DEF MonthsOK
  <2>12. ASSUME NEW d \in l.before, d >= f PROVE d \in l.got
    <3>1. d \in from..to
      BY <2>1, <2>2, <2>3, <2>4 DEF AsksOK
    <3>2. d \in f..to
      BY <2>12, <3>1
    <3>3. PICK i \in 1..L : w[i].from <= d /\ d <= w[i].to
      BY <2>9, <2>10, <3>2
    <3>4. i \in 1..(n - 1)
      BY <2>11
    <3> QED BY <1>4, <2>1, <2>11, <3>3, <3>4 DEF MonthsOK
  <2> QED BY <2>2, <2>3, <2>7, <2>9, <2>10, <2>12
<1> QED BY <1>1, <1>3, <1>4, <1>5 DEF ListIsWhole

-----------------------------------------------------------------------------
(* The types of the parts.  Where the invariants above do not say them,    *)
(* a second one does, which is inductive beside the first.                 *)

\* No address is counted more often than requests came.
LimitTyped == RateLimitTypeOK /\ \A ip \in Addresses : hits[ip].count <= seen

\* Each request counts once, for one address.
LEMMA LimitTypes == LimitTyped /\ [RateLimitNext]_limitVars => LimitTyped'
<1> SUFFICES ASSUME LimitTyped, [RateLimitNext]_limitVars PROVE LimitTyped'
  OBVIOUS
<1>1. /\ now \in 0..MaxTime /\ hits \in [Addresses -> [count : 0..MaxHits, windowStart : 0..MaxTime]]
      /\ allowed \in [Addresses -> Seq(0..MaxTime)] /\ seen \in 0..MaxHits
      /\ \A ip \in Addresses : hits[ip].count <= seen
  BY DEF LimitTyped, RateLimitTypeOK
<1>2. MaxTime \in Nat /\ MaxHits \in Nat
  BY RateLimitAssumption
<1>3. CASE Tick
  <2>1. now < MaxTime /\ now' = now + 1 /\ UNCHANGED <<hits, allowed, seen>>
    BY <1>3 DEF Tick
  <2>2. now' \in 0..MaxTime
    BY <1>1, <1>2, <2>1
  <2> QED BY <1>1, <2>1, <2>2 DEF LimitTyped, RateLimitTypeOK
<1>4. ASSUME NEW ip \in Addresses, CanActivate(ip) PROVE LimitTyped'
  <2>1. seen < MaxHits /\ seen' = seen + 1 /\ hits' = [hits EXCEPT ![ip] = Counted(@)] /\ UNCHANGED now
        /\ allowed' = [allowed EXCEPT ![ip] = IF Refused(hits[ip]) THEN @ ELSE Append(@, now)]
    BY <1>4 DEF CanActivate
  <2>2. seen' \in 0..MaxHits /\ seen + 1 \in 0..MaxHits /\ 1 <= seen + 1
    BY <1>1, <1>2, <2>1
  <2>3. PICK e \in [count : 0..MaxHits, windowStart : 0..MaxTime] : e = hits[ip] /\ e.count <= seen
    BY <1>1
  <2>4. e.count \in 0..MaxHits /\ e.count + 1 \in 0..MaxHits /\ e.count + 1 <= seen + 1 /\ 1 \in 0..MaxHits
    <3>1. PICK k \in 0..MaxHits : k = e.count /\ k <= seen
      BY <2>3
    <3>2. k + 1 <= seen + 1 /\ k + 1 \in 0..MaxHits /\ 1 \in 0..MaxHits
      BY <1>1, <1>2, <2>1, <3>1
    <3> QED BY <3>1, <3>2
  <2>5. PICK n : n = Counted(e)
    OBVIOUS
  <2>6. n \in [count : 0..MaxHits, windowStart : 0..MaxTime] /\ n.count <= seen + 1
    <3>1. CASE Expired(e)
      <4>1. n = [count |-> 1, windowStart |-> now]
        BY <2>5, <3>1 DEF Counted
      <4> QED BY <1>1, <2>2, <2>4, <4>1
    <3>2. CASE ~Expired(e)
      <4>1. n = [e EXCEPT !.count = e.count + 1]
        BY <2>5, <3>2 DEF Counted
      <4>2. PICK c \in 0..MaxHits : c = e.count + 1 /\ c <= seen + 1
        BY <2>4
      <4>3. n = [e EXCEPT !.count = c]
        BY <4>1, <4>2
      <4> QED BY <2>3, <4>2, <4>3
    <3> QED BY <3>1, <3>2
  <2>7. hits' = [hits EXCEPT ![ip] = n]
    BY <2>1, <2>3, <2>5
  <2>8. hits' \in [Addresses -> [count : 0..MaxHits, windowStart : 0..MaxTime]]
    BY <1>1, <2>6, <2>7
  <2>9. \A a \in Addresses : hits'[a].count <= seen'
    <3> TAKE a \in Addresses
    <3>1. CASE a = ip
      BY <1>1, <2>1, <2>6, <2>7, <3>1
    <3>2. CASE a # ip
      <4>1. PICK k \in 0..MaxHits : k = hits[a].count /\ k <= seen
        BY <1>1
      <4>2. hits'[a].count = k
        BY <1>1, <2>7, <3>2, <4>1
      <4> QED BY <1>1, <2>1, <4>1, <4>2
    <3> QED BY <3>1, <3>2
  <2>10. PICK s \in Seq(0..MaxTime) : s = allowed[ip]
    BY <1>1
  <2>11. Append(s, now) \in Seq(0..MaxTime)
    BY <1>1
  <2>12. allowed' \in [Addresses -> Seq(0..MaxTime)]
    BY <1>1, <2>1, <2>10, <2>11
  <2> QED BY <1>1, <2>1, <2>2, <2>8, <2>9, <2>12 DEF LimitTyped, RateLimitTypeOK
<1>5. CASE UNCHANGED limitVars
  BY <1>1, <1>5 DEF LimitTyped, RateLimitTypeOK, limitVars
<1> QED BY <1>3, <1>4, <1>5 DEF RateLimitNext

\* Before the first request.
LEMMA LimitTypesInit == RateLimitInit => LimitTyped
<1> SUFFICES ASSUME RateLimitInit PROVE LimitTyped
  OBVIOUS
<1>1. 0 \in 0..MaxTime /\ 0 \in 0..MaxHits
  BY RateLimitAssumption
<1>2. <<>> \in Seq(0..MaxTime)
  OBVIOUS
<1>3. hits \in [Addresses -> [count : 0..MaxHits, windowStart : 0..MaxTime]] /\ seen = 0 /\ now = 0
      /\ \A ip \in Addresses : hits[ip].count = 0
  BY <1>1 DEF RateLimitInit
<1>4. allowed \in [Addresses -> Seq(0..MaxTime)]
  BY <1>2 DEF RateLimitInit
<1> QED BY <1>1, <1>3, <1>4 DEF LimitTyped, RateLimitTypeOK

-----------------------------------------------------------------------------
\* What runs began no later than now, and an account that never agreed did so at -1.
SentOK(r, t) == r = Idle \/ (r \in Sending /\ r.since <= t)
StoredOK(r, t) == r = Idle \/ (r \in Changing /\ r.since <= t)
ConsentTyped ==
  /\ instant \in 0..MaxInstant /\ consents \in 0..MaxConsents
  /\ consent \in [Subjects -> Entry] /\ \A u \in Subjects : consent[u].at <= instant
  /\ DOMAIN capturing = Captures /\ \A c \in Captures : SentOK(capturing[c], instant)
  /\ DOMAIN answering = Answering /\ \A p \in Answering : StoredOK(answering[p], instant)
  /\ \A u \in Subjects : lastAgreed[u] >= -1

\* A step of an event.
LEMMA GoTyped ==
  ASSUME ConsentTyped, NEW c \in Captures, NEW step \in {"idle", "reads", "read", "fills"}, NEW u \in Subjects,
         Go(c, step, u)
  PROVE  DOMAIN capturing' = Captures /\ \A d \in Captures : SentOK(capturing'[d], instant)
<1>1. instant \in Nat
  BY ConsentCacheAssumption DEF ConsentTyped
<1>2. PICK r : r = [step |-> step, since |-> instant, of |-> u, value |-> FALSE]
  OBVIOUS
<1>3. r \in Sending /\ r.since = instant
  BY <1>1, <1>2 DEF Sending
<1>4. capturing' = [capturing EXCEPT ![c] = r] /\ SentOK(r, instant)
  BY <1>1, <1>2, <1>3 DEF Go, SentOK
<1> QED BY <1>4 DEF ConsentTyped

\* An entry is of the time it is made.
LEMMA RememberTyped ==
  ASSUME ConsentTyped, NEW u \in Subjects, NEW v \in BOOLEAN, consent' = Remember(u, v)
  PROVE  consent' \in [Subjects -> Entry] /\ \A w \in Subjects : consent'[w].at <= instant
<1>1. instant \in Nat
  BY ConsentCacheAssumption DEF ConsentTyped
<1>2. PICK e : e = [known |-> TRUE, value |-> v, at |-> instant]
  OBVIOUS
<1>3. e \in Entry /\ e.at = instant
  BY <1>1, <1>2 DEF Entry
<1>4. consent' = [consent EXCEPT ![u] = e]
  BY <1>2 DEF Remember
<1> QED BY <1>1, <1>3, <1>4 DEF ConsentTyped

\* Every operation of the analytics keeps its types.
LEMMA ConsentTypes ==
  ASSUME ConsentIInv, ConsentTyped, [ConsentCacheNext]_consentCacheVars
  PROVE  ConsentTyped'
<1>1. /\ instant \in 0..MaxInstant /\ consents \in 0..MaxConsents
      /\ consent \in [Subjects -> Entry] /\ \A u \in Subjects : consent[u].at <= instant
      /\ DOMAIN capturing = Captures /\ \A c \in Captures : SentOK(capturing[c], instant)
      /\ DOMAIN answering = Answering /\ \A p \in Answering : StoredOK(answering[p], instant)
      /\ \A u \in Subjects : lastAgreed[u] >= -1
  BY DEF ConsentTyped
<1>2. MaxInstant \in Nat /\ MaxConsents \in Nat
  BY ConsentCacheAssumption
<1>3. SentOK(Idle, instant) /\ StoredOK(Idle, instant)
  BY DEF SentOK, StoredOK
<1>4. ASSUME NEW c \in Captures, NEW u \in Subjects, Capture(c, u) PROVE ConsentTyped'
  <2>1. UNCHANGED <<instant, consent, answering, lastAgreed, consents>>
    BY <1>4 DEF Capture, Hit
  <2>2. \E step \in {"idle", "reads", "read", "fills"} : Go(c, step, u)
    BY <1>4 DEF Capture
  <2>3. DOMAIN capturing' = Captures /\ \A d \in Captures : SentOK(capturing'[d], instant)
    BY <2>2, GoTyped
  <2> QED BY <1>1, <2>1, <2>3 DEF ConsentTyped
<1>5. ASSUME NEW c \in Captures, ReadConsent(c) PROVE ConsentTyped'
  <2>1. UNCHANGED <<instant, consent, answering, lastAgreed, consents>> /\ capturing[c].step = "reads"
    BY <1>5 DEF ReadConsent
  <2>2. PICK r \in Sending : r = capturing[c] /\ r.since <= instant
    BY <1>1, <2>1 DEF SentOK, Idle
  <2>3. PICK v \in BOOLEAN : v = consentOf[r.of]
    BY <2>2 DEF ConsentIInv, Sending
  <2>4. PICK n : n = [r EXCEPT !.step = "read", !.value = v]
    OBVIOUS
  <2>5. n \in Sending /\ n.since = r.since
    BY <2>2, <2>4 DEF Sending
  <2>6. capturing' = [capturing EXCEPT ![c] = n]
    BY <1>1, <1>5, <2>2, <2>3, <2>4 DEF ReadConsent
  <2>7. SentOK(n, instant)
    BY <2>2, <2>5 DEF SentOK
  <2> QED BY <1>1, <2>1, <2>6, <2>7 DEF ConsentTyped
<1>6. ASSUME NEW c \in Captures, HasConsent(c) PROVE ConsentTyped'
  <2>1. UNCHANGED <<instant, answering, lastAgreed, consents>> /\ capturing[c].step = "read"
    BY <1>6 DEF HasConsent
  <2>2. PICK r \in Sending : r = capturing[c] /\ r.since <= instant
    BY <1>1, <2>1 DEF SentOK, Idle
  <2>3. PICK v \in BOOLEAN, u \in Subjects : v = r.value /\ u = r.of
    BY <2>2 DEF Sending
  <2>4. consent' = Remember(u, v)
    BY <1>6, <2>2, <2>3 DEF HasConsent
  <2>5. \E step \in {"idle", "reads", "read", "fills"} : Go(c, step, u)
    BY <1>6, <2>2, <2>3 DEF HasConsent
  <2>6. DOMAIN capturing' = Captures /\ \A d \in Captures : SentOK(capturing'[d], instant)
    BY <2>5, GoTyped
  <2>7. consent' \in [Subjects -> Entry] /\ \A w \in Subjects : consent'[w].at <= instant
    BY <2>4, RememberTyped
  <2> QED BY <1>1, <2>1, <2>6, <2>7 DEF ConsentTyped
<1>7. ASSUME NEW c \in Captures, Sends(c) PROVE ConsentTyped'
  <2>1. UNCHANGED <<instant, consent, answering, lastAgreed, consents>> /\ capturing' = [capturing EXCEPT ![c] = Idle]
    BY <1>7 DEF Sends
  <2> QED BY <1>1, <1>3, <2>1 DEF ConsentTyped
<1>8. ASSUME NEW p \in Answering, NEW u \in Subjects, NEW v \in BOOLEAN, StoreConsent(p, u, v) PROVE ConsentTyped'
  <2>1. UNCHANGED <<instant, consent, capturing>> /\ consents < MaxConsents /\ consents' = consents + 1
    BY <1>8 DEF StoreConsent
  <2>2. PICK n : n = [step |-> "stored", since |-> instant, of |-> u, value |-> v]
    OBVIOUS
  <2>3. n \in Changing /\ n.since = instant
    BY <1>1, <2>2 DEF Changing
  <2>4. answering' = [answering EXCEPT ![p] = n]
    BY <1>8, <2>2 DEF StoreConsent
  <2>5. StoredOK(n, instant)
    BY <1>1, <2>3 DEF StoredOK
  <2>6. lastAgreed' = [lastAgreed EXCEPT ![u] = instant] \/ lastAgreed' = lastAgreed
    BY <1>8 DEF StoreConsent
  <2>7. \A w \in Subjects : lastAgreed'[w] >= -1
    <3>1. lastAgreed \in [Subjects -> Int]
      BY DEF ConsentIInv, Agreed
    <3>2. instant >= -1
      BY <1>1, <1>2
    <3> QED BY <1>1, <2>6, <3>1, <3>2
  <2>8. consents' \in 0..MaxConsents
    BY <1>1, <1>2, <2>1
  <2> QED BY <1>1, <2>1, <2>4, <2>5, <2>7, <2>8 DEF ConsentTyped
<1>9. ASSUME NEW p \in Answering, ConsentChanged(p) PROVE ConsentTyped'
  <2>1. /\ UNCHANGED <<instant, lastAgreed, consents>> /\ answering[p].step = "stored"
        /\ answering' = [answering EXCEPT ![p] = Idle]
    BY <1>9 DEF ConsentChanged
  <2>2. PICK r \in Changing : r = answering[p] /\ r.since <= instant
    BY <1>1, <2>1 DEF StoredOK, Idle
  <2>3. PICK v \in BOOLEAN, u \in Subjects : v = r.value /\ u = r.of
    BY <2>2 DEF Changing
  <2>4. consent' = Remember(u, v)
    BY <1>9, <2>2, <2>3 DEF ConsentChanged
  <2>5. consent' \in [Subjects -> Entry] /\ \A w \in Subjects : consent'[w].at <= instant
    BY <2>4, RememberTyped
  <2>6. UNCHANGED capturing \/ \E c \in Captures : Go(c, "fills", u)
    BY <1>9, <2>2, <2>3 DEF ConsentChanged
  <2>7. DOMAIN capturing' = Captures /\ \A d \in Captures : SentOK(capturing'[d], instant)
    BY <1>1, <2>6, GoTyped
  <2> QED BY <1>1, <1>3, <2>1, <2>5, <2>7 DEF ConsentTyped
<1>10. CASE AnalyticsRestarts
  <2>1. /\ UNCHANGED <<instant, lastAgreed, consents>>
        /\ consent' = [u \in Subjects |-> [known |-> FALSE, value |-> FALSE, at |-> 0]]
        /\ capturing' = [c \in Captures |-> Idle] /\ answering' = [p \in Answering |-> Idle]
    BY <1>10 DEF AnalyticsRestarts
  <2>2. consent' \in [Subjects -> Entry] /\ \A u \in Subjects : consent'[u].at = 0
    BY <2>1 DEF Entry
  <2>3. DOMAIN capturing' = Captures /\ \A c \in Captures : SentOK(capturing'[c], instant)
    BY <1>3, <2>1
  <2>4. DOMAIN answering' = Answering /\ \A p \in Answering : StoredOK(answering'[p], instant)
    BY <1>3, <2>1
  <2> QED BY <1>1, <2>1, <2>2, <2>3, <2>4 DEF ConsentTyped
<1>11. CASE Passes
  <2>1. /\ UNCHANGED <<consent, capturing, answering, consents>> /\ instant < MaxInstant /\ instant' = instant + 1
        /\ lastAgreed' = [u \in Subjects |-> IF consentOf[u] THEN instant + 1 ELSE lastAgreed[u]]
    BY <1>11 DEF Passes
  <2>2. PICK t \in Nat : t = instant
    BY <1>1, <1>2
  <2>3. instant' \in 0..MaxInstant /\ instant' = t + 1
    BY <1>2, <2>1, <2>2
  <2>4. ASSUME NEW u \in Subjects PROVE consent[u].at <= t + 1
    <3>1. PICK a \in Nat : a = consent[u].at /\ a <= t
      BY <1>1, <2>2 DEF Entry
    <3> QED BY <3>1
  <2>5. ASSUME NEW c \in Captures PROVE SentOK(capturing[c], t + 1)
    <3>1. CASE capturing[c] # Idle
      <4>1. PICK r \in Sending : r = capturing[c] /\ r.since <= t
        BY <1>1, <2>2, <3>1 DEF SentOK
      <4>2. r.since \in Nat
        BY DEF Sending
      <4>3. r.since <= t + 1
        BY <4>1, <4>2
      <4> QED BY <4>1, <4>3 DEF SentOK
    <3> QED BY <3>1 DEF SentOK
  <2>6. ASSUME NEW p \in Answering PROVE StoredOK(answering[p], t + 1)
    <3>1. CASE answering[p] # Idle
      <4>1. PICK r \in Changing : r = answering[p] /\ r.since <= t
        BY <1>1, <2>2, <3>1 DEF StoredOK
      <4>2. r.since \in Nat
        BY DEF Changing
      <4>3. r.since <= t + 1
        BY <4>1, <4>2
      <4> QED BY <4>1, <4>3 DEF StoredOK
    <3> QED BY <3>1 DEF StoredOK
  <2>7. ASSUME NEW u \in Subjects PROVE lastAgreed'[u] >= -1
    <3>1. lastAgreed'[u] \in {t + 1, lastAgreed[u]}
      BY <2>1, <2>2
    <3>2. t + 1 >= -1
      OBVIOUS
    <3> QED BY <1>1, <3>1, <3>2
  <2> QED BY <1>1, <2>1, <2>3, <2>4, <2>5, <2>6, <2>7 DEF ConsentTyped
<1>12. CASE UNCHANGED consentCacheVars
  BY <1>1, <1>12 DEF ConsentTyped, consentCacheVars
<1> QED BY <1>4, <1>5, <1>6, <1>7, <1>8, <1>9, <1>10, <1>11, <1>12, Zenon DEF ConsentCacheNext

\* Nothing runs and nobody agreed at first.
LEMMA ConsentTypesInit == ConsentCacheInit => ConsentTyped
<1> SUFFICES ASSUME ConsentCacheInit PROVE ConsentTyped
  OBVIOUS
<1>1. instant = 0 /\ consents = 0 /\ \A u \in Subjects : lastAgreed[u] = -1
  BY DEF ConsentCacheInit
<1>2. consent \in [Subjects -> Entry] /\ \A u \in Subjects : consent[u].at = 0
  BY DEF ConsentCacheInit, Entry
<1>3. DOMAIN capturing = Captures /\ \A c \in Captures : SentOK(capturing[c], instant)
  BY DEF ConsentCacheInit, SentOK
<1>4. DOMAIN answering = Answering /\ \A p \in Answering : StoredOK(answering[p], instant)
  BY DEF ConsentCacheInit, StoredOK
<1> QED BY <1>1, <1>2, <1>3, <1>4, ConsentCacheAssumption DEF ConsentTyped

\* Consent, entries and times are typed.
LEMMA ConsentIsTyped == ConsentIInv /\ ConsentTyped => ConsentCacheTypeOK
<1> SUFFICES ASSUME ConsentIInv, ConsentTyped PROVE ConsentCacheTypeOK
  OBVIOUS
<1>1. instant \in Nat /\ 0 \in 0..instant
  BY DEF ConsentIInv
<1>2. \A u \in Subjects : {consent[u].value, consent[u].known} \subseteq BOOLEAN /\ consent[u].at \in 0..instant
  <2> TAKE u \in Subjects
  <2>1. PICK e \in Entry : e = consent[u] /\ e.at <= instant
    BY DEF ConsentTyped
  <2>2. e.value \in BOOLEAN /\ e.known \in BOOLEAN /\ e.at \in Nat
    BY DEF Entry
  <2>3. e.at \in 0..instant
    BY <1>1, <2>1, <2>2
  <2> QED BY <2>1, <2>2, <2>3
<1>3. \A c \in Captures : capturing[c].step \in {"idle", "reads", "read", "fills"} /\ capturing[c].since \in 0..instant
  <2> TAKE c \in Captures
  <2>1. CASE capturing[c] = Idle
    BY <1>1, <2>1 DEF Idle
  <2>2. CASE capturing[c] # Idle
    BY <1>1, <2>2 DEF ConsentTyped, SentOK, Sending
  <2> QED BY <2>1, <2>2
<1>4. \A p \in Answering : answering[p].step \in {"idle", "stored"} /\ answering[p].since \in 0..instant
  <2> TAKE p \in Answering
  <2>1. CASE answering[p] = Idle
    BY <1>1, <2>1 DEF Idle
  <2>2. CASE answering[p] # Idle
    BY <1>1, <2>2 DEF ConsentTyped, StoredOK, Changing
  <2> QED BY <2>1, <2>2
<1>5. lastAgreed \in [Subjects -> -1..instant]
  <2>1. lastAgreed \in [Subjects -> Int] /\ \A u \in Subjects : lastAgreed[u] <= instant /\ lastAgreed[u] >= -1
    BY DEF ConsentIInv, Agreed, ConsentTyped
  <2>2. \A u \in Subjects : lastAgreed[u] \in -1..instant
    BY <1>1, <2>1
  <2> QED BY <2>1, <2>2
<1>6. tooLate \in BOOLEAN
  <2>1. PICK b : b = tooLate
    OBVIOUS
  <2>2. b = FALSE
    BY <2>1, Zenon DEF ConsentIInv
  <2> QED BY <2>1, <2>2
<1>7. instant \in 0..MaxInstant /\ consents \in 0..MaxConsents /\ consentOf \in [Subjects -> BOOLEAN]
  BY DEF ConsentIInv, ConsentTyped
<1> QED BY <1>2, <1>3, <1>4, <1>5, <1>6, <1>7 DEF ConsentCacheTypeOK

-----------------------------------------------------------------------------
(* The types of the accounts: what AdminIInv does not say. *)

SignedTyped ==
  /\ session \subseteq Emails /\ code \in [Emails -> 0..1] /\ member \in [Workspaces -> SUBSET Emails]
  /\ accountOps \in 0..MaxAccountOps

\* What a step may do to the tokens, codes and members.
SignsTyped ==
  /\ session' = session \/ (\E e \in Emails : session' = session \cup {e} \/ session' = session \ {e})
  /\ \/ code' = code \/ code' = [e \in Emails |-> 0]
     \/ \E e \in Emails : code' = [code EXCEPT ![e] = 0] \/ code' = [code EXCEPT ![e] = 1]
  /\ \/ member' = member \/ (\E e \in Emails : member' = [w \in Workspaces |-> member[w] \ {e}])
     \/ \E e \in Emails, w \in Workspaces : member' = [member EXCEPT ![w] = {e}]
  /\ accountOps' = accountOps \/ AccountOp

\* A step of an account.
LEMMA SignsOfOne ==
  ASSUME NEW e \in Emails,
         \/ Login(e) \/ GoogleSignIn(e) \/ Exchange(e) \/ CodeExpires(e) \/ Register(e) \/ VerifyEmail(e)
         \/ ForgotPassword(e) \/ ResetPassword(e) \/ ChangePassword(e) \/ Logout(e) \/ ThirtyDays(e)
         \/ \E w \in Workspaces : CreateWorkspace(e, w) \/ SwitchWorkspace(e, w)
         \/ \E of \in Emails, must \in BOOLEAN : CreateAccount(e, of, must) \/ ResetTempPassword(e, of, must)
         \/ \E a \in Admins, target \in Emails, change \in AccountChanges : AdminAsks(a, e, target, change)
  PROVE  SignsTyped
<1>1. CASE Login(e)
  <2>1. AccountOp /\ session' = session \cup {e} /\ UNCHANGED <<code, member>>
    BY <1>1 DEF Login
  <2> QED BY <2>1 DEF SignsTyped
<1>2. CASE GoogleSignIn(e)
  <2>1. AccountOp /\ code' = [code EXCEPT ![e] = 1] /\ session' \in {session, session \cup {e}} /\ UNCHANGED member
    BY <1>2 DEF GoogleSignIn
  <2> QED BY <2>1 DEF SignsTyped
<1>3. CASE Exchange(e)
  <2>1. code' = [code EXCEPT ![e] = 0] /\ session' = session \cup {e} /\ UNCHANGED <<member, accountOps>>
    BY <1>3 DEF Exchange
  <2> QED BY <2>1 DEF SignsTyped
<1>4. CASE CodeExpires(e)
  <2>1. AccountOp /\ code' = [code EXCEPT ![e] = 0] /\ UNCHANGED <<session, member>>
    BY <1>4 DEF CodeExpires
  <2> QED BY <2>1 DEF SignsTyped
<1>5. CASE Logout(e)
  <2>1. AccountOp /\ session' = session \ {e} /\ UNCHANGED <<code, member>>
    BY <1>5 DEF Logout
  <2> QED BY <2>1 DEF SignsTyped
<1>6. ASSUME NEW w \in Workspaces, CreateWorkspace(e, w) PROVE SignsTyped
  <2>1. AccountOp /\ member' = [member EXCEPT ![w] = {e}] /\ UNCHANGED <<session, code>>
    BY <1>6 DEF CreateWorkspace
  <2> QED BY <2>1 DEF SignsTyped
<1>7. ASSUME AccountOp, UNCHANGED <<session, code, member>> PROVE SignsTyped
  BY <1>7 DEF SignsTyped
<1>8. CASE Register(e) \/ VerifyEmail(e) \/ ForgotPassword(e) \/ ResetPassword(e) \/ ChangePassword(e) \/ ThirtyDays(e)
  BY <1>7, <1>8 DEF Register, VerifyEmail, ForgotPassword, ResetPassword, ChangePassword, ThirtyDays
<1>9. ASSUME \/ \E w \in Workspaces : SwitchWorkspace(e, w)
             \/ \E of \in Emails, must \in BOOLEAN : CreateAccount(e, of, must) \/ ResetTempPassword(e, of, must)
             \/ \E a \in Admins, target \in Emails, change \in AccountChanges : AdminAsks(a, e, target, change)
      PROVE  SignsTyped
  BY <1>7, <1>9 DEF SwitchWorkspace, CreateAccount, ResetTempPassword, AdminAsks
<1> QED BY <1>1, <1>2, <1>3, <1>4, <1>5, <1>6, <1>8, <1>9

\* Any step of the accounts.
LEMMA SignsOfAll ==
  ASSUME AccountsTyped, AccountsNext
  PROVE  SignsTyped
<1>1. ASSUME NEW a \in Admins, Find(a) \/ AssertNotLastSuperAdmin(a) PROVE SignsTyped
  <2>1. UNCHANGED <<session, code, member, accountOps>>
    BY <1>1 DEF Find, AssertNotLastSuperAdmin
  <2> QED BY <2>1 DEF SignsTyped
<1>2. ASSUME NEW a \in Admins, WriteChange(a) PROVE SignsTyped
  <2>1. UNCHANGED <<session, code, accountOps>>
    BY <1>2 DEF WriteChange
  <2>2. PICK r : r = adminRequest[a]
    OBVIOUS
  <2>3. r.target \in Emails
    <3>1. r.step = "counted" /\ r \in RequestRecord \cup {NotAsking}
      BY <1>2, <2>2 DEF WriteChange, AccountsTyped
    <3>2. NotAsking.step = "idle"
      BY DEF NotAsking
    <3>3. r # NotAsking
      BY <3>1, <3>2
    <3> QED BY <3>1, <3>3 DEF RequestRecord
  <2>4. member' = member \/ member' = [w \in Workspaces |-> member[w] \ {r.target}]
    BY <1>2, <2>2 DEF WriteChange
  <2> QED BY <2>1, <2>3, <2>4 DEF SignsTyped
<1>3. CASE BackendStarts
  <2>1. AccountOp /\ code' = [e \in Emails |-> 0] /\ UNCHANGED <<session, member>>
    BY <1>3 DEF BackendStarts
  <2> QED BY <2>1 DEF SignsTyped
<1> QED BY <1>1, <1>2, <1>3, SignsOfOne, Zenon DEF AccountsNext

\* Every step keeps the types.
LEMMA AccountTypes ==
  ASSUME AdminIInv, SignedTyped, [AccountsNext]_accountVars
  PROVE  SignedTyped'
<1>1. CASE UNCHANGED accountVars
  <2>1. UNCHANGED <<session, code, member, accountOps>>
    BY <1>1 DEF accountVars
  <2> QED BY <2>1 DEF SignedTyped
<1>2. CASE AccountsNext
  <2>1. SignsTyped
    BY <1>2, SignsOfAll DEF AdminIInv
  <2>2. session' \subseteq Emails
    BY <2>1 DEF SignsTyped, SignedTyped
  <2>3. code' \in [Emails -> 0..1]
    <3>1. PICK f : f = code /\ f \in [Emails -> 0..1]
      BY DEF SignedTyped
    <3>2. code' = f \/ code' = [e \in Emails |-> 0] \/ \E e \in Emails : code' = [f EXCEPT ![e] = 0] \/ code' = [f EXCEPT ![e] = 1]
      BY <2>1, <3>1 DEF SignsTyped
    <3> QED BY <3>1, <3>2
  <2>4. member' \in [Workspaces -> SUBSET Emails]
    <3>1. PICK f : f = member /\ f \in [Workspaces -> SUBSET Emails]
      BY DEF SignedTyped
    <3>2. \/ member' = f \/ (\E e \in Emails : member' = [w \in Workspaces |-> f[w] \ {e}])
          \/ \E e \in Emails, w \in Workspaces : member' = [f EXCEPT ![w] = {e}]
      BY <2>1, <3>1 DEF SignsTyped
    <3> QED BY <3>1, <3>2
  <2>5. accountOps' \in 0..MaxAccountOps
    BY <2>1, AccountsAssumption DEF SignsTyped, SignedTyped, AccountOp
  <2> QED BY <2>2, <2>3, <2>4, <2>5 DEF SignedTyped
<1> QED BY <1>1, <1>2

\* Before the first request.
LEMMA AccountTypesInit == AccountsInit => SignedTyped
<1> SUFFICES ASSUME AccountsInit PROVE SignedTyped
  OBVIOUS
<1>1. /\ session \subseteq Emails /\ code = [e \in Emails |-> 0] /\ member = [w \in Workspaces |-> {}] /\ accountOps = 0
  BY DEF AccountsInit
<1>2. code \in [Emails -> 0..1] /\ accountOps \in 0..MaxAccountOps
  BY <1>1, AccountsAssumption
<1> QED BY <1>1, <1>2 DEF SignedTyped

\* The accounts are well typed.
LEMMA AccountsAreTyped == AdminIInv /\ SignedTyped => AccountsTypeOK
  BY DEF AdminIInv, AccountsTyped, SignedTyped, AccountsTypeOK, Row

-----------------------------------------------------------------------------
(* The types of the grants: what GrantIInv does not say. *)

GrantSteps == {"none", "asked", "late", "verified", "about", "found", "saved", "over"}
TargetOrNone == Targets \cup {NoGrant}

RowTyped(row) == row # NoGrant => row.target \in TargetOrNone
AskedTyped(n) ==
  /\ n.step \in GrantSteps /\ n.by \in Grantees \cup {NoGrant} /\ n.target \in TargetOrNone
  /\ n.after \subseteq Consents /\ RowTyped(n.old)

GrantedTyped ==
  /\ \A r \in DriveRows : RowTyped(driveRow[r])
  /\ \A c \in Consents : AskedTyped(grant[c])
  /\ dead \subseteq Consents /\ uses \in 0..MaxUses

\* A grant goes on, with what the types speak of.
LEMMA GrantTypesGoOn ==
  ASSUME GrantIInv, GrantedTyped, NEW c \in Consents, NEW n, AskedTyped(n),
         grant' = [grant EXCEPT ![c] = n], UNCHANGED <<dead, uses>>, \A r \in DriveRows : RowTyped(driveRow'[r])
  PROVE  GrantedTyped'
<1>1. DOMAIN grant = Consents
  BY DEF GrantIInv, GrantsOK
<1>2. \A d \in Consents : grant'[d] = n \/ grant'[d] = grant[d]
  BY <1>1
<1>3. \A d \in Consents : AskedTyped(grant'[d])
  BY <1>2 DEF GrantedTyped
<1> QED BY <1>3 DEF GrantedTyped

\* The steps of an authorization.
LEMMA AuthorizingTypes ==
  ASSUME GrantIInv, GrantedTyped, NEW c \in Consents,
         \/ \E u \in Grantees, w \in Targets \cup {NoGrant} : AuthUrl(c, u, w)
         \/ \E g \in GoogleAccounts : VerifyState(c, g)
         \/ StateExpires(c) \/ GetToken(c) \/ CallbackFails(c) \/ FindRow(c)
  PROVE  GrantedTyped'
<1>1. UNCHANGED <<driveRow, dead, uses>>
  BY DEF AuthUrl, VerifyState, StateExpires, GetToken, CallbackFails, FindRow
<1>2. \A r \in DriveRows : RowTyped(driveRow'[r])
  BY <1>1 DEF GrantedTyped
<1>3. PICK r : /\ r = grant[c] /\ AskedTyped(r) /\ DOMAIN r = {"step", "by", "target", "as", "old", "after"}
               /\ DOMAIN grant = Consents
  BY DEF GrantedTyped, GrantIInv, GrantsOK
<1>4. ASSUME NEW u \in Grantees, NEW w \in Targets \cup {NoGrant}, AuthUrl(c, u, w) PROVE GrantedTyped'
  <2>1. PICK n : n = [NotAsked EXCEPT !.step = "asked", !.by = u, !.target = w]
    OBVIOUS
  <2>2. grant' = [grant EXCEPT ![c] = n]
    BY <1>4, <2>1 DEF AuthUrl
  <2>3. n.by = u /\ n.step = "asked" /\ n.after = {} /\ n.target = w /\ n.old = NoGrant
    BY <2>1 DEF NotAsked
  <2>4. AskedTyped(n)
    BY <2>3 DEF AskedTyped, GrantSteps, TargetOrNone, RowTyped
  <2> QED BY <1>1, <1>2, <2>2, <2>4, GrantTypesGoOn
<1>5. ASSUME NEW g \in GoogleAccounts, VerifyState(c, g) PROVE GrantedTyped'
  <2>1. PICK same : same = {d \in Consents : grant[d].by = grant[c].by /\ grant[d].as = g /\ Saved(d)}
    OBVIOUS
  <2>2. PICK n : n = [r EXCEPT !.step = "verified", !.as = g, !.after = same]
    OBVIOUS
  <2>3. grant' = [grant EXCEPT ![c] = n]
    BY <1>3, <1>5, <2>1, <2>2 DEF VerifyState
  <2>4. n.by = r.by /\ n.step = "verified" /\ n.target = r.target /\ n.old = r.old /\ n.after = same
    BY <1>3, <2>2
  <2>5. same \subseteq Consents
    BY <2>1
  <2>6. AskedTyped(n)
    BY <1>3, <2>4, <2>5 DEF AskedTyped, GrantSteps
  <2> QED BY <1>1, <1>2, <2>3, <2>6, GrantTypesGoOn
<1>6. ASSUME NEW step \in {"late", "about"}, Proceeds(c, step) PROVE GrantedTyped'
  <2>1. PICK n : n = [r EXCEPT !.step = step]
    OBVIOUS
  <2>2. grant' = [grant EXCEPT ![c] = n]
    BY <1>3, <1>6, <2>1 DEF Proceeds
  <2>3. n.by = r.by /\ n.step = step /\ n.target = r.target /\ n.old = r.old /\ n.after = r.after
    BY <1>3, <2>1
  <2>4. AskedTyped(n)
    BY <1>3, <2>3 DEF AskedTyped, GrantSteps
  <2> QED BY <1>1, <1>2, <2>2, <2>4, GrantTypesGoOn
<1>7. ASSUME FindRow(c) PROVE GrantedTyped'
  <2>1. PICK old : old = driveRow[RowOf(c)]
    OBVIOUS
  <2>2. RowTyped(old)
    <3>1. RowOf(c) \in DriveRows
      BY <1>7 DEF FindRow, At, RowOf, GrantIInv, GrantsOK, DriveRows
    <3> QED BY <2>1, <3>1 DEF GrantedTyped
  <2>3. PICK n : n = [r EXCEPT !.step = "found", !.old = old]
    OBVIOUS
  <2>4. grant' = [grant EXCEPT ![c] = n]
    BY <1>3, <1>7, <2>1, <2>3 DEF FindRow
  <2>5. n.by = r.by /\ n.step = "found" /\ n.target = r.target /\ n.old = old /\ n.after = r.after
    BY <1>3, <2>3
  <2>6. AskedTyped(n)
    BY <1>3, <2>2, <2>5 DEF AskedTyped, GrantSteps
  <2> QED BY <1>1, <1>2, <2>4, <2>6, GrantTypesGoOn
<1>8. CASE StateExpires(c) \/ GetToken(c) \/ CallbackFails(c)
  BY <1>6, <1>8 DEF StateExpires, GetToken, CallbackFails
<1> QED BY <1>4, <1>5, <1>7, <1>8

\* A row is written, and the marks.
LEMMA SavedTypes ==
  ASSUME GrantIInv, GrantedTyped, NEW c \in Consents, SaveConnection(c)
  PROVE  GrantedTyped'
<1>1. PICK r : /\ r = grant[c] /\ AskedTyped(r) /\ DOMAIN r = {"step", "by", "target", "as", "old", "after"}
               /\ DOMAIN grant = Consents /\ DOMAIN driveRow = DriveRows
  BY DEF GrantedTyped, GrantIInv, GrantsOK
<1>2. PICK k : k = RowOf(c) /\ k \in DriveRows
  BY DEF SaveConnection, At, RowOf, GrantIInv, GrantsOK, DriveRows
<1>3. PICK row : row = driveRow[k] /\ RowTyped(row)
  BY <1>2 DEF GrantedTyped
<1>4. TargetOf(c, row) \in TargetOrNone
  BY <1>1, <1>3 DEF TargetOf, AskedTyped, RowTyped, TargetOrNone
<1>5. PICK m : driveRow' = [driveRow EXCEPT ![k] = [token |-> Merged(c), target |-> TargetOf(c, row), marked |-> m]]
  BY <1>2, <1>3 DEF SaveConnection
<1>6. PICK new : new = [token |-> Merged(c), target |-> TargetOf(c, row), marked |-> m]
  OBVIOUS
<1>7. RowTyped(new)
  BY <1>4, <1>6 DEF RowTyped
<1>8. \A x \in DriveRows : driveRow'[x] = new \/ driveRow'[x] = driveRow[x]
  BY <1>1, <1>5, <1>6
<1>9. \A x \in DriveRows : RowTyped(driveRow'[x])
  BY <1>7, <1>8 DEF GrantedTyped
<1>10. PICK n : n = [r EXCEPT !.step = "saved"]
  OBVIOUS
<1>11. grant' = [grant EXCEPT ![c] = n] /\ UNCHANGED <<dead, uses>>
  BY <1>1, <1>10 DEF SaveConnection, Proceeds
<1>12. n.by = r.by /\ n.step = "saved" /\ n.target = r.target /\ n.old = r.old /\ n.after = r.after
  BY <1>1, <1>10
<1>13. AskedTyped(n)
  BY <1>1, <1>12 DEF AskedTyped, GrantSteps
<1> QED BY <1>9, <1>11, <1>13, GrantTypesGoOn

\* Marks change no workspace.
LEMMA MarkedTypes ==
  ASSUME GrantIInv, GrantedTyped, NEW u, NEW mark
  PROVE  \A r \in DriveRows : RowTyped(Marked(u, mark)[r])
<1> SUFFICES ASSUME NEW r \in DriveRows PROVE RowTyped(Marked(u, mark)[r])
  OBVIOUS
<1>1. PICK row : row = driveRow[r] /\ RowTyped(row) /\ (row # NoGrant => DOMAIN row = {"token", "target", "marked"})
  BY DEF GrantedTyped, GrantIInv, RowOK
<1>2. Marked(u, mark)[r] = row \/ (row # NoGrant /\ Marked(u, mark)[r] = [row EXCEPT !.marked = mark])
  BY <1>1 DEF Marked
<1>3. ASSUME row # NoGrant PROVE RowTyped([row EXCEPT !.marked = mark])
  <2>1. PICK m : m = [row EXCEPT !.marked = mark]
    OBVIOUS
  <2>2. m.target = row.target
    BY <1>1, <1>3, <2>1
  <2>3. RowTyped(m)
    BY <1>1, <1>3, <2>2 DEF RowTyped
  <2> QED BY <2>1, <2>3
<1> QED BY <1>1, <1>2, <1>3

\* The tokens are used, marked, revoked and taken away.
LEMMA UsedTypes ==
  ASSUME GrantIInv, GrantedTyped,
         \/ \E c \in Consents : MarkIssued(c) \/ GoogleRevokes(c)
         \/ \E r \in DriveRows : CallDrive(r) \/ DeleteRow(r)
         \/ GoogleAnswers \/ CallLost
  PROVE  GrantedTyped'
<1>1. ASSUME NEW c \in Consents, MarkIssued(c) PROVE GrantedTyped'
  <2>1. PICK r : /\ r = grant[c] /\ AskedTyped(r) /\ DOMAIN r = {"step", "by", "target", "as", "old", "after"}
                 /\ DOMAIN grant = Consents
    BY DEF GrantedTyped, GrantIInv, GrantsOK
  <2>2. PICK n : n = [r EXCEPT !.step = "over"]
    OBVIOUS
  <2>3. grant' = [grant EXCEPT ![c] = n] /\ UNCHANGED <<dead, uses>> /\ driveRow' = Marked(grant[c].by, FALSE)
    BY <1>1, <2>1, <2>2 DEF MarkIssued, Proceeds
  <2>4. n.by = r.by /\ n.step = "over" /\ n.target = r.target /\ n.old = r.old /\ n.after = r.after
    BY <2>1, <2>2
  <2>5. AskedTyped(n)
    BY <2>1, <2>4 DEF AskedTyped, GrantSteps
  <2>6. \A x \in DriveRows : RowTyped(driveRow'[x])
    BY <2>3, MarkedTypes
  <2> QED BY <2>3, <2>5, <2>6, GrantTypesGoOn
<1>2. ASSUME NEW c \in Consents, GoogleRevokes(c) PROVE GrantedTyped'
  <2>1. dead' = dead \cup {c} /\ UNCHANGED <<driveRow, grant, uses>>
    BY <1>2 DEF GoogleRevokes
  <2> QED BY <2>1 DEF GrantedTyped
<1>3. ASSUME uses < MaxUses, uses' = uses + 1 PROVE uses' \in 0..MaxUses
  BY <1>3, GrantingAssumption DEF GrantedTyped
<1>4. ASSUME NEW r \in DriveRows, CallDrive(r) PROVE GrantedTyped'
  <2>1. UNCHANGED <<driveRow, grant, dead>> /\ uses < MaxUses /\ uses' = uses + 1
    BY <1>4 DEF CallDrive
  <2> QED BY <1>3, <2>1 DEF GrantedTyped
<1>5. ASSUME NEW r \in DriveRows, DeleteRow(r) PROVE GrantedTyped'
  <2>1. UNCHANGED <<grant, dead>> /\ uses < MaxUses /\ uses' = uses + 1 /\ driveRow' = [driveRow EXCEPT ![r] = NoGrant]
    BY <1>5 DEF DeleteRow
  <2>2. \A x \in DriveRows : driveRow'[x] = NoGrant \/ driveRow'[x] = driveRow[x]
    BY <2>1 DEF GrantIInv
  <2>3. \A x \in DriveRows : RowTyped(driveRow'[x])
    BY <2>2 DEF GrantedTyped, RowTyped
  <2> QED BY <1>3, <2>1, <2>3 DEF GrantedTyped
<1>6. CASE GoogleAnswers
  <2>1. UNCHANGED <<grant, dead, uses>> /\ (driveRow' = Marked(driveCall.by, TRUE) \/ driveRow' = Marked(driveCall.by, FALSE))
    BY <1>6 DEF GoogleAnswers, MarkInvalid
  <2>2. \A x \in DriveRows : RowTyped(driveRow'[x])
    BY <2>1, MarkedTypes
  <2> QED BY <2>1, <2>2 DEF GrantedTyped
<1>7. CASE CallLost
  <2>1. UNCHANGED <<driveRow, grant, dead, uses>>
    BY <1>7 DEF CallLost
  <2> QED BY <2>1 DEF GrantedTyped
<1> QED BY <1>1, <1>2, <1>4, <1>5, <1>6, <1>7

\* Every step keeps the types.
LEMMA GrantTypes ==
  ASSUME GrantIInv, GrantedTyped, [GrantingNext]_grantVars
  PROVE  GrantedTyped'
<1>1. CASE UNCHANGED grantVars
  <2>1. UNCHANGED <<driveRow, grant, dead, uses>>
    BY <1>1 DEF grantVars
  <2> QED BY <2>1 DEF GrantedTyped
<1> QED BY <1>1, AuthorizingTypes, SavedTypes, UsedTypes, Zenon DEF GrantingNext

\* Before the first authorization.
LEMMA GrantTypesInit == GrantingInit => GrantedTyped
<1> SUFFICES ASSUME GrantingInit PROVE GrantedTyped
  OBVIOUS
<1>1. /\ driveRow = [r \in DriveRows |-> NoGrant] /\ grant = [c \in Consents |-> NotAsked] /\ dead = {} /\ uses = 0
  BY DEF GrantingInit
<1>2. AskedTyped(NotAsked)
  BY DEF AskedTyped, NotAsked, GrantSteps, TargetOrNone, RowTyped
<1>3. \A r \in DriveRows : RowTyped(driveRow[r])
  BY <1>1 DEF RowTyped
<1>4. uses \in 0..MaxUses
  BY <1>1, GrantingAssumption
<1> QED BY <1>1, <1>2, <1>3, <1>4 DEF GrantedTyped

\* The grants are well typed.
LEMMA GrantIsTyped == GrantIInv /\ GrantedTyped => GrantingTypeOK
<1> SUFFICES ASSUME GrantIInv, GrantedTyped PROVE GrantingTypeOK
  OBVIOUS
<1>1. ASSUME NEW r \in DriveRows, driveRow[r] # NoGrant
      PROVE  /\ driveRow[r].token \in Consents /\ driveRow[r].target \in Targets \cup {NoGrant}
             /\ driveRow[r].marked \in BOOLEAN
  <2>1. PICK row : row = driveRow[r] /\ row # NoGrant /\ RowTyped(row) /\ row.token \in Consents /\ row.marked \in BOOLEAN
    BY <1>1 DEF GrantIInv, GrantedTyped, RowOK, Theirs
  <2>2. row.target \in Targets \cup {NoGrant}
    BY <2>1 DEF RowTyped, TargetOrNone
  <2> QED BY <2>1, <2>2, Zenon
<1>2. \A c \in Consents : /\ grant[c].step \in GrantSteps
                          /\ grant[c].by \in Grantees \cup {NoGrant} /\ grant[c].after \subseteq Consents
  BY DEF GrantedTyped, AskedTyped
<1>3. dead \subseteq Consents /\ uses \in 0..MaxUses
  BY DEF GrantedTyped
<1> QED BY <1>1, <1>2, <1>3, Zenon DEF GrantingTypeOK, GrantSteps

-----------------------------------------------------------------------------
(* The types of a listing: what ListIInv does not say. *)

ListSteps == {"none", "token", "asks", "waits", "lists", "answered"}

RequestTyped(l) ==
  /\ l.step \in ListSteps /\ l.range \in Ranges
  /\ l.step = "waits" => l.token.issued >= 0
  /\ l.step = "none" => l.batch = {} /\ l.next = 1

ListedTyped ==
  /\ moment <= MaxMoment /\ lateThere \in BOOLEAN
  /\ zoomToken # NotConnected => zoomToken.issued >= 0
  /\ RequestTyped(listing)
  /\ \A a \in ZoomAccounts : lastConfigured[a] >= -1

\* A request that is not made yet is of some range.
LEMMA NothingAskedTyped == RequestTyped(NoListing)
<1> DEFINE c == CHOOSE r \in Ranges : TRUE
<1>1. c \in Ranges
  BY ListingAssumption
<1>2. PICK n : n = [step |-> "none", range |-> c, token |-> NotConnected, asked |-> 0, batch |-> {}, next |-> 1,
                    got |-> {}, before |-> {}, age |-> 0, left |-> EXPIRES_IN]
  OBVIOUS
<1>3. n = NoListing
  BY <1>2, Zenon DEF NoListing
<1> HIDE DEF c
<1>4. n.step = "none" /\ n.range = c /\ n.batch = {} /\ n.next = 1
  BY <1>2
<1>5. RequestTyped(n)
  BY <1>1, <1>4 DEF RequestTyped, ListSteps
<1> QED BY <1>3, <1>5

\* The steps of a request.
LEMMA RequestTypes ==
  ASSUME ListIInv, RequestTyped(listing),
         \/ \E r \in Ranges : ListRecordings(r)
         \/ GetAccessToken \/ IssueToken \/ TokenComes \/ NextBatch \/ ListAnswered \/ ListFails
         \/ \E i \in 1..MAX_RECORDING_WINDOWS : FetchWindow(i)
  PROVE  RequestTyped(listing') /\ UNCHANGED <<moment, lateThere, lastConfigured>>
<1>1. PICK l : /\ l = listing /\ RequestTyped(l)
               /\ DOMAIN l = {"step", "range", "token", "asked", "batch", "next", "got", "before", "age", "left"}
  BY DEF ListIInv, RequestOK
<1>2. PICK hour \in Nat : hour = moment
  BY DEF ListIInv, ConfiguredOK
<1>3. UNCHANGED <<moment, lateThere, lastConfigured>>
  BY DEF ListRecordings, GetAccessToken, IssueToken, TokenComes, NextBatch, ListAnswered, ListFails, FetchWindow, Others
<1>4. ASSUME NEW r \in Ranges, ListRecordings(r) PROVE RequestTyped(listing')
  <2>1. PICK n : n = NoListing /\ RequestTyped(n)
                 /\ DOMAIN n = {"step", "range", "token", "asked", "batch", "next", "got", "before", "age", "left"}
    BY NothingAsked, NothingAskedTyped
  <2>2. PICK m : m = [n EXCEPT !.step = "token", !.range = r, !.before = There(r)]
    OBVIOUS
  <2>3. listing' = m
    BY <1>4, <2>1, <2>2 DEF ListRecordings
  <2>4. m.step = "token" /\ m.range = r
    BY <2>1, <2>2
  <2> QED BY <2>3, <2>4 DEF RequestTyped, ListSteps
<1>5. ASSUME NEW t, NEW a, NEW b, listing' = [[l EXCEPT !.step = "lists", !.token = t] EXCEPT !.age = a, !.left = b]
      PROVE  RequestTyped(listing')
  <2>1. PICK m : m = [l EXCEPT !.step = "lists", !.token = t]
    OBVIOUS
  <2>2. m.step = "lists" /\ m.range = l.range /\ DOMAIN m = DOMAIN l
    BY <1>1, <2>1
  <2>3. PICK p : p = [m EXCEPT !.age = a, !.left = b]
    OBVIOUS
  <2>4. p.step = "lists" /\ p.range = l.range
    BY <1>1, <2>2, <2>3
  <2>5. RequestTyped(p)
    BY <1>1, <2>4 DEF RequestTyped, ListSteps
  <2> QED BY <1>5, <2>1, <2>3, <2>5
<1>6. ASSUME GetAccessToken PROVE RequestTyped(listing')
  <2>1. CASE listing' = [listing EXCEPT !.step = "asks", !.asked = moment]
    <3>1. PICK m : m = [l EXCEPT !.step = "asks", !.asked = moment]
      OBVIOUS
    <3>2. m.step = "asks" /\ m.range = l.range
      BY <1>1, <3>1
    <3>3. listing' = m
      BY <1>1, <2>1, <3>1
    <3> QED BY <1>1, <3>2, <3>3 DEF RequestTyped, ListSteps
  <2>2. CASE listing' = [ListsWith(zoomToken) EXCEPT !.age = moment - lastConfigured[zoomToken.of],
                                                    !.left = zoomToken.issued + EXPIRES_IN - moment]
    BY <1>1, <1>5, <2>2 DEF ListsWith
  <2> QED BY <1>6, <2>1, <2>2 DEF GetAccessToken
<1>7. ASSUME IssueToken PROVE RequestTyped(listing')
  <2>1. PICK t : t = [of |-> zoomAccount, issued |-> hour]
    OBVIOUS
  <2>2. t.issued >= 0
    BY <1>2, <2>1
  <2>3. PICK m : m = [l EXCEPT !.step = "waits", !.token = t]
    OBVIOUS
  <2>4. listing' = m
    BY <1>1, <1>2, <1>7, <2>1, <2>3 DEF IssueToken
  <2>5. m.step = "waits" /\ m.range = l.range /\ m.token = t
    BY <1>1, <2>3
  <2>6. RequestTyped(m)
    BY <1>1, <2>2, <2>5 DEF RequestTyped, ListSteps
  <2> QED BY <2>4, <2>6
<1>8. ASSUME TokenComes PROVE RequestTyped(listing')
  <2>1. PICK m : m = [l EXCEPT !.step = "lists", !.token = l.token]
    OBVIOUS
  <2>2. listing' = m
    BY <1>1, <1>8, <2>1 DEF TokenComes, ListsWith
  <2>3. m.step = "lists" /\ m.range = l.range
    BY <1>1, <2>1
  <2> QED BY <1>1, <2>2, <2>3 DEF RequestTyped, ListSteps
<1>9. ASSUME NextBatch PROVE RequestTyped(listing')
  <2>1. PICK batch, next : listing' = [l EXCEPT !.batch = batch, !.next = next] /\ l.step = "lists"
    <3>1. \E b : listing' = [l EXCEPT !.batch = b, !.next = l.next + Cardinality(b)] /\ l.step = "lists"
      BY <1>1, <1>9 DEF NextBatch
    <3> QED BY <3>1
  <2>2. PICK m : m = [l EXCEPT !.batch = batch, !.next = next]
    OBVIOUS
  <2>3. m.step = "lists" /\ m.range = l.range
    BY <1>1, <2>1, <2>2
  <2>4. RequestTyped(m)
    BY <1>1, <2>3 DEF RequestTyped, ListSteps
  <2> QED BY <2>1, <2>2, <2>4
<1>10. ASSUME NEW i \in 1..MAX_RECORDING_WINDOWS, FetchWindow(i) PROVE RequestTyped(listing')
  <2>1. PICK batch, got : listing' = [l EXCEPT !.batch = batch, !.got = got] /\ i \in l.batch
    BY <1>1, <1>10 DEF FetchWindow
  <2>2. PICK m : m = [l EXCEPT !.batch = batch, !.got = got]
    OBVIOUS
  <2>3. m.step = l.step /\ m.range = l.range /\ m.token = l.token
    BY <1>1, <2>2
  <2>4. l.step # "none"
    BY <1>1, <2>1 DEF RequestTyped
  <2>5. RequestTyped(m)
    BY <1>1, <2>3, <2>4 DEF RequestTyped
  <2> QED BY <2>1, <2>2, <2>5
<1>11. ASSUME ListAnswered PROVE RequestTyped(listing')
  <2>1. PICK m : m = [l EXCEPT !.step = "answered"]
    OBVIOUS
  <2>2. m.step = "answered" /\ m.range = l.range
    BY <1>1, <2>1
  <2>3. listing' = m
    BY <1>1, <1>11, <2>1 DEF ListAnswered
  <2> QED BY <1>1, <2>2, <2>3 DEF RequestTyped, ListSteps
<1>12. ASSUME ListFails PROVE RequestTyped(listing')
  BY <1>12, NothingAskedTyped DEF ListFails
<1>13. RequestTyped(listing')
  BY <1>4, <1>6, <1>7, <1>8, <1>9, <1>10, <1>11, <1>12, Zenon
<1> QED BY <1>3, <1>13

\* Every step of a listing keeps the types.
LEMMA ListTypes ==
  ASSUME ListIInv, ListedTyped, [ListingNext]_listingVars
  PROVE  ListedTyped'
<1>1. PICK hour \in Nat : hour = moment /\ hour <= MaxMoment
  BY DEF ListIInv, ConfiguredOK, ListedTyped
<1>2. lastConfigured \in [ZoomAccounts -> Int] /\ MaxMoment \in Nat
  BY ListingAssumption DEF ListIInv, ConfiguredOK
<1>3. CASE UNCHANGED listingVars
  <2>1. UNCHANGED <<moment, lateThere, zoomToken, listing, lastConfigured>>
    BY <1>3 DEF listingVars
  <2> QED BY <2>1 DEF ListedTyped
<1>4. CASE \/ \E r \in Ranges : ListRecordings(r)
           \/ GetAccessToken \/ IssueToken \/ TokenComes \/ NextBatch \/ ListAnswered \/ ListFails
           \/ \E i \in 1..MAX_RECORDING_WINDOWS : FetchWindow(i)
  <2>1. RequestTyped(listing') /\ UNCHANGED <<moment, lateThere, lastConfigured>>
    BY <1>4, RequestTypes DEF ListedTyped
  <2>2. ASSUME zoomToken' # NotConnected PROVE zoomToken'.issued >= 0
    <3>1. CASE TokenComes
      <4>1. PICK i : i = listing.token.issued
        OBVIOUS
      <4>2. i >= 0
        BY <3>1, <4>1 DEF TokenComes, ListedTyped, RequestTyped
      <4>3. PICK o, e : zoomToken' = [of |-> o, issued |-> i, expiresAt |-> e]
        BY <3>1, <4>1 DEF TokenComes
      <4>4. zoomToken'.issued = i
        BY <4>3
      <4> QED BY <4>2, <4>4
    <3>2. CASE ~TokenComes
      <4>1. zoomToken' = zoomToken
        BY <1>4, <3>2 DEF ListRecordings, GetAccessToken, IssueToken, NextBatch, ListAnswered, ListFails, FetchWindow
      <4> QED BY <2>2, <4>1 DEF ListedTyped
    <3> QED BY <3>1, <3>2
  <2> QED BY <2>1, <2>2 DEF ListedTyped
<1>5. ASSUME NEW a \in ZoomAccounts \cup {NotConnected}, Reconfigure(a) PROVE ListedTyped'
  <2>1. UNCHANGED <<moment, lateThere, zoomToken, listing>>
    BY <1>5 DEF Reconfigure
  <2>2. lastConfigured' = lastConfigured \/ lastConfigured' = [lastConfigured EXCEPT ![a] = hour]
    BY <1>1, <1>5 DEF Reconfigure
  <2>3. \A x \in ZoomAccounts : lastConfigured'[x] = lastConfigured[x] \/ lastConfigured'[x] = hour
    BY <1>2, <2>2
  <2>4. ASSUME NEW x \in ZoomAccounts PROVE lastConfigured'[x] >= -1
    BY <1>1, <2>3 DEF ListedTyped
  <2> QED BY <2>1, <2>4 DEF ListedTyped
<1>6. CASE RecordingAppears
  <2>1. UNCHANGED <<moment, zoomToken, listing, lastConfigured>> /\ lateThere' = TRUE
    BY <1>6 DEF RecordingAppears
  <2> QED BY <2>1 DEF ListedTyped
<1>7. CASE MomentPasses
  <2>1. UNCHANGED <<lateThere, zoomToken, listing>> /\ moment' = hour + 1 /\ hour < MaxMoment
    BY <1>1, <1>7 DEF MomentPasses
  <2>2. lastConfigured' = [a \in ZoomAccounts |-> IF a = zoomAccount THEN hour + 1 ELSE lastConfigured[a]]
    BY <1>1, <1>7 DEF MomentPasses
  <2>3. \A x \in ZoomAccounts : lastConfigured'[x] = lastConfigured[x] \/ lastConfigured'[x] = hour + 1
    BY <2>2
  <2>4. ASSUME NEW x \in ZoomAccounts PROVE lastConfigured'[x] >= -1
    BY <1>1, <2>3 DEF ListedTyped
  <2>5. moment' <= MaxMoment
    BY <1>1, <1>2, <2>1
  <2> QED BY <2>1, <2>4, <2>5 DEF ListedTyped
<1> QED BY <1>3, <1>4, <1>5, <1>6, <1>7, Zenon DEF ListingNext

\* Before the first list.
LEMMA ListTypesInit == ListingInit => ListedTyped
<1> SUFFICES ASSUME ListingInit PROVE ListedTyped
  OBVIOUS
<1>1. /\ moment = 0 /\ lateThere = FALSE /\ zoomToken = NotConnected /\ listing = NoListing
      /\ lastConfigured = [a \in ZoomAccounts |-> IF a = zoomAccount THEN 0 ELSE -1]
  BY DEF ListingInit
<1>2. MaxMoment \in Nat
  BY ListingAssumption
<1>3. \A a \in ZoomAccounts : lastConfigured[a] >= -1
  BY <1>1
<1>4. RequestTyped(listing)
  BY <1>1, NothingAskedTyped
<1>5. moment <= MaxMoment
  BY <1>1, <1>2
<1>6. lateThere \in BOOLEAN
  BY <1>1
<1>7. zoomToken # NotConnected => zoomToken.issued >= 0
  BY <1>1, Zenon
<1> QED BY <1>3, <1>4, <1>5, <1>6, <1>7 DEF ListedTyped

\* A listing is well typed.
LEMMA ListIsTyped == ListIInv /\ ListedTyped => ListingTypeOK
<1> SUFFICES ASSUME ListIInv, ListedTyped PROVE ListingTypeOK
  OBVIOUS
<1>1. PICK hour \in Nat : hour = moment /\ hour <= MaxMoment
  BY DEF ListIInv, ConfiguredOK, ListedTyped
<1>2. zoomAccount \in ZoomAccounts \cup {NotConnected} /\ MaxMoment \in Nat
  BY ListingAssumption DEF ListIInv, ConfiguredOK
<1>3. lastConfigured \in [ZoomAccounts -> Int] /\ \A x \in ZoomAccounts : lastConfigured[x] <= hour /\ lastConfigured[x] >= -1
  BY <1>1 DEF ListIInv, ConfiguredOK, ListedTyped
<1>4. lastConfigured \in [ZoomAccounts -> -1..hour]
  <2>1. \A x \in ZoomAccounts : lastConfigured[x] \in -1..hour
    BY <1>3
  <2> QED BY <1>3, <2>1
<1>5. ASSUME zoomToken # NotConnected PROVE zoomToken.of \in ZoomAccounts /\ zoomToken.issued \in 0..hour
  <2>1. PICK i \in Int : i = zoomToken.issued /\ i >= 0
    BY <1>5 DEF ListIInv, KeptOK, ListedTyped
  <2>2. zoomToken.of \in ZoomAccounts /\ i <= lastConfigured[zoomToken.of]
    BY <1>5, <2>1 DEF ListIInv, KeptOK
  <2>3. PICK c \in Int : c = lastConfigured[zoomToken.of] /\ c <= hour
    BY <1>3, <2>2
  <2>4. i \in 0..hour
    BY <2>1, <2>2, <2>3
  <2> QED BY <2>1, <2>2, <2>4
<1>6. PICK l : l = listing /\ RequestTyped(l) /\ RequestOK(l, lastConfigured, moment, lateThere)
  BY DEF ListIInv, ListedTyped
<1>7. l.batch \subseteq 1..MAX_RECORDING_WINDOWS /\ l.next \in 1..(MAX_RECORDING_WINDOWS + 1)
  <2>1. PICK M \in Nat : M = MAX_RECORDING_WINDOWS /\ M > 0
    BY ListingLimits
  <2>2. CASE l.step = "none"
    BY <1>6, <2>1, <2>2 DEF RequestTyped
  <2>3. CASE l.step # "none"
    <3>1. MonthsOK(l) /\ l.range \in Ranges
      BY <1>6, <2>3 DEF RequestOK, RequestTyped
    <3>2. PICK w : w = WindowsOf(l)
      OBVIOUS
    <3>3. PICK L \in Nat : L = Len(w) /\ L <= M
      BY <2>1, <3>1, <3>2, RangeWindowed, LenProperties DEF WindowsOf, Windowed
    <3>4. PICK n \in Nat : n = l.next /\ 1 <= n /\ n <= L + 1 /\ l.batch \subseteq 1..(n - 1)
      BY <3>1, <3>2, <3>3 DEF MonthsOK
    <3>5. n \in 1..(M + 1) /\ 1..(n - 1) \subseteq 1..M
      BY <3>3, <3>4
    <3> QED BY <2>1, <3>4, <3>5
  <2> QED BY <2>2, <2>3
<1>8. listing.step \in ListSteps /\ listing.range \in Ranges
  BY <1>6 DEF RequestTyped
<1>9. moment \in 0..MaxMoment
  BY <1>1, <1>2
<1>10. lateThere \in BOOLEAN
  BY DEF ListedTyped
<1> QED BY <1>1, <1>2, <1>4, <1>5, <1>6, <1>7, <1>8, <1>9, <1>10 DEF ListingTypeOK, ListSteps

-----------------------------------------------------------------------------
(* The types of the tokens of a connection, and of the channel: they are   *)
(* inductive as they stand.                                                *)

CallRecord == [step : {"none", "sent", "taken", "refused", "marking"}, token : Tokens]
SaveRecord == [step : {"none", "read", "write", "mark"}, active : BOOLEAN, kept : Tokens,
               given : Tokens, then : {"none", "issued", "invalid"}]

\* The numbers of tokens and of steps.
LEMMA TokenLimits == MaxTokens \in Nat /\ MaxSteps \in Nat /\ 0 \in Tokens /\ Tokens \subseteq Nat
<1>1. MaxTokens \in Nat /\ MaxSteps \in Nat
  BY TokenMarkAssumption
<1> QED BY <1>1 DEF Tokens

\* Nothing is saved, or called.
LEMMA NothingRuns == NoSave \in SaveRecord /\ NoCall \in CallRecord
<1>1. 0 \in Tokens
  BY TokenLimits
<1> QED BY <1>1 DEF NoSave, NoCall, SaveRecord, CallRecord

\* A mark of the connection.
LEMMA MarksTyped ==
  ASSUME connection \in ConnectionRow
  PROVE  {MarkTokenIssued, MarkTokenRefreshed, MarkTokenInvalid} \subseteq ConnectionRow
<1>1. MarkTokenIssued \in ConnectionRow
  BY DEF MarkTokenIssued, ConnectionRow
<1>2. MarkTokenRefreshed \in ConnectionRow
  BY DEF MarkTokenRefreshed, ConnectionRow
<1>3. MarkTokenInvalid \in ConnectionRow
  BY DEF MarkTokenInvalid, ConnectionRow
<1> QED BY <1>1, <1>2, <1>3

\* A save or a disconnection begins.
LEMMA SavingTypes ==
  ASSUME TokenTypeOK, NEW k \in Savers, NEW active \in BOOLEAN, NEW given \in Tokens, NEW then \in {"none", "issued", "invalid"},
         Saving(k, active, given, then), accepted' \subseteq Tokens, issued' \in Tokens
  PROVE  TokenTypeOK'
<1>1. PICK s : s = save /\ s \in [Savers -> SaveRecord]
  BY DEF TokenTypeOK, SaveRecord
<1>2. PICK n : n = [step |-> "read", active |-> active, kept |-> 0, given |-> given, then |-> then]
  OBVIOUS
<1>3. n \in SaveRecord
  BY <1>2, TokenLimits DEF SaveRecord
<1>4. save' = [s EXCEPT ![k] = n] /\ UNCHANGED <<connection, call>>
  BY <1>1, <1>2 DEF Saving
<1>5. save' \in [Savers -> SaveRecord]
  BY <1>1, <1>3, <1>4
<1>6. steps' \in 0..MaxSteps
  BY TokenLimits DEF Saving, TokenStep, TokenTypeOK
<1> QED BY <1>4, <1>5, <1>6 DEF TokenTypeOK, SaveRecord

\* The steps of a save.
LEMMA SaveTypes ==
  ASSUME TokenTypeOK, NEW k \in Savers, SaveReads(k) \/ SaveWrites(k) \/ SaveMarks(k)
  PROVE  TokenTypeOK'
<1>1. UNCHANGED <<accepted, issued, call, steps>>
  BY DEF SaveReads, SaveWrites, SaveMarks
<1>2. PICK s : s = save /\ s \in [Savers -> SaveRecord]
  BY DEF TokenTypeOK, SaveRecord
<1>3. PICK r : r = save[k] /\ r \in SaveRecord
  BY <1>2
<1>4. PICK c : c = connection /\ c \in ConnectionRow
  BY DEF TokenTypeOK
<1>5. connection' \in ConnectionRow
  <2>1. CASE SaveReads(k)
    BY <1>4, <2>1 DEF SaveReads
  <2>2. CASE SaveWrites(k)
    <3>1. PICK t : t = IF r.given # 0 THEN r.given ELSE r.kept
      OBVIOUS
    <3>2. t \in Tokens /\ r.active \in BOOLEAN
      BY <1>3, <3>1 DEF SaveRecord
    <3>3. connection' = [c EXCEPT !.active = r.active, !.token = t]
      BY <1>3, <1>4, <2>2, <3>1 DEF SaveWrites
    <3> QED BY <1>4, <3>2, <3>3 DEF ConnectionRow
  <2>3. CASE SaveMarks(k)
    <3>1. connection' = MarkTokenIssued \/ connection' = MarkTokenInvalid
      BY <2>3 DEF SaveMarks
    <3> QED BY <1>4, <3>1, MarksTyped
  <2> QED BY <2>1, <2>2, <2>3
<1>6. \E n \in SaveRecord : save' = [s EXCEPT ![k] = n]
  <2>1. CASE SaveReads(k)
    <3>1. PICK t \in Tokens : t = c.token
      BY <1>4 DEF ConnectionRow
    <3>2. PICK n : n = [r EXCEPT !.step = "write", !.kept = t]
      OBVIOUS
    <3>3. n \in SaveRecord
      BY <1>3, <3>2 DEF SaveRecord
    <3>4. save' = [s EXCEPT ![k] = n]
      BY <1>2, <1>3, <1>4, <2>1, <3>1, <3>2 DEF SaveReads
    <3> QED BY <3>3, <3>4
  <2>2. CASE SaveWrites(k)
    <3>1. PICK n : n = IF r.then = "none" THEN NoSave ELSE [r EXCEPT !.step = "mark"]
      OBVIOUS
    <3>2. [r EXCEPT !.step = "mark"] \in SaveRecord
      BY <1>3 DEF SaveRecord
    <3>3. n \in SaveRecord
      BY <3>1, <3>2, NothingRuns
    <3>4. save' = [s EXCEPT ![k] = n]
      BY <1>2, <1>3, <2>2, <3>1 DEF SaveWrites
    <3> QED BY <3>3, <3>4
  <2>3. CASE SaveMarks(k)
    BY <1>2, <2>3, NothingRuns DEF SaveMarks
  <2> QED BY <2>1, <2>2, <2>3
<1>7. save' \in [Savers -> SaveRecord]
  BY <1>2, <1>6
<1> QED BY <1>1, <1>5, <1>7 DEF TokenTypeOK, SaveRecord

\* The steps of a call.
LEMMA CallTypes ==
  ASSUME TokenTypeOK, NEW s \in Slots, Works(s)
  PROVE  TokenTypeOK'
<1>1. UNCHANGED <<accepted, issued, save, steps>>
  BY DEF Works, CallStarts, CallAnswered, RecordTokenRefresh, RecordTokenError, RecordInvalid
<1>2. PICK f : f = call /\ f \in [Slots -> CallRecord]
  BY DEF TokenTypeOK, CallRecord
<1>3. PICK r : r = call[s] /\ r \in CallRecord
  BY <1>2
<1>4. connection' \in ConnectionRow
  <2>1. connection' \in {connection, MarkTokenRefreshed, MarkTokenInvalid} /\ connection \in ConnectionRow
    BY DEF Works, CallStarts, CallAnswered, RecordTokenRefresh, RecordTokenError, RecordInvalid, TokenTypeOK
  <2> QED BY <2>1, MarksTyped
<1>5. \E n \in CallRecord : call' = [f EXCEPT ![s] = n]
  <2>1. CASE CallStarts(s)
    <3>1. PICK t \in Tokens : t = connection.token
      BY DEF TokenTypeOK, ConnectionRow
    <3>2. PICK n : n = [step |-> "sent", token |-> t]
      OBVIOUS
    <3>3. n \in CallRecord
      BY <3>2 DEF CallRecord
    <3>4. call' = [f EXCEPT ![s] = n]
      BY <1>2, <2>1, <3>1, <3>2 DEF CallStarts
    <3> QED BY <3>3, <3>4
  <2>2. ASSUME NEW step \in {"taken", "refused", "marking"}, SetCall(s, step)
        PROVE  \E n \in CallRecord : call' = [f EXCEPT ![s] = n]
    <3>1. PICK n : n = [r EXCEPT !.step = step]
      OBVIOUS
    <3>2. n \in CallRecord
      BY <1>3, <3>1 DEF CallRecord
    <3>3. call' = [f EXCEPT ![s] = n]
      BY <1>2, <1>3, <2>2, <3>1 DEF SetCall
    <3> QED BY <3>2, <3>3
  <2>3. CASE CallAnswered(s)
    <3>1. SetCall(s, "taken") \/ SetCall(s, "refused")
      BY <2>3 DEF CallAnswered
    <3> QED BY <2>2, <3>1
  <2>4. ASSUME call' = [call EXCEPT ![s] = NoCall] PROVE \E n \in CallRecord : call' = [f EXCEPT ![s] = n]
    BY <1>2, <2>4, NothingRuns
  <2>5. CASE RecordTokenError(s)
    <3>1. call' = [call EXCEPT ![s] = NoCall] \/ SetCall(s, "marking")
      BY <2>5 DEF RecordTokenError, SetCall
    <3> QED BY <2>2, <2>4, <3>1
  <2>6. CASE RecordTokenRefresh(s) \/ RecordInvalid(s)
    BY <2>4, <2>6 DEF RecordTokenRefresh, RecordInvalid
  <2> QED BY <2>1, <2>3, <2>5, <2>6 DEF Works
<1>6. call' \in [Slots -> CallRecord]
  BY <1>2, <1>5
<1> QED BY <1>1, <1>4, <1>6 DEF TokenTypeOK, CallRecord

\* Every step of the tokens.
LEMMA TokenTypes == TokenTypeOK /\ [TokenNext]_tokenVars => TokenTypeOK'
<1> SUFFICES ASSUME TokenTypeOK, [TokenNext]_tokenVars PROVE TokenTypeOK'
  OBVIOUS
<1>1. CASE UNCHANGED tokenVars
  <2>1. UNCHANGED <<connection, accepted, issued, call, save, steps>>
    BY <1>1 DEF tokenVars
  <2> QED BY <2>1 DEF TokenTypeOK
<1>2. accepted \subseteq Tokens /\ issued \in Tokens /\ {"callback", "form"} \subseteq Savers
  BY DEF TokenTypeOK, Savers
<1>3. CASE HandleCallback
  <2>1. CASE UNCHANGED <<issued, accepted>> /\ Saving("callback", TRUE, 0, "issued")
    <3>1. 0 \in Tokens /\ accepted' \subseteq Tokens /\ issued' \in Tokens
      BY <1>2, <2>1, TokenLimits
    <3> QED BY <1>2, <2>1, <3>1, SavingTypes
  <2>2. CASE issued < MaxTokens /\ issued' = issued + 1 /\ accepted' = accepted \cup {issued + 1}
             /\ Saving("callback", TRUE, issued + 1, "issued")
    <3>1. PICK n \in Nat : n = issued + 1 /\ n \in Tokens
      BY <1>2, <2>2, TokenLimits DEF Tokens
    <3>2. issued' = n /\ accepted' = accepted \cup {n} /\ Saving("callback", TRUE, n, "issued")
      BY <2>2, <3>1
    <3>3. accepted' \subseteq Tokens /\ issued' \in Tokens
      BY <1>2, <3>1, <3>2
    <3> QED BY <1>2, <3>1, <3>2, <3>3, SavingTypes
  <2> QED BY <1>3, <2>1, <2>2 DEF HandleCallback
<1>4. CASE (\E active \in BOOLEAN : UpdateConfig(active)) \/ DisconnectYoutube
  <2>1. PICK active \in BOOLEAN, then \in {"none", "issued", "invalid"} : Saving("form", active, 0, then)
    <3>1. CASE DisconnectYoutube
      BY <3>1 DEF DisconnectYoutube
    <3>2. CASE \E active \in BOOLEAN : UpdateConfig(active)
      BY <3>2 DEF UpdateConfig
    <3> QED BY <1>4, <3>1, <3>2
  <2>2. 0 \in Tokens /\ accepted' \subseteq Tokens /\ issued' \in Tokens
    BY <1>2, <1>4, TokenLimits DEF UpdateConfig, DisconnectYoutube
  <2> QED BY <1>2, <2>1, <2>2, SavingTypes
<1>5. CASE \E k \in Savers : SaveReads(k) \/ SaveWrites(k) \/ SaveMarks(k)
  BY <1>5, SaveTypes
<1>6. ASSUME NEW t \in Tokens, Revoke(t) PROVE TokenTypeOK'
  <2>1. UNCHANGED <<connection, issued, call, save>> /\ accepted' = accepted \ {t} /\ TokenStep
    BY <1>6 DEF Revoke
  <2>2. steps' \in 0..MaxSteps
    BY <2>1, TokenLimits DEF TokenStep, TokenTypeOK
  <2> QED BY <2>1, <2>2 DEF TokenTypeOK
<1>7. CASE FiveMinutes
  <2>1. UNCHANGED <<accepted, issued, call, save, steps>> /\ connection' = [connection EXCEPT !.fresh = FALSE]
    BY <1>7 DEF FiveMinutes
  <2>2. connection' \in ConnectionRow
    BY <2>1 DEF TokenTypeOK, ConnectionRow
  <2> QED BY <2>1, <2>2 DEF TokenTypeOK
<1>8. CASE \E s \in Slots : Works(s)
  BY <1>8, CallTypes
<1> QED BY <1>1, <1>3, <1>4, <1>5, <1>6, <1>7, <1>8, Zenon DEF TokenNext

\* Before the first token.
LEMMA TokenTypesInit == TokenInit => TokenTypeOK
<1> SUFFICES ASSUME TokenInit PROVE TokenTypeOK
  OBVIOUS
<1>1. /\ connection = [active |-> TRUE, token |-> 0, invalid |-> FALSE, fresh |-> FALSE]
      /\ accepted = {} /\ issued = 0 /\ call = [s \in Slots |-> NoCall]
      /\ save = [k \in Savers |-> NoSave] /\ steps = 0
  BY DEF TokenInit
<1>2. connection \in ConnectionRow
  BY <1>1, TokenLimits DEF ConnectionRow
<1>3. call \in [Slots -> CallRecord] /\ save \in [Savers -> SaveRecord]
  BY <1>1, NothingRuns
<1>4. issued \in Tokens /\ steps \in 0..MaxSteps
  BY <1>1, TokenLimits
<1> QED BY <1>1, <1>2, <1>3, <1>4 DEF TokenTypeOK, CallRecord, SaveRecord

\* The changes of the videos, and the requests.
LEMMA ChannelLimits ==
  /\ MaxChanges \in Nat /\ MaxAsks \in Nat /\ IsFiniteSet(OnChannel)
  /\ 0 \in VideoVersions /\ VideoVersions \subseteq Nat
<1>1. MaxChanges \in Nat /\ MaxAsks \in Nat /\ IsFiniteSet(OnChannel)
  BY ChannelAssumption
<1> QED BY <1>1 DEF VideoVersions

Versioned == [OnChannel -> VideoVersions]

\* A video changes once more.
LEMMA ChangeTypes ==
  ASSUME ChannelTypeOK, NEW v \in OnChannel, VideoChanges(v)
  PROVE  changes + 1 \in VideoVersions /\ changes' \in VideoVersions /\ changed' \in Versioned
<1>1. PICK n : n = changes + 1 /\ n \in VideoVersions
  BY ChannelLimits DEF ChannelTypeOK, VideoChanges, VideoVersions
<1>2. changes' = n /\ changed' = [changed EXCEPT ![v] = n] /\ changed \in Versioned
  BY <1>1 DEF VideoChanges, ChannelTypeOK, Versioned
<1> QED BY <1>1, <1>2 DEF Versioned

\* The list of a set is a sequence of it.
LEMMA ListIsSequence ==
  ASSUME NEW S \in SUBSET OnChannel, NEW q \in SetToSeqs(S)
  PROVE  q \in Seq(OnChannel)
<1>1. IsFiniteSet(S)
  BY ChannelLimits, FS_Subset
<1>2. PICK N \in Nat : N = Cardinality(S)
  BY <1>1, FS_CardinalityType
<1>3. q \in [1..N -> S]
  BY <1>2 DEF SetToSeqs
<1>4. q \in [1..N -> OnChannel]
  BY <1>3
<1> QED BY <1>4, SeqDef

\* A step of a refresh.
LEMMA RefreshTypes ==
  ASSUME ChannelTypeOK, NEW r \in refreshes, ReadBatch(r) \/ ReplaceCache(r) \/ RefreshFails(r)
  PROVE  ChannelTypeOK'
<1>1. PICK f : f = r /\ f \in Refresh
  BY DEF ChannelTypeOK
<1>2. f.left \in Seq(OnChannel) /\ f.found \in Versioned /\ f.begun \in Versioned
  BY <1>1 DEF Refresh, Versioned
<1>3. CASE ReadBatch(r)
  <2>1. f.left # <<>> /\ UNCHANGED <<changed, cached, writing, floor, stirred, changes, asks>>
    BY <1>1, <1>3 DEF ReadBatch
  <2>2. PICK x : x = Head(f.left) /\ x \in OnChannel
    BY <1>2, <2>1, HeadTailProperties
  <2>3. PICK rest : rest = Tail(f.left) /\ rest \in Seq(OnChannel)
    BY <1>2, <2>1, HeadTailProperties
  <2>4. PICK found : found = [f.found EXCEPT ![x] = changed[x]] /\ found \in Versioned
    <3>1. changed[x] \in VideoVersions
      BY <2>2 DEF ChannelTypeOK
    <3>2. PICK g : g = f.found /\ g \in [OnChannel -> VideoVersions]
      BY <1>2 DEF Versioned
    <3>3. PICK y : y = changed[x] /\ y \in VideoVersions
      BY <3>1
    <3>4. [g EXCEPT ![x] = y] \in [OnChannel -> VideoVersions]
      BY <3>2, <3>3
    <3> QED BY <3>2, <3>3, <3>4 DEF Versioned
  <2>5. PICK n : n = [f EXCEPT !.left = rest, !.found = found]
    OBVIOUS
  <2>6. n \in Refresh
    BY <1>1, <2>3, <2>4, <2>5 DEF Refresh, Versioned
  <2>7. [f EXCEPT !.left = Tail(@), !.found[Head(f.left)] = changed[Head(f.left)]] = n
    BY <1>1, <2>2, <2>3, <2>4, <2>5 DEF Refresh
  <2>8. refreshes' = (refreshes \ {r}) \cup {n}
    BY <1>1, <1>3, <2>7 DEF ReadBatch
  <2> QED BY <2>1, <2>6, <2>8 DEF ChannelTypeOK
<1>4. CASE ReplaceCache(r)
  <2>1. /\ UNCHANGED <<changed, writing, changes, asks>> /\ cached' = f.found /\ refreshes' = refreshes \ {r}
        /\ floor' = Later(f.begun, floor) /\ stirred' = {w.v : w \in writing}
    BY <1>1, <1>4 DEF ReplaceCache
  <2>2. floor' \in Versioned
    <3>1. floor \in Versioned
      BY DEF ChannelTypeOK, Versioned
    <3> QED BY <1>2, <2>1, <3>1 DEF Later, Versioned
  <2>3. stirred' \subseteq OnChannel
    BY <2>1 DEF ChannelTypeOK
  <2> QED BY <1>2, <2>1, <2>2, <2>3 DEF ChannelTypeOK, Versioned
<1>5. CASE RefreshFails(r)
  <2>1. AskList /\ refreshes' = refreshes \ {r} /\ UNCHANGED <<changed, cached, writing, floor, stirred, changes>>
    BY <1>5 DEF RefreshFails
  <2>2. asks' \in 0..MaxAsks
    BY <2>1, ChannelLimits DEF AskList, ChannelTypeOK
  <2> QED BY <2>1, <2>2 DEF ChannelTypeOK
<1> QED BY <1>3, <1>4, <1>5

\* Every step of the channel.
LEMMA ChannelTypes == ChannelTypeOK /\ [ChannelNext]_channelVars => ChannelTypeOK'
<1> SUFFICES ASSUME ChannelTypeOK, [ChannelNext]_channelVars PROVE ChannelTypeOK'
  OBVIOUS
<1>1. CASE UNCHANGED channelVars
  <2>1. UNCHANGED <<changed, cached, refreshes, writing, floor, stirred, changes, asks>>
    BY <1>1 DEF channelVars
  <2> QED BY <2>1 DEF ChannelTypeOK
<1>2. ASSUME AskList PROVE asks' \in 0..MaxAsks
  BY <1>2, ChannelLimits DEF AskList, ChannelTypeOK
<1>3. ASSUME NEW v \in OnChannel, StudioEdits(v) PROVE ChannelTypeOK'
  <2>1. VideoChanges(v) /\ UNCHANGED <<cached, refreshes, writing, floor, stirred, asks>>
    BY <1>3 DEF StudioEdits
  <2> QED BY <2>1, ChangeTypes DEF ChannelTypeOK, Versioned
<1>4. ASSUME NEW v \in OnChannel, StudioDeletes(v) PROVE ChannelTypeOK'
  <2>1. AskList /\ changed' = [changed EXCEPT ![v] = 0] /\ UNCHANGED <<cached, refreshes, writing, floor, stirred, changes>>
    BY <1>4 DEF StudioDeletes
  <2>2. changed' \in Versioned
    BY <2>1, ChannelLimits DEF ChannelTypeOK, Versioned
  <2> QED BY <1>2, <2>1, <2>2 DEF ChannelTypeOK, Versioned
<1>5. ASSUME NEW v \in OnChannel, EditVideo(v) PROVE ChannelTypeOK'
  <2>1. /\ AskList /\ VideoChanges(v) /\ UNCHANGED <<cached, refreshes, floor, stirred>>
        /\ writing' = writing \cup {[v |-> v, change |-> changes + 1]}
    BY <1>5 DEF EditVideo
  <2>2. PICK n \in VideoVersions : n = changes + 1
    BY <2>1, ChangeTypes
  <2>3. PICK w : w = [v |-> v, change |-> n]
    OBVIOUS
  <2>4. w \in [v : OnChannel, change : VideoVersions] /\ writing' = writing \cup {w}
    BY <2>1, <2>2, <2>3
  <2>5. writing' \subseteq [v : OnChannel, change : VideoVersions]
    BY <2>4 DEF ChannelTypeOK
  <2>6. changes' \in VideoVersions /\ changed' \in Versioned
    BY <2>1, ChangeTypes
  <2> QED BY <1>2, <2>1, <2>5, <2>6 DEF ChannelTypeOK, Versioned
<1>6. ASSUME GetChannelVideos PROVE ChannelTypeOK'
  <2>1. AskList /\ (Begins \/ UNCHANGED refreshes) /\ UNCHANGED <<changed, cached, writing, floor, stirred, changes>>
    BY <1>6 DEF GetChannelVideos
  <2>2. refreshes' \subseteq Refresh
    <3>1. CASE UNCHANGED refreshes
      BY <3>1 DEF ChannelTypeOK
    <3>2. CASE Begins
      <4>1. PICK left \in SetToSeqs({v \in OnChannel : changed[v] # 0}) :
              refreshes' = refreshes \cup {[left |-> left, found |-> [v \in OnChannel |-> 0], begun |-> changed]}
        BY <3>2 DEF Begins
      <4>2. left \in Seq(OnChannel)
        BY <4>1, ListIsSequence
      <4>3. PICK z : z = [v \in OnChannel |-> 0] /\ z \in Versioned
        <5>1. [v \in OnChannel |-> 0] \in Versioned
          <6>1. 0 \in VideoVersions
            BY ChannelLimits
          <6> QED BY <6>1 DEF Versioned
        <5> QED BY <5>1
      <4>4. PICK n : n = [left |-> left, found |-> z, begun |-> changed]
        OBVIOUS
      <4>5. n \in Refresh
        BY <4>2, <4>3, <4>4 DEF ChannelTypeOK, Refresh, Versioned
      <4>6. refreshes' = refreshes \cup {n}
        BY <4>1, <4>3, <4>4
      <4> QED BY <4>5, <4>6 DEF ChannelTypeOK
    <3> QED BY <2>1, <3>1, <3>2
  <2> QED BY <1>2, <2>1, <2>2 DEF ChannelTypeOK
<1>7. ASSUME NEW w \in writing, UpdateChannelVideoCache(w) PROVE ChannelTypeOK'
  <2>1. UNCHANGED <<changed, refreshes, floor, stirred, changes, asks>> /\ writing' = writing \ {w}
        /\ (cached' = cached \/ cached' = [cached EXCEPT ![w.v] = w.change])
    BY <1>7 DEF UpdateChannelVideoCache
  <2>2. w.v \in OnChannel /\ w.change \in VideoVersions /\ cached \in Versioned
    BY DEF ChannelTypeOK, Versioned
  <2>3. cached' \in Versioned
    BY <2>1, <2>2 DEF Versioned
  <2> QED BY <2>1, <2>3 DEF ChannelTypeOK, Versioned
<1> QED BY <1>1, <1>3, <1>4, <1>5, <1>6, <1>7, RefreshTypes, Zenon DEF ChannelNext

\* Before the first refresh.
LEMMA ChannelTypesInit == ChannelInit => ChannelTypeOK
<1> SUFFICES ASSUME ChannelInit PROVE ChannelTypeOK
  OBVIOUS
<1>1. /\ changed = [v \in OnChannel |-> 0] /\ cached = changed /\ floor = changed
      /\ refreshes = {} /\ writing = {} /\ stirred = {} /\ changes = 0 /\ asks = 0
  BY DEF ChannelInit
<1>2. changed \in Versioned
  BY <1>1, ChannelLimits DEF Versioned
<1>3. changes \in VideoVersions /\ asks \in 0..MaxAsks
  BY <1>1, ChannelLimits
<1> QED BY <1>1, <1>2, <1>3 DEF ChannelTypeOK, Versioned

-----------------------------------------------------------------------------
\* A step of the services is a step of each part, or leaves the part as it is.
LEMMA StepOfEachPart ==
  ASSUME [Next]_vars
  PROVE  /\ [ChannelNext]_channelVars /\ [ListingNext]_listingVars
         /\ [AccountsNext]_accountVars /\ [GrantingNext]_grantVars
         /\ [RateLimitNext]_limitVars /\ [ConsentCacheNext]_consentCacheVars
         /\ [CaptionsNext]_captionVars /\ [QuotaNext]_quotaVars /\ [TokenNext]_tokenVars
         /\ [SyncPlanNext]_planVars /\ [MatchingNext]_matchVars /\ [AnswersNext]_answerVars
<1>1. CASE UNCHANGED vars
  <2>1. UNCHANGED <<youtubeVars, peopleVars, cloudVars>>
    BY <1>1, Zenon DEF vars
  <2> QED BY <2>1, Zenon DEF youtubeVars, peopleVars, cloudVars
<1>2. CASE YoutubeNext /\ UNCHANGED <<peopleVars, cloudVars>>
  BY <1>2, Zenon DEF YoutubeNext, peopleVars, cloudVars
<1>3. CASE PeopleNext /\ UNCHANGED <<youtubeVars, cloudVars>>
  BY <1>3, Zenon DEF PeopleNext, youtubeVars, cloudVars
<1>4. CASE CloudNext /\ UNCHANGED <<youtubeVars, peopleVars>>
  BY <1>4, Zenon DEF CloudNext, youtubeVars, peopleVars
<1> QED BY <1>1, <1>2, <1>3, <1>4, Zenon DEF Next

\* Requests per window and address (ip-rate-limit.guard.ts), events after an account withdrew
\* its consent (analytics.service.ts), and attempts at the captions of a recording
\* (caption.service.ts): for any addresses, accounts, recordings, windows, lives of an
\* entry, awaits and budgets, and however many calls overlap.
THEOREM LimitsAreKept == Spec => []LimitsHold
<1>1. Init => LimitIInv /\ ConsentIInv /\ CaptionIInv
  BY LimitInit, ConsentInit, CaptionInit DEF Init
<1>2. LimitIInv /\ ConsentIInv /\ CaptionIInv /\ [Next]_vars => (LimitIInv /\ ConsentIInv /\ CaptionIInv)'
  BY StepOfEachPart, LimitStep, ConsentStep, CaptionStep
<1>3. LimitIInv /\ ConsentIInv /\ CaptionIInv => LimitsHold
  BY LimitHolds, ConsentHolds, CaptionsHold DEF LimitsHold
<1> QED BY <1>1, <1>2, <1>3, PTL DEF Spec

\* Who may do what: the last super admin (admin-accounts.service.ts) and the tokens of Google
\* Drives (google-drive.service.ts): for any accounts, admins, requests, restarts, Google
\* accounts, workspaces and authorizations that overlap.
THEOREM RightsAreHeld == Spec => []RightsHold
<1>1. Init => AdminIInv /\ GrantIInv
  BY AdminInit, GrantInit DEF Init
<1>2. AdminIInv /\ GrantIInv /\ [Next]_vars => (AdminIInv /\ GrantIInv)'
  BY StepOfEachPart, AdminStep, GrantStep
<1>3. AdminIInv /\ GrantIInv => RightsHold
  BY AdminHolds, GrantHolds DEF RightsHold
<1> QED BY <1>1, <1>2, <1>3, PTL DEF Spec

\* What is listed: the channel's videos in the cache (youtube-channel-cache.service.ts), Zoom's
\* recordings of a range of months, and the token they are asked for with (zoom.service.ts): for
\* any months, ranges, accounts, numbers of windows and lives of a token.
THEOREM ListsAreCurrent == Spec => []ListsKeepUp
<1>1. Init => ChannelIInv /\ ListIInv
  BY CacheInit, ListInit DEF Init
<1>2. ChannelIInv /\ ListIInv /\ [Next]_vars => (ChannelIInv /\ ListIInv)'
  BY StepOfEachPart, CacheStep, ListStep
<1>3. ChannelIInv /\ ListIInv => ListsKeepUp
  BY CacheHolds, ListHolds DEF ListsKeepUp
<1> QED BY <1>1, <1>2, <1>3, PTL DEF Spec

\* All that the parts keep, each on its own.
YoutubeIInv == /\ CaptionIInv /\ QuotaTypeOK /\ ChannelTypeOK /\ TokenTypeOK
               /\ ListIInv /\ ListedTyped
PeopleIInv == /\ AdminIInv /\ SignedTyped /\ GrantIInv /\ GrantedTyped
              /\ PlanIInv /\ PlansTyped /\ MatchingIInv /\ AsksTyped
CloudIInv == AnswersIInv /\ LimitTyped /\ ConsentIInv /\ ConsentTyped

\* What the services keep in memory and store has the types it is read with, in every part: for
\* any numbers of recordings, videos, tokens, accounts, rules, questions, addresses and requests.
THEOREM ServicesTypeCorrect == Spec => []TypeOK
<1>1. Init => part \in Parts /\ YoutubeIInv /\ PeopleIInv /\ CloudIInv
  <2> SUFFICES ASSUME Init PROVE part \in Parts /\ YoutubeIInv /\ PeopleIInv /\ CloudIInv
    OBVIOUS
  <2>1. part \in Parts /\ YoutubeIInv
    BY CaptionInit, QuotaTypes, ChannelTypesInit, TokenTypesInit, ListInit, ListTypesInit DEF Init, YoutubeIInv
  <2>2. PeopleIInv
    BY AdminInit, AccountTypesInit, GrantInit, GrantTypesInit, PlanStart, PlansInit, MatchingStart, MatchedInit
       DEF Init, PeopleIInv
  <2>3. CloudIInv
    BY AnswersStart, LimitTypesInit, ConsentInit, ConsentTypesInit DEF Init, CloudIInv
  <2> QED BY <2>1, <2>2, <2>3
<1>2. part \in Parts /\ YoutubeIInv /\ PeopleIInv /\ CloudIInv /\ [Next]_vars
        => (part \in Parts /\ YoutubeIInv /\ PeopleIInv /\ CloudIInv)'
  <2> SUFFICES ASSUME part \in Parts, YoutubeIInv, PeopleIInv, CloudIInv, [Next]_vars
               PROVE  (part \in Parts)' /\ YoutubeIInv' /\ PeopleIInv' /\ CloudIInv'
    OBVIOUS
  <2>1. (part \in Parts)'
    BY DEF Next, vars, Parts
  <2>2. YoutubeIInv'
    BY StepOfEachPart, CaptionStep, QuotaStep, ChannelTypes, TokenTypes, ListStep, ListTypes, Zenon DEF YoutubeIInv
  <2>3. PeopleIInv'
    BY StepOfEachPart, AdminStep, AccountTypes, GrantStep, GrantTypes, PlanStep, PlansTypes, MatchingStep, AsksTypes,
       Zenon DEF PeopleIInv
  <2>4. CloudIInv'
    BY StepOfEachPart, AnswersStep, LimitTypes, ConsentStep, ConsentTypes, Zenon DEF CloudIInv
  <2> QED BY <2>1, <2>2, <2>3, <2>4
<1>3. part \in Parts /\ YoutubeIInv /\ PeopleIInv /\ CloudIInv => TypeOK
  <2> SUFFICES ASSUME part \in Parts, YoutubeIInv, PeopleIInv, CloudIInv PROVE TypeOK
    OBVIOUS
  <2>1. CaptionsTypeOK /\ QuotaTypeOK /\ ChannelTypeOK /\ TokenTypeOK /\ ListingTypeOK
    BY CaptionsHold, ListIsTyped, Zenon DEF YoutubeIInv
  <2>2. AccountsTypeOK /\ GrantingTypeOK /\ SyncPlanTypeOK /\ MatchingTypeOK
    BY AccountsAreTyped, GrantIsTyped, PlansHold, MatchedHolds, Zenon DEF PeopleIInv, MatchedIInv
  <2>3. AnswersTypeOK /\ RateLimitTypeOK /\ ConsentCacheTypeOK
    BY ConsentIsTyped, Zenon DEF CloudIInv, AnswersIInv, LimitTyped
  <2> QED BY <2>1, <2>2, <2>3 DEF TypeOK, Parts
<1> QED BY <1>1, <1>2, <1>3, PTL DEF Spec

=============================================================================
