---------------------------- MODULE Pages_proofs ----------------------------
(***************************************************************************)
(* What the pages promise, for every instance: what a user does is done to *)
(* the thing that is shown, and what is shown in the end is what is        *)
(* stored.  The modules share no variable, so each part has an inductive   *)
(* invariant of its own, and a step of the pages is a step of one part.    *)
(***************************************************************************)
EXTENDS MCScreens, Screens_proofs, FiniteSetTheorems, WellFoundedInduction, TLAPS

-----------------------------------------------------------------------------
(* Bounds on how much there is, and sequences with an element left out.    *)

\* Things numbered from one to a bound are at most that many.
LEMMA FewAsNumbered ==
  ASSUME NEW N \in Nat, NEW S, \A x \in S : x.n \in 1..N, \A x, y \in S : x.n = y.n => x = y
  PROVE  Cardinality(S) <= N
<1> DEFINE f == [x \in S |-> x.n]
<1>1. f \in Injection(S, 1..N)
  BY DEF Injection, IsInjective
<1>2. IsFiniteSet(1..N) /\ Cardinality(1..N) = N
  BY FS_Interval
<1> QED BY <1>1, <1>2, FS_Injection

\* One more thing, where there was room for one.
LEMMA RoomForOne ==
  ASSUME NEW N \in Nat, NEW S, NEW x, IsFiniteSet(S), Cardinality(S) < N
  PROVE  IsFiniteSet(S \cup {x}) /\ Cardinality(S \cup {x}) <= N
<1>1. Cardinality(S) \in Nat
  BY FS_CardinalityType
<1> QED BY <1>1, FS_AddElement

LEMMA OneLess ==
  ASSUME NEW N \in Nat, NEW S, NEW x, IsFiniteSet(S), Cardinality(S) <= N
  PROVE  IsFiniteSet(S \ {x}) /\ Cardinality(S \ {x}) <= N
<1>1. Cardinality(S) \in Nat
  BY FS_CardinalityType
<1> QED BY <1>1, FS_RemoveElement


\* Intervals from one that are equal end at the same number.
LEMMA SameBound ==
  ASSUME NEW m \in Nat, NEW n \in Nat, 1..m = 1..n
  PROVE  m = n
<1>1. ~(m < n)
  <2> SUFFICES ASSUME m < n PROVE FALSE
    OBVIOUS
  <2>1. n \in 1..n /\ n \notin 1..m
    OBVIOUS
  <2> QED BY <2>1
<1>2. ~(n < m)
  <2> SUFFICES ASSUME n < m PROVE FALSE
    OBVIOUS
  <2>1. m \in 1..m /\ m \notin 1..n
    OBVIOUS
  <2> QED BY <2>1
<1> QED BY <1>1, <1>2

\* One element of a sequence is left out, and those after it move up.
LEMMA OneLeftOut ==
  ASSUME NEW S, NEW s \in Seq(S), NEW i \in 1..Len(s)
  PROVE  /\ RemoveAt(s, i) \in Seq(S) /\ Len(RemoveAt(s, i)) = Len(s) - 1
         /\ \A k \in 1..(Len(s) - 1) : RemoveAt(s, i)[k] = s[IF k < i THEN k ELSE k + 1]
<1> DEFINE before == SubSeq(s, 1, i - 1)
           after == SubSeq(s, i + 1, Len(s))
<1>1. Len(s) \in Nat /\ \A k \in 1..Len(s) : s[k] \in S
  BY LenProperties, ElementOfSeq
<1>2. before \in Seq(S) /\ Len(before) = i - 1 /\ \A k \in 1..(i - 1) : before[k] = s[k]
  <2>1. \A k \in 1..(i - 1) : s[k] \in S
    BY <1>1
  <2>2. /\ before \in Seq(S) /\ Len(before) = IF 1 <= i - 1 THEN (i - 1) - 1 + 1 ELSE 0
        /\ \A k \in 1..((i - 1) - 1 + 1) : before[k] = s[1 + k - 1]
    BY <2>1, SubSeqProperties
  <2> QED BY <2>2
<1>3. after \in Seq(S) /\ Len(after) = Len(s) - i /\ \A k \in 1..(Len(s) - i) : after[k] = s[i + k]
  <2>1. \A k \in (i + 1)..Len(s) : s[k] \in S
    BY <1>1
  <2>2. /\ after \in Seq(S) /\ Len(after) = IF i + 1 <= Len(s) THEN Len(s) - (i + 1) + 1 ELSE 0
        /\ \A k \in 1..(Len(s) - (i + 1) + 1) : after[k] = s[(i + 1) + k - 1]
    BY <1>1, <2>1, SubSeqProperties
  <2> QED BY <1>1, <2>2
<1>4. RemoveAt(s, i) = before \o after
  BY DEF RemoveAt
<1> HIDE DEF before, after
<1>5. /\ before \o after \in Seq(S) /\ Len(before \o after) = Len(before) + Len(after)
      /\ \A k \in 1..(Len(before) + Len(after)) :
           (before \o after)[k] = IF k <= Len(before) THEN before[k] ELSE after[k - Len(before)]
  BY <1>2, <1>3, ConcatProperties
<1>6. ASSUME NEW k \in 1..(Len(s) - 1)
      PROVE  (before \o after)[k] = s[IF k < i THEN k ELSE k + 1]
  <2>1. k \in 1..(Len(before) + Len(after))
    BY <1>1, <1>2, <1>3
  <2>2. CASE k < i
    BY <1>1, <1>2, <1>5, <2>1, <2>2
  <2>3. CASE ~(k < i)
    <3>1. (before \o after)[k] = after[k - (i - 1)] /\ k - (i - 1) \in 1..(Len(s) - i)
      BY <1>1, <1>2, <1>5, <2>1, <2>3
    <3>2. after[k - (i - 1)] = s[i + (k - (i - 1))] /\ i + (k - (i - 1)) = k + 1
      BY <1>1, <1>3, <3>1
    <3> QED BY <2>3, <3>1, <3>2
  <2> QED BY <2>2, <2>3
<1> QED BY <1>1, <1>2, <1>3, <1>4, <1>5, <1>6

-----------------------------------------------------------------------------
(* Views.  No more requests are on their way than were begun; and while    *)
(* none raced another, one load at most is on its way, for the key shown.  *)

\* The numbers in f are n at most, together.
AtMost(f, S, n) == \A T \in SUBSET S : IsFiniteSet(T) => SumOf(f, T) <= n

LEMMA AtMostEach ==
  ASSUME NEW S, NEW f \in [S -> Nat], NEW n \in Nat, AtMost(f, S, n), NEW k \in S
  PROVE  f[k] <= n
<1>1. IsFiniteSet({k}) /\ IsFiniteSet({}) /\ {k} \in SUBSET S
  BY FS_Singleton, FS_EmptySet
<1>2. SumOf(f, {k}) = f[k] + SumOf(f, {k} \ {k})
  BY <1>1, SumStep DEF AllNat
<1>3. SumOf(f, {k} \ {k}) = 0
  <2>1. {k} \ {k} = {}
    OBVIOUS
  <2> QED BY <2>1, SumEmpty
<1>4. SumOf(f, {k}) <= n
  BY <1>1 DEF AtMost
<1>5. f[k] \in Nat
  OBVIOUS
<1> QED BY <1>2, <1>3, <1>4, <1>5

LEMMA AtMostMore ==
  ASSUME NEW S, NEW f \in [S -> Nat], NEW n \in Nat, AtMost(f, S, n),
         NEW h \in [S -> Nat], NEW k \in S, h[k] = f[k] + 1, \A x \in S \ {k} : h[x] = f[x]
  PROVE  AtMost(h, S, n + 1)
<1> SUFFICES ASSUME NEW T \in SUBSET S, IsFiniteSet(T) PROVE SumOf(h, T) <= n + 1
  BY DEF AtMost
<1>1. AllNat(f, T) /\ AllNat(h, T) /\ SumOf(f, T) <= n /\ SumOf(f, T) \in Nat
  BY SumNat DEF AtMost, AllNat
<1>2. CASE k \in T
  <2>1. SumOf(h, T) = SumOf(f, T) + 1
    BY <1>1, <1>2, SumOneMore
  <2> QED BY <1>1, <2>1
<1>3. CASE k \notin T
  <2>1. SumOf(h, T) = SumOf(f, T)
    BY <1>3, SumSame
  <2> QED BY <1>1, <2>1
<1> QED BY <1>2, <1>3

LEMMA AtMostLess ==
  ASSUME NEW S, NEW f \in [S -> Nat], NEW n \in Nat, AtMost(f, S, n),
         NEW h \in [S -> Nat], NEW k \in S, f[k] > 0, h[k] = f[k] - 1, \A x \in S \ {k} : h[x] = f[x]
  PROVE  n > 0 /\ AtMost(h, S, n - 1)
<1>1. f[k] <= n /\ f[k] \in Nat
  BY AtMostEach
<1> SUFFICES ASSUME NEW T \in SUBSET S, IsFiniteSet(T) PROVE SumOf(h, T) <= n - 1
  BY <1>1 DEF AtMost
<1> DEFINE U == T \cup {k}
<1>2. U \in SUBSET S /\ IsFiniteSet(U) /\ k \in U
  BY FS_AddElement
<1>3. AllNat(f, U) /\ AllNat(h, U) /\ AllNat(h, T) /\ SumOf(f, U) <= n /\ SumOf(f, U) \in Nat /\ SumOf(h, U) \in Nat
  BY <1>2, SumNat DEF AtMost, AllNat
<1>4. SumOf(h, U) + f[k] = SumOf(f, U) + h[k]
  BY <1>2, <1>3, SumChanged
<1>5. SumOf(h, U) <= n - 1
  BY <1>1, <1>3, <1>4
<1>6. SumOf(h, T) <= SumOf(h, U)
  <2>1. CASE k \in T
    <3>1. U = T
      BY <2>1
    <3> QED BY <1>3, <3>1
  <2>2. CASE k \notin T
    <3>1. U \ {k} = T
      BY <2>2
    <3>2. SumOf(h, U) = h[k] + SumOf(h, T)
      BY <1>2, <1>3, <3>1, SumStep
    <3>3. SumOf(h, T) \in Nat /\ h[k] \in Nat
      BY <1>3, SumNat
    <3> QED BY <3>2, <3>3
  <2> QED BY <2>1, <2>2
<1>7. SumOf(h, T) \in Nat
  BY <1>3, SumNat
<1> QED BY <1>3, <1>5, <1>6, <1>7

Running == [k \in Keys |-> loads[k] + acts[k]]

\* The types without the bound on what runs.
ViewsTyped ==
  /\ view \in AllViews /\ key \in Keys \cup {NoKey} /\ content \in Keys \cup {NoKey}
  /\ loading \in BOOLEAN /\ loadFailed \in BOOLEAN /\ raced \in BOOLEAN
  /\ loads \in [Keys -> Nat] /\ acts \in [Keys -> Nat]
  /\ sent \in [to : Keys, about : Keys] \cup {NoKey} /\ uses \in 0..MaxUses
  /\ AtMost(Running, Keys, uses)

\* One load at most is on its way, and for the key, unless that is closed.
LoadsOfKey ==
  /\ \A k \in Keys : loads[k] <= 1 /\ (loads[k] > 0 => key \in {k, NoKey})
  /\ \A j, k \in Keys : loads[j] > 0 /\ loads[k] > 0 => j = k

\* What is shown is of the key: at rest, and in views that are emptied whenever they are opened.
ShowsKey ==
  /\ NoneRunning(loads) /\ ~loadFailed /\ key # NoKey => content = key
  /\ ~view.byShown /\ key # NoKey => content \in {key, NoKey}

ViewsIInv ==
  /\ ViewsTyped
  /\ ~raced => LoadsOfKey /\ ShowsKey /\ (sent # NoKey => sent.to = sent.about)

\* What the views have in common.
LEMMA EachView ==
  ASSUME NEW v \in AllViews
  PROVE  /\ {v.modal, v.empties, v.failEmpties, v.acts, v.blocked, v.barred, v.byShown} \subseteq BOOLEAN
         /\ ~v.byShown => v.modal /\ v.empties /\ v.reloads = "nothing"
<1> DEFINE Switches == [modal : BOOLEAN, empties : BOOLEAN, failEmpties : BOOLEAN, acts : BOOLEAN,
                        blocked : BOOLEAN, barred : BOOLEAN, byShown : BOOLEAN,
                        reloads : {"nothing", "key of the click", "shown at the click", "typed"}]
<1>1. List \in Switches /\ List.byShown = TRUE /\ List.reloads = "nothing"
  BY DEF List
<1> HIDE DEF Switches
<1>2. \A w \in {RecordingsOfRange, FolderFiles, AccountsFound, HistoryLogs, HistoryDrive} :
        w \in Switches /\ w.byShown = TRUE
  BY <1>1 DEF RecordingsOfRange, FolderFiles, AccountsFound, HistoryLogs, HistoryDrive, Switches
<1>3. \A w \in {VideoForm, PlaylistItems} :
        w \in Switches /\ w.modal = TRUE /\ w.empties = TRUE /\ w.reloads = "nothing"
  BY <1>1 DEF VideoForm, PlaylistItems, Switches
<1>4. v \in Switches /\ (v.byShown = TRUE \/ (v.modal = TRUE /\ v.empties = TRUE /\ v.reloads = "nothing"))
  BY <1>1, <1>2, <1>3
  DEF AllViews, StatsOfMonths, UploadsOfMonths, WorkspaceActivity, WorkspaceSuggestions, UpcomingPredictions
<1> QED BY <1>4 DEF Switches

LEMMA ViewsInitInv == ViewsInit => ViewsIInv
<1> SUFFICES ASSUME ViewsInit PROVE ViewsIInv
  OBVIOUS
<1>1. AtMost(Running, Keys, 0)
  <2> SUFFICES ASSUME NEW T \in SUBSET Keys, IsFiniteSet(T) PROVE SumOf(Running, T) <= 0
    BY DEF AtMost
  <2>1. \A x \in T : Running[x] = 0
    BY DEF ViewsInit, Running
  <2>2. SumOf(Running, T) = 0
    BY <2>1, SumZero
  <2> QED BY <2>2
<1>2. ViewsTyped
  <2>1. uses = 0 /\ uses \in 0..MaxUses
    BY ViewsAssumption DEF ViewsInit
  <2>2. AtMost(Running, Keys, uses)
    BY <1>1, <2>1
  <2> QED BY <2>1, <2>2 DEF ViewsInit, ViewsTyped
<1>3. LoadsOfKey /\ ShowsKey
  BY DEF ViewsInit, LoadsOfKey, ShowsKey
<1> QED BY <1>2, <1>3 DEF ViewsInit, ViewsIInv

LEMMA ChooseKeyKeeps ==
  ASSUME ViewsIInv, NEW k \in Keys, ChooseKey(k)
  PROVE  ViewsIInv'
<1> USE DEF ViewsIInv, ViewsTyped
<1>1. uses' = uses + 1 /\ uses' \in 0..MaxUses /\ uses \in Nat
  BY ViewsAssumption DEF ChooseKey, Use
<1>2. loads' \in [Keys -> Nat] /\ loads'[k] = loads[k] + 1 /\ (\A x \in Keys \ {k} : loads'[x] = loads[x])
      /\ acts' = acts
  BY DEF ChooseKey, StartLoad
<1>3. AtMost(Running', Keys, uses')
  <2>1. Running \in [Keys -> Nat] /\ Running' \in [Keys -> Nat]
    BY <1>2 DEF Running
  <2>2. Running'[k] = Running[k] + 1 /\ \A x \in Keys \ {k} : Running'[x] = Running[x]
    BY <1>2 DEF Running
  <2> QED BY <1>1, <2>1, <2>2, AtMostMore
<1>4. ViewsTyped'
  BY <1>1, <1>2, <1>3 DEF ChooseKey, StartLoad, Quiet, NoneRunning, Running
<1>5. ASSUME ~raced' PROVE LoadsOfKey' /\ ShowsKey' /\ (sent # NoKey => sent.to = sent.about)'
  <2>1. ~raced /\ \A x \in Keys : loads[x] = 0
    BY <1>5 DEF ChooseKey, Quiet, NoneRunning
  <2>2. key' = k /\ k # NoKey /\ sent' = sent /\ view' = view /\ content' = IF view.empties THEN NoKey ELSE content
    BY ViewsAssumption DEF ChooseKey
  <2>3. LoadsOfKey'
    BY <1>2, <2>1, <2>2 DEF LoadsOfKey
  <2>4. ~NoneRunning(loads')
    BY <1>2, <2>1 DEF NoneRunning
  <2>5. ShowsKey'
    BY <2>2, <2>4, EachView DEF ShowsKey
  <2> QED BY <2>1, <2>2, <2>3, <2>5
<1> QED BY <1>4, <1>5

LEMMA LoadOfKeyEnds ==
  ASSUME ViewsIInv, NEW k \in Keys, loads[k] > 0, loads' = [loads EXCEPT ![k] = @ - 1],
         UNCHANGED acts, uses' \in {uses, uses + 1}, uses' \in 0..MaxUses
  PROVE  /\ loads' \in [Keys -> Nat] /\ AtMost(Running', Keys, uses') /\ AtMost(Running, Keys, uses)
         /\ loads'[k] = loads[k] - 1 /\ \A x \in Keys \ {k} : loads'[x] = loads[x]
<1> USE DEF ViewsIInv, ViewsTyped
<1>1. loads' \in [Keys -> Nat] /\ loads'[k] = loads[k] - 1 /\ \A x \in Keys \ {k} : loads'[x] = loads[x]
  OBVIOUS
<1>2. Running \in [Keys -> Nat] /\ Running' \in [Keys -> Nat]
  BY <1>1 DEF Running
<1>3. Running[k] > 0 /\ Running'[k] = Running[k] - 1 /\ \A x \in Keys \ {k} : Running'[x] = Running[x]
  BY <1>1 DEF Running
<1>4. uses \in Nat
  OBVIOUS
<1>5. uses > 0 /\ AtMost(Running', Keys, uses - 1)
  BY <1>2, <1>3, <1>4, AtMostLess
<1>6. \A T \in SUBSET Keys : IsFiniteSet(T) => SumOf(Running', T) \in Nat
  BY <1>2, SumNat DEF AllNat
<1>7. AtMost(Running', Keys, uses')
  BY <1>4, <1>5, <1>6 DEF AtMost
<1> QED BY <1>1, <1>7

LEMMA LoadOfKeyArrivesKeeps ==
  ASSUME ViewsIInv, NEW k \in Keys, LoadOfKeyArrives(k)
  PROVE  ViewsIInv'
<1> USE DEF ViewsIInv, ViewsTyped
<1>1. /\ loads' \in [Keys -> Nat] /\ AtMost(Running', Keys, uses')
      /\ loads'[k] = loads[k] - 1 /\ \A x \in Keys \ {k} : loads'[x] = loads[x]
  BY LoadOfKeyEnds DEF LoadOfKeyArrives
<1>2. ViewsTyped'
  BY <1>1 DEF LoadOfKeyArrives
<1>3. ASSUME ~raced' PROVE LoadsOfKey' /\ ShowsKey' /\ (sent # NoKey => sent.to = sent.about)'
  <2>1. ~raced /\ loads[k] = 1 /\ key \in {k, NoKey} /\ key' = key /\ content' = k /\ sent' = sent /\ view' = view
    BY <1>3 DEF LoadOfKeyArrives, LoadsOfKey
  <2>2. LoadsOfKey'
    BY <1>1, <2>1 DEF LoadsOfKey
  <2>3. ShowsKey'
    BY <2>1 DEF ShowsKey
  <2> QED BY <2>1, <2>2, <2>3
<1> QED BY <1>2, <1>3

LEMMA LoadOfKeyFailsKeeps ==
  ASSUME ViewsIInv, NEW k \in Keys, LoadOfKeyFails(k)
  PROVE  ViewsIInv'
<1> USE DEF ViewsIInv, ViewsTyped
<1>0. uses' = uses + 1 /\ uses' \in 0..MaxUses
  BY ViewsAssumption DEF LoadOfKeyFails, Use
<1>1. /\ loads' \in [Keys -> Nat] /\ AtMost(Running', Keys, uses')
      /\ loads'[k] = loads[k] - 1 /\ \A x \in Keys \ {k} : loads'[x] = loads[x]
  BY <1>0, LoadOfKeyEnds DEF LoadOfKeyFails
<1>2. ViewsTyped'
  BY <1>0, <1>1 DEF LoadOfKeyFails
<1>3. ASSUME ~raced' PROVE LoadsOfKey' /\ ShowsKey' /\ (sent # NoKey => sent.to = sent.about)'
  <2>1. ~raced /\ key' = key /\ content' \in {content, NoKey} /\ loadFailed' = TRUE /\ sent' = sent /\ view' = view
    BY <1>3 DEF LoadOfKeyFails
  <2>2. LoadsOfKey'
    BY <1>1, <2>1 DEF LoadsOfKey
  <2>3. ShowsKey'
    BY <2>1 DEF ShowsKey
  <2> QED BY <2>1, <2>2, <2>3
<1> QED BY <1>2, <1>3

LEMMA CloseViewKeeps ==
  ASSUME ViewsIInv, CloseView
  PROVE  ViewsIInv'
<1>1. ViewsTyped'
  BY DEF ViewsIInv, ViewsTyped, CloseView, Running
<1>2. raced' = raced /\ (~raced => LoadsOfKey' /\ ShowsKey')
  BY DEF ViewsIInv, CloseView, LoadsOfKey, ShowsKey, NoneRunning
<1> QED BY <1>1, <1>2 DEF ViewsIInv, CloseView

LEMMA ActKeeps ==
  ASSUME ViewsIInv, Act
  PROVE  ViewsIInv'
<1> USE DEF ViewsIInv, ViewsTyped
<1> DEFINE k == IF view.reloads = "key of the click" THEN key ELSE content
<1>1. uses' = uses + 1 /\ uses' \in 0..MaxUses /\ uses \in Nat
  <2>1. Use
    BY DEF Act
  <2> QED BY <2>1, ViewsAssumption DEF Use
<1>2. k \in Keys /\ acts' = [acts EXCEPT ![k] = @ + 1] /\ key \in Keys /\ content \in Keys
  <2>1. acts' = [acts EXCEPT ![k] = @ + 1] /\ key # NoKey /\ content # NoKey
    BY DEF Act
  <2> QED BY <2>1
<1> HIDE DEF k
<1>3. acts' \in [Keys -> Nat] /\ acts'[k] = acts[k] + 1 /\ (\A x \in Keys \ {k} : acts'[x] = acts[x])
      /\ loads' = loads
  <2>1. loads' = loads
    BY DEF Act
  <2> QED BY <1>2, <2>1
<1>4. AtMost(Running', Keys, uses')
  <2>1. Running \in [Keys -> Nat] /\ Running' \in [Keys -> Nat]
    BY <1>3 DEF Running
  <2>2. Running'[k] = Running[k] + 1 /\ \A x \in Keys \ {k} : Running'[x] = Running[x]
    BY <1>2, <1>3 DEF Running
  <2> QED BY <1>1, <1>2, <2>1, <2>2, AtMostMore
<1>5. sent' \in [to : Keys, about : Keys] /\ sent'.about = content /\ sent'.to = IF view.byShown THEN content ELSE key
  BY <1>2 DEF Act
<1>6. ViewsTyped'
  BY <1>1, <1>3, <1>4, <1>5 DEF Act
<1>7. ASSUME ~raced' PROVE LoadsOfKey' /\ ShowsKey' /\ (sent # NoKey => sent.to = sent.about)'
  <2>1. ~raced /\ LoadsOfKey' /\ ShowsKey'
    BY <1>7 DEF Act, LoadsOfKey, ShowsKey, NoneRunning
  <2>2. CASE view.byShown
    BY <1>5, <2>1, <2>2
  <2>3. CASE ~view.byShown
    <3>1. key # NoKey /\ content # NoKey
      BY DEF Act
    <3>2. content = key
      BY <2>1, <2>3, <3>1 DEF ShowsKey
    <3> QED BY <1>5, <2>1, <2>3, <3>2
  <2> QED BY <2>2, <2>3
<1> QED BY <1>6, <1>7

\* A request that ends leaves fewer on their way.
LEMMA ActEnds ==
  ASSUME ViewsIInv, NEW k \in Keys, acts[k] > 0, acts' = [acts EXCEPT ![k] = @ - 1]
  PROVE  /\ acts' \in [Keys -> Nat] /\ uses > 0
         /\ AtMost([x \in Keys |-> loads[x] + acts'[x]], Keys, uses - 1)
<1> USE DEF ViewsIInv, ViewsTyped
<1> DEFINE h == [x \in Keys |-> loads[x] + acts'[x]]
<1>1. acts' \in [Keys -> Nat] /\ acts'[k] = acts[k] - 1 /\ \A x \in Keys \ {k} : acts'[x] = acts[x]
  OBVIOUS
<1>2. Running \in [Keys -> Nat] /\ h \in [Keys -> Nat] /\ uses \in Nat
  BY <1>1 DEF Running
<1>3. Running[k] > 0 /\ h[k] = Running[k] - 1 /\ \A x \in Keys \ {k} : h[x] = Running[x]
  BY <1>1 DEF Running
<1>4. uses > 0 /\ AtMost(h, Keys, uses - 1)
  BY <1>2, <1>3, AtMostLess
<1> QED BY <1>1, <1>4

LEMMA ActFailsKeeps ==
  ASSUME ViewsIInv, NEW k \in Keys, ActFails(k)
  PROVE  ViewsIInv'
<1>1. acts' \in [Keys -> Nat] /\ uses > 0 /\ AtMost([x \in Keys |-> loads[x] + acts'[x]], Keys, uses - 1)
  BY ActEnds DEF ActFails
<1>2. uses' = uses + 1 /\ uses' \in 0..MaxUses /\ uses \in Nat
  BY ViewsAssumption DEF ActFails, Use, ViewsIInv, ViewsTyped
<1>3. Running' = [x \in Keys |-> loads[x] + acts'[x]] /\ loads \in [Keys -> Nat]
  BY DEF Running, ActFails, ViewsIInv, ViewsTyped
<1>4. AtMost(Running', Keys, uses')
  <2>1. \A T \in SUBSET Keys : IsFiniteSet(T) => SumOf(Running', T) \in Nat
    BY <1>1, <1>3, SumNat DEF AllNat
  <2> QED BY <1>1, <1>2, <1>3, <2>1 DEF AtMost
<1>5. ViewsTyped'
  BY <1>1, <1>2, <1>4 DEF ViewsIInv, ViewsTyped, ActFails
<1>6. raced' = raced /\ (~raced => LoadsOfKey' /\ ShowsKey')
  BY DEF ViewsIInv, ActFails, LoadsOfKey, ShowsKey, NoneRunning
<1> QED BY <1>5, <1>6 DEF ViewsIInv, ActFails

LEMMA ActDoneKeeps ==
  ASSUME ViewsIInv, NEW k \in Keys, ActDone(k)
  PROVE  ViewsIInv'
<1> USE DEF ViewsIInv, ViewsTyped
<1>1. acts' \in [Keys -> Nat] /\ uses > 0 /\ AtMost([x \in Keys |-> loads[x] + acts'[x]], Keys, uses - 1)
  BY ActEnds DEF ActDone
<1> DEFINE h == [x \in Keys |-> loads[x] + acts'[x]]
<1>2. h \in [Keys -> Nat] /\ uses' = uses /\ uses \in Nat /\ view' = view /\ content' = content /\ sent' = sent
  BY <1>1 DEF ActDone
<1>3. CASE view.reloads = "nothing"
  <2>1. UNCHANGED <<key, loads, loading, loadFailed, raced>>
    BY <1>3 DEF ActDone
  <2>2. Running' = h
    BY <2>1 DEF Running
  <2>3. AtMost(Running', Keys, uses')
    <3>1. \A T \in SUBSET Keys : IsFiniteSet(T) => SumOf(h, T) \in Nat
      BY <1>2, SumNat DEF AllNat
    <3> QED BY <1>1, <1>2, <2>2, <3>1 DEF AtMost
  <2> QED BY <1>1, <1>2, <2>1, <2>3 DEF LoadsOfKey, ShowsKey, NoneRunning
<1>4. ASSUME NEW j \in Keys, StartLoad(j), view.reloads # "nothing",
             ~raced' => ~raced /\ NoneRunning(loads) /\ key' = j, raced' \in BOOLEAN, key' \in {key, j}
      PROVE  ViewsIInv'
  <2>1. loads' \in [Keys -> Nat] /\ loads'[j] = loads[j] + 1 /\ \A x \in Keys \ {j} : loads'[x] = loads[x]
    BY <1>4 DEF StartLoad
  <2>2. Running' \in [Keys -> Nat] /\ Running'[j] = h[j] + 1 /\ \A x \in Keys \ {j} : Running'[x] = h[x]
    BY <1>1, <2>1 DEF Running
  <2>3. AtMost(Running', Keys, (uses - 1) + 1)
    <3>1. uses - 1 \in Nat
      BY <1>1, <1>2
    <3> QED BY <1>1, <1>2, <2>2, <3>1, AtMostMore
  <2>4. AtMost(Running', Keys, uses')
    BY <1>1, <1>2, <2>3
  <2>5. ViewsTyped'
    BY <1>1, <1>2, <1>4, <2>1, <2>4 DEF StartLoad
  <2>6. ASSUME ~raced' PROVE LoadsOfKey' /\ ShowsKey' /\ (sent # NoKey => sent.to = sent.about)'
    <3>1. ~raced /\ (\A x \in Keys : loads[x] = 0) /\ key' = j
      BY <1>4, <2>6 DEF NoneRunning
    <3>2. LoadsOfKey'
      BY <2>1, <3>1 DEF LoadsOfKey
    <3>3. ~NoneRunning(loads')
      BY <2>1, <3>1 DEF NoneRunning
    <3>4. view.byShown
      BY <1>4, EachView
    <3> QED BY <1>2, <3>1, <3>2, <3>3, <3>4 DEF ShowsKey
  <2> QED BY <2>5, <2>6
<1>5. CASE view.reloads = "typed"
  <2>1. PICK j \in Keys : key' = j /\ StartLoad(j)
    BY <1>5 DEF ActDone
  <2>2. raced' = (raced \/ ~NoneRunning(loads))
    BY <1>5 DEF ActDone
  <2> QED BY <1>4, <1>5, <2>1, <2>2 DEF NoneRunning
<1>6. CASE view.reloads # "nothing" /\ view.reloads # "typed"
  <2>1. StartLoad(k) /\ key' = key /\ raced' = (raced \/ ~NoneRunning(loads) \/ k # key)
    BY <1>6 DEF ActDone
  <2> QED BY <1>4, <1>6, <2>1 DEF NoneRunning
<1> QED BY <1>3, <1>5, <1>6

LEMMA ViewsStep == ViewsIInv /\ [ViewsNext]_viewVars => ViewsIInv'
<1> SUFFICES ASSUME ViewsIInv, [ViewsNext]_viewVars PROVE ViewsIInv'
  OBVIOUS
<1>1. CASE UNCHANGED viewVars
  BY <1>1 DEF viewVars, ViewsIInv, ViewsTyped, LoadsOfKey, ShowsKey, NoneRunning, Running
<1>2. CASE ViewsNext
  BY <1>2, ChooseKeyKeeps, CloseViewKeeps, LoadOfKeyArrivesKeeps, LoadOfKeyFailsKeeps, ActKeeps, ActDoneKeeps,
     ActFailsKeeps DEF ViewsNext
<1> QED BY <1>1, <1>2

LEMMA ViewsHold == ViewsIInv => ViewsTypeOK /\ ViewsActOnTheirOwn
<1> SUFFICES ASSUME ViewsIInv PROVE ViewsTypeOK /\ ViewsActOnTheirOwn
  OBVIOUS
<1> USE DEF ViewsIInv, ViewsTyped
<1>1. \A k \in Keys : loads[k] \in 0..MaxUses /\ acts[k] \in 0..MaxUses
  <2> TAKE k \in Keys
  <2>1. Running \in [Keys -> Nat] /\ uses \in Nat /\ uses <= MaxUses /\ MaxUses \in Nat
    BY ViewsAssumption DEF Running
  <2>2. Running[k] <= uses /\ Running[k] = loads[k] + acts[k] /\ loads[k] \in Nat /\ acts[k] \in Nat
    BY <2>1, AtMostEach DEF Running
  <2> QED BY <2>1, <2>2
<1>2. ViewsTypeOK
  BY <1>1 DEF ViewsTypeOK
<1>3. ViewsActOnTheirOwn
  BY DEF ViewsActOnTheirOwn, Quiet, ShowsKey
<1> QED BY <1>2, <1>3

-----------------------------------------------------------------------------
(* The sync dialog.  What an open dialog shows was chosen for its recording *)
(* or for none, and what a closed one would carry over is for none.         *)

Own(row) == {"first", "settings", NoRow, row}

DialogIInv ==
  /\ DialogTypeOK
  /\ visible => confirming \in DialogRows /\ \A f \in Fields : fields[f] \in Own(confirming)
  /\ \A f \in {"newPlaylistTitle", "fileType"} : ~visible => fields[f] \in {"first", "settings", NoRow}
  /\ fetching <= touches
  /\ \A sync \in posting \cup stored : \A f \in Fields : sync.fields[f] \in Own(sync.row)

LEMMA DialogInitInv == DialogInit => DialogIInv
<1> SUFFICES ASSUME DialogInit PROVE DialogIInv
  OBVIOUS
<1>1. fields \in [Fields -> Origins] /\ \A f \in Fields : fields[f] \in {"first", NoRow}
  BY DEF DialogInit, Origins
<1>2. touches \in 0..MaxTouches /\ fetching \in 0..MaxTouches
  BY DialogAssumption DEF DialogInit
<1>3. \A f \in {"newPlaylistTitle", "fileType"} : fields[f] = NoRow
  BY DEF DialogInit, Fields
<1>4. DialogTypeOK
  BY <1>1, <1>2 DEF DialogInit, DialogTypeOK
<1>5. fetching <= touches /\ visible = FALSE /\ posting \cup stored = {}
  BY DEF DialogInit
<1> QED BY <1>3, <1>4, <1>5 DEF DialogIInv

LEMMA OpenSyncDialogKeeps ==
  ASSUME DialogIInv, NEW r \in DialogRows, OpenSyncDialog(r)
  PROVE  DialogIInv'
<1> USE DEF DialogIInv, DialogTypeOK, OpenSyncDialog
<1>1. touches' \in 0..MaxTouches /\ fetching' \in 0..MaxTouches /\ fetching' <= touches'
  BY DialogAssumption DEF Touch
<1>2. ASSUME NEW f \in Fields
      PROVE  fields'[f] \in Origins /\ fields'[f] \in {"first", "settings", NoRow}
  <2>1. fields'[f] = CASE f \in {"privacyStatus", "playlistId"} -> defaults
                       [] f = "saveToDrive" -> NoRow
                       [] OTHER -> fields[f]
    BY DEF OpenedFields, Fields
  <2>2. f \notin {"privacyStatus", "playlistId", "saveToDrive"} => f \in {"newPlaylistTitle", "fileType"}
    BY DEF Fields
  <2> QED BY <2>1, <2>2 DEF Origins
<1>3. fields' \in [Fields -> Origins]
  BY <1>2 DEF OpenedFields
<1> QED BY <1>1, <1>2, <1>3 DEF Own

LEMMA SettingsArriveKeeps ==
  ASSUME DialogIInv, SettingsArrive
  PROVE  DialogIInv'
<1> USE DEF DialogIInv, DialogTypeOK, SettingsArrive
<1>1. fetching' \in 0..MaxTouches /\ fetching' <= touches' /\ touches' \in 0..MaxTouches
  BY DialogAssumption
<1>2. \A f \in Fields : fields'[f] \in {fields[f], "settings"}
  OBVIOUS
<1>3. fields' \in [Fields -> Origins]
  BY <1>2 DEF Origins
<1>4. {"newPlaylistTitle", "fileType"} \subseteq Fields
  BY DEF Fields
<1> QED BY <1>1, <1>2, <1>3, <1>4 DEF Own

LEMMA SettingsFailKeeps ==
  ASSUME DialogIInv, SettingsFail
  PROVE  DialogIInv'
<1>1. fetching' \in 0..MaxTouches /\ fetching' <= touches' /\ touches' \in 0..MaxTouches
  BY DialogAssumption DEF Touch, DialogIInv, DialogTypeOK, SettingsFail
<1> QED BY <1>1 DEF DialogIInv, DialogTypeOK, SettingsFail

LEMMA ChooseFieldKeeps ==
  ASSUME DialogIInv, NEW f \in Fields, ChooseField(f)
  PROVE  DialogIInv'
<1> USE DEF DialogIInv, DialogTypeOK, ChooseField
<1>1. touches' \in 0..MaxTouches /\ fetching' <= touches'
  BY DialogAssumption DEF Touch
<1>2. \A g \in Fields : fields'[g] \in {fields[g], confirming}
  OBVIOUS
<1>3. fields' \in [Fields -> Origins]
  BY <1>2 DEF Origins
<1> QED BY <1>1, <1>2, <1>3 DEF Own

\* A dialog that closes, whatever it posts.
LEMMA Closing ==
  ASSUME DialogIInv, visible, visible' = FALSE, fields' = Cleared,
         UNCHANGED <<confirming, defaults, fetching, stored, touches>>,
         posting' \in {posting, posting \cup {[row |-> confirming, fields |-> fields]}}
  PROVE  DialogIInv'
<1> USE DEF DialogIInv, DialogTypeOK
<1>1. \A f \in Fields : fields'[f] \in {fields[f], NoRow}
  BY DEF Cleared
<1>2. fields' \in [Fields -> Origins]
  BY <1>1 DEF Origins, Cleared
<1>3. fields'["newPlaylistTitle"] = NoRow /\ fields'["fileType"] = NoRow
  BY DEF Cleared, Fields
<1>4. [row |-> confirming, fields |-> fields] \in Syncs
  BY DEF Syncs
<1> DEFINE sync0 == [row |-> confirming, fields |-> fields]
<1>5. posting' \subseteq Syncs
  BY <1>4
<1>6. \A f \in Fields : sync0.fields[f] \in Own(sync0.row)
  OBVIOUS
<1>7. \A sync \in posting' \cup stored' : \A f \in Fields : sync.fields[f] \in Own(sync.row)
  BY <1>6
<1>8. \A f \in {"newPlaylistTitle", "fileType"} : fields'[f] \in {"first", "settings", NoRow}
  BY <1>3
<1> QED BY <1>2, <1>5, <1>7, <1>8

LEMMA DialogStep == DialogIInv /\ [DialogNext]_dialogVars => DialogIInv'
<1> SUFFICES ASSUME DialogIInv, [DialogNext]_dialogVars PROVE DialogIInv'
  OBVIOUS
<1>1. CASE UNCHANGED dialogVars
  BY <1>1 DEF dialogVars, DialogIInv, DialogTypeOK
<1>2. ASSUME Confirm PROVE DialogIInv'
  BY <1>2, Closing DEF Confirm
<1>3. ASSUME CancelDialog PROVE DialogIInv'
  BY <1>3, Closing DEF CancelDialog
<1>4. ASSUME NEW sync \in posting, SyncPosted(sync) PROVE DialogIInv'
  BY <1>4 DEF DialogIInv, DialogTypeOK, SyncPosted
<1>5. CASE DialogNext
  BY <1>2, <1>3, <1>4, <1>5, OpenSyncDialogKeeps, SettingsArriveKeeps, SettingsFailKeeps, ChooseFieldKeeps
  DEF DialogNext
<1> QED BY <1>1, <1>5

LEMMA DialogHolds == DialogIInv => DialogTypeOK /\ CarriesNothingOver
  BY DEF DialogIInv, CarriesNothingOver, Own

-----------------------------------------------------------------------------
(* The email switches.  While no change crossed another or a load, one at  *)
(* most is on its way, and it knows what was stored before it, or what is. *)

PrefRead == [n : 0..MaxFlips, answer : Preferences \cup {Unloaded}]
Flip == [kind : Kinds, value : BOOLEAN, previous : Preferences, answer : Preferences \cup {Unloaded}]

\* Nothing that is on its way, or shown, is older than what is stored.
Uncrossed ==
  /\ \A p \in prefReads : p.answer \in {Unloaded, wanted}
  /\ flips # {} => prefReads = {} /\ switches # Unloaded
  /\ \A f, g \in flips : f = g
  /\ \A f \in flips : IF f.answer = Unloaded THEN f.previous = wanted ELSE f.answer = wanted
  /\ flips = {} => switches \in {wanted, Unloaded}

EmailIInv ==
  /\ EmailTypeOK /\ prefReads \subseteq PrefRead /\ flips \subseteq Flip /\ crossed \in BOOLEAN
  /\ ~crossed => Uncrossed

LEMMA EmailInitInv == EmailInit => EmailIInv
<1> SUFFICES ASSUME EmailInit PROVE EmailIInv
  OBVIOUS
<1>1. created \in 0..MaxCopies /\ flipped \in 0..MaxFlips
  BY EmailAssumption DEF EmailInit
<1>2. EmailTypeOK /\ prefReads \subseteq PrefRead /\ flips \subseteq Flip /\ crossed \in BOOLEAN
  BY <1>1 DEF EmailInit, EmailTypeOK, Preferences
<1>3. Uncrossed
  BY DEF EmailInit, Uncrossed
<1> QED BY <1>2, <1>3 DEF EmailIInv

LEMMA CopiesKeep ==
  ASSUME EmailIInv, NEW kind \in Kinds, CreateCopy(kind) \/ SendEmailCopy(kind)
  PROVE  EmailIInv'
<1>1. created' \in 0..MaxCopies /\ UNCHANGED <<wanted, switches, prefReads, flips, flipped, crossed>>
  BY EmailAssumption DEF EmailIInv, EmailTypeOK, CreateCopy, SendEmailCopy
<1> QED BY <1>1 DEF EmailIInv, EmailTypeOK, Uncrossed

LEMMA LoadPreferencesKeeps ==
  ASSUME EmailIInv, LoadPreferences
  PROVE  EmailIInv'
<1> USE DEF EmailIInv, EmailTypeOK, LoadPreferences
<1>1. flipped' \in 0..MaxFlips /\ flipped \in 0..MaxFlips
  BY EmailAssumption
<1>2. [n |-> flipped, answer |-> Unloaded] \in PrefRead
  BY <1>1 DEF PrefRead
<1>3. prefReads' \subseteq PrefRead
  BY <1>2
<1>4. ~crossed => Uncrossed'
  BY DEF Uncrossed
<1> QED BY <1>1, <1>3, <1>4

LEMMA GetPreferencesKeeps ==
  ASSUME EmailIInv, NEW p \in prefReads, GetPreferences(p)
  PROVE  EmailIInv'
<1> USE DEF EmailIInv, EmailTypeOK, GetPreferences
<1>1. [p EXCEPT !.answer = wanted] \in PrefRead /\ [p EXCEPT !.answer = wanted].answer = wanted
  BY DEF PrefRead
<1>2. prefReads' \subseteq PrefRead
  BY <1>1
<1>3. ~crossed => Uncrossed'
  BY <1>1 DEF Uncrossed
<1> QED BY <1>2, <1>3

LEMMA PreferencesArriveKeeps ==
  ASSUME EmailIInv, NEW p \in prefReads, PreferencesArrive(p)
  PROVE  EmailIInv'
<1> USE DEF EmailIInv, EmailTypeOK, PreferencesArrive
<1>1. p.answer \in Preferences \cup {Unloaded}
  BY DEF PrefRead
<1>2. switches' = Unloaded \/ switches' \in Preferences
  BY <1>1
<1>3. ~crossed => Uncrossed'
  BY <1>1 DEF Uncrossed
<1> QED BY <1>2, <1>3

LEMMA UpdatePreferenceKeeps ==
  ASSUME EmailIInv, NEW kind \in Kinds, NEW b \in BOOLEAN, UpdatePreference(kind, b)
  PROVE  EmailIInv'
<1> USE DEF EmailIInv, EmailTypeOK, UpdatePreference
<1> DEFINE f == [kind |-> kind, value |-> b, previous |-> switches, answer |-> Unloaded]
<1>1. flipped' \in 0..MaxFlips
  BY EmailAssumption
<1>2. switches \in Preferences /\ switches' \in Preferences /\ switches' # Unloaded
  BY EmailAssumption DEF Preferences
<1>3. f \in Flip /\ f.answer = Unloaded /\ f.previous = switches
  BY <1>2 DEF Flip
<1> HIDE DEF f
<1>4. flips' = flips \cup {f}
  BY DEF f
<1>5. ASSUME ~crossed' PROVE Uncrossed'
  <2>1. ~crossed /\ flips = {} /\ prefReads = {}
    BY <1>5
  <2>2. switches = wanted
    BY <2>1, <1>2, EmailAssumption DEF Uncrossed, Preferences
  <2> QED BY <1>2, <1>3, <1>4, <2>1, <2>2 DEF Uncrossed
<1>6. crossed' \in BOOLEAN /\ flips' \subseteq Flip
  BY <1>3, <1>4
<1> QED BY <1>1, <1>2, <1>5, <1>6

LEMMA StorePreferenceKeeps ==
  ASSUME EmailIInv, NEW f \in flips, StorePreference(f)
  PROVE  EmailIInv'
<1> USE DEF EmailIInv, EmailTypeOK
<1> DEFINE g == [f EXCEPT !.answer = wanted']
<1>1. wanted' \in Preferences
  BY DEF StorePreference, Flip, Preferences
<1>2. g \in Flip /\ g.answer = wanted'
  BY <1>1 DEF Flip
<1> HIDE DEF g
<1>3. flips' = (flips \ {f}) \cup {g} /\ UNCHANGED <<copies, created, switches, prefReads, flipped, crossed>>
  BY DEF StorePreference, g
<1>4. wanted' # Unloaded
  BY <1>1, EmailAssumption DEF Preferences
<1>5. ~crossed => Uncrossed'
  BY <1>2, <1>3, <1>4 DEF Uncrossed
<1> QED BY <1>1, <1>2, <1>3, <1>5

LEMMA FlipAnsweredKeeps ==
  ASSUME EmailIInv, NEW f \in flips, FlipAnswered(f)
  PROVE  EmailIInv'
<1> USE DEF EmailIInv, EmailTypeOK, FlipAnswered, AfterFailure
<1>1. f.answer \in Preferences \cup {Unloaded} /\ f.previous \in Preferences
  BY DEF Flip
<1>2. switches' \in Preferences /\ crossed' \in BOOLEAN
  BY <1>1
<1>3. ASSUME ~crossed' PROVE Uncrossed'
  <2>1. ~crossed /\ flips' = {} /\ UNCHANGED <<wanted, prefReads>>
    BY <1>3 DEF Uncrossed
  <2>2. prefReads = {} /\ IF f.answer = Unloaded THEN f.previous = wanted ELSE f.answer = wanted
    BY <2>1 DEF Uncrossed
  <2>3. \/ f.answer # Unloaded /\ switches' = f.answer
        \/ switches' = f.previous /\ (f.answer # Unloaded => crossed')
    OBVIOUS
  <2>4. switches' = wanted
    BY <1>3, <2>2, <2>3
  <2> QED BY <2>1, <2>2, <2>4 DEF Uncrossed
<1> QED BY <1>2, <1>3

LEMMA EmailStep == EmailIInv /\ [EmailNext]_mailVars => EmailIInv'
<1> SUFFICES ASSUME EmailIInv, [EmailNext]_mailVars PROVE EmailIInv'
  OBVIOUS
<1>1. CASE UNCHANGED mailVars
  BY <1>1 DEF mailVars, EmailIInv, EmailTypeOK, Uncrossed
<1>2. CASE EmailNext
  BY <1>2, CopiesKeep, LoadPreferencesKeeps, GetPreferencesKeeps, PreferencesArriveKeeps, UpdatePreferenceKeeps,
     StorePreferenceKeeps, FlipAnsweredKeeps DEF EmailNext
<1> QED BY <1>1, <1>2

LEMMA EmailHolds == EmailIInv => EmailTypeOK /\ SwitchesAreStored
  BY DEF EmailIInv, Uncrossed, SwitchesAreStored

-----------------------------------------------------------------------------
(* The workflow page.  A list of rules names each once, none newer than    *)
(* the last; what is written is of the editor's own rule; and the page     *)
(* still has to ask for the meetings whenever it missed a change.          *)

RuleList(s, n) == s \in Seq(1..n) /\ IsInjective(s)

RuleWrite == [kind : WriteKinds, rule : Nat, fields : Nat, ids : Seq(Nat), step : {"sent", "done"}, read : BOOLEAN]

\* A request names rules that exist, and a saved rule has its own fields.
OwnFields(w) == /\ w.rule <= lastRule /\ w.fields <= lastRule /\ RuleList(w.ids, lastRule)
                /\ w.kind \in {"create", "change"} => w.fields = w.rule

RulesTyped ==
  /\ lastRule \in Nat /\ rulesAsked \in Nat /\ meetingsAsked \in Nat /\ ruleOps \in 0..MaxRuleOps
  /\ RuleList(storedRules, lastRule) /\ RuleList(listedRules, lastRule)
  /\ \A rules \in rulesSent : RuleList(rules, lastRule)
  /\ editing \in 0..lastRule \cup {NoRule} /\ ruleForm \in 0..lastRule
  /\ ruleWrites \in Seq(RuleWrite) /\ \A i \in DOMAIN ruleWrites : OwnFields(ruleWrites[i])
  /\ outdated \in BOOLEAN /\ missed \in BOOLEAN

WorkflowPageIInv ==
  /\ RulesTyped
  /\ editing # NoRule => ruleForm = editing
  /\ missed => outdated \/ meetingsAsked > 0

LEMMA WorkflowPageHolds == WorkflowPageIInv => WorkflowPageTypeOK /\ PredictsWhatIsSaved
<1> SUFFICES ASSUME WorkflowPageIInv PROVE WorkflowPageTypeOK /\ PredictsWhatIsSaved
  OBVIOUS
<1>1. \A w \in ToSet(ruleWrites) : w \in RuleWrite /\ OwnFields(w)
  BY ElementOfSeq, LenProperties DEF WorkflowPageIInv, RulesTyped, ToSet
<1>2. \A w \in ToSet(ruleWrites) : /\ w.kind \in WriteKinds /\ w.step \in {"sent", "done"}
                                   /\ {w.rule, w.fields} \subseteq 0..lastRule /\ w.read \in BOOLEAN
  BY <1>1 DEF RuleWrite, OwnFields, WorkflowPageIInv, RulesTyped
<1>3. \A rules \in {storedRules, listedRules} \cup rulesSent : rules \in Seq(1..lastRule) /\ IsInjective(rules)
  BY DEF WorkflowPageIInv, RulesTyped, RuleList
<1>4. WorkflowPageTypeOK
  BY <1>2, <1>3 DEF WorkflowPageTypeOK, WorkflowPageIInv, RulesTyped
<1>5. PredictsWhatIsSaved
  BY <1>1 DEF PredictsWhatIsSaved, OwnFields, WorkflowPageIInv
<1> QED BY <1>4, <1>5

-----------------------------------------------------------------------------
(* Lists of rules *)

LEMMA RuleListIs ==
  ASSUME NEW n \in Nat, NEW s, RuleList(s, n)
  PROVE  /\ s \in Seq(Nat) /\ Len(s) \in Nat /\ DOMAIN s = 1..Len(s)
         /\ \A i \in 1..Len(s) : s[i] \in 1..n
         /\ \A i, j \in 1..Len(s) : s[i] = s[j] => i = j
<1>1. s \in Seq(1..n)
  BY DEF RuleList
<1>2. Len(s) \in Nat /\ DOMAIN s = 1..Len(s) /\ s \in [1..Len(s) -> 1..n]
  BY <1>1, LenProperties
<1>3. s \in [1..Len(s) -> Nat]
  BY <1>2
<1> QED BY <1>2, <1>3, SeqDef DEF RuleList, IsInjective

LEMMA RuleListGrows ==
  ASSUME NEW n \in Nat, NEW m \in Nat, n <= m, NEW s, RuleList(s, n)
  PROVE  RuleList(s, m)
<1>1. Len(s) \in Nat /\ s \in [1..Len(s) -> 1..n]
  BY LenProperties DEF RuleList
<1>2. s \in [1..Len(s) -> 1..m]
  BY <1>1
<1> QED BY <1>1, <1>2, SeqDef DEF RuleList

LEMMA RuleAdded ==
  ASSUME NEW n \in Nat, NEW s, RuleList(s, n)
  PROVE  RuleList(Append(s, n + 1), n + 1)
<1>1. RuleList(s, n + 1)
  BY RuleListGrows
<1>2. /\ Len(s) \in Nat /\ \A i \in 1..Len(s) : s[i] \in 1..n
      /\ \A i, j \in 1..Len(s) : s[i] = s[j] => i = j
  BY RuleListIs
<1> DEFINE t == Append(s, n + 1)
<1>3. /\ t \in Seq(1..(n + 1)) /\ Len(t) = Len(s) + 1
      /\ \A i \in 1..Len(s) : t[i] = s[i]
      /\ t[Len(s) + 1] = n + 1
  BY <1>1, AppendProperties DEF RuleList
<1>4. DOMAIN t = 1..(Len(s) + 1)
  BY <1>3, LenProperties
<1> HIDE DEF t
<1>5. \A i, j \in DOMAIN t : t[i] = t[j] => i = j
  BY <1>2, <1>3, <1>4
<1> QED BY <1>3, <1>5 DEF RuleList, IsInjective, t

LEMMA RuleRemoved ==
  ASSUME NEW n \in Nat, NEW s, RuleList(s, n), NEW r
  PROVE  RuleList(RemoveFirst(s, r), n)
<1>1. CASE ~ \E i \in 1..Len(s) : s[i] = r
  BY <1>1 DEF RemoveFirst
<1>2. CASE \E i \in 1..Len(s) : s[i] = r
  <2> DEFINE I == {i \in 1..Len(s) : s[i] = r}
             k == Min(I)
             t == RemoveAt(s, k)
  <2>1. /\ s \in Seq(1..n) /\ Len(s) \in Nat
        /\ \A i, j \in 1..Len(s) : s[i] = s[j] => i = j
    BY RuleListIs DEF RuleList
  <2>2. I # {}
    BY <1>2
  <2>3. k \in I
    <3>1. PICK x \in 1..Len(s) : s[x] = r
      BY <1>2
    <3>2. x \in I /\ \A y \in I : y = x
      BY <2>1, <3>1
    <3>3. x <= x
      BY <2>1
    <3>4. \E y \in I : \A z \in I : y <= z
      <4> HIDE DEF I
      <4> QED BY <3>2, <3>3
    <3> HIDE DEF I
    <3> QED BY <3>4 DEF Min
  <2>4. RemoveFirst(s, r) = t
    BY <1>2, <2>2 DEF RemoveFirst, SelectInSeq
  <2>5. /\ t \in Seq(1..n) /\ Len(t) = Len(s) - 1
        /\ \A j \in 1..(Len(s) - 1) : t[j] = s[IF j < k THEN j ELSE j + 1]
    <3> HIDE DEF k
    <3>1. k \in 1..Len(s)
      BY <2>3
    <3> QED BY <2>1, <3>1, OneLeftOut
  <2>6. DOMAIN t = 1..(Len(s) - 1)
    BY <2>5, LenProperties
  <2>7. k \in 1..Len(s)
    BY <2>3
  <2> HIDE DEF t, k
  <2>8. \A i, j \in DOMAIN t : t[i] = t[j] => i = j
    <3> TAKE i, j \in DOMAIN t
    <3> DEFINE u == IF i < k THEN i ELSE i + 1
               v == IF j < k THEN j ELSE j + 1
    <3>0. i \in Int /\ j \in Int /\ k \in Int /\ Len(s) \in Nat /\ i \in 1..(Len(s) - 1) /\ j \in 1..(Len(s) - 1)
      BY <2>1, <2>6, <2>7
    <3>4. u \in 1..Len(s) /\ v \in 1..Len(s)
      BY <3>0
    <3>1. u \in 1..Len(s) /\ v \in 1..Len(s) /\ (u = v => i = j)
      BY <3>0, <3>4
    <3>2. t[i] = s[u] /\ t[j] = s[v]
      BY <2>5, <2>6
    <3> QED BY <2>1, <3>1, <3>2
  <2> QED BY <2>4, <2>5, <2>8 DEF RuleList, IsInjective
<1> QED BY <1>1, <1>2

LEMMA RuleMoved ==
  ASSUME WorkflowPageIInv, NEW i \in DOMAIN listedRules, NEW j \in DOMAIN listedRules
  PROVE  RuleList(Moved(i, j), lastRule)
<1>1. /\ lastRule \in Nat /\ RuleList(listedRules, lastRule)
  BY DEF WorkflowPageIInv, RulesTyped
<1>2. /\ Len(listedRules) \in Nat /\ DOMAIN listedRules = 1..Len(listedRules)
      /\ \A k \in 1..Len(listedRules) : listedRules[k] \in 1..lastRule
      /\ \A k, m \in 1..Len(listedRules) : listedRules[k] = listedRules[m] => k = m
  BY <1>1, RuleListIs
<1>3. listedRules \in [1..Len(listedRules) -> 1..lastRule]
  BY <1>1, LenProperties DEF RuleList
<1>4. Moved(i, j) \in [1..Len(listedRules) -> 1..lastRule]
  BY <1>2, <1>3 DEF Moved
<1>5. \A k \in 1..Len(listedRules) :
        Moved(i, j)[k] = listedRules[IF k = j THEN i ELSE IF k = i THEN j ELSE k]
  BY <1>2, <1>3 DEF Moved
<1>6. \A k, m \in 1..Len(listedRules) : Moved(i, j)[k] = Moved(i, j)[m] => k = m
  BY <1>2, <1>5
<1>7. DOMAIN Moved(i, j) = 1..Len(listedRules) /\ Moved(i, j) \in Seq(1..lastRule)
  <2>1. DOMAIN Moved(i, j) = 1..Len(listedRules)
    BY <1>4
  <2> DEFINE m == Moved(i, j)
  <2>2. m \in [1..Len(listedRules) -> 1..lastRule] /\ Len(listedRules) \in Nat
    BY <1>2, <1>4
  <2> HIDE DEF m
  <2>3. m \in Seq(1..lastRule)
    BY <2>2, SeqDef
  <2> QED BY <2>1, <2>3 DEF m
<1> QED BY <1>6, <1>7 DEF RuleList, IsInjective

-----------------------------------------------------------------------------
(* Steps *)

LEMMA WorkflowPageInitInv == WorkflowPageInit => WorkflowPageIInv
<1> SUFFICES ASSUME WorkflowPageInit PROVE WorkflowPageIInv
  OBVIOUS
<1>1. storedRules = <<1, 2>> /\ lastRule = 2 /\ listedRules = storedRules
  BY DEF WorkflowPageInit
<1>2. RuleList(<<1, 2>>, 2)
  BY DEF RuleList, IsInjective
<1>3. ruleOps \in 0..MaxRuleOps /\ ruleWrites \in Seq(RuleWrite) /\ DOMAIN ruleWrites = {}
  BY WorkflowPageAssumption DEF WorkflowPageInit
<1>4. /\ rulesAsked = 0 /\ rulesSent = {} /\ editing = NoRule /\ ruleForm = 0
      /\ outdated = FALSE /\ meetingsAsked = 0 /\ missed = FALSE
  BY DEF WorkflowPageInit
<1>5. RuleList(storedRules, lastRule) /\ RuleList(listedRules, lastRule)
  BY <1>1, <1>2
<1>6. /\ lastRule \in Nat /\ rulesAsked \in Nat /\ meetingsAsked \in Nat
      /\ editing \in 0..lastRule \cup {NoRule} /\ ruleForm \in 0..lastRule
  BY <1>1, <1>4
<1>7. outdated \in BOOLEAN /\ missed \in BOOLEAN
  BY <1>4
<1> QED BY <1>3, <1>4, <1>5, <1>6, <1>7 DEF WorkflowPageIInv, RulesTyped

LEMMA RuleOpsTyped ==
  ASSUME RulesTyped, RuleOp
  PROVE  ruleOps' \in 0..MaxRuleOps
BY WorkflowPageAssumption DEF RulesTyped, RuleOp

LEMMA EditorKeeps ==
  ASSUME WorkflowPageIInv, (\E rule \in ToSet(listedRules) : OpenRule(rule)) \/ OpenEditor(0) \/ CloseEditor
  PROVE  WorkflowPageIInv'
<1>0. RulesTyped /\ (editing # NoRule => ruleForm = editing) /\ (missed => outdated \/ meetingsAsked > 0)
  BY DEF WorkflowPageIInv
<1>1. UNCHANGED <<storedRules, lastRule, listedRules, rulesAsked, rulesSent, ruleWrites,
                  outdated, meetingsAsked, missed, ruleOps>>
  BY DEF OpenRule, OpenEditor, CloseEditor, storeVars, listVars, meetingVars
<1>2. \A rule \in ToSet(listedRules) : rule \in 0..lastRule
  <2>1. \A i \in DOMAIN listedRules : listedRules[i] \in 1..lastRule
    BY <1>0, RuleListIs DEF RulesTyped
  <2> QED BY <1>0, <2>1 DEF ToSet, RulesTyped
<1>3. editing' \in 0..lastRule \cup {NoRule} /\ ruleForm' \in 0..lastRule /\ (editing' # NoRule => ruleForm' = editing')
  BY <1>0, <1>2 DEF OpenRule, OpenEditor, CloseEditor, RulesTyped
<1> QED BY <1>0, <1>1, <1>3 DEF WorkflowPageIInv, RulesTyped, OwnFields

LEMMA SendWriteKeeps ==
  ASSUME WorkflowPageIInv, NEW kind \in WriteKinds, NEW rule \in 0..lastRule, NEW ids, RuleList(ids, lastRule),
         kind \in {"create", "change"} => ruleForm = rule,
         SendWrite(kind, rule, ids)
  PROVE  WorkflowPageIInv'
<1>0. RulesTyped /\ (editing # NoRule => ruleForm = editing) /\ (missed => outdated \/ meetingsAsked > 0)
  BY DEF WorkflowPageIInv
<1> DEFINE w == [kind |-> kind, rule |-> rule, fields |-> ruleForm, ids |-> ids, step |-> "sent", read |-> FALSE]
<1>1. /\ ruleWrites' = Append(ruleWrites, w) /\ ruleOps' \in 0..MaxRuleOps
      /\ UNCHANGED <<storedRules, lastRule, listedRules, rulesAsked, rulesSent, editing, ruleForm,
                     outdated, meetingsAsked, missed>>
  BY <1>0, RuleOpsTyped DEF SendWrite, storeVars, listVars, formVars, meetingVars
<1>2. w \in RuleWrite /\ OwnFields(w)
  BY <1>0, RuleListIs DEF RuleWrite, OwnFields, RulesTyped
<1> HIDE DEF w
<1>3. /\ ruleWrites' \in Seq(RuleWrite) /\ Len(ruleWrites') = Len(ruleWrites) + 1
      /\ \A i \in 1..Len(ruleWrites) : ruleWrites'[i] = ruleWrites[i]
      /\ ruleWrites'[Len(ruleWrites) + 1] = w
  BY <1>0, <1>1, <1>2, AppendProperties DEF RulesTyped
<1>4. Len(ruleWrites) \in Nat /\ DOMAIN ruleWrites = 1..Len(ruleWrites) /\ DOMAIN ruleWrites' = 1..Len(ruleWrites')
  BY <1>0, <1>3, LenProperties DEF RulesTyped
<1>5. \A i \in DOMAIN ruleWrites' : OwnFields(ruleWrites'[i])
  BY <1>0, <1>2, <1>3, <1>4 DEF RulesTyped
<1>6. \A i \in DOMAIN ruleWrites' : OwnFields(ruleWrites[i])'
  BY <1>1, <1>5 DEF OwnFields
<1> QED BY <1>0, <1>1, <1>3, <1>6 DEF WorkflowPageIInv, RulesTyped

LEMMA NoIds == ASSUME WorkflowPageIInv PROVE RuleList(<<>>, lastRule)
  BY DEF WorkflowPageIInv, RulesTyped, RuleList, IsInjective

LEMMA RequestKeeps ==
  ASSUME WorkflowPageIInv,
         \/ OnSave \/ OnUpdateSettings \/ \E rule \in ToSet(listedRules) : OnDelete(rule)
         \/ \E i \in DOMAIN listedRules, offset \in {-1, 1} : MoveRule(i, offset)
  PROVE  WorkflowPageIInv'
<1>0. RulesTyped /\ (editing # NoRule => ruleForm = editing) /\ lastRule \in Nat
  BY DEF WorkflowPageIInv, RulesTyped
<1>1. \A i \in DOMAIN listedRules : listedRules[i] \in 0..lastRule
  BY <1>0, RuleListIs DEF RulesTyped
<1>2. CASE OnSave
  <2>1. SendWrite(IF editing = 0 THEN "create" ELSE "change", editing, <<>>) /\ editing # NoRule
    BY <1>2 DEF OnSave
  <2>2. editing \in 0..lastRule /\ ruleForm = editing
    BY <1>0, <2>1 DEF RulesTyped
  <2> QED BY <2>1, <2>2, NoIds, SendWriteKeeps DEF WriteKinds
<1>3. CASE OnUpdateSettings
  BY <1>0, <1>3, NoIds, SendWriteKeeps DEF OnUpdateSettings, WriteKinds
<1>4. CASE \E rule \in ToSet(listedRules) : OnDelete(rule)
  BY <1>1, <1>4, NoIds, SendWriteKeeps DEF OnDelete, WriteKinds, ToSet
<1>5. CASE \E i \in DOMAIN listedRules, offset \in {-1, 1} : MoveRule(i, offset)
  <2>1. PICK i \in DOMAIN listedRules, j \in DOMAIN listedRules : SendWrite("move", listedRules[i], Moved(i, j))
    BY <1>5 DEF MoveRule
  <2> QED BY <1>1, <2>1, RuleMoved, SendWriteKeeps DEF WriteKinds
<1> QED BY <1>2, <1>3, <1>4, <1>5

\* Of the requests, one is taken away.
LEMMA WriteEnds ==
  ASSUME WorkflowPageIInv, NEW i \in DOMAIN ruleWrites, ruleWrites' = RemoveAt(ruleWrites, i), lastRule' = lastRule
  PROVE  ruleWrites' \in Seq(RuleWrite) /\ \A k \in DOMAIN ruleWrites' : OwnFields(ruleWrites[k])'
<1>1. ruleWrites \in Seq(RuleWrite) /\ \A k \in DOMAIN ruleWrites : OwnFields(ruleWrites[k])
  BY DEF WorkflowPageIInv, RulesTyped
<1>2. Len(ruleWrites) \in Nat /\ DOMAIN ruleWrites = 1..Len(ruleWrites)
  BY <1>1, LenProperties
<1>3. /\ ruleWrites' \in Seq(RuleWrite) /\ Len(ruleWrites') = Len(ruleWrites) - 1
      /\ \A k \in 1..(Len(ruleWrites) - 1) : ruleWrites'[k] = ruleWrites[IF k < i THEN k ELSE k + 1]
  BY <1>1, <1>2, OneLeftOut
<1>4. DOMAIN ruleWrites' = 1..(Len(ruleWrites) - 1)
  BY <1>3, LenProperties
<1>5. \A k \in DOMAIN ruleWrites' : OwnFields(ruleWrites'[k])
  BY <1>1, <1>2, <1>3, <1>4
<1> QED BY <1>3, <1>5 DEF OwnFields

LEMMA WriteIs ==
  ASSUME WorkflowPageIInv, NEW i \in DOMAIN ruleWrites
  PROVE  ruleWrites[i] \in RuleWrite /\ OwnFields(ruleWrites[i])
BY LenProperties, ElementOfSeq DEF WorkflowPageIInv, RulesTyped

LEMMA StillOwn ==
  ASSUME NEW w, OwnFields(w), lastRule' \in Nat, lastRule \in Nat, lastRule <= lastRule', w \in RuleWrite
  PROVE  OwnFields(w)'
BY RuleListGrows DEF OwnFields, RuleWrite

LEMMA ChangeDoneKeeps ==
  ASSUME WorkflowPageIInv, NEW i \in DOMAIN ruleWrites, ChangeDone(i)
  PROVE  WorkflowPageIInv'
<1> DEFINE w == ruleWrites[i]
<1>0. RulesTyped /\ (editing # NoRule => ruleForm = editing) /\ (missed => outdated \/ meetingsAsked > 0)
  BY DEF WorkflowPageIInv
<1>1. /\ storedRules' = RulesAfter(w) /\ lastRule' = (IF w.kind = "create" THEN lastRule + 1 ELSE lastRule)
      /\ ruleWrites' = [ruleWrites EXCEPT ![i].step = "done"]
      /\ UNCHANGED <<listedRules, rulesAsked, rulesSent, editing, ruleForm, outdated, meetingsAsked, missed, ruleOps>>
  BY DEF ChangeDone, listVars, formVars, meetingVars
<1>2. w \in RuleWrite /\ OwnFields(w)
  BY WriteIs
<1>3. lastRule \in Nat /\ lastRule' \in Nat /\ lastRule <= lastRule'
  BY <1>0, <1>1 DEF RulesTyped
<1>4. RuleList(storedRules, lastRule) /\ RuleList(listedRules, lastRule) /\ \A rules \in rulesSent : RuleList(rules, lastRule)
  BY <1>0 DEF RulesTyped
<1>5. RuleList(storedRules', lastRule')
  <2>1. CASE w.kind = "create"
    BY <1>1, <1>3, <1>4, <2>1, RuleAdded DEF RulesAfter
  <2>2. CASE w.kind = "delete"
    BY <1>1, <1>3, <1>4, <2>2, RuleRemoved DEF RulesAfter
  <2>3. CASE w.kind = "move"
    BY <1>1, <1>2, <2>3 DEF RulesAfter, OwnFields
  <2>4. CASE w.kind \notin {"create", "delete", "move"}
    BY <1>1, <1>4, <2>4 DEF RulesAfter
  <2> QED BY <2>1, <2>2, <2>3, <2>4
<1>6. RuleList(listedRules', lastRule') /\ \A rules \in rulesSent' : RuleList(rules, lastRule')
  BY <1>1, <1>3, <1>4, RuleListGrows
<1>7. \A k \in DOMAIN ruleWrites : ruleWrites[k] \in RuleWrite /\ OwnFields(ruleWrites[k])
  BY WriteIs
<1>8. /\ DOMAIN ruleWrites' = DOMAIN ruleWrites
      /\ \A k \in DOMAIN ruleWrites : ruleWrites'[k] = IF k = i THEN [w EXCEPT !.step = "done"] ELSE ruleWrites[k]
  BY <1>1, <1>0, LenProperties DEF RulesTyped
<1>9. \A k \in DOMAIN ruleWrites' : ruleWrites'[k] \in RuleWrite /\ OwnFields(ruleWrites'[k])
  BY <1>2, <1>7, <1>8 DEF RuleWrite, OwnFields
<1>10. ruleWrites' \in Seq(RuleWrite)
  <2>1. Len(ruleWrites) \in Nat /\ DOMAIN ruleWrites = 1..Len(ruleWrites) /\ ruleWrites \in [1..Len(ruleWrites) -> RuleWrite]
    BY <1>0, LenProperties DEF RulesTyped
  <2>2. ruleWrites' \in [1..Len(ruleWrites) -> RuleWrite]
    BY <1>1, <1>8, <1>9, <2>1
  <2> QED BY <2>1, <2>2, SeqDef
<1>11. \A k \in DOMAIN ruleWrites' : OwnFields(ruleWrites[k])'
  <2> TAKE k \in DOMAIN ruleWrites'
  <2>1. ruleWrites'[k] \in RuleWrite /\ OwnFields(ruleWrites'[k])
    BY <1>9
  <2> QED BY <1>3, <2>1, RuleListGrows DEF OwnFields, RuleWrite
<1>12. editing' \in 0..lastRule' \cup {NoRule} /\ ruleForm' \in 0..lastRule'
  BY <1>0, <1>1, <1>3 DEF RulesTyped
<1> QED BY <1>0, <1>1, <1>3, <1>5, <1>6, <1>10, <1>11, <1>12 DEF WorkflowPageIInv, RulesTyped

LEMMA ChangeEndsKeeps ==
  ASSUME WorkflowPageIInv, NEW i \in DOMAIN ruleWrites, ChangeRefused(i) \/ ChangeLost(i)
  PROVE  WorkflowPageIInv'
<1>0. RulesTyped /\ (editing # NoRule => ruleForm = editing) /\ (missed => outdated \/ meetingsAsked > 0)
  BY DEF WorkflowPageIInv
<1>1. /\ ruleWrites' = RemoveAt(ruleWrites, i)
      /\ UNCHANGED <<storedRules, lastRule, listedRules, rulesAsked, rulesSent, editing, ruleForm,
                     outdated, meetingsAsked, missed>>
  BY DEF ChangeRefused, ChangeLost, ChangeEnds, storeVars, listVars, formVars, meetingVars
<1>2. ruleWrites' \in Seq(RuleWrite) /\ \A k \in DOMAIN ruleWrites' : OwnFields(ruleWrites[k])'
  BY <1>1, WriteEnds
<1>3. ruleOps' \in 0..MaxRuleOps
  BY <1>0, RuleOpsTyped DEF ChangeRefused, ChangeLost, RulesTyped
<1> QED BY <1>0, <1>1, <1>2, <1>3 DEF WorkflowPageIInv, RulesTyped

LEMMA ChangeAnsweredKeeps ==
  ASSUME WorkflowPageIInv, NEW i \in DOMAIN ruleWrites, ChangeAnswered(i)
  PROVE  WorkflowPageIInv'
<1> DEFINE w == ruleWrites[i]
<1>0. RulesTyped /\ (editing # NoRule => ruleForm = editing)
  BY DEF WorkflowPageIInv
<1>1. w \in RuleWrite /\ OwnFields(w)
  BY WriteIs
<1>2. /\ ruleWrites' = RemoveAt(ruleWrites, i) /\ missed' = (missed \/ ~w.read) /\ outdated' = Refreshed(w)
      /\ editing' \in {editing, NoRule} /\ rulesAsked' \in {rulesAsked, rulesAsked + 1}
      /\ listedRules' \in {listedRules, w.ids}
      /\ UNCHANGED <<storedRules, lastRule, rulesSent, ruleForm, meetingsAsked, ruleOps>>
  BY DEF ChangeAnswered, storeVars
<1>3. outdated' = TRUE
  BY <1>1, <1>2 DEF Refreshed, RuleWrite
<1>4. ruleWrites' \in Seq(RuleWrite) /\ \A k \in DOMAIN ruleWrites' : OwnFields(ruleWrites[k])'
  BY <1>2, WriteEnds
<1>5. RuleList(listedRules', lastRule')
  BY <1>0, <1>1, <1>2 DEF RulesTyped, OwnFields
<1>6. missed' \in BOOLEAN /\ rulesAsked' \in Nat
  BY <1>0, <1>2 DEF RulesTyped
<1> QED BY <1>0, <1>2, <1>3, <1>4, <1>5, <1>6 DEF WorkflowPageIInv, RulesTyped

LEMMA RulesKeep ==
  ASSUME WorkflowPageIInv, RulesRead \/ \E rules \in rulesSent : RulesArrive(rules) \/ RulesFail(rules)
  PROVE  WorkflowPageIInv'
<1>0. RulesTyped /\ (editing # NoRule => ruleForm = editing) /\ (missed => outdated \/ meetingsAsked > 0)
  BY DEF WorkflowPageIInv
<1>1. UNCHANGED <<storedRules, lastRule, editing, ruleForm, ruleWrites, outdated, meetingsAsked, missed>>
  BY DEF RulesRead, RulesArrive, RulesFail, storeVars, formVars, meetingVars
<1>2. ruleOps' \in 0..MaxRuleOps
  BY <1>0, RuleOpsTyped DEF RulesRead, RulesArrive, RulesFail, RulesTyped
<1>3. rulesAsked' \in Nat /\ RuleList(listedRules', lastRule) /\ \A rules \in rulesSent' : RuleList(rules, lastRule)
  BY <1>0 DEF RulesRead, RulesArrive, RulesFail, RulesTyped
<1> QED BY <1>0, <1>1, <1>2, <1>3 DEF WorkflowPageIInv, RulesTyped, OwnFields

LEMMA MeetingsKeep ==
  ASSUME WorkflowPageIInv, PredictionEffect \/ ReloadMeetings \/ MeetingsFail
  PROVE  WorkflowPageIInv'
<1>0. RulesTyped /\ (editing # NoRule => ruleForm = editing) /\ (missed => outdated \/ meetingsAsked > 0)
  BY DEF WorkflowPageIInv
<1>1. UNCHANGED <<storedRules, lastRule, listedRules, rulesAsked, rulesSent, editing, ruleForm, ruleWrites>>
  BY DEF PredictionEffect, ReloadMeetings, MeetingsFail, storeVars, listVars, formVars
<1>2. ruleOps' \in 0..MaxRuleOps
  BY <1>0, RuleOpsTyped DEF PredictionEffect, ReloadMeetings, MeetingsFail, RulesTyped
<1>3. /\ outdated' \in BOOLEAN /\ missed' \in BOOLEAN /\ meetingsAsked' \in Nat
      /\ missed' => outdated' \/ meetingsAsked' > 0
  <2>1. meetingsAsked \in Nat /\ outdated \in BOOLEAN /\ missed \in BOOLEAN
    BY <1>0 DEF RulesTyped
  <2>2. CASE PredictionEffect
    <3>1. outdated' = FALSE /\ missed' = missed /\ meetingsAsked' = meetingsAsked + 1
      BY <2>2 DEF PredictionEffect
    <3>2. meetingsAsked' \in Nat /\ meetingsAsked' > 0
      BY <2>1, <3>1
    <3>3. outdated' \in BOOLEAN /\ missed' \in BOOLEAN
      BY <2>1, <3>1
    <3> QED BY <3>2, <3>3
  <2>3. CASE ReloadMeetings
    BY <2>1, <2>3 DEF ReloadMeetings
  <2>4. CASE MeetingsFail
    <3>1. outdated' = outdated /\ missed' = FALSE /\ meetingsAsked > 0 /\ meetingsAsked' = meetingsAsked - 1
      BY <2>4 DEF MeetingsFail
    <3>2. meetingsAsked' \in Nat
      BY <2>1, <3>1
    <3>3. outdated' \in BOOLEAN /\ missed' = FALSE
      BY <2>1, <3>1
    <3> QED BY <3>2, <3>3
  <2> QED BY <2>2, <2>3, <2>4
<1> QED BY <1>0, <1>1, <1>2, <1>3 DEF WorkflowPageIInv, RulesTyped, OwnFields

LEMMA MeetingsReadKeeps ==
  ASSUME WorkflowPageIInv, MeetingsRead
  PROVE  WorkflowPageIInv'
<1>0. RulesTyped /\ (editing # NoRule => ruleForm = editing)
  BY DEF WorkflowPageIInv
<1>1. /\ UNCHANGED <<storedRules, lastRule, listedRules, rulesAsked, rulesSent, editing, ruleForm, outdated, ruleOps>>
      /\ missed' = FALSE /\ meetingsAsked > 0 /\ meetingsAsked' = meetingsAsked - 1
      /\ ruleWrites' = [i \in DOMAIN ruleWrites |-> [ruleWrites[i] EXCEPT !.read = ruleWrites[i].step = "done"]]
  BY DEF MeetingsRead, storeVars, listVars, formVars
<1>2. \A k \in DOMAIN ruleWrites : ruleWrites[k] \in RuleWrite /\ OwnFields(ruleWrites[k])
  BY WriteIs
<1>3. Len(ruleWrites) \in Nat /\ DOMAIN ruleWrites = 1..Len(ruleWrites)
  BY <1>0, LenProperties DEF RulesTyped
<1>4. \A k \in DOMAIN ruleWrites :
        /\ [ruleWrites[k] EXCEPT !.read = ruleWrites[k].step = "done"] \in RuleWrite
        /\ OwnFields([ruleWrites[k] EXCEPT !.read = ruleWrites[k].step = "done"])
  <2> TAKE k \in DOMAIN ruleWrites
  <2>1. (ruleWrites[k].step = "done") \in BOOLEAN
    OBVIOUS
  <2> QED BY <1>2, <2>1 DEF RuleWrite, OwnFields
<1>5. /\ DOMAIN ruleWrites' = DOMAIN ruleWrites
      /\ \A k \in DOMAIN ruleWrites : ruleWrites'[k] \in RuleWrite /\ OwnFields(ruleWrites'[k])
  BY <1>1, <1>4
<1>6. ruleWrites' \in [1..Len(ruleWrites) -> RuleWrite]
  BY <1>1, <1>3, <1>4
<1>7. ruleWrites' \in Seq(RuleWrite)
  BY <1>3, <1>6, SeqDef
<1>8. \A k \in DOMAIN ruleWrites' : OwnFields(ruleWrites[k])'
  BY <1>1, <1>5 DEF OwnFields
<1>9. meetingsAsked' \in Nat
  BY <1>0, <1>1 DEF RulesTyped
<1> QED BY <1>0, <1>1, <1>7, <1>8, <1>9 DEF WorkflowPageIInv, RulesTyped

LEMMA WorkflowPageStep == WorkflowPageIInv /\ [WorkflowPageNext]_workflowVars => WorkflowPageIInv'
<1> SUFFICES ASSUME WorkflowPageIInv, [WorkflowPageNext]_workflowVars PROVE WorkflowPageIInv'
  OBVIOUS
<1>1. CASE UNCHANGED workflowVars
  BY <1>1 DEF workflowVars, WorkflowPageIInv, RulesTyped, OwnFields
<1>2. CASE WorkflowPageNext
  BY <1>2, EditorKeeps, RequestKeeps, ChangeDoneKeeps, ChangeEndsKeeps, ChangeAnsweredKeeps, RulesKeep,
     MeetingsKeep, MeetingsReadKeeps DEF WorkflowPageNext
<1> QED BY <1>1, <1>2

-----------------------------------------------------------------------------
(* The editor's page.  While nothing is tangled one handler at most runs,  *)
(* and the list is that of the rows with the edits not yet saved, but for  *)
(* a question that is being added; a handler that runs alone, of an        *)
(* untangled page or not, finds the rows as it loaded them.                *)

\* What is stored of q once its edits are.
LastOf(q) == IF unsaved[q] = <<>> THEN rows[q] ELSE unsaved[q][Len(unsaved[q])]

\* The list is that of the rows, but for the questions of without.
ListsRows(without) ==
  DOMAIN listed = DOMAIN rows \ without /\ \A q \in DOMAIN listed : listed[q] = LastOf(q)

\* The question that was added is stored, and not yet listed.
AddedIs(a) == /\ ListsRows(DOMAIN a.got) /\ DOMAIN a.got \subseteq DOMAIN rows
              /\ \A q \in DOMAIN a.got : unsaved[q] = <<>> /\ rows[q] = a.got[q]
              /\ \A q, r \in DOMAIN a.got : q = r

AloneIs(a) == a.alone => handlers = {a} /\ AllSaved /\ (a.stage = "loaded" => a.got = rows)

Untangled ==
  /\ \A a, b \in handlers : a = b
  /\ \A a \in handlers : /\ a.op # "add" => a.alone
                         /\ a.op = "reorder" /\ a.stage = "sent" => a.was = listed
                         /\ a.op = "toOthers" => a.stage = "sent"
                         /\ a.op = "add" /\ a.stage = "done" => AddedIs(a)
  /\ (\A a \in handlers : a.stage = "sent") => ListsRows({})

EditPageIInv ==
  /\ EditPageTypeOK /\ AppliesAChange
  /\ \A a \in handlers : AloneIs(a) /\ (a.op = "add" => a.stage # "loaded")
  /\ ~tangled => Untangled

LEMMA EditPageHolds == EditPageIInv => EditPageTypeOK /\ AppliesAChange /\ ListIsStored
<1> SUFFICES ASSUME EditPageIInv, handlers = {}, AllSaved, ~tangled PROVE listed = rows
  BY DEF EditPageIInv, ListIsStored
<1>1. ListsRows({})
  BY DEF EditPageIInv, Untangled
<1>2. DOMAIN listed = DOMAIN rows /\ \A q \in DOMAIN rows : listed[q] = rows[q]
  BY <1>1 DEF ListsRows, LastOf, AllSaved, EditPageIInv, EditPageTypeOK, Lists
<1> QED BY <1>2 DEF EditPageIInv, EditPageTypeOK, Lists

-----------------------------------------------------------------------------
(* Lists of questions *)

LEMMA ListIs ==
  ASSUME NEW list
  PROVE  list \in Lists <=> DOMAIN list \subseteq Questions /\ list \in [DOMAIN list -> Typings]
BY DEF Lists

LEMMA NothingListed == <<>> \in Lists
<1>1. <<>> \in [1..0 -> Typings]
  BY EmptySeq, LenProperties
<1>2. 1..0 = {}
  OBVIOUS
<1> QED BY <1>1, <1>2 DEF Lists

LEMMA WithIs ==
  ASSUME NEW list \in Lists, NEW q \in Questions, NEW v \in Typings
  PROVE  With(list, q, v) \in Lists
<1>1. DOMAIN list \subseteq Questions /\ list \in [DOMAIN list -> Typings]
  BY ListIs
<1>2. With(list, q, v) \in [DOMAIN list \cup {q} -> Typings]
  BY <1>1 DEF With
<1> QED BY <1>1, <1>2 DEF Lists

-----------------------------------------------------------------------------
(* What the page shows *)

\* Another list with a question selected: types, and the panel's own change.
LEMMA ShowsKeeps ==
  ASSUME EditPageIInv, NEW list \in Lists, NEW q \in Maybe, Shows(list, q), touched' = touched
  PROVE  listed' \in Lists /\ selected' \in Maybe /\ panel' \in Panel /\ AppliesAChange'
<1>1. listed' = list /\ selected' = q
  BY DEF Shows
<1>2. panel \in Panel /\ Unopened \in Panel /\ PanelFor \in Panel
  <2>1. panel \in Panel
    BY DEF EditPageIInv, EditPageTypeOK
  <2>2. Unopened \in Panel
    BY EditPageAssumption DEF Panel, Unopened
  <2> QED BY <2>1, <2>2 DEF Panel, PanelFor
<1>3. ~Unopened.changed /\ ~PanelFor.changed
  BY <1>2 DEF Unopened, PanelFor, Panel
<1>4. \/ panel' = Unopened
      \/ panel' = panel /\ q = selected
      \/ panel' = PanelFor
  BY DEF Shows
<1> QED BY <1>1, <1>2, <1>3, <1>4 DEF EditPageIInv, AppliesAChange

LEMMA EditPageInitInv == EditPageInit => EditPageIInv
<1> SUFFICES ASSUME EditPageInit PROVE EditPageIInv
  OBVIOUS
<1>1. rows = [q \in FirstQuestions |-> 0] /\ listed = rows /\ handlers = {} /\ unsaved = [q \in Questions |-> <<>>]
  BY DEF EditPageInit
<1>2. FirstQuestions \subseteq Questions /\ 0 \in Typings /\ 0 \in 0..MaxHandlers
  BY EditPageAssumption DEF Typings
<1>3. rows \in Lists /\ listed \in Lists
  BY <1>1, <1>2 DEF Lists
<1>4. selected \in Maybe /\ touched \in Maybe
  <2>1. selected = (CHOOSE q \in FirstQuestions : TRUE) /\ touched = NoQuestion
    BY DEF EditPageInit
  <2>2. (CHOOSE q \in FirstQuestions : TRUE) \in FirstQuestions
    BY EditPageAssumption
  <2> QED BY <1>2, <2>1, <2>2 DEF Maybe
<1>5. panel \in Panel /\ ~panel.changed
  BY <1>2 DEF EditPageInit, Unopened, Panel
<1>6. unsaved \in [Questions -> Seq(Typings)]
  BY <1>1, EmptySeq
<1>7. typings \in Typings /\ begun \in 0..MaxHandlers
  BY <1>2 DEF EditPageInit
<1>8. tangled \in BOOLEAN
  BY DEF EditPageInit
<1>9. EditPageTypeOK
  BY <1>1, <1>3, <1>4, <1>5, <1>6, <1>7, <1>8 DEF EditPageTypeOK
<1>10. Untangled
  BY <1>1, <1>2 DEF Untangled, ListsRows, LastOf
<1> QED BY <1>1, <1>5, <1>9, <1>10 DEF EditPageIInv, AppliesAChange

\* Steps that leave the rows, the list, the edits and the handlers alone.
LEMMA SameLists ==
  ASSUME EditPageIInv, UNCHANGED <<rows, listed, unsaved, handlers, tangled>>
  PROVE  /\ \A a \in handlers' : AloneIs(a)' /\ (a.op = "add" => a.stage # "loaded")
         /\ ~tangled' => Untangled'
BY DEF EditPageIInv, AloneIs, Untangled, AddedIs, ListsRows, LastOf, AllSaved

LEMMA SelectionKeeps ==
  ASSUME EditPageIInv, (\E q \in Questions : Select(q)) \/ ClosePanel \/ ChooseTargets
  PROVE  EditPageIInv'
<1>0. EditPageTypeOK /\ AppliesAChange
  BY DEF EditPageIInv
<1>1. UNCHANGED <<rows, unsaved, handlers, typings, begun, touched, tangled>> /\ listed' = listed
  BY DEF Select, ClosePanel, ChooseTargets, Shows
<1>2. selected' \in Maybe /\ panel' \in Panel /\ AppliesAChange'
  <2>1. CASE \E q \in Questions : Select(q)
    BY <1>0, <1>1, <2>1, ShowsKeeps DEF Select, EditPageTypeOK, Maybe
  <2>2. CASE ClosePanel
    BY <1>0, <2>2, EditPageAssumption DEF ClosePanel, Unopened, Panel, AppliesAChange, EditPageTypeOK
  <2>3. CASE ChooseTargets
    <3>1. panel \in Panel /\ DOMAIN listed \subseteq Questions
      BY <1>0, ListIs DEF EditPageTypeOK
    <3>2. selected' = selected /\ touched' = touched
      BY <2>3 DEF ChooseTargets
    <3>3. \/ \E on \in BOOLEAN : panel' = [panel EXCEPT !.toAll = on, !.targets = IF on THEN {} ELSE @]
          \/ \E some \in SUBSET (DOMAIN listed \ {selected}) : panel' = [panel EXCEPT !.targets = some]
      BY <2>3 DEF ChooseTargets
    <3>4. panel' \in Panel /\ panel'.changed = panel.changed
      BY <3>1, <3>3 DEF Panel
    <3> QED BY <1>0, <3>2, <3>4 DEF AppliesAChange, EditPageTypeOK
  <2> QED BY <2>1, <2>2, <2>3
<1> QED BY <1>0, <1>1, <1>2, SameLists DEF EditPageIInv, EditPageTypeOK

-----------------------------------------------------------------------------
(* Edits *)

LEMMA TypedKeeps ==
  ASSUME EditPageIInv, EditPrompt \/ Change
  PROVE  EditPageIInv'
<1>0. EditPageTypeOK /\ AppliesAChange
  BY DEF EditPageIInv
<1>1. /\ selected \in DOMAIN listed /\ typings < MaxTypings /\ typings' = typings + 1
      /\ listed' = [listed EXCEPT ![selected] = typings']
      /\ unsaved' = [unsaved EXCEPT ![selected] = Append(@, typings')]
      /\ handlers' = {[a EXCEPT !.alone = FALSE] : a \in handlers}
      /\ tangled' = (tangled \/ \E a \in handlers : a.op # "add")
      /\ UNCHANGED <<rows, selected, begun>>
  BY DEF EditPrompt, Change, Typed
<1>2. typings' \in Typings /\ selected \in Questions
  BY <1>0, <1>1, ListIs, EditPageAssumption DEF EditPageTypeOK, Typings
<1>3. panel' \in Panel /\ touched' \in Maybe /\ AppliesAChange'
  <2>1. CASE EditPrompt
    BY <1>0, <1>1, <2>1 DEF EditPrompt, AppliesAChange, EditPageTypeOK
  <2>2. CASE Change
    BY <1>0, <1>1, <2>2 DEF Change, AppliesAChange, EditPageTypeOK, Panel
  <2> QED BY <2>1, <2>2
<1>4. listed' \in Lists /\ DOMAIN listed' = DOMAIN listed
      /\ \A q \in DOMAIN listed : listed'[q] = IF q = selected THEN typings' ELSE listed[q]
  BY <1>0, <1>1, <1>2, ListIs DEF EditPageTypeOK
<1>5. unsaved \in [Questions -> Seq(Typings)]
  BY <1>0 DEF EditPageTypeOK
<1>6. /\ Append(unsaved[selected], typings') \in Seq(Typings) /\ Append(unsaved[selected], typings') # <<>>
      /\ Append(unsaved[selected], typings')[Len(Append(unsaved[selected], typings'))] = typings'
  BY <1>2, <1>5, AppendProperties
<1>7. /\ unsaved' \in [Questions -> Seq(Typings)]
      /\ \A q \in Questions : unsaved'[q] = IF q = selected THEN Append(unsaved[selected], typings') ELSE unsaved[q]
  BY <1>1, <1>2, <1>5, <1>6
<1>8. \A b \in handlers' : \E a \in handlers :
        /\ b \in Handler /\ ~b.alone /\ b.op = a.op /\ b.stage = a.stage /\ b.got = a.got /\ b.was = a.was
        /\ b = [a EXCEPT !.alone = FALSE]
  BY <1>0, <1>1 DEF EditPageTypeOK, Handler
<1>9. handlers' \subseteq Handler
  BY <1>8
<1>10. EditPageTypeOK'
  BY <1>0, <1>1, <1>2, <1>3, <1>4, <1>7, <1>9 DEF EditPageTypeOK
<1>11. \A b \in handlers' : AloneIs(b)' /\ (b.op = "add" => b.stage # "loaded")
  BY <1>8 DEF EditPageIInv, AloneIs
<1>12. ASSUME ~tangled' PROVE Untangled'
  <2>1. ~tangled /\ Untangled /\ \A a \in handlers : a.op = "add"
    BY <1>1, <1>12 DEF EditPageIInv
  <2>2. \A q \in DOMAIN listed : q \in Questions
    BY <1>0, ListIs DEF EditPageTypeOK
  <2>3. \A q \in DOMAIN listed : listed[q] = LastOf(q) => listed'[q] = LastOf(q)'
    <3> SUFFICES ASSUME NEW q \in DOMAIN listed, listed[q] = LastOf(q) PROVE listed'[q] = LastOf(q)'
      OBVIOUS
    <3>1. CASE q = selected
      <4>1. listed'[q] = typings' /\ unsaved'[q] = Append(unsaved[selected], typings')
        BY <1>2, <1>4, <1>7, <3>1
      <4> QED BY <1>6, <4>1 DEF LastOf
    <3>2. CASE q # selected
      <4>1. listed'[q] = listed[q] /\ unsaved'[q] = unsaved[q] /\ rows' = rows
        BY <1>1, <1>4, <1>7, <2>2, <3>2
      <4> QED BY <4>1 DEF LastOf
    <3> QED BY <3>1, <3>2
  <2>4. ASSUME NEW without, ListsRows(without) PROVE ListsRows(without)'
    BY <1>1, <1>4, <2>3, <2>4 DEF ListsRows
  <2>5. ASSUME NEW a \in handlers, AddedIs(a) PROVE AddedIs(a)'
    <3>1. selected \notin DOMAIN a.got /\ DOMAIN a.got \subseteq Questions
      <4>1. DOMAIN listed = DOMAIN rows \ DOMAIN a.got
        BY <2>5 DEF AddedIs, ListsRows
      <4>2. DOMAIN a.got \subseteq DOMAIN rows /\ DOMAIN rows \subseteq Questions
        BY <1>0, <2>5, ListIs DEF AddedIs, EditPageTypeOK
      <4> QED BY <1>1, <4>1, <4>2
    <3>2. ListsRows(DOMAIN a.got)'
      BY <2>4, <2>5 DEF AddedIs, ListsRows
    <3>3. \A q \in DOMAIN a.got : unsaved'[q] = unsaved[q] /\ rows'[q] = rows[q]
      BY <1>1, <1>7, <3>1
    <3> QED BY <1>1, <2>5, <3>2, <3>3 DEF AddedIs
  <2>6. \A b \in handlers' : b.op = "add" /\ (b.stage = "done" => AddedIs(b)')
    <3> TAKE b \in handlers'
    <3>1. PICK a \in handlers : b.op = a.op /\ b.stage = a.stage /\ b.got = a.got
      BY <1>8
    <3>2. a.op = "add" /\ (a.stage = "done" => AddedIs(a))
      BY <2>1 DEF Untangled
    <3>3. AddedIs(a)' => AddedIs(b)'
      BY <3>1 DEF AddedIs
    <3> QED BY <2>5, <3>1, <3>2, <3>3
  <2>7. \A b, c \in handlers' : b = c
    BY <1>1, <2>1 DEF Untangled
  <2>8. (\A b \in handlers' : b.stage = "sent") => ListsRows({})'
    <3> SUFFICES ASSUME \A b \in handlers' : b.stage = "sent" PROVE ListsRows({})'
      OBVIOUS
    <3>1. \A a \in handlers : [a EXCEPT !.alone = FALSE] \in handlers' /\ [a EXCEPT !.alone = FALSE].stage = a.stage
      BY <1>0, <1>1 DEF EditPageTypeOK, Handler
    <3>2. ListsRows({})
      BY <2>1, <3>1 DEF Untangled
    <3> QED BY <2>4, <3>2
  <2> QED BY <2>6, <2>7, <2>8 DEF Untangled
<1> QED BY <1>3, <1>10, <1>11, <1>12 DEF EditPageIInv

\* The oldest edit of a question is written, if the question is still there.
LEMMA SaveNextKeeps ==
  ASSUME EditPageIInv, NEW q \in Questions, SaveNext(q)
  PROVE  EditPageIInv'
<1>0. EditPageTypeOK /\ AppliesAChange
  BY DEF EditPageIInv
<1>1. /\ unsaved[q] # <<>> /\ unsaved' = [unsaved EXCEPT ![q] = Tail(@)]
      /\ rows' = IF q \in DOMAIN rows THEN [rows EXCEPT ![q] = Head(unsaved[q])] ELSE rows
      /\ UNCHANGED <<listed, selected, panel, handlers, typings, begun, touched, tangled>>
  BY DEF SaveNext
<1>2. unsaved \in [Questions -> Seq(Typings)] /\ rows \in [DOMAIN rows -> Typings] /\ DOMAIN rows \subseteq Questions
  BY <1>0, ListIs DEF EditPageTypeOK
<1>3. unsaved[q] \in Seq(Typings) /\ Len(unsaved[q]) \in Nat \ {0}
  BY <1>1, <1>2, EmptySeq
<1>4. Head(unsaved[q]) = unsaved[q][1] /\ Head(unsaved[q]) \in Typings /\ Tail(unsaved[q]) \in Seq(Typings)
  <2>1. Head(unsaved[q]) \in Typings /\ Tail(unsaved[q]) \in Seq(Typings)
    BY <1>1, <1>3, HeadTailProperties
  <2>2. Head(unsaved[q]) = unsaved[q][1]
    BY <1>3
  <2> QED BY <2>1, <2>2
<1>5. /\ Len(Tail(unsaved[q])) = Len(unsaved[q]) - 1
      /\ \A i \in 1..(Len(unsaved[q]) - 1) : Tail(unsaved[q])[i] = unsaved[q][i + 1]
  BY <1>1, <1>3, HeadTailProperties
<1>6. /\ unsaved' \in [Questions -> Seq(Typings)] /\ unsaved'[q] = Tail(unsaved[q])
      /\ \A x \in Questions \ {q} : unsaved'[x] = unsaved[x]
  BY <1>1, <1>2, <1>4
<1>7. /\ rows' \in [DOMAIN rows -> Typings] /\ DOMAIN rows' = DOMAIN rows
      /\ \A x \in DOMAIN rows \ {q} : rows'[x] = rows[x]
      /\ q \in DOMAIN rows => rows'[q] = unsaved[q][1]
  BY <1>1, <1>2, <1>4
<1>8. EditPageTypeOK'
  BY <1>0, <1>1, <1>2, <1>6, <1>7 DEF EditPageTypeOK, Lists
<1>9. \A x \in DOMAIN rows : LastOf(x)' = LastOf(x)
  <2> SUFFICES ASSUME NEW x \in DOMAIN rows PROVE LastOf(x)' = LastOf(x)
    OBVIOUS
  <2>1. CASE x # q
    BY <1>2, <1>6, <1>7, <2>1 DEF LastOf
  <2>2. CASE x = q
    <3>1. LastOf(x) = unsaved[q][Len(unsaved[q])]
      BY <1>1, <2>2 DEF LastOf
    <3>2. CASE Len(unsaved[q]) = 1
      <4>1. unsaved'[q] = <<>>
        BY <1>4, <1>5, <1>6, <3>2, EmptySeq
      <4> QED BY <1>7, <2>2, <3>1, <3>2, <4>1 DEF LastOf
    <3>3. CASE Len(unsaved[q]) # 1
      <4>1. unsaved'[q] # <<>> /\ Len(unsaved'[q]) = Len(unsaved[q]) - 1 /\ Len(unsaved[q]) - 1 \in 1..(Len(unsaved[q]) - 1)
        <5>1. Len(unsaved'[q]) = Len(unsaved[q]) - 1 /\ Len(unsaved[q]) - 1 \in 1..(Len(unsaved[q]) - 1)
          <6> DEFINE n == Len(unsaved[q])
          <6>1. Len(unsaved'[q]) = n - 1
            BY <1>5, <1>6
          <6>2. n \in Nat \ {0} /\ n # 1
            BY <1>3, <3>3
          <6> HIDE DEF n
          <6>3. n - 1 \in 1..(n - 1)
            BY <6>2
          <6> QED BY <6>1, <6>3 DEF n
        <5>2. Len(<<>>) = 0
          OBVIOUS
        <5>3. Len(unsaved[q]) - 1 # 0
          BY <1>3, <3>3
        <5> QED BY <5>1, <5>2, <5>3
      <4>2. unsaved'[q][Len(unsaved'[q])] = unsaved[q][Len(unsaved[q])]
        BY <1>3, <1>5, <1>6, <4>1
      <4> QED BY <2>2, <3>1, <4>1, <4>2 DEF LastOf
    <3> QED BY <3>2, <3>3
  <2> QED BY <2>1, <2>2
<1>10. \A a \in handlers : AloneIs(a)'
  BY <1>1 DEF EditPageIInv, AloneIs, AllSaved
<1>11. ASSUME ~tangled' PROVE Untangled'
  <2>1. Untangled
    BY <1>1, <1>11 DEF EditPageIInv
  <2>2. ASSUME NEW without, ListsRows(without) PROVE ListsRows(without)'
    BY <1>1, <1>7, <1>9, <2>2 DEF ListsRows
  <2>3. ASSUME NEW a \in handlers, AddedIs(a) PROVE AddedIs(a)'
    <3>1. ListsRows(DOMAIN a.got)'
      BY <2>2, <2>3 DEF AddedIs, ListsRows
    <3>2. \A x \in DOMAIN a.got : x \in DOMAIN rows /\ x # q /\ unsaved'[x] = unsaved[x] /\ rows'[x] = rows[x]
      BY <1>1, <1>2, <1>6, <1>7, <2>3 DEF AddedIs
    <3> QED BY <1>7, <2>3, <3>1, <3>2 DEF AddedIs
  <2> QED BY <1>1, <2>1, <2>2, <2>3 DEF Untangled
<1> QED BY <1>0, <1>1, <1>8, <1>10, <1>11 DEF EditPageIInv, AppliesAChange

LEMMA SaveLostKeeps ==
  ASSUME EditPageIInv, NEW q \in Questions, SaveLost(q)
  PROVE  EditPageIInv'
<1>0. EditPageTypeOK /\ AppliesAChange
  BY DEF EditPageIInv
<1>1. /\ unsaved[q] # <<>> /\ unsaved' = [unsaved EXCEPT ![q] = Tail(@)] /\ tangled' = TRUE
      /\ UNCHANGED <<rows, listed, selected, panel, handlers, typings, begun, touched>>
  BY DEF SaveLost
<1>2. unsaved \in [Questions -> Seq(Typings)]
  BY <1>0 DEF EditPageTypeOK
<1>3. Tail(unsaved[q]) \in Seq(Typings)
  BY <1>1, <1>2, HeadTailProperties
<1>4. unsaved' \in [Questions -> Seq(Typings)]
  BY <1>1, <1>2, <1>3
<1>5. EditPageTypeOK'
  BY <1>0, <1>1, <1>4 DEF EditPageTypeOK
<1>6. \A a \in handlers : AloneIs(a)'
  BY <1>1 DEF EditPageIInv, AloneIs, AllSaved
<1> QED BY <1>0, <1>1, <1>5, <1>6 DEF EditPageIInv, AppliesAChange

-----------------------------------------------------------------------------
(* Handlers *)

LEMMA BeginsKeeps ==
  ASSUME EditPageIInv, NEW op \in {"add", "remove", "reorder", "toAll", "toOthers"},
         NEW of \in Maybe, NEW to \in SUBSET Questions, Begins(op, of, to),
         panel' = panel \/ panel' = [panel EXCEPT !.applying = begun']
  PROVE  EditPageIInv'
<1>0. EditPageTypeOK /\ AppliesAChange
  BY DEF EditPageIInv
<1> DEFINE h0 == [n |-> begun', op |-> op, of |-> of, to |-> to,
                  sel |-> IF op = "remove" THEN selected ELSE NoQuestion,
                  was |-> IF op = "reorder" THEN listed ELSE <<>>,
                  stage |-> "sent", got |-> <<>>, alone |-> handlers = {} /\ AllSaved]
<1>1. /\ begun < MaxHandlers /\ begun' = begun + 1
      /\ handlers' = {[a EXCEPT !.alone = FALSE] : a \in handlers} \cup {h0}
      /\ tangled' = (tangled \/ handlers # {} \/ (op # "add" /\ ~AllSaved))
      /\ UNCHANGED <<rows, listed, selected, unsaved, typings, touched>>
  BY DEF Begins
<1>2. begun' \in 1..MaxHandlers
  BY <1>0, <1>1, EditPageAssumption DEF EditPageTypeOK
<1>3. h0 \in Handler
  <2>1. (handlers = {} /\ AllSaved) \in BOOLEAN
    OBVIOUS
  <2>2. (IF op = "remove" THEN selected ELSE NoQuestion) \in Maybe
    BY <1>0 DEF EditPageTypeOK, Maybe
  <2>3. (IF op = "reorder" THEN listed ELSE <<>>) \in Lists
    BY <1>0, NothingListed DEF EditPageTypeOK
  <2> QED BY <1>2, <2>1, <2>2, <2>3, NothingListed DEF Handler
<1>h. PICK h \in Handler : h = h0
  BY <1>3
<1>4. /\ h.op = op /\ h.stage = "sent" /\ (h.alone <=> handlers = {} /\ AllSaved)
      /\ (op = "reorder" => h.was = listed)
  BY <1>h
<1>H. handlers' = {[a EXCEPT !.alone = FALSE] : a \in handlers} \cup {h}
  BY <1>1, <1>h
<1> HIDE DEF h0
<1>5. \A b \in handlers' : b = h \/ \E a \in handlers :
        b \in Handler /\ ~b.alone /\ b.op = a.op /\ b.stage = a.stage
  <2>1. \A a \in handlers : LET b == [a EXCEPT !.alone = FALSE]
                             IN  b \in Handler /\ ~b.alone /\ b.op = a.op /\ b.stage = a.stage
    BY <1>0 DEF EditPageTypeOK, Handler
  <2>2. \A b \in handlers' : b = h \/ \E a \in handlers : b = [a EXCEPT !.alone = FALSE]
    BY <1>H
  <2> TAKE b \in handlers'
  <2>3. CASE b = h
    BY <2>3
  <2>4. CASE b # h
    <3>1. PICK a \in handlers : b = [a EXCEPT !.alone = FALSE]
      BY <2>2, <2>4
    <3> QED BY <2>1, <3>1
  <2> QED BY <2>3, <2>4
<1>6. panel' \in Panel /\ panel'.changed = panel.changed
  BY <1>0, <1>2 DEF EditPageTypeOK, Panel
<1>7. EditPageTypeOK'
  <2>1. handlers' \subseteq Handler
    BY <1>h, <1>5
  <2>2. begun' \in 0..MaxHandlers
    BY <1>2
  <2>3. tangled' \in BOOLEAN
    BY <1>0, <1>1 DEF EditPageTypeOK
  <2> QED BY <1>0, <1>1, <1>6, <2>1, <2>2, <2>3 DEF EditPageTypeOK
<1>8. \A b \in handlers' : AloneIs(b)' /\ (b.op = "add" => b.stage # "loaded")
  <2>1. AloneIs(h)'
    <3> SUFFICES ASSUME h.alone PROVE handlers' = {h} /\ AllSaved'
      BY <1>4 DEF AloneIs
    <3>1. handlers = {} /\ AllSaved
      BY <1>4
    <3>2. {[a EXCEPT !.alone = FALSE] : a \in handlers} = {}
      BY <3>1
    <3> QED BY <1>1, <1>H, <3>1, <3>2 DEF AllSaved
  <2>2. \A b \in handlers' : b # h => ~b.alone /\ (b.op = "add" => b.stage # "loaded")
    BY <1>5 DEF EditPageIInv
  <2>3. \A b \in handlers' : b # h => AloneIs(b)'
    BY <2>2 DEF AloneIs
  <2>4. \A b \in handlers' : b.op = "add" => b.stage # "loaded"
    BY <1>4, <2>2
  <2> QED BY <2>1, <2>3, <2>4
<1>9. ASSUME ~tangled' PROVE Untangled'
  <2>1. ~tangled /\ handlers = {} /\ (op # "add" => AllSaved) /\ Untangled
    BY <1>1, <1>9 DEF EditPageIInv
  <2>2. handlers' = {h}
    BY <1>H, <2>1
  <2>3. ListsRows({})'
    BY <1>1, <2>1 DEF Untangled, ListsRows, LastOf
  <2> QED BY <1>1, <1>4, <2>1, <2>2, <2>3 DEF Untangled
<1> QED BY <1>0, <1>1, <1>6, <1>7, <1>8, <1>9 DEF EditPageIInv, AppliesAChange

LEMMA HandlersBegin ==
  ASSUME EditPageIInv,
         \/ AddQuestion \/ DragQuestion \/ ApplyToAll \/ Apply
         \/ \E q \in Questions : Duplicate(q) \/ DeleteQuestion(q)
  PROVE  EditPageIInv'
<1>1. \A q \in Questions : q \in Maybe
  BY DEF Maybe
<1>2. NoQuestion \in Maybe /\ selected \in Maybe /\ panel \in Panel
  BY DEF Maybe, EditPageIInv, EditPageTypeOK
<1>3. (IF panel.toAll THEN Questions \ {selected} ELSE panel.targets) \in SUBSET Questions
  BY <1>2 DEF Panel
<1>4. CASE Apply
  BY <1>2, <1>3, <1>4, BeginsKeeps DEF Apply
<1>5. CASE AddQuestion \/ DragQuestion \/ ApplyToAll \/ \E q \in Questions : Duplicate(q) \/ DeleteQuestion(q)
  BY <1>1, <1>2, <1>5, BeginsKeeps DEF AddQuestion, DragQuestion, ApplyToAll, Duplicate, DeleteQuestion
<1> QED BY <1>4, <1>5

\* A handler that goes on keeps what it was called with, and, of an untangled page or alone,
\* stays the only one.
LEMMA HandlerGoesOn ==
  ASSUME EditPageIInv, NEW a \in handlers, NEW b \in Handler, Becomes(a, b),
         b.op = a.op, b.alone = a.alone, b.stage # "sent",
         b.op = "add" => b.stage = "done",
         b.stage = "loaded" => b.got = rows',
         UNCHANGED <<listed, selected, panel, unsaved, typings, begun, touched>>, rows' \in Lists,
         tangled' \in BOOLEAN, tangled => tangled', rows' = rows \/ a.stage = "sent",
         ~tangled' => b.op # "toOthers" /\ (b.op = "add" => AddedIs(b)')
  PROVE  EditPageIInv'
<1>0. EditPageTypeOK /\ AppliesAChange /\ handlers' = (handlers \ {a}) \cup {b}
  BY DEF EditPageIInv, Becomes
<1>1. EditPageTypeOK'
  BY <1>0 DEF EditPageTypeOK
<1>2. AloneIs(b)'
  <2> SUFFICES ASSUME b.alone PROVE AloneIs(b)'
    BY DEF AloneIs
  <2>1. handlers = {a} /\ AllSaved
    BY DEF EditPageIInv, AloneIs
  <2> QED BY <1>0, <2>1 DEF AloneIs, AllSaved
<1>3. \A c \in handlers \ {a} : ~c.alone /\ (c.op = "add" => c.stage # "loaded")
  BY DEF EditPageIInv, AloneIs
<1>4. \A c \in handlers' : AloneIs(c)' /\ (c.op = "add" => c.stage # "loaded")
  BY <1>0, <1>2, <1>3 DEF AloneIs
<1>5. ASSUME ~tangled' PROVE Untangled'
  <2>1. ~tangled /\ Untangled
    BY <1>5 DEF EditPageIInv
  <2>2. handlers' = {b} /\ (a.op # "add" => a.alone)
    BY <1>0, <2>1 DEF Untangled
  <2> QED BY <1>5, <2>2 DEF Untangled
<1> QED BY <1>0, <1>1, <1>4, <1>5 DEF EditPageIInv, AppliesAChange

\* create and duplicate: a new question is stored.
LEMMA AddedKeeps ==
  ASSUME EditPageIInv, NEW a \in handlers, Performed(a), a.op = "add"
  PROVE  EditPageIInv'
<1>0. EditPageTypeOK /\ a \in Handler
  BY DEF EditPageIInv, EditPageTypeOK
<1>1. /\ a.stage = "sent" /\ Added(a) /\ (tangled' = tangled)
      /\ UNCHANGED <<listed, selected, panel, unsaved, typings, begun, touched>>
  BY <1>0 DEF Performed, EditPageTypeOK
<1>2. PICK q \in Questions, v \in IF a.of # NoQuestion THEN {rows[a.of]}
                                  ELSE IF DOMAIN rows = {} THEN {0} ELSE Range(rows) :
        /\ Forgotten(q) /\ rows' = With(rows, q, v)
        /\ Becomes(a, [a EXCEPT !.stage = "done", !.got = [x \in {q} |-> v]])
  BY <1>1 DEF Added
<1>3. rows \in [DOMAIN rows -> Typings] /\ DOMAIN rows \subseteq Questions
  BY <1>0, ListIs DEF EditPageTypeOK
<1>4. v \in Typings
  <2>1. CASE a.of # NoQuestion
    <3>1. v = rows[a.of] /\ a.of \in DOMAIN rows
      BY <1>1, <1>2, <2>1 DEF Added
    <3> QED BY <1>3, <3>1
  <2>2. CASE a.of = NoQuestion /\ DOMAIN rows = {}
    BY <1>2, <2>2, EditPageAssumption DEF Typings
  <2>3. CASE a.of = NoQuestion /\ DOMAIN rows # {}
    <3>1. v \in Range(rows)
      BY <1>2, <2>3
    <3> QED BY <1>3, <3>1 DEF Range
  <2> QED BY <2>1, <2>2, <2>3
<1>5. q \notin DOMAIN rows /\ q \notin DOMAIN listed /\ unsaved[q] = <<>>
  BY <1>2 DEF Forgotten
<1> DEFINE new == [x \in {q} |-> v]
<1>6. new \in Lists /\ DOMAIN new = {q} /\ new[q] = v
  <2>1. new \in [{q} -> Typings] /\ {q} \in SUBSET Questions
    BY <1>4
  <2> QED BY <2>1 DEF Lists
<1> HIDE DEF new
<1>7. PICK b \in Handler : /\ Becomes(a, b) /\ b.op = a.op /\ b.alone = a.alone /\ b.stage = "done" /\ b.got = new
  <2>1. [a EXCEPT !.stage = "done", !.got = new] \in Handler
    BY <1>0, <1>6 DEF Handler
  <2>2. Becomes(a, [a EXCEPT !.stage = "done", !.got = new])
    BY <1>2 DEF new
  <2> QED BY <1>0, <2>1, <2>2 DEF Handler
<1>8. rows' \in Lists
  BY <1>0, <1>2, <1>4, WithIs DEF EditPageTypeOK
<1>9. /\ DOMAIN rows' = DOMAIN rows \cup {q} /\ rows'[q] = v
      /\ \A x \in DOMAIN rows \ {q} : rows'[x] = rows[x]
  BY <1>2 DEF With
<1>10. ASSUME ~tangled' PROVE AddedIs(b)'
  <2>1. handlers = {a} /\ ListsRows({})
    BY <1>1, <1>10 DEF EditPageIInv, Untangled
  <2>2. DOMAIN listed = DOMAIN rows /\ \A x \in DOMAIN listed : listed[x] = LastOf(x)
    BY <2>1 DEF ListsRows
  <2>3. \A x \in DOMAIN rows : LastOf(x)' = LastOf(x)
    BY <1>1, <1>5, <1>9 DEF LastOf
  <2>4. DOMAIN b.got = {q} /\ b.got[q] = v
    BY <1>6, <1>7
  <2>5. ListsRows({q})'
    BY <1>1, <1>5, <1>9, <2>2, <2>3 DEF ListsRows
  <2>6. ListsRows(DOMAIN b.got)'
    BY <2>4, <2>5
  <2> QED BY <1>1, <1>5, <1>9, <2>4, <2>6 DEF AddedIs
<1> QED BY <1>0, <1>1, <1>7, <1>8, <1>10, HandlerGoesOn DEF EditPageTypeOK

\* The server's part of the other handlers, and the reload that follows two of them.
LEMMA PerformedKeeps ==
  ASSUME EditPageIInv, NEW a \in handlers, Performed(a) \/ Reload(a)
  PROVE  EditPageIInv'
<1>0. EditPageTypeOK /\ a \in Handler
  BY DEF EditPageIInv, EditPageTypeOK
<1>1. rows \in [DOMAIN rows -> Typings] /\ DOMAIN rows \subseteq Questions
  BY <1>0, ListIs DEF EditPageTypeOK
<1>2. CASE Performed(a) /\ a.op = "add"
  BY <1>2, AddedKeeps
<1>3. CASE Performed(a) /\ a.op # "add"
  <2>1. /\ a.stage = "sent" /\ tangled' = (tangled \/ a.op = "toOthers")
        /\ UNCHANGED <<listed, selected, panel, unsaved, typings, begun, touched>>
    BY <1>3 DEF Performed
  <2>2. \/ a.op = "reorder" /\ Becomes(a, [a EXCEPT !.stage = "loaded", !.got = rows]) /\ rows' = rows
        \/ a.op = "remove" /\ Rows(a, Restrict(rows, DOMAIN rows \ {a.of}))
        \/ a.op = "toAll" /\ a.of \in DOMAIN rows /\ Rows(a, [q \in DOMAIN rows |-> rows[a.of]])
        \/ a.op = "toOthers" /\ a.of \in DOMAIN rows
             /\ Rows(a, [q \in DOMAIN rows |-> IF q \in a.to THEN rows[a.of] ELSE rows[q]])
    BY <1>3 DEF Performed, Added
  <2>3. /\ Restrict(rows, DOMAIN rows \ {a.of}) \in Lists
        /\ a.of \in DOMAIN rows => [q \in DOMAIN rows |-> rows[a.of]] \in Lists
        /\ a.of \in DOMAIN rows => [q \in DOMAIN rows |-> IF q \in a.to THEN rows[a.of] ELSE rows[q]] \in Lists
    <3>1. Restrict(rows, DOMAIN rows \ {a.of}) \in [DOMAIN rows \ {a.of} -> Typings]
      BY <1>1 DEF Restrict
    <3>2. a.of \in DOMAIN rows => [q \in DOMAIN rows |-> rows[a.of]] \in [DOMAIN rows -> Typings]
      BY <1>1
    <3>3. a.of \in DOMAIN rows =>
            [q \in DOMAIN rows |-> IF q \in a.to THEN rows[a.of] ELSE rows[q]] \in [DOMAIN rows -> Typings]
      BY <1>1
    <3>4. DOMAIN rows \in SUBSET Questions /\ DOMAIN rows \ {a.of} \in SUBSET Questions
      BY <1>1
    <3> QED BY <3>1, <3>2, <3>3, <3>4 DEF Lists
  <2>4. rows' \in Lists
    BY <1>0, <2>2, <2>3 DEF Rows, EditPageTypeOK
  <2>5. tangled' \in BOOLEAN
    BY <1>0, <2>1 DEF EditPageTypeOK
  <2>6. PICK b \in Handler : /\ Becomes(a, b) /\ b.op = a.op /\ b.alone = a.alone /\ b.stage # "sent"
                             /\ (b.stage = "loaded" => b.got = rows')
    <3>1. CASE a.op = "reorder"
      <4> DEFINE b == [a EXCEPT !.stage = "loaded", !.got = rows]
      <4>1. b \in Handler /\ b.op = a.op /\ b.alone = a.alone /\ b.stage = "loaded" /\ b.got = rows
        BY <1>0 DEF Handler, EditPageTypeOK
      <4>2. Becomes(a, b) /\ rows' = rows
        BY <2>2, <3>1
      <4> QED BY <4>1, <4>2
    <3>2. CASE a.op # "reorder"
      <4> DEFINE b == [a EXCEPT !.stage = "done"]
      <4>1. b \in Handler /\ b.op = a.op /\ b.alone = a.alone /\ b.stage = "done"
        BY <1>0 DEF Handler
      <4>2. Becomes(a, b)
        BY <2>2, <3>2 DEF Rows
      <4> QED BY <4>1, <4>2
    <3> QED BY <3>1, <3>2
  <2> QED BY <1>3, <2>1, <2>4, <2>5, <2>6, HandlerGoesOn
<1>4. CASE Reload(a)
  <2>1. /\ a.stage = "done" /\ a.op \in {"remove", "toAll"}
        /\ Becomes(a, [a EXCEPT !.stage = "loaded", !.got = rows])
        /\ UNCHANGED <<rows, listed, selected, panel, unsaved, typings, begun, touched, tangled>>
    BY <1>4 DEF Reload
  <2>2. PICK b \in Handler : /\ Becomes(a, b) /\ b.op = a.op /\ b.alone = a.alone /\ b.stage = "loaded" /\ b.got = rows
    <3> DEFINE b == [a EXCEPT !.stage = "loaded", !.got = rows]
    <3>1. b \in Handler /\ b.op = a.op /\ b.alone = a.alone /\ b.stage = "loaded" /\ b.got = rows
      BY <1>0 DEF Handler, EditPageTypeOK
    <3> QED BY <2>1, <3>1
  <2> QED BY <1>0, <2>1, <2>2, HandlerGoesOn DEF EditPageTypeOK
<1> QED BY <1>2, <1>3, <1>4

-----------------------------------------------------------------------------
(* Ends *)

\* A handler ends: what it leaves has to be right only if the page is, or is then, untangled.
LEMMA EndsKeeps ==
  ASSUME EditPageIInv, NEW a \in handlers, Ends(a),
         listed' \in Lists, selected' \in Maybe, panel' \in Panel, tangled' \in BOOLEAN,
         AppliesAChange',
         ~tangled' => handlers = {a} /\ ListsRows({})'
  PROVE  EditPageIInv'
<1>0. EditPageTypeOK /\ handlers' = handlers \ {a} /\ UNCHANGED <<rows, unsaved, typings, begun, touched>>
  BY DEF EditPageIInv, Ends
<1>1. EditPageTypeOK'
  BY <1>0 DEF EditPageTypeOK
<1>2. \A c \in handlers' : AloneIs(c)' /\ (c.op = "add" => c.stage # "loaded")
  BY <1>0 DEF EditPageIInv, AloneIs
<1>3. ASSUME ~tangled' PROVE Untangled'
  <2>1. handlers' = {}
    BY <1>0, <1>3
  <2> QED BY <1>3, <2>1 DEF Untangled
<1> QED BY <1>1, <1>2, <1>3 DEF EditPageIInv

\* The panel of the application that ends.
LEMMA AppliedKeeps ==
  ASSUME EditPageIInv, NEW a \in handlers, NEW changed \in BOOLEAN, Applied(a, changed),
         changed => panel.changed, UNCHANGED <<selected, touched>>
  PROVE  panel' \in Panel /\ AppliesAChange'
<1>1. panel \in Panel /\ 0 \in 0..MaxHandlers
  BY EditPageAssumption DEF EditPageIInv, EditPageTypeOK
<1>2. \/ panel' = panel
      \/ panel' = [panel EXCEPT !.applying = 0, !.changed = changed]
  BY DEF Applied
<1>3. panel' \in Panel /\ (panel'.changed => panel.changed)
  BY <1>1, <1>2 DEF Panel
<1> QED BY <1>3 DEF EditPageIInv, AppliesAChange

LEMMA ReloadedKeeps ==
  ASSUME EditPageIInv, NEW a \in handlers, Reloaded(a)
  PROVE  EditPageIInv'
<1>0. EditPageTypeOK /\ a \in Handler
  BY DEF EditPageIInv, EditPageTypeOK
<1>1. /\ a.stage = "loaded" /\ Ends(a) /\ tangled' = (tangled /\ ~a.alone)
      /\ UNCHANGED <<rows, unsaved, touched>>
  BY DEF Reloaded, Ends
<1>2. PICK q \in SelectedAfter(a, a.got) : Shows(a.got, q)
  BY DEF Reloaded
<1>3. a.got \in Lists /\ q \in Maybe
  BY <1>0, <1>2, ListIs DEF Handler, SelectedAfter, Maybe, EditPageTypeOK
<1>4. listed' \in Lists /\ selected' \in Maybe /\ panel' \in Panel /\ AppliesAChange'
  BY <1>1, <1>2, <1>3, ShowsKeeps
<1>5. tangled' \in BOOLEAN
  BY <1>0, <1>1 DEF EditPageTypeOK
<1>6. ASSUME ~tangled' PROVE handlers = {a} /\ ListsRows({})'
  <2>1. a.alone
    BY <1>1, <1>6 DEF EditPageIInv, Untangled
  <2>2. handlers = {a} /\ AllSaved /\ a.got = rows
    BY <1>1, <2>1 DEF EditPageIInv, AloneIs
  <2>3. listed' = rows' /\ unsaved' = unsaved
    BY <1>1, <1>2, <2>2 DEF Shows
  <2>4. \A q2 \in DOMAIN rows' : unsaved'[q2] = <<>>
    BY <1>0, <1>1, <2>2, <2>3, ListIs DEF AllSaved, EditPageTypeOK
  <2> QED BY <2>2, <2>3, <2>4 DEF ListsRows, LastOf
<1> QED BY <1>1, <1>4, <1>5, <1>6, EndsKeeps

LEMMA AddArrivesKeeps ==
  ASSUME EditPageIInv, NEW a \in handlers, AddArrives(a)
  PROVE  EditPageIInv'
<1>0. EditPageTypeOK /\ a \in Handler
  BY DEF EditPageIInv, EditPageTypeOK
<1>1. a.stage = "done" /\ a.op = "add" /\ Ends(a) /\ UNCHANGED <<rows, unsaved, touched, tangled>>
  BY DEF AddArrives, Ends
<1>2. PICK q \in DOMAIN a.got : Shows(With(listed, q, a.got[q]), q)
  BY DEF AddArrives
<1>3. a.got \in [DOMAIN a.got -> Typings] /\ DOMAIN a.got \subseteq Questions
  BY <1>0, ListIs DEF Handler
<1>4. With(listed, q, a.got[q]) \in Lists /\ q \in Maybe
  BY <1>0, <1>3, WithIs DEF EditPageTypeOK, Maybe
<1>5. listed' \in Lists /\ selected' \in Maybe /\ panel' \in Panel /\ AppliesAChange'
  BY <1>1, <1>2, <1>4, ShowsKeeps
<1>6. ASSUME ~tangled' PROVE handlers = {a} /\ ListsRows({})'
  <2>1. handlers = {a} /\ AddedIs(a)
    BY <1>1, <1>6 DEF EditPageIInv, Untangled
  <2>2. /\ DOMAIN a.got = {q} /\ q \in DOMAIN rows /\ unsaved[q] = <<>> /\ rows[q] = a.got[q]
        /\ DOMAIN listed = DOMAIN rows \ {q} /\ \A x \in DOMAIN listed : listed[x] = LastOf(x)
    <3>1. DOMAIN a.got = {q}
      BY <2>1 DEF AddedIs
    <3> QED BY <2>1, <3>1 DEF AddedIs, ListsRows
  <2>3. /\ DOMAIN listed' = DOMAIN listed \cup {q} /\ listed'[q] = a.got[q]
        /\ \A x \in DOMAIN listed \ {q} : listed'[x] = listed[x]
    BY <1>2 DEF Shows, With
  <2>4. \A x \in DOMAIN rows : LastOf(x)' = LastOf(x)
    BY <1>1 DEF LastOf
  <2>5. LastOf(q) = a.got[q]
    BY <2>2 DEF LastOf
  <2> QED BY <1>1, <2>1, <2>2, <2>3, <2>4, <2>5 DEF ListsRows
<1> QED BY <1>0, <1>1, <1>5, <1>6, EndsKeeps DEF EditPageTypeOK

LEMMA AppliedToOthersKeeps ==
  ASSUME EditPageIInv, NEW a \in handlers, AppliedToOthers(a)
  PROVE  EditPageIInv'
<1>1. /\ a.stage = "done" /\ a.op = "toOthers" /\ Ends(a) /\ Applied(a, FALSE)
      /\ UNCHANGED <<listed, selected, tangled, touched>>
  BY DEF AppliedToOthers, Ends
<1>2. tangled
  BY <1>1 DEF EditPageIInv, Untangled
<1>3. panel' \in Panel /\ AppliesAChange'
  BY <1>1, AppliedKeeps
<1> QED BY <1>1, <1>2, <1>3, EndsKeeps DEF EditPageIInv, EditPageTypeOK

LEMMA RefusedKeeps ==
  ASSUME EditPageIInv, NEW a \in handlers, Refused(a) \/ ReloadFails(a)
  PROVE  EditPageIInv'
<1>0. EditPageTypeOK /\ a \in Handler /\ AppliesAChange
  BY DEF EditPageIInv, EditPageTypeOK
<1>1. Ends(a) /\ UNCHANGED <<rows, unsaved, touched>>
  BY DEF Refused, ReloadFails, Ends
<1>2. CASE ReloadFails(a)
  <2>1. tangled' = TRUE /\ Shows(listed, IF a.op = "remove" /\ a.sel = a.of THEN NoQuestion ELSE selected)
    BY <1>2 DEF ReloadFails
  <2>2. (IF a.op = "remove" /\ a.sel = a.of THEN NoQuestion ELSE selected) \in Maybe /\ listed \in Lists
    BY <1>0 DEF EditPageTypeOK, Maybe
  <2>3. listed' \in Lists /\ selected' \in Maybe /\ panel' \in Panel /\ AppliesAChange'
    BY <1>1, <2>1, <2>2, ShowsKeeps
  <2> QED BY <1>1, <2>1, <2>3, EndsKeeps
<1>3. CASE Refused(a) /\ a.op = "reorder"
  <2>1. tangled' = (tangled \/ a.stage # "sent") /\ Shows(a.was, selected) /\ listed' = a.was
    BY <1>3 DEF Refused, Shows
  <2>2. a.was \in Lists /\ selected \in Maybe
    BY <1>0 DEF Handler, EditPageTypeOK
  <2>3. listed' \in Lists /\ selected' \in Maybe /\ panel' \in Panel /\ AppliesAChange'
    BY <1>1, <2>1, <2>2, ShowsKeeps
  <2>4. ASSUME ~tangled' PROVE handlers = {a} /\ ListsRows({})'
    <3>1. handlers = {a} /\ a.stage = "sent" /\ a.was = listed /\ ListsRows({})
      BY <1>3, <2>1, <2>4 DEF EditPageIInv, Untangled
    <3> QED BY <1>1, <2>1, <3>1 DEF ListsRows, LastOf
  <2>5. tangled' \in BOOLEAN
    BY <1>0, <2>1 DEF EditPageTypeOK
  <2> QED BY <1>1, <2>3, <2>4, <2>5, EndsKeeps
<1>4. CASE Refused(a) /\ a.op # "reorder"
  <2>1. tangled' = (tangled \/ a.stage # "sent") /\ Applied(a, panel.changed) /\ UNCHANGED <<listed, selected>>
    BY <1>4 DEF Refused
  <2>2. panel' \in Panel /\ AppliesAChange'
    <3>1. panel.changed \in BOOLEAN
      BY <1>0 DEF EditPageTypeOK, Panel
    <3> QED BY <1>1, <2>1, <3>1, AppliedKeeps
  <2>3. ASSUME ~tangled' PROVE handlers = {a} /\ ListsRows({})'
    <3>1. handlers = {a} /\ ListsRows({})
      BY <2>1, <2>3 DEF EditPageIInv, Untangled
    <3> QED BY <1>1, <2>1, <3>1 DEF ListsRows, LastOf
  <2>4. tangled' \in BOOLEAN /\ listed' \in Lists /\ selected' \in Maybe
    BY <1>0, <2>1 DEF EditPageTypeOK
  <2> QED BY <1>1, <2>2, <2>3, <2>4, EndsKeeps
<1> QED BY <1>2, <1>3, <1>4

LEMMA EditPageStep == EditPageIInv /\ [EditPageNext]_editPageVars => EditPageIInv'
<1> SUFFICES ASSUME EditPageIInv, [EditPageNext]_editPageVars PROVE EditPageIInv'
  OBVIOUS
<1>1. CASE UNCHANGED editPageVars
  BY <1>1, SameLists DEF editPageVars, EditPageIInv, EditPageTypeOK, AppliesAChange
<1>2. CASE EditPageNext
  BY <1>2, SelectionKeeps, TypedKeeps, SaveNextKeeps, SaveLostKeeps, HandlersBegin, PerformedKeeps,
     ReloadedKeeps, AddArrivesKeeps, AppliedToOthersKeeps, RefusedKeeps DEF EditPageNext
<1> QED BY <1>1, <1>2

-----------------------------------------------------------------------------
(* The session.  While its operations follow each other, one at most is    *)
(* under way, it is the account's of the tab's token, and the tab shows    *)
(* what that account has, but for what the operation, and the loads of the *)
(* workspaces that wait, are still to bring.                               *)

AskKinds == {"session", "login", "logout", "switch", "create", "prefs"}
Account == [active : Spaces \cup {Nobody}, prefs : Looks, spaces : SUBSET Spaces]
SessionAsk ==
  [n : 0..MaxSessionOps, kind : AskKinds, by : People \cup {Nobody}, arg : Spaces \cup Looks \cup {Nobody},
   user : User \cup {Nobody}, previous : Looks, answer : {"none", "done", "refused"}, got : User \cup {Nobody}]
SpacesLoad == [by : People \cup {Nobody}, user : User, answer : {"none", "done", "refused"}, got : SUBSET Spaces]

\* What is asked for is of the operation's kind; whoever creates a workspace is signed in.
AsksFor(a) == /\ a.kind \in {"switch", "create"} => a.arg \in Spaces
              /\ a.kind = "prefs" => a.arg \in Looks
              /\ a.kind = "create" => a.user \in User

SessionTyped ==
  /\ accountHas \in [People -> Account]
  /\ \A p \in People : accountHas[p].active \in accountHas[p].spaces \cup {Nobody}
  /\ token \in People \cup {Nobody} /\ signedIn \in User \cup {Nobody}
  /\ activeSpace \in Spaces \cup {Nobody} /\ look \in Looks
  /\ asking \subseteq SessionAsk /\ \A a \in asking : AsksFor(a)
  /\ listings \in Seq(SpacesLoad)
  /\ apart \in BOOLEAN /\ sessionOps \in 0..MaxSessionOps

\* The one operation under way, and what its answer brings.
AskIs(a) ==
  /\ a.kind = "login" => signedIn = Nobody /\ a.by \in People
  /\ a.kind # "login" => a.by = token
  /\ a.kind \in {"switch", "create", "prefs"} => signedIn # Nobody /\ a.user = signedIn
  /\ a.kind \in {"session", "login"} /\ a.answer = "done" => a.by \in People /\ a.got = ToSessionUser(a.by)
  /\ a.kind = "prefs" => IF a.answer = "done" THEN accountHas[token].prefs = a.arg
                         ELSE a.previous = accountHas[token].prefs

\* The load of the workspaces that comes last shows the active one.
LoadIs(l) == /\ l.by = token /\ l.user.active = accountHas[token].active
             /\ l.answer # "refused" /\ (l.answer = "done" => l.got = accountHas[token].spaces)
SpaceIs == IF listings = <<>> THEN activeSpace = Chosen(accountHas[token].active, accountHas[token].spaces)
           ELSE LoadIs(listings[Len(listings)])

ChangesUser(a) == a.kind = "session" \/ (a.kind = "switch" /\ a.answer = "done")
ChangesSpaces(a) == ChangesUser(a) \/ (a.kind = "create" /\ a.answer = "done")

AccountIs ==
  /\ token \in People /\ token = signedIn.who
  /\ (\A a \in asking : a.kind # "prefs") => look = accountHas[token].prefs
  /\ (\A a \in asking : ~ChangesUser(a)) => signedIn.active = accountHas[token].active
  /\ (\A a \in asking : ~ChangesSpaces(a)) => SpaceIs

InStep ==
  /\ \A a, b \in asking : a = b
  /\ \A a \in asking : AskIs(a)
  /\ signedIn # Nobody => AccountIs

SessionIInv == SessionTyped /\ (~apart => InStep)

LEMMA SessionHolds == SessionIInv => SessionTypeOK /\ ShowsItsAccount
<1> SUFFICES ASSUME SessionIInv PROVE SessionTypeOK /\ ShowsItsAccount
  OBVIOUS
<1>0. SessionTyped /\ (~apart => InStep)
  BY DEF SessionIInv
<1>1. \A p \in People : /\ accountHas[p].prefs \in Looks /\ accountHas[p].spaces \subseteq Spaces
                        /\ accountHas[p].active \in accountHas[p].spaces \cup {Nobody}
  BY <1>0 DEF SessionTyped, Account
<1>2. \A a \in asking : /\ a.by \in People \cup {Nobody} /\ a.previous \in Looks
                        /\ {a.user, a.got} \subseteq User \cup {Nobody}
  BY <1>0 DEF SessionTyped, SessionAsk
<1>3. \A l \in Range(listings) : l.by \in People \cup {Nobody} /\ l.user \in User
  <2>1. \A i \in DOMAIN listings : listings[i] \in SpacesLoad
    BY <1>0, ElementOfSeq, LenProperties DEF SessionTyped
  <2> QED BY <2>1 DEF Range, SpacesLoad
<1>4. SessionTypeOK
  BY <1>0, <1>1, <1>2, <1>3 DEF SessionTypeOK, SessionTyped
<1>5. ShowsItsAccount
  <2> SUFFICES ASSUME asking = {}, listings = <<>>, ~apart, signedIn # Nobody
               PROVE  /\ token = signedIn.who /\ look = accountHas[token].prefs
                      /\ activeSpace = Chosen(accountHas[token].active, accountHas[token].spaces)
    BY DEF ShowsItsAccount
  <2>1. AccountIs
    BY <1>0 DEF InStep
  <2> QED BY <2>1 DEF AccountIs, SpaceIs
<1> QED BY <1>4, <1>5

-----------------------------------------------------------------------------
\* Numbers have a least one among them; so FirstOf is one of the workspaces.
LEMMA LeastOf ==
  ASSUME NEW B \in SUBSET Nat, B # {}
  PROVE  FirstOf(B) \in B
<1>1. \E k \in B : \A j \in B : ~(<<j, k>> \in OpToRel(<, Nat))
  BY NatLessThanWellFounded, WFMin, Zenon
<1>2. \E k \in B : \A j \in B : k <= j
  <2>1. PICK k \in B : \A j \in B : ~(<<j, k>> \in OpToRel(<, Nat))
    BY <1>1
  <2>2. ASSUME NEW j \in B PROVE k <= j
    <3>1. j \in Nat /\ k \in Nat /\ ~(<<j, k>> \in {ss \in Nat \X Nat : ss[1] < ss[2]})
      BY <2>1 DEF OpToRel
    <3>2. ~(j < k)
      BY <3>1
    <3> QED BY <3>1, <3>2
  <2> QED BY <2>2
<1> QED BY <1>2 DEF FirstOf

LEMMA SpacesAre == Spaces \subseteq Nat /\ FirstOf(Spaces) \in Spaces /\ MaxSessionOps \in Nat /\ Nobody \notin People
  BY SessionAssumption, LeastOf

LEMMA ChosenTyped ==
  ASSUME NEW active, NEW spaces \in SUBSET Spaces
  PROVE  Chosen(active, spaces) \in Spaces \cup {Nobody}
BY SpacesAre, LeastOf DEF Chosen

LEMMA SessionInitInv == SessionInit => SessionIInv
<1> SUFFICES ASSUME SessionInit PROVE SessionIInv
  OBVIOUS
<1>1. PICK look0 \in Looks :
        /\ look = look0
        /\ accountHas = [p \in People |-> [active |-> Nobody, prefs |-> look0, spaces |-> {FirstOf(Spaces)}]]
  BY DEF SessionInit
<1>2. /\ token \in People \cup {Nobody} /\ signedIn = Nobody /\ activeSpace = Nobody
      /\ sessionOps = 0 /\ asking = {Ask("session", token, Nobody)} /\ listings = <<>> /\ apart = FALSE
  BY DEF SessionInit
<1>3. accountHas \in [People -> Account] /\ \A p \in People : accountHas[p].active = Nobody
  BY <1>1, SpacesAre DEF Account
<1>4. PICK a : a = Ask("session", token, Nobody)
  OBVIOUS
<1>5. a \in SessionAsk /\ a.kind = "session" /\ a.by = token /\ a.answer = "none"
  BY <1>1, <1>2, <1>4, SpacesAre DEF Ask, SessionAsk, AskKinds
<1>6. asking = {a}
  BY <1>2, <1>4
<1>7. sessionOps \in 0..MaxSessionOps
  BY <1>2, SpacesAre
<1>8. SessionTyped
  BY <1>1, <1>2, <1>3, <1>5, <1>6, <1>7, EmptySeq DEF SessionTyped, AsksFor
<1>9. InStep
  BY <1>2, <1>5, <1>6 DEF InStep, AskIs
<1> QED BY <1>8, <1>9 DEF SessionIInv

-----------------------------------------------------------------------------
(* The server *)

\* An answer is noted with what was asked.
LEMMA AnswerNoted ==
  ASSUME SessionTyped, NEW a \in asking, NEW reply \in {"done", "refused"}, NEW u \in User \cup {Nobody},
         Answer(a, reply, u)
  PROVE  \E b \in SessionAsk :
           /\ asking' = (asking \ {a}) \cup {b} /\ AsksFor(b)
           /\ b.kind = a.kind /\ b.by = a.by /\ b.arg = a.arg /\ b.user = a.user /\ b.previous = a.previous
           /\ b.answer = reply /\ b.got = u
<1> DEFINE b == [a EXCEPT !.answer = reply, !.got = u]
<1>1. a \in SessionAsk /\ AsksFor(a)
  BY DEF SessionTyped
<1>2. /\ b \in SessionAsk
      /\ b.kind = a.kind /\ b.by = a.by /\ b.arg = a.arg /\ b.user = a.user /\ b.previous = a.previous
      /\ b.answer = reply /\ b.got = u
  BY <1>1 DEF SessionAsk
<1>3. asking' = (asking \ {a}) \cup {b}
  BY DEF Answer
<1> HIDE DEF b
<1> QED BY <1>1, <1>2, <1>3 DEF AsksFor

LEMMA ReadSessionKeeps ==
  ASSUME SessionIInv, NEW a \in asking, ReadSession(a)
  PROVE  SessionIInv'
<1>0. SessionTyped /\ (~apart => InStep) /\ a \in SessionAsk
  BY DEF SessionIInv, SessionTyped
<1>1. /\ a.kind \in {"session", "login"} /\ a.answer = "none"
      /\ UNCHANGED <<accountHas, token, signedIn, activeSpace, look, listings, apart, sessionOps>>
  BY DEF ReadSession, Unanswered, tabVars
<1>2. PICK reply \in {"done", "refused"}, u \in User \cup {Nobody} :
        /\ Answer(a, reply, u)
        /\ reply = "done" => a.by \in People /\ u = ToSessionUser(a.by)
  <2>1. CASE a.by = Nobody
    BY <2>1 DEF ReadSession
  <2>2. CASE a.by # Nobody
    <3>1. a.by \in People
      BY <1>0, <2>2 DEF SessionAsk
    <3>2. ToSessionUser(a.by) \in User
      BY <1>0, <3>1 DEF ToSessionUser, User, SessionTyped, Account
    <3> QED BY <2>2, <3>1, <3>2 DEF ReadSession
  <2> QED BY <2>1, <2>2
<1>3. PICK b \in SessionAsk :
           /\ asking' = (asking \ {a}) \cup {b} /\ AsksFor(b)
           /\ b.kind = a.kind /\ b.by = a.by /\ b.arg = a.arg /\ b.user = a.user /\ b.previous = a.previous
           /\ b.answer = reply /\ b.got = u
  BY <1>0, <1>2, AnswerNoted
<1>4. SessionTyped'
  BY <1>0, <1>1, <1>3 DEF SessionTyped, AsksFor
<1>5. ASSUME ~apart' PROVE InStep'
  <2>1. InStep
    BY <1>0, <1>1, <1>5
  <2>2. asking = {a} /\ asking' = {b}
    BY <1>3, <2>1 DEF InStep
  <2>3. AskIs(b)'
    BY <1>1, <1>2, <1>3, <2>1 DEF InStep, AskIs, ToSessionUser
  <2>4. signedIn # Nobody => AccountIs'
    BY <1>1, <1>3, <2>1, <2>2 DEF InStep, AccountIs, ChangesUser, ChangesSpaces, SpaceIs, LoadIs
  <2> QED BY <1>1, <2>2, <2>3, <2>4 DEF InStep
<1> QED BY <1>4, <1>5 DEF SessionIInv

LEMMA StoreOpKeeps ==
  ASSUME SessionIInv, NEW a \in asking, StoreOp(a)
  PROVE  SessionIInv'
<1>0. SessionTyped /\ (~apart => InStep) /\ a \in SessionAsk /\ AsksFor(a)
  BY DEF SessionIInv, SessionTyped
<1>1. /\ a.kind \in {"switch", "create", "prefs"} /\ a.answer = "none"
      /\ UNCHANGED <<token, signedIn, activeSpace, look, listings, apart, sessionOps>>
  BY DEF StoreOp, Unanswered, tabVars
<1>2. PICK reply \in {"done", "refused"} :
        /\ Answer(a, reply, Nobody)
        /\ reply = "done" => Allowed(a) /\ accountHas' = Stored(a)
        /\ reply = "refused" => accountHas' = accountHas
  BY DEF StoreOp
<1>3. PICK b \in SessionAsk :
           /\ asking' = (asking \ {a}) \cup {b} /\ AsksFor(b)
           /\ b.kind = a.kind /\ b.by = a.by /\ b.arg = a.arg /\ b.user = a.user /\ b.previous = a.previous
           /\ b.answer = reply /\ b.got = Nobody
  BY <1>0, <1>2, AnswerNoted
<1>4. ASSUME reply = "done"
      PROVE  /\ a.by \in People /\ accountHas' \in [People -> Account]
             /\ a.kind = "switch" => /\ a.arg \in accountHas[a.by].spaces
                                     /\ accountHas' = [accountHas EXCEPT ![a.by].active = a.arg]
             /\ a.kind = "create" => accountHas' = [accountHas EXCEPT ![a.by].spaces = @ \cup {a.arg}]
             /\ a.kind = "prefs" => accountHas' = [accountHas EXCEPT ![a.by].prefs = a.arg]
  <2>1. a.by \in People /\ (a.kind = "switch" => a.arg \in accountHas[a.by].spaces) /\ accountHas' = Stored(a)
    BY <1>0, <1>2, <1>4 DEF Allowed, SessionAsk
  <2>2. accountHas \in [People -> Account]
    BY <1>0 DEF SessionTyped
  <2>3. CASE a.kind = "switch"
    BY <1>0, <2>1, <2>2, <2>3 DEF Stored, AsksFor, Account
  <2>4. CASE a.kind = "create"
    BY <1>0, <2>1, <2>2, <2>4 DEF Stored, AsksFor, Account
  <2>5. CASE a.kind = "prefs"
    BY <1>0, <2>1, <2>2, <2>5 DEF Stored, AsksFor, Account
  <2> QED BY <1>1, <2>3, <2>4, <2>5
<1>5. accountHas' \in [People -> Account] /\ \A p \in People : accountHas'[p].active \in accountHas'[p].spaces \cup {Nobody}
  BY <1>0, <1>1, <1>2, <1>4 DEF SessionTyped, Account
<1>6. SessionTyped'
  BY <1>0, <1>1, <1>3, <1>5 DEF SessionTyped, AsksFor
<1>7. ASSUME ~apart' PROVE InStep'
  <2>1. InStep
    BY <1>0, <1>1, <1>7
  <2>2. asking = {a} /\ asking' = {b} /\ AskIs(a)
    BY <1>3, <2>1 DEF InStep
  <2>3. a.by = token /\ signedIn # Nobody /\ a.user = signedIn /\ AccountIs /\ token \in People
    BY <1>1, <2>1, <2>2 DEF InStep, AskIs, AccountIs
  <2>4. CASE reply = "refused"
    <3>1. AskIs(b)'
      BY <1>1, <1>2, <1>3, <2>2, <2>4 DEF AskIs
    <3>2. AccountIs'
      BY <1>1, <1>2, <1>3, <2>2, <2>3, <2>4 DEF AccountIs, ChangesUser, ChangesSpaces, SpaceIs, LoadIs
    <3> QED BY <2>2, <3>1, <3>2 DEF InStep
  <2>5. CASE reply = "done"
    <3>1. accountHas \in [People -> Account]
      BY <1>0 DEF SessionTyped
    <3>2. AskIs(b)'
      BY <1>1, <1>3, <1>4, <2>2, <2>3, <2>5, <3>1 DEF AskIs, Account
    <3>3. CASE a.kind = "switch"
      <4>1. ChangesUser(b) /\ ChangesSpaces(b) /\ accountHas'[token].prefs = accountHas[token].prefs
        BY <1>3, <1>4, <2>3, <2>5, <3>1, <3>3 DEF ChangesUser, ChangesSpaces, Account
      <4>2. look = accountHas[token].prefs
        BY <2>2, <2>3, <3>3 DEF AccountIs
      <4>3. AccountIs'
        BY <1>1, <2>2, <2>3, <4>1, <4>2 DEF AccountIs, ChangesUser, ChangesSpaces
      <4> QED BY <2>2, <3>2, <4>3 DEF InStep
    <3>4. CASE a.kind = "create"
      <4>1. /\ ChangesSpaces(b) /\ accountHas'[token].prefs = accountHas[token].prefs
            /\ accountHas'[token].active = accountHas[token].active
        BY <1>3, <1>4, <2>3, <2>5, <3>1, <3>4 DEF ChangesSpaces, Account
      <4>2. look = accountHas[token].prefs /\ signedIn.active = accountHas[token].active
        BY <1>1, <2>2, <2>3, <3>4 DEF AccountIs, ChangesUser
      <4>3. AccountIs'
        BY <1>1, <2>2, <2>3, <4>1, <4>2 DEF AccountIs, ChangesUser, ChangesSpaces
      <4> QED BY <2>2, <3>2, <4>3 DEF InStep
    <3>5. CASE a.kind = "prefs"
      <4>1. /\ accountHas'[token].active = accountHas[token].active
            /\ accountHas'[token].spaces = accountHas[token].spaces
        BY <1>4, <2>3, <2>5, <3>1, <3>5 DEF Account
      <4>2. signedIn.active = accountHas[token].active /\ SpaceIs
        BY <2>2, <2>3, <3>5 DEF AccountIs, ChangesUser, ChangesSpaces
      <4>3. SpaceIs'
        BY <1>1, <4>1, <4>2 DEF SpaceIs, LoadIs
      <4>4. b.kind = "prefs"
        BY <1>3, <3>5
      <4>5. AccountIs'
        BY <1>1, <2>2, <2>3, <4>1, <4>2, <4>3, <4>4 DEF AccountIs
      <4> QED BY <2>2, <3>2, <4>5 DEF InStep
    <3> QED BY <1>1, <3>3, <3>4, <3>5
  <2> QED BY <2>4, <2>5
<1> QED BY <1>6, <1>7 DEF SessionIInv

LEMMA ListSpacesKeeps ==
  ASSUME SessionIInv, NEW i \in DOMAIN listings, ListSpaces(i)
  PROVE  SessionIInv'
<1>0. SessionTyped /\ (~apart => InStep)
  BY DEF SessionIInv
<1>1. UNCHANGED <<accountHas, token, signedIn, activeSpace, look, asking, apart, sessionOps>> /\ listings[i].answer = "none"
  BY DEF ListSpaces
<1>2. Len(listings) \in Nat /\ DOMAIN listings = 1..Len(listings) /\ listings[i] \in SpacesLoad
  BY <1>0, LenProperties, ElementOfSeq DEF SessionTyped
<1> DEFINE l == listings[i]
<1>3. PICK m \in SpacesLoad :
        /\ listings' = [listings EXCEPT ![i] = m] /\ m.by = l.by /\ m.user = l.user
        /\ IF l.by = Nobody THEN m.answer = "refused"
           ELSE l.by \in People /\ m.answer = "done" /\ m.got = accountHas[l.by].spaces
  <2>1. CASE l.by = Nobody
    <3> DEFINE m == [l EXCEPT !.answer = "refused"]
    <3>1. m \in SpacesLoad /\ m.by = l.by /\ m.user = l.user /\ m.answer = "refused"
      BY <1>2 DEF SpacesLoad
    <3>2. listings' = [listings EXCEPT ![i].answer = "refused"]
      BY <2>1 DEF ListSpaces
    <3>3. listings' = [listings EXCEPT ![i] = m]
      BY <3>2
    <3> QED BY <2>1, <3>1, <3>3
  <2>2. CASE l.by # Nobody
    <3>1. l.by \in People /\ accountHas[l.by].spaces \in SUBSET Spaces
      BY <1>0, <1>2, <2>2 DEF SpacesLoad, SessionTyped, Account
    <3> DEFINE m == [l EXCEPT !.answer = "done", !.got = accountHas[l.by].spaces]
    <3>2. /\ m \in SpacesLoad /\ m.by = l.by /\ m.user = l.user /\ m.answer = "done"
          /\ m.got = accountHas[l.by].spaces
      BY <1>2, <3>1 DEF SpacesLoad
    <3>3. listings' = [listings EXCEPT ![i].answer = "done", ![i].got = accountHas[l.by].spaces]
      BY <2>2 DEF ListSpaces
    <3>4. listings' = [listings EXCEPT ![i] = m]
      BY <1>2, <3>3 DEF SpacesLoad
    <3> QED BY <2>2, <3>1, <3>2, <3>4
  <2> QED BY <2>1, <2>2
<1>4. listings \in [1..Len(listings) -> SpacesLoad]
  BY <1>0, LenProperties DEF SessionTyped
<1>5. listings' \in [1..Len(listings) -> SpacesLoad]
  BY <1>2, <1>3, <1>4
<1>6. listings' \in Seq(SpacesLoad) /\ Len(listings') = Len(listings)
  <2>1. listings' \in Seq(SpacesLoad)
    BY <1>2, <1>5, SeqDef
  <2>2. DOMAIN listings' = 1..Len(listings')
    BY <2>1, LenProperties
  <2>3. DOMAIN listings' = 1..Len(listings)
    BY <1>5
  <2>4. Len(listings') \in Nat /\ Len(listings) \in Nat /\ 1..Len(listings') = 1..Len(listings)
    BY <1>2, <2>1, <2>2, <2>3, LenProperties
  <2> QED BY <2>1, <2>4, SameBound
<1>7. SessionTyped'
  BY <1>0, <1>1, <1>6 DEF SessionTyped, AsksFor
<1>8. ASSUME ~apart', signedIn # Nobody, \A a \in asking : ~ChangesSpaces(a) PROVE SpaceIs'
  <2>1. AccountIs /\ SpaceIs
    BY <1>0, <1>1, <1>8 DEF InStep, AccountIs
  <2>2. listings # <<>> /\ listings' # <<>> /\ Len(listings) \in DOMAIN listings
    BY <1>2, <1>6, EmptySeq
  <2>3. LoadIs(listings[Len(listings)])
    BY <2>1, <2>2 DEF SpaceIs
  <2>4. LoadIs(listings'[Len(listings)])
    <3>1. CASE Len(listings) = i
      <4>1. listings'[Len(listings)] = m
        BY <1>3, <2>2, <3>1
      <4> QED BY <1>3, <2>1, <2>3, <3>1, <4>1, SpacesAre DEF LoadIs, AccountIs
    <3>2. CASE Len(listings) # i
      BY <1>3, <2>2, <2>3, <3>2
    <3> QED BY <3>1, <3>2
  <2> QED BY <1>1, <1>6, <2>2, <2>4 DEF SpaceIs, LoadIs
<1>9. ASSUME ~apart' PROVE InStep'
  <2>1. InStep
    BY <1>0, <1>1, <1>9
  <2>2. \A a \in asking' : AskIs(a)'
    BY <1>1, <2>1 DEF InStep, AskIs, ToSessionUser
  <2>3. signedIn # Nobody => AccountIs'
    BY <1>1, <1>8, <1>9, <2>1 DEF InStep, AccountIs
  <2> QED BY <1>1, <2>1, <2>2, <2>3 DEF InStep
<1> QED BY <1>7, <1>9 DEF SessionIInv

-----------------------------------------------------------------------------
(* Answers, in the tab *)

\* setUser, and the loads that are asked for with it: the new user's comes last.
LEMMA UserSet ==
  ASSUME SessionTyped, NEW u \in User \cup {Nobody}, NEW closures, token' \in People \cup {Nobody},
         closures = <<>> \/ \E v \in User : closures = <<Listing(v)>>, SetUser(u, closures)
  PROVE  /\ signedIn' = u /\ look' \in Looks /\ activeSpace' \in Spaces \cup {Nobody}
         /\ listings' \in Seq(SpacesLoad)
         /\ u # Nobody => /\ look' = u.prefs /\ listings' # <<>>
                          /\ listings'[Len(listings')] = Listing(u)
<1>1. signedIn' = u /\ look' \in Looks /\ activeSpace' \in Spaces \cup {Nobody} /\ (u # Nobody => look' = u.prefs)
  BY DEF SetUser, SessionTyped, User
<1>2. \A v \in User : Listing(v) \in SpacesLoad
  BY DEF Listing, SpacesLoad
<1>3. closures \in Seq(SpacesLoad)
  <2>1. CASE closures = <<>>
    BY <2>1, EmptySeq
  <2>2. CASE \E v \in User : closures = <<Listing(v)>>
    <3>1. PICK v \in User : closures = <<Listing(v)>>
      BY <2>2
    <3>2. PICK l \in SpacesLoad : l = Listing(v)
      BY <1>2
    <3>3. <<l>> \in Seq(SpacesLoad)
      OBVIOUS
    <3> QED BY <3>1, <3>2, <3>3
  <2> QED BY <2>1, <2>2
<1>4. listings \in Seq(SpacesLoad)
  BY DEF SessionTyped
<1>5. CASE u = Nobody
  <2>1. listings' = listings \o (closures \o <<>>)
    BY <1>5 DEF SetUser, LoadOrder
  <2>2. closures \o <<>> \in Seq(SpacesLoad)
    BY <1>3, ConcatEmptySeq
  <2> QED BY <1>1, <1>4, <1>5, <2>1, <2>2, ConcatProperties
<1>6. CASE u # Nobody
  <2>1. PICK l \in SpacesLoad : l = Listing(u)
    BY <1>2, <1>6
  <2>2. listings' = listings \o (closures \o <<l>>)
    BY <1>6, <2>1 DEF SetUser, LoadOrder
  <2>3. <<l>> \in Seq(SpacesLoad) /\ Len(<<l>>) = 1 /\ <<l>>[1] = l
    OBVIOUS
  <2> DEFINE more == closures \o <<l>>
  <2>4. /\ more \in Seq(SpacesLoad) /\ Len(more) = Len(closures) + 1 /\ Len(closures) \in Nat
        /\ more[Len(closures) + 1] = l
    <3>1. Len(closures) \in Nat
      BY <1>3, LenProperties
    <3>2. /\ more \in Seq(SpacesLoad) /\ Len(more) = Len(closures) + 1
          /\ \A k \in 1..(Len(closures) + 1) :
               more[k] = IF k <= Len(closures) THEN closures[k] ELSE <<l>>[k - Len(closures)]
      BY <1>3, <2>3, ConcatProperties
    <3>3. more[Len(closures) + 1] = <<l>>[(Len(closures) + 1) - Len(closures)]
      BY <3>1, <3>2
    <3>4. (Len(closures) + 1) - Len(closures) = 1
      BY <3>1
    <3> QED BY <2>3, <3>1, <3>2, <3>3, <3>4
  <2> HIDE DEF more
  <2>5. /\ listings \o more \in Seq(SpacesLoad) /\ Len(listings \o more) = Len(listings) + Len(more)
        /\ \A k \in 1..(Len(listings) + Len(more)) :
             (listings \o more)[k] = IF k <= Len(listings) THEN listings[k] ELSE more[k - Len(listings)]
    BY <1>4, <2>4, ConcatProperties
  <2>6. Len(listings) \in Nat
    BY <1>4, LenProperties
  <2>7. listings' = listings \o more
    BY <2>2 DEF more
  <2> DEFINE n == Len(closures) + 1
  <2>8. n \in Nat /\ n >= 1 /\ Len(more) = n /\ more[n] = l
    BY <2>4
  <2> HIDE DEF n
  <2>9. Len(listings') = Len(listings) + n /\ listings'[Len(listings) + n] = more[(Len(listings) + n) - Len(listings)]
    BY <2>5, <2>6, <2>7, <2>8
  <2>10. (Len(listings) + n) - Len(listings) = n /\ Len(listings) + n # 0
    BY <2>6, <2>8
  <2>11. listings'[Len(listings')] = l /\ listings' # <<>>
    BY <2>8, <2>9, <2>10, EmptySeq
  <2> QED BY <1>1, <1>6, <2>1, <2>5, <2>7, <2>11
<1> QED BY <1>5, <1>6

\* After setUser of a user as its account has it: what is still to come is the load of its
\* workspaces.
LEMMA UserShown ==
  ASSUME SessionTyped, NEW u \in User \cup {Nobody}, NEW closures, token' \in People \cup {Nobody},
         closures = <<>> \/ \E v \in User : closures = <<Listing(v)>>, SetUser(u, closures),
         accountHas' = accountHas, asking' = {},
         u # Nobody => /\ token' = u.who /\ u.prefs = accountHas[u.who].prefs
                       /\ u.active = accountHas[u.who].active
  PROVE  InStep'
<1>1. /\ signedIn' = u /\ (u # Nobody => look' = u.prefs /\ listings' # <<>> /\ listings'[Len(listings')] = Listing(u))
  BY UserSet
<1>2. ASSUME u # Nobody PROVE AccountIs'
  <2>1. u \in User /\ token' = u.who /\ token' \in People
    BY <1>2 DEF User
  <2>2. SpaceIs'
    BY <1>1, <1>2, <2>1 DEF SpaceIs, LoadIs, Listing
  <2> QED BY <1>1, <1>2, <2>1, <2>2 DEF AccountIs
<1> QED BY <1>1, <1>2 DEF InStep

LEMMA SessionAnsweredKeeps ==
  ASSUME SessionIInv, NEW a \in asking, SessionAnswered(a)
  PROVE  SessionIInv'
<1>0. SessionTyped /\ (~apart => InStep) /\ a \in SessionAsk
  BY DEF SessionIInv, SessionTyped
<1>1. a.kind = "session" /\ asking' = asking \ {a} /\ UNCHANGED <<accountHas, apart>>
  BY DEF SessionAnswered
<1>2. AfterSwitch(a) = <<>> \/ \E v \in User : AfterSwitch(a) = <<Listing(v)>>
  BY <1>0 DEF AfterSwitch, SessionAsk
<1>3. PICK u \in User \cup {Nobody} :
        /\ SetUser(u, AfterSwitch(a)) /\ token' \in People \cup {Nobody} /\ sessionOps' \in 0..MaxSessionOps
        /\ u # Nobody => a.answer = "done" /\ u = a.got /\ token' = token
  <2>1. CASE a.answer = "done" /\ UNCHANGED <<token, sessionOps>> /\ SetUser(a.got, AfterSwitch(a))
    BY <1>0, <2>1 DEF SessionAsk, SessionTyped
  <2>2. CASE a.answer = "refused" /\ token' = Nobody /\ SetUser(Nobody, AfterSwitch(a)) /\ UNCHANGED sessionOps
    BY <1>0, <2>2 DEF SessionTyped
  <2>3. CASE SessionOp /\ UNCHANGED token /\ SetUser(Nobody, AfterSwitch(a))
    BY <1>0, <2>3, SpacesAre DEF SessionTyped, SessionOp
  <2> QED BY <2>1, <2>2, <2>3 DEF SessionAnswered
<1>4. SessionTyped'
  <2>1. /\ signedIn' = u /\ look' \in Looks /\ activeSpace' \in Spaces \cup {Nobody} /\ listings' \in Seq(SpacesLoad)
    BY <1>0, <1>2, <1>3, UserSet
  <2> QED BY <1>0, <1>1, <1>3, <2>1 DEF SessionTyped, AsksFor
<1>5. ASSUME ~apart' PROVE InStep'
  <2>1. InStep /\ asking' = {}
    BY <1>0, <1>1, <1>5 DEF InStep
  <2>2. AskIs(a)
    BY <2>1 DEF InStep
  <2>3. ASSUME u # Nobody
        PROVE  token' = u.who /\ u.prefs = accountHas[u.who].prefs /\ u.active = accountHas[u.who].active
    <3>1. a.by = token /\ u = ToSessionUser(a.by)
      BY <1>1, <1>3, <2>2, <2>3 DEF AskIs
    <3> QED BY <1>3, <2>3, <3>1 DEF ToSessionUser
  <2> QED BY <1>0, <1>1, <1>2, <1>3, <2>1, <2>3, UserShown
<1> QED BY <1>4, <1>5 DEF SessionIInv

LEMMA LoginAnsweredKeeps ==
  ASSUME SessionIInv, NEW a \in asking, LoginAnswered(a)
  PROVE  SessionIInv'
<1>0. SessionTyped /\ (~apart => InStep) /\ a \in SessionAsk
  BY DEF SessionIInv, SessionTyped
<1>1. a.kind = "login" /\ asking' = asking \ {a} /\ UNCHANGED <<accountHas, apart, sessionOps>>
  BY DEF LoginAnswered
<1>2. CASE a.answer = "done" /\ token' = a.by /\ SetUser(a.got, <<>>)
  <2>1. a.got \in User \cup {Nobody} /\ token' \in People \cup {Nobody}
    BY <1>0, <1>2 DEF SessionAsk
  <2>2. SessionTyped'
    <3>1. /\ signedIn' = a.got /\ look' \in Looks /\ activeSpace' \in Spaces \cup {Nobody} /\ listings' \in Seq(SpacesLoad)
      BY <1>0, <1>2, <2>1, UserSet
    <3> QED BY <1>0, <1>1, <2>1, <3>1 DEF SessionTyped, AsksFor
  <2>3. ASSUME ~apart' PROVE InStep'
    <3>1. InStep /\ asking' = {}
      BY <1>0, <1>1, <2>3 DEF InStep
    <3>2. a.got = ToSessionUser(a.by)
      BY <1>1, <1>2, <3>1 DEF InStep, AskIs
    <3>3. token' = a.got.who /\ a.got.prefs = accountHas[a.got.who].prefs /\ a.got.active = accountHas[a.got.who].active
      BY <1>2, <3>2 DEF ToSessionUser
    <3> QED BY <1>0, <1>1, <1>2, <2>1, <3>1, <3>3, UserShown
  <2> QED BY <2>2, <2>3 DEF SessionIInv
<1>3. CASE UNCHANGED <<token, signedIn, look, activeSpace, listings>>
  <2>1. SessionTyped'
    BY <1>0, <1>1, <1>3 DEF SessionTyped, AsksFor
  <2>2. ASSUME ~apart' PROVE InStep'
    <3>1. InStep /\ asking' = {} /\ signedIn = Nobody
      BY <1>0, <1>1, <2>2 DEF InStep, AskIs
    <3> QED BY <1>3, <3>1 DEF InStep
  <2> QED BY <2>1, <2>2 DEF SessionIInv
<1> QED BY <1>2, <1>3 DEF LoginAnswered

LEMMA LogoutAnsweredKeeps ==
  ASSUME SessionIInv, NEW a \in asking, LogoutAnswered(a)
  PROVE  SessionIInv'
<1>0. SessionTyped /\ (~apart => InStep)
  BY DEF SessionIInv
<1>1. /\ asking' = asking \ {a} /\ token' \in {token, Nobody} /\ SetUser(Nobody, <<>>)
      /\ UNCHANGED <<accountHas, apart, sessionOps>>
  BY DEF LogoutAnswered
<1>2. token' \in People \cup {Nobody}
  BY <1>0, <1>1 DEF SessionTyped
<1>3. /\ signedIn' = Nobody /\ look' \in Looks /\ activeSpace' \in Spaces \cup {Nobody} /\ listings' \in Seq(SpacesLoad)
  BY <1>0, <1>1, <1>2, UserSet
<1>4. SessionTyped'
  BY <1>0, <1>1, <1>2, <1>3 DEF SessionTyped, AsksFor
<1>5. ASSUME ~apart' PROVE InStep'
  <2>1. InStep /\ asking' = {}
    BY <1>0, <1>1, <1>5 DEF InStep
  <2> QED BY <1>3, <2>1 DEF InStep
<1> QED BY <1>4, <1>5 DEF SessionIInv

LEMMA SwitchAnsweredKeeps ==
  ASSUME SessionIInv, NEW a \in asking, SwitchAnswered(a)
  PROVE  SessionIInv'
<1>0. SessionTyped /\ (~apart => InStep) /\ a \in SessionAsk
  BY DEF SessionIInv, SessionTyped
<1>1. /\ a.kind = "switch" /\ a.answer = "done"
      /\ UNCHANGED <<accountHas, token, apart, sessionOps, signedIn, look, activeSpace, listings>>
      /\ asking' = (asking \ {a}) \cup {[Ask("session", token, Nobody) EXCEPT !.user = a.user]}
  BY DEF SwitchAnswered, Done
<1>2. PICK b \in SessionAsk :
        /\ b = [Ask("session", token, Nobody) EXCEPT !.user = a.user]
        /\ b.kind = "session" /\ b.by = token /\ b.answer = "none"
  <2> DEFINE c == [n |-> sessionOps, kind |-> "session", by |-> token, arg |-> Nobody, user |-> a.user,
                   previous |-> look, answer |-> "none", got |-> Nobody]
  <2>1. [Ask("session", token, Nobody) EXCEPT !.user = a.user] = c
    BY DEF Ask
  <2>2. c \in SessionAsk /\ c.kind = "session" /\ c.by = token /\ c.answer = "none"
    BY <1>0 DEF SessionAsk, SessionTyped, AskKinds
  <2> QED BY <2>1, <2>2
<1>3. SessionTyped'
  BY <1>0, <1>1, <1>2 DEF SessionTyped, AsksFor
<1>4. ASSUME ~apart' PROVE InStep'
  <2>1. InStep
    BY <1>0, <1>1, <1>4
  <2>2. asking = {a} /\ asking' = {b}
    BY <1>1, <1>2, <2>1 DEF InStep
  <2>3. signedIn # Nobody /\ AccountIs
    BY <1>1, <2>1 DEF InStep, AskIs
  <2>4. AskIs(b)'
    BY <1>1, <1>2 DEF AskIs
  <2>5. look = accountHas[token].prefs
    BY <1>1, <2>2, <2>3 DEF AccountIs
  <2>6. AccountIs'
    BY <1>1, <1>2, <2>2, <2>3, <2>5 DEF AccountIs, ChangesUser, ChangesSpaces
  <2> QED BY <2>2, <2>4, <2>6 DEF InStep
<1> QED BY <1>3, <1>4 DEF SessionIInv

LEMMA CreateAnsweredKeeps ==
  ASSUME SessionIInv, NEW a \in asking, CreateAnswered(a)
  PROVE  SessionIInv'
<1>0. SessionTyped /\ (~apart => InStep) /\ a \in SessionAsk /\ AsksFor(a)
  BY DEF SessionIInv, SessionTyped
<1>1. /\ a.kind = "create" /\ asking' = asking \ {a} /\ listings' = Append(listings, Listing(a.user))
      /\ UNCHANGED <<accountHas, token, apart, sessionOps, signedIn, look, activeSpace>>
  BY DEF CreateAnswered, Done
<1>2. PICK l \in SpacesLoad : l = Listing(a.user)
  BY <1>0, <1>1 DEF Listing, SpacesLoad, AsksFor, SessionTyped
<1>3. listings' \in Seq(SpacesLoad) /\ listings' # <<>> /\ listings'[Len(listings')] = l
  <2>1. listings' = Append(listings, l) /\ listings \in Seq(SpacesLoad)
    BY <1>0, <1>1, <1>2 DEF SessionTyped
  <2> QED BY <2>1, AppendProperties
<1>4. SessionTyped'
  BY <1>0, <1>1, <1>3 DEF SessionTyped, AsksFor
<1>5. ASSUME ~apart' PROVE InStep'
  <2>1. InStep /\ asking = {a} /\ asking' = {}
    BY <1>0, <1>1, <1>5 DEF InStep
  <2>2. signedIn # Nobody /\ a.user = signedIn /\ AccountIs
    BY <1>1, <2>1 DEF InStep, AskIs
  <2>3. look = accountHas[token].prefs /\ signedIn.active = accountHas[token].active
    BY <1>1, <2>1, <2>2 DEF AccountIs, ChangesUser
  <2>4. l.by = token /\ l.user = signedIn /\ l.answer = "none"
    BY <1>1, <1>2, <2>2 DEF Listing
  <2>5. SpaceIs'
    BY <1>1, <1>3, <2>3, <2>4 DEF SpaceIs, LoadIs
  <2>6. AccountIs'
    BY <1>1, <2>2, <2>3, <2>5 DEF AccountIs
  <2> QED BY <2>1, <2>6 DEF InStep
<1> QED BY <1>4, <1>5 DEF SessionIInv

LEMMA PrefsAnsweredKeeps ==
  ASSUME SessionIInv, NEW a \in asking, PrefsAnswered(a)
  PROVE  SessionIInv'
<1>0. SessionTyped /\ (~apart => InStep) /\ a \in SessionAsk /\ AsksFor(a)
  BY DEF SessionIInv, SessionTyped
<1>1. /\ a.kind = "prefs" /\ a.answer = "done" /\ asking' = asking \ {a}
      /\ UNCHANGED <<accountHas, token, apart, sessionOps>>
  BY DEF PrefsAnswered, Done
<1>2. CASE signedIn = Nobody
  <2>1. UNCHANGED <<signedIn, look, activeSpace, listings>>
    BY <1>2 DEF PrefsAnswered
  <2>2. SessionTyped'
    BY <1>0, <1>1, <2>1 DEF SessionTyped, AsksFor
  <2>3. ASSUME ~apart' PROVE InStep'
    BY <1>0, <1>1, <1>2, <2>1, <2>3 DEF InStep
  <2> QED BY <2>2, <2>3 DEF SessionIInv
<1>3. CASE signedIn # Nobody
  <2>1. PICK u \in User : /\ u = [signedIn EXCEPT !.prefs = a.arg]
                          /\ u.who = signedIn.who /\ u.active = signedIn.active /\ u.prefs = a.arg
    <3>1. signedIn \in User /\ a.arg \in Looks
      BY <1>0, <1>1, <1>3 DEF SessionTyped, AsksFor
    <3> DEFINE u == [signedIn EXCEPT !.prefs = a.arg]
    <3>2. u \in User /\ u.who = signedIn.who /\ u.active = signedIn.active /\ u.prefs = a.arg
      BY <3>1 DEF User
    <3> QED BY <3>2
  <2>2. SetUser(u, <<>>) /\ token' \in People \cup {Nobody}
    BY <1>0, <1>1, <1>3, <2>1 DEF PrefsAnswered, SessionTyped
  <2>3. SessionTyped'
    <3>1. /\ signedIn' = u /\ look' \in Looks /\ activeSpace' \in Spaces \cup {Nobody} /\ listings' \in Seq(SpacesLoad)
      BY <1>0, <2>2, UserSet
    <3> QED BY <1>0, <1>1, <2>2, <3>1 DEF SessionTyped, AsksFor
  <2>4. ASSUME ~apart' PROVE InStep'
    <3>1. InStep /\ asking = {a} /\ asking' = {}
      BY <1>0, <1>1, <2>4 DEF InStep
    <3>2. AskIs(a) /\ AccountIs
      BY <1>3, <3>1 DEF InStep
    <3>3. token = signedIn.who /\ accountHas[token].prefs = a.arg /\ signedIn.active = accountHas[token].active
      BY <1>1, <3>1, <3>2 DEF AskIs, AccountIs, ChangesUser
    <3>4. token' = u.who /\ u.prefs = accountHas[u.who].prefs /\ u.active = accountHas[u.who].active
      BY <1>1, <2>1, <3>3
    <3> QED BY <1>0, <1>1, <2>2, <3>1, <3>4, UserShown
  <2> QED BY <2>3, <2>4 DEF SessionIInv
<1> QED BY <1>2, <1>3

LEMMA OpFailsKeeps ==
  ASSUME SessionIInv, NEW a \in asking, OpFails(a)
  PROVE  SessionIInv'
<1>0. SessionTyped /\ (~apart => InStep) /\ a \in SessionAsk
  BY DEF SessionIInv, SessionTyped
<1>1. /\ a.kind \in {"switch", "create", "prefs"} /\ asking' = asking \ {a}
      /\ look' = (IF a.kind = "prefs" THEN a.previous ELSE look)
      /\ UNCHANGED <<accountHas, token, signedIn, activeSpace, listings>>
  BY DEF OpFails, LookAfterFailure
<1>2. sessionOps' \in 0..MaxSessionOps /\ apart' \in BOOLEAN /\ (~apart' => ~apart /\ a.answer # "done")
  <2>1. CASE a.answer = "refused" /\ UNCHANGED <<apart, sessionOps>>
    BY <1>0, <2>1 DEF SessionTyped
  <2>2. CASE SessionOp /\ apart' = (apart \/ a.answer = "done")
    <3>1. sessionOps' \in 0..MaxSessionOps
      BY <1>0, <2>2, SpacesAre DEF SessionTyped, SessionOp
    <3>2. apart \in BOOLEAN
      BY <1>0 DEF SessionTyped
    <3> QED BY <2>2, <3>1, <3>2
  <2> QED BY <2>1, <2>2 DEF OpFails
<1>3. look' \in Looks
  BY <1>0, <1>1 DEF SessionTyped, SessionAsk
<1>4. SessionTyped'
  BY <1>0, <1>1, <1>2, <1>3 DEF SessionTyped, AsksFor
<1>5. ASSUME ~apart' PROVE InStep'
  <2>1. InStep /\ asking = {a} /\ asking' = {} /\ a.answer # "done"
    BY <1>0, <1>1, <1>2, <1>5 DEF InStep
  <2>2. AskIs(a) /\ AccountIs
    BY <1>1, <2>1 DEF InStep, AskIs
  <2>3. look' = accountHas[token].prefs
    BY <1>1, <2>1, <2>2 DEF AskIs, AccountIs
  <2>4. signedIn.active = accountHas[token].active /\ SpaceIs
    BY <1>1, <2>1, <2>2 DEF AccountIs, ChangesUser, ChangesSpaces
  <2>5. AccountIs'
    BY <1>1, <2>2, <2>3, <2>4 DEF AccountIs, SpaceIs, LoadIs
  <2> QED BY <2>1, <2>5 DEF InStep
<1> QED BY <1>4, <1>5 DEF SessionIInv

\* A load of the workspaces is taken off the line; without it a shorter one is left.
LEMMA LoadTaken ==
  ASSUME SessionTyped, NEW i \in DOMAIN listings, listings' = RemoveAt(listings, i)
  PROVE  /\ listings[i] \in SpacesLoad /\ listings' \in Seq(SpacesLoad)
         /\ i = 1 /\ Len(listings) # 1 => listings' # <<>> /\ listings'[Len(listings')] = listings[Len(listings)]
         /\ Len(listings) = 1 => i = 1 /\ listings' = <<>>
         /\ listings # <<>>
<1>1. Len(listings) \in Nat /\ DOMAIN listings = 1..Len(listings) /\ listings \in Seq(SpacesLoad)
  BY LenProperties DEF SessionTyped
<1>2. listings[i] \in SpacesLoad
  BY <1>1, ElementOfSeq
<1>3. /\ listings' \in Seq(SpacesLoad) /\ Len(listings') = Len(listings) - 1
      /\ \A k \in 1..(Len(listings) - 1) : listings'[k] = listings[IF k < i THEN k ELSE k + 1]
  BY <1>1, OneLeftOut
<1>4. ASSUME i = 1, Len(listings) # 1
      PROVE  listings' # <<>> /\ listings'[Len(listings')] = listings[Len(listings)]
  <2> DEFINE n == Len(listings)
  <2>1. n \in Nat /\ n >= 2
    BY <1>1, <1>4
  <2> HIDE DEF n
  <2>2. n - 1 \in 1..(n - 1) /\ ~(n - 1 < 1) /\ (n - 1) + 1 = n /\ n - 1 # 0
    BY <2>1
  <2>3. listings'[n - 1] = listings[n] /\ Len(listings') = n - 1
    BY <1>3, <1>4, <2>2 DEF n
  <2> QED BY <2>2, <2>3, EmptySeq DEF n
<1>5. ASSUME Len(listings) = 1 PROVE i = 1 /\ listings' = <<>>
  BY <1>1, <1>3, <1>5, EmptySeq
<1>6. listings # <<>>
  BY <1>1, EmptySeq
<1> QED BY <1>2, <1>3, <1>4, <1>5, <1>6

LEMMA ListingArrivesKeeps ==
  ASSUME SessionIInv, NEW i \in DOMAIN listings, ListingArrives(i)
  PROVE  SessionIInv'
<1>0. SessionTyped /\ (~apart => InStep)
  BY DEF SessionIInv
<1>1. /\ listings[i].answer = "done" /\ activeSpace' = Chosen(listings[i].user.active, listings[i].got)
      /\ listings' = RemoveAt(listings, i) /\ apart' = (apart \/ i # 1)
      /\ UNCHANGED <<accountHas, token, signedIn, look, asking, sessionOps>>
  BY DEF ListingArrives
<1>2. /\ listings[i] \in SpacesLoad /\ listings' \in Seq(SpacesLoad)
      /\ i = 1 /\ Len(listings) # 1 => listings' # <<>> /\ listings'[Len(listings')] = listings[Len(listings)]
      /\ Len(listings) = 1 => i = 1 /\ listings' = <<>>
      /\ listings # <<>>
  BY <1>0, <1>1, LoadTaken
<1>3. activeSpace' \in Spaces \cup {Nobody}
  BY <1>1, <1>2, ChosenTyped DEF SpacesLoad
<1>4. apart' \in BOOLEAN /\ (~apart' => ~apart /\ i = 1)
  BY <1>0, <1>1 DEF SessionTyped
<1>5. SessionTyped'
  BY <1>0, <1>1, <1>2, <1>3, <1>4 DEF SessionTyped, AsksFor
<1>6. ASSUME ~apart' PROVE InStep'
  <2>1. InStep /\ i = 1
    BY <1>0, <1>4, <1>6
  <2>2. \A a \in asking' : AskIs(a)'
    BY <1>1, <2>1 DEF InStep, AskIs, ToSessionUser
  <2>3. ASSUME SpaceIs PROVE SpaceIs'
    <3>1. LoadIs(listings[Len(listings)])
      BY <1>2, <2>3 DEF SpaceIs
    <3>2. CASE Len(listings) = 1
      <4>1. listings[1].user.active = accountHas[token].active /\ listings[1].got = accountHas[token].spaces
        BY <1>1, <2>1, <3>1, <3>2 DEF LoadIs
      <4> QED BY <1>1, <1>2, <2>1, <3>2, <4>1 DEF SpaceIs
    <3>3. CASE Len(listings) # 1
      BY <1>1, <1>2, <2>1, <3>1, <3>3 DEF SpaceIs, LoadIs
    <3> QED BY <3>2, <3>3
  <2>4. signedIn # Nobody => AccountIs'
    BY <1>1, <2>1, <2>3 DEF InStep, AccountIs
  <2> QED BY <1>1, <2>1, <2>2, <2>4 DEF InStep
<1> QED BY <1>5, <1>6 DEF SessionIInv

LEMMA ListingFailsKeeps ==
  ASSUME SessionIInv, NEW i \in DOMAIN listings, ListingFails(i)
  PROVE  SessionIInv'
<1>0. SessionTyped
  BY DEF SessionIInv
<1>1. /\ listings' = RemoveAt(listings, i) /\ apart' = TRUE
      /\ UNCHANGED <<accountHas, token, signedIn, activeSpace, look, asking>>
  BY DEF ListingFails
<1>2. listings' \in Seq(SpacesLoad)
  BY <1>0, <1>1, LoadTaken
<1>3. sessionOps' \in 0..MaxSessionOps
  BY <1>0, SpacesAre DEF ListingFails, SessionOp, SessionTyped
<1>4. SessionTyped'
  BY <1>0, <1>1, <1>2, <1>3 DEF SessionTyped, AsksFor
<1> QED BY <1>1, <1>4 DEF SessionIInv

-----------------------------------------------------------------------------
(* The person at the tab *)

\* What is asked for while something is under way sets the session apart.
LEMMA AskedKeeps ==
  ASSUME SessionIInv, NEW b \in SessionAsk, AskFor(b), AsksFor(b),
         UNCHANGED <<accountHas, token, signedIn, activeSpace, listings>>, look' \in Looks,
         b.answer = "none", b.kind # "session",
         look' = look \/ b.kind = "prefs",
         b.kind = "login" => signedIn = Nobody /\ b.by \in People,
         b.kind # "login" => b.by = token /\ signedIn # Nobody /\ b.user = signedIn,
         b.previous = look
  PROVE  SessionIInv'
<1>0. SessionTyped /\ (~apart => InStep)
  BY DEF SessionIInv
<1>1. asking' = asking \cup {b} /\ apart' = (apart \/ asking # {}) /\ sessionOps' \in 0..MaxSessionOps
  BY <1>0, SpacesAre DEF AskFor, SessionOp, SessionTyped
<1>2. apart' \in BOOLEAN /\ (~apart' => ~apart /\ asking = {})
  BY <1>0, <1>1 DEF SessionTyped
<1>3. SessionTyped'
  BY <1>0, <1>1, <1>2 DEF SessionTyped, AsksFor
<1>4. ASSUME ~apart' PROVE InStep'
  <2>1. InStep /\ asking = {} /\ asking' = {b}
    BY <1>0, <1>1, <1>2, <1>4
  <2>2. signedIn # Nobody => AccountIs
    BY <2>1 DEF InStep
  <2>3. signedIn # Nobody => look = accountHas[token].prefs /\ signedIn.active = accountHas[token].active /\ SpaceIs
    BY <2>1, <2>2 DEF AccountIs
  <2>4. AskIs(b)'
    BY <2>3 DEF AskIs
  <2>5. SpaceIs => SpaceIs'
    BY DEF SpaceIs, LoadIs
  <2>6. signedIn # Nobody => AccountIs'
    BY <2>1, <2>2, <2>3, <2>5 DEF AccountIs
  <2> QED BY <2>1, <2>4, <2>6 DEF InStep
<1> QED BY <1>3, <1>4 DEF SessionIInv

LEMMA AskIsTyped ==
  ASSUME SessionTyped, NEW kind \in AskKinds, NEW by \in People \cup {Nobody},
         NEW arg \in Spaces \cup Looks \cup {Nobody}
  PROVE  /\ Ask(kind, by, arg) \in SessionAsk /\ Ask(kind, by, arg).kind = kind /\ Ask(kind, by, arg).by = by
         /\ Ask(kind, by, arg).arg = arg /\ Ask(kind, by, arg).user = signedIn
         /\ Ask(kind, by, arg).previous = look /\ Ask(kind, by, arg).answer = "none"
BY DEF Ask, SessionAsk, SessionTyped

LEMMA LoginKeeps ==
  ASSUME SessionIInv, NEW p \in People, Login(p)
  PROVE  SessionIInv'
<1>1. /\ signedIn = Nobody /\ AskFor(Ask("login", p, Nobody))
      /\ UNCHANGED <<accountHas, token, signedIn, activeSpace, look, listings>>
  BY DEF Login
<1>2. PICK b \in SessionAsk : /\ b = Ask("login", p, Nobody) /\ b.kind = "login" /\ b.by = p
                              /\ b.previous = look /\ b.answer = "none"
  BY AskIsTyped DEF SessionIInv, AskKinds
<1>3. look' \in Looks
  BY <1>1 DEF SessionIInv, SessionTyped
<1> QED BY <1>1, <1>2, <1>3, AskedKeeps DEF AsksFor

LEMMA UserOpKeeps ==
  ASSUME SessionIInv, NEW kind \in {"switch", "create", "prefs", "logout"},
         NEW arg \in Spaces \cup Looks \cup {Nobody}, UserOp(kind, arg),
         kind \in {"switch", "create"} => arg \in Spaces, kind = "prefs" => arg \in Looks,
         look' \in Looks, look' = look \/ kind = "prefs"
  PROVE  SessionIInv'
<1>1. signedIn # Nobody /\ AskFor(Ask(kind, token, arg)) /\ UNCHANGED <<accountHas, token, signedIn, activeSpace, listings>>
  BY DEF UserOp
<1>2. signedIn \in User /\ token \in People \cup {Nobody} /\ SessionTyped
  BY <1>1 DEF SessionIInv, SessionTyped
<1>3. PICK b \in SessionAsk : /\ b = Ask(kind, token, arg) /\ b.kind = kind /\ b.by = token /\ b.arg = arg
                              /\ b.user = signedIn /\ b.previous = look /\ b.answer = "none"
  BY <1>2, AskIsTyped DEF AskKinds
<1> QED BY <1>1, <1>2, <1>3, AskedKeeps DEF AsksFor

LEMMA PersonKeeps ==
  ASSUME SessionIInv,
         \/ LogOut \/ \E s \in Spaces : SwitchSpace(s) \/ CreateSpace(s)
         \/ \E l \in Looks : ChooseLook(l)
  PROVE  SessionIInv'
<1>0. SessionTyped /\ (~apart => InStep) /\ look \in Looks
  BY DEF SessionIInv, SessionTyped
<1>1. CASE LogOut
  BY <1>0, <1>1, UserOpKeeps DEF LogOut
<1>2. CASE \E s \in Spaces : SwitchSpace(s) \/ CreateSpace(s)
  BY <1>0, <1>2, UserOpKeeps DEF SwitchSpace, CreateSpace
<1>3. CASE \E l \in Looks : ChooseLook(l)
  <2>1. PICK l \in Looks : ChooseLook(l)
    BY <1>3
  <2>2. CASE UserOp("prefs", l)
    BY <2>1, <2>2, UserOpKeeps DEF ChooseLook
  <2>3. CASE ~UserOp("prefs", l)
    <3>1. /\ look' = l /\ signedIn = Nobody /\ SessionOp
          /\ UNCHANGED <<accountHas, token, signedIn, activeSpace, asking, listings, apart>>
      BY <2>1, <2>3 DEF ChooseLook
    <3>2. sessionOps' \in 0..MaxSessionOps
      BY <1>0, <3>1, SpacesAre DEF SessionTyped, SessionOp
    <3>3. SessionTyped'
      BY <1>0, <3>1, <3>2 DEF SessionTyped, AsksFor
    <3>4. \A a \in asking : AskIs(a) => AskIs(a)'
      BY <3>1 DEF AskIs, ToSessionUser
    <3>5. ~apart' => InStep'
      BY <1>0, <3>1, <3>4 DEF InStep
    <3> QED BY <3>3, <3>5 DEF SessionIInv
  <2> QED BY <2>2, <2>3
<1> QED BY <1>1, <1>2, <1>3

LEMMA SessionStep == SessionIInv /\ [SessionNext]_sessionVars => SessionIInv'
<1> SUFFICES ASSUME SessionIInv, [SessionNext]_sessionVars PROVE SessionIInv'
  OBVIOUS
<1>1. CASE UNCHANGED sessionVars
  <2>1. SessionTyped'
    BY <1>1 DEF sessionVars, SessionIInv, SessionTyped, AsksFor
  <2>2. InStep => InStep'
    BY <1>1 DEF sessionVars, InStep, AskIs, ToSessionUser, AccountIs, SpaceIs, LoadIs
  <2> QED BY <1>1, <2>1, <2>2 DEF SessionIInv, sessionVars
<1>2. CASE SessionNext
  BY <1>2, ReadSessionKeeps, StoreOpKeeps, SessionAnsweredKeeps, LoginAnsweredKeeps, LogoutAnsweredKeeps,
     SwitchAnsweredKeeps, CreateAnsweredKeeps, PrefsAnsweredKeeps, OpFailsKeeps, ListSpacesKeeps,
     ListingArrivesKeeps, ListingFailsKeeps, LoginKeeps, PersonKeeps DEF SessionNext
<1> QED BY <1>1, <1>2

-----------------------------------------------------------------------------
(* The integrations page.  What is typed is typed in the drawer that is    *)
(* open, and a form that shows settings shows those of that drawer.        *)

CardList == [Apps -> [id : ConnectionIds, status : Statuses]]
CardLoad == [n : 1..MaxCardLoads, id : ConnectionIds, got : CardList \cup {NoConnection}]
WriteSent == [app : Apps, id : ConnectionIds, status : Statuses]
FormFields == [of : ConnectionIds, typedFor : SUBSET ConnectionIds]

CardsTyped ==
  /\ connection \in [RowIds -> Statuses] /\ latest \in [Apps -> ConnectionIds]
  /\ cards \in CardList /\ address \in [tab : Apps \cup {NoConnection}, id : ConnectionIds]
  /\ form \in [Apps -> FormFields]
  /\ cardLoads \subseteq CardLoad /\ \A x, y \in cardLoads : x.n = y.n => x = y
  /\ saves \subseteq WriteSent /\ IsFiniteSet(saves) /\ Cardinality(saves) <= MaxWrites
  /\ mixedUp \in BOOLEAN /\ pageOps \in 0..MaxPageOps

FormsAreTheDrawers == \A p \in Apps :
  /\ form[p].typedFor \subseteq {address.id}
  /\ address.id # NoConnection => form[p].of \in {address.id, NoConnection}

IntegrationsIInv == CardsTyped /\ FormsAreTheDrawers /\ SavesItsOwn

LEMMA IntegrationsHold == IntegrationsIInv => IntegrationsTypeOK /\ SavesItsOwn
<1> SUFFICES ASSUME IntegrationsIInv PROVE IntegrationsTypeOK
  BY DEF IntegrationsIInv
<1> USE DEF IntegrationsIInv, CardsTyped
<1>1. \A x \in cardLoads : x.n \in 1..MaxCardLoads
  BY DEF CardLoad
<1>2. Cardinality(cardLoads) <= MaxCardLoads
  BY <1>1, FewAsNumbered, IntegrationsAssumption
<1> QED BY <1>2 DEF IntegrationsTypeOK, CardList, FormFields

LEMMA IntegrationsInitInv == IntegrationsInit => IntegrationsIInv
<1> SUFFICES ASSUME IntegrationsInit PROVE IntegrationsIInv
  OBVIOUS
<1> USE DEF IntegrationsInit
<1>1. MaxPageOps \in Nat /\ MaxWrites \in Nat /\ MaxCardLoads \in Nat \ {0}
  BY IntegrationsAssumption
<1>2. cardLoads \subseteq CardLoad /\ \A x, y \in cardLoads : x.n = y.n => x = y
  BY <1>1 DEF CardLoad, ConnectionIds
<1>3. IsFiniteSet(saves) /\ Cardinality(saves) <= MaxWrites
  BY <1>1, FS_EmptySet
<1>4. form \in [Apps -> FormFields] /\ cards \in CardList
  BY DEF FormFields, CardList, Empty, NoCard, ConnectionIds, Statuses
<1>5. /\ connection \in [RowIds -> Statuses] /\ latest \in [Apps -> ConnectionIds]
      /\ address \in [tab : Apps \cup {NoConnection}, id : ConnectionIds]
  BY DEF ConnectionIds, Statuses, NoDrawer
<1>a. pageOps \in 0..MaxPageOps
  BY <1>1
<1>c. mixedUp = FALSE
  OBVIOUS
<1>b. saves \subseteq WriteSent
  OBVIOUS
<1>6. CardsTyped
  <2> HIDE DEF IntegrationsInit
  <2> QED BY <1>2, <1>3, <1>4, <1>5, <1>a, <1>b, <1>c DEF CardsTyped
<1>7. FormsAreTheDrawers
  BY DEF FormsAreTheDrawers, Empty, NoDrawer
<1> QED BY <1>6, <1>7 DEF IntegrationsIInv, SavesItsOwn

\* fillForms fills every form with settings of the drawer's connection, or of none.
LEMMA Filled ==
  ASSUME NEW list \in CardList, NEW id \in ConnectionIds
  PROVE  /\ Fill(list, id) \in [Apps -> FormFields]
         /\ \A p \in Apps : /\ Fill(list, id)[p].typedFor = {}
                            /\ id # NoConnection => Fill(list, id)[p].of \in {id, NoConnection}
BY DEF Fill, FillForms, CardList, FormFields, ConnectionIds

\* A request for the cards leaves the others as they are.
LEMMA CardsAsked ==
  ASSUME CardsTyped, Asked
  PROVE  cardLoads' \subseteq CardLoad /\ \A x, y \in cardLoads' : x.n = y.n => x = y
<1>1. PICK n \in 1..MaxCardLoads :
        /\ \A load \in cardLoads : load.n # n
        /\ cardLoads' = cardLoads \cup {[n |-> n, id |-> address.id, got |-> NoConnection]}
  BY DEF Asked
<1>2. [n |-> n, id |-> address.id, got |-> NoConnection] \in CardLoad
  BY <1>1 DEF CardLoad, CardsTyped
<1> QED BY <1>1, <1>2 DEF CardsTyped

LEMMA CardsReadKeep ==
  ASSUME IntegrationsIInv, NEW load \in cardLoads, CardsRead(load)
  PROVE  IntegrationsIInv'
<1>0. IntegrationsIInv /\ CardsTyped /\ load \in CardLoad
  BY DEF IntegrationsIInv, CardsTyped
<1>1. UNCHANGED <<connection, latest, cards, address, form, saves, mixedUp, pageOps>>
  BY DEF CardsRead
<1>2. PICK best \in [Apps -> ConnectionIds] :
        /\ \A p \in Apps : Best(p, best[p])
        /\ cardLoads' = (cardLoads \ {load}) \cup {[load EXCEPT !.got = [p \in Apps |-> CardFor(best[p])]]}
  BY DEF CardsRead
<1> DEFINE list == [p \in Apps |-> CardFor(best[p])]
<1>3. \A p \in Apps : CardFor(best[p]) \in [id : ConnectionIds, status : Statuses]
  BY <1>0, <1>2 DEF CardFor, NoCard, ConnectionIds, Statuses, CardsTyped
<1>4. list \in CardList
  BY <1>3 DEF CardList
<1> HIDE DEF list
<1>5. [load EXCEPT !.got = list] \in CardLoad /\ [load EXCEPT !.got = list].n = load.n
  BY <1>0, <1>4 DEF CardLoad
<1>6. cardLoads' = (cardLoads \ {load}) \cup {[load EXCEPT !.got = list]}
  BY <1>2 DEF list
<1>7. cardLoads' \subseteq CardLoad /\ \A x, y \in cardLoads' : x.n = y.n => x = y
  BY <1>0, <1>5, <1>6 DEF CardsTyped
<1> QED BY <1>0, <1>1, <1>7 DEF IntegrationsIInv, CardsTyped, FormsAreTheDrawers, SavesItsOwn

LEMMA CardsArriveKeep ==
  ASSUME IntegrationsIInv, NEW load \in cardLoads, CardsArrive(load)
  PROVE  IntegrationsIInv'
<1> USE DEF IntegrationsIInv, CardsTyped
<1>1. load.got \in CardList /\ address.id \in ConnectionIds
  BY DEF CardLoad, CardsArrive
<1>2. form' = Fill(load.got, address.id) /\ cards' = load.got /\ cardLoads' = cardLoads \ {load}
      /\ UNCHANGED <<connection, latest, address, saves, mixedUp, pageOps>>
  BY DEF CardsArrive, AfterCards
<1>3. FormsAreTheDrawers'
  BY <1>1, <1>2, Filled DEF FormsAreTheDrawers
<1>4. form' \in [Apps -> FormFields]
  BY <1>1, <1>2, Filled
<1> QED BY <1>1, <1>2, <1>3, <1>4 DEF SavesItsOwn

LEMMA CardsFailKeep ==
  ASSUME IntegrationsIInv, NEW load \in cardLoads, CardsFail(load)
  PROVE  IntegrationsIInv'
BY DEF IntegrationsIInv, CardsTyped, CardsFail, FormsAreTheDrawers, SavesItsOwn

LEMMA PageOpsTyped ==
  ASSUME CardsTyped, PageOp
  PROVE  pageOps' \in 0..MaxPageOps
BY IntegrationsAssumption DEF CardsTyped, PageOp

LEMMA GoesKeeps ==
  ASSUME IntegrationsIInv, PageOp,
         NEW to \in [tab : Apps \cup {NoConnection}, id : ConnectionIds], Goes(to)
  PROVE  IntegrationsIInv'
<1>0. CardsTyped /\ pageOps' \in 0..MaxPageOps /\ FormsAreTheDrawers /\ SavesItsOwn
  BY PageOpsTyped DEF IntegrationsIInv
<1>1. /\ address' = to /\ form' = Fill(cards, to.id)
      /\ UNCHANGED <<connection, latest, cards, cardLoads, saves, mixedUp>>
  BY DEF Goes
<1>2. form' \in [Apps -> FormFields] /\ FormsAreTheDrawers'
  BY <1>0, <1>1, Filled DEF FormsAreTheDrawers, CardsTyped
<1> QED BY <1>0, <1>1, <1>2 DEF IntegrationsIInv, CardsTyped, SavesItsOwn

LEMMA DrawerKeeps ==
  ASSUME IntegrationsIInv, (\E p \in Apps : OpenDrawer(p) \/ AddNew(p)) \/ CloseDrawer
  PROVE  IntegrationsIInv'
<1>1. cards \in CardList
  BY DEF IntegrationsIInv, CardsTyped
<1>2. ASSUME NEW p \in Apps
      PROVE  /\ [tab |-> p, id |-> cards[p].id] \in [tab : Apps \cup {NoConnection}, id : ConnectionIds]
             /\ [tab |-> p, id |-> NoConnection] \in [tab : Apps \cup {NoConnection}, id : ConnectionIds]
  BY <1>1 DEF CardList, ConnectionIds
<1>3. NoDrawer \in [tab : Apps \cup {NoConnection}, id : ConnectionIds]
  BY DEF NoDrawer, ConnectionIds
<1> QED BY <1>2, <1>3, GoesKeeps DEF OpenDrawer, AddNew, CloseDrawer

LEMMA TypeInKeeps ==
  ASSUME IntegrationsIInv, TypeIn
  PROVE  IntegrationsIInv'
<1>0. CardsTyped /\ pageOps' \in 0..MaxPageOps /\ FormsAreTheDrawers /\ SavesItsOwn
  BY PageOpsTyped DEF IntegrationsIInv, TypeIn
<1>1. /\ address.tab \in Apps /\ address.id \in ConnectionIds
      /\ UNCHANGED <<connection, latest, cards, address, cardLoads, saves, mixedUp>>
      /\ form' = [form EXCEPT ![address.tab].typedFor = @ \cup {address.id}]
  BY <1>0 DEF TypeIn, CardsTyped
<1>2. form \in [Apps -> FormFields]
  BY <1>0 DEF CardsTyped
<1>3. \A p \in Apps : /\ form'[p] \in FormFields /\ form'[p].of = form[p].of
                      /\ form'[p].typedFor \subseteq form[p].typedFor \cup {address.id}
  BY <1>1, <1>2 DEF FormFields
<1>4. form' \in [Apps -> FormFields] /\ FormsAreTheDrawers'
  BY <1>0, <1>1, <1>2, <1>3 DEF FormsAreTheDrawers
<1> QED BY <1>0, <1>1, <1>4 DEF IntegrationsIInv, CardsTyped, SavesItsOwn

LEMMA SendsKeeps ==
  ASSUME IntegrationsIInv, PageOp, NEW write \in WriteSent, Sends(write), mixedUp' = mixedUp,
         UNCHANGED <<connection, latest, cards, address, form, cardLoads>>
  PROVE  IntegrationsIInv'
<1>0. CardsTyped /\ pageOps' \in 0..MaxPageOps /\ FormsAreTheDrawers /\ SavesItsOwn
  BY PageOpsTyped DEF IntegrationsIInv
<1>1. saves' = saves \cup {write} /\ IsFiniteSet(saves') /\ Cardinality(saves') <= MaxWrites
  BY <1>0, RoomForOne, IntegrationsAssumption DEF Sends, CardsTyped
<1> QED BY <1>0, <1>1 DEF IntegrationsIInv, CardsTyped, FormsAreTheDrawers, SavesItsOwn

\* What is saved is the open drawer's: its fields are not another connection's.
LEMMA SaveKeeps ==
  ASSUME IntegrationsIInv, Save
  PROVE  IntegrationsIInv'
<1>0. CardsTyped /\ FormsAreTheDrawers /\ SavesItsOwn
  BY DEF IntegrationsIInv
<1>1. /\ address.tab \in Apps /\ address.id \in ConnectionIds /\ PageOp
      /\ mixedUp' = (mixedUp \/ (address.id # NoConnection /\ Foreign(form[address.tab], address.id)))
      /\ UNCHANGED <<connection, latest, cards, address, form, cardLoads>>
  BY <1>0 DEF Save, CardsTyped
<1>2. PICK status \in {"active", "disabled"} :
        Sends([app |-> address.tab, id |-> address.id, status |-> status])
  BY DEF Save
<1>3. [app |-> address.tab, id |-> address.id, status |-> status] \in WriteSent
  BY <1>1, <1>2 DEF WriteSent, Statuses
<1>4. ~(address.id # NoConnection /\ Foreign(form[address.tab], address.id))
  BY <1>0, <1>1 DEF FormsAreTheDrawers, Foreign
<1>5. mixedUp' = mixedUp
  BY <1>0, <1>1, <1>4 DEF SavesItsOwn, CardsTyped
<1> QED BY <1>1, <1>2, <1>3, <1>5, SendsKeeps

LEMMA RemovalKeeps ==
  ASSUME IntegrationsIInv, NEW p \in Apps, Disconnect(p) \/ DeleteConnection(p)
  PROVE  IntegrationsIInv'
<1>1. PICK status \in Statuses :
        /\ Sends([app |-> p, id |-> cards[p].id, status |-> status]) /\ PageOp
        /\ UNCHANGED <<connection, latest, cards, address, form, cardLoads, mixedUp>>
  BY DEF Disconnect, DeleteConnection, Statuses
<1>2. cards \in CardList
  BY DEF IntegrationsIInv, CardsTyped
<1>3. [app |-> p, id |-> cards[p].id, status |-> status] \in WriteSent
  BY <1>1, <1>2 DEF WriteSent, CardList
<1> QED BY <1>1, <1>3, SendsKeeps

\* A write to a connection, by this page or from elsewhere.
LEMMA WrittenTyped ==
  ASSUME CardsTyped, NEW i \in RowIds, NEW status \in Statuses, Written(i, status)
  PROVE  connection' \in [RowIds -> Statuses] /\ latest' \in [Apps -> ConnectionIds]
BY IntegrationsAssumption DEF CardsTyped, Written, ConnectionIds

LEMMA WriteAnsweredKeeps ==
  ASSUME IntegrationsIInv, NEW s \in saves, WriteAnswered(s) \/ WriteFails(s)
  PROVE  IntegrationsIInv'
<1>0. CardsTyped /\ FormsAreTheDrawers /\ SavesItsOwn /\ s \in WriteSent
  BY DEF IntegrationsIInv, CardsTyped
<1>1. saves' = saves \ {s} /\ UNCHANGED <<cards, address, form, mixedUp, pageOps>>
  BY DEF WriteAnswered, WriteFails
<1>2. saves' \subseteq WriteSent /\ IsFiniteSet(saves') /\ Cardinality(saves') <= MaxWrites
  BY <1>0, <1>1, OneLess, IntegrationsAssumption DEF CardsTyped
<1>3. cardLoads' \subseteq CardLoad /\ \A x, y \in cardLoads' : x.n = y.n => x = y
  BY <1>0, CardsAsked DEF WriteAnswered, WriteFails, CardsTyped
<1>4. connection' \in [RowIds -> Statuses] /\ latest' \in [Apps -> ConnectionIds]
  <2>1. CASE WriteFails(s)
    BY <1>0, <2>1 DEF WriteFails, CardsTyped
  <2>2. CASE WriteAnswered(s)
    <3>1. PICK i \in RowIds : Written(i, s.status)
      BY <1>0, <2>2 DEF WriteAnswered, Targets, WriteSent, ConnectionIds
    <3> QED BY <1>0, <3>1, WrittenTyped DEF WriteSent
  <2> QED BY <2>1, <2>2
<1> QED BY <1>0, <1>1, <1>2, <1>3, <1>4 DEF IntegrationsIInv, CardsTyped, FormsAreTheDrawers, SavesItsOwn

LEMMA ElsewhereKeeps ==
  ASSUME IntegrationsIInv, NEW i \in RowIds, NEW status \in Statuses, Elsewhere(i, status)
  PROVE  IntegrationsIInv'
<1>1. CardsTyped /\ pageOps' \in 0..MaxPageOps /\ FormsAreTheDrawers /\ SavesItsOwn
  BY PageOpsTyped DEF IntegrationsIInv, Elsewhere
<1>2. connection' \in [RowIds -> Statuses] /\ latest' \in [Apps -> ConnectionIds]
  BY <1>1, WrittenTyped DEF Elsewhere
<1>3. UNCHANGED <<cards, address, form, cardLoads, saves, mixedUp>>
  BY DEF Elsewhere
<1> QED BY <1>1, <1>2, <1>3 DEF IntegrationsIInv, CardsTyped, FormsAreTheDrawers, SavesItsOwn

LEMMA IntegrationsStep == IntegrationsIInv /\ [IntegrationsNext]_integrationsVars => IntegrationsIInv'
<1> SUFFICES ASSUME IntegrationsIInv, [IntegrationsNext]_integrationsVars PROVE IntegrationsIInv'
  OBVIOUS
<1>1. CASE UNCHANGED integrationsVars
  BY <1>1 DEF integrationsVars, IntegrationsIInv, CardsTyped, FormsAreTheDrawers, SavesItsOwn
<1>2. CASE IntegrationsNext
  BY <1>2, CardsReadKeep, CardsArriveKeep, CardsFailKeep, DrawerKeeps, RemovalKeeps, TypeInKeeps,
     SaveKeeps, WriteAnsweredKeeps, ElsewhereKeeps DEF IntegrationsNext
<1> QED BY <1>1, <1>2

-----------------------------------------------------------------------------
(* Consent.                                                                *)

Telling == [by : Visitors, agreed : BOOLEAN, public : BOOLEAN,
          seenAs : Visitors \cup {NoVisitor}, excused : BOOLEAN]
Queue == {q \in Seq(Telling) : Len(q) <= MAX_PENDING}

ConsentTyped ==
  /\ visitor \in Visitor /\ publicPage \in BOOLEAN /\ effectDue \in {"no", "page", "user"}
  /\ posthog \in {"none", "in", "out"} /\ clientSet \in BOOLEAN
  /\ identity \in Visitors \cup {NoVisitor} /\ importing \in Visitors \cup {NoVisitor}
  /\ pendingEvents = NoVisitor \/ pendingEvents \in Queue
  /\ stale \in BOOLEAN /\ sights \in 0..MaxSights

\* The client is an opted-in library that was told whom it sees.  Events and a load wait
\* only before there is a library.
OneLibrary ==
  /\ clientSet <=> posthog = "in"
  /\ pendingEvents # NoVisitor \/ importing # NoVisitor => posthog = "none"

\* Whoever was rendered last once the effects have run agrees, if anything goes on for it.
EffectsFollow ==
  /\ effectDue = "no" /\ importing # NoVisitor =>
       ShouldTrack(visitor, publicPage) /\ importing = Who(visitor)
  /\ effectDue = "no" /\ posthog = "in" => Agrees(visitor)
  /\ effectDue = "page" /\ importing # NoVisitor /\ Who(visitor) = importing => Agrees(visitor)

\* Unless the history excuses it, library, load and account are of one account.
OneAccount == ~stale =>
  /\ posthog = "in" /\ visitor # NoVisitor => identity = Who(visitor)
  /\ posthog = "in" /\ effectDue = "page" /\ visitor # NoVisitor => Agrees(visitor)
  /\ importing # NoVisitor /\ visitor # NoVisitor => Who(visitor) = importing

\* And so are the events that wait, all made with consent, and off the audience's pages.
QueueIsTheirs == ~stale /\ pendingEvents # NoVisitor =>
  /\ \A i \in DOMAIN pendingEvents :
       /\ pendingEvents[i].agreed /\ ~pendingEvents[i].public
       /\ importing # NoVisitor => pendingEvents[i].by = importing
       /\ visitor # NoVisitor => pendingEvents[i].by = Who(visitor)
  /\ importing = NoVisitor => effectDue # "no" /\ ShouldTrack(visitor, publicPage)
  /\ effectDue = "page" /\ visitor # NoVisitor /\ ~publicPage => Agrees(visitor)

ConsentIInv == ConsentTyped /\ OneLibrary /\ EffectsFollow /\ OneAccount /\ QueueIsTheirs /\ OnlyWithConsent
LEMMA ConsentHolds == ConsentIInv => ConsentTypeOK /\ OnlyWithConsent
<1> SUFFICES ASSUME ConsentIInv PROVE ConsentTypeOK /\ OnlyWithConsent
  OBVIOUS
<1>1. pendingEvents # NoVisitor => Len(pendingEvents) <= MAX_PENDING
  BY DEF ConsentIInv, ConsentTyped, Queue
<1> QED BY <1>1 DEF ConsentIInv, ConsentTyped, ConsentTypeOK, OneLibrary

LEMMA ConsentInitInv == ConsentInit => ConsentIInv
<1> SUFFICES ASSUME ConsentInit PROVE ConsentIInv
  OBVIOUS
<1>1. 0 \in 0..MaxSights
  BY ConsentAssumption
<1>2. ConsentTyped
  BY <1>1 DEF ConsentInit, ConsentTyped, Visitor
<1> QED BY <1>2 DEF ConsentInit, ConsentIInv, OneLibrary, EffectsFollow, OneAccount, QueueIsTheirs, OnlyWithConsent

\* The account of a user object is an account of the tab, and nobody's is nobody.
LEMMA WhoIsThere ==
  ASSUME NEW u \in Visitor
  PROVE  /\ u # NoVisitor => Who(u) = u.who /\ Who(u) \in Visitors /\ Who(u) # NoVisitor /\ u.agrees \in BOOLEAN
         /\ u = NoVisitor => Who(u) = NoVisitor
         /\ Agrees(u) \in BOOLEAN /\ (Agrees(u) => u # NoVisitor /\ u.agrees)
BY ConsentAssumption DEF Visitor, Who, Agrees

\* Two accounts one after the other are two.
LEMMA TwoAccounts ==
  ASSUME NEW a, NEW b, a # b, a # NoVisitor, b # NoVisitor
  PROVE  Cardinality({a, b} \ {NoVisitor}) = 2
<1>1. {a, b} \ {NoVisitor} = {a} \cup {b}
  OBVIOUS
<1>2. IsFiniteSet({a}) /\ Cardinality({a}) = 1
  BY FS_Singleton
<1>3. Cardinality({a} \cup {b}) = 2
  BY <1>2, FS_AddElement
<1> QED BY <1>1, <1>3

LEMMA SightTyped ==
  ASSUME ConsentTyped, Sight
  PROVE  sights' \in 0..MaxSights
BY ConsentAssumption DEF ConsentTyped, Sight

\* An empty queue is one.
LEMMA NothingWaits == <<>> \in Queue /\ DOMAIN <<>> = {}
<1>1. <<>> \in Seq(Telling) /\ Len(<<>>) = 0 /\ DOMAIN <<>> = {}
  BY EmptySeq
<1> QED BY <1>1, ConsentAssumption DEF Queue

\* What is made now, of a page or a click, is fit for PostHog as long as it agrees.
LEMMA MadeNow ==
  ASSUME ConsentTyped, NEW u \in Visitor, u # NoVisitor, NEW public \in BOOLEAN
  PROVE  /\ Made(u, public) \in Telling
         /\ Made(u, public).by = Who(u) /\ Made(u, public).agreed = u.agrees
         /\ Made(u, public).public = public /\ Made(u, public).seenAs = identity
         /\ Made(u, public).excused = stale
BY WhoIsThere DEF Made, Telling, ConsentTyped

LEMMA CapturedFit ==
  ASSUME OnlyWithConsent, NEW e,
         posthog = "in" /\ ~e.public => e.excused \/ (e.agreed /\ ~e.public /\ e.seenAs = e.by),
         toldPostHog' = Capture({e})
  PROVE  OnlyWithConsent'
<1>1. \A x \in toldPostHog' : x \in toldPostHog \/ (x = e /\ posthog = "in" /\ ~e.public)
  BY DEF Capture, CleanCapture
<1> QED BY <1>1 DEF OnlyWithConsent

\* A render queues nothing that is there, and takes note of an account that replaces another.
LEMMA RenderKeeps ==
  ASSUME ConsentIInv, NEW u \in Visitor, NEW public \in BOOLEAN, Render(u, public)
  PROVE  ConsentIInv'
<1>0. ConsentTyped /\ OneLibrary /\ EffectsFollow /\ OneAccount /\ QueueIsTheirs /\ OnlyWithConsent
  BY DEF ConsentIInv
<1>1. /\ effectDue = "no" /\ Sight /\ visitor' = u /\ publicPage' = public
      /\ <<u, public>> # <<visitor, publicPage>> /\ (u = visitor \/ public = publicPage)
      /\ effectDue' = IF Who(u) = Who(visitor) /\ public = publicPage THEN "user" ELSE "page"
      /\ stale' = (stale \/ Cardinality({Who(u), Who(visitor)} \ {NoVisitor}) = 2)
      /\ pendingEvents' = IF posthog = "none" /\ ShouldTrack(u, public) /\ pendingEvents = NoVisitor
                          THEN <<>> ELSE pendingEvents
      /\ UNCHANGED <<posthog, clientSet, identity, importing>>
  BY DEF Render
<1>2. /\ visitor \in Visitor /\ publicPage \in BOOLEAN /\ stale \in BOOLEAN
      /\ importing \in Visitors \cup {NoVisitor} /\ posthog \in {"none", "in", "out"}
  BY <1>0 DEF ConsentTyped
<1>3. stale' \in BOOLEAN /\ (~stale' => ~stale)
  BY <1>1, <1>2
<1>4. ~stale' /\ u # NoVisitor /\ visitor # NoVisitor => Who(u) = Who(visitor)
  BY <1>1, <1>2, WhoIsThere, TwoAccounts
<1>5. ConsentTyped'
  <2>1. sights' \in 0..MaxSights
    BY <1>0, <1>1, SightTyped
  <2>2. pendingEvents' = NoVisitor \/ pendingEvents' \in Queue
    BY <1>0, <1>1, NothingWaits DEF ConsentTyped
  <2>3. effectDue' \in {"no", "page", "user"}
    BY <1>1
  <2> QED BY <1>0, <1>1, <1>3, <2>1, <2>2, <2>3 DEF ConsentTyped
<1>6. OneLibrary'
  BY <1>0, <1>1 DEF OneLibrary
<1>7. EffectsFollow'
  BY <1>0, <1>1, <1>2, WhoIsThere DEF EffectsFollow, ShouldTrack
<1>8. OneAccount'
  BY <1>0, <1>1, <1>2, <1>3, <1>4, WhoIsThere DEF EffectsFollow, OneAccount, ShouldTrack
<1>9. QueueIsTheirs'
  BY <1>0, <1>1, <1>2, <1>3, <1>4, WhoIsThere, NothingWaits DEF QueueIsTheirs, EffectsFollow, OneAccount, ShouldTrack
<1>10. OnlyWithConsent'
  <2>1. CASE public # publicPage /\ u # NoVisitor
    <3>1. u = visitor /\ toldPostHog' = Capture({Made(u, public)})
      BY <1>1, <2>1 DEF Render
    <3> QED BY <1>0, <1>1, <1>2, <2>1, <3>1, MadeNow, CapturedFit, WhoIsThere DEF EffectsFollow, OneAccount
  <2>2. CASE ~(public # publicPage /\ u # NoVisitor)
    BY <1>0, <2>2 DEF Render, OnlyWithConsent
  <2> QED BY <2>1, <2>2
<1> QED BY <1>5, <1>6, <1>7, <1>8, <1>9, <1>10 DEF ConsentIInv

\* The queue goes out as the account it was made by, or excused.
LEMMA FlushFit ==
  ASSUME ConsentTyped, OnlyWithConsent, QueueIsTheirs, NEW as \in Visitors, Flush(as),
         (importing # NoVisitor /\ importing = as) \/ (visitor # NoVisitor /\ Who(visitor) = as)
  PROVE  OnlyWithConsent'
<1>1. toldPostHog' = toldPostHog \cup
       (IF pendingEvents = NoVisitor THEN {} ELSE
        {[pendingEvents[i] EXCEPT !.seenAs = as, !.excused = stale] : i \in DOMAIN pendingEvents})
  BY DEF Flush
<1>2. stale \in BOOLEAN /\ (pendingEvents # NoVisitor => pendingEvents \in Seq(Telling))
  BY DEF ConsentTyped, Queue
<1>3. ASSUME NEW i \in DOMAIN pendingEvents, pendingEvents # NoVisitor,
             NEW e, e = [pendingEvents[i] EXCEPT !.seenAs = as, !.excused = stale]
      PROVE  e.excused \/ (e.agreed /\ ~e.public /\ e.seenAs = e.by)
  <2>1. pendingEvents[i] \in Telling
    BY <1>2, <1>3, ElementOfSeq, LenProperties
  <2>2. /\ e.excused = stale /\ e.seenAs = as /\ e.by = pendingEvents[i].by
        /\ e.agreed = pendingEvents[i].agreed /\ e.public = pendingEvents[i].public
    BY <1>3, <2>1 DEF Telling
  <2> QED BY <1>3, <2>2 DEF QueueIsTheirs
<1> QED BY <1>1, <1>3 DEF OnlyWithConsent

LEMMA LibraryLoadsKeeps ==
  ASSUME ConsentIInv, LibraryLoads
  PROVE  ConsentIInv'
<1>0. ConsentTyped /\ OneLibrary /\ EffectsFollow /\ OneAccount /\ QueueIsTheirs /\ OnlyWithConsent
  BY DEF ConsentIInv
<1>1. /\ importing # NoVisitor /\ importing' = NoVisitor /\ posthog' = "in" /\ Flush(importing)
      /\ clientSet' = TRUE /\ pendingEvents' = NoVisitor /\ identity' = importing
      /\ stale' = (Who(visitor) # importing)
      /\ UNCHANGED <<visitor, publicPage, effectDue, sights>>
  BY DEF LibraryLoads, Flush
<1>2. importing \in Visitors /\ visitor \in Visitor
  BY <1>0, <1>1 DEF ConsentTyped
<1>3. OnlyWithConsent'
  BY <1>0, <1>1, <1>2, FlushFit
<1>4. ConsentTyped' /\ OneLibrary'
  BY <1>0, <1>1, <1>2 DEF ConsentTyped, OneLibrary
<1>5. EffectsFollow' /\ OneAccount' /\ QueueIsTheirs'
  BY <1>0, <1>1, <1>2, WhoIsThere DEF EffectsFollow, OneAccount, QueueIsTheirs, ShouldTrack
<1> QED BY <1>3, <1>4, <1>5 DEF ConsentIInv

LEMMA LoadingFailsKeeps ==
  ASSUME ConsentIInv, LoadingFails
  PROVE  ConsentIInv'
BY DEF ConsentIInv, LoadingFails, ConsentTyped, OneLibrary, EffectsFollow, OneAccount, QueueIsTheirs, OnlyWithConsent

LEMMA RunEffectKeeps ==
  ASSUME ConsentIInv, RunEffect
  PROVE  ConsentIInv'
<1>0. ConsentTyped /\ OneLibrary /\ EffectsFollow /\ OneAccount /\ QueueIsTheirs /\ OnlyWithConsent
  BY DEF ConsentIInv
<1>1. effectDue # "no" /\ effectDue' = "no" /\ UNCHANGED <<visitor, publicPage, sights>>
  BY DEF RunEffect
<1>2. /\ visitor \in Visitor /\ publicPage \in BOOLEAN /\ stale \in BOOLEAN
      /\ importing \in Visitors \cup {NoVisitor} /\ posthog \in {"none", "in", "out"}
      /\ effectDue \in {"no", "page", "user"}
  BY <1>0 DEF ConsentTyped
<1>3. CASE WithdrawnEffect
  BY <1>0, <1>1, <1>3 DEF WithdrawnEffect, Forgets, ConsentIInv, ConsentTyped, OneLibrary, EffectsFollow,
     OneAccount, QueueIsTheirs, OnlyWithConsent
<1>4. CASE IdleEffect
  <2>1. /\ ~ShouldTrack(visitor, publicPage) /\ (posthog = "none" \/ Agrees(visitor))
        /\ importing' = NoVisitor /\ stale' = (stale \/ importing # NoVisitor)
        /\ UNCHANGED <<posthog, clientSet, identity, pendingEvents, toldPostHog>>
    BY <1>4 DEF IdleEffect
  <2>2. stale' \in BOOLEAN /\ (~stale' => ~stale /\ importing = NoVisitor)
    BY <1>2, <2>1
  <2>3. ConsentTyped' /\ OneLibrary' /\ OnlyWithConsent'
    BY <1>0, <1>1, <2>1, <2>2 DEF ConsentTyped, OneLibrary, OnlyWithConsent
  <2>4. EffectsFollow' /\ OneAccount' /\ QueueIsTheirs'
    BY <1>0, <1>1, <1>2, <2>1, <2>2, WhoIsThere DEF EffectsFollow, OneAccount, QueueIsTheirs, OneLibrary, ShouldTrack
  <2> QED BY <2>3, <2>4 DEF ConsentIInv
<1>5. CASE TrackingEffect
  <2>1. ShouldTrack(visitor, publicPage) /\ visitor # NoVisitor /\ Who(visitor) = visitor.who
        /\ Who(visitor) \in Visitors /\ Agrees(visitor) /\ Who(visitor) # NoVisitor
    BY <1>2, <1>5, WhoIsThere DEF TrackingEffect, ShouldTrack
  <2>2. CASE posthog # "none"
    <3>1. /\ posthog' = "in" /\ Flush(visitor.who) /\ UNCHANGED importing
          /\ clientSet' = TRUE /\ pendingEvents' = NoVisitor /\ identity' = Who(visitor)
          /\ stale' = FALSE
      BY <1>5, <2>1, <2>2 DEF TrackingEffect, Flush
    <3>2. OnlyWithConsent'
      BY <1>0, <2>1, <3>1, FlushFit
    <3>3. ConsentTyped' /\ OneLibrary'
      BY <1>0, <1>1, <2>1, <2>2, <3>1 DEF ConsentTyped, OneLibrary
    <3>4. EffectsFollow' /\ OneAccount' /\ QueueIsTheirs'
      BY <1>0, <1>1, <2>1, <2>2, <3>1 DEF EffectsFollow, OneAccount, QueueIsTheirs, OneLibrary, ShouldTrack, Agrees, Who
    <3> QED BY <3>2, <3>3, <3>4 DEF ConsentIInv
  <2>3. CASE posthog = "none"
    <3>1. /\ importing' = Who(visitor)
          /\ pendingEvents' = (IF pendingEvents = NoVisitor THEN <<>> ELSE pendingEvents)
          /\ stale' = (stale \/ importing \notin {NoVisitor, Who(visitor)})
          /\ UNCHANGED <<posthog, clientSet, identity, toldPostHog>>
      BY <1>5, <2>1, <2>3 DEF TrackingEffect
    <3>2. stale' \in BOOLEAN /\ (~stale' => ~stale /\ importing \in {NoVisitor, Who(visitor)})
      BY <1>2, <3>1
    <3>3. pendingEvents' = NoVisitor \/ pendingEvents' \in Queue
      BY <1>0, <3>1, NothingWaits DEF ConsentTyped
    <3>4. ConsentTyped' /\ OneLibrary' /\ OnlyWithConsent'
      BY <1>0, <1>1, <2>1, <2>3, <3>1, <3>2, <3>3 DEF ConsentTyped, OneLibrary, OnlyWithConsent
    <3>5. ShouldTrack(visitor, publicPage)' /\ (Who(visitor) = Who(visitor)')
      BY <1>1, <2>1 DEF ShouldTrack, Agrees, Who
    <3>6. EffectsFollow' /\ OneAccount'
      BY <1>1, <2>1, <2>3, <3>1, <3>5 DEF EffectsFollow, OneAccount, ShouldTrack
    <3>7. QueueIsTheirs'
      BY <1>0, <1>1, <2>1, <2>3, <3>1, <3>2, <3>5, NothingWaits DEF QueueIsTheirs, ShouldTrack
    <3> QED BY <3>4, <3>6, <3>7 DEF ConsentIInv
  <2> QED BY <2>2, <2>3
<1> QED BY <1>3, <1>4, <1>5 DEF RunEffect

\* An event of a page that is in the queue was made by the account that is loading.
LEMMA TrackEventKeeps ==
  ASSUME ConsentIInv, TrackEvent
  PROVE  ConsentIInv'
<1>0. ConsentTyped /\ OneLibrary /\ EffectsFollow /\ OneAccount /\ QueueIsTheirs /\ OnlyWithConsent
  BY DEF ConsentIInv
<1>1. /\ visitor # NoVisitor /\ ~publicPage /\ effectDue # "user" /\ Sight
      /\ UNCHANGED <<visitor, publicPage, effectDue, posthog, clientSet, identity, importing, stale>>
  BY DEF TrackEvent
<1>2. /\ visitor \in Visitor /\ stale \in BOOLEAN /\ effectDue \in {"no", "page", "user"}
      /\ importing \in Visitors \cup {NoVisitor}
  BY <1>0 DEF ConsentTyped
<1>3. PICK e : e = Made(visitor, FALSE)
  OBVIOUS
<1>4. /\ toldPostHog' = IF clientSet THEN Capture({e}) ELSE toldPostHog
      /\ pendingEvents' = IF ~clientSet /\ pendingEvents # NoVisitor /\ Len(pendingEvents) < MAX_PENDING
                          THEN Append(pendingEvents, e) ELSE pendingEvents
  BY <1>3 DEF TrackEvent
<1>5. /\ e \in Telling /\ e.by = Who(visitor) /\ e.agreed = visitor.agrees /\ e.public = FALSE
      /\ e.seenAs = identity /\ e.excused = stale
  BY <1>0, <1>1, <1>2, <1>3, MadeNow
<1>6. Agrees(visitor) = visitor.agrees
  BY <1>1 DEF Agrees
<1>7. OnlyWithConsent'
  <2>1. posthog = "in" => e.excused \/ (e.agreed /\ ~e.public /\ e.seenAs = e.by)
    BY <1>0, <1>1, <1>2, <1>5, <1>6 DEF OneAccount, EffectsFollow
  <2> QED BY <1>0, <1>4, <2>1, CapturedFit DEF OnlyWithConsent
<1>8. CASE pendingEvents' = pendingEvents
  <2>1. ConsentTyped'
    BY <1>0, <1>1, <1>8, SightTyped DEF ConsentTyped
  <2>2. OneLibrary' /\ EffectsFollow' /\ OneAccount' /\ QueueIsTheirs'
    BY <1>0, <1>1, <1>8 DEF OneLibrary, EffectsFollow, OneAccount, QueueIsTheirs, ShouldTrack, Agrees, Who
  <2> QED BY <1>7, <2>1, <2>2 DEF ConsentIInv
<1>9. CASE /\ pendingEvents # NoVisitor /\ Len(pendingEvents) < MAX_PENDING
           /\ pendingEvents' = Append(pendingEvents, e)
  <2>1. pendingEvents \in Seq(Telling)
    BY <1>0, <1>9 DEF ConsentTyped, Queue
  <2>2. /\ pendingEvents' \in Seq(Telling) /\ Len(pendingEvents') = Len(pendingEvents) + 1
        /\ \A i \in DOMAIN pendingEvents' : IF i \in DOMAIN pendingEvents THEN pendingEvents'[i] = pendingEvents[i]
                                            ELSE pendingEvents'[i] = e
    BY <1>5, <1>9, <2>1, AppendProperties, LenProperties
  <2>3. pendingEvents' \in Queue
    BY <1>9, <2>1, <2>2, ConsentAssumption, LenProperties DEF Queue
  <2>4. ConsentTyped'
    BY <1>0, <1>1, <2>3, SightTyped DEF ConsentTyped
  <2>5. OneLibrary' /\ EffectsFollow' /\ OneAccount'
    BY <1>0, <1>1, <1>9 DEF OneLibrary, EffectsFollow, OneAccount, ShouldTrack, Agrees, Who
  <2>6. ~stale => e.agreed /\ (importing # NoVisitor => e.by = importing)
    BY <1>0, <1>1, <1>2, <1>5, <1>6, <1>9 DEF QueueIsTheirs, EffectsFollow, OneAccount, ShouldTrack
  <2>7. QueueIsTheirs'
    <3> SUFFICES ASSUME ~stale PROVE QueueIsTheirs'
      BY <1>1 DEF QueueIsTheirs
    <3>1. \A i \in DOMAIN pendingEvents' :
            /\ pendingEvents'[i].agreed /\ ~pendingEvents'[i].public
            /\ importing # NoVisitor => pendingEvents'[i].by = importing
            /\ pendingEvents'[i].by = Who(visitor)
      BY <1>0, <1>1, <1>5, <1>9, <2>2, <2>6 DEF QueueIsTheirs
    <3>2. /\ importing = NoVisitor => effectDue # "no" /\ ShouldTrack(visitor, publicPage)
          /\ effectDue = "page" => Agrees(visitor)
      BY <1>0, <1>1, <1>9 DEF QueueIsTheirs
    <3>3. UNCHANGED <<ShouldTrack(visitor, publicPage), Agrees(visitor), Who(visitor)>>
      BY <1>1 DEF ShouldTrack, Agrees, Who
    <3> QED BY <1>1, <3>1, <3>2, <3>3 DEF QueueIsTheirs
  <2> QED BY <1>7, <2>4, <2>5, <2>7 DEF ConsentIInv
<1> QED BY <1>4, <1>8, <1>9

LEMMA ConsentStep == ConsentIInv /\ [ConsentNext]_consentVars => ConsentIInv'
<1> SUFFICES ASSUME ConsentIInv, [ConsentNext]_consentVars PROVE ConsentIInv'
  OBVIOUS
<1>1. CASE UNCHANGED consentVars
  BY <1>1 DEF consentVars, ConsentIInv, ConsentTyped, OneLibrary, EffectsFollow, OneAccount, QueueIsTheirs,
     OnlyWithConsent, ShouldTrack, Agrees, Who
<1>2. CASE ConsentNext
  BY <1>2, RenderKeeps, RunEffectKeeps, LibraryLoadsKeeps, LoadingFailsKeeps, TrackEventKeeps DEF ConsentNext
<1> QED BY <1>1, <1>2

-----------------------------------------------------------------------------
(* The page of the audience.  Its types rest on one bound: every row of a  *)
(* question was a move.                                                    *)

JoinIInv == JoinTypeOK /\ \A q \in Prompts : mine[q] <= moves

LEMMA JoinInitInv == JoinInit => JoinIInv
<1> SUFFICES ASSUME JoinInit PROVE JoinIInv
  OBVIOUS
<1>1. 0 \in 0..MaxMoves /\ <<>> \in Seq(Prompts)
  BY JoinAssumption, EmptySeq
<1>2. tab \in Tab /\ gets \subseteq Get
  BY <1>1 DEF JoinInit, Tab, Get, NewGet, Counts
<1> QED BY <1>1, <1>2 DEF JoinInit, JoinIInv, JoinTypeOK, Counts

LEMMA MoveTyped ==
  ASSUME JoinIInv, Move
  PROVE  moves' \in 0..MaxMoves /\ moves' = moves + 1 /\ \A q \in Prompts : mine[q] + 1 \in Counts /\ mine[q] + 1 <= moves'
BY JoinAssumption DEF JoinIInv, JoinTypeOK, Move, Counts

\* A new row of a question, in a move.
LEMMA OneMoreOfMine ==
  ASSUME JoinIInv, Move, NEW q \in Prompts, mine' = [mine EXCEPT ![q] = @ + 1]
  PROVE  mine' \in [Prompts -> Counts] /\ mine'[q] \in Counts /\ \A p \in Prompts : mine'[p] <= moves'
<1>1. mine \in [Prompts -> Counts] /\ moves \in Nat /\ \A p \in Prompts : mine[p] <= moves
  BY DEF JoinIInv, JoinTypeOK
<1>2. moves' = moves + 1 /\ \A p \in Prompts : mine[p] + 1 \in Counts /\ mine[p] + 1 <= moves'
  BY MoveTyped
<1>3. \A p \in Prompts : mine'[p] = IF p = q THEN mine[p] + 1 ELSE mine[p]
  BY <1>1
<1>4. mine' \in [Prompts -> Counts]
  BY <1>1, <1>2
<1>5. \A p \in Prompts : mine'[p] <= moves'
  BY <1>1, <1>2, <1>3 DEF Counts
<1> QED BY <1>4, <1>5

LEMMA NewGetTyped == NewGet \in Get /\ \A t \in Tab : Loaded(t) \in Tab
<1>1. 0 \in Counts
  BY JoinAssumption DEF Counts
<1>2. NewGet \in Get
  BY <1>1 DEF NewGet, Get
<1>3. \A t \in Tab : Loaded(t) \in Tab
  BY DEF Loaded, Tab
<1> QED BY <1>2, <1>3

LEMMA JoinStep == JoinIInv /\ [JoinNext]_joinVars => JoinIInv'
<1> SUFFICES ASSUME JoinIInv, [JoinNext]_joinVars PROVE JoinIInv'
  OBVIOUS
<1>0. /\ asked \in Prompts \cup {NoPrompt} /\ mine \in [Prompts -> Counts] /\ tab \in Tab /\ gets \subseteq Get
      /\ wire \in Seq(Prompts) /\ moves \in 0..MaxMoves /\ \A q \in Prompts : mine[q] <= moves
  BY DEF JoinIInv, JoinTypeOK
<1>00. MaxMoves \in Nat /\ 0 \in Counts
  BY JoinAssumption DEF Counts
<1>1. CASE UNCHANGED joinVars
  BY <1>1 DEF joinVars, JoinIInv, JoinTypeOK
<1>2. ASSUME NEW q \in Prompts, AskQuestion(q)
      PROVE  JoinIInv'
  <2>1. Move /\ asked' = q /\ wire' \in {Append(wire, q), wire} /\ UNCHANGED <<mine, tab, gets>>
    BY <1>2 DEF AskQuestion
  <2>2. moves' \in 0..MaxMoves /\ \A p \in Prompts : mine[p] <= moves'
    BY <1>0, <2>1, MoveTyped DEF Counts
  <2>3. wire' \in Seq(Prompts)
    BY <1>0, <2>1, AppendProperties
  <2> QED BY <1>0, <2>1, <2>2, <2>3 DEF JoinIInv, JoinTypeOK
<1>3. ASSUME NEW q \in Prompts, OtherTabAnswers(q)
      PROVE  JoinIInv'
  BY <1>0, <1>3, OneMoreOfMine, MoveTyped DEF OtherTabAnswers, JoinIInv, JoinTypeOK
<1>4. ASSUME NEW g \in gets, GetRead(g)
      PROVE  JoinIInv'
  <2>1. MyCount(asked) \in Counts
    BY <1>0, <1>00 DEF MyCount, Counts
  <2>2. [read |-> TRUE, q |-> asked, n |-> MyCount(asked)] \in Get
    BY <1>0, <2>1 DEF Get
  <2> QED BY <1>0, <1>4, <2>2 DEF GetRead, JoinIInv, JoinTypeOK
<1>5. ASSUME NEW g \in gets, GetArrives(g)
      PROVE  JoinIInv'
  <2>1. [tab EXCEPT !.topic = TRUE, !.q = g.q, !.submitted = g.n] \in Tab
    BY <1>0 DEF Tab, Get
  <2> QED BY <1>0, <1>5, <2>1, NewGetTyped DEF GetArrives, JoinIInv, JoinTypeOK
<1>6. ASSUME NEW g \in gets, GetFails(g)
      PROVE  JoinIInv'
  <2>1. moves' \in 0..MaxMoves /\ \A p \in Prompts : mine[p] <= moves'
    BY <1>0, <1>6, MoveTyped DEF GetFails, Counts
  <2> QED BY <1>0, <1>6, <2>1, NewGetTyped DEF GetFails, JoinIInv, JoinTypeOK
<1>7. CASE TabConnects
  <2>1. tab' \in Tab /\ gets' \subseteq Get
    BY <1>0, <1>7, NewGetTyped DEF TabConnects, Tab
  <2> QED BY <1>0, <1>7, <2>1 DEF TabConnects, JoinIInv, JoinTypeOK
<1>8. CASE TabJoins
  <2>1. tab' \in Tab
    BY <1>0, <1>8 DEF TabJoins, Tab
  <2> QED BY <1>0, <1>8, <2>1 DEF TabJoins, JoinIInv, JoinTypeOK
<1>9. CASE TabDisconnects
  <2>1. tab' \in Tab /\ wire' \in Seq(Prompts)
    BY <1>0, <1>9, EmptySeq DEF TabDisconnects, Tab
  <2>2. moves' \in 0..MaxMoves /\ \A p \in Prompts : mine[p] <= moves'
    BY <1>0, <1>9, MoveTyped DEF TabDisconnects, Counts
  <2> QED BY <1>0, <1>9, <2>1, <2>2 DEF TabDisconnects, JoinIInv, JoinTypeOK
<1>10. CASE TabGraceEnds
  <2>1. tab' \in Tab
    BY <1>0, <1>10 DEF TabGraceEnds, Tab
  <2> QED BY <1>0, <1>10, <2>1 DEF TabGraceEnds, JoinIInv, JoinTypeOK
<1>11. CASE TabPolls
  BY <1>0, <1>11, NewGetTyped DEF TabPolls, JoinIInv, JoinTypeOK
<1>12. CASE Changed
  <2>1. Head(wire) \in Prompts /\ wire' \in Seq(Prompts)
    BY <1>0, <1>12, HeadTailProperties DEF Changed
  <2>2. tab' \in Tab
    BY <1>0, <1>00, <1>12, <2>1 DEF Changed, Tab
  <2> QED BY <1>0, <1>12, <2>1, <2>2 DEF Changed, JoinIInv, JoinTypeOK
<1>13. CASE Send
  <2>1. tab.q \in Prompts /\ Move /\ mine' = [mine EXCEPT ![tab.q] = @ + 1] /\ UNCHANGED <<asked, gets, wire>>
        /\ tab' = [tab EXCEPT !.sending = tab.q, !.taken = mine'[tab.q]]
    BY <1>0, <1>13 DEF Send, Tab
  <2>2. mine' \in [Prompts -> Counts] /\ mine'[tab.q] \in Counts /\ \A p \in Prompts : mine'[p] <= moves'
    BY <2>1, OneMoreOfMine
  <2>3. tab' \in Tab
    BY <1>0, <2>1, <2>2 DEF Tab
  <2>4. moves' \in 0..MaxMoves
    BY <2>1, MoveTyped
  <2> QED BY <1>0, <2>1, <2>2, <2>3, <2>4 DEF JoinIInv, JoinTypeOK
<1>14. CASE SendAnswered
  <2>1. tab' \in Tab
    BY <1>0, <1>00, <1>14 DEF SendAnswered, Tab
  <2> QED BY <1>0, <1>14, <2>1 DEF SendAnswered, JoinIInv, JoinTypeOK
<1> QED BY <1>1, <1>2, <1>3, <1>4, <1>5, <1>6, <1>7, <1>8, <1>9, <1>10, <1>11, <1>12, <1>13, <1>14 DEF JoinNext

-----------------------------------------------------------------------------
(* The bell.  A list request that was read holds a page, and a count.      *)

Listed == [id : Ids, read : BOOLEAN]
APage == {list \in SUBSET Listed : IsFiniteSet(list) /\ Cardinality(list) <= PAGE}
ListLoad == [items : APage \cup {NotYet}, count : 0..MaxNotices \cup {NotYet}, on : BOOLEAN]

BellIInv ==
  /\ notices \in Seq(BOOLEAN) /\ Len(notices) <= MaxNotices
  /\ items \in APage /\ unreadCount \in 0..MaxNotices /\ (seenIds = NotYet \/ seenIds \subseteq Ids)
  /\ toasts \in [Ids -> Nat] /\ listLoads \in [Loads -> ListLoad] /\ overlapped \in BOOLEAN
  /\ marks \subseteq Ids \cup {AllOfThem} /\ clicks \in 0..MaxClicks

LEMMA BellHolds == BellIInv => BellTypeOK
BY DEF BellIInv, BellTypeOK, APage, Listed

LEMMA BellInitInv == BellInit => BellIInv
<1> SUFFICES ASSUME BellInit PROVE BellIInv
  OBVIOUS
<1>1. 0 \in 0..MaxNotices /\ 0 \in 0..MaxClicks /\ 0 <= MaxNotices
  BY BellAssumption
<1>2. <<>> \in Seq(BOOLEAN) /\ Len(<<>>) = 0
  BY EmptySeq
<1>3. {} \in APage
  BY FS_EmptySet, BellAssumption DEF APage
<1>4. [i \in Loads |-> NoLoad] \in [Loads -> ListLoad]
  BY DEF NoLoad, ListLoad
<1> QED BY <1>1, <1>2, <1>3, <1>4 DEF BellInit, BellIInv

\* What is shown of some notifications is no more than they are.
LEMMA NoMoreShown ==
  ASSUME NEW S, IsFiniteSet(S), Cardinality(S) <= PAGE, NEW T, NEW f \in [S -> T], T \subseteq Listed,
         NEW list, list = {f[n] : n \in S}
  PROVE  list \in APage
<1>1. list = {f[n] : n \in S} /\ Cardinality(S) \in Nat /\ PAGE \in Nat
  BY FS_CardinalityType, BellAssumption
<1>2. f \in Surjection(S, list)
  BY <1>1 DEF Surjection
<1>3. IsFiniteSet(list) /\ Cardinality(list) <= Cardinality(S)
  BY <1>2, FS_Surjection
<1>4. Cardinality(list) \in Nat
  BY <1>3, FS_CardinalityType
<1>5. Cardinality(list) <= PAGE
  BY <1>1, <1>3, <1>4
<1> QED BY <1>1, <1>3, <1>5 DEF APage

\* The last p of n things are p.
LEMMA LastOfThem ==
  ASSUME NEW n \in Nat, NEW p \in Nat
  PROVE  IsFiniteSet((n - p + 1)..n) /\ Cardinality((n - p + 1)..n) = p
<1>1. PICK m \in Int : m = n - p + 1
  OBVIOUS
<1>2. IsFiniteSet(m..n) /\ Cardinality(m..n) = IF m > n THEN 0 ELSE n - m + 1
  BY FS_Interval
<1>3. (IF m > n THEN 0 ELSE n - m + 1) = p
  BY <1>1
<1> QED BY <1>1, <1>2, <1>3

LEMMA APageIsListed ==
  ASSUME notices \in Seq(BOOLEAN), Len(notices) <= MaxNotices
  PROVE  PageOfNotices \in APage
<1>1. Len(notices) \in Nat /\ DOMAIN notices = 1..Len(notices) /\ PAGE \in Nat /\ MaxNotices \in Nat
  BY LenProperties, BellAssumption
<1> DEFINE k == Len(notices) - PAGE + 1
           S == {n \in DOMAIN notices : n > Len(notices) - PAGE}
<1>2. k \in Int /\ S \subseteq k..Len(notices)
  BY <1>1
<1>3. IsFiniteSet(k..Len(notices)) /\ Cardinality(k..Len(notices)) = PAGE
  BY <1>1, LastOfThem
<1>4. IsFiniteSet(S) /\ Cardinality(S) <= PAGE
  BY <1>2, <1>3, FS_Subset
<1> DEFINE f == [n \in S |-> [id |-> n, read |-> notices[n]]]
<1>5. \A n \in S : n \in Ids /\ notices[n] \in BOOLEAN
  BY <1>1, ElementOfSeq DEF Ids
<1>6. f \in [S -> Listed]
  BY <1>5 DEF Listed
<1>7. PageOfNotices = {f[n] : n \in S}
  BY DEF PageOfNotices
<1> HIDE DEF f, S
<1> QED BY <1>4, <1>6, <1>7, NoMoreShown

LEMMA UnreadBounded ==
  ASSUME notices \in Seq(BOOLEAN), Len(notices) <= MaxNotices
  PROVE  Unread \in 0..MaxNotices
<1>1. Len(notices) \in Nat /\ DOMAIN notices = 1..Len(notices) /\ MaxNotices \in Nat
  BY LenProperties, BellAssumption
<1>2. IsFiniteSet(1..Len(notices)) /\ Cardinality(1..Len(notices)) = Len(notices)
  <2> DEFINE k == Len(notices)
  <2>1. k \in Nat
    BY <1>1
  <2> HIDE DEF k
  <2>2. IsFiniteSet(1..k) /\ Cardinality(1..k) = k
    BY <2>1, FS_Interval
  <2> QED BY <2>2 DEF k
<1>3. {n \in DOMAIN notices : ~notices[n]} \subseteq 1..Len(notices)
  BY <1>1
<1>4. Unread \in Nat /\ Unread <= Len(notices)
  BY <1>2, <1>3, FS_Subset, FS_CardinalityType DEF Unread
<1> QED BY <1>1, <1>4

LEMMA ClickTyped ==
  ASSUME BellIInv, Click
  PROVE  clicks' \in 0..MaxClicks
BY BellAssumption DEF BellIInv, Click

LEMMA BellStep == BellIInv /\ [BellNext]_bellVars => BellIInv'
<1> SUFFICES ASSUME BellIInv, [BellNext]_bellVars PROVE BellIInv'
  OBVIOUS
<1>0. /\ notices \in Seq(BOOLEAN) /\ Len(notices) <= MaxNotices
      /\ items \in APage /\ unreadCount \in 0..MaxNotices /\ (seenIds = NotYet \/ seenIds \subseteq Ids)
      /\ toasts \in [Ids -> Nat] /\ listLoads \in [Loads -> ListLoad] /\ overlapped \in BOOLEAN
      /\ marks \subseteq Ids \cup {AllOfThem} /\ clicks \in 0..MaxClicks
  BY DEF BellIInv
<1>1. CASE UNCHANGED bellVars
  BY <1>0, <1>1 DEF bellVars, BellIInv
<1>2. CASE Notify
  <2>1. notices' = Append(notices, FALSE) /\ Len(notices) < MaxNotices
        /\ UNCHANGED <<items, unreadCount, seenIds, toasts, listLoads, marks, overlapped, clicks>>
    BY <1>2 DEF Notify
  <2>2. notices' \in Seq(BOOLEAN) /\ Len(notices') = Len(notices) + 1
    BY <1>0, <2>1, AppendProperties
  <2>3. Len(notices') <= MaxNotices
    BY <1>0, <2>1, <2>2, LenProperties, BellAssumption
  <2> QED BY <1>0, <2>1, <2>2, <2>3 DEF BellIInv
<1>3. CASE MarkAllRead
  <2>1. /\ items' = {[n EXCEPT !.read = TRUE] : n \in items} /\ unreadCount' = 0
        /\ marks' = marks \cup {AllOfThem} /\ Click
        /\ UNCHANGED <<notices, seenIds, toasts, listLoads, overlapped>>
    BY <1>3 DEF MarkAllRead
  <2> DEFINE f == [n \in items |-> [n EXCEPT !.read = TRUE]]
  <2>2. f \in [items -> Listed] /\ items' = {f[n] : n \in items}
    BY <1>0, <2>1 DEF APage, Listed
  <2> HIDE DEF f
  <2>3. IsFiniteSet(items) /\ Cardinality(items) <= PAGE
    BY <1>0 DEF APage
  <2>5. items' \in APage
    BY <2>2, <2>3, NoMoreShown
  <2>4. unreadCount' \in 0..MaxNotices
    BY <2>1, BellAssumption
  <2> QED BY <1>0, <2>1, <2>5, <2>4, ClickTyped DEF BellIInv
<1>4. ASSUME NEW mark \in marks, MarkRead(mark)
      PROVE  BellIInv'
  <2>1. /\ marks' = marks \ {mark}
        /\ UNCHANGED <<items, unreadCount, seenIds, toasts, listLoads, overlapped, clicks>>
    BY <1>4 DEF MarkRead
  <2>2. notices' \in Seq(BOOLEAN) /\ Len(notices') <= MaxNotices
    <3>1. CASE notices' = [n \in DOMAIN notices |-> notices[n] \/ mark \in {n, AllOfThem}]
      <4>1. Len(notices) \in Nat /\ DOMAIN notices = 1..Len(notices)
        BY <1>0, LenProperties
      <4>2. notices' \in [1..Len(notices) -> BOOLEAN]
        BY <3>1, <4>1
      <4>3. notices' \in Seq(BOOLEAN)
        BY <4>1, <4>2, SeqDef
      <4>4. Len(notices') \in Nat /\ 1..Len(notices') = 1..Len(notices)
        BY <4>2, <4>3, LenProperties
      <4>5. Len(notices') = Len(notices)
        BY <4>1, <4>4, SameBound
      <4> QED BY <1>0, <4>3, <4>5
    <3> QED BY <1>0, <1>4, <3>1 DEF MarkRead
  <2> QED BY <1>0, <2>1, <2>2 DEF BellIInv
<1>5. ASSUME NEW i \in Loads, Load(i)
      PROVE  BellIInv'
  <2>1. listLoads' = [listLoads EXCEPT ![i].on = TRUE]
        /\ UNCHANGED <<notices, items, unreadCount, seenIds, toasts, marks, clicks>>
        /\ overlapped' = (overlapped \/ \E j \in Loads : listLoads[j].on)
    BY <1>5 DEF Load
  <2>2. listLoads' \in [Loads -> ListLoad]
    BY <1>0, <2>1 DEF ListLoad
  <2> QED BY <1>0, <2>1, <2>2 DEF BellIInv
<1>6. ASSUME NEW i \in Loads, ListItems(i) \/ ListCount(i)
      PROVE  BellIInv'
  <2>1. UNCHANGED <<notices, items, unreadCount, seenIds, toasts, marks, overlapped, clicks>>
    BY <1>6 DEF ListItems, ListCount
  <2>2. PICK list \in APage : list = PageOfNotices
    BY <1>0, APageIsListed
  <2>3. PICK count \in 0..MaxNotices : count = Unread
    BY <1>0, UnreadBounded
  <2>4. listLoads' \in {[listLoads EXCEPT ![i].items = list], [listLoads EXCEPT ![i].count = count]}
    BY <1>6, <2>2, <2>3 DEF ListItems, ListCount
  <2>5. listLoads' \in [Loads -> ListLoad]
    BY <1>0, <2>4 DEF ListLoad
  <2> QED BY <1>0, <2>1, <2>5 DEF BellIInv
<1>7. ASSUME NEW i \in Loads, LoadFails(i)
      PROVE  BellIInv'
  <2>1. NoLoad \in ListLoad
    BY DEF NoLoad, ListLoad
  <2>2. listLoads' \in [Loads -> ListLoad] /\ UNCHANGED <<notices, items, unreadCount, seenIds, toasts, marks, overlapped>>
    BY <1>0, <1>7, <2>1 DEF LoadFails
  <2> QED BY <1>0, <1>7, <2>2, ClickTyped DEF LoadFails, BellIInv
<1>8. ASSUME NEW i \in Loads, LoadArrives(i)
      PROVE  BellIInv'
  <2>1. NoLoad \in ListLoad /\ listLoads[i] \in ListLoad
    BY <1>0 DEF NoLoad, ListLoad
  <2>2. listLoads' \in [Loads -> ListLoad] /\ UNCHANGED <<notices, marks, overlapped, clicks>>
    BY <1>0, <1>8, <2>1 DEF LoadArrives
  <2>3. listLoads[i].items \in APage /\ listLoads[i].count \in 0..MaxNotices
    BY <1>8, <2>1 DEF LoadArrives, ListLoad
  <2>4. items' \in APage /\ unreadCount' \in 0..MaxNotices
    BY <1>8, <2>3 DEF LoadArrives, CountShown
  <2>5. seenIds' \subseteq Ids
    BY <1>8, <2>3 DEF LoadArrives, IdsOf, APage, Listed
  <2>6. toasts' \in [Ids -> Nat]
    BY <1>0, <1>8 DEF LoadArrives
  <2> QED BY <1>0, <2>2, <2>4, <2>5, <2>6 DEF BellIInv
<1>9. ASSUME NEW n \in items, OpenNotification(n)
      PROVE  BellIInv'
  <2>1. /\ items' = (items \ {n}) \cup {[n EXCEPT !.read = TRUE]} /\ marks' = marks \cup {n.id} /\ Click
        /\ unreadCount' = IF unreadCount = 0 THEN 0 ELSE unreadCount - 1
        /\ UNCHANGED <<notices, seenIds, toasts, listLoads, overlapped>>
    BY <1>9 DEF OpenNotification
  <2>2. items \subseteq Listed /\ n \in Listed /\ n.id \in Ids /\ [n EXCEPT !.read = TRUE] \in Listed
    BY <1>0 DEF APage, Listed
  <2>3. IsFiniteSet(items) /\ Cardinality(items) <= PAGE /\ PAGE \in Nat
    BY <1>0, BellAssumption DEF APage
  <2> DEFINE f == [x \in items |-> IF x = n THEN [n EXCEPT !.read = TRUE] ELSE x]
  <2>4. f \in [items -> Listed] /\ items' = {f[x] : x \in items}
    BY <2>1, <2>2
  <2> HIDE DEF f
  <2>5. items' \in APage
    BY <2>3, <2>4, NoMoreShown
  <2>6. unreadCount' \in 0..MaxNotices
    BY <1>0, <2>1, BellAssumption
  <2> QED BY <1>0, <2>1, <2>2, <2>5, <2>6, ClickTyped DEF BellIInv
<1> QED BY <1>1, <1>2, <1>3, <1>4, <1>5, <1>6, <1>7, <1>8, <1>9 DEF BellNext

-----------------------------------------------------------------------------
(* The recordings table.  An answer on its way is a state of what was      *)
(* asked for.                                                              *)

BothKinds == {"logs", "drive"}
StatesOf(kind) == IF kind = "logs" THEN LogStates ELSE DriveStates
Has == [logs : LogStates, drive : DriveStates]
Slots(kind) == [Requests -> {"off", "asked"} \cup StatesOf(kind)]

PanelIInv ==
  /\ serverHas \in Has /\ shown \in Has
  /\ DOMAIN inFlight = BothKinds /\ inFlight = [kind \in BothKinds |-> inFlight[kind]]
  /\ \A kind \in BothKinds : inFlight[kind] \in Slots(kind)
  /\ posts \in [Posts -> {"idle", "sent", "done", "refused"}]
  /\ checking \in BOOLEAN /\ serverSteps \in 0..MaxServerSteps /\ failures \in 0..MaxFailures

LEMMA PanelHolds == PanelIInv => PanelTypeOK
<1> SUFFICES ASSUME PanelIInv PROVE PanelTypeOK
  OBVIOUS
<1>1. \A kind \in BothKinds : inFlight[kind] \in [Requests -> {"off", "asked"} \cup LogStates \cup DriveStates]
  BY DEF PanelIInv, Slots, StatesOf
<1>2. inFlight \in [BothKinds -> [Requests -> {"off", "asked"} \cup LogStates \cup DriveStates]]
  BY <1>1 DEF PanelIInv
<1> QED BY <1>2 DEF PanelIInv, PanelTypeOK, Has, BothKinds

LEMMA PanelInitInv == PanelInit => PanelIInv
<1> SUFFICES ASSUME PanelInit PROVE PanelIInv
  OBVIOUS
<1>1. 0 \in 0..MaxServerSteps /\ 0 \in 0..MaxFailures
  BY PanelAssumption
<1>2. serverHas \in Has /\ shown \in Has
  BY DEF PanelInit, Has, LogStates, DriveStates
<1>3. inFlight = [kind \in BothKinds |-> [i \in Requests |-> "off"]]
  BY DEF PanelInit, BothKinds
<1>4. \A kind \in BothKinds : inFlight[kind] \in Slots(kind)
  BY <1>3 DEF Slots
<1>5. posts \in [Posts -> {"idle", "sent", "done", "refused"}] /\ checking = FALSE
  BY DEF PanelInit
<1>6. serverSteps = 0 /\ failures = 0
  BY DEF PanelInit
<1> QED BY <1>1, <1>2, <1>3, <1>4, <1>5, <1>6 DEF PanelIInv

\* One slot of one kind is filled.
LEMMA SlotFilled ==
  ASSUME PanelIInv, NEW kind \in BothKinds, NEW i \in Requests, NEW s \in {"off", "asked"} \cup StatesOf(kind),
         inFlight' = [inFlight EXCEPT ![kind][i] = s]
  PROVE  /\ DOMAIN inFlight' = BothKinds /\ inFlight' = [k \in BothKinds |-> inFlight'[k]]
         /\ \A k \in BothKinds : inFlight'[k] \in Slots(k)
<1>1. /\ DOMAIN inFlight = BothKinds /\ inFlight = [k \in BothKinds |-> inFlight[k]]
      /\ \A k \in BothKinds : inFlight[k] \in Slots(k)
  BY DEF PanelIInv
<1>2. inFlight' = [k \in BothKinds |-> IF k = kind THEN [inFlight[kind] EXCEPT ![i] = s] ELSE inFlight[k]]
  BY <1>1
<1>3. [inFlight[kind] EXCEPT ![i] = s] \in Slots(kind)
  BY <1>1 DEF Slots
<1> QED BY <1>1, <1>2, <1>3

LEMMA FetchedTyped ==
  ASSUME PanelIInv, inFlight' = Fetched
  PROVE  /\ DOMAIN inFlight' = BothKinds /\ inFlight' = [k \in BothKinds |-> inFlight'[k]]
         /\ \A k \in BothKinds : inFlight'[k] \in Slots(k)
<1>1. DOMAIN inFlight = BothKinds /\ \A k \in BothKinds : inFlight[k] \in Slots(k)
  BY DEF PanelIInv
<1>2. inFlight' = [k \in BothKinds |-> [inFlight[k] EXCEPT ![FirstFree(k)] = "asked"]]
  BY <1>1 DEF Fetched
<1>3. \A k \in BothKinds : [inFlight[k] EXCEPT ![FirstFree(k)] = "asked"] \in Slots(k)
  BY <1>1 DEF Slots
<1> QED BY <1>2, <1>3

\* A state of the kind, put in its field.
LEMMA FieldTyped ==
  ASSUME NEW r \in Has
  PROVE  /\ \A s \in LogStates : [r EXCEPT !.logs = s] \in Has
         /\ \A s \in DriveStates : [r EXCEPT !.drive = s] \in Has
         /\ r.logs \in LogStates /\ r.drive \in DriveStates
         /\ \A kind \in BothKinds : r[kind] \in StatesOf(kind)
BY DEF Has, StatesOf, BothKinds

LEMMA StatesNamed ==
  /\ {"UPLOADING", "LINKED", "none", "COMPLETED"} \subseteq LogStates /\ "pending" \in DriveStates
BY DEF LogStates, DriveStates

LEMMA OneMoreFailure ==
  ASSUME PanelIInv, failures < MaxFailures, failures' = failures + 1
  PROVE  failures' \in 0..MaxFailures
BY PanelAssumption DEF PanelIInv

LEMMA ServerStepKeeps ==
  ASSUME PanelIInv, NEW r \in Has, ServerStep(r)
  PROVE  PanelIInv'
<1>1. serverSteps' \in 0..MaxServerSteps
  BY PanelAssumption DEF PanelIInv, ServerStep
<1>2. serverHas' = r /\ UNCHANGED <<shown, inFlight, checking, posts, failures>>
  BY DEF ServerStep
<1> QED BY <1>1, <1>2 DEF PanelIInv

LEMMA PanelStep == PanelIInv /\ [PanelNext]_panelVars => PanelIInv'
<1> SUFFICES ASSUME PanelIInv, [PanelNext]_panelVars PROVE PanelIInv'
  OBVIOUS
<1>0. /\ serverHas \in Has /\ shown \in Has
      /\ DOMAIN inFlight = BothKinds /\ inFlight = [kind \in BothKinds |-> inFlight[kind]]
      /\ \A kind \in BothKinds : inFlight[kind] \in Slots(kind)
      /\ posts \in [Posts -> {"idle", "sent", "done", "refused"}]
      /\ checking \in BOOLEAN /\ serverSteps \in 0..MaxServerSteps /\ failures \in 0..MaxFailures
  BY DEF PanelIInv
<1>1. CASE UNCHANGED panelVars
  BY <1>0, <1>1 DEF panelVars, PanelIInv
<1>2. ASSUME NEW s \in LogStates, LogMoves(s)
      PROVE  PanelIInv'
  BY <1>0, <1>2, FieldTyped, ServerStepKeeps DEF LogMoves
<1>3. ASSUME NEW s \in DriveStates, BackupMoves(s)
      PROVE  PanelIInv'
  BY <1>0, <1>3, FieldTyped, ServerStepKeeps DEF BackupMoves
<1>4. CASE RefreshStatus
  <2>1. serverHas' \in Has
    BY <1>0, <1>4, FieldTyped, StatesNamed DEF RefreshStatus
  <2>2. checking' = FALSE /\ UNCHANGED <<shown, inFlight, posts, serverSteps, failures>>
    BY <1>4 DEF RefreshStatus
  <2> QED BY <1>0, <2>1, <2>2 DEF PanelIInv
<1>5. ASSUME NEW p \in Posts, PostArrives(p)
      PROVE  PanelIInv'
  <2>1. UNCHANGED <<shown, inFlight, checking, serverSteps>>
    BY <1>5 DEF PostArrives
  <2>2. posts' \in [Posts -> {"idle", "sent", "done", "refused"}]
    BY <1>0, <1>5 DEF PostArrives
  <2>3. failures' \in 0..MaxFailures
    BY <1>0, <1>5, OneMoreFailure DEF PostArrives
  <2>4. p = "sync" \/ p = "backup" \/ p = "link" \/ p = "unlink"
    BY DEF Posts
  <2>5. /\ [serverHas EXCEPT !.logs = "UPLOADING"] \in Has /\ [serverHas EXCEPT !.drive = "pending"] \in Has
        /\ [serverHas EXCEPT !.logs = "LINKED"] \in Has /\ [serverHas EXCEPT !.logs = "none"] \in Has
    BY <1>0, FieldTyped, StatesNamed
  <2>6. serverHas' \in Has
    BY <1>0, <1>5, <2>4, <2>5 DEF PostArrives
  <2> QED BY <1>0, <2>1, <2>2, <2>3, <2>6 DEF PanelIInv
<1>6. ASSUME NEW p \in Posts, ClickPost(p)
      PROVE  PanelIInv'
  <2>1. UNCHANGED <<serverHas, shown, inFlight, checking, serverSteps>> /\ posts' = [posts EXCEPT ![p] = "sent"]
        /\ failures < MaxFailures /\ failures' = failures + 1
    BY <1>6 DEF ClickPost
  <2>2. failures' \in 0..MaxFailures
    BY <2>1, OneMoreFailure
  <2>3. posts' \in [Posts -> {"idle", "sent", "done", "refused"}]
    BY <1>0, <2>1
  <2> QED BY <1>0, <2>1, <2>2, <2>3 DEF PanelIInv
<1>7. ASSUME NEW p \in Posts, PostAnswered(p)
      PROVE  PanelIInv'
  <2>1. UNCHANGED <<serverHas, checking, serverSteps, failures>> /\ posts' = [posts EXCEPT ![p] = "idle"]
        /\ inFlight' \in {Fetched, inFlight} /\ shown' \in {[shown EXCEPT !.drive = "pending"], shown}
    BY <1>7 DEF PostAnswered
  <2>2. shown' \in Has
    BY <1>0, <2>1, FieldTyped, StatesNamed
  <2>3. /\ DOMAIN inFlight' = BothKinds /\ inFlight' = [k \in BothKinds |-> inFlight'[k]]
        /\ \A k \in BothKinds : inFlight'[k] \in Slots(k)
    BY <1>0, <2>1, FetchedTyped
  <2>4. posts' \in [Posts -> {"idle", "sent", "done", "refused"}]
    BY <1>0, <2>1
  <2> QED BY <1>0, <2>1, <2>2, <2>3, <2>4 DEF PanelIInv
<1>8. CASE Poll15s
  <2>1. UNCHANGED <<serverHas, shown, posts, serverSteps, failures>> /\ inFlight' = Fetched
        /\ checking' = (checking \/ shown.logs = "PROCESSING")
    BY <1>8 DEF Poll15s
  <2>2. checking' \in BOOLEAN
    BY <1>0, <2>1
  <2>3. /\ DOMAIN inFlight' = BothKinds /\ inFlight' = [k \in BothKinds |-> inFlight'[k]]
        /\ \A k \in BothKinds : inFlight'[k] \in Slots(k)
    BY <2>1, FetchedTyped
  <2> QED BY <1>0, <2>1, <2>2, <2>3 DEF PanelIInv
<1>9. CASE FetchAll
  <2>1. UNCHANGED <<serverHas, shown, checking, posts, serverSteps>> /\ inFlight' = Fetched
        /\ failures < MaxFailures /\ failures' = failures + 1
    BY <1>9 DEF FetchAll
  <2>2. failures' \in 0..MaxFailures
    BY <2>1, OneMoreFailure
  <2>3. /\ DOMAIN inFlight' = BothKinds /\ inFlight' = [k \in BothKinds |-> inFlight'[k]]
        /\ \A k \in BothKinds : inFlight'[k] \in Slots(k)
    BY <2>1, FetchedTyped
  <2> QED BY <1>0, <2>1, <2>2, <2>3 DEF PanelIInv
<1>10. ASSUME NEW kind \in BothKinds, NEW i \in Requests, PanelRead(kind, i)
       PROVE  PanelIInv'
  <2>1. PICK s \in {"off", "asked"} \cup StatesOf(kind) : s = serverHas[kind]
    BY <1>0, FieldTyped
  <2>2. inFlight' = [inFlight EXCEPT ![kind][i] = s]
        /\ UNCHANGED <<serverHas, shown, checking, posts, serverSteps, failures>>
    BY <1>10, <2>1 DEF PanelRead
  <2>3. /\ DOMAIN inFlight' = BothKinds /\ inFlight' = [k \in BothKinds |-> inFlight'[k]]
        /\ \A k \in BothKinds : inFlight'[k] \in Slots(k)
    BY <2>2, SlotFilled
  <2> QED BY <1>0, <2>2, <2>3 DEF PanelIInv
<1>11. ASSUME NEW kind \in BothKinds, NEW i \in Requests, PanelArrives(kind, i) \/ PanelFails(kind, i)
       PROVE  PanelIInv'
  <2>1. inFlight' = [inFlight EXCEPT ![kind][i] = "off"]
        /\ UNCHANGED <<serverHas, checking, posts, serverSteps>>
    BY <1>11 DEF PanelArrives, PanelFails
  <2>2. /\ DOMAIN inFlight' = BothKinds /\ inFlight' = [k \in BothKinds |-> inFlight'[k]]
        /\ \A k \in BothKinds : inFlight'[k] \in Slots(k)
    BY <2>1, SlotFilled
  <2>3. failures' \in 0..MaxFailures
    BY <1>0, <1>11, OneMoreFailure DEF PanelArrives, PanelFails
  <2>4. shown' \in Has
    <3>1. CASE PanelFails(kind, i)
      BY <1>0, <3>1 DEF PanelFails
    <3>2. CASE PanelArrives(kind, i)
      <4>1. PICK s \in StatesOf(kind) : s = inFlight[kind][i]
        BY <1>0, <3>2 DEF PanelArrives, Slots
      <4>2. shown' = [shown EXCEPT ![kind] = s]
        BY <3>2, <4>1 DEF PanelArrives
      <4>3. CASE kind = "logs"
        BY <1>0, <4>1, <4>2, <4>3, FieldTyped DEF StatesOf
      <4>4. CASE kind = "drive"
        BY <1>0, <4>1, <4>2, <4>4, FieldTyped DEF StatesOf
      <4> QED BY <4>3, <4>4 DEF BothKinds
    <3> QED BY <1>11, <3>1, <3>2
  <2> QED BY <1>0, <2>1, <2>2, <2>3, <2>4 DEF PanelIInv
<1> QED BY <1>0, <1>1, <1>2, <1>3, <1>4, <1>5, <1>6, <1>7, <1>8, <1>9, <1>10, <1>11 DEF PanelNext

-----------------------------------------------------------------------------
(* The presenter's screen again.  Fetches are few because an effect starts *)
(* only where there is room, and a socket left in the room, or a device    *)
(* that leaves while it joins, is an event each.                           *)

Gone == {a \in Listeners : device[a] = "left"}

PresentBounds ==
  /\ IsFiniteSet(fetches) /\ Cardinality(fetches) <= MaxFetches + 1
  /\ ghosts + Cardinality(Gone) <= events

LEMMA GoneIsFinite == IsFiniteSet(Gone) /\ Cardinality(Gone) \in Nat
<1>1. IsFiniteSet(Listeners) /\ Gone \subseteq Listeners
  BY PresentAssumption DEF Gone
<1> QED BY <1>1, FS_Subset, FS_CardinalityType

LEMMA PresentHolds == PresentIInv /\ PresentBounds => PresentTypeOK
<1> SUFFICES ASSUME PresentIInv, PresentBounds PROVE PresentTypeOK
  OBVIOUS
<1>1. PresentTyped /\ MaxEvents \in Nat
  BY PresentAssumption DEF PresentIInv
<1>2. ghosts \in 0..MaxEvents
  BY <1>1, GoneIsFinite DEF PresentBounds, PresentTyped
<1>3. version \in [Slides -> Versions]
  BY <1>1 DEF PresentTyped, Versions
<1> QED BY <1>1, <1>2, <1>3 DEF PresentTypeOK, PresentTyped, PresentBounds

LEMMA PresentBoundsInit == PresentInit => PresentBounds
<1> SUFFICES ASSUME PresentInit PROVE PresentBounds
  OBVIOUS
<1>1. Gone = {} /\ fetches = {} /\ ghosts = 0 /\ events = 0
  BY DEF PresentInit, Gone
<1>2. IsFiniteSet({}) /\ Cardinality({}) = 0
  BY FS_EmptySet
<1> QED BY <1>1, <1>2, PresentAssumption DEF PresentBounds

\* A change of each element leaves no more of them.
LEMMA NoMoreThanBefore ==
  ASSUME NEW S, IsFiniteSet(S), NEW f, DOMAIN f = S, NEW T, T = {f[x] : x \in S}
  PROVE  IsFiniteSet(T) /\ Cardinality(T) <= Cardinality(S) /\ Cardinality(T) \in Nat
<1> DEFINE g == [x \in S |-> f[x]]
<1>1. g \in Surjection(S, T)
  BY DEF Surjection
<1>2. IsFiniteSet(T) /\ Cardinality(T) <= Cardinality(S)
  BY <1>1, FS_Surjection
<1> QED BY <1>2, FS_CardinalityType

LEMMA ShownFew ==
  ASSUME IsFiniteSet(fetches), Cardinality(fetches) < MaxFetches, NEW q, NEW next, Show(q, next)
  PROVE  IsFiniteSet(fetches') /\ Cardinality(fetches') <= MaxFetches + 1
<1>0. MaxFetches \in Nat /\ Cardinality(fetches) \in Nat
  BY PresentAssumption, FS_CardinalityType
<1>1. CASE UNCHANGED fetches
  BY <1>0, <1>1
<1>2. CASE fetches' = Cancelled \cup {NewFetch(q, TRUE)}
  <2> DEFINE f == [x \in fetches |-> [x EXCEPT !.cancelled = TRUE]]
  <2>1. DOMAIN f = fetches /\ Cancelled = {f[x] : x \in fetches}
    BY DEF Cancelled
  <2> HIDE DEF f
  <2>2. IsFiniteSet(Cancelled) /\ Cardinality(Cancelled) <= Cardinality(fetches) /\ Cardinality(Cancelled) \in Nat
    BY <2>1, NoMoreThanBefore
  <2>3. Cardinality(Cancelled) < MaxFetches
    BY <1>0, <2>2
  <2>4. IsFiniteSet(fetches') /\ Cardinality(fetches') <= MaxFetches
    BY <1>0, <1>2, <2>2, <2>3, RoomForOne
  <2>5. Cardinality(fetches') \in Nat
    BY <2>4, FS_CardinalityType
  <2> QED BY <1>0, <2>4, <2>5
<1> QED BY <1>1, <1>2 DEF Show

\* The fetches of a step: a new one where there is room, one less, or one that was read.
LEMMA StepFetches ==
  ASSUME PresentIInv, PresentBounds, [PresentNext]_presentVars
  PROVE  IsFiniteSet(fetches') /\ Cardinality(fetches') <= MaxFetches + 1
<1>0. /\ MaxFetches \in Nat /\ MaxFetches + 1 \in Nat /\ Cardinality(fetches) \in Nat
      /\ IsFiniteSet(fetches) /\ Cardinality(fetches) <= MaxFetches + 1
  BY PresentAssumption, FS_CardinalityType DEF PresentBounds
<1>1. CASE UNCHANGED fetches
  BY <1>0, <1>1
<1>2. ASSUME NEW f \in fetches, fetches' = fetches \ {f}
      PROVE  IsFiniteSet(fetches') /\ Cardinality(fetches') <= MaxFetches + 1
  BY <1>0, <1>2, OneLess
<1>3. ASSUME NEW f \in fetches, NEW g, fetches' = (fetches \ {f}) \cup {g}
      PROVE  IsFiniteSet(fetches') /\ Cardinality(fetches') <= MaxFetches + 1
  <2> DEFINE h == [x \in fetches |-> IF x = f THEN g ELSE x]
  <2>1. DOMAIN h = fetches /\ fetches' = {h[x] : x \in fetches}
    BY <1>3
  <2> HIDE DEF h
  <2>2. IsFiniteSet(fetches') /\ Cardinality(fetches') <= Cardinality(fetches) /\ Cardinality(fetches') \in Nat
    BY <1>0, <2>1, NoMoreThanBefore
  <2> QED BY <1>0, <2>2
<1>4. ASSUME NEW g, Cardinality(fetches) < MaxFetches, fetches' = fetches \cup {g}
      PROVE  IsFiniteSet(fetches') /\ Cardinality(fetches') <= MaxFetches + 1
  <2>1. IsFiniteSet(fetches') /\ Cardinality(fetches') <= MaxFetches
    BY <1>0, <1>4, RoomForOne
  <2>2. Cardinality(fetches') \in Nat
    BY <2>1, FS_CardinalityType
  <2> QED BY <1>0, <2>1, <2>2
<1>5. CASE Connects
  <2>1. fetches' = fetches \/ \E g : fetches' = fetches \cup {g}
    BY <1>5 DEF Connects
  <2>2. IsFiniteSet(fetches')
    BY <1>0, <2>1, FS_AddElement
  <2>3. Cardinality(fetches') <= MaxFetches /\ Cardinality(fetches') \in Nat
    BY <1>5, <2>2, FS_CardinalityType DEF Connects
  <2> QED BY <1>0, <2>2, <2>3
<1>6. CASE QuestionPosted
  BY <1>0, <1>6, ShownFew DEF QuestionPosted
<1>7. CASE Receive
  <2>1. UNCHANGED fetches \/ (Cardinality(fetches) < MaxFetches /\ Show(Head(line).q, page))
    <3>1. Head(line) \in Message
      BY <1>7, HeadTailProperties DEF Receive, PresentIInv, PresentTyped
    <3>2. Head(line).type \in {"update", "joined", "changed"}
      BY <3>1 DEF Message
    <3> QED BY <1>7, <3>2 DEF Receive
  <2> QED BY <1>0, <2>1, <1>1, ShownFew
<1>8. CASE PollOnce \/ Poll
  BY <1>4, <1>8 DEF PollOnce, Poll
<1>9. ASSUME NEW f \in fetches, FetchRead(f) \/ FetchArrives(f) \/ FetchFails(f)
      PROVE  IsFiniteSet(fetches') /\ Cardinality(fetches') <= MaxFetches + 1
  BY <1>2, <1>3, <1>9 DEF FetchRead, FetchArrives, FetchFails
<1>10. ASSUME NEW q \in Slides, Answered(q) \/ PressQuestion(q) \/ ChangeQuestion(q)
       PROVE  UNCHANGED fetches
  BY <1>10 DEF Answered, PressQuestion, ChangeQuestion
<1>11. ASSUME NEW e \in emitting, NEW v \in Versions, EmitSnapshot(e, v)
       PROVE  UNCHANGED fetches
  BY <1>11 DEF EmitSnapshot
<1>12. ASSUME NEW a \in Listeners, DeviceJoins(a) \/ JoinEnds(a) \/ DeviceLeaves(a)
       PROVE  UNCHANGED fetches
  BY <1>12 DEF DeviceJoins, JoinEnds, DeviceLeaves
<1>13. CASE PresenterJoins \/ Disconnects \/ GraceEnds
  BY <1>0, <1>13 DEF PresenterJoins, Disconnects, GraceEnds
<1> QED BY <1>1, <1>5, <1>6, <1>7, <1>8, <1>9, <1>10, <1>11, <1>12, <1>13 DEF PresentNext, presentVars

\* One device more, or less, that has left while it joined.
LEMMA GoneNext ==
  ASSUME PresentTyped, NEW a \in Listeners, NEW s, device' = [device EXCEPT ![a] = s]
  PROVE  /\ s = "left" => Gone' = Gone \cup {a}
         /\ s # "left" => Gone' = Gone \ {a}
BY DEF Gone, PresentTyped

LEMMA StepGhosts ==
  ASSUME PresentIInv, PresentBounds, [PresentNext]_presentVars
  PROVE  ghosts' + Cardinality(Gone') <= events'
<1>0. PresentTyped /\ ghosts \in Nat /\ events \in Nat /\ ghosts + Cardinality(Gone) <= events
  BY DEF PresentIInv, PresentTyped, PresentBounds
<1>00. IsFiniteSet(Gone) /\ Cardinality(Gone) \in Nat
  BY GoneIsFinite
<1>1. PICK n \in Nat : n = Cardinality(Gone)
  BY <1>00
<1>2. CASE UNCHANGED <<device, ghosts>> /\ events' \in {events, events + 1}
  <2>1. Gone' = Gone
    BY <1>2 DEF Gone
  <2> QED BY <1>0, <1>1, <1>2, <2>1
<1>3. ASSUME NEW a \in Listeners, DeviceJoins(a)
      PROVE  ghosts' + Cardinality(Gone') <= events'
  <2>1. device' = [device EXCEPT ![a] = "joining"] /\ a \notin Gone /\ ghosts' = ghosts /\ events' = events + 1
    BY <1>3 DEF DeviceJoins, Event, Gone
  <2>2. Gone' = Gone \ {a}
    <3>1. PICK s : s = "joining" /\ device' = [device EXCEPT ![a] = s]
      BY <2>1
    <3>2. s # "left"
      BY <3>1
    <3> QED BY <1>0, <3>1, <3>2, GoneNext
  <2>3. Gone' = Gone
    BY <2>1, <2>2
  <2> QED BY <1>0, <1>1, <2>1, <2>3
<1>4. ASSUME NEW a \in Listeners, JoinEnds(a)
      PROVE  ghosts' + Cardinality(Gone') <= events'
  <2>1. /\ events' = events /\ device' = [device EXCEPT ![a] = IF @ = "joining" THEN "in" ELSE "away"]
        /\ ghosts' \in IF device[a] = "left" THEN {ghosts, ghosts + 1} ELSE {ghosts}
    BY <1>4 DEF JoinEnds
  <2>2. Gone' = Gone \ {a}
    <3>1. PICK s : s = (IF device[a] = "joining" THEN "in" ELSE "away") /\ device' = [device EXCEPT ![a] = s]
      BY <2>1
    <3>2. s # "left"
      BY <3>1
    <3> QED BY <1>0, <3>1, <3>2, GoneNext
  <2>3. CASE device[a] = "left"
    <3>1. a \in Gone
      BY <2>3 DEF Gone
    <3>2. Cardinality(Gone') = n - 1
      BY <1>00, <1>1, <2>2, <3>1, FS_RemoveElement
    <3> QED BY <1>0, <1>1, <2>1, <3>2
  <2>4. CASE device[a] # "left"
    <3>1. Gone' = Gone
      BY <2>2, <2>4 DEF Gone
    <3> QED BY <1>0, <1>1, <2>1, <2>4, <3>1
  <2> QED BY <2>3, <2>4
<1>5. ASSUME NEW a \in Listeners, DeviceLeaves(a)
      PROVE  ghosts' + Cardinality(Gone') <= events'
  <2>1. events' = events + 1 /\ device[a] \in {"joining", "in"} /\ ghosts' = ghosts
        /\ device' = [device EXCEPT ![a] = IF @ = "in" THEN "away" ELSE "left"]
    BY <1>5 DEF DeviceLeaves, Event
  <2>2. a \notin Gone
    BY <2>1 DEF Gone
  <2>3. Gone' = Gone \/ Gone' = Gone \cup {a}
    BY <1>0, <2>1, <2>2, GoneNext
  <2>4. Cardinality(Gone \cup {a}) = n + 1
    BY <1>00, <1>1, <2>2, FS_AddElement
  <2> QED BY <1>0, <1>1, <2>1, <2>3, <2>4
<1>6. CASE UNCHANGED presentVars
  BY <1>2, <1>6 DEF presentVars
<1>7. ASSUME NEW q \in Slides, Answered(q) \/ PressQuestion(q) \/ ChangeQuestion(q)
      PROVE  ghosts' + Cardinality(Gone') <= events'
  BY <1>2, <1>7 DEF Answered, PressQuestion, ChangeQuestion, Event
<1>8. ASSUME NEW e \in emitting, NEW v \in Versions, EmitSnapshot(e, v)
      PROVE  ghosts' + Cardinality(Gone') <= events'
  BY <1>2, <1>8 DEF EmitSnapshot
<1>9. ASSUME NEW f \in fetches, FetchRead(f) \/ FetchArrives(f) \/ FetchFails(f)
      PROVE  ghosts' + Cardinality(Gone') <= events'
  BY <1>2, <1>9 DEF FetchRead, FetchArrives, FetchFails, Event, server
<1>10. CASE QuestionPosted \/ Connects \/ PresenterJoins \/ Disconnects \/ GraceEnds \/ Poll \/ Receive
  <2>1. UNCHANGED server /\ events' \in {events, events + 1}
    <3>1. CASE QuestionPosted
      BY <3>1 DEF QuestionPosted
    <3>2. CASE Receive
      BY <3>2 DEF Receive
    <3>3. CASE Connects \/ PresenterJoins \/ Disconnects \/ GraceEnds \/ Poll
      BY <3>3 DEF Connects, PresenterJoins, Disconnects, GraceEnds, Poll, Event
    <3> QED BY <1>10, <3>1, <3>2, <3>3
  <2> QED BY <1>2, <2>1 DEF server
<1> QED BY <1>3, <1>4, <1>5, <1>6, <1>7, <1>8, <1>9, <1>10 DEF PresentNext

LEMMA PresentBoundsStep ==
  PresentIInv /\ PresentBounds /\ [PresentNext]_presentVars => PresentBounds'
BY StepFetches, StepGhosts DEF PresentBounds

-----------------------------------------------------------------------------
(* The pages together.                                                     *)

PresentPageIInv == PresentIInv /\ PresentBounds

\* A step of the pages is a step of each part, or leaves the part as it is.
LEMMA StepOfEachPage ==
  ASSUME [Next]_vars
  PROVE  /\ [PresentNext]_presentVars /\ [JoinNext]_joinVars /\ [EditorNext]_editorVars
         /\ [EditPageNext]_editPageVars /\ [BellNext]_bellVars /\ [EmailNext]_mailVars
         /\ [PanelNext]_panelVars /\ [DialogNext]_dialogVars /\ [ViewsNext]_viewVars
         /\ [SessionNext]_sessionVars /\ [ConsentNext]_consentVars
         /\ [IntegrationsNext]_integrationsVars /\ [WorkflowPageNext]_workflowVars
<1>1. CASE UNCHANGED vars
  <2>1. UNCHANGED <<cloudVars, siteVars>>
    BY <1>1, Zenon DEF vars
  <2> QED BY <2>1, Zenon DEF cloudVars, siteVars
<1>2. CASE CloudNext /\ UNCHANGED <<siteVars>>
  BY <1>2, Zenon DEF CloudNext, siteVars
<1>3. CASE SiteNext /\ UNCHANGED <<cloudVars>>
  BY <1>3, Zenon DEF SiteNext, cloudVars
<1> QED BY <1>1, <1>2, <1>3, Zenon DEF Next

ActingIInv ==
  ViewsIInv /\ DialogIInv /\ ConsentIInv /\ IntegrationsIInv /\ WorkflowPageIInv /\ EditPageIInv

\* What is done on a page is done to the thing, with the settings, of that page and as the
\* account there (word-cloud and YouTube views, the sync dialog, the tracked events, the
\* integrations and workflow pages, the editor): for any keys, rows, accounts, connections,
\* rules and questions, and however late the answers.
THEOREM ActsAsAlwaysAsked == Spec => []ActsAsAsked
<1>1. Init => ActingIInv
  BY ViewsInitInv, DialogInitInv, ConsentInitInv, IntegrationsInitInv, WorkflowPageInitInv, EditPageInitInv
     DEF Init, ActingIInv
<1>2. ActingIInv /\ [Next]_vars => ActingIInv'
  BY StepOfEachPage, ViewsStep, DialogStep, ConsentStep, IntegrationsStep, WorkflowPageStep, EditPageStep
     DEF ActingIInv
<1>3. ActingIInv => ActsAsAsked
  BY ViewsHold, DialogHolds, ConsentHolds, IntegrationsHold, WorkflowPageHolds, EditPageHolds
     DEF ActingIInv, ActsAsAsked
<1> QED BY <1>1, <1>2, <1>3, PTL DEF Spec

ShowingIInv == EmailIInv /\ SessionIInv /\ EditPageIInv

\* Once nothing is on its way a page shows what is stored (the email switches, the account of
\* the token with its workspace and preferences, the questions of a topic): for any accounts,
\* copies, tokens and questions, and however the requests overlapped.
THEOREM ShownIsAlwaysStored == Spec => []ShownIsStored
<1>1. Init => ShowingIInv
  BY EmailInitInv, SessionInitInv, EditPageInitInv DEF Init, ShowingIInv
<1>2. ShowingIInv /\ [Next]_vars => ShowingIInv'
  BY StepOfEachPage, EmailStep, SessionStep, EditPageStep DEF ShowingIInv
<1>3. ShowingIInv => ShownIsStored
  BY EmailHolds, SessionHolds, EditPageHolds DEF ShowingIInv, ShownIsStored
<1> QED BY <1>1, <1>2, <1>3, PTL DEF Spec

PagesIInv ==
  /\ part \in Parts
  /\ PresentPageIInv /\ JoinIInv /\ EditorIInv /\ BellIInv /\ PanelIInv
  /\ ActingIInv /\ ShowingIInv

\* The types of the thirteen parts: what is in flight, waits or is counted keeps its bounds.
THEOREM ScreensTypeCorrect == Spec => []TypeOK
<1>1. Init => PagesIInv
  <2> SUFFICES ASSUME Init PROVE PagesIInv
    OBVIOUS
  <2>1. ActingIInv /\ ShowingIInv
    BY ViewsInitInv, DialogInitInv, ConsentInitInv, IntegrationsInitInv, WorkflowPageInitInv, EditPageInitInv,
       EmailInitInv, SessionInitInv DEF Init, ActingIInv, ShowingIInv
  <2>2. PresentPageIInv /\ JoinIInv /\ EditorIInv /\ BellIInv /\ PanelIInv
    BY PresentInitInv, PresentBoundsInit, JoinInitInv, EditorInitInv, BellInitInv, PanelInitInv
       DEF Init, PresentPageIInv
  <2> QED BY <2>1, <2>2 DEF PagesIInv, Init
<1>2. PagesIInv /\ [Next]_vars => PagesIInv'
  <2> SUFFICES ASSUME PagesIInv, [Next]_vars PROVE PagesIInv'
    OBVIOUS
  <2>1. ActingIInv'
    BY StepOfEachPage, ViewsStep, DialogStep, ConsentStep, IntegrationsStep, WorkflowPageStep, EditPageStep
       DEF ActingIInv, PagesIInv
  <2>2. ShowingIInv'
    BY StepOfEachPage, EmailStep, SessionStep, EditPageStep DEF ShowingIInv, PagesIInv
  <2>3. PresentPageIInv'
    BY StepOfEachPage, PresentStep, PresentBoundsStep DEF PresentPageIInv, PagesIInv
  <2>4. JoinIInv' /\ EditorIInv' /\ BellIInv' /\ PanelIInv'
    BY StepOfEachPage, JoinStep, EditorStep, BellStep, PanelStep DEF PagesIInv
  <2>5. UNCHANGED part
    BY DEF Next, vars
  <2> QED BY <2>1, <2>2, <2>3, <2>4, <2>5 DEF PagesIInv
<1>3. PagesIInv => TypeOK
  <2> SUFFICES ASSUME PagesIInv PROVE TypeOK
    OBVIOUS
  <2>1. PresentTypeOK /\ JoinTypeOK /\ EditorTypeOK /\ BellTypeOK /\ PanelTypeOK
    BY PresentHolds, BellHolds, PanelHolds DEF PagesIInv, PresentPageIInv, JoinIInv, EditorIInv
  <2>2. /\ ViewsTypeOK /\ DialogTypeOK /\ ConsentTypeOK /\ IntegrationsTypeOK /\ WorkflowPageTypeOK
        /\ EditPageTypeOK
    BY ViewsHold, DialogHolds, ConsentHolds, IntegrationsHold, WorkflowPageHolds, EditPageHolds
       DEF PagesIInv, ActingIInv
  <2>3. EmailTypeOK /\ SessionTypeOK
    BY EmailHolds, SessionHolds DEF PagesIInv, ShowingIInv
  <2>4. part \in Parts
    BY DEF PagesIInv
  <2> QED BY <2>1, <2>2, <2>3, <2>4 DEF TypeOK, Parts
<1> QED BY <1>1, <1>2, <1>3, PTL DEF Spec
=============================================================================
