--------------------------- MODULE Screens_proofs ---------------------------
(***************************************************************************)
(* The safety properties of the presenter's screen and of the editor's     *)
(* autosave, for every set of questions, devices and edits.                *)
(***************************************************************************)
EXTENDS PresentPage, Editor, Sums_proofs, SequenceTheorems

-----------------------------------------------------------------------------
(* The presenter's screen.  A fetch that was not cancelled is for the      *)
(* question on the screen, and the count on the screen, or the last one on *)
(* its way, is the size of the room.                                       *)

PresentSpec == PresentInit /\ [][PresentNext]_presentVars

Told(messages, joined, n) ==
  \/ /\ \A i \in 1..Len(messages) : messages[i].type # "joined"
     /\ joined = n
  \/ \E i \in 1..Len(messages) :
       /\ messages[i].type = "joined" /\ messages[i].count = n
       /\ \A j \in (i + 1)..Len(messages) : messages[j].type # "joined"

\* What the proof needs of the types; the bounds on ghosts and on fetches in flight are only checked.
PresentTyped ==
  /\ onStage \in Slides \cup {NoSlide}
  /\ version \in [Slides -> 0..events]
  /\ emitting \subseteq Clouds
  /\ device \in [Listeners -> {"away", "joining", "in", "left"}]
  /\ ghosts \in Nat
  /\ page \in Page
  /\ fetches \subseteq Fetch
  /\ line \in Seq(Message)
  /\ seat \in {"out", "joining", "in"}
  /\ events \in 0..MaxEvents

FetchesOK ==
  /\ \A f \in fetches : ~f.cancelled => f.q = page.slide
  /\ page.socket # "none" => page.slide # NoSlide

CountTold == seat = "in" => Told(line, page.joined, JoinedCount)

PresentIInv == PresentTyped /\ FetchesOK /\ ShowsItsQuestion /\ CountTold

\* A message that is no count tells nothing new.
LEMMA TellOther ==
  ASSUME NEW l \in Seq(Message), NEW m \in Message, m.type # "joined", NEW j, NEW n, Told(l, j, n)
  PROVE  Told(Append(l, m), j, n)
<1>1. Append(l, m) \in Seq(Message) /\ Len(Append(l, m)) = Len(l) + 1 /\ Len(l) \in Nat
  OBVIOUS
<1>2. \A i \in 1..Len(l) : Append(l, m)[i] = l[i]
  OBVIOUS
<1>3. Append(l, m)[Len(l) + 1] = m
  OBVIOUS
<1>4. CASE /\ \A i \in 1..Len(l) : l[i].type # "joined"
           /\ j = n
  BY <1>1, <1>2, <1>3, <1>4 DEF Told
<1>5. ASSUME NEW i \in 1..Len(l), l[i].type = "joined", l[i].count = n,
             \A k \in (i + 1)..Len(l) : l[k].type # "joined"
      PROVE  Told(Append(l, m), j, n)
  <2>1. i \in 1..Len(Append(l, m)) /\ Append(l, m)[i].type = "joined" /\ Append(l, m)[i].count = n
    BY <1>1, <1>2, <1>5
  <2>2. \A k \in (i + 1)..Len(Append(l, m)) : Append(l, m)[k].type # "joined"
    BY <1>1, <1>2, <1>3, <1>5
  <2> QED BY <2>1, <2>2 DEF Told
<1> QED BY <1>4, <1>5 DEF Told

\* A count that was just sent is the last one.
LEMMA TellNow ==
  ASSUME NEW l \in Seq(Message), NEW n \in Nat, NEW j
  PROVE  Told(Append(l, [type |-> "joined", count |-> n]), j, n)
<1> DEFINE m == [type |-> "joined", count |-> n]
<1>1. m \in Message /\ m.type = "joined" /\ m.count = n
  BY DEF Message
<1> HIDE DEF m
<1>2. Len(Append(l, m)) = Len(l) + 1 /\ Len(l) \in Nat /\ Append(l, m)[Len(l) + 1] = m
  BY <1>1
<1>3. (Len(l) + 1) \in 1..Len(Append(l, m)) /\ (Len(l) + 1 + 1)..Len(Append(l, m)) = {}
  BY <1>2
<1>4. Told(Append(l, m), j, n)
  BY <1>1, <1>2, <1>3 DEF Told
<1> QED BY <1>4 DEF m

\* The page takes the first message: a count replaces its own, another leaves it.
LEMMA Taken ==
  ASSUME NEW l \in Seq(Message), l # <<>>, NEW j, NEW n, Told(l, j, n)
  PROVE  /\ Head(l).type = "joined" => Told(Tail(l), Head(l).count, n)
         /\ Head(l).type # "joined" => Told(Tail(l), j, n)
<1>1. Tail(l) \in Seq(Message) /\ Len(l) \in Nat \ {0} /\ Len(Tail(l)) = Len(l) - 1 /\ Head(l) = l[1]
  OBVIOUS
<1>2. \A i \in 1..Len(Tail(l)) : Tail(l)[i] = l[i + 1] /\ i + 1 \in 1..Len(l)
  BY <1>1
<1>3. CASE /\ \A i \in 1..Len(l) : l[i].type # "joined"
           /\ j = n
  BY <1>1, <1>2, <1>3 DEF Told
<1>4. ASSUME NEW i \in 1..Len(l), l[i].type = "joined", l[i].count = n,
             \A k \in (i + 1)..Len(l) : l[k].type # "joined"
      PROVE  /\ Head(l).type = "joined" => Told(Tail(l), Head(l).count, n)
             /\ Head(l).type # "joined" => Told(Tail(l), j, n)
  <2>1. CASE i = 1
    <3>1. \A k \in 1..Len(Tail(l)) : Tail(l)[k].type # "joined"
      <4> TAKE k \in 1..Len(Tail(l))
      <4>1. k + 1 \in (i + 1)..Len(l)
        BY <1>1, <2>1
      <4> QED BY <1>2, <1>4, <4>1
    <3> QED BY <1>1, <1>4, <2>1, <3>1 DEF Told
  <2>2. CASE i # 1
    <3>1. i - 1 \in 1..Len(Tail(l)) /\ Tail(l)[i - 1] = l[i]
      BY <1>1, <1>2, <2>2
    <3>2. \A k \in ((i - 1) + 1)..Len(Tail(l)) : Tail(l)[k].type # "joined"
      <4> TAKE k \in ((i - 1) + 1)..Len(Tail(l))
      <4>1. k + 1 \in (i + 1)..Len(l) /\ k \in 1..Len(Tail(l))
        BY <1>1, <2>2
      <4> QED BY <1>2, <1>4, <4>1
    <3> QED BY <1>4, <3>1, <3>2 DEF Told
  <2> QED BY <2>1, <2>2
<1> QED BY <1>3, <1>4 DEF Told

\* The size of a room is a number, and depends on the devices in it only.
LEMMA RoomSizeNat ==
  ASSUME NEW d, NEW k \in Nat
  PROVE  RoomSize(d, k) \in Nat
<1> DEFINE S == {a \in Listeners : d[a] = "in"}
<1>1. IsFiniteSet(S)
  <2>1. S \subseteq Listeners /\ IsFiniteSet(Listeners)
    BY PresentAssumption
  <2> HIDE DEF S
  <2> QED BY <2>1, FS_Subset
<1>2. Cardinality(S) \in Nat
  <2> HIDE DEF S
  <2> QED BY <1>1, FS_CardinalityType
<1> QED BY <1>2 DEF RoomSize

LEMMA SameRoom ==
  ASSUME NEW d, NEW e, NEW k, \A a \in Listeners : d[a] = "in" <=> e[a] = "in"
  PROVE  RoomSize(d, k) = RoomSize(e, k)
<1>1. {a \in Listeners : d[a] = "in"} = {a \in Listeners : e[a] = "in"}
  OBVIOUS
<1> QED BY <1>1 DEF RoomSize
LEMMA PresentInitInv == PresentInit => PresentIInv
<1> SUFFICES ASSUME PresentInit PROVE PresentIInv
  OBVIOUS
<1>1. PresentTyped
  <2>1. Blank \in Clouds
    BY PresentAssumption DEF Blank, Clouds, Versions
  <2>2. page \in Page
    BY <2>1 DEF PresentInit, Page
  <2> QED BY <2>2, PresentAssumption DEF PresentInit, PresentTyped
<1> QED BY <1>1 DEF PresentInit, PresentIInv, FetchesOK, ShowsItsQuestion, CountTold

\* The clouds and the fetches there are.
LEMMA CloudIs ==
  ASSUME NEW q \in Slides \cup {NoSlide}, NEW v \in Versions
  PROVE  [q |-> q, v |-> v] \in Clouds
BY DEF Clouds

LEMMA FetchIs ==
  ASSUME NEW q \in Slides, NEW first \in BOOLEAN
  PROVE  /\ NewFetch(q, first) \in Fetch
         /\ NewFetch(q, first).q = q /\ ~NewFetch(q, first).cancelled
BY PresentAssumption DEF Fetch, NewFetch, Versions

LEMMA CancelledAre ==
  ASSUME fetches \subseteq Fetch
  PROVE  Cancelled \subseteq Fetch /\ \A f \in Cancelled : f.cancelled
BY DEF Cancelled, Fetch

LEMMA VersionIs ==
  ASSUME PresentTyped
  PROVE  /\ \A q \in Slides : version[q] \in Nat /\ version[q] <= events
         /\ events \in Nat /\ MaxEvents \in Nat /\ events <= MaxEvents
         /\ \A v \in 0..events : v \in Versions
BY PresentAssumption DEF PresentTyped, Versions

-----------------------------------------------------------------------------
(* One lemma per action *)

\* Of the server alone, the page and its fetches as they were.
LEMMA ServerKeeps ==
  ASSUME PresentIInv, PresentTyped', UNCHANGED <<page, fetches>>, CountTold'
  PROVE  PresentIInv'
BY DEF PresentIInv, FetchesOK, ShowsItsQuestion

\* A message of another type on its way, or none, and the room as it was.
LEMMA OtherSent ==
  ASSUME PresentIInv, UNCHANGED <<page, seat>>, JoinedCount' = JoinedCount,
         \/ UNCHANGED line
         \/ \E m \in Message : m.type # "joined" /\ line' = Sent(line, m)
  PROVE  CountTold' /\ line' \in Seq(Message)
<1>1. line \in Seq(Message)
  BY DEF PresentIInv, PresentTyped
<1>2. CASE UNCHANGED line
  BY <1>1, <1>2 DEF PresentIInv, CountTold
<1>3. ASSUME NEW m \in Message, m.type # "joined", line' = Sent(line, m)
      PROVE  CountTold' /\ line' \in Seq(Message)
  <2>1. CASE seat = "in"
    <3>1. line' = Append(line, m)
      BY <1>3, <2>1 DEF Sent
    <3>2. Told(line, page.joined, JoinedCount)
      BY <2>1 DEF PresentIInv, CountTold
    <3>3. Told(line', page.joined, JoinedCount)
      BY <1>1, <1>3, <3>1, <3>2, TellOther
    <3> QED BY <1>1, <1>3, <3>1, <3>3 DEF CountTold
  <2>2. CASE seat # "in"
    BY <1>1, <1>3, <2>2 DEF Sent, CountTold
  <2> QED BY <2>1, <2>2
<1> QED BY <1>2, <1>3

\* The size of the room told to it.
LEMMA SizeSent ==
  ASSUME PresentIInv, UNCHANGED seat, RoomSize(device', ghosts') \in Nat, CountBroadcast(device', ghosts')
  PROVE  CountTold' /\ line' \in Seq(Message)
<1>1. line \in Seq(Message)
  BY DEF PresentIInv, PresentTyped
<1>2. line' = Sent(line, [type |-> "joined", count |-> RoomSize(device', ghosts')])
  BY DEF CountBroadcast
<1>3. JoinedCount' = RoomSize(device', ghosts')
  BY DEF JoinedCount, RoomSize
<1>4. PICK n : n = RoomSize(device', ghosts')
  OBVIOUS
<1>5. n \in Nat /\ JoinedCount' = n /\ line' = Sent(line, [type |-> "joined", count |-> n])
  BY <1>2, <1>3, <1>4
<1>6. CASE seat = "in"
  <2>1. line' = Append(line, [type |-> "joined", count |-> n])
    BY <1>5, <1>6 DEF Sent
  <2>2. Told(line', page'.joined, n)
    BY <1>1, <1>5, <2>1, TellNow
  <2>3. [type |-> "joined", count |-> n] \in Message
    BY <1>5 DEF Message
  <2> QED BY <1>1, <1>5, <2>1, <2>2, <2>3 DEF CountTold
<1>7. CASE seat # "in"
  BY <1>1, <1>5, <1>7 DEF Sent, CountTold
<1> QED BY <1>6, <1>7

LEMMA StepAnswered ==
  ASSUME PresentIInv, NEW q \in Slides, Answered(q)
  PROVE  PresentIInv'
<1>1. events' = events + 1 /\ events < MaxEvents
  BY DEF Answered, Event
<1>2. version' \in [Slides -> 0..events']
  BY <1>1, VersionIs DEF Answered, PresentIInv, PresentTyped
<1>3. [q |-> q, v |-> version[q] + 1] \in Clouds
  BY <1>1, VersionIs, CloudIs DEF PresentIInv, Versions
<1>4. PresentTyped'
  BY <1>1, <1>2, <1>3, VersionIs DEF Answered, PresentIInv, PresentTyped
<1>5. CountTold'
  BY OtherSent DEF Answered, JoinedCount, RoomSize
<1> QED BY <1>4, <1>5, ServerKeeps DEF Answered

LEMMA StepEmit ==
  ASSUME PresentIInv, NEW e \in emitting, NEW v \in Versions, EmitSnapshot(e, v)
  PROVE  PresentIInv'
<1>1. PICK m : m = [type |-> "update", cloud |-> [q |-> e.q, v |-> v]]
  OBVIOUS
<1>2. m \in Message /\ m.type # "joined" /\ line' = Sent(line, m)
  <2>1. e.q \in Slides \cup {NoSlide}
    BY DEF PresentIInv, PresentTyped, Clouds
  <2>2. [q |-> e.q, v |-> v] \in Clouds
    BY <2>1, CloudIs
  <2> QED BY <1>1, <2>2 DEF EmitSnapshot, Message
<1>3. CountTold' /\ line' \in Seq(Message)
  BY <1>2, OtherSent DEF EmitSnapshot, JoinedCount, RoomSize
<1>4. PresentTyped'
  BY <1>3 DEF EmitSnapshot, PresentIInv, PresentTyped
<1> QED BY <1>3, <1>4, ServerKeeps DEF EmitSnapshot

LEMMA StepDevice ==
  ASSUME PresentIInv, NEW a \in Listeners, DeviceJoins(a) \/ JoinEnds(a) \/ DeviceLeaves(a)
  PROVE  PresentIInv'
<1> USE DEF PresentIInv
<1>1. device \in [Listeners -> {"away", "joining", "in", "left"}] /\ ghosts \in Nat
  BY DEF PresentTyped
<1>2. /\ device' \in [Listeners -> {"away", "joining", "in", "left"}] /\ ghosts' \in Nat
      /\ events' \in 0..MaxEvents /\ (events' = events \/ events' = events + 1)
  BY <1>1, VersionIs DEF DeviceJoins, JoinEnds, DeviceLeaves, Event, PresentTyped
<1>3. RoomSize(device', ghosts') \in Nat
  BY <1>2, RoomSizeNat
<1>4. CountTold' /\ line' \in Seq(Message)
  <2>1. CASE JoinEnds(a)
    BY <1>3, <2>1, SizeSent DEF JoinEnds
  <2>2. CASE DeviceLeaves(a) /\ device[a] = "in"
    <3>1. ghosts' = ghosts /\ CountBroadcast(device', ghosts')
      BY <2>2 DEF DeviceLeaves
    <3> QED BY <1>3, <2>2, <3>1, SizeSent DEF DeviceLeaves
  <2>3. CASE DeviceJoins(a) \/ (DeviceLeaves(a) /\ device[a] # "in")
    <3>1. \A b \in Listeners : device'[b] = "in" <=> device[b] = "in"
      BY <1>1, <2>3 DEF DeviceJoins, DeviceLeaves
    <3>2. ghosts' = ghosts
      BY <2>3 DEF DeviceJoins, DeviceLeaves
    <3>3. JoinedCount' = JoinedCount
      <4>1. \A k : RoomSize(device', k) = RoomSize(device, k)
        BY <3>1, SameRoom
      <4>2. JoinedCount' = RoomSize(device', ghosts')
        BY DEF JoinedCount, RoomSize
      <4> QED BY <3>2, <4>1, <4>2 DEF JoinedCount
    <3> QED BY <2>3, <3>3, OtherSent DEF DeviceJoins, DeviceLeaves
  <2> QED BY <2>1, <2>2, <2>3
<1>5. PresentTyped'
  <2>1. version' \in [Slides -> 0..events']
    BY <1>2, VersionIs DEF DeviceJoins, JoinEnds, DeviceLeaves, PresentTyped
  <2> QED BY <1>2, <1>4, <2>1 DEF DeviceJoins, JoinEnds, DeviceLeaves, PresentTyped
<1> QED BY <1>4, <1>5, ServerKeeps DEF DeviceJoins, JoinEnds, DeviceLeaves

\* The page goes to question q, or stays; what it had fetched is cancelled if it goes.
LEMMA Shown ==
  ASSUME PresentIInv, NEW q \in Slides, NEW next \in Page, Show(q, next),
         next.slide = page.slide, next.cloud = page.cloud, next.fetched = page.fetched,
         next.socket = page.socket
  PROVE  /\ page' \in Page /\ fetches' \subseteq Fetch /\ seat' \in {"out", seat}
         /\ FetchesOK' /\ ShowsItsQuestion'
         /\ q = page.slide => page' = next /\ UNCHANGED <<fetches, seat>>
         /\ q # page.slide => seat' = "out"
<1> USE DEF PresentIInv
<1>1. CASE q = page.slide
  <2>1. page' = next /\ UNCHANGED <<fetches, seat>>
    BY <1>1 DEF Show
  <2> QED BY <1>1, <2>1 DEF PresentTyped, FetchesOK, ShowsItsQuestion
<1>2. CASE q # page.slide
  <2>1. /\ page' = [next EXCEPT !.slide = q, !.fetched = FALSE, !.socket = "none"]
        /\ fetches' = Cancelled \cup {NewFetch(q, TRUE)} /\ seat' = "out"
    BY <1>2 DEF Show
  <2>2. page' \in Page /\ page'.slide = q /\ page'.fetched = FALSE /\ page'.socket = "none"
    BY <2>1 DEF Page
  <2>3. Cancelled \subseteq Fetch /\ \A f \in Cancelled : f.cancelled
    BY CancelledAre DEF PresentTyped
  <2>4. NewFetch(q, TRUE) \in Fetch /\ NewFetch(q, TRUE).q = q
    BY FetchIs
  <2>5. FetchesOK'
    BY <2>1, <2>2, <2>3, <2>4 DEF FetchesOK
  <2>6. ShowsItsQuestion'
    BY <2>2 DEF ShowsItsQuestion
  <2> QED BY <1>2, <2>1, <2>2, <2>3, <2>4, <2>5, <2>6
<1> QED BY <1>1, <1>2

\* Nothing on the server changes but who sits where.
LEMMA PageStep ==
  ASSUME PresentIInv, UNCHANGED server, events' \in 0..MaxEvents, events' = events \/ events' = events + 1,
         page' \in Page, fetches' \subseteq Fetch, line' \in Seq(Message),
         seat' \in {"out", "joining", "in"}
  PROVE  PresentTyped'
<1>1. version' \in [Slides -> 0..events']
  BY VersionIs DEF server, PresentIInv, PresentTyped
<1> QED BY <1>1 DEF server, PresentIInv, PresentTyped

LEMMA SameCount ==
  ASSUME UNCHANGED server
  PROVE  JoinedCount' = JoinedCount
BY DEF server, JoinedCount, RoomSize

LEMMA EmptyLine == <<>> \in Seq(Message)
OBVIOUS

LEMMA StepQuestion ==
  ASSUME PresentIInv, NEW q \in Slides, ChangeQuestion(q) \/ PressQuestion(q)
  PROVE  PresentIInv'
<1> USE DEF PresentIInv
<1>1. PICK m : m = [type |-> "changed", q |-> q]
  OBVIOUS
<1>2. m \in Message /\ m.type # "joined" /\ line' = Sent(line, m)
  BY <1>1 DEF Message, Stage, ChangeQuestion, PressQuestion
<1>3. /\ page' \in Page /\ page'.slide = page.slide /\ page'.cloud = page.cloud
      /\ page'.fetched = page.fetched /\ page'.joined = page.joined /\ page'.socket = page.socket
  BY DEF ChangeQuestion, PressQuestion, PresentTyped, Page
<1>4. JoinedCount' = JoinedCount
  BY DEF ChangeQuestion, PressQuestion, JoinedCount, RoomSize
<1>5. line \in Seq(Message) /\ seat' = seat
  BY DEF ChangeQuestion, PressQuestion, PresentTyped
<1>6. CountTold' /\ line' \in Seq(Message)
  <2>1. CASE seat = "in"
    <3>1. line' = Append(line, m)
      BY <1>2, <2>1 DEF Sent
    <3>2. Told(line', page.joined, JoinedCount)
      BY <1>2, <1>5, <2>1, <3>1, TellOther DEF CountTold
    <3> QED BY <1>2, <1>3, <1>4, <1>5, <3>1, <3>2 DEF CountTold
  <2>2. CASE seat # "in"
    BY <1>2, <1>5, <2>2 DEF Sent, CountTold
  <2> QED BY <2>1, <2>2
<1>7. events' \in 0..MaxEvents /\ events' = events + 1
  BY VersionIs DEF ChangeQuestion, PressQuestion, Event
<1>8. PresentTyped'
  <2>1. version' \in [Slides -> 0..events']
    BY <1>7, VersionIs DEF ChangeQuestion, PressQuestion, PresentTyped
  <2> QED BY <1>3, <1>6, <1>7, <2>1 DEF ChangeQuestion, PressQuestion, Stage, PresentTyped
<1>9. FetchesOK' /\ ShowsItsQuestion'
  BY <1>3 DEF FetchesOK, ShowsItsQuestion, ChangeQuestion, PressQuestion
<1> QED BY <1>6, <1>8, <1>9

LEMMA StepPosted ==
  ASSUME PresentIInv, QuestionPosted
  PROVE  PresentIInv'
<1> USE DEF PresentIInv
<1>1. PICK next : next = [page EXCEPT !.posting = NoSlide]
  OBVIOUS
<1>2. /\ next \in Page /\ next.slide = page.slide /\ next.cloud = page.cloud
      /\ next.fetched = page.fetched /\ next.joined = page.joined /\ next.socket = page.socket
  BY <1>1 DEF PresentTyped, Page
<1>3. PICK q \in Slides : q = page.posting
  BY DEF QuestionPosted, PresentTyped, Page
<1>4. Show(q, next)
  BY <1>1, <1>3 DEF QuestionPosted
<1>5. /\ page' \in Page /\ fetches' \subseteq Fetch /\ seat' \in {"out", seat}
      /\ FetchesOK' /\ ShowsItsQuestion'
      /\ q = page.slide => page' = next /\ UNCHANGED <<fetches, seat>>
      /\ q # page.slide => seat' = "out"
  BY <1>2, <1>4, Shown
<1>6. line' \in Seq(Message)
  BY EmptyLine DEF QuestionPosted, PresentTyped
<1>7. CountTold'
  BY <1>2, <1>3, <1>5, SameCount DEF QuestionPosted, CountTold
<1>8. PresentTyped'
  <2>1. seat' \in {"out", "joining", "in"}
    BY <1>5 DEF PresentTyped
  <2>2. UNCHANGED server /\ events' = events /\ events' \in 0..MaxEvents
    BY DEF QuestionPosted, PresentTyped
  <2> QED BY <1>5, <1>6, <2>1, <2>2, PageStep
<1> QED BY <1>5, <1>7, <1>8

\* A fetch less: what remains is as it was.
LEMMA StepFetch ==
  ASSUME PresentIInv, NEW f \in fetches, FetchRead(f) \/ FetchArrives(f) \/ FetchFails(f)
  PROVE  PresentIInv'
<1> USE DEF PresentIInv
<1>1. f \in Fetch /\ f.q \in Slides /\ f.v \in Versions /\ (~f.cancelled => f.q = page.slide)
  BY DEF PresentTyped, Fetch, FetchesOK
<1>2. page \in Page
  BY DEF PresentTyped
<1>3. fetches' \subseteq Fetch /\ \A g \in fetches' : ~g.cancelled => g.q = page.slide
  <2>1. CASE FetchRead(f)
    <3>1. PICK g : g = [f EXCEPT !.read = TRUE, !.v = version[f.q]]
      OBVIOUS
    <3>2. version[f.q] \in Versions
      BY <1>1, VersionIs DEF Versions
    <3>3. g \in Fetch /\ g.q = f.q /\ g.cancelled = f.cancelled
      BY <1>1, <3>1, <3>2 DEF Fetch
    <3>4. fetches' = (fetches \ {f}) \cup {g}
      BY <2>1, <3>1 DEF FetchRead
    <3> QED BY <1>1, <3>3, <3>4 DEF PresentTyped, FetchesOK
  <2>2. CASE FetchArrives(f) \/ FetchFails(f)
    BY <2>2 DEF FetchArrives, FetchFails, PresentTyped, FetchesOK
  <2> QED BY <2>1, <2>2
<1>4. \A p \in Page : /\ SocketOpened(p, f) \in Page /\ SocketOpened(p, f).slide = p.slide
                      /\ SocketOpened(p, f).cloud = p.cloud /\ SocketOpened(p, f).fetched = p.fetched
                      /\ SocketOpened(p, f).joined = p.joined
                      /\ SocketOpened(p, f).socket = p.socket \/ ~f.cancelled
  BY DEF SocketOpened, Page
<1>5. /\ page' \in Page /\ page'.slide = page.slide /\ page'.joined = page.joined
      /\ page'.socket = page.socket \/ ~f.cancelled
      /\ \/ page'.cloud = page.cloud /\ (page'.fetched => page.fetched)
         \/ ~f.cancelled /\ page'.cloud = Data(f)
  <2>1. CASE FetchRead(f)
    BY <1>2, <2>1 DEF FetchRead
  <2>2. CASE FetchFails(f)
    <3>1. page' = SocketOpened(page, f)
      BY <2>2 DEF FetchFails
    <3> QED BY <1>2, <1>4, <3>1
  <2>3. CASE FetchArrives(f) /\ f.cancelled
    BY <1>2, <2>3 DEF FetchArrives
  <2>4. CASE FetchArrives(f) /\ ~f.cancelled
    <3>1. PICK p : p = [page EXCEPT !.cloud = Data(f), !.fetched = TRUE]
      OBVIOUS
    <3>2. Data(f) \in Clouds
      BY <1>1, CloudIs DEF Data
    <3>3. /\ p \in Page /\ p.slide = page.slide /\ p.joined = page.joined
          /\ p.socket = page.socket /\ p.cloud = Data(f)
      BY <1>2, <3>1, <3>2 DEF Page
    <3>4. page' = SocketOpened(p, f)
      BY <2>4, <3>1 DEF FetchArrives
    <3> QED BY <1>4, <2>4, <3>3, <3>4
  <2> QED BY <2>1, <2>2, <2>3, <2>4
<1>6. FetchesOK'
  <2>1. page'.socket # "none" => page'.slide # NoSlide
    BY <1>1, <1>5, PresentAssumption DEF FetchesOK
  <2> QED BY <1>3, <1>5, <2>1 DEF FetchesOK
<1>7. ShowsItsQuestion'
  BY <1>1, <1>5 DEF ShowsItsQuestion, Data
<1>8. UNCHANGED <<server, line, seat>>
  BY DEF FetchRead, FetchArrives, FetchFails
<1>9. CountTold'
  BY <1>5, <1>8, SameCount DEF CountTold
<1>10. events' \in 0..MaxEvents /\ (events' = events \/ events' = events + 1)
  BY VersionIs DEF FetchRead, FetchArrives, FetchFails, Event, PresentTyped
<1>11. line' \in Seq(Message) /\ seat' \in {"out", "joining", "in"}
  BY <1>8 DEF PresentTyped
<1>12. PresentTyped'
  BY <1>3, <1>5, <1>8, <1>10, <1>11, PageStep
<1> QED BY <1>6, <1>7, <1>9, <1>12

\* The page's socket opens, drops, gives up, and polls: the question stays.
LEMMA StepSocket ==
  ASSUME PresentIInv, Connects \/ Disconnects \/ GraceEnds \/ Poll
  PROVE  PresentIInv'
<1> USE DEF PresentIInv
<1>1. page \in Page /\ page.socket # "none" /\ page.slide \in Slides
  BY DEF Connects, Disconnects, GraceEnds, Poll, PresentTyped, Page, FetchesOK
<1>2. /\ page' \in Page /\ page'.slide = page.slide /\ page'.cloud = page.cloud
      /\ page'.fetched = page.fetched /\ page'.joined = page.joined
  BY <1>1 DEF Connects, Disconnects, GraceEnds, Poll, Page
<1>3. fetches' \in {fetches, fetches \cup {NewFetch(page.slide, FALSE)}}
  BY DEF Connects, Disconnects, GraceEnds, Poll
<1>4. NewFetch(page.slide, FALSE) \in Fetch /\ NewFetch(page.slide, FALSE).q = page.slide
  BY <1>1, FetchIs
<1>5. fetches' \subseteq Fetch /\ \A g \in fetches' : ~g.cancelled => g.q = page.slide
  BY <1>3, <1>4 DEF PresentTyped, FetchesOK
<1>6. FetchesOK'
  BY <1>1, <1>2, <1>5, PresentAssumption DEF FetchesOK
<1>7. ShowsItsQuestion'
  BY <1>2 DEF ShowsItsQuestion
<1>8. UNCHANGED server /\ ((seat' = seat /\ line' = line) \/ (seat' \in {"out", "joining"}))
  BY DEF Connects, Disconnects, GraceEnds, Poll
<1>9. CountTold'
  BY <1>2, <1>8, SameCount DEF CountTold
<1>10. events' \in 0..MaxEvents /\ (events' = events \/ events' = events + 1)
  <2>1. CASE Disconnects
    BY <2>1, VersionIs DEF Disconnects, Event
  <2>2. CASE Connects \/ GraceEnds \/ Poll
    BY <2>2 DEF Connects, GraceEnds, Poll, PresentTyped
  <2> QED BY <2>1, <2>2
<1>11. line' \in Seq(Message) /\ seat' \in {"out", "joining", "in"}
  BY EmptyLine DEF Connects, Disconnects, GraceEnds, Poll, PresentTyped
<1>12. PresentTyped'
  BY <1>2, <1>5, <1>8, <1>10, <1>11, PageStep
<1> QED BY <1>6, <1>7, <1>9, <1>12

LEMMA StepPresenterJoins ==
  ASSUME PresentIInv, PresenterJoins
  PROVE  PresentIInv'
<1> USE DEF PresentIInv
<1>1. PICK n \in Nat : n = JoinedCount
  BY RoomSizeNat DEF JoinedCount, PresentTyped
<1>2. line' = Append(line, [type |-> "joined", count |-> n]) /\ line \in Seq(Message)
  BY <1>1 DEF PresenterJoins, PresentTyped
<1>3. Told(line', page.joined, n)
  BY <1>2, TellNow
<1>4. UNCHANGED <<server, page, fetches, events>> /\ seat' = "in"
  BY DEF PresenterJoins
<1>5. CountTold'
  BY <1>1, <1>3, <1>4, SameCount DEF CountTold
<1>6. [type |-> "joined", count |-> n] \in Message
  BY DEF Message
<1>7. line' \in Seq(Message)
  BY <1>2, <1>6
<1>8. PresentTyped'
  <2>1. page' \in Page /\ fetches' \subseteq Fetch /\ events' \in 0..MaxEvents
    BY <1>4 DEF PresentTyped
  <2> QED BY <1>4, <1>7, <2>1, PageStep
<1>9. FetchesOK' /\ ShowsItsQuestion'
  BY <1>4 DEF FetchesOK, ShowsItsQuestion
<1> QED BY <1>5, <1>8, <1>9

LEMMA StepReceive ==
  ASSUME PresentIInv, Receive
  PROVE  PresentIInv'
<1> USE DEF PresentIInv
<1>1. PICK m : m = Head(line)
  OBVIOUS
<1>2. line # <<>> /\ line \in Seq(Message) /\ m \in Message /\ Tail(line) \in Seq(Message)
  BY <1>1 DEF Receive, PresentTyped
<1>3. UNCHANGED server /\ events' = events /\ events' \in 0..MaxEvents /\ page \in Page
  BY DEF Receive, PresentTyped
<1>4. /\ seat = "in" /\ m.type = "joined" => Told(Tail(line), m.count, JoinedCount)
      /\ seat = "in" /\ m.type # "joined" => Told(Tail(line), page.joined, JoinedCount)
  BY <1>1, <1>2, Taken DEF CountTold
<1>5. CASE m.type = "joined"
  <2>1. page' = [page EXCEPT !.joined = m.count] /\ line' = Tail(line) /\ UNCHANGED <<fetches, seat>>
    BY <1>1, <1>5 DEF Receive
  <2>2. m.count \in Nat
    BY <1>2, <1>5 DEF Message
  <2>3. /\ page' \in Page /\ page'.slide = page.slide /\ page'.cloud = page.cloud
        /\ page'.fetched = page.fetched /\ page'.joined = m.count /\ page'.socket = page.socket
    BY <1>3, <2>1, <2>2 DEF Page
  <2>4. CountTold'
    BY <1>3, <1>4, <1>5, <2>1, <2>3, SameCount DEF CountTold
  <2>5. FetchesOK' /\ ShowsItsQuestion'
    BY <2>1, <2>3 DEF FetchesOK, ShowsItsQuestion
  <2>6. fetches' \subseteq Fetch /\ line' \in Seq(Message) /\ seat' \in {"out", "joining", "in"}
    BY <1>2, <2>1 DEF PresentTyped
  <2>7. PresentTyped'
    BY <1>3, <2>3, <2>6, PageStep
  <2> QED BY <2>4, <2>5, <2>7
<1>6. CASE m.type = "update"
  <2>1. /\ page' = IF m.cloud.q = page.slide THEN [page EXCEPT !.cloud = m.cloud, !.fetched = TRUE] ELSE page
        /\ line' = Tail(line) /\ UNCHANGED <<fetches, seat>>
    BY <1>1, <1>6 DEF Receive
  <2>2. m.cloud \in Clouds
    BY <1>2, <1>6 DEF Message
  <2>3. /\ page' \in Page /\ page'.slide = page.slide
        /\ page'.joined = page.joined /\ page'.socket = page.socket
        /\ (page'.cloud = page.cloud /\ page'.fetched = page.fetched) \/ page'.cloud.q = page.slide
    BY <1>3, <2>1, <2>2 DEF Page
  <2>4. CountTold'
    BY <1>3, <1>4, <1>6, <2>1, <2>3, SameCount DEF CountTold
  <2>5. FetchesOK' /\ ShowsItsQuestion'
    BY <2>1, <2>3 DEF FetchesOK, ShowsItsQuestion
  <2>6. fetches' \subseteq Fetch /\ line' \in Seq(Message) /\ seat' \in {"out", "joining", "in"}
    BY <1>2, <2>1 DEF PresentTyped
  <2>7. PresentTyped'
    BY <1>3, <2>3, <2>6, PageStep
  <2> QED BY <2>4, <2>5, <2>7
<1>7. CASE m.type = "changed"
  <2>1. Show(m.q, page) /\ line' = IF m.q = page.slide THEN Tail(line) ELSE <<>>
    BY <1>1, <1>7 DEF Receive
  <2>2. PICK q \in Slides : q = m.q
    BY <1>2, <1>7 DEF Message
  <2>3. Show(q, page)
    BY <2>1, <2>2
  <2>4. /\ page' \in Page /\ fetches' \subseteq Fetch /\ seat' \in {"out", seat}
        /\ FetchesOK' /\ ShowsItsQuestion'
        /\ q = page.slide => page' = page /\ UNCHANGED <<fetches, seat>>
        /\ q # page.slide => seat' = "out"
    BY <1>3, <2>3, Shown
  <2>5. CountTold'
    BY <1>3, <1>4, <1>7, <2>1, <2>2, <2>4, SameCount DEF CountTold
  <2>6. line' \in Seq(Message) /\ seat' \in {"out", "joining", "in"}
    BY <1>2, <2>1, <2>4, EmptyLine DEF PresentTyped
  <2>7. PresentTyped'
    BY <1>3, <2>4, <2>6, PageStep
  <2> QED BY <2>4, <2>5, <2>7
<1> QED BY <1>2, <1>5, <1>6, <1>7 DEF Message

LEMMA PresentStep ==
  ASSUME PresentIInv, [PresentNext]_presentVars
  PROVE  PresentIInv'
<1>1. CASE UNCHANGED presentVars
  BY <1>1 DEF presentVars, PresentIInv, PresentTyped, FetchesOK, ShowsItsQuestion, CountTold, JoinedCount,
              RoomSize
<1>2. CASE PresentNext
  BY <1>2, StepAnswered, StepEmit, StepDevice, StepQuestion, StepPosted, StepFetch, StepSocket,
     StepPresenterJoins, StepReceive DEF PresentNext
<1> QED BY <1>1, <1>2

\* The strengthening holds in every state of the presenter's screen.
THEOREM PresentInvariance == PresentSpec => []PresentIInv
<1> QED BY PresentInitInv, PresentStep, PTL DEF PresentSpec

\* Once the screen has shown data for its question, it shows that question's: no late answer
\* for the question before, and no message of another one, replaces it
\* (present/page.tsx: the effect's cancelled flag, applyQuestionChanged).
THEOREM ScreenShowsItsQuestion == PresentSpec => []ShowsItsQuestion
<1>1. PresentIInv => ShowsItsQuestion
  BY DEF PresentIInv
<1> QED BY <1>1, PresentInvariance, PTL

\* The count of participants on the screen is the size of the audience's room when nothing is
\* on its way (AudienceGateway handleJoin and handleDisconnect, the ack of WordCloudGateway's).
THEOREM CountIsRoomSize == PresentSpec => []JoinedIsRoomSize
<1>1. PresentIInv => JoinedIsRoomSize
  <2> SUFFICES ASSUME PresentIInv, seat = "in", \A i \in DOMAIN line : line[i].type # "joined"
               PROVE  page.joined = JoinedCount
    BY DEF JoinedIsRoomSize
  <2>1. line \in Seq(Message) /\ DOMAIN line = 1..Len(line)
    BY DEF PresentIInv, PresentTyped
  <2> QED BY <2>1 DEF PresentIInv, CountTold, Told
<1> QED BY <1>1, PresentInvariance, PTL

-----------------------------------------------------------------------------
(* The editor.  What the page shows is what it will send last, or what the *)
(* row has; and no two questions have the same order.                      *)

EditorSpec == EditorInit /\ [][EditorNext]_editorVars

LastSent(c) ==
  IF pending[c] # 0 THEN pending[c] ELSE IF queue[c] # <<>> THEN Last(queue[c]) ELSE value[c]

TypedIsLastSent == \A c \in Existing \ (failed \cup applied) : typed[c] = LastSent(c)

OrdersDiffer == \A c, d \in Existing : order[c] = order[d] => c = d

EditorIInv == EditorTypeOK /\ IsFiniteSet(Existing) /\ OrdersDiffer /\ TypedIsLastSent

-----------------------------------------------------------------------------
(* A run of updates: the fold of Run, one update after the other.          *)

Top(s) == Max(s)

\* g[s] is the state after the updates numbered in s, for every s \subseteq S: the recursion of
\* MapThenFoldSet.
Runs(g, base, steps, S) ==
  g = [s \in SUBSET S |-> IF s = {} THEN base ELSE Assign(g[s \ {Top(s)}], steps[Top(s)])]

\* A set of numbers up to n has a largest.
LEMMA TopIn ==
  ASSUME NEW n \in Nat, NEW s \in SUBSET (1..n), s # {}
  PROVE  Top(s) \in s /\ \A x \in s : x <= Top(s)
<1> DEFINE B == {t \in SUBSET (1..n) : t # {} /\ ~\E m \in t : \A x \in t : x <= m}
<1>1. B = {}
  <2> SUFFICES ASSUME B # {} PROVE FALSE
    OBVIOUS
  <2>1. B \in SUBSET SUBSET (1..n) /\ IsFiniteSet(1..n)
    BY FS_Interval
  <2> HIDE DEF B
  <2>2. PICK t \in B : \A u \in SUBSET t : u # t => u \notin B
    BY <2>1, SmallestSet
  <2>3. t \in SUBSET (1..n) /\ t # {} /\ ~\E m \in t : \A x \in t : x <= m
    BY DEF B
  <2>4. PICK a \in t : TRUE
    BY <2>3
  <2>5. t \ {a} \notin B
    BY <2>2, <2>4
  <2>6. \E m \in t : \A x \in t : x <= m
    <3>1. CASE t \ {a} = {}
      BY <2>3, <2>4, <3>1
    <3>2. CASE t \ {a} # {}
      <4>1. PICK m \in t \ {a} : \A x \in t \ {a} : x <= m
        BY <2>3, <2>5, <3>2 DEF B
      <4>2. a \in Int /\ m \in Int /\ \A x \in t : x \in Int
        BY <2>3, <2>4
      <4>3. CASE a <= m
        BY <4>1, <4>3
      <4>4. CASE m <= a
        BY <2>4, <4>1, <4>2, <4>4
      <4> QED BY <4>2, <4>3, <4>4
    <3> QED BY <3>1, <3>2
  <2> QED BY <2>3, <2>6
<1>2. \E m \in s : \A x \in s : x <= m
  BY <1>1
<1>3. \E m \in s : \A x \in s : m >= x
  BY <1>2
<1>4. Top(s) \in s /\ \A x \in s : Top(s) >= x
  BY <1>3 DEF Top, Max
<1> QED BY <1>4

LEMMA RunsStep ==
  ASSUME NEW base, NEW steps, NEW S, NEW g, Runs(g, base, steps, S), NEW t \in SUBSET S
  PROVE  g[t] = IF t = {} THEN base ELSE Assign(g[t \ {Top(t)}], steps[Top(t)])
  BY DEF Runs

\* Two runs of the same updates agree.
LEMMA RunsAgree ==
  ASSUME NEW S, IsFiniteSet(S), \A s \in SUBSET S : s # {} => Top(s) \in s,
         NEW U \in SUBSET S, NEW V \in SUBSET S, NEW base, NEW steps,
         NEW g, Runs(g, base, steps, U), NEW k, Runs(k, base, steps, V), NEW W \in SUBSET (U \cap V)
  PROVE  g[W] = k[W]
<1> DEFINE B == {t \in SUBSET W : g[t] # k[t]}
<1> SUFFICES ASSUME B # {} PROVE FALSE
  OBVIOUS
<1>1. B \in SUBSET SUBSET S
  OBVIOUS
<1> HIDE DEF B
<1>2. PICK t \in B : \A u \in SUBSET t : u # t => u \notin B
  BY <1>1, SmallestSet
<1>3. t \in SUBSET W /\ t \in SUBSET U /\ t \in SUBSET V /\ t \in SUBSET S /\ g[t] # k[t]
  BY DEF B
<1>4. g[t] = IF t = {} THEN base ELSE Assign(g[t \ {Top(t)}], steps[Top(t)])
  BY <1>3, RunsStep
<1>5. k[t] = IF t = {} THEN base ELSE Assign(k[t \ {Top(t)}], steps[Top(t)])
  <2>1. \A s \in SUBSET V : k[s] = IF s = {} THEN base ELSE Assign(k[s \ {Top(s)}], steps[Top(s)])
    BY Runs(k, base, steps, V) DEF Runs
  <2> QED BY <1>3, <2>1
<1>6. t # {} /\ Top(t) \in t
  BY <1>3, <1>4, <1>5
<1>7. g[t \ {Top(t)}] = k[t \ {Top(t)}]
  BY <1>2, <1>3, <1>6 DEF B
<1> QED BY <1>3, <1>4, <1>5, <1>6, <1>7

\* The recursion has a solution.
LEMMA RunsExist ==
  ASSUME NEW S, IsFiniteSet(S), \A s \in SUBSET S : s # {} => Top(s) \in s, NEW base, NEW steps
  PROVE  \E g : Runs(g, base, steps, S)
<1>0. \A U, V \in SUBSET S : \A g, k : \A W \in SUBSET (U \cap V) :
        Runs(g, base, steps, U) /\ Runs(k, base, steps, V) => g[W] = k[W]
  BY RunsAgree
<1> DEFINE B == {t \in SUBSET S : ~\E g : Runs(g, base, steps, t)}
<1> SUFFICES ASSUME B # {} PROVE FALSE
  OBVIOUS
<1>1. B \in SUBSET SUBSET S
  OBVIOUS
<1> HIDE DEF B
<1>2. PICK t \in B : \A u \in SUBSET t : u # t => u \notin B
  BY <1>1, SmallestSet
<1>3. t \in SUBSET S /\ ~\E g : Runs(g, base, steps, t)
  BY DEF B
<1>4. \A u \in SUBSET t : u # t => \E g : Runs(g, base, steps, u)
  BY <1>2, <1>3 DEF B
<1> DEFINE G(u) == CHOOSE g : Runs(g, base, steps, u)
           Value(u) == G(u)[u]
           m == [s \in SUBSET t |-> IF s = {} THEN base ELSE Assign(Value(s \ {Top(s)}), steps[Top(s)])]
<1>5. \A u \in SUBSET t : u # t => Runs(G(u), base, steps, u)
  BY <1>4
<1>6. ASSUME NEW u \in SUBSET t, u # t PROVE m[u] = Value(u)
  <2>1. Runs(G(u), base, steps, u)
    BY <1>5, <1>6
  <2>2. Value(u) = IF u = {} THEN base ELSE Assign(G(u)[u \ {Top(u)}], steps[Top(u)])
    BY <2>1, RunsStep
  <2>3. u # {} => Value(u \ {Top(u)}) = G(u)[u \ {Top(u)}]
    <3> SUFFICES ASSUME u # {} PROVE Value(u \ {Top(u)}) = G(u)[u \ {Top(u)}]
      OBVIOUS
    <3> DEFINE v == u \ {Top(u)}
    <3>1. v \in SUBSET t /\ v # t /\ v \in SUBSET u /\ v \in SUBSET S /\ u \in SUBSET S
      BY <1>3, <1>6
    <3>2. Runs(G(v), base, steps, v)
      BY <3>1, <1>5
    <3>3. \A w \in SUBSET S : \A a, b : w \subseteq u /\ Runs(a, base, steps, w) /\ Runs(b, base, steps, u)
            => a[w] = b[w]
      BY <3>1, <1>0
    <3> HIDE DEF v, G
    <3>4. G(v)[v] = G(u)[v]
      BY <3>1, <3>2, <3>3, <2>1
    <3> QED BY <3>4 DEF v, Value, G
  <2> QED BY <2>2, <2>3
<1>7. \A s \in SUBSET t : s # {} => m[s \ {Top(s)}] = Value(s \ {Top(s)})
  <2> TAKE s \in SUBSET t
  <2> HAVE s # {}
  <2> QED BY <1>3, <1>6
<1>8. Runs(m, base, steps, t)
  <2>1. m = [s \in SUBSET t |-> IF s = {} THEN base ELSE Assign(Value(s \ {Top(s)}), steps[Top(s)])]
    OBVIOUS
  <2> HIDE DEF m, Value
  <2> QED BY <1>7, <2>1, Zenon DEF Runs
<1> QED BY <1>3, <1>8

\* The states a run goes through, one update after the other.
Trace(t, orders, steps, n) ==
  /\ t[0] = [fits |-> TRUE, order |-> orders]
  /\ \A k \in 1..n : t[k] = Assign(t[k - 1], steps[k])

LEMMA RunTrace ==
  ASSUME NEW orders, NEW n \in Nat, NEW steps, DOMAIN steps = 1..n
  PROVE  \E t : Trace(t, orders, steps, n) /\ Run(orders, steps) = t[n]
<1> DEFINE base == [fits |-> TRUE, order |-> orders]
           iter == CHOOSE g : Runs(g, base, steps, 1..n)
           t == [k \in 0..n |-> iter[1..k]]
<1>1. Run(orders, steps) = iter[1..n]
  BY DEF Run, FoldLeft, MapThenFoldSet, Runs, Top
<1>2. Runs(iter, base, steps, 1..n)
  <2>1. \A s \in SUBSET (1..n) : s # {} => Top(s) \in s
    BY TopIn
  <2>3. IsFiniteSet(1..n)
    BY FS_Interval
  <2>2. \E g : Runs(g, base, steps, 1..n)
    BY <2>1, <2>3, RunsExist
  <2> QED BY <2>2
<1>3. \A s \in SUBSET (1..n) : iter[s] = IF s = {} THEN base ELSE Assign(iter[s \ {Top(s)}], steps[Top(s)])
  BY <1>2 DEF Runs
<1> HIDE DEF iter
<1>4. t[0] = base
  <2>1. 1..0 = {} /\ {} \in SUBSET (1..n) /\ t[0] = iter[1..0]
    OBVIOUS
  <2> QED BY <1>3, <2>1
<1>5. ASSUME NEW k \in 1..n PROVE t[k] = Assign(t[k - 1], steps[k])
  <2>0. k \in 1..k /\ \A x \in 1..k : x \in 1..n
    OBVIOUS
  <2>1. 1..k \in SUBSET (1..n) /\ 1..k # {}
    BY <2>0
  <2>2. Top(1..k) = k
    <3>1. Top(1..k) \in 1..k /\ \A x \in 1..k : x <= Top(1..k)
      BY <2>1, TopIn
    <3> QED BY <2>0, <3>1
  <2>3. (1..k) \ {k} = 1..(k - 1)
    OBVIOUS
  <2>4. iter[1..k] = Assign(iter[1..(k - 1)], steps[k])
    BY <1>3, <2>1, <2>2, <2>3
  <2>5. t[k] = iter[1..k] /\ t[k - 1] = iter[1..(k - 1)]
    OBVIOUS
  <2> QED BY <2>4, <2>5
<1>6. t[n] = iter[1..n]
  OBVIOUS
<1> HIDE DEF t
<1> QED BY <1>1, <1>4, <1>5, <1>6 DEF Trace

\* A set of numbers up to n has a smallest.
LEMMA SmallestIn ==
  ASSUME NEW n \in Nat, NEW B \in SUBSET (0..n), B # {}
  PROVE  \E k \in B : \A j \in B : k <= j
<1> DEFINE D == {(n + 1) - x : x \in B}
<1>0. \A x \in B : x \in Int /\ (n + 1) - x \in 1..(n + 1)
  OBVIOUS
<1>1. (n + 1) \in Nat /\ D \in SUBSET (1..(n + 1)) /\ D # {}
  <2>1. PICK U : U = 1..(n + 1)
    OBVIOUS
  <2>2. \A x \in B : (n + 1) - x \in U
    BY <1>0, <2>1
  <2>3. D \in SUBSET U /\ D # {}
    BY <2>2, Zenon
  <2> QED BY <2>1, <2>3
<1>2. \A x \in B : (n + 1) - x \in D
  OBVIOUS
<1>3. \A y \in D : \E x \in B : y = (n + 1) - x
  OBVIOUS
<1> HIDE DEF D
<1>4. PICK m \in D : \A y \in D : y <= m
  BY <1>1, TopIn
<1>5. PICK k \in B : m = (n + 1) - k
  BY <1>3
<1>6. \A j \in B : k <= j
  BY <1>0, <1>2, <1>4, <1>5
<1> QED BY <1>6

Distinct(s) == \A i, j \in DOMAIN s : s[i] = s[j] => i = j

\* The first k updates: each gave its question its number, and the others are as they were.
Upto(t, s, number, orders, k) ==
  /\ t[k].fits = TRUE
  /\ t[k].order \in [Cards -> Int]
  /\ \A i \in 1..k : t[k].order[s[i]] = number[i]
  /\ \A c \in Cards : (\A i \in 1..k : s[i] # c) => t[k].order[c] = orders[c]

\* Distinct numbers given to distinct questions, one after the other, each one that no question
\* still to come has: every update fits.
LEMMA Renumbers ==
  ASSUME NEW n \in Nat, NEW s \in [1..n -> Cards], Distinct(s),
         NEW number \in [1..n -> Int], Distinct(number), NEW orders \in [Cards -> Int],
         NEW t, t[0].fits = TRUE, t[0].order = orders,
         \A k \in 1..n : t[k] = Assign(t[k - 1], [card |-> s[k], order |-> number[k]]),
         \A k \in 1..n : \A c \in Cards : (\A i \in 1..k : s[i] # c) => orders[c] # number[k]
  PROVE  \A k \in 0..n : Upto(t, s, number, orders, k)
<1> DEFINE B == {k \in 0..n : ~Upto(t, s, number, orders, k)}
<1> SUFFICES ASSUME B # {} PROVE FALSE
  OBVIOUS
<1>1. B \in SUBSET (0..n)
  OBVIOUS
<1> HIDE DEF B
<1>2. PICK k \in B : \A j \in B : k <= j
  BY <1>1, SmallestIn
<1>3. k \in 0..n /\ ~Upto(t, s, number, orders, k)
  BY DEF B
<1>4. Upto(t, s, number, orders, 0)
  BY DEF Upto
<1>5. k \in 1..n /\ k - 1 \in 0..n /\ k - 1 \notin B /\ k \in Nat
  <2>1. k # 0
    BY <1>3, <1>4
  <2>2. k \in 1..n /\ k - 1 \in 0..n /\ k \in Nat
    BY <1>3, <2>1
  <2> QED BY <1>2, <2>2
<1>6. Upto(t, s, number, orders, k - 1)
  BY <1>5 DEF B
<1>7. PICK u : u = t[k - 1]
  OBVIOUS
<1>8. /\ u.fits = TRUE /\ u.order \in [Cards -> Int]
      /\ \A i \in 1..(k - 1) : u.order[s[i]] = number[i]
      /\ \A c \in Cards : (\A i \in 1..(k - 1) : s[i] # c) => u.order[c] = orders[c]
  BY <1>6, <1>7 DEF Upto
<1>9. s[k] \in Cards /\ number[k] \in Int
  BY <1>5
<1>10. t[k] = [fits  |-> u.fits /\ \A c \in Cards \ {s[k]} : u.order[c] # number[k],
               order |-> [u.order EXCEPT ![s[k]] = number[k]]]
  BY <1>5, <1>7 DEF Assign
<1>11. \A c \in Cards \ {s[k]} : u.order[c] # number[k]
  <2> TAKE c \in Cards \ {s[k]}
  <2>1. CASE \E i \in 1..(k - 1) : s[i] = c
    <3>1. PICK i \in 1..(k - 1) : s[i] = c
      BY <2>1
    <3>2. i \in 1..n /\ i # k
      BY <1>5, <3>1
    <3>3. number[i] # number[k]
      BY <1>5, <3>2 DEF Distinct
    <3> QED BY <1>8, <3>1, <3>3
  <2>2. CASE \A i \in 1..(k - 1) : s[i] # c
    <3>1. \A i \in 1..k : i = k \/ i \in 1..(k - 1)
      BY <1>5
    <3>2. \A i \in 1..k : s[i] # c
      BY <2>2, <3>1
    <3>3. orders[c] # number[k]
      BY <1>5, <3>2
    <3> QED BY <1>8, <2>2, <3>3
  <2> QED BY <2>1, <2>2
<1>12. t[k].fits = TRUE /\ t[k].order = [u.order EXCEPT ![s[k]] = number[k]]
  <2>1. PICK b : b = (u.fits /\ \A c \in Cards \ {s[k]} : u.order[c] # number[k])
    OBVIOUS
  <2>2. b = TRUE
    BY <1>8, <1>11, <2>1, Zenon
  <2>3. t[k] = [fits |-> b, order |-> [u.order EXCEPT ![s[k]] = number[k]]]
    BY <1>10, <2>1, Zenon
  <2> QED BY <2>2, <2>3
<1>13. t[k].order \in [Cards -> Int]
  BY <1>8, <1>9, <1>12
<1>14. \A i \in 1..k : t[k].order[s[i]] = number[i]
  <2> TAKE i \in 1..k
  <2>1. CASE i = k
    BY <1>8, <1>9, <1>12, <2>1
  <2>2. CASE i # k
    <3>1. i \in 1..(k - 1) /\ i \in 1..n
      BY <1>5, <2>2
    <3>2. s[i] # s[k] /\ s[i] \in Cards
      BY <1>5, <2>2, <3>1 DEF Distinct
    <3> QED BY <1>8, <1>12, <3>1, <3>2
  <2> QED BY <2>1, <2>2
<1>15. \A c \in Cards : (\A i \in 1..k : s[i] # c) => t[k].order[c] = orders[c]
  <2> TAKE c \in Cards
  <2> HAVE \A i \in 1..k : s[i] # c
  <2>1. s[k] # c /\ \A i \in 1..(k - 1) : s[i] # c
    BY <1>5
  <2> QED BY <1>8, <1>12, <2>1
<1> QED BY <1>3, <1>12, <1>13, <1>14, <1>15 DEF Upto

-----------------------------------------------------------------------------
(* The questions in their order *)

\* A sequence of a set has its elements, each once.
LEMMA SeqsAre ==
  ASSUME NEW S, IsFiniteSet(S), NEW s \in SetToSeqs(S)
  PROVE  /\ Cardinality(S) \in Nat /\ s \in [1..Cardinality(S) -> S] /\ Distinct(s)
         /\ Len(s) = Cardinality(S) /\ \A c \in S : \E i \in 1..Len(s) : s[i] = c
<1> DEFINE n == Cardinality(S)
<1>1. n \in Nat
  BY FS_CardinalityType
<1>2. s \in [1..n -> S] /\ \A i, j \in 1..n : i # j => s[i] # s[j]
  BY DEF SetToSeqs
<1>3. IsFiniteSet(1..n) /\ Cardinality(1..n) = n
  BY <1>1, FS_Interval
<1>4. s \in Injection(1..n, S)
  BY <1>2 DEF Injection, IsInjective
<1> HIDE DEF n
<1>5. Cardinality(1..n) = Cardinality(S) <=> s \in Surjection(1..n, S)
  BY <1>4, FS_Injection
<1>6. s \in Surjection(1..n, S)
  BY <1>3, <1>5 DEF n
<1>7. \A c \in S : \E i \in 1..n : s[i] = c
  BY <1>6 DEF Surjection
<1>8. Len(s) = n
  BY <1>1, <1>2
<1> QED BY <1>1, <1>2, <1>7, <1>8 DEF n, Distinct

\* Different orders put the questions in a row: the place of one is how many come up to it.
LEMMA SortedExists ==
  ASSUME NEW S, IsFiniteSet(S), NEW o \in [S -> Nat], Distinct(o)
  PROVE  \E s \in SetToSeqs(S) : \A i, j \in 1..Cardinality(S) : i < j => o[s[i]] < o[s[j]]
<1> DEFINE n == Cardinality(S)
           Below(c) == {d \in S : o[d] <= o[c]}
           place == [c \in S |-> Cardinality(Below(c))]
<1>1. n \in Nat /\ IsFiniteSet(1..n) /\ Cardinality(1..n) = n
  BY FS_CardinalityType, FS_Interval
<1>2. ASSUME NEW c \in S
      PROVE  place[c] \in 1..n
  <2>1. Below(c) \in SUBSET S /\ c \in Below(c)
    OBVIOUS
  <2>2. place[c] = Cardinality(Below(c))
    OBVIOUS
  <2> HIDE DEF Below, n
  <2>3. IsFiniteSet(Below(c)) /\ Cardinality(Below(c)) <= Cardinality(S)
    BY <2>1, FS_Subset
  <2>4. Cardinality(Below(c)) \in Nat /\ Cardinality(Below(c)) # 0
    BY <2>1, <2>3, FS_CardinalityType, FS_EmptySet
  <2> QED BY <1>1, <2>2, <2>3, <2>4 DEF n
<1>3. ASSUME NEW c \in S, NEW d \in S, o[c] < o[d]
      PROVE  place[c] < place[d]
  <2>1. Below(c) \in SUBSET Below(d) /\ d \notin Below(c) /\ d \in Below(d) /\ Below(d) \in SUBSET S
    BY <1>3
  <2>2. place[c] = Cardinality(Below(c)) /\ place[d] = Cardinality(Below(d))
    OBVIOUS
  <2>3. place[c] \in 1..n /\ place[d] \in 1..n
    BY <1>2
  <2> HIDE DEF Below, n
  <2>4. IsFiniteSet(Below(d))
    BY <2>1, FS_Subset
  <2>5. Cardinality(Below(c)) <= Cardinality(Below(d)) /\ Cardinality(Below(c)) # Cardinality(Below(d))
    BY <2>1, <2>4, FS_Subset
  <2> QED BY <1>1, <2>2, <2>3, <2>5
<1>5. place \in [S -> 1..n]
  BY <1>2
<1> HIDE DEF Below, place, n
<1>4. \A c, d \in S : place[c] = place[d] => c = d
  <2> TAKE c, d \in S
  <2> HAVE place[c] = place[d]
  <2>1. ~(o[c] < o[d]) /\ ~(o[d] < o[c])
    BY <1>1, <1>3, <1>5
  <2>2. o[c] = o[d]
    BY <2>1
  <2> QED BY <2>2 DEF Distinct
<1>6. place \in Injection(S, 1..n)
  BY <1>4, <1>5 DEF Injection, IsInjective
<1>7. place \in Surjection(S, 1..n)
  BY <1>1, <1>6, FS_Injection DEF n
<1>8. \A i \in 1..n : \E c \in S : place[c] = i
  BY <1>7 DEF Surjection
<1> DEFINE s == [i \in 1..n |-> CHOOSE c \in S : place[c] = i]
<1>9. \A i \in 1..n : s[i] \in S /\ place[s[i]] = i
  BY <1>8
<1>10. s \in SetToSeqs(S)
  <2>1. s \in [1..n -> S]
    BY <1>9
  <2>2. \A i, j \in 1..n : i # j => s[i] # s[j]
    BY <1>9
  <2> HIDE DEF s
  <2> QED BY <2>1, <2>2 DEF SetToSeqs, n
<1> HIDE DEF s
<1>11. \A i, j \in 1..n : i < j => o[s[i]] < o[s[j]]
  <2> TAKE i, j \in 1..n
  <2> HAVE i < j
  <2>1. s[i] \in S /\ s[j] \in S /\ place[s[i]] = i /\ place[s[j]] = j
    BY <1>9
  <2>2. ~(o[s[j]] < o[s[i]])
    BY <1>3, <2>1
  <2>3. o[s[i]] # o[s[j]]
    BY <2>1 DEF Distinct
  <2> QED BY <2>1, <2>2, <2>3
<1> QED BY <1>10, <1>11 DEF n

LEMMA ByOrderSorts ==
  ASSUME order \in [Cards -> Nat], NEW S \in SUBSET Cards, IsFiniteSet(S),
         \A c, d \in S : order[c] = order[d] => c = d
  PROVE  /\ ByOrder(S) \in SetToSeqs(S)
         /\ \A i, j \in 1..Cardinality(S) : i < j => order[ByOrder(S)[i]] < order[ByOrder(S)[j]]
<1> DEFINE o == [c \in S |-> order[c]]
<1>1. o \in [S -> Nat] /\ Distinct(o)
  BY DEF Distinct
<1>2. \A c \in S : o[c] = order[c]
  OBVIOUS
<1> HIDE DEF o
<1>3. PICK s \in SetToSeqs(S) : \A i, j \in 1..Cardinality(S) : i < j => o[s[i]] < o[s[j]]
  BY <1>1, SortedExists
<1>4. \A t \in SetToSeqs(S) : /\ DOMAIN t = 1..Cardinality(S) /\ t \in [1..Cardinality(S) -> S]
                              /\ \A i, j \in 1..Cardinality(S) : i # j => t[i] # t[j]
  BY DEF SetToSeqs
<1>5. \A i, j \in DOMAIN s : i < j => order[s[i]] <= order[s[j]]
  <2> TAKE i, j \in DOMAIN s
  <2> HAVE i < j
  <2>1. i \in 1..Cardinality(S) /\ j \in 1..Cardinality(S) /\ s \in [1..Cardinality(S) -> S]
    BY <1>4
  <2>2. s[i] \in S /\ s[j] \in S /\ o[s[i]] < o[s[j]]
    BY <1>3, <2>1
  <2> QED BY <1>1, <1>2, <2>2
<1>6. /\ ByOrder(S) \in SetToSeqs(S)
      /\ \A i, j \in DOMAIN ByOrder(S) : i < j => order[ByOrder(S)[i]] <= order[ByOrder(S)[j]]
  BY <1>5 DEF ByOrder
<1>7. ASSUME NEW i \in 1..Cardinality(S), NEW j \in 1..Cardinality(S), i < j
      PROVE  order[ByOrder(S)[i]] < order[ByOrder(S)[j]]
  <2>1. Cardinality(S) \in Nat
    BY FS_CardinalityType
  <2>2. ByOrder(S)[i] \in S /\ ByOrder(S)[j] \in S /\ ByOrder(S)[i] # ByOrder(S)[j]
    BY <1>4, <1>6, <1>7, <2>1
  <2>3. order[ByOrder(S)[i]] <= order[ByOrder(S)[j]]
    BY <1>4, <1>6, <1>7
  <2>4. order[ByOrder(S)[i]] # order[ByOrder(S)[j]]
    BY <2>2
  <2> QED BY <2>2, <2>3, <2>4
<1> QED BY <1>6, <1>7

\* In a row of different positive orders, the k-th is k or more.
LEMMA RoomBelow ==
  ASSUME NEW n \in Nat, NEW a \in [1..n -> Nat \ {0}], \A i, j \in 1..n : i < j => a[i] < a[j]
  PROVE  \A k \in 1..n : k <= a[k]
<1> DEFINE B == {k \in 1..n : a[k] < k}
<1> SUFFICES ASSUME B # {} PROVE FALSE
  OBVIOUS
<1>1. B \in SUBSET (0..n)
  OBVIOUS
<1> HIDE DEF B
<1>2. PICK k \in B : \A j \in B : k <= j
  BY <1>1, SmallestIn
<1>3. k \in 1..n /\ a[k] < k /\ a[k] \in Nat \ {0}
  BY DEF B
<1>4. k # 1
  BY <1>3
<1>5. k - 1 \in 1..n /\ k - 1 < k
  BY <1>3, <1>4
<1>6. k - 1 \notin B
  BY <1>2, <1>3, <1>5
<1>7. a[k - 1] < a[k] /\ a[k - 1] \in Nat
  BY <1>3, <1>5
<1>8. k - 1 <= a[k - 1]
  BY <1>5, <1>6, <1>7 DEF B
<1> QED BY <1>3, <1>5, <1>7, <1>8

\* Renumbering in the order they have, after one is removed: each place is free when it is given.
LEMMA RemoveRuns ==
  ASSUME order \in [Cards -> Nat], IsFiniteSet(Existing), OrdersDiffer, NEW c \in Existing
  PROVE  LET done == Run(Without(c), Renumbering(c)) IN
         /\ done.fits = TRUE /\ done.order \in [Cards -> Nat] /\ done.order[c] = 0
         /\ \A d \in Cards \ Existing : done.order[d] = 0
         /\ \A d, e \in Existing \ {c} : done.order[d] = done.order[e] => d = e
<1> DEFINE S == Existing \ {c}
<1>1. IsFiniteSet(S) /\ S \in SUBSET Cards /\ c \in Cards /\ c \notin S
  BY FS_RemoveElement DEF Existing
<1>2. \A d \in Cards : d \in S <=> d # c /\ order[d] # 0
  BY DEF Existing
<1>3. \A d, e \in S : order[d] = order[e] => d = e
  BY DEF OrdersDiffer
<1>4. Renumbering(c) = Numbered(ByOrder(S), 1)
  BY DEF Renumbering
<1> HIDE DEF S
<1>5. PICK s : s = ByOrder(S)
  OBVIOUS
<1>6. PICK n : n = Cardinality(S)
  OBVIOUS
<1>7. /\ s \in SetToSeqs(S)
      /\ \A i, j \in 1..n : i < j => order[s[i]] < order[s[j]]
  BY <1>1, <1>3, <1>5, <1>6, ByOrderSorts
<1>8. /\ n \in Nat /\ s \in [1..n -> S] /\ Distinct(s) /\ Len(s) = n
      /\ \A d \in S : \E i \in 1..n : s[i] = d
  BY <1>1, <1>6, <1>7, SeqsAre
<1>9. PICK o : o = Without(c)
  OBVIOUS
<1>10. o \in [Cards -> Int] /\ o[c] = 0 /\ \A d \in Cards \ {c} : o[d] = order[d]
  BY <1>1, <1>9 DEF Without
<1>11. PICK steps : steps = Numbered(s, 1)
  OBVIOUS
<1>12. DOMAIN steps = 1..n /\ \A k \in 1..n : steps[k] = [card |-> s[k], order |-> k]
  BY <1>8, <1>11 DEF Numbered
<1>13. PICK t : Trace(t, o, steps, n) /\ Run(o, steps) = t[n]
  BY <1>8, <1>12, RunTrace
<1> DEFINE number == [k \in 1..n |-> k]
<1>14. number \in [1..n -> Int] /\ Distinct(number) /\ \A k \in 1..n : number[k] = k
  BY <1>8 DEF Distinct
<1> HIDE DEF number
<1>15. \A k \in 1..n : k <= order[s[k]]
  <2> DEFINE a == [k \in 1..n |-> order[s[k]]]
  <2>1. \A k \in 1..n : s[k] \in S /\ s[k] \in Cards
    BY <1>1, <1>8
  <2>2. a \in [1..n -> Nat \ {0}] /\ \A k \in 1..n : a[k] = order[s[k]]
    BY <1>2, <2>1
  <2> HIDE DEF a
  <2>3. \A i, j \in 1..n : i < j => a[i] < a[j]
    BY <1>7, <2>2
  <2>4. \A k \in 1..n : k <= a[k]
    BY <1>8, <2>2, <2>3, RoomBelow
  <2> QED BY <2>2, <2>4
<1>16. ASSUME NEW k \in 1..n, NEW d \in Cards, \A i \in 1..k : s[i] # d
       PROVE  o[d] # number[k]
  <2>1. CASE d \in S
    <3>1. PICK j \in 1..n : s[j] = d
      BY <1>8, <2>1
    <3>2. k < j
      BY <1>8, <1>16, <3>1
    <3>3. order[s[k]] < order[d] /\ k <= order[s[k]]
      BY <1>7, <1>15, <3>1, <3>2
    <3>4. order[s[k]] \in Nat /\ order[d] \in Nat /\ k \in Nat
      BY <1>1, <1>8
    <3>5. o[d] = order[d]
      BY <1>1, <1>10, <2>1
    <3> QED BY <1>14, <3>3, <3>4, <3>5
  <2>2. CASE d \notin S
    BY <1>2, <1>10, <1>14, <2>2
  <2> QED BY <2>1, <2>2
<1>17. s \in [1..n -> Cards]
  BY <1>1, <1>8
<1>18. /\ t[0].fits = TRUE /\ t[0].order = o
       /\ \A k \in 1..n : t[k] = Assign(t[k - 1], [card |-> s[k], order |-> number[k]])
  BY <1>12, <1>13, <1>14 DEF Trace
<1>19. \A k \in 0..n : Upto(t, s, number, o, k)
  BY <1>8, <1>10, <1>14, <1>16, <1>17, <1>18, Renumbers
<1>20. n \in 0..n
  BY <1>8
<1>21. /\ t[n].fits = TRUE /\ t[n].order \in [Cards -> Int]
       /\ \A i \in 1..n : t[n].order[s[i]] = i
       /\ \A d \in Cards : (\A i \in 1..n : s[i] # d) => t[n].order[d] = o[d]
  BY <1>14, <1>19, <1>20 DEF Upto
<1>22. \A d \in Cards : d \notin S => t[n].order[d] = 0
  <2> TAKE d \in Cards
  <2> HAVE d \notin S
  <2>1. \A i \in 1..n : s[i] # d
    BY <1>8
  <2> QED BY <1>2, <1>10, <1>21, <2>1
<1>23. \A d \in Cards : t[n].order[d] \in Nat
  <2> TAKE d \in Cards
  <2>1. CASE d \in S
    <3>1. PICK j \in 1..n : s[j] = d
      BY <1>8, <2>1
    <3> QED BY <1>8, <1>21, <3>1
  <2>2. CASE d \notin S
    BY <1>22, <2>2
  <2> QED BY <2>1, <2>2
<1>24. \A d, e \in S : t[n].order[d] = t[n].order[e] => d = e
  <2> TAKE d, e \in S
  <2>1. PICK i \in 1..n, j \in 1..n : s[i] = d /\ s[j] = e
    BY <1>8
  <2> QED BY <1>21, <2>1
<1>25. Run(Without(c), Renumbering(c)) = t[n]
  BY <1>4, <1>5, <1>9, <1>11, <1>13
<1>26. t[n].order \in [Cards -> Nat]
  BY <1>21, <1>23
<1>27. \A d \in Cards \ Existing : t[n].order[d] = 0
  BY <1>22 DEF S
<1> QED BY <1>1, <1>21, <1>22, <1>24, <1>25, <1>26, <1>27 DEF S

\* reorder: the negative orders meet no order there is, and the positive ones no negative one.
LEMMA ReorderRuns ==
  ASSUME order \in [Cards -> Nat], IsFiniteSet(Existing), NEW cards \in SetToSeqs(Existing)
  PROVE  LET done == Run(order, ReorderSteps(cards)) IN
         /\ done.fits = TRUE /\ done.order \in [Cards -> Nat]
         /\ \A d \in Cards \ Existing : done.order[d] = 0
         /\ \A d, e \in Existing : done.order[d] = done.order[e] => d = e
<1>1. PICK n : n = Cardinality(Existing)
  OBVIOUS
<1>2. /\ n \in Nat /\ cards \in [1..n -> Existing] /\ Distinct(cards) /\ Len(cards) = n
      /\ \A d \in Existing : \E i \in 1..n : cards[i] = d
  BY <1>1, SeqsAre
<1>3. Existing \in SUBSET Cards /\ \A d \in Cards : d \in Existing <=> order[d] # 0
  BY DEF Existing
<1>4. cards \in [1..n -> Cards]
  BY <1>2, <1>3
<1>5. PICK low : low = Numbered(cards, -1)
  OBVIOUS
<1>6. PICK high : high = Numbered(cards, 1)
  OBVIOUS
<1>7. /\ low = [i \in 1..n |-> [card |-> cards[i], order |-> -1 * i]]
      /\ high = [i \in 1..n |-> [card |-> cards[i], order |-> 1 * i]]
  BY <1>2, <1>5, <1>6 DEF Numbered
<1>8. PICK steps : steps = low \o high
  OBVIOUS
<1>9. /\ DOMAIN steps = 1..(n + n)
      /\ \A k \in 1..n : steps[k] = [card |-> cards[k], order |-> 0 - k]
      /\ \A k \in 1..n : steps[n + k] = [card |-> cards[k], order |-> k]
  <2>1. PICK R : \A i \in 1..n : low[i] \in R /\ high[i] \in R
    <3>1. PICK R : R = {low[i] : i \in 1..n} \cup {high[i] : i \in 1..n}
      OBVIOUS
    <3> QED BY <3>1
  <2>2. low \in Seq(R) /\ high \in Seq(R) /\ Len(low) = n /\ Len(high) = n
    <3>1. low \in [1..n -> R] /\ high \in [1..n -> R]
      BY <1>7, <2>1
    <3> QED BY <1>2, <3>1
  <2>7. /\ low \o high \in Seq(R) /\ Len(low \o high) = Len(low) + Len(high)
        /\ \A i \in 1..Len(low) + Len(high) :
             (low \o high)[i] = IF i <= Len(low) THEN low[i] ELSE high[i - Len(low)]
    BY <2>2, ConcatProperties
  <2>3. /\ Len(steps) = n + n /\ steps \in Seq(R)
        /\ \A i \in 1..(n + n) : steps[i] = IF i <= n THEN low[i] ELSE high[i - n]
    BY <1>8, <2>2, <2>7
  <2>4. \A k \in 1..n : steps[k] = low[k]
    BY <1>2, <2>3
  <2>5. \A k \in 1..n : steps[n + k] = high[k]
    <3> TAKE k \in 1..n
    <3>1. n + k \in 1..(n + n) /\ ~(n + k <= n) /\ (n + k) - n = k
      BY <1>2
    <3> QED BY <2>3, <3>1
  <2>6. \A k \in 1..n : /\ low[k] = [card |-> cards[k], order |-> 0 - k]
                        /\ high[k] = [card |-> cards[k], order |-> k]
    BY <1>2, <1>7
  <2>8. DOMAIN steps = 1..(n + n)
    BY <2>3
  <2> QED BY <2>4, <2>5, <2>6, <2>8
<1>10. PICK t : Trace(t, order, steps, n + n) /\ Run(order, steps) = t[n + n]
  BY <1>2, <1>9, RunTrace
<1> DEFINE minus == [k \in 1..n |-> 0 - k]
           plus == [k \in 1..n |-> k]
           u == [k \in 0..n |-> t[n + k]]
<1>11. /\ minus \in [1..n -> Int] /\ Distinct(minus) /\ \A k \in 1..n : minus[k] = 0 - k
       /\ plus \in [1..n -> Int] /\ Distinct(plus) /\ \A k \in 1..n : plus[k] = k
  BY <1>2 DEF Distinct
<1>12. u[0] = t[n] /\ u[n] = t[n + n] /\ \A k \in 1..n : u[k] = t[n + k] /\ u[k - 1] = t[(n + k) - 1]
  BY <1>2
<1> HIDE DEF minus, plus, u
<1>13. \A k \in 0..n : Upto(t, cards, minus, order, k)
  <2>1. t[0].fits = TRUE /\ t[0].order = order
    BY <1>10 DEF Trace
  <2>2. \A k \in 1..n : t[k] = Assign(t[k - 1], [card |-> cards[k], order |-> minus[k]])
    BY <1>2, <1>9, <1>10, <1>11 DEF Trace
  <2>3. order \in [Cards -> Int]
    OBVIOUS
  <2>4. \A k \in 1..n : \A c \in Cards : (\A i \in 1..k : cards[i] # c) => order[c] # minus[k]
    <3> TAKE k \in 1..n
    <3> TAKE c \in Cards
    <3> QED BY <1>2, <1>11
  <2> QED BY <1>2, <1>4, <1>11, <2>1, <2>2, <2>3, <2>4, Renumbers
<1>14. PICK o : o = t[n].order
  OBVIOUS
<1>15. /\ t[n].fits = TRUE /\ o \in [Cards -> Int]
       /\ \A i \in 1..n : o[cards[i]] = 0 - i
       /\ \A c \in Cards : (\A i \in 1..n : cards[i] # c) => o[c] = order[c]
  BY <1>2, <1>11, <1>13, <1>14 DEF Upto
<1>16. \A c \in Cards : c \in Existing \/ o[c] = 0
  BY <1>2, <1>3, <1>15
<1>17. \A k \in 0..n : Upto(u, cards, plus, o, k)
  <2>1. u[0].fits = TRUE /\ u[0].order = o
    BY <1>12, <1>14, <1>15
  <2>2. \A k \in 1..n : u[k] = Assign(u[k - 1], [card |-> cards[k], order |-> plus[k]])
    <3> TAKE k \in 1..n
    <3>1. n + k \in 1..(n + n)
      BY <1>2
    <3>2. t[n + k] = Assign(t[(n + k) - 1], steps[n + k])
      BY <1>10, <3>1 DEF Trace
    <3> QED BY <1>9, <1>11, <1>12, <3>2
  <2>3. \A k \in 1..n : \A c \in Cards : (\A i \in 1..k : cards[i] # c) => o[c] # plus[k]
    <3> TAKE k \in 1..n
    <3> TAKE c \in Cards
    <3>1. CASE c \in Existing
      <4>1. PICK j \in 1..n : cards[j] = c
        BY <1>2, <3>1
      <4> QED BY <1>2, <1>11, <1>15, <4>1
    <3>2. CASE o[c] = 0
      BY <1>2, <1>11, <3>2
    <3> QED BY <1>16, <3>1, <3>2
  <2> QED BY <1>2, <1>4, <1>11, <1>15, <2>1, <2>2, <2>3, Renumbers
<1>18. PICK done : done = t[n + n]
  OBVIOUS
<1>19. /\ done.fits = TRUE /\ done.order \in [Cards -> Int]
       /\ \A i \in 1..n : done.order[cards[i]] = i
       /\ \A c \in Cards : (\A i \in 1..n : cards[i] # c) => done.order[c] = o[c]
  <2>1. Upto(u, cards, plus, o, n) /\ u[n] = done
    BY <1>2, <1>12, <1>17, <1>18
  <2> QED BY <1>11, <2>1 DEF Upto
<1>20. \A c \in Cards \ Existing : done.order[c] = 0
  BY <1>2, <1>16, <1>19
<1>21. \A c \in Cards : done.order[c] \in Nat
  <2> TAKE c \in Cards
  <2>1. CASE c \in Existing
    <3>1. PICK j \in 1..n : cards[j] = c
      BY <1>2, <2>1
    <3> QED BY <1>2, <1>19, <3>1
  <2> QED BY <1>20, <2>1
<1>22. \A d, e \in Existing : done.order[d] = done.order[e] => d = e
  <2> TAKE d, e \in Existing
  <2>1. PICK i \in 1..n, j \in 1..n : cards[i] = d /\ cards[j] = e
    BY <1>2
  <2> QED BY <1>19, <2>1
<1>23. Run(order, ReorderSteps(cards)) = done
  BY <1>5, <1>6, <1>8, <1>10, <1>18 DEF ReorderSteps
<1>24. done.order \in [Cards -> Nat]
  BY <1>19, <1>21
<1> QED BY <1>19, <1>20, <1>22, <1>23, <1>24

-----------------------------------------------------------------------------
(* The editor's actions *)

\* The ends of a queue.
LEMMA EmptyQueue == <<>> \in Seq(Edits)
OBVIOUS

LEMMA Queued ==
  ASSUME NEW q \in Seq(Edits), NEW v \in Edits
  PROVE  Append(q, v) \in Seq(Edits) /\ Append(q, v) # <<>> /\ Last(Append(q, v)) = v
BY DEF Last

LEMMA Sending ==
  ASSUME NEW q \in Seq(Edits), q # <<>>
  PROVE  /\ Tail(q) \in Seq(Edits) /\ Head(q) \in Edits
         /\ Tail(q) # <<>> => Last(Tail(q)) = Last(q)
         /\ Tail(q) = <<>> => Head(q) = Last(q)
<1>1. Len(q) \in Nat \ {0} /\ Tail(q) \in Seq(Edits) /\ Len(Tail(q)) = Len(q) - 1 /\ Head(q) = q[1]
  OBVIOUS
<1>2. q[1] \in Edits
  BY <1>1
<1>3. ASSUME Tail(q) # <<>> PROVE Last(Tail(q)) = Last(q)
  <2>1. Len(Tail(q)) # 0
    BY <1>1, <1>3
  <2>2. Tail(q)[Len(q) - 1] = q[Len(q)]
    BY <1>1, <2>1
  <2> QED BY <1>1, <2>2 DEF Last
<1>4. ASSUME Tail(q) = <<>> PROVE Head(q) = Last(q)
  <2>1. Len(q) = 1
    BY <1>1, <1>4
  <2> QED BY <1>1, <2>1 DEF Last
<1> QED BY <1>1, <1>2, <1>3, <1>4

LEMMA EditorInitInv == EditorInit => EditorIInv
<1> SUFFICES ASSUME EditorInit PROVE EditorIInv
  OBVIOUS
<1>1. Existing = {} /\ IsFiniteSet({})
  BY FS_EmptySet DEF EditorInit, Existing
<1>2. EditorTypeOK
  BY EditorAssumption, EmptyQueue DEF EditorInit, EditorTypeOK, Edits
<1>3. IsFiniteSet(Existing)
  BY <1>1
<1> QED BY <1>1, <1>2, <1>3 DEF EditorIInv, OrdersDiffer, TypedIsLastSent

\* The order after the last one is a new question's.
LEMMA NextOrderIs ==
  ASSUME EditorIInv
  PROVE  /\ NextOrder \in Nat \ {0}
         /\ Existing # {} => Head(ByOrder(Existing)) \in Cards
<1> USE DEF EditorIInv
<1>1. CASE Existing = {}
  BY <1>1 DEF NextOrder
<1>2. CASE Existing # {}
  <2>1. PICK s : s = ByOrder(Existing)
    OBVIOUS
  <2>2. Existing \in SUBSET Cards /\ order \in [Cards -> Nat]
    BY DEF Existing, EditorTypeOK
  <2>3. s \in SetToSeqs(Existing)
    BY <2>1, <2>2, ByOrderSorts DEF OrdersDiffer
  <2>4. PICK n : n = Cardinality(Existing)
    OBVIOUS
  <2>5. n \in Nat /\ s \in [1..n -> Existing] /\ Len(s) = n
    BY <2>3, <2>4, SeqsAre
  <2>6. n # 0
    BY <1>2, <2>4, FS_EmptySet
  <2>7. s[1] \in Cards /\ s[n] \in Cards
    BY <2>2, <2>5, <2>6
  <2>8. Last(s) = s[n] /\ Head(s) = s[1]
    <3>1. s \in Seq(Existing)
      BY <2>5
    <3>2. s # <<>>
      BY <2>5, <2>6
    <3> QED BY <2>5, <3>1, <3>2 DEF Last
  <2>9. NextOrder = 1 + order[s[n]]
    BY <1>2, <2>1, <2>8 DEF NextOrder
  <2> QED BY <2>1, <2>2, <2>7, <2>8, <2>9
<1> QED BY <1>1, <1>2

\* Rows that keep their order, and a row's edit and its page that do too.
LEMMA RowsKept ==
  ASSUME EditorIInv, UNCHANGED order
  PROVE  Existing' = Existing /\ IsFiniteSet(Existing') /\ OrdersDiffer'
BY DEF EditorIInv, Existing, OrdersDiffer

LEMMA StepStartCopy ==
  ASSUME EditorIInv, StartCreate \/ \E c \in Cards : StartDuplicate(c)
  PROVE  EditorIInv'
<1> USE DEF EditorIInv
<1>1. PICK copied \in Edits : StartCopy(copied)
  <2>1. CASE StartCreate
    <3>1. PICK copied : copied = IF Existing = {} THEN 0 ELSE value[Head(ByOrder(Existing))]
      OBVIOUS
    <3>2. copied \in Edits
      <4>1. 0 \in Edits
        BY EditorAssumption DEF Edits
      <4> QED BY <3>1, <4>1, NextOrderIs DEF EditorTypeOK
    <3> QED BY <2>1, <3>1, <3>2 DEF StartCreate
  <2>2. CASE \E c \in Cards : StartDuplicate(c)
    BY <2>2 DEF StartDuplicate, EditorTypeOK
  <2> QED BY <2>1, <2>2
<1>2. UNCHANGED <<order, value, applied, typed, pending, queue, failed, edits>> /\ ops' \in 0..MaxOps
  BY <1>1, EditorAssumption DEF StartCopy, Op, pageVars, EditorTypeOK
<1>3. creating' \subseteq [order : Nat \ {0}, value : Edits]
  BY <1>1, NextOrderIs DEF StartCopy, EditorTypeOK
<1>4. EditorTypeOK'
  BY <1>2, <1>3 DEF EditorTypeOK
<1>5. Existing' = Existing /\ IsFiniteSet(Existing') /\ OrdersDiffer'
  BY <1>2, RowsKept
<1>6. TypedIsLastSent'
  BY <1>2, <1>5 DEF TypedIsLastSent, LastSent, Last
<1> QED BY <1>4, <1>5, <1>6

LEMMA StepCreate ==
  ASSUME EditorIInv, NEW c \in Cards, NEW new \in creating, Create(c, new)
  PROVE  EditorIInv'
<1> USE DEF EditorIInv
<1>1. new.order \in Nat \ {0} /\ new.value \in Edits
  BY DEF EditorTypeOK
<1>2. /\ c \notin Existing /\ pending[c] = 0 /\ queue[c] = <<>>
      /\ value' = [value EXCEPT ![c] = new.value] /\ typed' = [typed EXCEPT ![c] = new.value]
      /\ failed' = failed \ {c} /\ applied' = applied \ {c} /\ creating' = creating \ {new}
      /\ UNCHANGED <<pending, queue, edits, ops>>
  BY DEF Create
<1>3. order \in [Cards -> Nat] /\ \A d \in Cards : d \in Existing <=> order[d] # 0
  BY DEF EditorTypeOK, Existing
<1>4. \/ order' = order
      \/ /\ order' = [order EXCEPT ![c] = new.order]
         /\ \A d \in Existing : order[d] # new.order
  BY DEF Create
<1>5. order' \in [Cards -> Nat] /\ \A d \in Cards \ {c} : order'[d] = order[d]
  BY <1>1, <1>3, <1>4
<1>6. \A d \in Cards : d \in Existing' <=> order'[d] # 0
  BY DEF Existing
<1>7. Existing' \subseteq Existing \cup {c} /\ \A d \in Existing' : d \in Cards
  BY <1>3, <1>5, <1>6 DEF Existing
<1>8. IsFiniteSet(Existing')
  <2>1. IsFiniteSet(Existing \cup {c})
    BY FS_AddElement
  <2> QED BY <1>7, <2>1, FS_Subset
<1>9. OrdersDiffer'
  <2>1. CASE order' = order
    BY <2>1, RowsKept
  <2>2. CASE /\ order' = [order EXCEPT ![c] = new.order]
             /\ \A d \in Existing : order[d] # new.order
    <3>1. order'[c] = new.order
      BY <1>3, <2>2
    <3>2. \A d \in Existing' : d # c => d \in Existing /\ order'[d] = order[d] /\ order[d] # new.order
      BY <1>5, <1>7, <2>2
    <3>3. \A d, e \in Existing' : order'[d] = order'[e] => d = e
      BY <3>1, <3>2 DEF OrdersDiffer
    <3> QED BY <3>3 DEF OrdersDiffer
  <2> QED BY <1>4, <2>1, <2>2
<1>10. EditorTypeOK'
  BY <1>1, <1>2, <1>5 DEF EditorTypeOK
<1>11. TypedIsLastSent'
  <2> SUFFICES ASSUME NEW d \in Existing' \ (failed' \cup applied')
               PROVE  typed'[d] = LastSent(d)'
    BY DEF TypedIsLastSent
  <2>1. d \in Cards
    BY <1>7
  <2>2. CASE d = c
    <3>1. value'[c] = new.value /\ typed'[c] = new.value
      BY <1>2 DEF EditorTypeOK
    <3> QED BY <1>2, <2>2, <3>1 DEF LastSent
  <2>3. CASE d # c
    <3>1. d \in Existing \ (failed \cup applied)
      BY <1>2, <1>7, <2>3
    <3>2. typed'[d] = typed[d] /\ value'[d] = value[d]
      BY <1>2, <2>1, <2>3 DEF EditorTypeOK
    <3>3. typed[d] = LastSent(d)
      BY <3>1 DEF TypedIsLastSent
    <3> QED BY <1>2, <3>2, <3>3 DEF LastSent, Last
  <2> QED BY <2>2, <2>3
<1> QED BY <1>8, <1>9, <1>10, <1>11

\* Renumbering: the questions there are keep their edits, and none comes into being.
LEMMA Renumbered ==
  ASSUME EditorIInv, order' \in [Cards -> Nat], \A d \in Cards \ Existing : order'[d] = 0,
         \A d, e \in Existing' : order'[d] = order'[e] => d = e,
         UNCHANGED <<value, creating, applied, typed, pending, queue, failed, edits>>, ops' \in 0..MaxOps
  PROVE  EditorIInv'
<1> USE DEF EditorIInv
<1>1. EditorTypeOK'
  BY DEF EditorTypeOK
<1>2. Existing' \subseteq Existing
  BY DEF Existing
<1>3. IsFiniteSet(Existing')
  BY <1>2, FS_Subset
<1>4. OrdersDiffer'
  BY DEF OrdersDiffer
<1>5. TypedIsLastSent'
  BY <1>2 DEF TypedIsLastSent, LastSent, Last
<1> QED BY <1>1, <1>3, <1>4, <1>5

LEMMA StepRemove ==
  ASSUME EditorIInv, NEW c \in Cards, RemoveQuestion(c)
  PROVE  EditorIInv'
<1> USE DEF EditorIInv
<1>1. c \in Existing /\ order' = Run(Without(c), Renumbering(c)).order
  BY DEF RemoveQuestion
<1>2. /\ order' \in [Cards -> Nat] /\ order'[c] = 0 /\ \A d \in Cards \ Existing : order'[d] = 0
      /\ \A d, e \in Existing \ {c} : order'[d] = order'[e] => d = e
  BY <1>1, RemoveRuns DEF EditorTypeOK
<1>3. \A d \in Existing' : d \in Existing \ {c}
  BY <1>2 DEF Existing
<1>4. UNCHANGED <<value, creating, applied, typed, pending, queue, failed, edits>> /\ ops' \in 0..MaxOps
  BY EditorAssumption DEF RemoveQuestion, Op, pageVars, EditorTypeOK
<1> QED BY <1>2, <1>3, <1>4, Renumbered

LEMMA StepReorder ==
  ASSUME EditorIInv, NEW cards \in SetToSeqs(Existing), Reorder(cards)
  PROVE  EditorIInv'
<1> USE DEF EditorIInv
<1>1. order' = Run(order, ReorderSteps(cards)).order
  BY DEF Reorder
<1>2. /\ order' \in [Cards -> Nat] /\ \A d \in Cards \ Existing : order'[d] = 0
      /\ \A d, e \in Existing : order'[d] = order'[e] => d = e
  BY <1>1, ReorderRuns DEF EditorTypeOK
<1>3. \A d \in Existing' : d \in Existing
  BY <1>2 DEF Existing
<1>4. UNCHANGED <<value, creating, applied, typed, pending, queue, failed, edits>> /\ ops' \in 0..MaxOps
  BY EditorAssumption DEF Reorder, Op, pageVars, EditorTypeOK
<1> QED BY <1>2, <1>3, <1>4, Renumbered

LEMMA StepApply ==
  ASSUME EditorIInv, NEW c \in Cards, NEW others \in SUBSET Existing, ApplySettings(c, others)
  PROVE  EditorIInv'
<1> USE DEF EditorIInv
<1>1. /\ value' = [x \in Cards |-> IF x \in others THEN value[c] ELSE value[x]]
      /\ applied' = applied \cup others
      /\ UNCHANGED <<order, creating, typed, pending, queue, failed, edits>> /\ ops' \in 0..MaxOps
  BY EditorAssumption DEF ApplySettings, Op, rowVars, pageVars, EditorTypeOK
<1>2. others \subseteq Cards
  BY DEF Existing
<1>3. EditorTypeOK'
  BY <1>1, <1>2 DEF EditorTypeOK
<1>4. Existing' = Existing /\ IsFiniteSet(Existing') /\ OrdersDiffer'
  BY <1>1, RowsKept
<1>5. TypedIsLastSent'
  <2> SUFFICES ASSUME NEW d \in Existing' \ (failed' \cup applied')
               PROVE  typed'[d] = LastSent(d)'
    BY DEF TypedIsLastSent
  <2>1. d \in Existing \ (failed \cup applied) /\ d \notin others /\ d \in Cards
    BY <1>1, <1>4 DEF Existing
  <2>2. value'[d] = value[d]
    BY <1>1, <2>1
  <2>3. typed[d] = LastSent(d)
    BY <2>1 DEF TypedIsLastSent
  <2> QED BY <1>1, <2>2, <2>3 DEF LastSent, Last
<1> QED BY <1>3, <1>4, <1>5
LEMMA StepType ==
  ASSUME EditorIInv, NEW c \in Cards, Type(c)
  PROVE  EditorIInv'
<1> USE DEF EditorIInv
<1>1. PICK v : v = edits + 1
  OBVIOUS
<1>2. /\ v \in Edits /\ v # 0 /\ edits' = v
      /\ typed' = [typed EXCEPT ![c] = v] /\ pending' = [pending EXCEPT ![c] = v] /\ failed' = failed \ {c}
      /\ UNCHANGED <<order, creating, value, applied, queue, ops>>
  BY <1>1, EditorAssumption DEF Type, rowVars, EditorTypeOK, Edits
<1>3. EditorTypeOK'
  BY <1>2 DEF EditorTypeOK
<1>4. Existing' = Existing /\ IsFiniteSet(Existing') /\ OrdersDiffer'
  BY <1>2, RowsKept
<1>5. TypedIsLastSent'
  <2> SUFFICES ASSUME NEW d \in Existing' \ (failed' \cup applied')
               PROVE  typed'[d] = LastSent(d)'
    BY DEF TypedIsLastSent
  <2>1. d \in Existing /\ d \in Cards
    BY <1>4 DEF Existing
  <2>2. CASE d = c
    <3>1. typed'[c] = v /\ pending'[c] = v
      BY <1>2 DEF EditorTypeOK
    <3> QED BY <1>2, <2>2, <3>1 DEF LastSent
  <2>3. CASE d # c
    <3>1. d \in Existing \ (failed \cup applied)
      BY <1>2, <2>1, <2>3
    <3>2. typed'[d] = typed[d] /\ pending'[d] = pending[d]
      BY <1>2, <2>1, <2>3 DEF EditorTypeOK
    <3>3. typed[d] = LastSent(d)
      BY <3>1 DEF TypedIsLastSent
    <3> QED BY <1>2, <3>2, <3>3 DEF LastSent, Last
  <2> QED BY <2>2, <2>3
<1> QED BY <1>3, <1>4, <1>5

LEMMA StepSendNow ==
  ASSUME EditorIInv, NEW c \in Cards, SendNow(c)
  PROVE  EditorIInv'
<1> USE DEF EditorIInv
<1>1. /\ pending[c] # 0 /\ queue' = [queue EXCEPT ![c] = Append(@, pending[c])]
      /\ pending' = [pending EXCEPT ![c] = 0]
      /\ UNCHANGED <<order, creating, value, applied, typed, failed, edits, ops>>
  BY DEF SendNow, rowVars
<1>2. PICK q \in Seq(Edits) : q = Append(queue[c], pending[c]) /\ q # <<>> /\ Last(q) = pending[c]
  <2>1. queue[c] \in Seq(Edits) /\ pending[c] \in Edits
    BY DEF EditorTypeOK
  <2> QED BY <2>1, Queued
<1>3. /\ pending' \in [Cards -> Edits] /\ queue' \in [Cards -> Seq(Edits)]
      /\ queue'[c] = q /\ pending'[c] = 0
      /\ \A d \in Cards \ {c} : queue'[d] = queue[d] /\ pending'[d] = pending[d]
  BY <1>1, <1>2, EditorAssumption DEF EditorTypeOK, Edits
<1>4. EditorTypeOK'
  BY <1>1, <1>3 DEF EditorTypeOK
<1>5. Existing' = Existing /\ IsFiniteSet(Existing') /\ OrdersDiffer'
  BY <1>1, RowsKept
<1>6. TypedIsLastSent'
  <2> SUFFICES ASSUME NEW d \in Existing' \ (failed' \cup applied')
               PROVE  typed'[d] = LastSent(d)'
    BY DEF TypedIsLastSent
  <2>1. d \in Existing \ (failed \cup applied) /\ d \in Cards
    BY <1>1, <1>5 DEF Existing
  <2>2. typed[d] = LastSent(d) /\ typed'[d] = typed[d] /\ value'[d] = value[d]
    BY <1>1, <2>1 DEF TypedIsLastSent
  <2>3. CASE d = c
    <3>1. LastSent(d)' = Last(q)
      BY <1>2, <1>3, <2>3 DEF LastSent, Last
    <3>2. LastSent(d) = pending[c]
      BY <1>1, <2>3 DEF LastSent
    <3> QED BY <1>2, <2>2, <3>1, <3>2
  <2>4. CASE d # c
    BY <1>3, <2>1, <2>2, <2>4 DEF LastSent, Last
  <2> QED BY <2>3, <2>4
<1> QED BY <1>4, <1>5, <1>6

LEMMA StepSaveEnds ==
  ASSUME EditorIInv, NEW c \in Cards, SaveEnds(c) \/ SaveFails(c)
  PROVE  EditorIInv'
<1> USE DEF EditorIInv
<1>1. PICK q \in Seq(Edits) : q = queue[c]
  BY DEF EditorTypeOK
<1>2. PICK v : v = Head(q)
  OBVIOUS
<1>3. /\ q # <<>> /\ queue' = [queue EXCEPT ![c] = Tail(q)]
      /\ UNCHANGED <<order, creating, applied, typed, pending, edits>>
      /\ failed' = failed \/ failed' = failed \cup {c}
      /\ value' = value \/ Saved(c, v)
      /\ ops' \in 0..MaxOps
  <2>1. CASE SaveEnds(c)
    BY <1>1, <1>2, <2>1 DEF SaveEnds, rowVars, EditorTypeOK
  <2>2. CASE SaveFails(c)
    <3>1. ops' \in 0..MaxOps
      BY <2>2, EditorAssumption DEF SaveFails, Op, EditorTypeOK
    <3> QED BY <1>1, <1>2, <2>2, <3>1 DEF SaveFails, rowVars
  <2> QED BY <2>1, <2>2
<1>4. /\ Tail(q) \in Seq(Edits) /\ v \in Edits
      /\ Tail(q) # <<>> => Last(Tail(q)) = Last(q)
      /\ Tail(q) = <<>> => v = Last(q)
  BY <1>2, <1>3, Sending
<1>5. /\ value' \in [Cards -> Edits] /\ queue' \in [Cards -> Seq(Edits)] /\ queue'[c] = Tail(q)
      /\ \A d \in Cards \ {c} : queue'[d] = queue[d] /\ value'[d] = value[d]
  BY <1>3, <1>4 DEF Saved, EditorTypeOK
<1>6. EditorTypeOK'
  BY <1>3, <1>5 DEF EditorTypeOK
<1>7. Existing' = Existing /\ IsFiniteSet(Existing') /\ OrdersDiffer'
  BY <1>3, RowsKept
<1>8. TypedIsLastSent'
  <2> SUFFICES ASSUME NEW d \in Existing' \ (failed' \cup applied')
               PROVE  typed'[d] = LastSent(d)'
    BY DEF TypedIsLastSent
  <2>1. d \in Existing \ (failed \cup applied) /\ d \in Cards
    BY <1>3, <1>7 DEF Existing
  <2>2. typed[d] = LastSent(d) /\ typed'[d] = typed[d] /\ pending'[d] = pending[d]
    BY <1>3, <2>1 DEF TypedIsLastSent
  <2>3. CASE d = c
    <3>1. CASE pending[c] # 0
      BY <2>2, <2>3, <3>1 DEF LastSent
    <3>2. CASE pending[c] = 0 /\ Tail(q) # <<>>
      <4>1. LastSent(c) = Last(q)
        BY <1>1, <1>3, <3>2 DEF LastSent
      <4>2. LastSent(d)' = Last(Tail(q))
        BY <1>5, <2>2, <2>3, <3>2 DEF LastSent, Last
      <4> QED BY <1>4, <2>2, <2>3, <3>2, <4>1, <4>2
    <3>3. CASE pending[c] = 0 /\ Tail(q) = <<>>
      <4>1. LastSent(c) = Last(q) /\ v = Last(q)
        BY <1>1, <1>3, <1>4, <3>3 DEF LastSent
      <4>2. Saved(c, v)
        <5>1. c \notin failed'
          BY <2>3
        <5>2. SaveEnds(c)
          BY <5>1 DEF SaveFails
        <5> QED BY <1>1, <1>2, <5>2 DEF SaveEnds
      <4>3. value'[c] = v
        BY <2>1, <2>3, <4>2 DEF Saved, EditorTypeOK
      <4>4. LastSent(d)' = value'[c]
        BY <1>5, <2>2, <2>3, <3>3 DEF LastSent
      <4> QED BY <2>2, <2>3, <4>1, <4>3, <4>4
    <3> QED BY <3>1, <3>2, <3>3
  <2>4. CASE d # c
    BY <1>5, <2>1, <2>2, <2>4 DEF LastSent, Last
  <2> QED BY <2>3, <2>4
<1> QED BY <1>6, <1>7, <1>8

LEMMA EditorStep ==
  ASSUME EditorIInv, [EditorNext]_editorVars
  PROVE  EditorIInv'
<1>1. CASE UNCHANGED editorVars
  BY <1>1 DEF editorVars, EditorIInv, EditorTypeOK, Existing, OrdersDiffer, TypedIsLastSent, LastSent, Last
<1>2. CASE EditorNext
  BY <1>2, StepStartCopy, StepCreate, StepRemove, StepReorder, StepApply, StepType, StepSendNow,
     StepSaveEnds DEF EditorNext
<1> QED BY <1>1, <1>2

\* The strengthening holds in every state of the editor.
THEOREM EditorInvariance == EditorSpec => []EditorIInv
<1> QED BY EditorInitInv, EditorStep, PTL DEF EditorSpec

\* When the page has nothing left to send, the row has the last edit typed, unless its save failed
\* or another question's settings were applied (createAutosaveController: one chain of saves per
\* question, sendNow behind the one that runs).
THEOREM RowHasLastEdit == EditorSpec => []LastEditWins
<1>1. EditorIInv => LastEditWins
  BY DEF EditorIInv, TypedIsLastSent, LastSent, LastEditWins
<1> QED BY <1>1, EditorInvariance, PTL

\* Any reordering of the questions and the removal of any of them meet the constraint
\* @@unique([topicId, order]) at no statement (QuestionsService.reorder and remove).
THEOREM RenumberingAlwaysFits == EditorSpec => []RenumberingFits
<1>1. EditorIInv => RenumberingFits
  <2> SUFFICES ASSUME EditorIInv PROVE RenumberingFits
    OBVIOUS
  <2>1. order \in [Cards -> Nat] /\ IsFiniteSet(Existing) /\ OrdersDiffer
    BY DEF EditorIInv, EditorTypeOK
  <2>2. \A cards \in SetToSeqs(Existing) : Run(order, ReorderSteps(cards)).fits = TRUE
    BY <2>1, ReorderRuns
  <2>3. \A c \in Existing : Run(Without(c), Renumbering(c)).fits = TRUE
    BY <2>1, RemoveRuns
  <2> QED BY <2>2, <2>3 DEF RenumberingFits
<1> QED BY <1>1, EditorInvariance, PTL

=============================================================================
