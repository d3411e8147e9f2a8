---------------------------- MODULE PresentPage ----------------------------
(***************************************************************************)
(* The presenter's screen (present/page.tsx) against the two gateways: it  *)
(* fetches the cloud of the current question, then listens on a socket,    *)
(* and polls while the socket is down.  Every change of question starts    *)
(* the effect again: its fetches are cancelled and its socket closed.      *)
(*                                                                         *)
(* A cloud is its version, the number of answers the server had when it    *)
(* was read.  The list of questions, the QR code, fullscreen and colours   *)
(* are left out.                                                           *)
(***************************************************************************)
EXTENDS Naturals, Sequences, FiniteSets

CONSTANTS
  Slides,       \* the questions of the topic
  Listeners,    \* audience devices
  NoSlide,
  MaxFetches,   \* fetches in flight
  MaxEvents     \* answers, changes of question, devices coming and going, faults, in all

ASSUME PresentAssumption ==
  IsFiniteSet(Listeners) /\ NoSlide \notin Slides /\ {MaxFetches, MaxEvents} \subseteq Nat

VARIABLES
  onStage,    \* Topic.currentQuestionId
  version,    \* version[q]: answers the server has
  emitting,   \* [q, v]: broadcastSnapshot that will emit, having read version v or a later one
  device,     \* device[a]: "away", "joining" (handleJoin awaits the topic), "in", "left" (it left meanwhile)
  ghosts,     \* sockets in the audience's room whose device had left before handleJoin ended
  page,       \* the presenter's page
  fetches,    \* its running fetches
  line,       \* what the server has sent on the page's socket
  seat,       \* the page's socket on the server: "out", "joining", "in" (the topic's room)
  events

presentVars == <<onStage, version, emitting, device, ghosts, page, fetches, line, seat, events>>

Versions == 0..MaxEvents
Clouds == [q : Slides \cup {NoSlide}, v : Versions]
Blank == [q |-> NoSlide, v |-> 0]

\* slide: topic.currentQuestionId as the page knows it; fetched: the effect has shown data of its own;
\* posting: the question it is changing to.
Page == [slide : Slides \cup {NoSlide}, cloud : Clouds, fetched : BOOLEAN, joined : Nat,
         socket : {"none", "opening", "live", "grace", "polling"}, posting : Slides \cup {NoSlide}]

Fetch == [q : Slides, cancelled : BOOLEAN, first : BOOLEAN, read : BOOLEAN, v : Versions]

Message == [type : {"update"}, cloud : Clouds] \cup [type : {"joined"}, count : Nat]
           \cup [type : {"changed"}, q : Slides]

PresentTypeOK ==
  /\ onStage \in Slides \cup {NoSlide}
  /\ version \in [Slides -> Versions]
  /\ emitting \subseteq Clouds
  /\ device \in [Listeners -> {"away", "joining", "in", "left"}]
  /\ ghosts \in 0..MaxEvents
  /\ page \in Page
  /\ fetches \subseteq Fetch /\ Cardinality(fetches) <= MaxFetches + 1
  /\ line \in Seq(Message)
  /\ seat \in {"out", "joining", "in"}
  /\ events \in 0..MaxEvents

PresentInit ==
  /\ onStage = NoSlide
  /\ version = [q \in Slides |-> 0]
  /\ emitting = {}
  /\ device = [a \in Listeners |-> "away"]
  /\ ghosts = 0
  /\ page = [slide |-> NoSlide, cloud |-> Blank, fetched |-> FALSE, joined |-> 0,
             socket |-> "none", posting |-> NoSlide]
  /\ fetches = {}
  /\ line = <<>>
  /\ seat = "out"
  /\ events = 0

-----------------------------------------------------------------------------
Event == events < MaxEvents /\ events' = events + 1
server == <<onStage, version, emitting, device, ghosts>>

Sent(messages, m) == IF seat = "in" THEN Append(messages, m) ELSE messages

RoomSize(devices, more) == Cardinality({a \in Listeners : devices[a] = "in"}) + more
JoinedCount == RoomSize(device, ghosts)

\* createResponse committed and runs broadcastSnapshot.
Answered(q) ==
  /\ Event
  /\ version' = [version EXCEPT ![q] = @ + 1]
  /\ emitting' = emitting \cup {[q |-> q, v |-> version[q] + 1]}
  /\ UNCHANGED <<onStage, device, ghosts, page, fetches, line, seat>>

\* It read the cloud at any moment since, and emits.
EmitSnapshot(e, v) ==
  /\ v \in e.v .. version[e.q]
  /\ emitting' = emitting \ {e}
  /\ line' = Sent(line, [type |-> "update", cloud |-> [q |-> e.q, v |-> v]])
  /\ UNCHANGED <<onStage, version, device, ghosts, page, fetches, seat, events>>

\* AudienceGateway.handleJoin up to its await, and a device that leaves before or after it ended.
DeviceJoins(a) ==
  /\ Event
  /\ device[a] = "away"
  /\ device' = [device EXCEPT ![a] = "joining"]
  /\ UNCHANGED <<onStage, version, emitting, ghosts, page, fetches, line, seat>>

CountBroadcast(devices, more) == line' = Sent(line, [type |-> "joined", count |-> RoomSize(devices, more)])

\* handleJoin ends; socket.io may put a socket in the room that disconnected meanwhile.
JoinEnds(a) ==
  /\ device[a] \in {"joining", "left"}
  /\ device' = [device EXCEPT ![a] = IF @ = "joining" THEN "in" ELSE "away"]
  /\ ghosts' \in IF device[a] = "left" THEN {ghosts, ghosts + 1} ELSE {ghosts}
  /\ CountBroadcast(device', ghosts')
  /\ UNCHANGED <<onStage, version, emitting, page, fetches, seat, events>>

DeviceLeavesSilently(a) ==
  /\ Event
  /\ device[a] \in {"joining", "in"}
  /\ device' = [device EXCEPT ![a] = IF @ = "in" THEN "away" ELSE "left"]
  /\ UNCHANGED <<onStage, version, emitting, ghosts, page, fetches, line, seat>>

\* handleDisconnect tells only of a device that had joined.
DeviceLeaves(a) ==
  /\ Event
  /\ device[a] \in {"joining", "in"}
  /\ device' = [device EXCEPT ![a] = IF @ = "in" THEN "away" ELSE "left"]
  /\ IF device[a] = "in" THEN CountBroadcast(device', ghosts) ELSE UNCHANGED line
  /\ UNCHANGED <<onStage, version, emitting, ghosts, page, fetches, seat>>

-----------------------------------------------------------------------------
(* The page.  Restarted(p, q): React runs the effect for question q. *)

NewFetch(q, first) == [q |-> q, cancelled |-> FALSE, first |-> first, read |-> FALSE, v |-> 0]
Cancelled == {[f EXCEPT !.cancelled = TRUE] : f \in fetches}

Show(q, next) ==
  IF q = page.slide THEN page' = next /\ UNCHANGED <<fetches, seat>>
  ELSE /\ page' = [next EXCEPT !.slide = q, !.fetched = FALSE, !.socket = "none"]
       /\ fetches' = Cancelled \cup {NewFetch(q, TRUE)}
       /\ seat' = "out"

\* setCurrentQuestion tells both rooms.
Stage(q) == onStage' = q /\ line' = Sent(line, [type |-> "changed", q |-> q])

\* Another tab or device of the presenter.
ChangeQuestion(q) ==
  /\ Event
  /\ Stage(q)
  /\ UNCHANGED <<version, emitting, device, ghosts, page, fetches, seat>>

\* handleChangeQuestion (one at a time: the buttons are disabled meanwhile), also run for the
\* first question when the topic has none; the server has committed, its answer is on its way.
PressQuestion(q) ==
  /\ Event
  /\ page.posting = NoSlide /\ q # page.slide
  /\ Stage(q)
  /\ page' = [page EXCEPT !.posting = q]
  /\ UNCHANGED <<version, emitting, device, ghosts, fetches, seat>>

\* setTopic of the answer, whatever was announced since.
QuestionPosted ==
  /\ page.posting # NoSlide
  /\ Cardinality(fetches) < MaxFetches
  /\ Show(page.posting, [page EXCEPT !.posting = NoSlide])
  /\ line' = IF page.posting = page.slide THEN line ELSE <<>>
  /\ UNCHANGED <<server, events>>

FetchRead(f) ==
  /\ f \in fetches /\ ~f.read
  /\ fetches' = (fetches \ {f}) \cup {[f EXCEPT !.read = TRUE, !.v = version[f.q]]}
  /\ UNCHANGED <<server, page, line, seat, events>>

SocketOpened(p, f) == IF f.first /\ ~f.cancelled THEN [p EXCEPT !.socket = "opening"] ELSE p
Data(f) == [q |-> f.q, v |-> f.v]

FetchArrivesAnyway(f) ==
  /\ f \in fetches /\ f.read
  /\ fetches' = fetches \ {f}
  /\ page' = SocketOpened([page EXCEPT !.cloud = Data(f), !.fetched = TRUE], f)
  /\ UNCHANGED <<server, line, seat, events>>

FetchArrives(f) ==
  /\ f \in fetches /\ f.read
  /\ fetches' = fetches \ {f}
  /\ page' = IF f.cancelled THEN page
             ELSE SocketOpened([page EXCEPT !.cloud = Data(f), !.fetched = TRUE], f)
  /\ UNCHANGED <<server, line, seat, events>>

\* A failed fetch is logged; the socket is opened all the same.
FetchFails(f) ==
  /\ Event
  /\ f \in fetches
  /\ fetches' = fetches \ {f}
  /\ page' = SocketOpened(page, f)
  /\ UNCHANGED <<server, line, seat>>

\* 'connect': the polls stop, the page asks to join, and fetches again if it was polling.
Connects ==
  /\ page.socket \in {"opening", "grace", "polling"}
  /\ page' = [page EXCEPT !.socket = "live"]
  /\ fetches' = IF page.socket = "polling" THEN fetches \cup {NewFetch(page.slide, FALSE)} ELSE fetches
  /\ Cardinality(fetches') <= MaxFetches
  /\ seat' = "joining"
  /\ UNCHANGED <<server, line, events>>

\* WordCloudGateway.handleJoin: the ack carries the count.
PresenterJoins ==
  /\ seat = "joining"
  /\ seat' = "in"
  /\ line' = Append(line, [type |-> "joined", count |-> JoinedCount])
  /\ UNCHANGED <<server, page, fetches, events>>

Disconnects ==
  /\ Event
  /\ page.socket = "live"
  /\ page' = [page EXCEPT !.socket = "grace"]
  /\ line' = <<>>
  /\ seat' = "out"
  /\ UNCHANGED <<server, fetches>>

GraceEnds ==
  /\ page.socket = "grace"
  /\ page' = [page EXCEPT !.socket = "polling"]
  /\ UNCHANGED <<server, fetches, line, seat, events>>

PollOnce ==
  /\ page.socket = "polling" /\ ~page.fetched
  /\ Cardinality(fetches) < MaxFetches
  /\ fetches' = fetches \cup {NewFetch(page.slide, FALSE)}
  /\ UNCHANGED <<server, page, line, seat, events>>

Poll ==
  /\ page.socket = "polling"
  /\ Cardinality(fetches) < MaxFetches
  /\ fetches' = fetches \cup {NewFetch(page.slide, FALSE)}
  /\ UNCHANGED <<server, page, line, seat, events>>

\* applyQuestionChanged.
Receive ==
  /\ line # <<>>
  /\ LET m == Head(line) IN
     CASE m.type = "joined" ->
            page' = [page EXCEPT !.joined = m.count] /\ line' = Tail(line) /\ UNCHANGED <<fetches, seat>>
       [] m.type = "update" ->
            /\ page' = IF m.cloud.q = page.slide
                       THEN [page EXCEPT !.cloud = m.cloud, !.fetched = TRUE] ELSE page
            /\ line' = Tail(line) /\ UNCHANGED <<fetches, seat>>
       [] m.type = "changed" ->
            /\ Cardinality(fetches) < MaxFetches
            /\ Show(m.q, page)
            /\ line' = IF m.q = page.slide THEN Tail(line) ELSE <<>>
  /\ UNCHANGED <<server, events>>

PresentNext ==
  \/ \E q \in Slides : Answered(q) \/ PressQuestion(q) \/ ChangeQuestion(q)
  \/ \E e \in emitting, v \in Versions : EmitSnapshot(e, v)
  \/ \E a \in Listeners : DeviceJoins(a) \/ JoinEnds(a) \/ DeviceLeaves(a)
  \/ \E f \in fetches : FetchRead(f) \/ FetchArrives(f) \/ FetchFails(f)
  \/ QuestionPosted \/ Connects \/ PresenterJoins \/ Disconnects \/ GraceEnds \/ Poll \/ Receive

-----------------------------------------------------------------------------
\* Once the screen has shown data for its question, it shows that question's: no late
\* answer for the question before, and no message of another one, replaces it.
ShowsItsQuestion == page.fetched => page.cloud.q = page.slide

\* The count of participants on the screen is the size of the audience's room when nothing
\* is on its way, across reconnections and devices that come and go meanwhile.
JoinedIsRoomSize ==
  seat = "in" /\ (\A i \in DOMAIN line : line[i].type # "joined") => page.joined = JoinedCount

\* A screen whose socket stays down catches up with the answers by polling, and stays so:
\* overlapping polls answered out of order do not leave it behind.
Fresh == page.slide # NoSlide => page.cloud = [q |-> page.slide, v |-> version[page.slide]]
PollingCatchesUp == <>[](page.socket \in {"grace", "polling"}) => <>[]Fresh
=============================================================================
