------------------------------ MODULE JoinPage ------------------------------
(***************************************************************************)
(* A tab of the audience (join/[code]/page.tsx): it fetches the public     *)
(* topic with the number of answers of its participant, follows            *)
(* question:changed on a socket, polls while the socket is down, and sends *)
(* one answer at a time.  Abstracted: the prompt, what is typed, messages  *)
(* shown, answers refused (they change nothing here but the error shown).  *)
(***************************************************************************)
EXTENDS Naturals, Sequences, FiniteSets

CONSTANTS
  Prompts,    \* the questions of the topic
  NoPrompt,
  MaxGets,    \* fetches in flight
  MaxMoves    \* changes of question, answers, disconnections and failures, in all

ASSUME JoinAssumption == NoPrompt \notin Prompts /\ {MaxGets, MaxMoves} \subseteq Nat

VARIABLES
  asked,   \* Topic.currentQuestionId
  mine,    \* mine[q]: rows of Response of this participant
  tab,     \* the page
  gets,    \* its running fetches
  wire,    \* question:changed on its way to the page's socket
  moves

joinVars == <<asked, mine, tab, gets, wire, moves>>

Counts == 0..MaxMoves

\* sending: the question of the running handleSubmit; taken: submittedCount of its answer.
\* loaded: the first fetch has ended; topic: one succeeded; inRoom: the server has handled its join.
Tab == [loaded : BOOLEAN, topic : BOOLEAN, inRoom : BOOLEAN, q : Prompts \cup {NoPrompt}, submitted : Counts,
        socket : {"none", "opening", "live", "grace", "polling"},
        sending : Prompts \cup {NoPrompt}, taken : Counts]

Get == [read : BOOLEAN, q : Prompts \cup {NoPrompt}, n : Counts]
NewGet == [read |-> FALSE, q |-> NoPrompt, n |-> 0]

JoinTypeOK ==
  /\ asked \in Prompts \cup {NoPrompt}
  /\ mine \in [Prompts -> Counts]
  /\ tab \in Tab
  /\ gets \subseteq Get
  /\ wire \in Seq(Prompts)
  /\ moves \in 0..MaxMoves

\* The page mounts and fetches.
JoinInit ==
  /\ asked = NoPrompt
  /\ mine = [q \in Prompts |-> 0]
  /\ tab = [loaded |-> FALSE, topic |-> FALSE, inRoom |-> FALSE, q |-> NoPrompt, submitted |-> 0,
            socket |-> "none", sending |-> NoPrompt, taken |-> 0]
  /\ gets = {NewGet}
  /\ wire = <<>>
  /\ moves = 0

Move == moves < MaxMoves /\ moves' = moves + 1

\* setCurrentQuestion, told to the audience's room.
AskQuestion(q) ==
  /\ Move
  /\ asked' = q
  /\ wire' = IF tab.inRoom THEN Append(wire, q) ELSE wire
  /\ UNCHANGED <<mine, tab, gets>>

OtherTabAnswers(q) ==
  /\ Move
  /\ mine' = [mine EXCEPT ![q] = @ + 1]
  /\ UNCHANGED <<asked, tab, gets, wire>>

-----------------------------------------------------------------------------
MyCount(q) == IF q = NoPrompt THEN 0 ELSE mine[q]

\* getPublicInfo.
GetRead(g) ==
  /\ g \in gets /\ ~g.read
  /\ gets' = (gets \ {g}) \cup {[read |-> TRUE, q |-> asked, n |-> MyCount(asked)]}
  /\ UNCHANGED <<asked, mine, tab, wire, moves>>

\* finally: loading ends, and the socket effect runs.
Loaded(t) == IF t.loaded THEN t ELSE [t EXCEPT !.loaded = TRUE, !.socket = "opening"]

GetArrives(g) ==
  /\ g \in gets /\ g.read
  /\ gets' = gets \ {g}
  /\ tab' = Loaded([tab EXCEPT !.topic = TRUE, !.q = g.q, !.submitted = g.n])
  /\ UNCHANGED <<asked, mine, wire, moves>>

\* An error other than 404 is ignored.
GetFails(g) ==
  /\ Move
  /\ g \in gets
  /\ gets' = gets \ {g}
  /\ tab' = Loaded(tab)
  /\ UNCHANGED <<asked, mine, wire>>

TabConnects ==
  /\ tab.socket \in {"opening", "grace", "polling"}
  /\ gets' = IF tab.socket = "polling" THEN gets \cup {NewGet} ELSE gets
  /\ Cardinality(gets') <= MaxGets
  /\ tab' = [tab EXCEPT !.socket = "live"]
  /\ UNCHANGED <<asked, mine, wire, moves>>

\* AudienceGateway.handleJoin.
TabJoins ==
  /\ tab.socket = "live" /\ ~tab.inRoom
  /\ tab' = [tab EXCEPT !.inRoom = TRUE]
  /\ UNCHANGED <<asked, mine, gets, wire, moves>>

TabDisconnects ==
  /\ Move
  /\ tab.socket = "live"
  /\ tab' = [tab EXCEPT !.socket = "grace", !.inRoom = FALSE]
  /\ wire' = <<>>
  /\ UNCHANGED <<asked, mine, gets>>

TabGraceEnds ==
  /\ tab.socket = "grace"
  /\ tab' = [tab EXCEPT !.socket = "polling"]
  /\ UNCHANGED <<asked, mine, gets, wire, moves>>

\* The mutant: polls only while there is no question.
TabPollsForQuestion ==
  /\ tab.socket = "polling" /\ tab.q = NoPrompt
  /\ Cardinality(gets) < MaxGets
  /\ gets' = gets \cup {NewGet}
  /\ UNCHANGED <<asked, mine, tab, wire, moves>>

TabPolls ==
  /\ tab.socket = "polling"
  /\ Cardinality(gets) < MaxGets
  /\ gets' = gets \cup {NewGet}
  /\ UNCHANGED <<asked, mine, tab, wire, moves>>

\* question:changed; without a loaded topic there is nothing to update.
Changed ==
  /\ wire # <<>>
  /\ wire' = Tail(wire)
  /\ tab' = IF tab.topic THEN [tab EXCEPT !.q = Head(wire), !.submitted = 0] ELSE [tab EXCEPT !.submitted = 0]
  /\ UNCHANGED <<asked, mine, gets, moves>>

\* handleSubmit: createResponse has inserted, its answer is on its way.
Send ==
  /\ Move
  /\ tab.loaded /\ tab.sending = NoPrompt /\ tab.q # NoPrompt
  /\ mine' = [mine EXCEPT ![tab.q] = @ + 1]
  /\ tab' = [tab EXCEPT !.sending = tab.q, !.taken = mine'[tab.q]]
  /\ UNCHANGED <<asked, gets, wire>>

\* setSubmittedCount, whatever question is shown by now.
SendAnswered ==
  /\ tab.sending # NoPrompt
  /\ tab' = [tab EXCEPT !.submitted = tab.taken, !.sending = NoPrompt, !.taken = 0]
  /\ UNCHANGED <<asked, mine, gets, wire, moves>>

JoinNext ==
  \/ \E q \in Prompts : AskQuestion(q) \/ OtherTabAnswers(q)
  \/ \E g \in gets : GetRead(g) \/ GetArrives(g) \/ GetFails(g)
  \/ TabConnects \/ TabJoins \/ TabDisconnects \/ TabGraceEnds \/ TabPolls \/ Changed
  \/ Send \/ SendAnswered

-----------------------------------------------------------------------------
\* A tab whose socket stays down ends up showing the current question with the right number
\* of answers, whatever late answers to its fetches and submissions had written before.
TabCatchesUp ==
  <>[](tab.socket \in {"grace", "polling"}) => <>[](tab.q = asked /\ tab.submitted = MyCount(asked))
=============================================================================
