------------------------------ MODULE Answers ------------------------------
(***************************************************************************)
(* One topic of the word cloud: the organiser opens, closes, reveals,      *)
(* empties and deletes its questions, while the tabs of the audience send  *)
(* answers.  PublicTopicsService.createResponse checks and then inserts;   *)
(* nothing but the order of its awaits protects the limit, the duplicates  *)
(* and the status it read.                                                 *)
(*                                                                         *)
(* A transaction is one step, except that deleteResponses deletes answers  *)
(* and counts in two statements (READ COMMITTED): the second sees what     *)
(* was committed after the first.  visibility, limit and duplicates are    *)
(* the settings of the questions during the session.                       *)
(***************************************************************************)
EXTENDS Naturals, FiniteSets, Functions, FiniteSetsExt

CONSTANTS
  Questions,      \* the questions of the topic
  Words,          \* normalized words
  Texts,          \* what may be typed
  Tabs,           \* browser tabs of the audience
  Participant,    \* Participant[t]: participantSessionId, shared by the tabs of a browser
  Organisers,     \* 1..n: requests the organiser may have running at once
  Limit,          \* Limit[q]: responseLimit, or Nothing
  Duplicates,     \* questions with allowDuplicateFromSameUser
  Hiding,         \* Hiding[q]: resultVisibility
  MaxCalls,       \* answers and requests of the organiser in all
  Nothing

Visibilities == {"INSTANT", "ON_CLICK", "PRIVATE"}

ASSUME AnswersAssumption ==
  /\ Nothing \notin Questions \cup Words
  /\ IsFiniteSet(Tabs) /\ IsFiniteSet(Words) /\ Participant \in [Tabs -> Range(Participant)]
  /\ Texts \subseteq [letters : Words \cup {Nothing}, upper : BOOLEAN, marks : BOOLEAN]
  /\ Limit \in [Questions -> (Nat \ {0}) \cup {Nothing}]
  /\ Duplicates \subseteq Questions
  /\ Hiding \in [Questions -> Visibilities]
  /\ MaxCalls \in Nat

VARIABLES
  question,   \* question[q]: the row, as far as it changes during a session
  current,    \* Topic.currentQuestionId
  answers,    \* answers[q][p][w]: rows of Response
  cloud,      \* cloud[q][w]: WordAggregate.count
  post,       \* post[t]: the running createResponse of tab t
  request,    \* request[o]: a running request of the organiser
  calls,      \* answers and requests so far
  told        \* questions whose words were emitted to the audience while they existed

answerVars == <<question, current, answers, cloud, post, request, calls, told>>

People == Range(Participant)

Statuses == {"DRAFT", "ACTIVE", "CLOSED"}
QuestionRow == [exists : BOOLEAN, status : Statuses, resultsRevealed : BOOLEAN]

\* What broadcastSnapshot has read of the question: whether its results are hidden.
Reads == {"unread", "hidden", "shown"}

Post == [pc : {"idle", "question", "count", "duplicate", "write", "broadcast"},
         q : Questions \cup {Nothing}, text : Texts \cup {Nothing}, read : Reads]
NoPost == [pc |-> "idle", q |-> Nothing, text |-> Nothing, read |-> "unread"]

\* previous: the current question as setCurrentQuestion read it; seen: the answers
\* deleteResponses has deleted.
Rows == [People -> [Words -> Nat]]
NoRows == [p \in People |-> [w \in Words |-> 0]]
Request == [pc : {"idle", "setCurrent", "reveal", "revealed", "empty", "emptied", "broadcast"},
            q : Questions \cup {Nothing}, previous : Questions \cup {Nothing},
            seen : Rows, read : Reads]
NoRequest == [pc |-> "idle", q |-> Nothing, previous |-> Nothing, seen |-> NoRows, read |-> "unread"]

AnswersTypeOK ==
  /\ question \in [Questions -> QuestionRow]
  /\ current \in Questions \cup {Nothing}
  /\ answers \in [Questions -> Rows]
  /\ cloud \in [Questions -> [Words -> Nat]]
  /\ post \in [Tabs -> Post]
  /\ request \in [Organisers -> Request]
  /\ calls \in 0..MaxCalls
  /\ told \subseteq Questions

AnswersInit ==
  /\ question = [q \in Questions |-> [exists |-> TRUE, status |-> "DRAFT", resultsRevealed |-> FALSE]]
  /\ current = Nothing
  /\ answers = [q \in Questions |-> NoRows]
  /\ cloud = [q \in Questions |-> [w \in Words |-> 0]]
  /\ post = [t \in Tabs |-> NoPost]
  /\ request = [o \in Organisers |-> NoRequest]
  /\ calls = 0
  /\ told = {}

-----------------------------------------------------------------------------
Total(f) == MapThenSumSet(LAMBDA w : f[w], DOMAIN f)

CountOf(q, p) == Total(answers[q][p])                                \* response.count
Backing(q, w) == MapThenSumSet(LAMBDA p : answers[q][p][w], People)  \* its rows of Response

\* normalizeWord keeps the letters, in lower case; none may remain.
NormalizeWord(x) == x.letters

IsResultHiddenForgets(q) == question[q].exists /\ Hiding[q] = "PRIVATE"
IsResultHidden(q) ==
  /\ question[q].exists
  /\ \/ Hiding[q] = "PRIVATE"
     \/ Hiding[q] = "ON_CLICK" /\ ~question[q].resultsRevealed

HasWords(q) == \E w \in Words : cloud[q][w] > 0

\* broadcastSnapshot reads the question and then emits the words, which it may have read
\* at any moment; those of a question deleted meanwhile are nobody's any more.
ReadHidden(r) == [r EXCEPT !.read = IF IsResultHidden(r.q) THEN "hidden" ELSE "shown"]
Emitted(q, read) == IF read = "shown" /\ HasWords(q) /\ question[q].exists THEN told \cup {q} ELSE told

-----------------------------------------------------------------------------
(* The audience: PublicTopicsService.createResponse, one at a time per tab. *)

Calling == calls < MaxCalls /\ calls' = calls + 1

SetPost(t, r) == post' = [post EXCEPT ![t] = r]

\* The page of the tab may show any question, whatever is current by now.
Submit(t, q, x) ==
  /\ post[t].pc = "idle"
  /\ Calling
  /\ SetPost(t, [NoPost EXCEPT !.pc = "question", !.q = q, !.text = x])
  /\ UNCHANGED <<question, current, answers, cloud, request, told>>

CheckQuestion(t) ==
  LET row == question[post[t].q] IN
  /\ post[t].pc = "question"
  /\ SetPost(t, IF row.exists /\ row.status = "ACTIVE" THEN [post[t] EXCEPT !.pc = "count"] ELSE NoPost)
  /\ UNCHANGED <<question, current, answers, cloud, request, calls, told>>

LimitPassed(q, count) == Limit[q] # Nothing /\ count > Limit[q]
LimitReached(q, count) == Limit[q] # Nothing /\ count >= Limit[q]

CheckCount(t) ==
  LET q == post[t].q
      reached == LimitReached(q, CountOf(q, Participant[t]))
      invalid == NormalizeWord(post[t].text) = Nothing
  IN /\ post[t].pc = "count"
     /\ SetPost(t, IF reached \/ invalid THEN NoPost
                   ELSE [post[t] EXCEPT !.pc = IF q \in Duplicates THEN "write" ELSE "duplicate"])
     /\ UNCHANGED <<question, current, answers, cloud, request, calls, told>>

CheckDuplicate(t) ==
  /\ post[t].pc = "duplicate"
  /\ SetPost(t, IF answers[post[t].q][Participant[t]][NormalizeWord(post[t].text)] > 0 THEN NoPost
                ELSE [post[t] EXCEPT !.pc = "write"])
  /\ UNCHANGED <<question, current, answers, cloud, request, calls, told>>

\* The transaction; without the question its foreign key throws.
WriteAnswer(t) ==
  LET q == post[t].q   w == NormalizeWord(post[t].text) IN
  /\ post[t].pc = "write"
  /\ IF question[q].exists
     THEN /\ answers' = [answers EXCEPT ![q][Participant[t]][w] = @ + 1]
          /\ cloud' = [cloud EXCEPT ![q][w] = @ + 1]
          /\ SetPost(t, [post[t] EXCEPT !.pc = "broadcast"])
     ELSE SetPost(t, NoPost) /\ UNCHANGED <<answers, cloud>>
  /\ UNCHANGED <<question, current, request, calls, told>>

PostBroadcast(t) ==
  /\ post[t].pc = "broadcast"
  /\ IF post[t].read = "unread" THEN SetPost(t, ReadHidden(post[t])) /\ UNCHANGED told
     ELSE SetPost(t, NoPost) /\ told' = Emitted(post[t].q, post[t].read)
  /\ UNCHANGED <<question, current, answers, cloud, request, calls>>

-----------------------------------------------------------------------------
(* The organiser: TopicsService and QuestionsService. *)

\* The slots of Organisers are taken in order.
NextSlot == Min({o \in Organisers : request[o].pc = "idle"} \cup {Cardinality(Organisers) + 1})

SetRequest(o, r) == request' = [request EXCEPT ![o] = r]

\* setCurrentQuestion reads the topic (and the question, which its transaction needs again).
AskCurrent(o, q) ==
  /\ Calling
  /\ o = NextSlot
  /\ question[q].exists
  /\ SetRequest(o, [NoRequest EXCEPT !.pc = "setCurrent", !.q = q, !.previous = current])
  /\ UNCHANGED <<question, current, answers, cloud, post, told>>

Opened(row) == [row EXCEPT !.status = "ACTIVE"]
Closed(row) == IF row.status = "ACTIVE" THEN [row EXCEPT !.status = "CLOSED"] ELSE row

\* The previous question is closed, the new one opened, and the topic points to it.
OpenAndClose(q, previous) ==
  [x \in Questions |-> IF x = previous THEN Closed(question[x])
                       ELSE IF x = q THEN Opened(question[x]) ELSE question[x]]
OpenOnly(q, previous) == [question EXCEPT ![q] = Opened(@)]
CloseAndOpen(q, previous) ==
  [x \in Questions |-> IF x = q THEN Opened(question[x])
                       ELSE IF x = previous THEN Closed(question[x]) ELSE question[x]]

SetCurrent(o) ==
  LET q == request[o].q IN
  /\ request[o].pc = "setCurrent"
  /\ IF question[q].exists
     THEN question' = CloseAndOpen(q, request[o].previous) /\ current' = q
     ELSE UNCHANGED <<question, current>>
  /\ SetRequest(o, NoRequest)
  /\ UNCHANGED <<answers, cloud, post, calls, told>>

\* QuestionsService.update with a status: the API takes one, the editor page never sends it.
PatchStatus(q, s) ==
  /\ Calling
  /\ question[q].exists
  /\ question[q].status # s
  /\ question' = [question EXCEPT ![q].status = s]
  /\ UNCHANGED <<current, answers, cloud, post, request, told>>

\* remove waits for the rows a running deleteResponses has locked; the answers go with the question.
DeleteQuestion(q) ==
  /\ Calling
  /\ question[q].exists
  /\ \A o \in Organisers : ~(request[o].pc = "emptied" /\ request[o].q = q)
  /\ question' = [question EXCEPT ![q].exists = FALSE]
  /\ current' = IF current = q THEN Nothing ELSE current
  /\ answers' = [answers EXCEPT ![q] = NoRows]
  /\ cloud' = [cloud EXCEPT ![q] = [w \in Words |-> 0]]
  /\ UNCHANGED <<post, request, told>>

AskReveal(o, q) ==
  /\ Calling
  /\ o = NextSlot
  /\ question[q].exists /\ Hiding[q] = "ON_CLICK"
  /\ SetRequest(o, [NoRequest EXCEPT !.pc = "reveal", !.q = q])
  /\ UNCHANGED <<question, current, answers, cloud, post, told>>

Reveal(o) ==
  LET q == request[o].q IN
  /\ request[o].pc = "reveal"
  /\ IF question[q].exists
     THEN /\ question' = [question EXCEPT ![q].resultsRevealed = TRUE]
          /\ SetRequest(o, [request[o] EXCEPT !.pc = "revealed"])
     ELSE SetRequest(o, NoRequest) /\ UNCHANGED question
  /\ UNCHANGED <<current, answers, cloud, post, calls, told>>

\* broadcastResultsRevealed emits whatever words there are.
EmitRevealed(o) ==
  /\ request[o].pc = "revealed"
  /\ told' = Emitted(request[o].q, "shown")
  /\ SetRequest(o, NoRequest)
  /\ UNCHANGED <<question, current, answers, cloud, post, calls>>

AskEmpty(o, q) ==
  /\ Calling
  /\ o = NextSlot
  /\ question[q].exists
  /\ SetRequest(o, [NoRequest EXCEPT !.pc = "empty", !.q = q])
  /\ UNCHANGED <<question, current, answers, cloud, post, told>>

\* deleteMany of Response: of the rows committed by now; it waits for another such delete.
DeleteAnswers(o) ==
  LET q == request[o].q IN
  /\ request[o].pc = "empty"
  /\ \A other \in Organisers : ~(request[other].pc = "emptied" /\ request[other].q = q)
  /\ SetRequest(o, IF question[q].exists
                   THEN [request[o] EXCEPT !.pc = "emptied", !.seen = answers[q]]
                   ELSE NoRequest)
  /\ UNCHANGED <<question, current, answers, cloud, post, calls, told>>

Remaining(q, seen) == [p \in People |-> [w \in Words |-> answers[q][p][w] - seen[p][w]]]

\* deleteMany of WordAggregate, and commit.
DeleteCloudForgets(o) ==
  LET q == request[o].q IN
  /\ request[o].pc = "emptied"
  /\ answers' = [answers EXCEPT ![q] = Remaining(q, request[o].seen)]
  /\ SetRequest(o, [request[o] EXCEPT !.pc = "broadcast", !.seen = NoRows])
  /\ UNCHANGED <<question, current, cloud, post, calls, told>>

DeleteCloud(o) ==
  LET q == request[o].q IN
  /\ request[o].pc = "emptied"
  /\ answers' = [answers EXCEPT ![q] = Remaining(q, request[o].seen)]
  /\ cloud' = [cloud EXCEPT ![q] = [w \in Words |-> 0]]
  /\ SetRequest(o, [request[o] EXCEPT !.pc = "broadcast", !.seen = NoRows])
  /\ UNCHANGED <<question, current, post, calls, told>>

RequestBroadcast(o) ==
  /\ request[o].pc = "broadcast"
  /\ IF request[o].read = "unread" THEN SetRequest(o, ReadHidden(request[o])) /\ UNCHANGED told
     ELSE SetRequest(o, NoRequest) /\ told' = Emitted(request[o].q, request[o].read)
  /\ UNCHANGED <<question, current, answers, cloud, post, calls>>

-----------------------------------------------------------------------------
Audience ==
  \E t \in Tabs : \/ \E q \in Questions, x \in Texts : Submit(t, q, x)
                  \/ CheckQuestion(t) \/ CheckCount(t) \/ CheckDuplicate(t)
                  \/ WriteAnswer(t) \/ PostBroadcast(t)

Organising ==
  \/ \E o \in Organisers :
       \/ \E q \in Questions : AskCurrent(o, q) \/ AskReveal(o, q) \/ AskEmpty(o, q)
       \/ SetCurrent(o) \/ Reveal(o) \/ EmitRevealed(o)
       \/ DeleteAnswers(o) \/ DeleteCloud(o) \/ RequestBroadcast(o)
  \/ \E q \in Questions : DeleteQuestion(q)
  \/ \E q \in Questions, s \in Statuses : PatchStatus(q, s)

AnswersNext == Audience \/ Organising

-----------------------------------------------------------------------------
\* No word of the cloud counts more answers than there are, whatever answers, emptying and
\* deletions overlap.  (It may count fewer: an answer that commits between the two deletes
\* of deleteResponses loses its count.)
CloudIsBacked == \A q \in Questions, w \in Words : cloud[q][w] <= Backing(q, w)

TabsOf(p) == {t \in Tabs : Participant[t] = p}

\* createResponse checks, then inserts: a participant exceeds the limit, or repeats a word,
\* by no more than the other tabs of the same browser, each sending one answer at a time.
AnswersWithinTabs ==
  \A q \in Questions, p \in People :
    LET others == Cardinality(TabsOf(p)) - 1 IN
    /\ Limit[q] # Nothing => CountOf(q, p) <= Limit[q] + others
    /\ q \notin Duplicates => \A w \in Words : answers[q][p][w] <= 1 + others

\* Words reach the audience's room only while the results of their question may be seen:
\* never those of a PRIVATE one, and of an ON_CLICK one only after they were revealed.
NoEarlyWords ==
  \A q \in told : question[q].exists =>
    Hiding[q] = "INSTANT" \/ (Hiding[q] = "ON_CLICK" /\ question[q].resultsRevealed)

CurrentIsOpen == current # Nothing => question[current].exists /\ question[current].status = "ACTIVE"

LeftOpen == {q \in Questions : question[q].exists /\ question[q].status = "ACTIVE"} \ {current}

\* Whichever organisers' requests overlap, the current question goes on to exist and to take
\* answers, and moving on closes the question the audience was on.  Only a status sent to
\* the API itself does otherwise, or a request that had read another current question than
\* the one it replaces: that leaves a second question open.
CurrentStaysOpen ==
  [][ \/ \E q \in Questions, s \in Statuses : PatchStatus(q, s)
      \/ /\ CurrentIsOpen => CurrentIsOpen'
         /\ LeftOpen' \subseteq LeftOpen \/ \E o \in Organisers : SetCurrent(o) /\ request[o].previous # current
    ]_answerVars
=============================================================================
