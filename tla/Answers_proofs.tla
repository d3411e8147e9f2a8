--------------------------- MODULE Answers_proofs ---------------------------
(***************************************************************************)
(* The safety properties of Answers for every set of questions, words,     *)
(* tabs and requests, and any limits and visibilities.                     *)
(***************************************************************************)
EXTENDS Answers, Sums_proofs

AnswersSpec == AnswersInit /\ [][AnswersNext]_answerVars

-----------------------------------------------------------------------------
(* The invariant.  What is announced depends on reads made before: a read  *)
(* that allowed it must still allow it when the words go out.  The answers *)
(* of a participant are counted with those of its tabs that have passed a  *)
(* check and will insert one more.                                         *)

MayBeSeen(q) ==
  question[q].exists =>
    Hiding[q] = "INSTANT" \/ (Hiding[q] = "ON_CLICK" /\ question[q].resultsRevealed)

GoodPost(r) ==
  /\ r.pc # "idle" => r.q \in Questions /\ r.text \in Texts
  /\ r.pc \in {"duplicate", "write", "broadcast"} => NormalizeWord(r.text) \in Words
  /\ r.read = "shown" => r.q \in Questions /\ MayBeSeen(r.q)

PostsOK == \A t \in Tabs : GoodPost(post[t])

GoodRequest(r) ==
  /\ r.pc # "idle" => r.q \in Questions
  /\ r.pc \in {"reveal", "revealed"} => Hiding[r.q] = "ON_CLICK"
  /\ r.pc = "revealed" => question[r.q].resultsRevealed
  /\ r.read = "shown" => r.q \in Questions /\ MayBeSeen(r.q)

RequestsOK == \A o \in Organisers : GoodRequest(request[o])

\* The answers that deleteResponses has deleted are still there until it commits, and no
\* other request deletes answers of the question meanwhile.
EmptyingOK ==
  \A o \in Organisers : request[o].pc = "emptied" =>
    /\ \A p \in People, w \in Words : request[o].seen[p][w] <= answers[request[o].q][p][w]
    /\ \A x \in Organisers \ {o} : request[x].pc = "emptied" => request[x].q # request[o].q

Passed(q, p) == {t \in TabsOf(p) : post[t].q = q /\ post[t].pc \in {"duplicate", "write"}}
Repeating(q, p, w) ==
  {t \in TabsOf(p) : post[t].q = q /\ post[t].pc = "write" /\ NormalizeWord(post[t].text) = w}

LimitKept ==
  \A q \in Questions, p \in People : Limit[q] # Nothing =>
    CountOf(q, p) + Cardinality(Passed(q, p)) + 1 <= Limit[q] + Cardinality(TabsOf(p))

RepeatsKept ==
  \A q \in Questions \ Duplicates, p \in People, w \in Words :
    answers[q][p][w] + Cardinality(Repeating(q, p, w)) <= Cardinality(TabsOf(p))

AnswersIInv == AnswersTypeOK /\ PostsOK /\ RequestsOK /\ EmptyingOK /\ NoEarlyWords
-----------------------------------------------------------------------------
(* Records *)

LEMMA PostFields ==
  ASSUME NEW r \in Post
  PROVE  /\ r.pc \in {"idle", "question", "count", "duplicate", "write", "broadcast"}
         /\ r.q \in Questions \cup {Nothing} /\ r.text \in Texts \cup {Nothing} /\ r.read \in Reads
BY DEF Post

LEMMA NoPostFields ==
  /\ NoPost \in Post /\ NoPost.pc = "idle" /\ NoPost.q = Nothing /\ NoPost.read = "unread"
BY DEF NoPost, Post, Reads

LEMMA SubmittedFields ==
  ASSUME NEW q \in Questions, NEW x \in Texts
  PROVE  LET r == [NoPost EXCEPT !.pc = "question", !.q = q, !.text = x]
         IN  r \in Post /\ r.pc = "question" /\ r.q = q /\ r.text = x /\ r.read = "unread"
BY DEF NoPost, Post, Reads

LEMMA PostMoves ==
  ASSUME NEW r \in Post, NEW pc \in {"count", "duplicate", "write", "broadcast"}
  PROVE  LET m == [r EXCEPT !.pc = pc]
         IN  m \in Post /\ m.pc = pc /\ m.q = r.q /\ m.text = r.text /\ m.read = r.read
BY DEF Post

LEMMA PostReads ==
  ASSUME NEW r \in Post
  PROVE  LET m == ReadHidden(r)
         IN  /\ m \in Post /\ m.pc = r.pc /\ m.q = r.q /\ m.text = r.text
             /\ m.read = IF IsResultHidden(r.q) THEN "hidden" ELSE "shown"
BY DEF ReadHidden, Post, Reads

LEMMA RequestFields ==
  ASSUME NEW r \in Request
  PROVE  /\ r.pc \in {"idle", "setCurrent", "reveal", "revealed", "empty", "emptied", "broadcast"}
         /\ r.q \in Questions \cup {Nothing} /\ r.previous \in Questions \cup {Nothing}
         /\ r.seen \in Rows /\ r.read \in Reads
BY DEF Request

LEMMA NoRowsType == NoRows \in Rows
BY DEF NoRows, Rows

LEMMA NoRequestFields ==
  /\ NoRequest \in Request /\ NoRequest.pc = "idle" /\ NoRequest.q = Nothing
  /\ NoRequest.read = "unread" /\ NoRequest.seen = NoRows
<1> HIDE DEF NoRows, Rows
<1> QED BY NoRowsType DEF NoRequest, Request, Reads

LEMMA AskedFields ==
  ASSUME NEW q \in Questions, NEW pc \in {"reveal", "empty"}
  PROVE  LET r == [NoRequest EXCEPT !.pc = pc, !.q = q]
         IN  r \in Request /\ r.pc = pc /\ r.q = q /\ r.read = "unread"
BY NoRowsType DEF NoRequest, Request, Reads

LEMMA RevealedFields ==
  ASSUME NEW r \in Request
  PROVE  LET m == [r EXCEPT !.pc = "revealed"]
         IN  m \in Request /\ m.pc = "revealed" /\ m.q = r.q /\ m.read = r.read
BY DEF Request

LEMMA EmptiedFields ==
  ASSUME NEW r \in Request, NEW rows \in Rows
  PROVE  LET m == [r EXCEPT !.pc = "emptied", !.seen = rows]
         IN  m \in Request /\ m.pc = "emptied" /\ m.q = r.q /\ m.seen = rows /\ m.read = r.read
BY DEF Request

LEMMA ClearedFields ==
  ASSUME NEW r \in Request
  PROVE  LET m == [r EXCEPT !.pc = "broadcast", !.seen = NoRows]
         IN  m \in Request /\ m.pc = "broadcast" /\ m.q = r.q /\ m.read = r.read
BY NoRowsType DEF Request

LEMMA RequestReads ==
  ASSUME NEW r \in Request
  PROVE  LET m == ReadHidden(r)
         IN  /\ m \in Request /\ m.pc = r.pc /\ m.q = r.q
             /\ m.read = IF IsResultHidden(r.q) THEN "hidden" ELSE "shown"
BY DEF ReadHidden, Request, Reads

-----------------------------------------------------------------------------
(* Results once shown stay visible: no action creates a question or takes  *)
(* a reveal back.                                                          *)

QuestionsKeep ==
  \A q \in Questions : /\ question[q].exists' => question[q].exists
                       /\ question[q].resultsRevealed => question[q].resultsRevealed'

\* What a running call may have read stays true of it.
LEMMA KeptPost ==
  ASSUME QuestionsKeep, NEW r, GoodPost(r) PROVE GoodPost(r)'
BY DEF QuestionsKeep, GoodPost, MayBeSeen, NormalizeWord

LEMMA KeptRequest ==
  ASSUME QuestionsKeep, NEW r, GoodRequest(r) PROVE GoodRequest(r)'
BY DEF QuestionsKeep, GoodRequest, MayBeSeen

LEMMA KeptTold ==
  ASSUME QuestionsKeep, AnswersTypeOK, NoEarlyWords, told' = told PROVE NoEarlyWords'
BY DEF QuestionsKeep, NoEarlyWords, AnswersTypeOK

\* Most actions leave the questions alone.
LEMMA SameQuestions == ASSUME UNCHANGED question PROVE QuestionsKeep
BY DEF QuestionsKeep

\* One tab's call moves, or none does.
LEMMA OnePost ==
  ASSUME AnswersTypeOK, PostsOK, QuestionsKeep, NEW t \in Tabs, NEW r \in Post, GoodPost(r)',
         SetPost(t, r)
  PROVE  post' \in [Tabs -> Post] /\ PostsOK'
<1>1. post' = [post EXCEPT ![t] = r]
  BY DEF SetPost
<1>2. \A x \in Tabs : post'[x] = IF x = t THEN r ELSE post[x]
  BY <1>1 DEF AnswersTypeOK
<1>3. ASSUME NEW x \in Tabs PROVE GoodPost(post[x])'
  <2>1. CASE x = t
    BY <1>2, <2>1 DEF GoodPost, MayBeSeen, NormalizeWord
  <2>2. CASE x # t
    <3>1. PICK y : y = post[x]
      OBVIOUS
    <3>2. GoodPost(y)'
      BY <3>1, KeptPost DEF PostsOK
    <3> QED BY <1>2, <2>2, <3>1, <3>2 DEF GoodPost, MayBeSeen, NormalizeWord
  <2> QED BY <2>1, <2>2
<1> QED BY <1>1, <1>3 DEF AnswersTypeOK, PostsOK

LEMMA NoPostMoves ==
  ASSUME AnswersTypeOK, PostsOK, QuestionsKeep, UNCHANGED post
  PROVE  post' \in [Tabs -> Post] /\ PostsOK'
<1>1. ASSUME NEW x \in Tabs PROVE GoodPost(post[x])'
  <2>1. PICK y : y = post[x]
    OBVIOUS
  <2>2. GoodPost(y)'
    BY <2>1, KeptPost DEF PostsOK
  <2> QED BY <2>1, <2>2 DEF GoodPost, MayBeSeen, NormalizeWord
<1> QED BY <1>1 DEF AnswersTypeOK, PostsOK

LEMMA OneRequest ==
  ASSUME AnswersTypeOK, RequestsOK, QuestionsKeep, NEW o \in Organisers, NEW r \in Request,
         GoodRequest(r)', SetRequest(o, r)
  PROVE  request' \in [Organisers -> Request] /\ RequestsOK'
<1>1. request' = [request EXCEPT ![o] = r]
  BY DEF SetRequest
<1>2. \A x \in Organisers : request'[x] = IF x = o THEN r ELSE request[x]
  BY <1>1 DEF AnswersTypeOK
<1>3. ASSUME NEW x \in Organisers PROVE GoodRequest(request[x])'
  <2>1. CASE x = o
    BY <1>2, <2>1 DEF GoodRequest, MayBeSeen
  <2>2. CASE x # o
    <3>1. PICK y : y = request[x]
      OBVIOUS
    <3>2. GoodRequest(y)'
      BY <3>1, KeptRequest DEF RequestsOK
    <3> QED BY <1>2, <2>2, <3>1, <3>2 DEF GoodRequest, MayBeSeen
  <2> QED BY <2>1, <2>2
<1> QED BY <1>1, <1>3 DEF AnswersTypeOK, RequestsOK

LEMMA NoRequestMoves ==
  ASSUME AnswersTypeOK, RequestsOK, QuestionsKeep, UNCHANGED request
  PROVE  request' \in [Organisers -> Request] /\ RequestsOK'
<1>1. ASSUME NEW x \in Organisers PROVE GoodRequest(request[x])'
  <2>1. PICK y : y = request[x]
    OBVIOUS
  <2>2. GoodRequest(y)'
    BY <2>1, KeptRequest DEF RequestsOK
  <2> QED BY <2>1, <2>2 DEF GoodRequest, MayBeSeen
<1> QED BY <1>1 DEF AnswersTypeOK, RequestsOK

\* What is announced was read when it might be seen, and still may be.
LEMMA WordsGoOut ==
  ASSUME AnswersTypeOK, NoEarlyWords, QuestionsKeep, NEW q, NEW read,
         read = "shown" => q \in Questions /\ MayBeSeen(q), told' = Emitted(q, read)
  PROVE  told' \subseteq Questions /\ NoEarlyWords'
BY DEF AnswersTypeOK, NoEarlyWords, QuestionsKeep, MayBeSeen, Emitted

\* Requests that begin or end delete nothing, and answers that are added take nothing away.
LEMMA EmptyingKept ==
  ASSUME AnswersTypeOK, EmptyingOK, request' \in [Organisers -> Request], answers' \in [Questions -> Rows],
         RequestsOK,
         \A x \in Organisers : request'[x].pc = "emptied" => request'[x] = request[x],
         \A x \in Organisers, p \in People, w \in Words : request[x].pc = "emptied" =>
           answers[request[x].q][p][w] <= answers'[request[x].q][p][w]
  PROVE  EmptyingOK'
<1> SUFFICES ASSUME NEW o \in Organisers, request'[o].pc = "emptied"
             PROVE  /\ \A p \in People, w \in Words :
                         request'[o].seen[p][w] <= answers'[request'[o].q][p][w]
                    /\ \A x \in Organisers \ {o} :
                         request'[x].pc = "emptied" => request'[x].q # request'[o].q
  BY DEF EmptyingOK
<1>1. request'[o] = request[o] /\ request[o].pc = "emptied"
  OBVIOUS
<1>2. request[o] \in Request /\ request[o].q \in Questions
  BY <1>1, RequestFields DEF RequestsOK, GoodRequest, AnswersTypeOK
<1>3. ASSUME NEW p \in People, NEW w \in Words
      PROVE  request'[o].seen[p][w] <= answers'[request'[o].q][p][w]
  <2>1. request[o].seen[p][w] <= answers[request[o].q][p][w]
    BY <1>1 DEF EmptyingOK
  <2>2. answers[request[o].q][p][w] <= answers'[request[o].q][p][w]
    BY <1>1
  <2>3. /\ request[o].seen[p][w] \in Nat /\ answers[request[o].q][p][w] \in Nat
        /\ answers'[request[o].q][p][w] \in Nat
    BY <1>2, RequestFields DEF AnswersTypeOK, Rows
  <2> QED BY <1>1, <2>1, <2>2, <2>3
<1>4. \A x \in Organisers \ {o} : request'[x].pc = "emptied" => request'[x].q # request'[o].q
  BY <1>1 DEF EmptyingOK
<1> QED BY <1>3, <1>4

LEMMA SameRequestsEmptying ==
  ASSUME AnswersTypeOK, RequestsOK, EmptyingOK, UNCHANGED <<request, answers>>
  PROVE  EmptyingOK'
BY DEF EmptyingOK

\* A request that moves without deleting leaves what the others are deleting.
LEMMA OneRequestEmptying ==
  ASSUME AnswersTypeOK, RequestsOK, EmptyingOK, NEW o \in Organisers, NEW r \in Request,
         r.pc # "emptied", SetRequest(o, r), UNCHANGED answers
  PROVE  EmptyingOK'
<1>1. request' = [request EXCEPT ![o] = r] /\ answers' = answers
  BY DEF SetRequest
<1>2. \A x \in Organisers : request'[x] = IF x = o THEN r ELSE request[x]
  BY <1>1 DEF AnswersTypeOK
<1> QED BY <1>1, <1>2 DEF EmptyingOK

-----------------------------------------------------------------------------
(* The actions *)

LEMMA CallsCount == ASSUME AnswersTypeOK, Calling PROVE calls' \in 0..MaxCalls
BY AnswersAssumption DEF AnswersTypeOK, Calling

\* Only the call of a tab moves.
LEMMA OnlyPost ==
  ASSUME AnswersIInv, NEW t \in Tabs, NEW r \in Post, GoodPost(r), SetPost(t, r),
         UNCHANGED <<question, current, answers, cloud, request>>, calls' \in 0..MaxCalls,
         told' \subseteq Questions, NoEarlyWords'
  PROVE  AnswersIInv'
<1>1. QuestionsKeep
  BY SameQuestions
<1>2. GoodPost(r)'
  BY <1>1, KeptPost
<1>3. post' \in [Tabs -> Post] /\ PostsOK'
  BY <1>1, <1>2, OnePost DEF AnswersIInv
<1>4. request' \in [Organisers -> Request] /\ RequestsOK'
  BY <1>1, NoRequestMoves DEF AnswersIInv
<1>5. EmptyingOK'
  BY SameRequestsEmptying DEF AnswersIInv
<1> QED BY <1>3, <1>4, <1>5 DEF AnswersIInv, AnswersTypeOK

\* Only a request of the organiser moves.
LEMMA OnlyRequest ==
  ASSUME AnswersIInv, NEW o \in Organisers, NEW r \in Request, r.pc # "emptied", GoodRequest(r)',
         SetRequest(o, r), QuestionsKeep, question' \in [Questions -> QuestionRow],
         current' \in Questions \cup {Nothing},
         UNCHANGED <<answers, cloud, post>>, calls' \in 0..MaxCalls,
         told' \subseteq Questions, NoEarlyWords'
  PROVE  AnswersIInv'
<1>1. post' \in [Tabs -> Post] /\ PostsOK'
  BY NoPostMoves DEF AnswersIInv
<1>2. request' \in [Organisers -> Request] /\ RequestsOK'
  BY OneRequest DEF AnswersIInv
<1>3. EmptyingOK'
  BY OneRequestEmptying DEF AnswersIInv
<1> QED BY <1>1, <1>2, <1>3 DEF AnswersIInv, AnswersTypeOK

LEMMA ToldSame ==
  ASSUME AnswersIInv, QuestionsKeep, UNCHANGED told PROVE told' \subseteq Questions /\ NoEarlyWords'
BY KeptTold DEF AnswersIInv, AnswersTypeOK

LEMMA GoodNoPost == GoodPost(NoPost)
BY NoPostFields DEF GoodPost

LEMMA GoodNoRequest == GoodRequest(NoRequest) /\ GoodRequest(NoRequest)'
BY NoRequestFields DEF GoodRequest

LEMMA StepSubmit ==
  ASSUME AnswersIInv, NEW t \in Tabs, NEW q \in Questions, NEW x \in Texts, Submit(t, q, x)
  PROVE  AnswersIInv'
<1>1. PICK r : r = [NoPost EXCEPT !.pc = "question", !.q = q, !.text = x]
  OBVIOUS
<1>2. r \in Post /\ GoodPost(r)
  BY <1>1, SubmittedFields DEF GoodPost
<1>3. /\ SetPost(t, r) /\ UNCHANGED <<question, current, answers, cloud, request, told>>
      /\ calls' \in 0..MaxCalls
  BY <1>1, CallsCount DEF Submit, AnswersIInv
<1>4. told' \subseteq Questions /\ NoEarlyWords'
  BY <1>3, SameQuestions, ToldSame
<1> QED BY <1>2, <1>3, <1>4, OnlyPost

LEMMA StepCheckQuestion ==
  ASSUME AnswersIInv, NEW t \in Tabs, CheckQuestion(t) PROVE AnswersIInv'
<1>1. post[t] \in Post /\ post[t].pc = "question" /\ GoodPost(post[t])
  BY DEF CheckQuestion, AnswersIInv, AnswersTypeOK, PostsOK
<1>2. PICK m : m = [post[t] EXCEPT !.pc = "count"]
  OBVIOUS
<1>3. m \in Post /\ GoodPost(m)
  BY <1>1, <1>2, PostMoves DEF GoodPost
<1>4. \E r \in {NoPost, m} : SetPost(t, r)
  BY <1>2 DEF CheckQuestion
<1>5. PICK r \in Post : GoodPost(r) /\ SetPost(t, r)
  BY <1>3, <1>4, NoPostFields, GoodNoPost
<1>6. /\ UNCHANGED <<question, current, answers, cloud, request, told>>
      /\ calls' \in 0..MaxCalls
  BY DEF CheckQuestion, AnswersIInv, AnswersTypeOK
<1>7. told' \subseteq Questions /\ NoEarlyWords'
  BY <1>6, SameQuestions, ToldSame
<1> QED BY <1>5, <1>6, <1>7, OnlyPost

LEMMA TextsHaveWords ==
  ASSUME NEW x \in Texts PROVE NormalizeWord(x) \in Words \cup {Nothing}
BY AnswersAssumption DEF NormalizeWord

LEMMA StepCheckCount ==
  ASSUME AnswersIInv, NEW t \in Tabs, CheckCount(t) PROVE AnswersIInv'
<1>1. post[t] \in Post /\ post[t].pc = "count" /\ GoodPost(post[t])
  BY DEF CheckCount, AnswersIInv, AnswersTypeOK, PostsOK
<1> DEFINE m == [post[t] EXCEPT !.pc = IF post[t].q \in Duplicates THEN "write" ELSE "duplicate"]
<1>4. m \in Post /\ m.pc \in {"duplicate", "write"} /\ m.q = post[t].q /\ m.text = post[t].text
      /\ m.read = post[t].read
  <2>1. CASE post[t].q \in Duplicates
    <3>1. m = [post[t] EXCEPT !.pc = "write"]
      BY <2>1
    <3> HIDE DEF m
    <3> QED BY <1>1, <3>1, PostMoves
  <2>2. CASE post[t].q \notin Duplicates
    <3>1. m = [post[t] EXCEPT !.pc = "duplicate"]
      BY <2>2
    <3> HIDE DEF m
    <3> QED BY <1>1, <3>1, PostMoves
  <2> QED BY <2>1, <2>2
<1> HIDE DEF m
<1>5. NormalizeWord(post[t].text) # Nothing => GoodPost(m)
  <2>1. post[t].q \in Questions /\ post[t].text \in Texts /\ (post[t].read = "shown" => MayBeSeen(post[t].q))
    BY <1>1 DEF GoodPost
  <2>2. NormalizeWord(post[t].text) # Nothing => NormalizeWord(m.text) \in Words
    BY <1>4, <2>1, TextsHaveWords
  <2> QED BY <1>4, <2>1, <2>2 DEF GoodPost
<1>6. \/ SetPost(t, NoPost)
      \/ NormalizeWord(post[t].text) # Nothing /\ SetPost(t, m)
  <2> DEFINE q == post[t].q
             stop == LimitReached(q, CountOf(q, Participant[t])) \/ NormalizeWord(post[t].text) = Nothing
  <2>1. SetPost(t, IF stop THEN NoPost ELSE m)
    BY DEF CheckCount, m
  <2> QED BY <2>1
<1>7. PICK r \in Post : GoodPost(r) /\ SetPost(t, r)
  <2> HIDE DEF NormalizeWord
  <2> QED BY <1>4, <1>5, <1>6, NoPostFields, GoodNoPost
<1>8. /\ UNCHANGED <<question, current, answers, cloud, request, told>>
      /\ calls' \in 0..MaxCalls
  BY DEF CheckCount, AnswersIInv, AnswersTypeOK
<1>9. told' \subseteq Questions /\ NoEarlyWords'
  BY <1>8, SameQuestions, ToldSame
<1> QED BY <1>7, <1>8, <1>9, OnlyPost

LEMMA StepCheckDuplicate ==
  ASSUME AnswersIInv, NEW t \in Tabs, CheckDuplicate(t) PROVE AnswersIInv'
<1>1. post[t] \in Post /\ post[t].pc = "duplicate" /\ GoodPost(post[t])
  BY DEF CheckDuplicate, AnswersIInv, AnswersTypeOK, PostsOK
<1>2. PICK m : m = [post[t] EXCEPT !.pc = "write"]
  OBVIOUS
<1>3. m \in Post /\ GoodPost(m)
  BY <1>1, <1>2, PostMoves DEF GoodPost
<1>4. \E r \in {NoPost, m} : SetPost(t, r)
  BY <1>2 DEF CheckDuplicate
<1>5. PICK r \in Post : GoodPost(r) /\ SetPost(t, r)
  BY <1>3, <1>4, NoPostFields, GoodNoPost
<1>6. /\ UNCHANGED <<question, current, answers, cloud, request, told>>
      /\ calls' \in 0..MaxCalls
  BY DEF CheckDuplicate, AnswersIInv, AnswersTypeOK
<1>7. told' \subseteq Questions /\ NoEarlyWords'
  BY <1>6, SameQuestions, ToldSame
<1> QED BY <1>5, <1>6, <1>7, OnlyPost

\* isResultHidden as broadcastSnapshot reads it says whether the words may be seen.
LEMMA HiddenIsNotSeen ==
  ASSUME NEW q \in Questions, ~IsResultHidden(q) PROVE MayBeSeen(q)
BY AnswersAssumption DEF IsResultHidden, MayBeSeen, Visibilities

LEMMA StepPostBroadcast ==
  ASSUME AnswersIInv, NEW t \in Tabs, PostBroadcast(t) PROVE AnswersIInv'
<1>1. post[t] \in Post /\ post[t].pc = "broadcast" /\ GoodPost(post[t]) /\ post[t].q \in Questions
  BY DEF PostBroadcast, AnswersIInv, AnswersTypeOK, PostsOK, GoodPost
<1>2. /\ UNCHANGED <<question, current, answers, cloud, request>>
      /\ calls' \in 0..MaxCalls
  BY DEF PostBroadcast, AnswersIInv, AnswersTypeOK
<1>3. QuestionsKeep
  BY <1>2, SameQuestions
<1>4. CASE post[t].read = "unread"
  <2>1. PICK m : m = ReadHidden(post[t])
    OBVIOUS
  <2>2. /\ m \in Post /\ m.pc = post[t].pc /\ m.q = post[t].q /\ m.text = post[t].text
        /\ m.read = IF IsResultHidden(post[t].q) THEN "hidden" ELSE "shown"
    BY <1>1, <2>1, PostReads
  <2>3. GoodPost(m)
    BY <1>1, <2>2, HiddenIsNotSeen DEF GoodPost
  <2>4. SetPost(t, m) /\ told' = told
    BY <1>4, <2>1 DEF PostBroadcast
  <2>5. told' \subseteq Questions /\ NoEarlyWords'
    BY <1>3, <2>4, ToldSame
  <2> QED BY <1>2, <2>2, <2>3, <2>4, <2>5, OnlyPost
<1>5. CASE post[t].read # "unread"
  <2>1. SetPost(t, NoPost) /\ told' = Emitted(post[t].q, post[t].read)
    BY <1>5 DEF PostBroadcast
  <2>2. post[t].read = "shown" => MayBeSeen(post[t].q)
    BY <1>1 DEF GoodPost
  <2>3. told' \subseteq Questions /\ NoEarlyWords'
    BY <1>1, <1>3, <2>1, <2>2, WordsGoOut DEF AnswersIInv
  <2> QED BY <1>2, <2>1, <2>3, NoPostFields, GoodNoPost, OnlyPost
<1> QED BY <1>4, <1>5

\* One answer more in answers and cloud.
LEMMA OneAnswerMore ==
  ASSUME AnswersTypeOK, NEW q \in Questions, NEW a \in People, NEW w \in Words,
         answers' = [answers EXCEPT ![q][a][w] = @ + 1], cloud' = [cloud EXCEPT ![q][w] = @ + 1]
  PROVE  /\ answers' \in [Questions -> Rows] /\ cloud' \in [Questions -> [Words -> Nat]]
         /\ \A x \in Questions, p \in People, v \in Words :
              answers'[x][p][v] = IF x = q /\ p = a /\ v = w THEN answers[x][p][v] + 1 ELSE answers[x][p][v]
         /\ \A x \in Questions, v \in Words :
              cloud'[x][v] = IF x = q /\ v = w THEN cloud[x][v] + 1 ELSE cloud[x][v]
BY DEF AnswersTypeOK, Rows

LEMMA OwnerOf == ASSUME NEW t \in Tabs PROVE Participant[t] \in People
BY AnswersAssumption DEF People, Range

LEMMA StepWriteAnswer ==
  ASSUME AnswersIInv, NEW t \in Tabs, WriteAnswer(t) PROVE AnswersIInv'
<1>1. post[t] \in Post /\ post[t].pc = "write" /\ GoodPost(post[t]) /\ post[t].q \in Questions
  BY DEF WriteAnswer, AnswersIInv, AnswersTypeOK, PostsOK, GoodPost
<1>2. PICK q \in Questions, w \in Words : q = post[t].q /\ w = NormalizeWord(post[t].text)
  BY <1>1 DEF GoodPost
<1>3. UNCHANGED <<question, current, request, told>> /\ calls' \in 0..MaxCalls
  BY DEF WriteAnswer, AnswersIInv, AnswersTypeOK
<1>4. QuestionsKeep /\ told' \subseteq Questions /\ NoEarlyWords'
  BY <1>3, SameQuestions, ToldSame
<1>5. CASE question[q].exists
  <2>1. /\ answers' = [answers EXCEPT ![q][Participant[t]][w] = @ + 1]
        /\ cloud' = [cloud EXCEPT ![q][w] = @ + 1]
        /\ SetPost(t, [post[t] EXCEPT !.pc = "broadcast"])
    BY <1>2, <1>5 DEF WriteAnswer
  <2>2. /\ answers' \in [Questions -> Rows] /\ cloud' \in [Questions -> [Words -> Nat]]
        /\ \A x \in Questions, p \in People, v \in Words : answers[x][p][v] <= answers'[x][p][v]
    <3>1. \A x \in Questions, p \in People, v \in Words : answers[x][p][v] \in Nat
      BY DEF AnswersIInv, AnswersTypeOK, Rows
    <3>2. Participant[t] \in People /\ AnswersTypeOK
      BY OwnerOf DEF AnswersIInv
    <3>3. \A x \in Questions, p \in People, v \in Words :
             \/ answers'[x][p][v] = answers[x][p][v] + 1
             \/ answers'[x][p][v] = answers[x][p][v]
      BY <2>1, <3>2, OneAnswerMore
    <3>4. answers' \in [Questions -> Rows] /\ cloud' \in [Questions -> [Words -> Nat]]
      BY <2>1, <3>2, OneAnswerMore
    <3> QED BY <3>1, <3>3, <3>4
  <2>3. PICK m : m = [post[t] EXCEPT !.pc = "broadcast"]
    OBVIOUS
  <2>4. m \in Post /\ GoodPost(m)
    BY <1>1, <2>3, PostMoves DEF GoodPost
  <2>5. GoodPost(m)'
    BY <1>4, <2>4, KeptPost
  <2>6. post' \in [Tabs -> Post] /\ PostsOK'
    BY <1>4, <2>1, <2>3, <2>4, <2>5, OnePost DEF AnswersIInv
  <2>7. request' \in [Organisers -> Request] /\ RequestsOK'
    BY <1>3, <1>4, NoRequestMoves DEF AnswersIInv
  <2>8. \A x \in Organisers : request[x].pc = "emptied" => request[x].q \in Questions
    BY DEF AnswersIInv, RequestsOK, GoodRequest
  <2>9. EmptyingOK'
    BY <1>3, <2>2, <2>7, <2>8, EmptyingKept DEF AnswersIInv
  <2> QED BY <1>3, <1>4, <2>2, <2>6, <2>7, <2>9 DEF AnswersIInv, AnswersTypeOK
<1>6. CASE ~question[q].exists
  <2>1. SetPost(t, NoPost) /\ UNCHANGED <<answers, cloud>>
    BY <1>2, <1>6 DEF WriteAnswer
  <2> QED BY <1>3, <1>4, <2>1, NoPostFields, GoodNoPost, OnlyPost
<1> QED BY <1>5, <1>6

\* What an asking request shares: nothing but the request and the calls changes.
LEMMA OnlyAsks ==
  ASSUME AnswersIInv, NEW o \in Organisers, NEW r \in Request, r.pc # "emptied", GoodRequest(r),
         SetRequest(o, r), UNCHANGED <<question, current, answers, cloud, post, told>>,
         calls' \in 0..MaxCalls
  PROVE  AnswersIInv'
<1>1. QuestionsKeep
  BY SameQuestions
<1>2. GoodRequest(r)'
  BY <1>1, KeptRequest
<1>3. told' \subseteq Questions /\ NoEarlyWords'
  BY <1>1, ToldSame
<1>4. question' \in [Questions -> QuestionRow] /\ current' \in Questions \cup {Nothing}
  BY DEF AnswersIInv, AnswersTypeOK
<1> QED BY <1>1, <1>2, <1>3, <1>4, OnlyRequest

LEMMA StepAskCurrent ==
  ASSUME AnswersIInv, NEW o \in Organisers, NEW q \in Questions, AskCurrent(o, q) PROVE AnswersIInv'
<1>1. PICK r : r = [NoRequest EXCEPT !.pc = "setCurrent", !.q = q, !.previous = current]
  OBVIOUS
<1> current \in Questions \cup {Nothing}
  BY DEF AnswersIInv, AnswersTypeOK
<1>2. r \in Request /\ r.pc = "setCurrent" /\ r.q = q /\ r.read = "unread"
  BY <1>1, NoRowsType DEF NoRequest, Request, Reads
<1>4. GoodRequest(r)
  BY <1>2 DEF GoodRequest
<1>3. /\ SetRequest(o, r) /\ UNCHANGED <<question, current, answers, cloud, post, told>>
      /\ calls' \in 0..MaxCalls
  BY <1>1, CallsCount DEF AskCurrent, AnswersIInv
<1> QED BY <1>2, <1>3, <1>4, OnlyAsks

LEMMA StepAskReveal ==
  ASSUME AnswersIInv, NEW o \in Organisers, NEW q \in Questions, AskReveal(o, q) PROVE AnswersIInv'
<1>1. PICK r : r = [NoRequest EXCEPT !.pc = "reveal", !.q = q]
  OBVIOUS
<1>2. r \in Request /\ r.pc = "reveal" /\ r.q = q /\ r.read = "unread"
  BY <1>1, AskedFields
<1>3. /\ SetRequest(o, r) /\ UNCHANGED <<question, current, answers, cloud, post, told>>
      /\ calls' \in 0..MaxCalls /\ Hiding[q] = "ON_CLICK"
  BY <1>1, CallsCount DEF AskReveal, AnswersIInv
<1>4. GoodRequest(r)
  BY <1>2, <1>3 DEF GoodRequest
<1> QED BY <1>2, <1>3, <1>4, OnlyAsks

LEMMA StepAskEmpty ==
  ASSUME AnswersIInv, NEW o \in Organisers, NEW q \in Questions, AskEmpty(o, q) PROVE AnswersIInv'
<1>1. PICK r : r = [NoRequest EXCEPT !.pc = "empty", !.q = q]
  OBVIOUS
<1>2. r \in Request /\ r.pc = "empty" /\ GoodRequest(r)
  BY <1>1, AskedFields DEF GoodRequest
<1>3. /\ SetRequest(o, r) /\ UNCHANGED <<question, current, answers, cloud, post, told>>
      /\ calls' \in 0..MaxCalls
  BY <1>1, CallsCount DEF AskEmpty, AnswersIInv
<1> QED BY <1>2, <1>3, OnlyAsks

\* Opening a question and closing another touches their statuses only.
LEMMA CloseAndOpenRows ==
  ASSUME AnswersTypeOK, NEW q \in Questions, NEW previous \in Questions \cup {Nothing},
         question' = CloseAndOpen(q, previous)
  PROVE  /\ question' \in [Questions -> QuestionRow] /\ QuestionsKeep
         /\ \A x \in Questions : /\ question'[x].exists = question[x].exists
                                 /\ question'[x].status = IF x = q THEN "ACTIVE"
                                      ELSE IF x = previous /\ question[x].status = "ACTIVE" THEN "CLOSED"
                                      ELSE question[x].status
BY DEF AnswersTypeOK, CloseAndOpen, Opened, Closed, QuestionRow, Statuses, QuestionsKeep

LEMMA StepSetCurrent ==
  ASSUME AnswersIInv, NEW o \in Organisers, SetCurrent(o) PROVE AnswersIInv'
<1>1. request[o] \in Request /\ request[o].q \in Questions
      /\ request[o].previous \in Questions \cup {Nothing}
  BY RequestFields DEF SetCurrent, AnswersIInv, AnswersTypeOK, RequestsOK, GoodRequest
<1>2. question' \in [Questions -> QuestionRow] /\ QuestionsKeep /\ current' \in Questions \cup {Nothing}
  <2>1. CASE question[request[o].q].exists
    BY <1>1, <2>1, CloseAndOpenRows DEF SetCurrent, AnswersIInv
  <2>2. CASE ~question[request[o].q].exists
    BY <2>2, SameQuestions DEF SetCurrent, AnswersIInv, AnswersTypeOK
  <2> QED BY <2>1, <2>2
<1>3. /\ SetRequest(o, NoRequest) /\ UNCHANGED <<answers, cloud, post, told>>
      /\ calls' \in 0..MaxCalls
  BY DEF SetCurrent, AnswersIInv, AnswersTypeOK
<1>4. told' \subseteq Questions /\ NoEarlyWords'
  BY <1>2, <1>3, ToldSame
<1> QED BY <1>2, <1>3, <1>4, NoRequestFields, GoodNoRequest, OnlyRequest

\* An action that moves no call and deletes no answer.
LEMMA OnlyQuestions ==
  ASSUME AnswersIInv, question' \in [Questions -> QuestionRow], QuestionsKeep,
         current' \in Questions \cup {Nothing}, calls' \in 0..MaxCalls,
         UNCHANGED <<post, request, told>>,
         answers' \in [Questions -> Rows], cloud' \in [Questions -> [Words -> Nat]],
         EmptyingOK'
  PROVE  AnswersIInv'
<1>1. post' \in [Tabs -> Post] /\ PostsOK'
  BY NoPostMoves DEF AnswersIInv
<1>2. request' \in [Organisers -> Request] /\ RequestsOK'
  BY NoRequestMoves DEF AnswersIInv
<1>3. told' \subseteq Questions /\ NoEarlyWords'
  BY ToldSame
<1> QED BY <1>1, <1>2, <1>3 DEF AnswersIInv, AnswersTypeOK

LEMMA StepPatchStatus ==
  ASSUME AnswersIInv, NEW q \in Questions, NEW s \in Statuses, PatchStatus(q, s) PROVE AnswersIInv'
<1>1. question' \in [Questions -> QuestionRow] /\ QuestionsKeep
  BY DEF PatchStatus, AnswersIInv, AnswersTypeOK, QuestionRow, QuestionsKeep
<1>2. /\ UNCHANGED <<current, answers, cloud, post, request, told>> /\ calls' \in 0..MaxCalls
  BY CallsCount DEF PatchStatus, AnswersIInv
<1>3. EmptyingOK'
  BY <1>2, SameRequestsEmptying DEF AnswersIInv
<1> QED BY <1>1, <1>2, <1>3, OnlyQuestions DEF AnswersIInv, AnswersTypeOK

LEMMA StepDeleteQuestion ==
  ASSUME AnswersIInv, NEW q \in Questions, DeleteQuestion(q) PROVE AnswersIInv'
<1>1. question' \in [Questions -> QuestionRow] /\ QuestionsKeep /\ current' \in Questions \cup {Nothing}
  BY DEF DeleteQuestion, AnswersIInv, AnswersTypeOK, QuestionRow, QuestionsKeep
<1>2. /\ answers' = [answers EXCEPT ![q] = NoRows] /\ cloud' = [cloud EXCEPT ![q] = [w \in Words |-> 0]]
      /\ UNCHANGED <<post, request, told>> /\ calls' \in 0..MaxCalls
  BY CallsCount DEF DeleteQuestion, AnswersIInv
<1>3. answers' \in [Questions -> Rows] /\ cloud' \in [Questions -> [Words -> Nat]]
  BY <1>2, NoRowsType DEF AnswersIInv, AnswersTypeOK
<1>4. \A o \in Organisers : request[o].pc = "emptied" => request[o].q \in Questions \ {q}
  BY DEF DeleteQuestion, AnswersIInv, RequestsOK, GoodRequest
<1>5. \A x \in Questions \ {q} : answers'[x] = answers[x]
  BY <1>2 DEF AnswersIInv, AnswersTypeOK
<1>6. \A x \in Questions, p \in People, w \in Words : answers[x][p][w] \in Nat
  BY DEF AnswersIInv, AnswersTypeOK, Rows
<1>7. \A o \in Organisers, p \in People, w \in Words : request[o].pc = "emptied" =>
           answers[request[o].q][p][w] <= answers'[request[o].q][p][w]
  BY <1>4, <1>5, <1>6
<1>8. request' \in [Organisers -> Request]
  BY <1>2 DEF AnswersIInv, AnswersTypeOK
<1>9. EmptyingOK'
  BY <1>2, <1>3, <1>7, <1>8, EmptyingKept DEF AnswersIInv
<1> QED BY <1>1, <1>2, <1>3, <1>9, OnlyQuestions

LEMMA StepReveal ==
  ASSUME AnswersIInv, NEW o \in Organisers, Reveal(o) PROVE AnswersIInv'
<1>1. request[o] \in Request /\ request[o].pc = "reveal" /\ request[o].q \in Questions
      /\ GoodRequest(request[o])
  BY DEF Reveal, AnswersIInv, AnswersTypeOK, RequestsOK, GoodRequest
<1>2. PICK q \in Questions : q = request[o].q
  BY <1>1
<1>3. /\ UNCHANGED <<current, answers, cloud, post, told>> /\ calls' \in 0..MaxCalls
      /\ current' \in Questions \cup {Nothing}
  BY DEF Reveal, AnswersIInv, AnswersTypeOK
<1>4. CASE question[q].exists
  <2>1. PICK m : m = [request[o] EXCEPT !.pc = "revealed"]
    OBVIOUS
  <2>2. question' = [question EXCEPT ![q].resultsRevealed = TRUE] /\ SetRequest(o, m)
    BY <1>2, <1>4, <2>1 DEF Reveal
  <2>3. question' \in [Questions -> QuestionRow] /\ QuestionsKeep /\ question'[q].resultsRevealed
    BY <2>2 DEF AnswersIInv, AnswersTypeOK, QuestionRow, QuestionsKeep
  <2>4. m \in Request /\ m.pc = "revealed" /\ m.q = q /\ m.read = request[o].read
    BY <1>1, <1>2, <2>1, RevealedFields
  <2>5. Hiding[q] = "ON_CLICK" /\ (m.read = "shown" => MayBeSeen(q))
    BY <1>1, <1>2, <2>4 DEF GoodRequest
  <2>6. m.read = "shown" => MayBeSeen(q)'
    BY <2>3, <2>5 DEF QuestionsKeep, MayBeSeen
  <2>7. GoodRequest(m)'
    BY <2>3, <2>4, <2>5, <2>6 DEF GoodRequest
  <2>8. told' \subseteq Questions /\ NoEarlyWords'
    BY <1>3, <2>3, ToldSame
  <2> QED BY <1>3, <2>2, <2>3, <2>4, <2>7, <2>8, OnlyRequest
<1>5. CASE ~question[q].exists
  <2>1. SetRequest(o, NoRequest) /\ UNCHANGED question
    BY <1>2, <1>5 DEF Reveal
  <2> QED BY <1>3, <2>1, NoRequestFields, GoodNoRequest, OnlyAsks
<1> QED BY <1>4, <1>5

LEMMA StepEmitRevealed ==
  ASSUME AnswersIInv, NEW o \in Organisers, EmitRevealed(o) PROVE AnswersIInv'
<1>1. request[o] \in Request /\ request[o].pc = "revealed" /\ request[o].q \in Questions
      /\ MayBeSeen(request[o].q)
  BY DEF EmitRevealed, AnswersIInv, AnswersTypeOK, RequestsOK, GoodRequest, MayBeSeen
<1>2. /\ UNCHANGED <<question, current, answers, cloud, post>> /\ calls' \in 0..MaxCalls
      /\ told' = Emitted(request[o].q, "shown") /\ SetRequest(o, NoRequest)
      /\ question' \in [Questions -> QuestionRow] /\ current' \in Questions \cup {Nothing}
  BY DEF EmitRevealed, AnswersIInv, AnswersTypeOK
<1>3. QuestionsKeep
  BY <1>2, SameQuestions
<1>4. told' \subseteq Questions /\ NoEarlyWords'
  BY <1>1, <1>2, <1>3, WordsGoOut DEF AnswersIInv
<1> QED BY <1>2, <1>3, <1>4, NoRequestFields, GoodNoRequest, OnlyRequest

LEMMA StepRequestBroadcast ==
  ASSUME AnswersIInv, NEW o \in Organisers, RequestBroadcast(o) PROVE AnswersIInv'
<1>1. request[o] \in Request /\ request[o].pc = "broadcast" /\ GoodRequest(request[o])
      /\ request[o].q \in Questions
  BY DEF RequestBroadcast, AnswersIInv, AnswersTypeOK, RequestsOK, GoodRequest
<1>2. /\ UNCHANGED <<question, current, answers, cloud, post>> /\ calls' \in 0..MaxCalls
      /\ question' \in [Questions -> QuestionRow] /\ current' \in Questions \cup {Nothing}
  BY DEF RequestBroadcast, AnswersIInv, AnswersTypeOK
<1>3. QuestionsKeep
  BY <1>2, SameQuestions
<1>4. CASE request[o].read = "unread"
  <2>1. PICK m : m = ReadHidden(request[o])
    OBVIOUS
  <2>2. /\ m \in Request /\ m.pc = "broadcast" /\ m.q = request[o].q
        /\ m.read = IF IsResultHidden(request[o].q) THEN "hidden" ELSE "shown"
    BY <1>1, <2>1, RequestReads
  <2>3. GoodRequest(m)
    BY <1>1, <2>2, HiddenIsNotSeen DEF GoodRequest
  <2>4. SetRequest(o, m) /\ told' = told
    BY <1>4, <2>1 DEF RequestBroadcast
  <2> QED BY <1>2, <2>2, <2>3, <2>4, OnlyAsks
<1>5. CASE request[o].read # "unread"
  <2>1. SetRequest(o, NoRequest) /\ told' = Emitted(request[o].q, request[o].read)
    BY <1>5 DEF RequestBroadcast
  <2>2. request[o].read = "shown" => MayBeSeen(request[o].q)
    BY <1>1 DEF GoodRequest
  <2>3. told' \subseteq Questions /\ NoEarlyWords'
    BY <1>1, <1>3, <2>1, <2>2, WordsGoOut DEF AnswersIInv
  <2> QED BY <1>2, <1>3, <2>1, <2>3, NoRequestFields, GoodNoRequest, OnlyRequest
<1> QED BY <1>4, <1>5

LEMMA StepDeleteAnswers ==
  ASSUME AnswersIInv, NEW o \in Organisers, DeleteAnswers(o) PROVE AnswersIInv'
<1>1. request[o] \in Request /\ request[o].pc = "empty" /\ request[o].q \in Questions
      /\ GoodRequest(request[o])
  BY DEF DeleteAnswers, AnswersIInv, AnswersTypeOK, RequestsOK, GoodRequest
<1>2. PICK q \in Questions : q = request[o].q
  BY <1>1
<1>3. /\ UNCHANGED <<question, current, answers, cloud, post, told>> /\ calls' \in 0..MaxCalls
      /\ \A other \in Organisers : ~(request[other].pc = "emptied" /\ request[other].q = q)
  BY <1>2 DEF DeleteAnswers, AnswersIInv, AnswersTypeOK
<1>4. CASE ~question[q].exists
  <2>1. SetRequest(o, NoRequest)
    BY <1>2, <1>4 DEF DeleteAnswers
  <2> QED BY <1>3, <2>1, NoRequestFields, GoodNoRequest, OnlyAsks
<1>5. CASE question[q].exists
  <2>1. PICK m : m = [request[o] EXCEPT !.pc = "emptied", !.seen = answers[q]]
    OBVIOUS
  <2>2. SetRequest(o, m) /\ answers[q] \in Rows
    BY <1>2, <1>5, <2>1 DEF DeleteAnswers, AnswersIInv, AnswersTypeOK
  <2>3. m \in Request /\ m.pc = "emptied" /\ m.q = q /\ m.seen = answers[q] /\ m.read = request[o].read
    BY <1>1, <1>2, <2>1, <2>2, EmptiedFields
  <2>4. GoodRequest(m)
    BY <1>1, <1>2, <2>3 DEF GoodRequest
  <2>5. QuestionsKeep
    BY <1>3, SameQuestions
  <2>6. request' \in [Organisers -> Request] /\ RequestsOK'
    BY <2>2, <2>3, <2>4, <2>5, KeptRequest, OneRequest DEF AnswersIInv
  <2>7. post' \in [Tabs -> Post] /\ PostsOK' /\ told' \subseteq Questions /\ NoEarlyWords'
    BY <1>3, <2>5, NoPostMoves, ToldSame DEF AnswersIInv
  <2>8. \A x \in Organisers : request'[x] = IF x = o THEN m ELSE request[x]
    BY <2>2 DEF SetRequest, AnswersIInv, AnswersTypeOK
  <2>9. EmptyingOK'
    <3>1. \A p \in People, w \in Words : answers[q][p][w] <= answers[q][p][w]
      BY <2>2 DEF Rows
    <3>2. ASSUME NEW x \in Organisers, request'[x].pc = "emptied"
          PROVE  /\ \A p \in People, w \in Words : request'[x].seen[p][w] <= answers'[request'[x].q][p][w]
                 /\ \A y \in Organisers \ {x} : request'[y].pc = "emptied" => request'[y].q # request'[x].q
      <4>1. CASE x = o
        BY <1>3, <2>3, <2>8, <3>1, <4>1
      <4>2. CASE x # o
        BY <1>3, <2>3, <2>8, <3>2, <4>2 DEF AnswersIInv, EmptyingOK
      <4> QED BY <4>1, <4>2
    <3> QED BY <3>2 DEF EmptyingOK
  <2> QED BY <1>3, <2>6, <2>7, <2>9 DEF AnswersIInv, AnswersTypeOK
<1> QED BY <1>4, <1>5

\* The emptied question loses the answers that were deleted, and no other one any.
LEMMA WhatRemains ==
  ASSUME AnswersIInv, NEW o \in Organisers, DeleteCloud(o)
  PROVE  /\ request[o].q \in Questions /\ answers' \in [Questions -> Rows]
         /\ \A p \in People, w \in Words : answers'[request[o].q][p][w] <= answers[request[o].q][p][w]
         /\ \A x \in Questions \ {request[o].q} : answers'[x] = answers[x]
<1>1. request[o] \in Request /\ request[o].pc = "emptied" /\ request[o].q \in Questions
  BY DEF DeleteCloud, AnswersIInv, AnswersTypeOK, RequestsOK, GoodRequest
<1>2. PICK q \in Questions, seen \in Rows : q = request[o].q /\ seen = request[o].seen
  BY <1>1, RequestFields
<1>3. answers' = [answers EXCEPT ![q] = Remaining(q, seen)]
  BY <1>2 DEF DeleteCloud
<1>4. \A p \in People, w \in Words :
        seen[p][w] \in Nat /\ answers[q][p][w] \in Nat /\ seen[p][w] <= answers[q][p][w]
  BY <1>1, <1>2 DEF AnswersIInv, AnswersTypeOK, EmptyingOK, Rows
<1>5. \A p \in People, w \in Words :
        answers[q][p][w] - seen[p][w] \in Nat /\ answers[q][p][w] - seen[p][w] <= answers[q][p][w]
  BY <1>4
<1>6. Remaining(q, seen) \in Rows
      /\ \A p \in People, w \in Words : Remaining(q, seen)[p][w] <= answers[q][p][w]
  BY <1>5 DEF Remaining, Rows
<1> QED BY <1>2, <1>3, <1>6 DEF AnswersIInv, AnswersTypeOK

LEMMA StepDeleteCloud ==
  ASSUME AnswersIInv, NEW o \in Organisers, DeleteCloud(o) PROVE AnswersIInv'
<1>1. request[o] \in Request /\ request[o].pc = "emptied" /\ request[o].q \in Questions
      /\ GoodRequest(request[o])
  BY DEF DeleteCloud, AnswersIInv, AnswersTypeOK, RequestsOK, GoodRequest
<1>2. PICK m : m = [request[o] EXCEPT !.pc = "broadcast", !.seen = NoRows]
  OBVIOUS
<1>3. m \in Request /\ m.pc = "broadcast" /\ m.q = request[o].q /\ m.read = request[o].read
  BY <1>1, <1>2, ClearedFields
<1>4. GoodRequest(m)
  BY <1>1, <1>3 DEF GoodRequest
<1>5. /\ SetRequest(o, m) /\ UNCHANGED <<question, current, post, told>> /\ calls' \in 0..MaxCalls
      /\ cloud' \in [Questions -> [Words -> Nat]]
  BY <1>2 DEF DeleteCloud, AnswersIInv, AnswersTypeOK
<1>6. QuestionsKeep
  BY <1>5, SameQuestions
<1>7. request' \in [Organisers -> Request] /\ RequestsOK'
  BY <1>3, <1>4, <1>5, <1>6, KeptRequest, OneRequest DEF AnswersIInv
<1>8. post' \in [Tabs -> Post] /\ PostsOK' /\ told' \subseteq Questions /\ NoEarlyWords'
  BY <1>5, <1>6, NoPostMoves, ToldSame DEF AnswersIInv
<1>9. \A x \in Organisers : request'[x] = IF x = o THEN m ELSE request[x]
  BY <1>5 DEF SetRequest, AnswersIInv, AnswersTypeOK
<1>10. EmptyingOK'
  <2>1. ASSUME NEW x \in Organisers, request'[x].pc = "emptied"
        PROVE  /\ \A p \in People, w \in Words : request'[x].seen[p][w] <= answers'[request'[x].q][p][w]
               /\ \A y \in Organisers \ {x} : request'[y].pc = "emptied" => request'[y].q # request'[x].q
    <3>1. x # o /\ request'[x] = request[x]
      BY <1>3, <1>9, <2>1
    <3>2. request[x].q # request[o].q /\ request[x].q \in Questions
      BY <1>1, <2>1, <3>1 DEF AnswersIInv, EmptyingOK, RequestsOK, GoodRequest
    <3>3. answers'[request[x].q] = answers[request[x].q]
      BY <3>2, WhatRemains
    <3> QED BY <1>3, <1>9, <2>1, <3>1, <3>3 DEF AnswersIInv, EmptyingOK
  <2> QED BY <2>1 DEF EmptyingOK
<1> QED BY <1>5, <1>7, <1>8, <1>10, WhatRemains DEF AnswersIInv, AnswersTypeOK

LEMMA AnswersStart == AnswersInit => AnswersIInv
<1> SUFFICES ASSUME AnswersInit PROVE AnswersIInv
  OBVIOUS
<1>1. AnswersTypeOK
  BY AnswersAssumption, NoRowsType, NoPostFields, NoRequestFields
  DEF AnswersInit, AnswersTypeOK, QuestionRow, Statuses
<1>2. PostsOK /\ RequestsOK
  BY GoodNoPost, GoodNoRequest DEF AnswersInit, PostsOK, RequestsOK
<1>3. EmptyingOK /\ NoEarlyWords
  BY NoRequestFields DEF AnswersInit, EmptyingOK, NoEarlyWords
<1> QED BY <1>1, <1>2, <1>3 DEF AnswersIInv

LEMMA AnswersStutter == ASSUME AnswersIInv, UNCHANGED answerVars PROVE AnswersIInv'
<1>1. /\ UNCHANGED <<question, current, answers, cloud, request, calls, told>> /\ UNCHANGED post
      /\ calls' \in 0..MaxCalls /\ question' \in [Questions -> QuestionRow]
      /\ current' \in Questions \cup {Nothing} /\ answers' \in [Questions -> Rows]
      /\ cloud' \in [Questions -> [Words -> Nat]]
  BY DEF answerVars, AnswersIInv, AnswersTypeOK
<1>2. QuestionsKeep /\ EmptyingOK'
  BY <1>1, SameQuestions, SameRequestsEmptying DEF AnswersIInv
<1> QED BY <1>1, <1>2, OnlyQuestions

\* Each action of the audience and of the organisers keeps it.
LEMMA AnswersStep == AnswersIInv /\ [AnswersNext]_answerVars => AnswersIInv'
<1> SUFFICES ASSUME AnswersIInv, [AnswersNext]_answerVars PROVE AnswersIInv'
  OBVIOUS
<1>1. CASE Audience
  BY <1>1, StepSubmit, StepCheckQuestion, StepCheckCount, StepCheckDuplicate, StepWriteAnswer,
     StepPostBroadcast DEF Audience
<1>2. CASE Organising
  BY <1>2, StepAskCurrent, StepAskReveal, StepAskEmpty, StepSetCurrent, StepReveal,
     StepEmitRevealed, StepDeleteAnswers, StepDeleteCloud, StepRequestBroadcast,
     StepDeleteQuestion, StepPatchStatus DEF Organising
<1>3. CASE UNCHANGED answerVars
  BY <1>3, AnswersStutter
<1> QED BY <1>1, <1>2, <1>3 DEF AnswersNext

\* The invariant of Answers, for every action of the audience and of the organisers.
THEOREM AnswersInvariance == AnswersSpec => []AnswersIInv
BY AnswersStart, AnswersStep, PTL DEF AnswersSpec

-----------------------------------------------------------------------------
(* Sums of answers *)

\* The words that a word's count must not exceed, and a participant's own count, as sums.
ColumnSum(rows, w) == MapThenSumSet(LAMBDA p : rows[p][w], People)
RowSum(row) == MapThenSumSet(LAMBDA w : row[w], DOMAIN row)

LEMMA PeopleFinite == IsFiniteSet(People)
<1>1. Participant \in Surjection(Tabs, People)
  BY AnswersAssumption DEF Surjection, People, Range
<1> QED BY <1>1, AnswersAssumption, FS_Surjection

LEMMA ColumnIsSum ==
  ASSUME NEW rows, NEW w
  PROVE  ColumnSum(rows, w) = SumOf([p \in People |-> rows[p][w]], People)
<1> DEFINE f == [p \in People |-> rows[p][w]]
<1>1. PICK g : Adds(g, f, People)
  BY PeopleFinite, AddsExists
<1>2. g = [s \in SUBSET People |-> IF s = {} THEN 0 ELSE rows[First(s)][w] + g[s \ {First(s)}]]
  BY <1>1, FirstIn DEF Adds
<1>3. \E k : k = [s \in SUBSET People |-> IF s = {} THEN 0 ELSE rows[First(s)][w] + k[s \ {First(s)}]]
             /\ ColumnSum(rows, w) = k[People]
  BY <1>2 DEF ColumnSum, First, MapThenSumSet, MapThenFoldSet
<1>4. PICK k : Adds(k, f, People) /\ ColumnSum(rows, w) = k[People]
  BY <1>3, FirstIn DEF Adds
<1>5. PICK h : Adds(h, f, People) /\ SumOf(f, People) = h[People]
  BY PeopleFinite, SumAdds
<1>6. People \in SUBSET People /\ People \in SUBSET (People \cap People)
  OBVIOUS
<1> HIDE DEF f
<1>7. k[People] = h[People]
  BY <1>4, <1>5, <1>6, PeopleFinite, AddsAgree
<1> QED BY <1>4, <1>5, <1>7 DEF f

LEMMA RowIsSum ==
  ASSUME NEW row, DOMAIN row = Words PROVE RowSum(row) = SumOf(row, Words)
BY DEF RowSum, SumOf, MapThenSumSet, MapThenFoldSet

LEMMA BackingIs ==
  ASSUME NEW q, NEW w
  PROVE  /\ Backing(q, w) = ColumnSum(answers[q], w)
         /\ Backing(q, w)' = ColumnSum(answers'[q], w)
<1>1. Backing(q, w) = ColumnSum(answers[q], w)
  BY DEF Backing, ColumnSum
<1>2. Backing(q, w)' = ColumnSum(answers'[q], w)
  BY DEF Backing, ColumnSum, People, MapThenSumSet, MapThenFoldSet
<1> QED BY <1>1, <1>2

LEMMA CountIs ==
  ASSUME NEW q, NEW p
  PROVE  /\ CountOf(q, p) = RowSum(answers[q][p])
         /\ CountOf(q, p)' = RowSum(answers'[q][p])
<1>1. CountOf(q, p) = RowSum(answers[q][p])
  BY DEF CountOf, Total, RowSum
<1>2. CountOf(q, p)' = RowSum(answers'[q][p])
  BY DEF CountOf, Total, RowSum, MapThenSumSet, MapThenFoldSet
<1> QED BY <1>1, <1>2
LEMMA AnswersAreNat ==
  ASSUME AnswersTypeOK, NEW q \in Questions, NEW p \in People
  PROVE  /\ \A w \in Words : answers[q][p][w] \in Nat
         /\ AllNat(answers[q][p], Words) /\ DOMAIN answers[q][p] = Words
BY DEF AnswersTypeOK, Rows, AllNat

LEMMA AnswersAreNatNext ==
  ASSUME AnswersTypeOK', NEW q \in Questions, NEW p \in People
  PROVE  /\ \A w \in Words : answers'[q][p][w] \in Nat
         /\ AllNat(answers'[q][p], Words) /\ DOMAIN answers'[q][p] = Words
BY DEF AnswersTypeOK, Rows, AllNat

Column(rows, w) == [p \in People |-> rows[p][w]]

LEMMA BackingSum ==
  ASSUME NEW q, NEW w
  PROVE  /\ Backing(q, w) = SumOf(Column(answers[q], w), People)
         /\ Backing(q, w)' = SumOf(Column(answers'[q], w), People)
BY BackingIs, ColumnIsSum DEF Column

LEMMA BackingNat ==
  ASSUME AnswersTypeOK, AnswersTypeOK', NEW q \in Questions, NEW w \in Words
  PROVE  Backing(q, w) \in Nat /\ Backing(q, w)' \in Nat
<1>1. AllNat(Column(answers[q], w), People) /\ AllNat(Column(answers'[q], w), People)
  BY AnswersAreNat, AnswersAreNatNext DEF AllNat, Column
<1> QED BY <1>1, PeopleFinite, SumNat, BackingSum

\* An action that leaves the answers to a question alone leaves the rows behind its words.
LEMMA BackingSame ==
  ASSUME NEW q, NEW w, answers'[q] = answers[q] PROVE Backing(q, w)' = Backing(q, w)
BY BackingSum

\* CloudIsBacked is kept by an action that treats answers and cloud alike.
LEMMA BackedOneMore ==
  ASSUME AnswersTypeOK, AnswersTypeOK', CloudIsBacked,
         NEW q \in Questions, NEW a \in People, NEW w \in Words,
         answers' = [answers EXCEPT ![q][a][w] = @ + 1], cloud' = [cloud EXCEPT ![q][w] = @ + 1]
  PROVE  CloudIsBacked'
<1> SUFFICES ASSUME NEW x \in Questions, NEW v \in Words PROVE cloud'[x][v] <= Backing(x, v)'
  BY DEF CloudIsBacked
<1>1. \A y \in Questions, p \in People, u \in Words :
        answers'[y][p][u] = IF y = q /\ p = a /\ u = w THEN answers[y][p][u] + 1 ELSE answers[y][p][u]
  BY DEF AnswersTypeOK, Rows
<1>2. \A y \in Questions, u \in Words :
        cloud'[y][u] = IF y = q /\ u = w THEN cloud[y][u] + 1 ELSE cloud[y][u]
  BY DEF AnswersTypeOK
<1>3. Backing(x, v) \in Nat /\ cloud[x][v] \in Nat /\ cloud[x][v] <= Backing(x, v)
  BY BackingNat DEF AnswersTypeOK, CloudIsBacked
<1>4. CASE x = q /\ v = w
  <2> DEFINE f == Column(answers[x], v)
             h == Column(answers'[x], v)
  <2>1. h[a] = f[a] + 1 /\ \A p \in People \ {a} : h[p] = f[p]
    BY <1>1, <1>4 DEF Column
  <2>2. AllNat(f, People)
    BY AnswersAreNat DEF AllNat, Column
  <2> HIDE DEF f, h
  <2>3. SumOf(h, People) = SumOf(f, People) + 1
    BY <2>1, <2>2, PeopleFinite, SumOneMore
  <2>4. Backing(x, v)' = Backing(x, v) + 1
    BY <2>3, BackingSum DEF f, h
  <2> QED BY <1>2, <1>3, <1>4, <2>4
<1>5. CASE ~(x = q /\ v = w)
  <2>1. Column(answers'[x], v) = Column(answers[x], v)
    BY <1>1, <1>5 DEF Column
  <2>2. Backing(x, v)' = Backing(x, v)
    BY <2>1, BackingSum
  <2> QED BY <1>2, <1>3, <1>5, <2>2
<1> QED BY <1>4, <1>5

LEMMA BackedCleared ==
  ASSUME AnswersTypeOK, AnswersTypeOK', CloudIsBacked, NEW q \in Questions,
         \A x \in Questions \ {q} : answers'[x] = answers[x],
         cloud' = [cloud EXCEPT ![q] = [w \in Words |-> 0]]
  PROVE  CloudIsBacked'
<1> SUFFICES ASSUME NEW x \in Questions, NEW v \in Words PROVE cloud'[x][v] <= Backing(x, v)'
  BY DEF CloudIsBacked
<1>1. Backing(x, v)' \in Nat /\ cloud[x][v] <= Backing(x, v)
  BY BackingNat DEF CloudIsBacked
<1>2. CASE x = q
  <2>1. cloud'[x][v] = 0
    BY <1>2 DEF AnswersTypeOK
  <2> QED BY <1>1, <2>1
<1>3. CASE x # q
  <2>1. cloud'[x] = cloud[x]
    BY <1>3 DEF AnswersTypeOK
  <2>2. Backing(x, v)' = Backing(x, v)
    BY <1>3, BackingSame
  <2> QED BY <1>1, <2>1, <2>2
<1> QED BY <1>2, <1>3

LEMMA BackedSame ==
  ASSUME CloudIsBacked, UNCHANGED <<answers, cloud>> PROVE CloudIsBacked'
<1> SUFFICES ASSUME NEW x \in Questions, NEW v \in Words PROVE cloud'[x][v] <= Backing(x, v)'
  BY DEF CloudIsBacked
<1> QED BY BackingSame DEF CloudIsBacked

-----------------------------------------------------------------------------
(* What the step of a tab does to the answers *)

TabMoves(t) ==
  \E r \in Post :
    /\ \A x \in Tabs : post'[x] = IF x = t THEN r ELSE post[x]
    /\ \/ UNCHANGED answers /\ UNCHANGED cloud /\ r.pc \notin {"duplicate", "write"}
       \/ /\ UNCHANGED answers /\ UNCHANGED cloud /\ post[t].pc = "count" /\ r.q = post[t].q
          /\ ~LimitReached(r.q, CountOf(r.q, Participant[t]))
          /\ r.pc = IF r.q \in Duplicates THEN "write" ELSE "duplicate"
       \/ /\ UNCHANGED answers /\ UNCHANGED cloud /\ post[t].pc = "duplicate" /\ r.pc = "write"
          /\ r.q = post[t].q /\ r.text = post[t].text
          /\ ~(answers[r.q][Participant[t]][NormalizeWord(r.text)] > 0)
       \/ /\ post[t].pc = "write" /\ r.pc = "broadcast"
          /\ answers' = [answers EXCEPT ![post[t].q][Participant[t]][NormalizeWord(post[t].text)] = @ + 1]
          /\ cloud' = [cloud EXCEPT ![post[t].q][NormalizeWord(post[t].text)] = @ + 1]

LEMMA SetPostIs ==
  ASSUME AnswersTypeOK, NEW t \in Tabs, NEW r, SetPost(t, r)
  PROVE  \A x \in Tabs : post'[x] = IF x = t THEN r ELSE post[x]
BY DEF SetPost, AnswersTypeOK

LEMMA AudienceMoves ==
  ASSUME AnswersIInv, NEW t \in Tabs,
         \/ \E q \in Questions, x \in Texts : Submit(t, q, x)
         \/ CheckQuestion(t) \/ CheckCount(t) \/ CheckDuplicate(t) \/ WriteAnswer(t) \/ PostBroadcast(t)
  PROVE  TabMoves(t)
<1> post[t] \in Post /\ AnswersTypeOK
  BY DEF AnswersIInv, AnswersTypeOK
<1>1. ASSUME NEW r \in Post, SetPost(t, r), r.pc \notin {"duplicate", "write"}, UNCHANGED <<answers, cloud>>
      PROVE  TabMoves(t)
  BY <1>1, SetPostIs DEF TabMoves
<1>2. ASSUME SetPost(t, NoPost), UNCHANGED <<answers, cloud>> PROVE TabMoves(t)
  BY <1>1, <1>2, NoPostFields
<1>3. ASSUME NEW q \in Questions, NEW x \in Texts, Submit(t, q, x) PROVE TabMoves(t)
  <2>1. PICK r : r = [NoPost EXCEPT !.pc = "question", !.q = q, !.text = x]
    OBVIOUS
  <2>2. r \in Post /\ r.pc = "question"
    BY <2>1 DEF NoPost, Post, Reads
  <2> QED BY <1>1, <1>3, <2>1, <2>2 DEF Submit
<1>4. CASE CheckQuestion(t)
  <2>1. PICK m : m = [post[t] EXCEPT !.pc = "count"]
    OBVIOUS
  <2>2. m \in Post /\ m.pc = "count"
    BY <2>1, PostMoves
  <2>3. UNCHANGED <<answers, cloud>> /\ (SetPost(t, NoPost) \/ SetPost(t, m))
    BY <1>4, <2>1 DEF CheckQuestion
  <2> QED BY <1>1, <1>2, <2>2, <2>3
<1>5. CASE CheckCount(t)
  <2> DEFINE q == post[t].q
             stop == LimitReached(q, CountOf(q, Participant[t])) \/ NormalizeWord(post[t].text) = Nothing
             m == [post[t] EXCEPT !.pc = IF q \in Duplicates THEN "write" ELSE "duplicate"]
  <2>1. SetPost(t, IF stop THEN NoPost ELSE m) /\ UNCHANGED <<answers, cloud>> /\ post[t].pc = "count"
    BY <1>5 DEF CheckCount
  <2>2. CASE stop
    BY <1>2, <2>1, <2>2
  <2>3. CASE ~stop
    <3>1. SetPost(t, m) /\ ~LimitReached(q, CountOf(q, Participant[t]))
      BY <2>1, <2>3
    <3>2. /\ m \in Post /\ m.q = q /\ m.pc = IF q \in Duplicates THEN "write" ELSE "duplicate"
      BY DEF Post
    <3> HIDE DEF m, q, stop
    <3> QED BY <2>1, <3>1, <3>2, SetPostIs DEF TabMoves, q
  <2> QED BY <2>2, <2>3
<1>6. CASE CheckDuplicate(t)
  <2>1. PICK m : m = [post[t] EXCEPT !.pc = "write"]
    OBVIOUS
  <2>2. m \in Post /\ m.pc = "write" /\ m.q = post[t].q /\ m.text = post[t].text
    BY <2>1, PostMoves
  <2>3. UNCHANGED <<answers, cloud>> /\ post[t].pc = "duplicate"
    BY <1>6 DEF CheckDuplicate
  <2>4. CASE answers[post[t].q][Participant[t]][NormalizeWord(post[t].text)] > 0
    BY <1>2, <1>6, <2>3, <2>4 DEF CheckDuplicate
  <2>5. CASE ~(answers[post[t].q][Participant[t]][NormalizeWord(post[t].text)] > 0)
    <3>1. SetPost(t, m)
      BY <1>6, <2>1, <2>5, Zenon DEF CheckDuplicate
    <3> QED BY <2>2, <2>3, <2>5, <3>1, SetPostIs DEF TabMoves
  <2> QED BY <2>4, <2>5
<1>7. CASE WriteAnswer(t)
  <2>1. PICK m : m = [post[t] EXCEPT !.pc = "broadcast"]
    OBVIOUS
  <2>2. m \in Post /\ m.pc = "broadcast"
    BY <2>1, PostMoves
  <2>3. CASE question[post[t].q].exists
    <3>1. /\ SetPost(t, m) /\ post[t].pc = "write"
          /\ answers' = [answers EXCEPT ![post[t].q][Participant[t]][NormalizeWord(post[t].text)] = @ + 1]
          /\ cloud' = [cloud EXCEPT ![post[t].q][NormalizeWord(post[t].text)] = @ + 1]
      BY <1>7, <2>1, <2>3 DEF WriteAnswer
    <3> QED BY <2>2, <3>1, SetPostIs DEF TabMoves
  <2>4. CASE ~question[post[t].q].exists
    BY <1>2, <1>7, <2>4 DEF WriteAnswer
  <2> QED BY <2>3, <2>4
<1>8. CASE PostBroadcast(t)
  <2>1. PICK m : m = ReadHidden(post[t])
    OBVIOUS
  <2>2. m \in Post /\ m.pc = post[t].pc
    BY <2>1, PostReads
  <2>3. post[t].pc = "broadcast" /\ UNCHANGED <<answers, cloud>> /\ (SetPost(t, NoPost) \/ SetPost(t, m))
    BY <1>8, <2>1 DEF PostBroadcast
  <2> QED BY <1>1, <1>2, <2>2, <2>3
<1> QED BY <1>3, <1>4, <1>5, <1>6, <1>7, <1>8

\* What a step of an organiser does to them: nothing, or a question is emptied.
OrganiserMoves ==
  /\ UNCHANGED post
  /\ \/ UNCHANGED answers /\ UNCHANGED cloud
     \/ \E q \in Questions :
          /\ \A x \in Questions \ {q} : answers'[x] = answers[x]
          /\ \A p \in People, w \in Words : answers'[q][p][w] <= answers[q][p][w]
          /\ cloud' = [cloud EXCEPT ![q] = [w \in Words |-> 0]]

LEMMA OrganisingMoves ==
  ASSUME AnswersIInv, Organising PROVE OrganiserMoves
<1>1. ASSUME NEW q \in Questions, DeleteQuestion(q) PROVE OrganiserMoves
  <2>1. /\ answers' = [answers EXCEPT ![q] = NoRows] /\ UNCHANGED post
        /\ cloud' = [cloud EXCEPT ![q] = [w \in Words |-> 0]]
    BY <1>1 DEF DeleteQuestion
  <2>2. \A x \in Questions \ {q} : answers'[x] = answers[x]
    BY <2>1 DEF AnswersIInv, AnswersTypeOK
  <2>3. answers'[q] = NoRows
    BY <2>1 DEF AnswersIInv, AnswersTypeOK
  <2>4. \A p \in People, w \in Words : NoRows[p][w] <= answers[q][p][w]
    BY AnswersAreNat DEF NoRows, AnswersIInv
  <2> QED BY <2>1, <2>2, <2>3, <2>4 DEF OrganiserMoves
<1>2. ASSUME NEW o \in Organisers, DeleteCloud(o) PROVE OrganiserMoves
  <2>1. UNCHANGED post /\ cloud' = [cloud EXCEPT ![request[o].q] = [w \in Words |-> 0]]
    BY <1>2 DEF DeleteCloud
  <2> QED BY <1>2, <2>1, WhatRemains DEF OrganiserMoves
<1>3. ASSUME NEW q \in Questions, NEW s \in Statuses, PatchStatus(q, s) PROVE OrganiserMoves
  BY <1>3 DEF PatchStatus, OrganiserMoves
<1>4. ASSUME NEW o \in Organisers, NEW q \in Questions, AskCurrent(o, q) \/ AskReveal(o, q) \/ AskEmpty(o, q)
      PROVE  OrganiserMoves
  BY <1>4 DEF AskCurrent, AskReveal, AskEmpty, OrganiserMoves
<1>5. ASSUME NEW o \in Organisers,
             SetCurrent(o) \/ Reveal(o) \/ EmitRevealed(o) \/ DeleteAnswers(o) \/ RequestBroadcast(o)
      PROVE  OrganiserMoves
  BY <1>5 DEF SetCurrent, Reveal, EmitRevealed, DeleteAnswers, RequestBroadcast, OrganiserMoves
<1> QED BY <1>1, <1>2, <1>3, <1>4, <1>5 DEF Organising

LEMMA EveryStepMoves ==
  ASSUME AnswersIInv, [AnswersNext]_answerVars
  PROVE  OrganiserMoves \/ \E t \in Tabs : TabMoves(t)
<1>1. CASE Audience
  BY <1>1, AudienceMoves DEF Audience
<1>2. CASE Organising
  BY <1>2, OrganisingMoves
<1>3. CASE UNCHANGED answerVars
  BY <1>3 DEF answerVars, OrganiserMoves
<1> QED BY <1>1, <1>2, <1>3 DEF AnswersNext

-----------------------------------------------------------------------------
(* The cloud and the answers behind it *)

LEMMA BackedStart == ASSUME AnswersInit PROVE CloudIsBacked
<1>1. AnswersTypeOK
  BY AnswersStart DEF AnswersIInv
<1>2. \A q \in Questions, w \in Words : SumOf(Column(answers[q], w), People) \in Nat
  <2> TAKE q \in Questions, w \in Words
  <2>1. AllNat(Column(answers[q], w), People)
    BY <1>1, AnswersAreNat DEF AllNat, Column
  <2> QED BY <2>1, PeopleFinite, SumNat
<1>3. \A q \in Questions, w \in Words : cloud[q][w] = 0
  BY DEF AnswersInit
<1> QED BY <1>2, <1>3, BackingSum DEF CloudIsBacked

LEMMA BackedStep ==
  ASSUME AnswersIInv, AnswersIInv', CloudIsBacked, [AnswersNext]_answerVars PROVE CloudIsBacked'
<1>1. AnswersTypeOK /\ AnswersTypeOK'
  BY DEF AnswersIInv
<1>2. CASE OrganiserMoves
  BY <1>1, <1>2, BackedSame, BackedCleared DEF OrganiserMoves
<1>3. ASSUME NEW t \in Tabs, TabMoves(t) PROVE CloudIsBacked'
  <2>1. CASE UNCHANGED answers /\ UNCHANGED cloud
    BY <2>1, BackedSame
  <2>2. CASE /\ post[t].pc = "write"
             /\ answers' = [answers EXCEPT ![post[t].q][Participant[t]][NormalizeWord(post[t].text)] = @ + 1]
             /\ cloud' = [cloud EXCEPT ![post[t].q][NormalizeWord(post[t].text)] = @ + 1]
    <3>1. post[t].q \in Questions /\ NormalizeWord(post[t].text) \in Words /\ Participant[t] \in People
      BY <2>2, OwnerOf DEF AnswersIInv, PostsOK, GoodPost
    <3> QED BY <1>1, <2>2, <3>1, BackedOneMore
  <2> QED BY <1>3, <2>1, <2>2 DEF TabMoves
<1> QED BY <1>2, <1>3, EveryStepMoves

\* For any number of tabs, organisers and questions: no word of the cloud counts more
\* answers than there are (WordAggregate against Response), whatever answers, emptying and
\* deletions overlap.
THEOREM CloudIsAlwaysBacked == AnswersSpec => []CloudIsBacked
<1>1. AnswersInit => CloudIsBacked
  BY BackedStart
<1>2. AnswersIInv /\ AnswersIInv' /\ CloudIsBacked /\ [AnswersNext]_answerVars => CloudIsBacked'
  BY BackedStep
<1> QED BY <1>1, <1>2, AnswersInvariance, PTL DEF AnswersSpec

\* For any questions and visibilities: words reach the audience only while the results of
\* their question may be seen, whenever broadcastSnapshot read them.
THEOREM NoWordsEarly == AnswersSpec => []NoEarlyWords
<1>1. AnswersIInv => NoEarlyWords
  BY DEF AnswersIInv
<1> QED BY <1>1, AnswersInvariance, PTL

-----------------------------------------------------------------------------
(* The limit and the duplicates: a tab that has passed a check counts as   *)
(* the answer it will insert.                                              *)

LEMMA TabSets ==
  ASSUME NEW p, NEW S \in SUBSET TabsOf(p)
  PROVE  IsFiniteSet(S) /\ Cardinality(S) \in Nat /\ Cardinality(S) <= Cardinality(TabsOf(p))
         /\ IsFiniteSet(TabsOf(p)) /\ Cardinality(TabsOf(p)) \in Nat
<1>1. IsFiniteSet(TabsOf(p))
  BY AnswersAssumption, FS_Subset DEF TabsOf
<1> QED BY <1>1, FS_Subset, FS_CardinalityType

LEMMA HasTab == ASSUME NEW p \in People PROVE Cardinality(TabsOf(p)) >= 1
<1>1. PICK t \in Tabs : Participant[t] = p
  BY AnswersAssumption DEF People, Range
<1>2. {t} \in SUBSET TabsOf(p) /\ Cardinality({t}) = 1
  BY <1>1, FS_Singleton DEF TabsOf
<1>3. Cardinality({t}) <= Cardinality(TabsOf(p)) /\ Cardinality(TabsOf(p)) \in Nat
  BY <1>2, TabSets
<1> QED BY <1>2, <1>3

LEMMA SmallerSet ==
  ASSUME NEW p, NEW S \in SUBSET TabsOf(p), NEW T \in SUBSET S
  PROVE  Cardinality(T) \in Nat /\ Cardinality(S) \in Nat /\ Cardinality(T) <= Cardinality(S)
<1>1. IsFiniteSet(S) /\ Cardinality(S) \in Nat
  BY TabSets
<1> QED BY <1>1, FS_Subset, FS_CardinalityType

LEMMA WithoutOne ==
  ASSUME NEW p, NEW S \in SUBSET TabsOf(p), NEW t \in S
  PROVE  Cardinality(S) \in Nat /\ Cardinality(S \ {t}) = Cardinality(S) - 1
<1>1. IsFiniteSet(S) /\ Cardinality(S) \in Nat
  BY TabSets
<1> QED BY <1>1, FS_RemoveElement

LEMMA CountSum ==
  ASSUME AnswersTypeOK, AnswersTypeOK', NEW q \in Questions, NEW p \in People
  PROVE  /\ CountOf(q, p) = SumOf(answers[q][p], Words)
         /\ CountOf(q, p)' = SumOf(answers'[q][p], Words)
         /\ CountOf(q, p) \in Nat /\ CountOf(q, p)' \in Nat
<1>1. /\ DOMAIN answers[q][p] = Words /\ DOMAIN answers'[q][p] = Words
      /\ AllNat(answers[q][p], Words) /\ AllNat(answers'[q][p], Words)
  BY AnswersAreNat, AnswersAreNatNext
<1>2. /\ CountOf(q, p) = SumOf(answers[q][p], Words)
      /\ CountOf(q, p)' = SumOf(answers'[q][p], Words)
  BY <1>1, CountIs, RowIsSum
<1>3. SumOf(answers[q][p], Words) \in Nat /\ SumOf(answers'[q][p], Words) \in Nat
  BY <1>1, AnswersAssumption, SumNat
<1> QED BY <1>2, <1>3

LEMMA CountLess ==
  ASSUME AnswersTypeOK, AnswersTypeOK', NEW q \in Questions, NEW p \in People,
         \A w \in Words : answers'[q][p][w] <= answers[q][p][w]
  PROVE  CountOf(q, p)' <= CountOf(q, p)
<1>1. AllNat(answers[q][p], Words) /\ AllNat(answers'[q][p], Words)
  BY AnswersAreNat, AnswersAreNatNext
<1>2. SumOf(answers'[q][p], Words) <= SumOf(answers[q][p], Words)
  BY <1>1, AnswersAssumption, SumLess
<1> QED BY <1>2, CountSum

\* The limit is kept by what adds no answer and lets no tab pass.
LEMMA LimitNotNearer ==
  ASSUME AnswersTypeOK, AnswersTypeOK', LimitKept, NEW q \in Questions, NEW p \in People, Limit[q] # Nothing,
         \A w \in Words : answers'[q][p][w] <= answers[q][p][w], Passed(q, p)' \subseteq Passed(q, p)
  PROVE  CountOf(q, p)' + Cardinality(Passed(q, p)') + 1 <= Limit[q] + Cardinality(TabsOf(p))
<1>1. CountOf(q, p)' <= CountOf(q, p) /\ CountOf(q, p) \in Nat /\ CountOf(q, p)' \in Nat
  BY CountLess, CountSum
<1>2. Passed(q, p) \in SUBSET TabsOf(p)
  BY DEF Passed
<1>3. /\ Cardinality(Passed(q, p)') \in Nat /\ Cardinality(Passed(q, p)) \in Nat
      /\ Cardinality(Passed(q, p)') <= Cardinality(Passed(q, p))
  BY <1>2, SmallerSet
<1>4. CountOf(q, p) + Cardinality(Passed(q, p)) + 1 <= Limit[q] + Cardinality(TabsOf(p))
  BY DEF LimitKept
<1>5. Limit[q] \in Nat /\ Cardinality(TabsOf(p)) \in Nat
  BY AnswersAssumption, TabSets
<1> QED BY <1>1, <1>3, <1>4, <1>5

LEMMA LimitKeeps ==
  ASSUME AnswersIInv, AnswersIInv', LimitKept, [AnswersNext]_answerVars PROVE LimitKept'
<1> AnswersTypeOK /\ AnswersTypeOK'
  BY DEF AnswersIInv
<1> SUFFICES ASSUME NEW q \in Questions, NEW p \in People, Limit[q] # Nothing
             PROVE  CountOf(q, p)' + Cardinality(Passed(q, p)') + 1 <= Limit[q] + Cardinality(TabsOf(p))
  BY DEF LimitKept
<1> Limit[q] \in Nat /\ Cardinality(TabsOf(p)) \in Nat
  BY AnswersAssumption, TabSets
<1>1. CASE OrganiserMoves
  <2>1. \A w \in Words : answers'[q][p][w] <= answers[q][p][w]
    BY <1>1, AnswersAreNat DEF OrganiserMoves
  <2>2. Passed(q, p)' \subseteq Passed(q, p)
    BY <1>1 DEF OrganiserMoves, Passed
  <2> QED BY <2>1, <2>2, LimitNotNearer
<1>2. ASSUME NEW t \in Tabs, TabMoves(t)
      PROVE  CountOf(q, p)' + Cardinality(Passed(q, p)') + 1 <= Limit[q] + Cardinality(TabsOf(p))
  <2>1. PICK r \in Post :
    /\ \A x \in Tabs : post'[x] = IF x = t THEN r ELSE post[x]
    /\ \/ UNCHANGED answers /\ UNCHANGED cloud /\ r.pc \notin {"duplicate", "write"}
       \/ /\ UNCHANGED answers /\ UNCHANGED cloud /\ post[t].pc = "count" /\ r.q = post[t].q
          /\ ~LimitReached(r.q, CountOf(r.q, Participant[t]))
          /\ r.pc = IF r.q \in Duplicates THEN "write" ELSE "duplicate"
       \/ /\ UNCHANGED answers /\ UNCHANGED cloud /\ post[t].pc = "duplicate" /\ r.pc = "write"
          /\ r.q = post[t].q /\ r.text = post[t].text
          /\ ~(answers[r.q][Participant[t]][NormalizeWord(r.text)] > 0)
       \/ /\ post[t].pc = "write" /\ r.pc = "broadcast"
          /\ answers' = [answers EXCEPT ![post[t].q][Participant[t]][NormalizeWord(post[t].text)] = @ + 1]
          /\ cloud' = [cloud EXCEPT ![post[t].q][NormalizeWord(post[t].text)] = @ + 1]
    BY <1>2 DEF TabMoves
  <2>2. UNCHANGED answers => \A w \in Words : answers'[q][p][w] <= answers[q][p][w]
    BY AnswersAreNat
  <2>3. CASE UNCHANGED answers /\ r.pc \notin {"duplicate", "write"}
    <3>1. Passed(q, p)' \subseteq Passed(q, p)
      BY <2>1, <2>3 DEF Passed, TabsOf
    <3> QED BY <2>2, <2>3, <3>1, LimitNotNearer
  <2>4. CASE UNCHANGED answers /\ post[t].pc = "duplicate" /\ r.q = post[t].q
    <3>1. Passed(q, p)' \subseteq Passed(q, p)
      BY <2>1, <2>4 DEF Passed, TabsOf
    <3> QED BY <2>2, <2>4, <3>1, LimitNotNearer
  <2>5. CASE UNCHANGED answers /\ ~LimitReached(r.q, CountOf(r.q, Participant[t]))
    <3>1. CASE r.q = q /\ Participant[t] = p
      <4>1. CountOf(q, p) \in Nat /\ CountOf(q, p)' = CountOf(q, p)
        BY <2>5, CountSum
      <4>2. CountOf(q, p) < Limit[q]
        BY <2>5, <3>1, <4>1 DEF LimitReached
      <4>3. Passed(q, p)' \in SUBSET TabsOf(p)
        BY DEF Passed
      <4>4. Cardinality(Passed(q, p)') \in Nat /\ Cardinality(Passed(q, p)') <= Cardinality(TabsOf(p))
        BY <4>3, TabSets
      <4> QED BY <4>1, <4>2, <4>4
    <3>2. CASE ~(r.q = q /\ Participant[t] = p)
      <4>1. Passed(q, p)' \subseteq Passed(q, p)
        BY <2>1, <3>2 DEF Passed, TabsOf
      <4> QED BY <2>2, <2>5, <4>1, LimitNotNearer
    <3> QED BY <3>1, <3>2
  <2>6. CASE /\ post[t].pc = "write" /\ r.pc = "broadcast"
             /\ answers' = [answers EXCEPT ![post[t].q][Participant[t]][NormalizeWord(post[t].text)] = @ + 1]
    <3>1. PICK a \in Questions, w \in Words, b \in People :
            a = post[t].q /\ w = NormalizeWord(post[t].text) /\ b = Participant[t]
      BY <2>6, OwnerOf DEF AnswersIInv, PostsOK, GoodPost
    <3>2. \A x \in Questions, y \in People, v \in Words :
            answers'[x][y][v] = IF x = a /\ y = b /\ v = w THEN answers[x][y][v] + 1 ELSE answers[x][y][v]
      BY <2>6, <3>1 DEF AnswersTypeOK, Rows
    <3>3. CASE q = a /\ p = b
      <4>1. Passed(q, p)' = Passed(q, p) \ {t} /\ t \in Passed(q, p)
        BY <2>1, <2>6, <3>1, <3>3 DEF Passed, TabsOf
      <4>2. Passed(q, p) \in SUBSET TabsOf(p)
        BY DEF Passed
      <4>3. Cardinality(Passed(q, p)) \in Nat /\ Cardinality(Passed(q, p)') = Cardinality(Passed(q, p)) - 1
        BY <4>1, <4>2, WithoutOne
      <4>4. /\ answers'[q][p][w] = answers[q][p][w] + 1
            /\ \A v \in Words \ {w} : answers'[q][p][v] = answers[q][p][v]
        BY <3>2, <3>3
      <4>5. SumOf(answers'[q][p], Words) = SumOf(answers[q][p], Words) + 1
        BY <4>4, AnswersAreNat, AnswersAssumption, SumOneMore
      <4>6. CountOf(q, p)' = CountOf(q, p) + 1 /\ CountOf(q, p) \in Nat
        BY <4>5, CountSum
      <4>7. CountOf(q, p) + Cardinality(Passed(q, p)) + 1 <= Limit[q] + Cardinality(TabsOf(p))
        BY DEF LimitKept
      <4> QED BY <4>3, <4>6, <4>7
    <3>4. CASE ~(q = a /\ p = b)
      <4>1. \A v \in Words : answers'[q][p][v] <= answers[q][p][v]
        BY <3>2, <3>4, AnswersAreNat
      <4>2. Passed(q, p)' \subseteq Passed(q, p)
        BY <2>1, <2>6, <3>1, <3>4 DEF Passed, TabsOf
      <4> QED BY <4>1, <4>2, LimitNotNearer
    <3> QED BY <3>3, <3>4
  <2> QED BY <2>1, <2>3, <2>4, <2>5, <2>6
<1> QED BY <1>1, <1>2, EveryStepMoves

LEMMA RepeatsStep ==
  ASSUME AnswersIInv, AnswersIInv', RepeatsKept, [AnswersNext]_answerVars PROVE RepeatsKept'
<1> AnswersTypeOK /\ AnswersTypeOK'
  BY DEF AnswersIInv
<1> SUFFICES ASSUME NEW q \in Questions \ Duplicates, NEW p \in People, NEW w \in Words
             PROVE  answers'[q][p][w] + Cardinality(Repeating(q, p, w)') <= Cardinality(TabsOf(p))
  BY DEF RepeatsKept
<1>1. /\ answers[q][p][w] \in Nat /\ answers'[q][p][w] \in Nat /\ Cardinality(TabsOf(p)) \in Nat
      /\ answers[q][p][w] + Cardinality(Repeating(q, p, w)) <= Cardinality(TabsOf(p))
  BY AnswersAreNat, AnswersAreNatNext, TabSets DEF RepeatsKept
<1>2. ASSUME answers'[q][p][w] <= answers[q][p][w], Repeating(q, p, w)' \subseteq Repeating(q, p, w)
      PROVE  answers'[q][p][w] + Cardinality(Repeating(q, p, w)') <= Cardinality(TabsOf(p))
  <2>1. Repeating(q, p, w) \in SUBSET TabsOf(p)
    BY DEF Repeating
  <2>2. /\ Cardinality(Repeating(q, p, w)') \in Nat /\ Cardinality(Repeating(q, p, w)) \in Nat
        /\ Cardinality(Repeating(q, p, w)') <= Cardinality(Repeating(q, p, w))
    BY <1>2, <2>1, SmallerSet
  <2> QED BY <1>1, <1>2, <2>2
<1>3. CASE OrganiserMoves
  <2>1. answers'[q][p][w] <= answers[q][p][w]
    BY <1>1, <1>3 DEF OrganiserMoves
  <2>2. Repeating(q, p, w)' \subseteq Repeating(q, p, w)
    BY <1>3 DEF OrganiserMoves, Repeating, NormalizeWord
  <2> QED BY <1>2, <2>1, <2>2
<1>4. ASSUME NEW t \in Tabs, TabMoves(t)
      PROVE  answers'[q][p][w] + Cardinality(Repeating(q, p, w)') <= Cardinality(TabsOf(p))
  <2>1. PICK r \in Post :
    /\ \A x \in Tabs : post'[x] = IF x = t THEN r ELSE post[x]
    /\ \/ UNCHANGED answers /\ UNCHANGED cloud /\ r.pc \notin {"duplicate", "write"}
       \/ /\ UNCHANGED answers /\ UNCHANGED cloud /\ post[t].pc = "count" /\ r.q = post[t].q
          /\ ~LimitReached(r.q, CountOf(r.q, Participant[t]))
          /\ r.pc = IF r.q \in Duplicates THEN "write" ELSE "duplicate"
       \/ /\ UNCHANGED answers /\ UNCHANGED cloud /\ post[t].pc = "duplicate" /\ r.pc = "write"
          /\ r.q = post[t].q /\ r.text = post[t].text
          /\ ~(answers[r.q][Participant[t]][NormalizeWord(r.text)] > 0)
       \/ /\ post[t].pc = "write" /\ r.pc = "broadcast"
          /\ answers' = [answers EXCEPT ![post[t].q][Participant[t]][NormalizeWord(post[t].text)] = @ + 1]
          /\ cloud' = [cloud EXCEPT ![post[t].q][NormalizeWord(post[t].text)] = @ + 1]
    BY <1>4 DEF TabMoves
  <2>2. CASE UNCHANGED answers /\ (r.pc = "write" => r.q \in Duplicates)
    <3>1. Repeating(q, p, w)' \subseteq Repeating(q, p, w)
      BY <2>1, <2>2 DEF Repeating, TabsOf, NormalizeWord
    <3> QED BY <1>1, <1>2, <2>2, <3>1
  <2>3. CASE UNCHANGED answers /\ ~(answers[r.q][Participant[t]][NormalizeWord(r.text)] > 0)
    <3>1. CASE r.q = q /\ Participant[t] = p /\ NormalizeWord(r.text) = w
      <4>1. answers'[q][p][w] = 0
        BY <1>1, <2>3, <3>1
      <4>2. Repeating(q, p, w)' \in SUBSET TabsOf(p)
        BY DEF Repeating
      <4>3. /\ Cardinality(Repeating(q, p, w)') \in Nat
            /\ Cardinality(Repeating(q, p, w)') <= Cardinality(TabsOf(p))
        BY <4>2, TabSets
      <4> QED BY <4>1, <4>3
    <3>2. CASE ~(r.q = q /\ Participant[t] = p /\ NormalizeWord(r.text) = w)
      <4>1. Repeating(q, p, w)' \subseteq Repeating(q, p, w)
        BY <2>1, <3>2 DEF Repeating, TabsOf, NormalizeWord
      <4> QED BY <1>1, <1>2, <2>3, <4>1
    <3> QED BY <3>1, <3>2
  <2>4. CASE /\ post[t].pc = "write" /\ r.pc = "broadcast"
             /\ answers' = [answers EXCEPT ![post[t].q][Participant[t]][NormalizeWord(post[t].text)] = @ + 1]
    <3>1. PICK a \in Questions, v \in Words, b \in People :
            a = post[t].q /\ v = NormalizeWord(post[t].text) /\ b = Participant[t]
      BY <2>4, OwnerOf DEF AnswersIInv, PostsOK, GoodPost
    <3>2. answers'[q][p][w] = IF q = a /\ p = b /\ w = v THEN answers[q][p][w] + 1 ELSE answers[q][p][w]
      BY <2>4, <3>1 DEF AnswersTypeOK, Rows
    <3>3. CASE q = a /\ p = b /\ w = v
      <4>1. Repeating(q, p, w)' = Repeating(q, p, w) \ {t} /\ t \in Repeating(q, p, w)
        BY <2>1, <2>4, <3>1, <3>3 DEF Repeating, TabsOf, NormalizeWord
      <4>2. Repeating(q, p, w) \in SUBSET TabsOf(p)
        BY DEF Repeating
      <4>3. /\ Cardinality(Repeating(q, p, w)) \in Nat
            /\ Cardinality(Repeating(q, p, w)') = Cardinality(Repeating(q, p, w)) - 1
        BY <4>1, <4>2, WithoutOne
      <4> QED BY <1>1, <3>2, <3>3, <4>3
    <3>4. CASE ~(q = a /\ p = b /\ w = v)
      <4>1. Repeating(q, p, w)' \subseteq Repeating(q, p, w)
        BY <2>1, <2>4, <3>1, <3>4 DEF Repeating, TabsOf, NormalizeWord
      <4> QED BY <1>1, <1>2, <3>2, <3>4, <4>1
    <3> QED BY <3>3, <3>4
  <2> QED BY <2>1, <2>2, <2>3, <2>4
<1> QED BY <1>3, <1>4, EveryStepMoves

LEMMA LimitsStart == ASSUME AnswersInit PROVE LimitKept /\ RepeatsKept
<1> AnswersTypeOK
  BY AnswersStart DEF AnswersIInv
<1>1. ASSUME NEW q \in Questions, NEW p \in People PROVE CountOf(q, p) = 0
  <2>1. \A w \in Words : answers[q][p][w] = 0
    BY <1>1 DEF AnswersInit, NoRows
  <2>2. CountOf(q, p) = SumOf(answers[q][p], Words)
    BY <1>1, AnswersAreNat, CountIs, RowIsSum
  <2> QED BY <2>1, <2>2, AnswersAssumption, SumZero
<1>2. \A q \in Questions, p \in People : Passed(q, p) = {} /\ \A w \in Words : Repeating(q, p, w) = {}
  BY NoPostFields DEF AnswersInit, Passed, Repeating, TabsOf
<1>3. \A p \in People : Cardinality(TabsOf(p)) >= 1 /\ Cardinality(TabsOf(p)) \in Nat
  BY HasTab, TabSets
<1>4. \A q \in Questions : Limit[q] # Nothing => Limit[q] \in Nat \ {0}
  BY AnswersAssumption
<1>5. LimitKept
  BY <1>1, <1>2, <1>3, <1>4, FS_EmptySet DEF LimitKept
<1>6. \A q \in Questions, p \in People, w \in Words : answers[q][p][w] = 0
  BY DEF AnswersInit, NoRows
<1>7. ASSUME NEW q \in Questions, NEW p \in People, NEW w \in Words
      PROVE  answers[q][p][w] + Cardinality(Repeating(q, p, w)) <= Cardinality(TabsOf(p))
  <2>1. Repeating(q, p, w) = {} /\ Cardinality({}) = 0
    BY <1>2, FS_EmptySet
  <2>2. Cardinality(Repeating(q, p, w)) = 0
    BY <2>1
  <2> QED BY <1>3, <1>6, <2>2
<1> QED BY <1>5, <1>7 DEF RepeatsKept

LEMMA LimitsImply ==
  ASSUME AnswersTypeOK, LimitKept, RepeatsKept PROVE AnswersWithinTabs
<1> SUFFICES ASSUME NEW q \in Questions, NEW p \in People
             PROVE  /\ Limit[q] # Nothing => CountOf(q, p) <= Limit[q] + (Cardinality(TabsOf(p)) - 1)
                    /\ q \notin Duplicates =>
                         \A w \in Words : answers[q][p][w] <= 1 + (Cardinality(TabsOf(p)) - 1)
  BY DEF AnswersWithinTabs
<1>1. Cardinality(TabsOf(p)) \in Nat
  BY TabSets
<1>2. ASSUME Limit[q] # Nothing PROVE CountOf(q, p) <= Limit[q] + (Cardinality(TabsOf(p)) - 1)
  <2>1. CountOf(q, p) \in Nat /\ Limit[q] \in Nat
    <3>1. CountOf(q, p) = SumOf(answers[q][p], Words)
      BY AnswersAreNat, CountIs, RowIsSum
    <3> QED BY <1>2, <3>1, AnswersAreNat, AnswersAssumption, SumNat
  <2>2. Passed(q, p) \in SUBSET TabsOf(p)
    BY DEF Passed
  <2>3. Cardinality(Passed(q, p)) \in Nat
    BY <2>2, TabSets
  <2>4. CountOf(q, p) + Cardinality(Passed(q, p)) + 1 <= Limit[q] + Cardinality(TabsOf(p))
    BY <1>2 DEF LimitKept
  <2> QED BY <1>1, <2>1, <2>3, <2>4
<1>3. ASSUME q \notin Duplicates, NEW w \in Words
      PROVE  answers[q][p][w] <= 1 + (Cardinality(TabsOf(p)) - 1)
  <2>1. Repeating(q, p, w) \in SUBSET TabsOf(p)
    BY DEF Repeating
  <2>2. Cardinality(Repeating(q, p, w)) \in Nat /\ answers[q][p][w] \in Nat
    BY <2>1, TabSets, AnswersAreNat
  <2>3. answers[q][p][w] + Cardinality(Repeating(q, p, w)) <= Cardinality(TabsOf(p))
    BY <1>3 DEF RepeatsKept
  <2> QED BY <1>1, <2>2, <2>3
<1> QED BY <1>2, <1>3

\* For any limits, tabs and participants: createResponse, which counts first and inserts
\* later, lets a participant past its limit, or repeat a word, by no more than its other tabs.
THEOREM AnswersStayWithinTabs == AnswersSpec => []AnswersWithinTabs
<1>1. AnswersInit => LimitKept /\ RepeatsKept
  BY LimitsStart
<1>2. AnswersIInv /\ AnswersIInv' /\ LimitKept /\ RepeatsKept /\ [AnswersNext]_answerVars
        => (LimitKept /\ RepeatsKept)'
  BY LimitKeeps, RepeatsStep
<1>3. AnswersIInv /\ LimitKept /\ RepeatsKept => AnswersWithinTabs
  BY LimitsImply DEF AnswersIInv
<1> QED BY <1>1, <1>2, <1>3, AnswersInvariance, PTL DEF AnswersSpec

-----------------------------------------------------------------------------
(* The current question *)

LEMMA OpenSame ==
  ASSUME UNCHANGED <<question, current>>
  PROVE  (CurrentIsOpen => CurrentIsOpen') /\ LeftOpen' \subseteq LeftOpen
BY DEF CurrentIsOpen, LeftOpen

LEMMA OpenStep ==
  ASSUME AnswersIInv, AnswersNext
  PROVE  \/ \E q \in Questions, s \in Statuses : PatchStatus(q, s)
         \/ /\ CurrentIsOpen => CurrentIsOpen'
            /\ LeftOpen' \subseteq LeftOpen \/ \E o \in Organisers : SetCurrent(o) /\ request[o].previous # current
<1> AnswersTypeOK
  BY DEF AnswersIInv
<1> current \in Questions \cup {Nothing} /\ Nothing \notin Questions
  BY AnswersAssumption DEF AnswersTypeOK
<1>1. CASE Audience
  <2>1. UNCHANGED <<question, current>>
    BY <1>1 DEF Audience, Submit, CheckQuestion, CheckCount, CheckDuplicate, WriteAnswer, PostBroadcast
  <2> QED BY <2>1, OpenSame
<1>2. ASSUME NEW o \in Organisers, NEW q \in Questions, AskCurrent(o, q) \/ AskReveal(o, q) \/ AskEmpty(o, q)
      PROVE  (CurrentIsOpen => CurrentIsOpen') /\ LeftOpen' \subseteq LeftOpen
  <2>1. UNCHANGED <<question, current>>
    BY <1>2 DEF AskCurrent, AskReveal, AskEmpty
  <2> QED BY <2>1, OpenSame
<1>3. ASSUME NEW o \in Organisers, EmitRevealed(o) \/ DeleteAnswers(o) \/ DeleteCloud(o) \/ RequestBroadcast(o)
      PROVE  (CurrentIsOpen => CurrentIsOpen') /\ LeftOpen' \subseteq LeftOpen
  <2>1. UNCHANGED <<question, current>>
    BY <1>3 DEF EmitRevealed, DeleteAnswers, DeleteCloud, RequestBroadcast
  <2> QED BY <2>1, OpenSame
<1>4. ASSUME NEW o \in Organisers, Reveal(o)
      PROVE  (CurrentIsOpen => CurrentIsOpen') /\ LeftOpen' \subseteq LeftOpen
  <2>1. current' = current /\ \A q \in Questions : /\ question'[q].exists = question[q].exists
                                                   /\ question'[q].status = question[q].status
    <3>1. \/ UNCHANGED question
          \/ \E q \in Questions : question' = [question EXCEPT ![q].resultsRevealed = TRUE]
      BY <1>4 DEF Reveal, AnswersIInv, RequestsOK, GoodRequest
    <3>2. current' = current
      BY <1>4 DEF Reveal
    <3> QED BY <3>1, <3>2 DEF AnswersTypeOK, QuestionRow
  <2> QED BY <2>1 DEF CurrentIsOpen, LeftOpen
<1>5. ASSUME NEW q \in Questions, DeleteQuestion(q)
      PROVE  (CurrentIsOpen => CurrentIsOpen') /\ LeftOpen' \subseteq LeftOpen
  <2>1. /\ current' = IF current = q THEN Nothing ELSE current
        /\ \A x \in Questions : /\ question'[x].exists = (x # q /\ question[x].exists)
                                /\ question'[x].status = question[x].status
    BY <1>5 DEF DeleteQuestion, AnswersTypeOK, QuestionRow
  <2> QED BY <2>1 DEF CurrentIsOpen, LeftOpen
<1>6. ASSUME NEW o \in Organisers, SetCurrent(o)
      PROVE  /\ CurrentIsOpen => CurrentIsOpen'
             /\ request[o].previous = current => LeftOpen' \subseteq LeftOpen
  <2>1. PICK q \in Questions, previous \in Questions \cup {Nothing} :
          q = request[o].q /\ previous = request[o].previous
    BY <1>6, RequestFields DEF SetCurrent, AnswersIInv, AnswersTypeOK, RequestsOK, GoodRequest
  <2>2. CASE ~question[q].exists
    <3>1. UNCHANGED <<question, current>>
      BY <1>6, <2>1, <2>2 DEF SetCurrent
    <3> QED BY <3>1, OpenSame
  <2>3. CASE question[q].exists
    <3>1. question' = CloseAndOpen(q, previous) /\ current' = q
      BY <1>6, <2>1, <2>3 DEF SetCurrent
    <3>2. \A x \in Questions : /\ question'[x].exists = question[x].exists
                               /\ question'[x].status = IF x = q THEN "ACTIVE"
                                    ELSE IF x = previous /\ question[x].status = "ACTIVE" THEN "CLOSED"
                                    ELSE question[x].status
      BY <3>1, CloseAndOpenRows
    <3> QED BY <2>1, <2>3, <3>1, <3>2 DEF CurrentIsOpen, LeftOpen
  <2> QED BY <2>2, <2>3
<1> QED BY <1>1, <1>2, <1>3, <1>4, <1>5, <1>6 DEF AnswersNext, Organising

\* For any number of overlapping requests of the organisers: the current question goes on
\* to exist and take answers, and setCurrentQuestion closes the one before, unless it had
\* read another one or the status was set through the API itself.
THEOREM CurrentAlwaysStaysOpen == AnswersSpec => CurrentStaysOpen
<1>1. AnswersIInv /\ [AnswersNext]_answerVars =>
        [ \/ \E q \in Questions, s \in Statuses : PatchStatus(q, s)
          \/ /\ CurrentIsOpen => CurrentIsOpen'
             /\ LeftOpen' \subseteq LeftOpen \/ \E o \in Organisers : SetCurrent(o) /\ request[o].previous # current
        ]_answerVars
  BY OpenStep
<1> QED BY <1>1, AnswersInvariance, PTL DEF AnswersSpec, CurrentStaysOpen

=============================================================================
