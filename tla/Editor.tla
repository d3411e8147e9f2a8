------------------------------- MODULE Editor -------------------------------
(***************************************************************************)
(* The questions of a topic as the organiser edits them: their order on    *)
(* the server (QuestionsService: create, duplicate, remove, reorder, apply *)
(* settings) under the constraint @@unique([topicId, order]), and the      *)
(* editor page's autosave, a debounced queue of saves per question.        *)
(*                                                                         *)
(* A transaction is one step; create reads the next order one await before *)
(* it inserts.  A question's fields are one value: the number of the edit  *)
(* that wrote it.                                                          *)
(***************************************************************************)
EXTENDS Integers, Sequences, FiniteSets, SequencesExt

CONSTANTS
  Cards,      \* ids of questions
  MaxEdits,   \* edits typed, in all
  MaxOps      \* creations, removals, reorderings, applications, failed saves, in all

ASSUME EditorAssumption == {MaxEdits, MaxOps} \subseteq Nat

VARIABLES
  order,     \* order[c]: Question.order, 0 when there is no such question
  value,     \* value[c]: the edit its row has
  creating,  \* what running creates are about to insert: an order, and the settings copied
  typed,     \* typed[c]: the edit the page shows
  pending,   \* pending[c]: the edit whose timer runs, 0 when there is none
  queue,     \* queue[c]: edits sent or waiting behind the one sent
  failed,    \* questions whose last save failed (the page said so)
  applied,   \* questions whose settings another question's have overwritten
  edits, ops

editorVars == <<order, value, creating, typed, pending, queue, failed, applied, edits, ops>>
rowVars == <<order, creating>>
pageVars == <<typed, pending, queue, failed, edits>>

Edits == 0..MaxEdits

EditorTypeOK ==
  /\ order \in [Cards -> Nat]   \* never one of reorder's temporary, negative ones
  /\ value \in [Cards -> Edits]
  /\ creating \subseteq [order : Nat \ {0}, value : Edits]
  /\ typed \in [Cards -> Edits]
  /\ pending \in [Cards -> Edits]
  /\ queue \in [Cards -> Seq(Edits)]
  /\ failed \subseteq Cards /\ applied \subseteq Cards
  /\ edits \in Edits /\ ops \in 0..MaxOps

EditorInit ==
  /\ order = [c \in Cards |-> 0]
  /\ value = [c \in Cards |-> 0]
  /\ creating = {}
  /\ typed = [c \in Cards |-> 0]
  /\ pending = [c \in Cards |-> 0]
  /\ queue = [c \in Cards |-> <<>>]
  /\ failed = {} /\ applied = {}
  /\ edits = 0 /\ ops = 0

Op == ops < MaxOps /\ ops' = ops + 1

Existing == {c \in Cards : order[c] # 0}

-----------------------------------------------------------------------------
(* Updates of order, one statement after the other; one that gives a question the order of
   another violates the constraint, and the transaction fails. *)

Assign(state, step) ==
  [fits  |-> state.fits /\ \A c \in Cards \ {step.card} : state.order[c] # step.order,
   order |-> [state.order EXCEPT ![step.card] = step.order]]

Run(orders, steps) == FoldLeft(Assign, [fits |-> TRUE, order |-> orders], steps)

Numbered(cards, sign) == [i \in 1..Len(cards) |-> [card |-> cards[i], order |-> sign * i]]

\* reorder: negative orders first.  The mutants leave out a half.
ReorderStepsHalf(cards) == Numbered(cards, -1)
ReorderStepsOnce(cards) == Numbered(cards, 1)
ReorderSteps(cards) == Numbered(cards, -1) \o Numbered(cards, 1)

\* remove: what remains is numbered again from 1, in its order.
ByOrder(cards) ==
  CHOOSE s \in SetToSeqs(cards) : \A i, j \in DOMAIN s : i < j => order[s[i]] <= order[s[j]]
Renumbering(c) == Numbered(ByOrder(Existing \ {c}), 1)
Without(c) == [order EXCEPT ![c] = 0]

NextOrder == IF Existing = {} THEN 1 ELSE 1 + order[Last(ByOrder(Existing))]

\* create copies the settings of the first question, duplicate those of the question.
StartCopy(copied) ==
  /\ Op
  /\ creating' = creating \cup {[order |-> NextOrder, value |-> copied]}
  /\ UNCHANGED <<order, value, applied, pageVars>>

StartCreate == StartCopy(IF Existing = {} THEN 0 ELSE value[Head(ByOrder(Existing))])
StartDuplicate(c) == c \in Existing /\ StartCopy(value[c])

\* The insert; it throws when the order was taken meanwhile.  c is an id the page has forgotten.
Create(c, new) ==
  /\ new \in creating /\ c \notin Existing /\ pending[c] = 0 /\ queue[c] = <<>>
  /\ creating' = creating \ {new}
  /\ order' = IF \E other \in Existing : order[other] = new.order THEN order
              ELSE [order EXCEPT ![c] = new.order]
  /\ value' = [value EXCEPT ![c] = new.value]
  /\ typed' = [typed EXCEPT ![c] = new.value]
  /\ failed' = failed \ {c} /\ applied' = applied \ {c}
  /\ UNCHANGED <<pending, queue, edits, ops>>

RemoveQuestion(c) ==
  /\ Op
  /\ c \in Existing
  /\ order' = Run(Without(c), Renumbering(c)).order
  /\ UNCHANGED <<value, creating, applied, pageVars>>

Reorder(cards) ==
  /\ Op
  /\ order' = Run(order, ReorderSteps(cards)).order
  /\ UNCHANGED <<value, creating, applied, pageVars>>

\* applySettingsToAll, applySettingsToOthers: the row's settings, as they are by now.
ApplySettings(c, others) ==
  /\ Op
  /\ c \in Existing
  /\ value' = [x \in Cards |-> IF x \in others THEN value[c] ELSE value[x]]
  /\ applied' = applied \cup others
  /\ UNCHANGED <<rowVars, pageVars>>

-----------------------------------------------------------------------------
(* createAutosaveController *)

\* update, called by handleFieldChange.
Type(c) ==
  /\ c \in Existing
  /\ edits < MaxEdits
  /\ edits' = edits + 1
  /\ typed' = [typed EXCEPT ![c] = edits + 1]
  /\ pending' = [pending EXCEPT ![c] = edits + 1]
  /\ failed' = failed \ {c}
  /\ UNCHANGED <<rowVars, value, applied, queue, ops>>

\* Sends only behind a send that is running.
SendNowQueuedOnly(c) ==
  /\ pending[c] # 0 /\ queue[c] # <<>>
  /\ queue' = [queue EXCEPT ![c] = Append(@, pending[c])]
  /\ pending' = [pending EXCEPT ![c] = 0]
  /\ UNCHANGED <<rowVars, value, applied, typed, failed, edits, ops>>

\* sendNow: the timer fires, or the organiser goes to another question (flush) or page (flushAll).
SendNow(c) ==
  /\ pending[c] # 0
  /\ queue' = [queue EXCEPT ![c] = Append(@, pending[c])]
  /\ pending' = [pending EXCEPT ![c] = 0]
  /\ UNCHANGED <<rowVars, value, applied, typed, failed, edits, ops>>

Saved(c, v) == value' = IF c \in Existing THEN [value EXCEPT ![c] = v] ELSE value

\* Sends that are not chained: the last one sent is the first one there.
SaveEndsUnchained(c) ==
  /\ queue[c] # <<>>
  /\ Saved(c, Last(queue[c]))
  /\ queue' = [queue EXCEPT ![c] = Front(@)]
  /\ UNCHANGED <<rowVars, applied, typed, pending, failed, edits, ops>>

\* The save at the head of the chain ends, and the next one starts.
SaveEnds(c) ==
  /\ queue[c] # <<>>
  /\ Saved(c, Head(queue[c]))
  /\ queue' = [queue EXCEPT ![c] = Tail(@)]
  /\ UNCHANGED <<rowVars, applied, typed, pending, failed, edits, ops>>

\* It fails, written or not: the patch is gone and the page says so.
SaveFails(c) ==
  /\ Op
  /\ queue[c] # <<>>
  /\ \/ UNCHANGED value
     \/ Saved(c, Head(queue[c]))
  /\ queue' = [queue EXCEPT ![c] = Tail(@)]
  /\ failed' = failed \cup {c}
  /\ UNCHANGED <<rowVars, applied, typed, pending, edits>>

EditorNext ==
  \/ StartCreate
  \/ \E c \in Cards, new \in creating : Create(c, new)
  \/ \E c \in Cards : StartDuplicate(c) \/ RemoveQuestion(c) \/ Type(c) \/ SendNow(c) \/ SaveEnds(c) \/ SaveFails(c)
  \/ \E cards \in SetToSeqs(Existing) : Reorder(cards)
  \/ \E c \in Cards, others \in SUBSET Existing : ApplySettings(c, others)

-----------------------------------------------------------------------------
\* Whatever the orders have become, with the gaps that overlapping creates and removals
\* leave, numbering the questions again never meets the unique constraint, statement by
\* statement: neither any reordering of them, nor the removal of any.
RenumberingFits ==
  /\ \A cards \in SetToSeqs(Existing) : Run(order, ReorderSteps(cards)).fits
  /\ \A c \in Existing : Run(Without(c), Renumbering(c)).fits

\* When the page has nothing left to send, the row has the last edit typed, unless its save
\* failed or another question's settings were applied: no earlier save overwrites a later one.
LastEditWins ==
  \A c \in Existing \ (failed \cup applied) : pending[c] = 0 /\ queue[c] = <<>> => value[c] = typed[c]

\* Every edit leaves the page: its timer fires and its turn in the queue comes.
EditsAreSent == \A c \in Cards : (pending[c] # 0) ~> (pending[c] = 0 /\ queue[c] = <<>>)
=============================================================================
