------------------------------ MODULE EditPage ------------------------------
(***************************************************************************)
(* The editor's page: the list of questions it holds, the one selected and *)
(* the panel of settings beside it.  Every handler ends in a write of that *)
(* list: an append, the server's list read again, or the list there was    *)
(* when the handler began.  Handlers overlap: the dialog that confirms a   *)
(* removal can be left while the removal runs, and nothing else waits.     *)
(*                                                                         *)
(* Orders and the autosave's queue are those of Editor; here a question    *)
(* has one value, the number of the edit that made it, and the edits not   *)
(* yet saved are sent one by one.  Nobody else edits the topic.            *)
(***************************************************************************)
EXTENDS Naturals, Sequences, Functions

CONSTANTS
  Questions,       \* ids
  FirstQuestions,  \* those there when the page opens
  NoQuestion,
  MaxTypings, MaxHandlers

ASSUME EditPageAssumption ==
  /\ FirstQuestions \subseteq Questions /\ FirstQuestions # {}
  /\ {MaxTypings, MaxHandlers} \subseteq Nat

VARIABLES
  rows,      \* the rows of the topic
  listed,    \* the page's list: the questions it shows, as it shows them
  selected,  \* selectedQuestionId
  panel,     \* the panel's own state; there is no panel without a selected question
  unsaved,   \* unsaved[q]: edits the autosave has not written yet, oldest first
  handlers,  \* the handlers that run, each with its request
  typings, begun,
  touched,   \* history: the question whose settings were last changed in the panel
  tangled    \* history: something overlapped, failed, or went to rows the page does not reload

editPageVars ==
  <<rows, listed, selected, panel, unsaved, handlers, typings, begun, touched, tangled>>

Typings == 0..MaxTypings
Lists == UNION {[S -> Typings] : S \in SUBSET Questions}
Maybe == Questions \cup {NoQuestion}

Panel == [changed : BOOLEAN,             \* hasChanges
          toAll : BOOLEAN,               \* applyToAll
          targets : SUBSET Questions,    \* targetIds
          applying : 0..MaxHandlers]     \* the application it waits for
Unopened == [changed |-> FALSE, toAll |-> FALSE, targets |-> {}, applying |-> 0]

Handler ==
  [n : 1..MaxHandlers,
   op : {"add", "remove", "reorder", "toAll", "toOthers"},
   of : Maybe,                 \* the question it was called for
   sel : Maybe,                \* a removal's selection when it was
   to : SUBSET Questions,
   was : Lists,                \* a reordering's list when it was
   stage : {"sent", "done", "loaded"},
   got : Lists,                \* the answer
   alone : BOOLEAN]            \* nothing else was under way since it began

EditPageTypeOK ==
  /\ rows \in Lists /\ listed \in Lists
  /\ selected \in Maybe /\ touched \in Maybe
  /\ panel \in Panel
  /\ unsaved \in [Questions -> Seq(Typings)]
  /\ handlers \subseteq Handler
  /\ typings \in Typings /\ begun \in 0..MaxHandlers /\ tangled \in BOOLEAN

EditPageInit ==
  /\ rows = [q \in FirstQuestions |-> 0]
  /\ listed = rows /\ selected = CHOOSE q \in FirstQuestions : TRUE
  /\ panel = Unopened
  /\ unsaved = [q \in Questions |-> <<>>]
  /\ handlers = {} /\ typings = 0 /\ begun = 0
  /\ touched = NoQuestion /\ tangled = FALSE

AllSaved == \A q \in Questions : unsaved[q] = <<>>
With(list, q, v) == [x \in DOMAIN list \cup {q} |-> IF x = q THEN v ELSE list[x]]

\* The mutant has no effect on [question.id].
PanelForKept == panel

\* The panel stays for another question; its effect resets hasChanges and nothing else.
PanelFor == [panel EXCEPT !.changed = FALSE]

\* The page shows list, with q selected.
Shows(list, q) ==
  /\ listed' = list /\ selected' = q
  /\ panel' = CASE q \notin DOMAIN list -> Unopened
                [] q \in DOMAIN list \cap {selected} -> panel
                [] OTHER -> PanelFor

-----------------------------------------------------------------------------
(* The selection and the panel. *)

\* handleSelectQuestion; its flush is a save that may start at any time.
Select(q) ==
  /\ q \in DOMAIN listed \ {selected}
  /\ Shows(listed, q)
  /\ UNCHANGED <<rows, unsaved, handlers, typings, begun, touched, tangled>>

\* Outside a drawer, a closed panel is gone.
ClosePanel ==
  /\ panel' = Unopened
  /\ UNCHANGED <<rows, listed, selected, unsaved, handlers, typings, begun, touched, tangled>>

\* handleFieldChange.
Typed ==
  /\ selected \in DOMAIN listed
  /\ typings < MaxTypings /\ typings' = typings + 1
  /\ listed' = [listed EXCEPT ![selected] = typings']
  /\ unsaved' = [unsaved EXCEPT ![selected] = Append(@, typings')]
  /\ handlers' = {[a EXCEPT !.alone = FALSE] : a \in handlers}
  /\ tangled' = (tangled \/ \E a \in handlers : a.op # "add")
  /\ UNCHANGED <<rows, selected, begun>>

EditPrompt == Typed /\ UNCHANGED <<panel, touched>>

\* change, by a control of the panel, or by a logo's upload that ends: whichever question it
\* was begun for, it changes the one selected now.
Change == Typed /\ touched' = selected /\ panel' = [panel EXCEPT !.changed = TRUE]

ChooseTargets ==
  /\ panel.changed
  /\ begun < MaxHandlers
  /\ \/ \E on \in BOOLEAN : panel' = [panel EXCEPT !.toAll = on, !.targets = IF on THEN {} ELSE @]
     \/ /\ ~panel.toAll
        /\ \E some \in SUBSET (DOMAIN listed \ {selected}) :
             panel' = [panel EXCEPT !.targets = some]
  /\ UNCHANGED <<rows, listed, selected, unsaved, handlers, typings, begun, touched, tangled>>

\* The autosave's next save; of a question that is gone it changes nothing.
SaveNext(q) ==
  /\ unsaved[q] # <<>>
  /\ rows' = IF q \in DOMAIN rows THEN [rows EXCEPT ![q] = Head(unsaved[q])] ELSE rows
  /\ unsaved' = [unsaved EXCEPT ![q] = Tail(@)]
  /\ UNCHANGED <<listed, selected, panel, handlers, typings, begun, touched, tangled>>
SaveLost(q) ==
  /\ unsaved[q] # <<>>
  /\ unsaved' = [unsaved EXCEPT ![q] = Tail(@)] /\ tangled' = TRUE
  /\ UNCHANGED <<rows, listed, selected, panel, handlers, typings, begun, touched>>

-----------------------------------------------------------------------------
(* The handlers, each a request, the server's part of it, and what follows.  *)

Begins(op, of, to) ==
  /\ begun < MaxHandlers /\ begun' = begun + 1
  /\ handlers' = {[a EXCEPT !.alone = FALSE] : a \in handlers} \cup
       {[n |-> begun', op |-> op, of |-> of, to |-> to,
         sel |-> IF op = "remove" THEN selected ELSE NoQuestion,
         was |-> IF op = "reorder" THEN listed ELSE <<>>,
         stage |-> "sent", got |-> <<>>, alone |-> handlers = {} /\ AllSaved]}
  /\ tangled' = (tangled \/ handlers # {} \/ (op # "add" /\ ~AllSaved))
  /\ UNCHANGED <<rows, listed, selected, unsaved, typings, touched>>

AddQuestion == Begins("add", NoQuestion, {}) /\ UNCHANGED panel
Duplicate(q) == q \in DOMAIN listed /\ Begins("add", q, {}) /\ UNCHANGED panel
DeleteQuestion(q) == q \in DOMAIN listed /\ Begins("remove", q, {}) /\ UNCHANGED panel
DragQuestion ==
  /\ \E q \in DOMAIN listed : DOMAIN listed \ {q} # {}
  /\ Begins("reorder", NoQuestion, {}) /\ UNCHANGED panel
ApplyToAll == selected \in DOMAIN listed /\ Begins("toAll", selected, {}) /\ UNCHANGED panel

\* The button of the panel: shown after a change, for some questions, and once.
Apply ==
  /\ panel.changed /\ panel.applying = 0
  /\ panel.toAll \/ panel.targets # {}
  /\ Begins("toOthers", selected, IF panel.toAll THEN Questions \ {selected} ELSE panel.targets)
  /\ panel' = [panel EXCEPT !.applying = begun']

Becomes(a, b) == handlers' = (handlers \ {a}) \cup {b}
Rows(a, list) ==
  /\ Becomes(a, [a EXCEPT !.stage = "done"])
  /\ rows' = list

\* An id that stands for a new one.
Forgotten(q) ==
  /\ q \notin DOMAIN rows \cup DOMAIN listed \cup panel.targets \cup {selected, touched}
  /\ unsaved[q] = <<>>
  /\ \A a \in handlers : q \notin {a.of, a.sel} \cup a.to \cup DOMAIN a.was \cup DOMAIN a.got

\* create copies the settings of the first question, duplicate those of its own.
Added(a) ==
  /\ a.op = "add" /\ (a.of # NoQuestion => a.of \in DOMAIN rows)
  /\ \E q \in {x \in Questions : Forgotten(x)},
        v \in IF a.of # NoQuestion THEN {rows[a.of]}
              ELSE IF DOMAIN rows = {} THEN {0} ELSE Range(rows) :
       /\ rows' = With(rows, q, v)
       /\ Becomes(a, [a EXCEPT !.stage = "done", !.got = [x \in {q} |-> v]])

\* The server's part.  It refuses what is gone, and an order of other questions than it has.
Performed(a) ==
  /\ a.stage = "sent"
  /\ \/ Added(a)
     \/ /\ a.op = "remove" /\ a.of \in DOMAIN rows
        /\ Rows(a, Restrict(rows, DOMAIN rows \ {a.of}))
     \/ /\ a.op = "reorder" /\ DOMAIN a.was = DOMAIN rows
        /\ Becomes(a, [a EXCEPT !.stage = "loaded", !.got = rows]) /\ UNCHANGED rows
     \/ /\ a.op = "toAll" /\ a.of \in DOMAIN rows
        /\ Rows(a, [q \in DOMAIN rows |-> rows[a.of]])
     \/ /\ a.op = "toOthers" /\ a.of \in DOMAIN rows
        /\ Rows(a, [q \in DOMAIN rows |-> IF q \in a.to THEN rows[a.of] ELSE rows[q]])
  /\ tangled' = (tangled \/ a.op = "toOthers")
  /\ UNCHANGED <<listed, selected, panel, unsaved, typings, begun, touched>>

\* loadQuestions, after a removal and after an application to all.
Reload(a) ==
  /\ a.stage = "done" /\ a.op \in {"remove", "toAll"}
  /\ Becomes(a, [a EXCEPT !.stage = "loaded", !.got = rows])
  /\ UNCHANGED <<rows, listed, selected, panel, unsaved, typings, begun, touched, tangled>>

Ends(a) ==
  /\ handlers' = handlers \ {a}
  /\ UNCHANGED <<rows, unsaved, typings, begun, touched>>

\* After the removal of the question that was selected, a neighbour is.
SelectedAfter(a, list) ==
  IF a.op = "remove" /\ a.sel = a.of
  THEN IF DOMAIN list = {} THEN {NoQuestion} ELSE DOMAIN list
  ELSE {selected}

\* The mutant applies to all without loading the questions again.
ReloadedNotShown(a) ==
  /\ a.stage = "loaded" /\ Ends(a)
  /\ IF a.op = "toAll" THEN UNCHANGED <<listed, selected, panel>>
     ELSE \E q \in SelectedAfter(a, a.got) : Shows(a.got, q)
  /\ tangled' = (tangled /\ ~a.alone)

\* The list the server has answered replaces the page's.
Reloaded(a) ==
  /\ a.stage = "loaded" /\ Ends(a)
  /\ \E q \in SelectedAfter(a, a.got) : Shows(a.got, q)
  /\ tangled' = (tangled /\ ~a.alone)

AddArrives(a) ==
  /\ a.stage = "done" /\ a.op = "add" /\ Ends(a)
  /\ \E q \in DOMAIN a.got : Shows(With(listed, q, a.got[q]), q)
  /\ UNCHANGED tangled

\* The panel that applied, if it is still there.
Applied(a, changed) ==
  panel' = IF panel.applying = a.n THEN [panel EXCEPT !.applying = 0, !.changed = changed]
           ELSE panel

AppliedToOthers(a) ==
  /\ a.stage = "done" /\ a.op = "toOthers" /\ Ends(a)
  /\ Applied(a, FALSE)
  /\ UNCHANGED <<listed, selected, tangled>>

\* The request, or its answer, is lost; so the list of a reordering goes back to what it was.
Refused(a) ==
  /\ a.stage # "loaded" \/ a.op = "reorder"
  /\ Ends(a)
  /\ IF a.op = "reorder" THEN Shows(a.was, selected)
     ELSE Applied(a, panel.changed) /\ UNCHANGED <<listed, selected>>
  /\ tangled' = (tangled \/ a.stage # "sent")

\* loadQuestions fails and answers no questions: the list stays, the selection may go.
ReloadFails(a) ==
  /\ a.stage # "sent" /\ a.op \in {"remove", "toAll"} /\ Ends(a)
  /\ Shows(listed, IF a.op = "remove" /\ a.sel = a.of THEN NoQuestion ELSE selected)
  /\ tangled' = TRUE

EditPageNext ==
  \/ ClosePanel \/ EditPrompt \/ Change \/ ChooseTargets
  \/ AddQuestion \/ DragQuestion \/ ApplyToAll \/ Apply
  \/ \E q \in Questions :
       Select(q) \/ SaveNext(q) \/ SaveLost(q) \/ Duplicate(q) \/ DeleteQuestion(q)
  \/ \E a \in handlers :
       \/ Performed(a) \/ Reload(a) \/ Reloaded(a) \/ AddArrives(a) \/ AppliedToOthers(a)
       \/ Refused(a) \/ ReloadFails(a)

-----------------------------------------------------------------------------
\* When nothing is on its way, the page's list is that of the server; and once it is not, be it
\* by an edit during a handler, a failure or settings applied to others, one removal, reordering
\* or application to all that runs alone puts it right.
ListIsStored == handlers = {} /\ AllSaved /\ ~tangled => listed = rows

\* The panel offers to apply settings to others only where those of the question shown were
\* changed since it was selected, however late a logo, an answer or another selection comes.
AppliesAChange == panel.changed => touched = selected
=============================================================================
