---------------------------- MODULE WorkflowPage ----------------------------
(***************************************************************************)
(* The Automation Workflow on the Zoom page: the settings form, the topic  *)
(* rules with their editor, and the upcoming meetings with what a sync     *)
(* will do with each, worked out by the server from the settings and rules *)
(* it has when it is asked.  Rules are moved, deleted and saved by         *)
(* requests that overlap and are answered in any order; one save of a rule *)
(* and one of the settings run at a time (their buttons show it).          *)
(*                                                                         *)
(* A rule's fields are one value, the rule they were filled in from.  Of a *)
(* list of meetings only the moment counts at which the server reads the   *)
(* settings and rules for it.  One page of the account is open.            *)
(***************************************************************************)
EXTENDS Integers, Sequences, FiniteSets, SequencesExt

CONSTANTS
  MaxRuleOps,  \* requests sent, lists reloaded and requests that fail
  NoRule       \* null: the editor is closed

ASSUME WorkflowPageAssumption == MaxRuleOps \in Nat /\ NoRule \notin Nat

VARIABLES
  storedRules,   \* the ids of the account's rules, by position
  lastRule,      \* the last id given to a rule
  listedRules,   \* the rules the page shows
  rulesAsked,    \* requests of the rules that the server has not read yet,
  rulesSent,     \* and what it answered to others
  editing,       \* the rule in the editor, 0: a new one
  ruleForm,      \* the rule whose fields the editor's form has, 0: a new one
  ruleWrites,    \* the page's requests that change something, in the order they were sent
  outdated,      \* predictionKey has changed and its effect has yet to run
  meetingsAsked, \* requests of the meetings that the server has not read for yet
  missed,        \* the page was told of a change that no list of meetings was read after
  ruleOps

workflowVars == <<storedRules, lastRule, listedRules, rulesAsked, rulesSent, editing, ruleForm, ruleWrites,
                  outdated, meetingsAsked, missed, ruleOps>>
storeVars == <<storedRules, lastRule>>
listVars == <<listedRules, rulesAsked, rulesSent>>
formVars == <<editing, ruleForm>>
meetingVars == <<outdated, meetingsAsked, missed>>

WriteKinds == {"settings", "create", "change", "delete", "move"}

\* fields: of which rule; ids: a move's order; read: a list of meetings was read since it is done.
WorkflowPageTypeOK ==
  /\ lastRule \in Nat /\ rulesAsked \in Nat /\ meetingsAsked \in Nat /\ ruleOps \in 0..MaxRuleOps
  /\ \A rules \in {storedRules, listedRules} \cup rulesSent : rules \in Seq(1..lastRule) /\ IsInjective(rules)
  /\ editing \in 0..lastRule \cup {NoRule} /\ ruleForm \in 0..lastRule
  /\ \A w \in ToSet(ruleWrites) : /\ w.kind \in WriteKinds /\ w.step \in {"sent", "done"}
                                  /\ {w.rule, w.fields} \subseteq 0..lastRule /\ w.read \in BOOLEAN
  /\ {outdated, missed} \subseteq BOOLEAN

\* The page shows both lists.
WorkflowPageInit ==
  /\ storedRules = <<1, 2>> /\ lastRule = 2
  /\ listedRules = storedRules /\ rulesAsked = 0 /\ rulesSent = {}
  /\ editing = NoRule /\ ruleForm = 0 /\ ruleWrites = <<>>
  /\ outdated = FALSE /\ meetingsAsked = 0 /\ missed = FALSE /\ ruleOps = 0

RuleOp == ruleOps < MaxRuleOps /\ ruleOps' = ruleOps + 1

-----------------------------------------------------------------------------
(* Rules and settings *)

\* The editor of a new rule keeps what the form had.
OpenEditorKept(rule) ==
  /\ editing' = rule
  /\ ruleForm' = IF rule = 0 THEN ruleForm ELSE rule
  /\ UNCHANGED <<storeVars, listVars, ruleWrites, meetingVars, ruleOps>>

\* resetFields, and the rule's fields unless it is a new one.
OpenEditor(rule) ==
  /\ editing' = rule /\ ruleForm' = rule
  /\ UNCHANGED <<storeVars, listVars, ruleWrites, meetingVars, ruleOps>>

\* From the table, or from a meeting by way of its rule: only a rule that the list has.
OpenRule(rule) == rule \in ToSet(listedRules) /\ OpenEditor(rule)

CloseEditor ==
  /\ editing # NoRule /\ editing' = NoRule
  /\ UNCHANGED <<storeVars, listVars, ruleForm, ruleWrites, meetingVars, ruleOps>>

SendWrite(kind, rule, ids) ==
  /\ RuleOp
  /\ ruleWrites' = Append(ruleWrites, [kind |-> kind, rule |-> rule, fields |-> ruleForm, ids |-> ids,
                                       step |-> "sent", read |-> FALSE])
  /\ UNCHANGED <<storeVars, listVars, formVars, meetingVars>>

Saving(kinds) == \E w \in ToSet(ruleWrites) : w.kind \in kinds

OnSave ==
  /\ editing # NoRule /\ ~Saving({"create", "change"})
  /\ SendWrite(IF editing = 0 THEN "create" ELSE "change", editing, <<>>)

OnDelete(rule) == rule \in ToSet(listedRules) /\ SendWrite("delete", rule, <<>>)

\* A rule changes places with the one before or after it, in the list shown.
Moved(i, j) == [listedRules EXCEPT ![i] = listedRules[j], ![j] = listedRules[i]]

MoveRule(i, offset) ==
  {i, i + offset} \subseteq DOMAIN listedRules /\ SendWrite("move", listedRules[i], Moved(i, i + offset))

OnUpdateSettings == ~Saving({"settings"}) /\ SendWrite("settings", 0, <<>>)

-----------------------------------------------------------------------------
(* The server *)

\* findOwned, and ids that list every rule exactly once.
Accepts(w) ==
  /\ w.kind \in {"change", "delete"} => w.rule \in ToSet(storedRules)
  /\ w.kind = "move" => ToSet(w.ids) = ToSet(storedRules)

RulesAfter(w) ==
  CASE w.kind = "create" -> Append(storedRules, lastRule + 1)
    [] w.kind = "delete" -> RemoveFirst(storedRules, w.rule)
    [] w.kind = "move" -> w.ids
    [] OTHER -> storedRules

ChangeDone(i) ==
  LET w == ruleWrites[i]
  IN /\ w.step = "sent" /\ Accepts(w)
     /\ storedRules' = RulesAfter(w)
     /\ lastRule' = IF w.kind = "create" THEN lastRule + 1 ELSE lastRule
     /\ ruleWrites' = [ruleWrites EXCEPT ![i].step = "done"]
     /\ UNCHANGED <<listVars, formVars, meetingVars, ruleOps>>

\* An error, or a lost answer to what was done or not: the page only says so.
ChangeEnds(i) ==
  /\ ruleWrites' = RemoveAt(ruleWrites, i)
  /\ UNCHANGED <<storeVars, listVars, formVars, meetingVars>>

ChangeRefused(i) == ruleWrites[i].step = "sent" /\ ~Accepts(ruleWrites[i]) /\ ChangeEnds(i) /\ UNCHANGED ruleOps

ChangeLost(i) == RuleOp /\ ChangeEnds(i)

RulesRead ==
  /\ rulesAsked > 0 /\ rulesAsked' = rulesAsked - 1 /\ rulesSent' = rulesSent \cup {storedRules}
  /\ UNCHANGED <<storeVars, listedRules, formVars, ruleWrites, meetingVars, ruleOps>>

\* predictUpcoming, of the settings and rules as they are.
MeetingsRead ==
  /\ meetingsAsked > 0 /\ meetingsAsked' = meetingsAsked - 1
  /\ missed' = FALSE
  /\ ruleWrites' = [i \in DOMAIN ruleWrites |-> [ruleWrites[i] EXCEPT !.read = ruleWrites[i].step = "done"]]
  /\ UNCHANGED <<storeVars, listVars, formVars, outdated, ruleOps>>

-----------------------------------------------------------------------------
(* Answers *)

\* fetchRules: the list that comes last is shown.
RulesArrive(rules) ==
  /\ rules \in rulesSent
  /\ listedRules' = rules /\ rulesSent' = rulesSent \ {rules}
  /\ UNCHANGED <<storeVars, rulesAsked, formVars, ruleWrites, meetingVars, ruleOps>>

RulesFail(rules) ==
  /\ RuleOp
  /\ rules \in rulesSent /\ rulesSent' = rulesSent \ {rules}
  /\ UNCHANGED <<storeVars, listedRules, rulesAsked, formVars, ruleWrites, meetingVars>>

\* A move's answer only shows its list.
RefreshedButByMoves(w) == IF w.kind = "move" THEN outdated ELSE TRUE

\* refreshPredictions, whatever changed.
Refreshed(w) == w.kind \in WriteKinds

ChangeAnswered(i) ==
  LET w == ruleWrites[i]
      saved == w.kind \in {"create", "change"}
  IN /\ w.step = "done"
     /\ ruleWrites' = RemoveAt(ruleWrites, i)
     /\ missed' = (missed \/ ~w.read)
     /\ outdated' = Refreshed(w)
     /\ editing' = IF saved THEN NoRule ELSE editing
     /\ rulesAsked' = IF saved \/ w.kind = "delete" THEN rulesAsked + 1 ELSE rulesAsked
     /\ listedRules' = IF w.kind = "move" THEN w.ids ELSE listedRules
     /\ UNCHANGED <<storeVars, rulesSent, ruleForm, meetingsAsked, ruleOps>>

-----------------------------------------------------------------------------
(* Upcoming meetings *)

\* The effect of refreshKey: several changes of it between two renders are one.
PredictionEffect ==
  /\ outdated /\ outdated' = FALSE /\ meetingsAsked' = meetingsAsked + 1
  /\ UNCHANGED <<storeVars, listVars, formVars, ruleWrites, missed, ruleOps>>

\* The button, which only shows that a list loads while one does.
ReloadMeetings ==
  /\ RuleOp
  /\ meetingsAsked = 0 /\ meetingsAsked' = 1
  /\ UNCHANGED <<storeVars, listVars, formVars, ruleWrites, outdated, missed>>

\* Its list never comes: the card says so.
MeetingsFail ==
  /\ RuleOp
  /\ meetingsAsked > 0 /\ meetingsAsked' = meetingsAsked - 1 /\ missed' = FALSE
  /\ UNCHANGED <<storeVars, listVars, formVars, ruleWrites, outdated>>

WorkflowPageNext ==
  \/ OpenEditor(0) \/ CloseEditor \/ OnSave \/ OnUpdateSettings
  \/ \E rule \in ToSet(listedRules) : OpenRule(rule) \/ OnDelete(rule)
  \/ \E i \in DOMAIN listedRules, offset \in {-1, 1} : MoveRule(i, offset)
  \/ \E i \in DOMAIN ruleWrites : ChangeDone(i) \/ ChangeRefused(i) \/ ChangeLost(i) \/ ChangeAnswered(i)
  \/ RulesRead \/ \E rules \in rulesSent : RulesArrive(rules) \/ RulesFail(rules)
  \/ PredictionEffect \/ ReloadMeetings \/ MeetingsRead \/ MeetingsFail

-----------------------------------------------------------------------------
\* A rule is saved with the fields of its own form, not with those of one opened before it,
\* and after every change that the page was told of it asks for the meetings again, or says
\* that it could not: their predictions do not keep what the settings and rules were.
PredictsWhatIsSaved ==
  /\ \A w \in ToSet(ruleWrites) : w.kind \in {"create", "change"} => w.fields = w.rule
  /\ missed => outdated \/ meetingsAsked > 0
=============================================================================
