------------------------------ MODULE SyncPlan ------------------------------
(***************************************************************************)
(* What is done with a recording, from the list of upcoming meetings to    *)
(* the video: the workflow settings and topic rules of the accounts that   *)
(* share a Zoom account, the account that a webhook belongs to, and the    *)
(* options that a sync and its retries carry while both may be edited.     *)
(***************************************************************************)
EXTENDS Naturals, Sequences, FiniteSets

CONSTANTS
  Hosts,          \* app accounts that are configured with the Zoom account
  Topic,          \* the topic, as the sequence of its normalized words
  Workflows,      \* settings that are saved: [autoUpload, title, playlist, privacy]
  RuleForms,      \* rules that are saved: [matchText, title, playlist, privacy, delay]
  Setups,         \* the settings and rules that the accounts start with: [workflow, rules]
  MIN_SCHEDULE_LEAD, MAX_AUTO_RETRIES,
  MaxClock, MaxFormSaves,
  Unset           \* null: no settings, no field, no time

Privacies == {"public", "unlisted", "private"}

ASSUME SyncPlanAssumption ==
  /\ {MIN_SCHEDULE_LEAD, MAX_AUTO_RETRIES, MaxClock, MaxFormSaves} \subseteq Nat
  /\ MIN_SCHEDULE_LEAD > 0 /\ Unset \notin Nat
  /\ \A w \in Workflows : w.privacy \in Privacies
  /\ \A r \in RuleForms : r.delay \in Nat \cup {Unset} /\ r.privacy \in Privacies \cup {Unset}
  /\ \A s \in Setups : s.workflow \in [Hosts -> Workflows \cup {Unset}] /\ s.rules \in [Hosts -> Seq(RuleForms)]

VARIABLES
  config,     \* config[u]: u's Zoom connection: active, and when it was updated
  workflow,   \* workflow[u]: u's saved settings, or Unset
  rules,      \* rules[u]: the sequence of u's rules, by position
  clock,
  promised,   \* promised[u]: what the upcoming meetings told u, if u edited nothing since
  sync,       \* the recording's sync: its step, its account and the options it carries
  log,        \* the columns of its sync log that a retry reads
  kept,       \* what the account was told, once the recording has arrived
  video,      \* the video
  saves

planVars == <<config, workflow, rules, clock, promised, sync, log, kept, video, saves>>

DefaultWorkflow == [autoUpload |-> FALSE, title |-> "default", playlist |-> Unset, privacy |-> "private"]
Playlists == {f.playlist : f \in Workflows \cup RuleForms} \cup {"q", Unset}
Options == [privacy : Privacies, playlist : Playlists, publishAt : Nat \cup {Unset}]
NoOptions == [privacy |-> "private", playlist |-> Unset, publishAt |-> Unset]
Steps == {"none", "owned", "skipped", "prepared", "uploading", "failed", "given up", "uploaded"}

SyncPlanTypeOK ==
  /\ config \in [Hosts -> [active : BOOLEAN, updated : 0..MaxFormSaves]]
  /\ workflow \in [Hosts -> Workflows \cup {Unset}]
  /\ \A u \in Hosts : rules[u] \in Seq(RuleForms)
  /\ clock \in 0..MaxClock /\ saves \in 0..MaxFormSaves
  /\ sync.step \in Steps /\ sync.options \in Options /\ sync.attempt \in 0..MAX_AUTO_RETRIES
  /\ log \in Options

SyncPlanInit ==
  /\ config = [u \in Hosts |-> [active |-> TRUE, updated |-> 0]]
  /\ \E setup \in Setups : workflow = setup.workflow /\ rules = setup.rules
  /\ clock = 0 /\ saves = 0
  /\ promised = [u \in Hosts |-> Unset] /\ kept = Unset /\ video = Unset
  /\ sync = [step |-> "none", owner |-> Unset, options |-> NoOptions, attempt |-> 0, end |-> 0,
             title |-> Unset, early |-> FALSE]
  /\ log = NoOptions

-----------------------------------------------------------------------------
(* Rules *)

\* Whole words of the topic; an empty text matches nothing.
Matches(rule) ==
  /\ rule.matchText # <<>>
  /\ \E i, j \in 1..Len(Topic) : SubSeq(Topic, i, j) = rule.matchText

\* The position of the first rule that matches, if one does.
FindMatchingRule(u) ==
  {i \in DOMAIN rules[u] : Matches(rules[u][i]) /\ \A j \in 1..(i - 1) : ~Matches(rules[u][j])}

Or(field, default) == IF field # Unset THEN field ELSE default

GetWorkflowSettings(u) == Or(workflow[u], DefaultWorkflow)

\* Settings overridden, field by field, by the first matching rule.
ResolveSyncOptions(u) ==
  LET s == GetWorkflowSettings(u)
      match == FindMatchingRule(u)
      rule == rules[u][CHOOSE i \in match : TRUE]
  IN IF match = {} THEN [autoUpload |-> s.autoUpload, title |-> s.title, playlist |-> s.playlist,
                         privacy |-> s.privacy, delay |-> Unset]
     ELSE [autoUpload |-> s.autoUpload, title |-> Or(rule.title, s.title), playlist |-> Or(rule.playlist, s.playlist),
           privacy |-> Or(rule.privacy, s.privacy), delay |-> rule.delay]

ComputePublishAt(end, delay) == IF delay = Unset THEN Unset ELSE end + delay

\* The privacy that a video is uploaded with, and its publishAt.
ScheduledPrivacy(publishAt, privacy) ==
  IF publishAt = Unset THEN <<privacy, Unset>>
  ELSE IF publishAt < clock + MIN_SCHEDULE_LEAD THEN <<"public", Unset>>
  ELSE <<"private", publishAt>>

\* predictUpcoming: private until the publication, if there is one.
PredictUpcoming(u) ==
  LET o == ResolveSyncOptions(u)
  IN [o EXCEPT !.privacy = IF o.delay # Unset THEN "private" ELSE @]

-----------------------------------------------------------------------------
(* Forms and the list of upcoming meetings *)

\* A save of u's forms: what u was told is void, and the text of a running sync may change.
FormSave(u) ==
  /\ saves < MaxFormSaves /\ saves' = saves + 1
  /\ promised' = [promised EXCEPT ![u] = Unset]
  /\ kept' = IF kept # Unset /\ sync.owner = u THEN [kept EXCEPT !.title = Unset] ELSE kept
  /\ UNCHANGED <<clock, sync, log, video>>

UpdateZoomConnection(u, active) ==
  /\ FormSave(u)
  /\ config' = [config EXCEPT ![u] = [active |-> active, updated |-> saves + 1]]
  /\ UNCHANGED <<workflow, rules>>

UpdateWorkflowSettings(u, w) ==
  /\ FormSave(u)
  /\ workflow' = [workflow EXCEPT ![u] = w]
  /\ UNCHANGED <<config, rules>>

SaveRules(u, rs) == FormSave(u) /\ rules' = [rules EXCEPT ![u] = rs] /\ UNCHANGED <<config, workflow>>

CreateRule(u, r) == Len(rules[u]) < 2 /\ SaveRules(u, Append(rules[u], r))
UpdateRule(u, i, r) == i \in DOMAIN rules[u] /\ SaveRules(u, [rules[u] EXCEPT ![i] = r])
RemoveRule(u, i) ==
  i \in DOMAIN rules[u] /\ SaveRules(u, SubSeq(rules[u], 1, i - 1) \o SubSeq(rules[u], i + 1, Len(rules[u])))

\* ids that list every rule exactly once
ReorderRules(u, order) ==
  /\ {order[k] : k \in DOMAIN rules[u]} = DOMAIN rules[u]
  /\ SaveRules(u, [k \in DOMAIN rules[u] |-> rules[u][order[k]]])

ListUpcomingMeetings(u) ==
  /\ sync.step = "none" /\ config[u].active
  /\ promised' = [promised EXCEPT ![u] = PredictUpcoming(u)]
  /\ UNCHANGED <<config, workflow, rules, clock, sync, log, kept, video, saves>>

-----------------------------------------------------------------------------
(* The webhook *)

Active == {u \in Hosts : config[u].active}
MostRecent(us) == {u \in us : \A v \in us : config[v].updated <= config[u].updated}
Owners == MostRecent({u \in Active : GetWorkflowSettings(u).autoUpload})

\* recording.completed: without an owner it is skipped; system never uploads by itself.
HandleWebhook ==
  /\ sync.step = "none"
  /\ \/ \E u \in Owners : sync' = [sync EXCEPT !.step = "owned", !.owner = u, !.end = clock]
     \/ Owners = {} /\ sync' = [sync EXCEPT !.step = "skipped"]
  /\ UNCHANGED <<config, workflow, rules, clock, promised, log, kept, video, saves>>

\* processRecordingSync up to its upsert, which does not store the playlist.
Prepared(options, attempt) ==
  /\ sync' = [sync EXCEPT !.step = "prepared", !.options = options, !.attempt = attempt]
  /\ log' = [log EXCEPT !.privacy = options.privacy, !.publishAt = options.publishAt]

\* The settings are read again.
HandleRecordingCompleted ==
  LET o == ResolveSyncOptions(sync.owner)
      options == [privacy |-> o.privacy, playlist |-> o.playlist, publishAt |-> ComputePublishAt(sync.end, o.delay)]
  IN /\ sync.step = "owned"
     /\ \/ o.autoUpload /\ Prepared(options, 0) /\ kept' = promised[sync.owner]
        \/ ~o.autoUpload /\ sync' = [sync EXCEPT !.step = "skipped"] /\ UNCHANGED <<log, kept>>
     /\ UNCHANGED <<config, workflow, rules, clock, promised, video, saves>>

\* From the panel: what the user chose, published at once, and nothing that was told.
ManualSync(u, privacy, playlist) ==
  /\ sync.step \in {"skipped", "failed", "given up"} /\ config[u].active /\ sync.owner \in {u, Unset}
  /\ sync' = [sync EXCEPT !.step = "prepared", !.owner = u, !.attempt = 0,
                          !.options = [privacy |-> privacy, playlist |-> playlist, publishAt |-> Unset]]
  /\ log' = [log EXCEPT !.privacy = privacy, !.publishAt = Unset]
  /\ kept' = Unset
  /\ UNCHANGED <<config, workflow, rules, clock, promised, video, saves>>

-----------------------------------------------------------------------------
(* The upload and its retries *)

Fails(early) ==
  sync' = [sync EXCEPT !.step = IF sync.attempt < MAX_AUTO_RETRIES THEN "failed" ELSE "given up",
                       !.early = @ \/ early]

\* Zoom's stream is opened, the text rendered by the rules as they are now, and
\* uploadVideoFromStream notes the playlist.
UploadStarts ==
  /\ sync.step = "prepared"
  /\ sync' = [sync EXCEPT !.step = "uploading", !.title = ResolveSyncOptions(sync.owner).title]
  /\ log' = [log EXCEPT !.playlist = sync.options.playlist]
  /\ UNCHANGED <<config, workflow, rules, clock, promised, kept, video, saves>>

DownloadFails ==
  /\ sync.step = "prepared" /\ Fails(TRUE)
  /\ UNCHANGED <<config, workflow, rules, clock, promised, log, kept, video, saves>>

UploadFails ==
  /\ sync.step = "uploading" /\ Fails(FALSE)
  /\ UNCHANGED <<config, workflow, rules, clock, promised, log, kept, video, saves>>

Uploads ==
  /\ sync.step = "uploading" /\ sync' = [sync EXCEPT !.step = "uploaded"]
  /\ LET schedule == ScheduledPrivacy(sync.options.publishAt, sync.options.privacy)
     IN video' = [privacy |-> schedule[1], publishAt |-> schedule[2], at |-> clock,
                  playlist |-> sync.options.playlist, title |-> sync.title]
  /\ UNCHANGED <<config, workflow, rules, clock, promised, log, kept, saves>>

\* What runDueRetries passes on; the mutant forgets the schedule.
RetryWithoutSchedule == [log EXCEPT !.publishAt = Unset]
RetryOptions == log

RunRetry ==
  /\ sync.step = "failed"
  /\ Prepared(RetryOptions, sync.attempt + 1)
  /\ UNCHANGED <<config, workflow, rules, clock, promised, kept, video, saves>>

\* Zoom does not list the files: handleRetryError.
RetryFails ==
  /\ sync.step = "failed"
  /\ sync' = [sync EXCEPT !.attempt = @ + 1,
                          !.step = IF sync.attempt + 1 < MAX_AUTO_RETRIES THEN "failed" ELSE "given up"]
  /\ UNCHANGED <<config, workflow, rules, clock, promised, log, kept, video, saves>>

PlanTick ==
  /\ clock < MaxClock /\ clock' = clock + 1
  /\ UNCHANGED <<config, workflow, rules, promised, sync, log, kept, video, saves>>

SyncPlanNext ==
  \/ \E u \in Hosts :
       \/ ListUpcomingMeetings(u)
       \/ \E active \in BOOLEAN : UpdateZoomConnection(u, active)
       \/ \E w \in Workflows : UpdateWorkflowSettings(u, w)
       \/ \E r \in RuleForms : CreateRule(u, r) \/ \E i \in 1..2 : UpdateRule(u, i, r)
       \/ \E i \in 1..2 : RemoveRule(u, i)
       \/ Len(rules[u]) = 2 /\ ReorderRules(u, <<2, 1>>)
       \/ \E privacy \in {"private", "public"} : ManualSync(u, privacy, "q")
  \/ HandleWebhook \/ HandleRecordingCompleted
  \/ UploadStarts \/ DownloadFails \/ UploadFails \/ Uploads \/ RunRetry \/ RetryFails \/ PlanTick

-----------------------------------------------------------------------------
\* When the video is seen by everyone, if nobody changes it.
PublicFrom == IF video.privacy = "public" THEN video.at ELSE video.publishAt

\* A video that the webhook uploaded is what the upcoming meetings told its account,
\* however often it was retried and whatever was edited since the recording arrived
\* (the text excepted): the privacy, or public when its publication was told, or when
\* the upload ended if later; and the playlist, unless an attempt failed before YouTube
\* was asked, when the retry has no playlist to pass on.
UploadsAsPromised ==
  video # Unset /\ kept # Unset =>
    /\ kept.autoUpload
    /\ IF kept.delay = Unset THEN video.privacy = kept.privacy
       ELSE PublicFrom # Unset /\ PublicFrom + MIN_SCHEDULE_LEAD > sync.end + kept.delay
            /\ PublicFrom <= IF video.at > sync.end + kept.delay THEN video.at ELSE sync.end + kept.delay
    /\ ~sync.early => video.playlist = kept.playlist
    /\ kept.title # Unset => video.title = kept.title
=============================================================================
