------------------------------ MODULE ZoomSync ------------------------------
(***************************************************************************)
(* The sync log of N3 Connect (table ZoomSyncLog): one row per Zoom        *)
(* recording, written by every process that moves the recording to         *)
(* YouTube.                                                                *)
(*                                                                         *)
(* Everything runs in one Node process: a "process" below is one chain of  *)
(* awaits (a manual sync, a webhook sync, an automatic retry, a status     *)
(* check), an action is what such a chain does between two awaits, and any *)
(* number of chains interleave.  Nothing stops two chains from working on  *)
(* the same recording: the code has no lock, only conditional updates.     *)
(*                                                                         *)
(* Abstracted: titles, descriptions, AI enrichment, privacy, playlists and *)
(* upload progress (they never decide a transition), the failure and       *)
(* attempt counters (written, never read here), and time: a scheduled      *)
(* retry may become due at any moment after it was scheduled.  One app     *)
(* account is modelled; its quota is a nondeterministic answer.            *)
(***************************************************************************)
EXTENDS Naturals

CONSTANTS
  Recordings,      \* Zoom recordings (recordingId)
  Videos,          \* ids YouTube may hand out
  Procs,           \* slots for chains of awaits that may run at once
  NoRecording,     \* the rec of an idle slot
  NoVideo,         \* youtubeVideoId IS NULL
  MaxAutoRetries,  \* MAX_AUTO_RETRIES
  Restarts,        \* BOOLEAN: may the backend restart?
  Disconnects      \* BOOLEAN: may the YouTube connection be turned off?

ASSUME ConstantsAssumption ==
  /\ NoRecording \notin Recordings
  /\ NoVideo \notin Videos
  /\ MaxAutoRetries \in Nat
  /\ Restarts \in BOOLEAN
  /\ Disconnects \in BOOLEAN

VARIABLES
  row,         \* row[r]: the ZoomSyncLog row of recording r
  fresh,       \* fresh[r]: the retries claimed after row r's syncStartedAt
  proc,        \* proc[p]: the chain of awaits running in slot p
  links,       \* link requests <<r, v>> past their checks, before their write
  yt,          \* yt[v]: what YouTube says of video v
  configured,  \* is there an active YouTube connection with a refresh token?
  news         \* history: what the account is still owed about recording r

vars == <<row, fresh, proc, links, yt, configured, news>>

-----------------------------------------------------------------------------
(* Values.                                                                 *)

\* NONE: there is no row.
Status == {"NONE", "SKIPPED", "UPLOADING", "PROCESSING", "COMPLETED", "FAILED"}

Row == [status : Status,
        video  : Videos \cup {NoVideo},
        linked : BOOLEAN,               \* source = "linked"
        count  : Nat,                   \* autoRetryCount
        retry  : BOOLEAN]               \* nextRetryAt is set

NoRow == [status |-> "NONE", video |-> NoVideo, linked |-> FALSE,
          count |-> 0, retry |-> FALSE]

PC == {"idle", "claimed", "fetch", "retryError", "download", "caught", "mark",
       "upload", "uploaded", "uploadFailed", "handle", "schedule", "notify",
       "checking", "answered", "announce"}

\* "sync": asked for by hand or by a webhook of an account.
Kind == {"none", "sync", "system", "retry", "check"}

Answer == {"none", "processing", "processed", "failed", "aborted", "deleted"}

Proc == [pc        : PC,
         kind      : Kind,
         rec       : Recordings \cup {NoRecording},
         attempt   : Nat,                      \* autoRetryAttempt
         video     : Videos \cup {NoVideo},    \* uploaded or asked about
         transient : BOOLEAN,                  \* isTransientSyncError(error)
         seen      : Answer]                   \* YouTube's answer, as read

Idle == [pc |-> "idle", kind |-> "none", rec |-> NoRecording, attempt |-> 0,
         video |-> NoVideo, transient |-> FALSE, seen |-> "none"]

\* A chain of awaits at pc, with no local values.
Chain(pc, kind, r) == [Idle EXCEPT !.pc = pc, !.kind = kind, !.rec = r]

\* "dropped": the process that owed the account an answer is gone.
News == {"none", "failed", "ready", "dropped"}

Exists(r) == row[r].status # "NONE"

TypeOK ==
  /\ row \in [Recordings -> Row]
  /\ fresh \in [Recordings -> SUBSET Procs]
  /\ proc \in [Procs -> Proc]
  /\ links \in SUBSET (Recordings \X Videos)
  /\ yt \in [Videos -> Answer]
  /\ configured \in BOOLEAN
  /\ news \in [Recordings -> News]

Init ==
  /\ row = [r \in Recordings |-> NoRow]
  /\ fresh = [r \in Recordings |-> {}]
  /\ proc = [p \in Procs |-> Idle]
  /\ links = {}
  /\ yt = [v \in Videos |-> "none"]
  /\ configured = TRUE
  /\ news = [r \in Recordings |-> "none"]

-----------------------------------------------------------------------------
(* Steps shared by the processes.                                          *)

At(p, pc) == proc[p].pc = pc

\* Slot p runs a retry of r that has not touched the row since its claim.
Retrying(p, r) ==
  /\ proc[p].rec = r
  /\ proc[p].kind = "retry"
  /\ proc[p].pc \in {"claimed", "fetch", "retryError"}

\* Go on to pc, dropping the local values no later step reads.
Goto(p, pc) ==
  proc' = [proc EXCEPT ![p] = Chain(pc, proc[p].kind, proc[p].rec)]

Stop(p) == proc' = [proc EXCEPT ![p] = Idle]

Start(p, kind, r, pc) ==
  /\ proc[p] = Idle
  /\ proc' = [proc EXCEPT ![p] = Chain(pc, kind, r)]

\* A caught error, transient or not.
Fail(p, pc) ==
  \E t \in BOOLEAN :
    proc' = [proc EXCEPT ![p] =
               [Chain(pc, proc[p].kind, proc[p].rec) EXCEPT !.transient = t]]

\* A write of syncStatus; a write to a missing row throws and changes nothing.
\* n is what the writer then owes the account.
SetStatus(r, s, n) ==
  IF Exists(r)
  THEN /\ row' = [row EXCEPT ![r].status = s]
       /\ news' = [news EXCEPT ![r] = n]
  ELSE UNCHANGED <<row, news>>

Settle(r, n) == news' = [news EXCEPT ![r] = IF @ = n THEN "none" ELSE @]

-----------------------------------------------------------------------------
(* Starting a sync.                                                        *)

\* POST /zoom/sync: no look at a sync that is already running.
StartManual(p, r) ==
  /\ Start(p, "sync", r, "fetch")
  /\ UNCHANGED <<row, fresh, links, yt, configured, news>>

\* createWebhookReceivedLog: a SKIPPED row unless one exists.
ReceiveWebhook(r) ==
  row' = [row EXCEPT ![r] = IF @.status = "NONE"
                            THEN [NoRow EXCEPT !.status = "SKIPPED"] ELSE @]

\* recording.completed for an account whose auto-upload is on.
StartWebhook(p, r) ==
  /\ ReceiveWebhook(r)
  /\ Start(p, "sync", r, "fetch")
  /\ UNCHANGED <<fresh, links, yt, configured, news>>

\* recording.completed while auto-upload is off: the row is all that remains.
WebhookSkipped(r) ==
  /\ ~Exists(r)
  /\ ReceiveWebhook(r)
  /\ UNCHANGED <<fresh, proc, links, yt, configured, news>>

\* recording.completed that no app account answers for: a sync as "system".
StartSystem(p, r) ==
  /\ Start(p, "system", r, "fetch")
  /\ UNCHANGED <<row, fresh, links, yt, configured, news>>

\* autoRetryCount + 1.  Overlapping syncs can push the counter past the maximum
\* without end, but nothing reads it except to compare it with the maximum, so
\* all values past it are one.
Bump(n) == IF n > MaxAutoRetries THEN n ELSE n + 1

\* Mutant: the claim leaves nextRetryAt in place.
ClaimKeepsSchedule(p, r) ==
  /\ row[r].status = "FAILED"
  /\ row[r].retry
  /\ proc[p] = Idle
  /\ proc' = [proc EXCEPT ![p] = [Chain("claimed", "retry", r) EXCEPT
                                    !.attempt = Bump(row[r].count)]]
  /\ row' = [row EXCEPT ![r].count = Bump(@)]
  /\ fresh' = [fresh EXCEPT ![r] = @ \cup {p}]
  /\ news' = [news EXCEPT ![r] = "failed"]
  /\ UNCHANGED <<links, yt, configured>>

\* runDueRetries: the conditional update on the nextRetryAt it read.
Claim(p, r) ==
  /\ row[r].status = "FAILED"
  /\ row[r].retry
  /\ proc[p] = Idle
  /\ proc' = [proc EXCEPT ![p] = [Chain("claimed", "retry", r) EXCEPT
                                    !.attempt = Bump(row[r].count)]]
  /\ row' = [row EXCEPT ![r].retry = FALSE, ![r].count = Bump(@)]
  /\ fresh' = [fresh EXCEPT ![r] = @ \cup {p}]
  /\ news' = [news EXCEPT ![r] = "failed"]
  /\ UNCHANGED <<links, yt, configured>>

\* Mutant: a retry without quota is given up and nobody is told.
CheckQuotaSilent(p) ==
  /\ At(p, "claimed")
  /\ proc' = [proc EXCEPT ![p].pc = "fetch"] \/ Stop(p)
  /\ UNCHANGED <<row, fresh, links, yt, configured, news>>

\* hasQuotaForUpload: without quota the claimed retry is given up for good.
CheckQuota(p) ==
  /\ At(p, "claimed")
  /\ \/ /\ proc' = [proc EXCEPT ![p].pc = "fetch"]
        /\ UNCHANGED fresh
     \/ /\ Goto(p, "notify")
        /\ fresh' = [fresh EXCEPT ![proc[p].rec] = @ \ {p}]
  /\ UNCHANGED <<row, links, yt, configured, news>>

-----------------------------------------------------------------------------
(* A sync, from Zoom's file list to the answer of videos.insert.           *)

\* syncRecording cannot list the files, or there is no MP4 among them: nothing
\* was written yet, and only a retry's caller does more than log.
FetchFails(p) ==
  /\ At(p, "fetch")
  /\ IF proc[p].kind = "retry" THEN Fail(p, "retryError") ELSE Stop(p)
  /\ UNCHANGED <<row, fresh, links, yt, configured, news>>

\* Mutant: the comparison of syncStartedAt with claimedAt is the wrong way round.
RetryErrorInverted(p) ==
  LET r == proc[p].rec IN
  /\ At(p, "retryError")
  /\ IF Exists(r) /\ p \notin fresh[r]
     THEN proc' = [proc EXCEPT ![p].pc = "handle"]
     ELSE Stop(p)
  /\ fresh' = [fresh EXCEPT ![r] = @ \ {p}]
  /\ UNCHANGED <<row, links, yt, configured, news>>

\* handleRetryError: nothing to do if a sync of the recording started meanwhile.
RetryError(p) ==
  LET r == proc[p].rec IN
  /\ At(p, "retryError")
  /\ IF Exists(r) /\ p \in fresh[r]
     THEN proc' = [proc EXCEPT ![p].pc = "handle"]
     ELSE Stop(p)
  /\ fresh' = [fresh EXCEPT ![r] = @ \ {p}]
  /\ UNCHANGED <<row, links, yt, configured, news>>

\* The row of a sync attempt: youtubeVideoId and source keep their old values.
Upserted(r, attempt) ==
  IF Exists(r)
  THEN [row[r] EXCEPT !.status = "UPLOADING", !.count = attempt, !.retry = FALSE]
  ELSE [NoRow EXCEPT !.status = "UPLOADING"]

\* processRecordingSync: reset or create the row (not for "system").
BeginSync(p) ==
  LET r == proc[p].rec IN
  /\ At(p, "fetch")
  /\ proc' = [proc EXCEPT ![p] =
                Chain("download", IF proc[p].kind = "retry" THEN "sync" ELSE proc[p].kind, r)]
  /\ IF proc[p].kind = "system"
     THEN UNCHANGED <<row, fresh, news>>
     ELSE /\ row' = [row EXCEPT ![r] = Upserted(r, proc[p].attempt)]
          /\ fresh' = [fresh EXCEPT ![r] = {}]
          /\ news' = [news EXCEPT ![r] = "none"]
  /\ UNCHANGED <<links, yt, configured>>

\* uploadToYoutubeDirectly throws before uploadVideoFromStream.
DownloadFails(p) ==
  /\ At(p, "download")
  /\ IF proc[p].kind = "system" THEN Stop(p) ELSE Fail(p, "caught")
  /\ UNCHANGED <<row, fresh, links, yt, configured, news>>

\* The catch of processRecordingSync reads the row before it decides to write.
Caught(p) ==
  /\ At(p, "caught")
  /\ IF row[proc[p].rec].status \in {"NONE", "FAILED"}
     THEN Stop(p)
     ELSE proc' = [proc EXCEPT ![p].pc = "mark"]
  /\ UNCHANGED <<row, fresh, links, yt, configured, news>>

MarkFailed(p) ==
  LET r == proc[p].rec IN
  /\ At(p, "mark")
  /\ IF Exists(r) THEN proc' = [proc EXCEPT ![p].pc = "handle"] ELSE Stop(p)
  /\ SetStatus(r, "FAILED", "failed")
  /\ UNCHANGED <<fresh, links, yt, configured>>

\* uploadVideoFromStream's first write.
StartUpload(p) ==
  LET r == proc[p].rec IN
  /\ At(p, "download")
  /\ Goto(p, "upload")
  /\ SetStatus(r, "UPLOADING", "none")
  /\ fresh' = [fresh EXCEPT ![r] = IF Exists(r) THEN {} ELSE @]
  /\ UNCHANGED <<links, yt, configured>>

\* No active YouTube connection ("system" never has one): return null, and the
\* row stays UPLOADING.
SkipUpload(p) ==
  LET r == proc[p].rec IN
  /\ At(p, "upload")
  /\ proc[p].kind = "system" \/ ~configured
  /\ Stop(p)
  /\ news' = [news EXCEPT ![r] = IF row[r].status = "UPLOADING" THEN "dropped" ELSE @]
  /\ UNCHANGED <<row, fresh, links, yt, configured>>

CanInsert(p) ==
  /\ At(p, "upload")
  /\ proc[p].kind # "system"
  /\ configured

\* videos.insert succeeds: the video exists on YouTube before the row says so.
InsertVideo(p, v) ==
  /\ CanInsert(p)
  /\ yt[v] = "none"
  /\ yt' = [yt EXCEPT ![v] = "processing"]
  /\ proc' = [proc EXCEPT ![p].pc = "uploaded", ![p].video = v]
  /\ UNCHANGED <<row, fresh, links, configured, news>>

RecordVideo(p) ==
  LET r == proc[p].rec IN
  /\ At(p, "uploaded")
  /\ Stop(p)
  /\ IF Exists(r)
     THEN /\ row' = [row EXCEPT ![r].status = "PROCESSING", ![r].video = proc[p].video]
          /\ news' = [news EXCEPT ![r] = "none"]
     ELSE UNCHANGED <<row, news>>
  /\ UNCHANGED <<fresh, links, yt, configured>>

\* Mutant: uploadVideoFromStream lets the error out without recording it.
InsertFailsUncaught(p) ==
  /\ CanInsert(p)
  /\ Stop(p)
  /\ UNCHANGED <<row, fresh, links, yt, configured, news>>

InsertFails(p) ==
  /\ CanInsert(p)
  /\ Fail(p, "uploadFailed")
  /\ UNCHANGED <<row, fresh, links, yt, configured, news>>

\* Mutant: handleSyncFailure is called, but the row was never marked FAILED.
MarkUploadFailedForgets(p) ==
  /\ At(p, "uploadFailed")
  /\ proc' = [proc EXCEPT ![p].pc = "handle"]
  /\ UNCHANGED <<row, fresh, links, yt, configured, news>>

MarkUploadFailed(p) ==
  /\ At(p, "uploadFailed")
  /\ proc' = [proc EXCEPT ![p].pc = "handle"]
  /\ SetStatus(proc[p].rec, "FAILED", "failed")
  /\ UNCHANGED <<fresh, links, yt, configured>>

-----------------------------------------------------------------------------
(* handleSyncFailure: two writes, the retry budget read at the first.      *)

\* Mutant: out of retries, nobody is told.
HandleFailureSilent(p) ==
  LET r == proc[p].rec IN
  /\ At(p, "handle")
  /\ IF ~Exists(r) THEN Stop(p)
     ELSE IF ~proc[p].transient THEN Goto(p, "notify")
     ELSE IF row[r].count < MaxAutoRetries THEN Goto(p, "schedule")
     ELSE Stop(p)
  /\ UNCHANGED <<row, fresh, links, yt, configured, news>>

HandleFailure(p) ==
  LET r == proc[p].rec IN
  /\ At(p, "handle")
  /\ IF ~Exists(r) THEN Stop(p)
     ELSE IF proc[p].transient /\ row[r].count < MaxAutoRetries THEN Goto(p, "schedule")
     ELSE Goto(p, "notify")
  /\ UNCHANGED <<row, fresh, links, yt, configured, news>>

ScheduleRetry(p) ==
  LET r == proc[p].rec IN
  /\ At(p, "schedule")
  /\ Stop(p)
  /\ row' = [row EXCEPT ![r].retry = Exists(r)]
  /\ Settle(r, "failed")
  /\ UNCHANGED <<fresh, links, yt, configured>>

NotifyFailed(p) ==
  /\ At(p, "notify")
  /\ Stop(p)
  /\ Settle(proc[p].rec, "failed")
  /\ UNCHANGED <<row, fresh, links, yt, configured>>

-----------------------------------------------------------------------------
(* checkVideoProcessingStatus: called by the scheduler for PROCESSING rows *)
(* and by the page's poll (refreshRecordingStatus) for any row with a      *)
(* video.  The id is read first, YouTube answers later, and the answer is  *)
(* applied later still.                                                    *)

StartCheck(p, r) ==
  /\ row[r].video # NoVideo
  /\ proc[p] = Idle
  /\ proc' = [proc EXCEPT ![p] = [Chain("checking", "check", r) EXCEPT
                                    !.video = row[r].video]]
  /\ UNCHANGED <<row, fresh, links, yt, configured, news>>

\* FAILED, but handleSyncFailure is not called.
CheckUnconfigured(p) ==
  /\ At(p, "checking")
  /\ ~configured
  /\ Stop(p)
  /\ SetStatus(proc[p].rec, "FAILED", "dropped")
  /\ UNCHANGED <<fresh, links, yt, configured>>

\* videos.list answers, or fails and changes nothing.
AskYoutube(p) ==
  /\ At(p, "checking")
  /\ configured
  /\ \/ proc' = [proc EXCEPT ![p].pc = "answered", ![p].seen = yt[proc[p].video]]
     \/ Stop(p)
  /\ UNCHANGED <<row, fresh, links, yt, configured, news>>

\* Mutant: YouTube's own status word is written to syncStatus.
ApplyProcessingRaw(p) ==
  /\ At(p, "answered")
  /\ proc[p].seen = "processing"
  /\ Stop(p)
  /\ SetStatus(proc[p].rec, proc[p].seen, "none")
  /\ UNCHANGED <<fresh, links, yt, configured>>

\* Still processing: an unconditional write.
ApplyProcessing(p) ==
  /\ At(p, "answered")
  /\ proc[p].seen = "processing"
  /\ Stop(p)
  /\ SetStatus(proc[p].rec, "PROCESSING", "none")
  /\ UNCHANGED <<fresh, links, yt, configured>>

\* updateMany where syncStatus is not the new one; count > 0 decides who tells.
Moves(p, s) == row[proc[p].rec].status \notin {"NONE", s}

\* Mutant: the check that moves the row leaves the telling to others.
ApplyProcessedSilent(p) ==
  /\ At(p, "answered")
  /\ proc[p].seen = "processed"
  /\ Stop(p)
  /\ IF Moves(p, "COMPLETED")
     THEN SetStatus(proc[p].rec, "COMPLETED", "ready")
     ELSE UNCHANGED <<row, news>>
  /\ UNCHANGED <<fresh, links, yt, configured>>

\* Mutant: the update is unconditional.
ApplyProcessedAgain(p) ==
  /\ At(p, "answered")
  /\ proc[p].seen = "processed"
  /\ proc' = [proc EXCEPT ![p].pc = "announce", ![p].seen = "none"]
  /\ SetStatus(proc[p].rec, "COMPLETED", "ready")
  /\ UNCHANGED <<fresh, links, yt, configured>>

ApplyProcessed(p) ==
  /\ At(p, "answered")
  /\ proc[p].seen = "processed"
  /\ IF Moves(p, "COMPLETED")
     THEN /\ proc' = [proc EXCEPT ![p].pc = "announce", ![p].seen = "none"]
          /\ SetStatus(proc[p].rec, "COMPLETED", "ready")
     ELSE Stop(p) /\ UNCHANGED <<row, news>>
  /\ UNCHANGED <<fresh, links, yt, configured>>

\* failed / rejected / terminated; "uploadAborted" is the transient reason.
ApplyFailed(p) ==
  /\ At(p, "answered")
  /\ proc[p].seen \in {"failed", "aborted"}
  /\ IF Moves(p, "FAILED")
     THEN /\ proc' = [proc EXCEPT ![p] = [Chain("handle", "check", proc[p].rec) EXCEPT
                                            !.transient = (proc[p].seen = "aborted")]]
          /\ SetStatus(proc[p].rec, "FAILED", "failed")
     ELSE Stop(p) /\ UNCHANGED <<row, news>>
  /\ UNCHANGED <<fresh, links, yt, configured>>

\* markVideoDeleted.
ApplyDeleted(p) ==
  LET r == proc[p].rec IN
  /\ At(p, "answered")
  /\ proc[p].seen = "deleted"
  /\ IF Moves(p, "FAILED")
     THEN /\ Goto(p, "handle")
          /\ row' = [row EXCEPT ![r].status = "FAILED", ![r].retry = FALSE]
          /\ news' = [news EXCEPT ![r] = "failed"]
     ELSE Stop(p) /\ UNCHANGED <<row, news>>
  /\ UNCHANGED <<fresh, links, yt, configured>>

\* notifySyncCompleted (skipped if the row is gone), then the listeners.
Announce(p) ==
  /\ At(p, "announce")
  /\ Stop(p)
  /\ Settle(proc[p].rec, "ready")
  /\ UNCHANGED <<row, fresh, links, yt, configured>>

-----------------------------------------------------------------------------
(* Linking a recording to a video already on the channel.                  *)

Active == {"UPLOADING", "PROCESSING", "COMPLETED"}

\* link, up to its last check.
RequestLink(r, v) ==
  /\ row[r].status \notin Active
  /\ yt[v] # "none"
  /\ \A s \in Recordings \ {r} : row[s].video # v
  /\ links' = links \cup {<<r, v>>}
  /\ UNCHANGED <<row, fresh, proc, yt, configured, news>>

\* link's upsert; only the row it creates gets a syncStartedAt.
WriteLink(r, v) ==
  /\ <<r, v>> \in links
  /\ links' = links \ {<<r, v>>}
  /\ row' = [row EXCEPT ![r] = [status |-> "COMPLETED", video |-> v, linked |-> TRUE,
                                count |-> 0, retry |-> FALSE]]
  /\ fresh' = [fresh EXCEPT ![r] = IF Exists(r) THEN @ ELSE {}]
  /\ news' = [news EXCEPT ![r] = "none"]
  /\ UNCHANGED <<proc, yt, configured>>

\* unlink: source never goes back to "upload", so read and delete are one step.
\* A row created later has no syncStartedAt, so every retry counts as fresh.
Unlink(r) ==
  /\ row[r].linked
  /\ row' = [row EXCEPT ![r] = NoRow]
  /\ fresh' = [fresh EXCEPT ![r] = {p \in Procs : Retrying(p, r)}]
  /\ news' = [news EXCEPT ![r] = "none"]
  /\ UNCHANGED <<proc, links, yt, configured>>

-----------------------------------------------------------------------------
(* The environment: YouTube, the user's channel, the connection, the host. *)

\* The life of a video on YouTube; the user may also upload one by hand.
VideoNext == [none       |-> {"processed"},
              processing |-> {"processed", "failed", "aborted", "deleted"},
              processed  |-> {"deleted"},
              failed     |-> {"deleted"},
              aborted    |-> {"deleted"},
              deleted    |-> {}]

VideoChanges(v) ==
  /\ \E s \in VideoNext[yt[v]] : yt' = [yt EXCEPT ![v] = s]
  /\ UNCHANGED <<row, fresh, proc, links, configured, news>>

\* The connection is disabled or loses its token, or is connected again.
Reconnect ==
  /\ Disconnects
  /\ configured' = ~configured
  /\ UNCHANGED <<row, fresh, proc, links, yt, news>>

\* Every chain of awaits is gone; only the database is left.
Restart ==
  /\ Restarts
  /\ \E p \in Procs : proc[p] # Idle
  /\ proc' = [p \in Procs |-> Idle]
  /\ links' = {}
  /\ news' = [r \in Recordings |->
                IF news[r] \in {"failed", "ready"} \/ row[r].status = "UPLOADING"
                THEN "dropped" ELSE news[r]]
  /\ fresh' = [r \in Recordings |-> {}]
  /\ UNCHANGED <<row, yt, configured>>

-----------------------------------------------------------------------------
SyncStep(p) ==
  \/ CheckQuota(p) \/ FetchFails(p) \/ RetryError(p) \/ BeginSync(p)
  \/ DownloadFails(p) \/ Caught(p) \/ MarkFailed(p)
  \/ StartUpload(p) \/ SkipUpload(p) \/ InsertFails(p) \/ MarkUploadFailed(p)
  \/ \E v \in Videos : InsertVideo(p, v)
  \/ RecordVideo(p)

FailureStep(p) == HandleFailure(p) \/ ScheduleRetry(p) \/ NotifyFailed(p)

CheckStep(p) ==
  \/ CheckUnconfigured(p) \/ AskYoutube(p)
  \/ ApplyProcessing(p) \/ ApplyProcessed(p) \/ ApplyFailed(p) \/ ApplyDeleted(p)
  \/ Announce(p)

\* What a running chain of awaits does next.
Step(p) == SyncStep(p) \/ FailureStep(p) \/ CheckStep(p)

Request(p, r) ==
  \/ StartManual(p, r) \/ StartWebhook(p, r) \/ StartSystem(p, r) \/ StartCheck(p, r)

LinkStep(r) ==
  \/ Unlink(r)
  \/ \E v \in Videos : RequestLink(r, v) \/ WriteLink(r, v)

Next ==
  \/ \E p \in Procs : Step(p)
  \/ \E p \in Procs, r \in Recordings : Claim(p, r) \/ Request(p, r)
  \/ \E r \in Recordings : WebhookSkipped(r) \/ LinkStep(r)
  \/ \E v \in Videos : VideoChanges(v)
  \/ Reconnect
  \/ Restart

Spec == Init /\ [][Next]_vars

(* Awaits resolve: a chain that runs goes on (HTTP calls answer or fail,   *)
(* the database answers).  The scheduler ticks for ever, and claims need   *)
(* no free slot in the code: strong fairness makes up for the finite set   *)
(* of slots here.  Nothing is assumed of users, webhooks or YouTube.       *)
Fairness ==
  /\ \A p \in Procs : WF_vars(Step(p))
  /\ \A r \in Recordings : SF_vars(\E p \in Procs : Claim(p, r))

FairSpec == Spec /\ Fairness

-----------------------------------------------------------------------------
(* Properties.                                                             *)

\* Slot p runs a sync that has made recording r UPLOADING, or soon will
\* (a "system" sync writes only from StartUpload on).
Uploads(p, r) ==
  /\ proc[p].rec = r
  /\ IF proc[p].kind = "system"
     THEN At(p, "upload")
     ELSE proc[p].pc \in {"download", "upload", "uploaded", "uploadFailed", "caught", "mark"}

\* Slot p will answer for a failure of recording r.
Answers(p, r) ==
  /\ proc[p].rec = r
  /\ \/ proc[p].pc \in {"handle", "schedule", "notify"}
     \/ Retrying(p, r) /\ p \in fresh[r]

(* A row says UPLOADING only while a sync of that recording runs: whatever *)
(* mix of manual syncs, webhooks, retries, checks, links and failures came *)
(* before, no row is left UPLOADING for ever.  The exceptions are the two  *)
(* the code has: the backend restarted, or uploadVideoFromStream returned  *)
(* null for want of a connection ("dropped").                              *)
UploadHasOwner ==
  \A r \in Recordings :
    row[r].status = "UPLOADING" /\ news[r] # "dropped" => \E p \in Procs : Uploads(p, r)

(* No failure goes unnoticed: once a row is FAILED, either a retry was     *)
(* scheduled or the account notified since that failure, or a process that *)
(* will do so is still running; a claimed retry takes the duty over.  This *)
(* is what "Every failed attempt passes through here" (handleSyncFailure)  *)
(* is for; the exceptions are a restart and the check that finds no        *)
(* connection.                                                             *)
FailureIsAnswered ==
  \A r \in Recordings :
    row[r].status = "FAILED" /\ news[r] = "failed" => \E p \in Procs : Answers(p, r)

(* Whenever a check moves a row to COMPLETED, the account is told, by the  *)
(* check that moved it.                                                    *)
CompletionIsTold ==
  \A r \in Recordings :
    row[r].status = "COMPLETED" /\ news[r] = "ready" =>
      \E p \in Procs : proc[p].rec = r /\ At(p, "announce")

(* An upload comes to an end: the row of a running sync leaves UPLOADING,  *)
(* unless its process is lost or YouTube is not connected.                 *)
UploadEnds ==
  \A r \in Recordings :
    row[r].status = "UPLOADING" ~> row[r].status # "UPLOADING" \/ news[r] = "dropped"

(* A failure does not stay unanswered: a retry is scheduled, the account   *)
(* is notified, or the row moves on.                                       *)
FailureEndsAnswered ==
  \A r \in Recordings :
    row[r].status = "FAILED" /\ news[r] = "failed" ~>
      ~(row[r].status = "FAILED" /\ news[r] = "failed")

(* A scheduled retry is taken by the scheduler, or made pointless by a     *)
(* sync or a link in between; restarts do not keep it from being taken.    *)
RetryIsTaken ==
  \A r \in Recordings :
    row[r].status = "FAILED" /\ row[r].retry ~> ~(row[r].status = "FAILED" /\ row[r].retry)

-----------------------------------------------------------------------------
(* What the documents say, and the code does not do (see README.md).       *)

(* zoom-sync-scheduler.service.ts: "All state lives in ZoomSyncLog, so a   *)
(* restart loses nothing".  After a restart no failure is left that nobody *)
(* will retry or report.                                                   *)
RestartLosesNothing ==
  \A r \in Recordings : row[r].status = "FAILED" => news[r] # "dropped"

(* README: "Linked recordings are never uploaded twice".  No sync of a     *)
(* recording that is linked to a video hands its file to YouTube.          *)
LinkedIsNotUploaded ==
  \A p \in Procs : At(p, "uploaded") => ~row[proc[p].rec].linked

=============================================================================
