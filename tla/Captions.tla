------------------------------ MODULE Captions ------------------------------
(***************************************************************************)
(* CaptionService: the transcript of a recording becomes a caption track   *)
(* of its video.  An upload is tried when its sync completes, when Zoom    *)
(* says the transcript is ready, when the user asks, and by the sweep of   *)
(* the scheduler; tryUpload is split at its awaits, and none of them holds *)
(* a lock on the row.                                                      *)
(*                                                                         *)
(* Time goes by units of the sweep's period.  A sweep that decides reads   *)
(* the rows once.  Abstracted: the text, the language, the track itself,   *)
(* and errors, to whether RETRYABLE_CODES has them.                        *)
(***************************************************************************)
EXTENDS Integers, Sequences, FiniteSets, SequencesExt

CONSTANTS
  Synced,
  CAPTION_WAIT,          \* CAPTION_WAIT_MS
  CAPTION_MAX_ATTEMPTS,
  PENDING_STUCK,         \* PENDING_STUCK_MS, and the unit of RETRY_BACKOFF_MS
  SWEEP_TAKE,            \* rows a sweep reads
  SWEEP_UPLOAD_LIMIT,    \* uploads a sweep tries
  MaxCaptionRequests     \* syncs, webhooks, users' requests and restarts, in all

ASSUME CaptionsAssumption ==
  /\ {CAPTION_WAIT, CAPTION_MAX_ATTEMPTS, PENDING_STUCK, SWEEP_TAKE, SWEEP_UPLOAD_LIMIT,
      MaxCaptionRequests} \subseteq Nat \ {0}
  /\ IsFiniteSet(Synced)

VARIABLES
  caption,    \* ZoomSyncLog: its caption columns, and what of the others they depend on
  tries,      \* the running calls of tryUpload
  plan,       \* what the running sweep still has to look at, as it read it
  sweepOn,    \* "idle" (due), "running", "done" (for this unit of time)
  uploads,    \* uploads it has tried
  captionRequests

captionVars == <<caption, tries, plan, sweepOn, uploads, captionRequests>>

\* Ages above this one are alike: the row has left the window of the sweep.
Old == 2 * CAPTION_WAIT + 1
Never == -1

\* onVideo: COMPLETED with a youtubeVideoId; idle: age of captionUpdatedAt; done: of syncCompletedAt.
CaptionRow == [status : {"none", "waiting_transcript", "pending", "uploaded", "failed", "no_transcript"},
               retryable : BOOLEAN, attempts : 0..(CAPTION_MAX_ATTEMPTS + 2 * MaxCaptionRequests),
               idle : 0..Old, onVideo : BOOLEAN, done : {Never} \cup 0..Old]

Callers == {"sync", "webhook", "user", "sweep"}
Try == [by : Callers, r : Synced, step : {"begin", "settings", "files", "upload"}, manual : BOOLEAN]

CaptionsTypeOK ==
  /\ caption \in [Synced -> CaptionRow]
  /\ tries \subseteq Try
  /\ plan \in Seq([r : Synced, decision : {"retry", "give_up", "wait"}])
  /\ sweepOn \in {"idle", "running", "done"}
  /\ uploads \in 0..SWEEP_UPLOAD_LIMIT
  /\ captionRequests \in 0..MaxCaptionRequests

\* Videos that were synced with captions off.
CaptionsInit ==
  /\ caption = [r \in Synced |-> [status |-> "none", retryable |-> FALSE, attempts |-> 0,
                                      idle |-> Old, onVideo |-> TRUE, done |-> 0]]
  /\ tries = {}
  /\ plan = <<>> /\ sweepOn = "done" /\ uploads = 0
  /\ captionRequests = 0

CaptionRequest == captionRequests < MaxCaptionRequests /\ captionRequests' = captionRequests + 1

-----------------------------------------------------------------------------
(* Writes of the row *)

SetStatus(r, status) == caption' = [caption EXCEPT ![r].status = status, ![r].idle = 0]

Fail(r, retryable) ==
  caption' = [caption EXCEPT ![r].status = "failed", ![r].retryable = retryable,
                             ![r].attempts = @ + 1, ![r].idle = 0]

Uploaded(r) ==
  caption' = [caption EXCEPT ![r].status = "uploaded", ![r].retryable = FALSE,
                             ![r].attempts = @ + 1, ![r].idle = 0]

-----------------------------------------------------------------------------
(* tryUpload *)

Starts(by, r, manual) == tries' = tries \cup {[by |-> by, r |-> r, step |-> "begin", manual |-> manual]}
NotTrying(by) == \A t \in tries : t.by # by
Ends(t) == tries' = tries \ {t}
Goes(t, step) == tries' = (tries \ {t}) \cup {[t EXCEPT !.step = step]}

\* The row: no video, nothing to do.
ReadsRow(t) ==
  /\ t.step = "begin"
  /\ IF caption[t.r].onVideo THEN Goes(t, "settings") ELSE Ends(t)
  /\ UNCHANGED caption

\* The settings and the quota, then the write of pending.
ReadsSettings(t) ==
  /\ t.step = "settings"
  /\ \/ ~t.manual /\ Ends(t) /\ UNCHANGED caption
     \/ Ends(t) /\ Fail(t.r, TRUE)
     \/ Goes(t, "files") /\ SetStatus(t.r, "pending")

\* Zoom has no transcript, or an empty one; its API fails; or the text is there.
FetchesFiles(t) ==
  /\ t.step = "files"
  /\ \/ Ends(t) /\ SetStatus(t.r, "waiting_transcript")
     \/ \E retryable \in BOOLEAN : Ends(t) /\ Fail(t.r, retryable)
     \/ Goes(t, "upload") /\ UNCHANGED caption

UploadsTrack(t) ==
  /\ t.step = "upload"
  /\ Ends(t)
  /\ Uploaded(t.r) \/ \E retryable \in BOOLEAN : Fail(t.r, retryable)

TryUpload(t) ==
  /\ t \in tries
  /\ ReadsRow(t) \/ ReadsSettings(t) \/ FetchesFiles(t) \/ UploadsTrack(t)
  /\ UNCHANGED <<plan, sweepOn, uploads, captionRequests>>

-----------------------------------------------------------------------------
(* Callers *)

StartSync(r) ==
  /\ CaptionRequest
  /\ caption' = [caption EXCEPT ![r].onVideo = FALSE, ![r].done = Never]
  /\ UNCHANGED <<tries, plan, sweepOn, uploads>>

\* onSyncCompleted
SyncCompleted(r) ==
  /\ ~caption[r].onVideo
  /\ CaptionRequest /\ NotTrying("sync")
  /\ caption' = [caption EXCEPT ![r].onVideo = TRUE, ![r].done = 0]
  /\ Starts("sync", r, FALSE)
  /\ UNCHANGED <<plan, sweepOn, uploads>>

OnTranscriptReady(r) ==
  /\ CaptionRequest /\ NotTrying("webhook")
  /\ Starts("webhook", r, caption[r].status # "none")
  /\ UNCHANGED <<caption, plan, sweepOn, uploads>>

UploadForUser(r) ==
  /\ caption[r].onVideo
  /\ CaptionRequest /\ NotTrying("user")
  /\ caption' = [caption EXCEPT ![r].attempts = 0]
  /\ Starts("user", r, TRUE)
  /\ UNCHANGED <<plan, sweepOn, uploads>>

CaptionsRestart ==
  /\ CaptionRequest
  /\ tries' = {} /\ plan' = <<>> /\ uploads' = 0
  /\ sweepOn' = IF sweepOn = "done" THEN "done" ELSE "idle"
  /\ UNCHANGED caption

-----------------------------------------------------------------------------
(* The sweep *)

Age(row) == IF row.done = Never THEN row.idle ELSE row.done

\* Forgets uploads that a restart interrupted.
DecisionForgetsPending(row) ==
  CASE row.status = "waiting_transcript" -> IF Age(row) > CAPTION_WAIT THEN "give_up" ELSE "retry"
    [] OTHER -> "wait"

\* captionSweepDecision
Decision(row) ==
  CASE row.status = "waiting_transcript" ->
         IF Age(row) > CAPTION_WAIT THEN "give_up" ELSE IF row.idle >= 1 THEN "retry" ELSE "wait"
    [] row.status = "pending" ->
         IF Age(row) > CAPTION_WAIT THEN "give_up" ELSE IF row.idle >= PENDING_STUCK THEN "retry" ELSE "wait"
    [] row.status = "failed" /\ row.retryable /\ row.attempts < CAPTION_MAX_ATTEMPTS /\ Age(row) <= CAPTION_WAIT ->
         IF row.idle >= PENDING_STUCK * (IF row.attempts > 1 THEN row.attempts ELSE 1) THEN "retry" ELSE "wait"
    [] OTHER -> "wait"

Candidates == {r \in Synced : /\ caption[r].status \in {"waiting_transcript", "pending", "failed"}
                                  /\ caption[r].idle < Old}

\* Oldest first.
SweepStarts ==
  /\ sweepOn = "idle"
  /\ \E rs \in SetToSeqs(Candidates) :
       /\ \A i, j \in DOMAIN rs : i < j => caption[rs[i]].idle >= caption[rs[j]].idle
       /\ plan' = [i \in 1..(IF Len(rs) < SWEEP_TAKE THEN Len(rs) ELSE SWEEP_TAKE) |->
                     [r |-> rs[i], decision |-> Decision(caption[rs[i]])]]
  /\ sweepOn' = "running" /\ uploads' = 0
  /\ UNCHANGED <<caption, tries, captionRequests>>

\* It waits for the upload it has started.
SweepStep ==
  /\ sweepOn = "running" /\ NotTrying("sweep") /\ plan # <<>>
  /\ plan' = Tail(plan)
  /\ LET next == Head(plan) IN
     \/ /\ next.decision = "give_up"
        /\ SetStatus(next.r, "no_transcript")
        /\ UNCHANGED <<tries, uploads>>
     \/ /\ next.decision = "retry" /\ uploads < SWEEP_UPLOAD_LIMIT
        /\ uploads' = uploads + 1
        /\ Starts("sweep", next.r, TRUE)
        /\ UNCHANGED caption
     \/ /\ next.decision = "wait" \/ (next.decision = "retry" /\ uploads = SWEEP_UPLOAD_LIMIT)
        /\ UNCHANGED <<caption, tries, uploads>>
  /\ UNCHANGED <<sweepOn, captionRequests>>

SweepEnds ==
  /\ sweepOn = "running" /\ NotTrying("sweep") /\ plan = <<>>
  /\ sweepOn' = "done"
  /\ UNCHANGED <<caption, tries, plan, uploads, captionRequests>>

Older(n) == IF n \in 0..(Old - 1) THEN n + 1 ELSE n

\* The next sweep is due.
CaptionsTick ==
  /\ sweepOn = "done"
  /\ sweepOn' = "idle"
  /\ caption' = [r \in Synced |->
       [caption[r] EXCEPT !.idle = Older(@), !.done = Older(@)]]
  /\ UNCHANGED <<tries, plan, uploads, captionRequests>>

CaptionsNext ==
  \/ \E t \in tries : TryUpload(t)
  \/ \E r \in Synced : StartSync(r) \/ SyncCompleted(r) \/ OnTranscriptReady(r) \/ UploadForUser(r)
  \/ CaptionsRestart \/ SweepStarts \/ SweepStep \/ SweepEnds \/ CaptionsTick

-----------------------------------------------------------------------------
\* Once nobody asks any more, every recording comes to rest: its captions are there, or it
\* has failed for good, or the 48 hours are over.  None stays waiting or pending, whoever of
\* the four callers wrote last, whatever a restart interrupted, and whatever the sweep had
\* read before: it reaches a row before the row leaves the window it looks at.
CaptionsSettle ==
  <>[](\A r \in Synced : /\ caption[r].status \notin {"waiting_transcript", "pending"}
                             /\ Decision(caption[r]) = "wait")

\* What a row's attempts count stays within the sweep's budget and two for each request,
\* its own attempt and the one that the sweep makes of the status it leaves: although the
\* sweep decides on rows as it read them, and retries what waits without counting.
AttemptsHold == \A r \in Synced : caption[r].attempts <= CAPTION_MAX_ATTEMPTS + 2 * captionRequests
=============================================================================
