----------------------------- MODULE SyncPromise -----------------------------
(***************************************************************************)
(* What the sync log promises about each recording, whoever writes it: the *)
(* moves its status may make, which video a move may name, and what the    *)
(* account is owed after it.  ZoomSync, with its chains of awaits, retries *)
(* and overlapping writes, is shown to keep it (ZoomSyncPromise).          *)
(***************************************************************************)
CONSTANTS
  Recordings, Videos, NoVideo,
  MayLose  \* may the backend restart, or lose its YouTube connection?

VARIABLES
  status,  \* the recording's status; NONE: it is not in the log
  video,   \* the video its row names
  owed     \* what the account has yet to hear: "failed", "ready" or nothing;
           \* "dropped": nobody is left who would say

promiseVars == <<status, video, owed>>

Nobody(r) == [owed EXCEPT ![r] = "none"]

PromiseInit ==
  /\ status = [r \in Recordings |-> "NONE"]
  /\ video = [r \in Recordings |-> NoVideo]
  /\ owed = [r \in Recordings |-> "none"]

Moved(r, s) == status' = [status EXCEPT ![r] = s]

\* A recording enters the log only by a webhook, a sync or a link.
Received(r) == status[r] = "NONE" /\ Moved(r, "SKIPPED") /\ UNCHANGED <<video, owed>>
Started(r) == Moved(r, "UPLOADING") /\ owed' = Nobody(r) /\ UNCHANGED video

\* YouTube has a video of it, the one just inserted or the one the row names already.
Published(r) ==
  /\ status[r] # "NONE" /\ Moved(r, "PROCESSING")
  /\ video' = video \/ \E v \in Videos : video' = [video EXCEPT ![r] = v]
  /\ owed' = Nobody(r)

\* A completion is reached once, and is then owed to the account.
Completed(r) ==
  /\ status[r] \notin {"NONE", "COMPLETED"} /\ Moved(r, "COMPLETED")
  /\ owed' = [owed EXCEPT ![r] = "ready"]
  /\ UNCHANGED video

\* So is every failure; a retry taken in hand owes the answer of the failure again.
Failed(r) ==
  /\ status[r] # "NONE" /\ Moved(r, "FAILED")
  /\ owed' = [owed EXCEPT ![r] = "failed"]
  /\ UNCHANGED video

\* The account was told, or a retry was scheduled.
Answered(r) ==
  /\ owed[r] \in {"failed", "ready"} /\ owed' = Nobody(r)
  /\ UNCHANGED <<status, video>>

Linked(r) ==
  /\ Moved(r, "COMPLETED") /\ owed' = Nobody(r)
  /\ \E v \in Videos : video' = [video EXCEPT ![r] = v]

\* Only unlinking takes a row, and its video, away.
Unlinked(r) ==
  /\ Moved(r, "NONE") /\ owed' = Nobody(r)
  /\ video' = [video EXCEPT ![r] = NoVideo]

\* An upload nobody can do is left as it is: no account has a YouTube connection.
UploadLeft(r) ==
  /\ status[r] = "UPLOADING" /\ owed' = [owed EXCEPT ![r] = "dropped"]
  /\ UNCHANGED <<status, video>>

\* Without a connection a check fails the row and tells nobody.
FailedUnheard(r) ==
  /\ MayLose
  /\ status[r] # "NONE" /\ Moved(r, "FAILED")
  /\ owed' = [owed EXCEPT ![r] = "dropped"] /\ UNCHANGED video

\* What was owed is lost with the processes that owed it.
Lost ==
  /\ MayLose
  /\ \A r \in Recordings : owed[r] = "none" /\ status[r] # "UPLOADING" => owed'[r] = "none"
  /\ owed' \in [Recordings -> {"none", "dropped"}]
  /\ UNCHANGED <<status, video>>

PromiseNext ==
  \/ Lost
  \/ \E r \in Recordings :
       \/ Received(r) \/ Started(r) \/ Published(r) \/ Completed(r) \/ Failed(r)
       \/ Answered(r) \/ Linked(r) \/ Unlinked(r) \/ UploadLeft(r) \/ FailedUnheard(r)

PromiseSpec == PromiseInit /\ [][PromiseNext]_promiseVars
==============================================================================
