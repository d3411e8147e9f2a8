-------------------------- MODULE ZoomSyncNotices ---------------------------
(***************************************************************************)
(* How often an account is told that a video is ready.  One recording was  *)
(* uploaded and is PROCESSING; from then on only status checks run: the    *)
(* scheduler's and those of the pages that poll.                           *)
(***************************************************************************)
EXTENDS ZoomSync

VARIABLE told  \* told[v]: notifySyncCompleted calls for video v, at most 2

nvars == <<vars, told>>

Uploaded(v) == [NoRow EXCEPT !.status = "PROCESSING", !.video = v]

NInit ==
  \E v \in Videos :
    /\ row = [r \in Recordings |-> Uploaded(v)]
    /\ fresh = [r \in Recordings |-> {}]
    /\ proc = [p \in Procs |-> Idle]
    /\ links = {}
    /\ yt = [w \in Videos |-> IF w = v THEN "processing" ELSE "none"]
    /\ configured = TRUE
    /\ news = [r \in Recordings |-> "none"]
    /\ told = [w \in Videos |-> 0]

Tell(p) ==
  /\ Announce(p)
  /\ told' = [told EXCEPT ![proc[p].video] = IF @ < 2 THEN @ + 1 ELSE @]

Watch(p) ==
  \/ \E r \in Recordings : StartCheck(p, r)
  \/ AskYoutube(p) \/ ApplyProcessing(p) \/ ApplyProcessed(p)
  \/ ApplyFailed(p) \/ ApplyDeleted(p) \/ FailureStep(p)

NNext ==
  \/ \E p \in Procs : Tell(p)
  \/ (\E p \in Procs : Watch(p)) /\ UNCHANGED told
  \/ (\E v \in Videos : VideoChanges(v)) /\ UNCHANGED told

NSpec == NInit /\ [][NNext]_nvars

(* checkVideoProcessingStatus: "the frontend poll and the background job   *)
(* running at the same time cannot create duplicate notifications".        *)
ToldOnce == \A v \in Videos : told[v] <= 1

=============================================================================
