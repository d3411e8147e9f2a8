------------------------------- MODULE Quota -------------------------------
(***************************************************************************)
(* The YouTube quota of one account (YoutubeService, QuotaService).  Each  *)
(* request to YouTube is booked after it was made, on the Pacific day it   *)
(* is booked; only three things look at what is left before they start:    *)
(* an automatic retry, an upload by hand and an upload of captions.  What  *)
(* was free then may be taken when the request is booked.  A request that  *)
(* fails is not booked.                                                    *)
(***************************************************************************)
EXTENDS Naturals, Sequences, FiniteSets

CONSTANTS
  Jobs,                \* uploads that look at the quota first and run at the same time
  QUOTA_LIMIT, UPLOAD_COST, CAPTION_LIST_COST, CAPTION_INSERT_COST, CAPTION_UPDATE_COST,
  LIST_COST,
  WRITE_COST,          \* PLAYLIST_INSERT_COST, PLAYLIST_WRITE_COST, VIDEO_UPDATE_COST, THUMBNAIL_SET_COST
  MAX_PAGES,           \* pages a listing reads
  MaxBooked,           \* units booked by what does not look first
  MaxDays

ASSUME QuotaAssumption ==
  /\ {QUOTA_LIMIT, UPLOAD_COST, CAPTION_LIST_COST, CAPTION_INSERT_COST, CAPTION_UPDATE_COST,
      LIST_COST, WRITE_COST, MAX_PAGES, MaxBooked, MaxDays} \subseteq Nat \ {0}
  /\ CAPTION_INSERT_COST <= CAPTION_UPDATE_COST
  /\ IsFiniteSet(Jobs) /\ Jobs # {}

VARIABLES
  used,      \* used[d]: QuotaUsage.unitsUsed of a day
  today,     \* getPacificDate
  owed,      \* owed[j]: what the running job j still has to book, <<>> when it is over
  unasked    \* units booked by what did not look first

quotaVars == <<used, today, owed, unasked>>

Costs == {UPLOAD_COST, CAPTION_LIST_COST, CAPTION_INSERT_COST, CAPTION_UPDATE_COST}

QuotaTypeOK ==
  /\ used \in [1..MaxDays -> Nat] /\ today \in 1..MaxDays
  /\ owed \in [Jobs -> Seq(Costs)]
  /\ unasked \in 0..MaxBooked

QuotaInit ==
  /\ used = [d \in 1..MaxDays |-> 0] /\ today = 1
  /\ owed = [j \in Jobs |-> <<>>]
  /\ unasked = 0

\* getQuotaStatus
UnitsRemaining == IF used[today] > QUOTA_LIMIT THEN 0 ELSE QUOTA_LIMIT - used[today]

\* What the cheaper of its two paths costs.
CaptionUploadCostOfInsert == CAPTION_LIST_COST + CAPTION_INSERT_COST
CaptionUploadCost == CAPTION_LIST_COST + CAPTION_UPDATE_COST

\* trackQuotaUsage
TrackQuotaUsage(units) == used' = [used EXCEPT ![today] = @ + units]

\* hasQuotaFor, and then the work starts.
StartsJob(j, needed, costs) ==
  /\ owed[j] = <<>>
  /\ UnitsRemaining >= needed
  /\ owed' = [owed EXCEPT ![j] = costs]
  /\ UNCHANGED <<used, today, unasked>>

UploadManualVideo(j) == StartsJob(j, UPLOAD_COST, <<UPLOAD_COST>>)

\* uploadCaptionTrack replaces the track of the same language and name, or adds one.
UploadCaptionTrack(j) ==
  \E last \in {CAPTION_INSERT_COST, CAPTION_UPDATE_COST} :
    StartsJob(j, CaptionUploadCost, <<CAPTION_LIST_COST, last>>)

\* YouTube has answered.
Books(j) ==
  /\ owed[j] # <<>>
  /\ TrackQuotaUsage(Head(owed[j]))
  /\ owed' = [owed EXCEPT ![j] = Tail(@)]
  /\ UNCHANGED <<today, unasked>>

JobFails(j) ==
  /\ owed[j] # <<>>
  /\ owed' = [owed EXCEPT ![j] = <<>>]
  /\ UNCHANGED <<used, today, unasked>>

-----------------------------------------------------------------------------
(* What does not look: a failure after the first requests books those. *)

Spends(units) ==
  /\ unasked + units <= MaxBooked
  /\ unasked' = unasked + units
  /\ TrackQuotaUsage(units)
  /\ UNCHANGED <<today, owed>>

Lists(pages) == \E n \in 1..pages : Spends(n * LIST_COST)

SyncUploads == Spends(UPLOAD_COST)
CheckVideoProcessingStatus == Spends(LIST_COST)
GetConnectionStatus == Spends(LIST_COST)
GetRecentUploads == Lists(1 + MAX_PAGES)
ListPlaylists == Lists(MAX_PAGES)
ListPlaylistItems == Lists(MAX_PAGES)
CreatePlaylist == Spends(WRITE_COST)
AddVideoToPlaylist == Spends(WRITE_COST)
GetVideoMetadata == Spends(LIST_COST)
UpdateVideoMetadata == Spends(LIST_COST) \/ Spends(LIST_COST + WRITE_COST)
SetThumbnail == Spends(WRITE_COST)
UpdatePlaylist == Spends(LIST_COST) \/ Spends(LIST_COST + WRITE_COST)
DeletePlaylist == Spends(WRITE_COST)
RemovePlaylistItem == Spends(WRITE_COST)

Midnight ==
  /\ today < MaxDays
  /\ today' = today + 1
  /\ UNCHANGED <<used, owed, unasked>>

QuotaNext ==
  \/ \E j \in Jobs : UploadManualVideo(j) \/ UploadCaptionTrack(j) \/ Books(j) \/ JobFails(j)
  \/ SyncUploads \/ CheckVideoProcessingStatus \/ GetConnectionStatus \/ GetRecentUploads
  \/ ListPlaylists \/ ListPlaylistItems \/ CreatePlaylist \/ AddVideoToPlaylist \/ GetVideoMetadata
  \/ UpdateVideoMetadata \/ SetThumbnail \/ UpdatePlaylist \/ DeletePlaylist \/ RemovePlaylistItem
  \/ Midnight

-----------------------------------------------------------------------------
Dearest == IF UPLOAD_COST > CaptionUploadCost THEN UPLOAD_COST ELSE CaptionUploadCost

\* The quota is read before an upload and booked after it, so uploads that overlap may
\* exceed it: by what all but one of them cost, and by what was booked without looking, and
\* by no more, also for those that began before midnight and are booked on the next day.
QuotaOvershoot ==
  used[today] <= QUOTA_LIMIT + (Cardinality(Jobs) - 1) * Dearest + unasked
=============================================================================
