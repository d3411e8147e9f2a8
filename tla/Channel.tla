------------------------------ MODULE Channel ------------------------------
(***************************************************************************)
(* ChannelVideoCache: what the app shows of the videos of a channel.       *)
(* YoutubeService.refreshChannelVideos reads the channel in many requests  *)
(* and replaces the cache; requests that come meanwhile share it.  An edit *)
(* made in the app is sent to YouTube and then written to the cache.       *)
(* Others edit, add and delete videos in YouTube itself.                   *)
(*                                                                         *)
(* A video is the number of its last change; cached, the number the row    *)
(* was read at.  Abstracted: its fields, pages (one video is one batch).   *)
(***************************************************************************)
EXTENDS Naturals, Sequences, FiniteSets, SequencesExt

CONSTANTS
  OnChannel,
  MaxChanges,   \* changes of videos
  MaxAsks       \* requests for the list, edits asked, failures and restarts

ASSUME ChannelAssumption == {MaxChanges, MaxAsks} \subseteq Nat /\ IsFiniteSet(OnChannel)

VARIABLES
  changed,    \* changed[v]: its last change, 0 when it is not on the channel
  cached,     \* cached[v]: the change its row shows, 0 without a row
  refreshes,  \* the refreshes under way: one at most, which the requests share
  writing,    \* edits that YouTube has made and the cache does not show yet
  floor,      \* floor[v]: its change when the latest-begun of the refreshes that ended began
  stirred,    \* videos with such an edit when it ended
  changes, asks

channelVars == <<changed, cached, refreshes, writing, floor, stirred, changes, asks>>

VideoVersions == 0..MaxChanges

\* left: the videos still to read; found: what was read; begun: the channel when it began.
Refresh == [left : Seq(OnChannel), found : [OnChannel -> VideoVersions], begun : [OnChannel -> VideoVersions]]

ChannelTypeOK ==
  /\ {changed, cached, floor} \subseteq [OnChannel -> VideoVersions]
  /\ refreshes \subseteq Refresh
  /\ writing \subseteq [v : OnChannel, change : VideoVersions]
  /\ stirred \subseteq OnChannel
  /\ changes \in VideoVersions /\ asks \in 0..MaxAsks

ChannelInit ==
  /\ changed = [v \in OnChannel |-> 0] /\ cached = changed /\ floor = changed
  /\ refreshes = {} /\ writing = {} /\ stirred = {}
  /\ changes = 0 /\ asks = 0

AskList == asks < MaxAsks /\ asks' = asks + 1

VideoChanges(v) ==
  /\ changes < MaxChanges
  /\ changes' = changes + 1
  /\ changed' = [changed EXCEPT ![v] = changes + 1]

\* Uploaded, or edited in YouTube Studio.
StudioEdits(v) ==
  /\ VideoChanges(v)
  /\ UNCHANGED <<cached, refreshes, writing, floor, stirred, asks>>

StudioDeletes(v) ==
  /\ AskList
  /\ changed' = [changed EXCEPT ![v] = 0]
  /\ UNCHANGED <<cached, refreshes, writing, floor, stirred, changes>>

-----------------------------------------------------------------------------
\* The uploads playlist, page by page, lists the videos to read.
Begins ==
  \E left \in SetToSeqs({v \in OnChannel : changed[v] # 0}) :
    refreshes' = refreshes \cup {[left |-> left, found |-> [v \in OnChannel |-> 0], begun |-> changed]}

\* Each request begins one of its own.
GetChannelVideosUnshared == AskList /\ Begins /\ UNCHANGED <<changed, cached, writing, floor, stirred, changes>>

\* getChannelVideos, when the cache is stale or the user asks for it to be refreshed: it waits
\* for the refresh under way, if there is one.
GetChannelVideos ==
  /\ AskList
  /\ IF refreshes = {} THEN Begins ELSE UNCHANGED refreshes
  /\ UNCHANGED <<changed, cached, writing, floor, stirred, changes>>

\* videos.list: a video that was deleted meanwhile is not in the answer.
ReadBatch(r) ==
  /\ r.left # <<>>
  /\ refreshes' = (refreshes \ {r}) \cup
       {[r EXCEPT !.left = Tail(@), !.found[Head(r.left)] = changed[Head(r.left)]]}
  /\ UNCHANGED <<changed, cached, writing, floor, stirred, changes, asks>>

Later(a, b) == [v \in OnChannel |-> IF a[v] > b[v] THEN a[v] ELSE b[v]]

\* The transaction that replaces the rows.
ReplaceCache(r) ==
  /\ r.left = <<>>
  /\ cached' = r.found
  /\ refreshes' = refreshes \ {r}
  /\ floor' = Later(r.begun, floor)
  /\ stirred' = {w.v : w \in writing}
  /\ UNCHANGED <<changed, writing, changes, asks>>

\* YouTube refuses a request, or the server restarts: the cache stays.
RefreshFails(r) ==
  /\ AskList
  /\ refreshes' = refreshes \ {r}
  /\ UNCHANGED <<changed, cached, writing, floor, stirred, changes>>

\* updateVideoMetadata, setThumbnail: YouTube has made the change.
EditVideo(v) ==
  /\ AskList
  /\ changed[v] # 0
  /\ VideoChanges(v)
  /\ writing' = writing \cup {[v |-> v, change |-> changes + 1]}
  /\ UNCHANGED <<cached, refreshes, floor, stirred>>

\* Only a row that is there is written.
UpdateChannelVideoCache(w) ==
  /\ writing' = writing \ {w}
  /\ cached' = IF cached[w.v] # 0 THEN [cached EXCEPT ![w.v] = w.change] ELSE cached
  /\ UNCHANGED <<changed, refreshes, floor, stirred, changes, asks>>

ChannelNext ==
  \/ \E v \in OnChannel : StudioEdits(v) \/ StudioDeletes(v) \/ EditVideo(v)
  \/ GetChannelVideos
  \/ \E r \in refreshes : ReadBatch(r) \/ ReplaceCache(r) \/ RefreshFails(r)
  \/ \E w \in writing : UpdateChannelVideoCache(w)

-----------------------------------------------------------------------------
\* The cache does not fall behind: a row never shows a video as it was before a refresh that
\* has ended began, whatever was edited, deleted and refreshed meanwhile; except the row of
\* a video whose edit in the app was not written yet when that refresh ended.
CacheKeepsUp == \A v \in OnChannel \ stirred : cached[v] # 0 => cached[v] >= floor[v]
=============================================================================
