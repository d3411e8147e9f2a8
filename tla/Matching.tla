------------------------------ MODULE Matching ------------------------------
(***************************************************************************)
(* Recordings that are on YouTube already: the video that is suggested for *)
(* a recording without a sync log, and the user's answer, a link or a      *)
(* dismissal, while the app uploads and other requests link.               *)
(***************************************************************************)
EXTENDS Naturals, Integers, Sequences, FiniteSets, FiniteSetsExt

CONSTANTS
  Users,
  Recorded,    \* Recorded[r]: a recording, [topic, start, durations]
  Published,   \* Published[v]: a video, [title, at, duration, recording]; titles are sequences of words
  Linkers,     \* numbers of the requests to link that may run at once
  MaxMatchRequests,
  NoMatch      \* null

ASSUME MatchingAssumption == NoMatch \notin DOMAIN Published /\ MaxMatchRequests \in Nat

VARIABLES
  tracks,      \* tracks[r]: the sync log of the recording, or NoMatch
  channel,     \* the videos that are on the channel
  listed,      \* listed[u]: the videos of u's cache
  dismissed,   \* dismissed[u]: the pairs u was asked about and refused
  suggested,   \* suggested[u]: the pairs that u's page shows
  asking,      \* asking[u]: the listing of recordings that runs for u
  linking,     \* linking[k]: a running link, [step, user, recording, video]
  uploaded,    \* the video of the running upload that is not noted yet: <<r, v>>
  linksRaced,  \* two links of one video by one user, or a link and an upload, overlapped
  matchRequests

matchVars ==
  <<tracks, channel, listed, dismissed, suggested, asking, linking, uploaded, linksRaced, matchRequests>>

RecordingIds == DOMAIN Recorded
VideoIds == DOMAIN Published
Pairs == RecordingIds \X VideoIds
Track == [user : Users, status : {"UPLOADING", "PROCESSING", "COMPLETED", "FAILED"},
          video : VideoIds \cup {NoMatch}, source : {"linked", "zoom"}]
NotLinking == [step |-> "idle", user |-> NoMatch, recording |-> NoMatch, video |-> NoMatch]

MatchingTypeOK ==
  /\ \A r \in RecordingIds : tracks[r] = NoMatch \/ tracks[r] \in Track
  /\ channel \subseteq VideoIds /\ listed \in [Users -> SUBSET channel]
  /\ dismissed \in [Users -> SUBSET Pairs] /\ suggested \in [Users -> SUBSET Pairs]
  /\ \A k \in Linkers : linking[k] = NotLinking \/ linking[k].step \in {"video", "taken", "write"}
  /\ uploaded = NoMatch \/ uploaded \in Pairs
  /\ matchRequests \in 0..MaxMatchRequests /\ linksRaced \in BOOLEAN

MatchingInit ==
  /\ tracks = [r \in RecordingIds |-> NoMatch]
  /\ channel = {v \in VideoIds : Published[v].recording = NoMatch}
  /\ listed = [u \in Users |-> {}] /\ dismissed = [u \in Users |-> {}] /\ suggested = [u \in Users |-> {}]
  /\ asking = [u \in Users |-> NoMatch] /\ linking = [k \in Linkers |-> NotLinking]
  /\ uploaded = NoMatch /\ linksRaced = FALSE /\ matchRequests = 0

-----------------------------------------------------------------------------
(* The score, in minutes and words *)

MATCH_THRESHOLD == 60
HOUR == 60
DAY == 24 * HOUR

WordsOf(text) == {text[i] : i \in DOMAIN text}
Includes(text, part) == \E i, j \in DOMAIN text : SubSeq(text, i, j) = part
Distance(a, b) == IF a > b THEN a - b ELSE b - a

\* durations are in seconds
DurationPoints(r, v) ==
  LET differences == {Distance(d, Published[v].duration) : d \in Recorded[r].durations}
      within(n) == \E d \in differences : d <= n
  IN IF Published[v].duration = NoMatch THEN 0
     ELSE IF within(5) THEN 60 ELSE IF within(30) THEN 45 ELSE IF within(120) THEN 20 ELSE 0

TitlePoints(r, v) ==
  LET topic == Recorded[r].topic   title == Published[v].title
      shared == Cardinality(WordsOf(topic) \cap WordsOf(title))
      all == Cardinality(WordsOf(topic) \cup WordsOf(title))
  IN IF topic = <<>> \/ title = <<>> THEN 0
     ELSE IF Includes(title, topic) THEN 30
     ELSE IF 10 * shared >= 6 * all THEN 20 ELSE IF 10 * shared >= 3 * all THEN 10 ELSE 0

DatePoints(r, v) ==
  LET after == Published[v].at - Recorded[r].start
  IN IF Published[v].at = NoMatch THEN 0 ELSE IF after <= 7 * DAY THEN 10 ELSE IF after <= 30 * DAY THEN 5 ELSE 0

\* 100 when the description names the recording; nothing for a video older than the meeting.
ScoreMatch(r, v) ==
  IF Published[v].recording = r THEN 100
  ELSE IF Published[v].at # NoMatch /\ Published[v].at < Recorded[r].start - HOUR THEN 0
  ELSE Min({99, DurationPoints(r, v) + TitlePoints(r, v) + DatePoints(r, v)})

\* Best pairs first, each recording and each video once.  The order among equal scores
\* is that of the two lists, which is left open.
FindMatches(recordings, videos, used, refused) ==
  LET eligible == {p \in (recordings \X (videos \ used)) \ refused : ScoreMatch(p[1], p[2]) >= MATCH_THRESHOLD}
      clash(p, q) == p[1] = q[1] \/ p[2] = q[2]
      score(p) == ScoreMatch(p[1], p[2])
  IN {found \in SUBSET eligible :
        /\ \A p, q \in found : p # q => ~clash(p, q)
        /\ \A p \in eligible \ found : \E q \in found : clash(p, q) /\ score(q) >= score(p)}

-----------------------------------------------------------------------------
(* Suggestions *)

MatchRequest == matchRequests < MaxMatchRequests /\ matchRequests' = matchRequests + 1

\* attachMatches: the user's videos in use and the recordings without a sync log, of any account.
AttachMatches(u) ==
  /\ MatchRequest /\ asking[u] = NoMatch
  /\ asking' = [asking EXCEPT ![u] =
       [used |-> {tracks[r].video : r \in {r \in RecordingIds : tracks[r] # NoMatch /\ tracks[r].user = u}},
        candidates |-> {r \in RecordingIds : tracks[r] = NoMatch}]]
  /\ UNCHANGED <<tracks, channel, listed, dismissed, suggested, linking, uploaded, linksRaced>>

\* An hourly refresh of the cache, by this listing or by another page.
ListVideos(u) ==
  /\ listed[u] # channel /\ listed' = [listed EXCEPT ![u] = channel]
  /\ UNCHANGED <<tracks, channel, dismissed, suggested, asking, linking, uploaded, linksRaced, matchRequests>>

MatchesAttached(u) ==
  /\ asking[u] # NoMatch /\ asking' = [asking EXCEPT ![u] = NoMatch]
  /\ \E found \in FindMatches(asking[u].candidates, listed[u], asking[u].used, dismissed[u]) :
       suggested' = [suggested EXCEPT ![u] = found]
  /\ UNCHANGED <<tracks, channel, listed, dismissed, linking, uploaded, linksRaced, matchRequests>>

Dismiss(u, p) ==
  /\ MatchRequest /\ p \in suggested[u]
  /\ dismissed' = [dismissed EXCEPT ![u] = @ \cup {p}] /\ suggested' = [suggested EXCEPT ![u] = @ \ {p}]
  /\ UNCHANGED <<tracks, channel, listed, asking, linking, uploaded, linksRaced>>

-----------------------------------------------------------------------------
(* Links: three reads and a write, each an await *)

MayLink(u, r) ==
  tracks[r] # NoMatch => tracks[r].user = u /\ tracks[r].status \notin {"UPLOADING", "PROCESSING", "COMPLETED"}

\* From a suggestion, or the list of the channel's videos.
AskLink(k, u, p) ==
  /\ MatchRequest /\ linking[k] = NotLinking /\ (\A j \in Linkers : j < k => linking[j] # NotLinking)
  /\ p \in suggested[u] \cup (RecordingIds \X listed[u])
  /\ IF MayLink(u, p[1])
     THEN linking' = [linking EXCEPT ![k] = [step |-> "video", user |-> u, recording |-> p[1], video |-> p[2]]]
     ELSE UNCHANGED linking
  /\ UNCHANGED <<tracks, channel, listed, dismissed, suggested, asking, uploaded, linksRaced>>

LinkReadsVideo(k) ==
  /\ linking[k].step = "video"
  /\ linking' = [linking EXCEPT ![k] =
                   IF @.video \in listed[@.user] THEN [@ EXCEPT !.step = "taken"] ELSE NotLinking]
  /\ UNCHANGED <<tracks, channel, listed, dismissed, suggested, asking, uploaded, linksRaced, matchRequests>>

\* Another row of the user has the video; the mutant's check forgets to look for one.
TakenNever(l) == FALSE
Taken(l) ==
  \E r \in RecordingIds \ {l.recording} :
    tracks[r] # NoMatch /\ tracks[r].user = l.user /\ tracks[r].video = l.video

Overlaps(k) ==
  \/ uploaded # NoMatch /\ uploaded[2] = linking[k].video
  \/ \E j \in Linkers \ {k} : linking[j].step = "write" /\ linking[j].user = linking[k].user
                              /\ linking[j].video = linking[k].video

LinkReadsTaken(k) ==
  /\ linking[k].step = "taken"
  /\ linking' = [linking EXCEPT ![k] = IF Taken(@) THEN NotLinking ELSE [@ EXCEPT !.step = "write"]]
  /\ linksRaced' = (linksRaced \/ Overlaps(k))
  /\ UNCHANGED <<tracks, channel, listed, dismissed, suggested, asking, uploaded, matchRequests>>

\* The upsert: an existing row keeps its account, whichever it is by now.
LinkWrites(k) ==
  LET l == linking[k]
      user == IF tracks[l.recording] = NoMatch THEN l.user ELSE tracks[l.recording].user
  IN /\ l.step = "write"
     /\ tracks' = [tracks EXCEPT ![l.recording] =
          [user |-> user, status |-> "COMPLETED", video |-> l.video, source |-> "linked"]]
     /\ linksRaced' = (linksRaced \/ user # l.user)
     /\ linking' = [linking EXCEPT ![k] = NotLinking]
     /\ UNCHANGED <<channel, listed, dismissed, suggested, asking, uploaded, matchRequests>>

\* findUnique and delete; nothing of it is used in between but the id.
Unlink(u, r) ==
  /\ MatchRequest /\ tracks[r] # NoMatch /\ tracks[r].user = u /\ tracks[r].source = "linked"
  /\ tracks' = [tracks EXCEPT ![r] = NoMatch]
  /\ UNCHANGED <<channel, listed, dismissed, suggested, asking, linking, uploaded, linksRaced>>

-----------------------------------------------------------------------------
(* Uploads by the app: the video is on the channel before the row has its id *)

UploadBegins(u, r) ==
  /\ MatchRequest /\ (tracks[r] # NoMatch => tracks[r].user = u /\ tracks[r].status = "FAILED")
  /\ tracks' = [tracks EXCEPT ![r] = IF @ = NoMatch
                                     THEN [user |-> u, status |-> "UPLOADING", video |-> NoMatch, source |-> "zoom"]
                                                ELSE [@ EXCEPT !.status = "UPLOADING"]]
  /\ UNCHANGED <<channel, listed, dismissed, suggested, asking, linking, uploaded, linksRaced>>

VideoInserted(r, v) ==
  /\ uploaded = NoMatch /\ tracks[r] # NoMatch /\ tracks[r].status = "UPLOADING"
  /\ Published[v].recording = r /\ v \notin channel
  /\ channel' = channel \cup {v} /\ uploaded' = <<r, v>>
  /\ UNCHANGED <<tracks, listed, dismissed, suggested, asking, linking, linksRaced, matchRequests>>

\* A row that was deleted meanwhile is not noted.
VideoNoted ==
  /\ uploaded # NoMatch /\ uploaded' = NoMatch
  /\ LET r == uploaded[1]
     IN tracks' = [tracks EXCEPT ![r] =
                      IF @ = NoMatch THEN @ ELSE [@ EXCEPT !.status = "PROCESSING", !.video = uploaded[2]]]
  /\ UNCHANGED <<channel, listed, dismissed, suggested, asking, linking, linksRaced, matchRequests>>

UploadEnds(r, status) ==
  /\ tracks[r] # NoMatch
  /\ tracks[r].status \in IF status = "FAILED" THEN {"UPLOADING", "PROCESSING"} ELSE {"PROCESSING"}
  /\ uploaded # NoMatch => uploaded[1] # r
  /\ tracks' = [tracks EXCEPT ![r].status = status]
  /\ UNCHANGED <<channel, listed, dismissed, suggested, asking, linking, uploaded, linksRaced, matchRequests>>

MatchingNext ==
  \/ \E u \in Users :
       \/ AttachMatches(u) \/ ListVideos(u) \/ MatchesAttached(u)
       \/ \E p \in Pairs : Dismiss(u, p) \/ \E k \in Linkers : AskLink(k, u, p)
       \/ \E r \in RecordingIds : Unlink(u, r) \/ UploadBegins(u, r)
  \/ \E k \in Linkers : LinkReadsVideo(k) \/ LinkReadsTaken(k) \/ LinkWrites(k)
  \/ \E p \in Pairs : VideoInserted(p[1], p[2])
  \/ VideoNoted
  \/ \E r \in RecordingIds, status \in {"FAILED", "COMPLETED"} : UploadEnds(r, status)

-----------------------------------------------------------------------------
\* Two recordings of an account never have one video, unless two of the writers that look
\* for it first overlapped: refusals, unlinks, failed uploads and syncs of linked recordings
\* in between do not lead there.
LinkedOnce ==
  \A r, s \in RecordingIds :
    (/\ r # s /\ tracks[r] # NoMatch /\ tracks[s] # NoMatch
     /\ tracks[r].user = tracks[s].user /\ tracks[r].video = tracks[s].video)
      => linksRaced \/ tracks[r].video = NoMatch
=============================================================================
