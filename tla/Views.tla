-------------------------------- MODULE Views --------------------------------
(***************************************************************************)
(* The parts of the pages that load what they show by a key (a range, a    *)
(* recording, a playlist, a folder, a workspace...), without cancelling    *)
(* older requests.  A view is a record of what its code does differently;  *)
(* what every view does is in the actions.                                 *)
(***************************************************************************)
EXTENDS Naturals

CONSTANTS
  Keys,        \* what a view can be about
  MaxUses,     \* clicks and failures
  NoKey        \* closed, empty, no request yet

ASSUME ViewsAssumption == NoKey \notin Keys \cup [to : Keys, about : Keys] /\ MaxUses \in Nat

\* modal: it can be closed, and covers the page while it is open; empties: opening it empties
\* it; failEmpties: so does a failed load; acts: it offers a request about what it shows;
\* blocked: not while loading; barred: not after a failed load; byShown: the request is
\* addressed by what is shown, not by the key; reloads: what is loaded after the request.
List == [modal |-> FALSE, empties |-> FALSE, failEmpties |-> FALSE, acts |-> FALSE,
         blocked |-> FALSE, barred |-> FALSE, byShown |-> TRUE, reloads |-> "nothing"]

\* The recordings of a range; requests about one reload the range of their own closure.
RecordingsOfRange == [List EXCEPT !.acts = TRUE, !.reloads = "key of the click"]
\* The log of a recording, and its Drive files, in one modal.
HistoryLogs == [List EXCEPT !.modal = TRUE, !.empties = TRUE]
HistoryDrive == [List EXCEPT !.modal = TRUE]
\* A video's title and description, in a form that is saved to the video of the modal.
VideoForm == [List EXCEPT !.modal = TRUE, !.empties = TRUE, !.acts = TRUE,
                          !.blocked = TRUE, !.barred = TRUE, !.byShown = FALSE]
\* A playlist's videos, removed from the playlist of the modal.  The mutant does not empty
\* the list when it opens.
PlaylistItemsKept == [List EXCEPT !.modal = TRUE, !.failEmpties = TRUE, !.acts = TRUE, !.byShown = FALSE]
PlaylistItems == [List EXCEPT !.modal = TRUE, !.empties = TRUE, !.failEmpties = TRUE, !.acts = TRUE, !.byShown = FALSE]
\* A folder's files; a folder is created in the one that is shown.
FolderFiles == [List EXCEPT !.acts = TRUE, !.reloads = "shown at the click"]
\* Statistics and uploads of so many months.
StatsOfMonths == List
UploadsOfMonths == List
\* The log of a workspace, and the colleagues it suggests.
WorkspaceActivity == List
WorkspaceSuggestions == List
\* Accounts by search; a request reloads by what is typed.
AccountsFound == [List EXCEPT !.acts = TRUE, !.reloads = "typed"]
\* What will be done with the next meetings, by version of the settings.
UpcomingPredictions == List

AllViews == {RecordingsOfRange, HistoryLogs, HistoryDrive, VideoForm, PlaylistItems, FolderFiles, StatsOfMonths,
             UploadsOfMonths, WorkspaceActivity, WorkspaceSuggestions, AccountsFound, UpcomingPredictions}

VARIABLES
  view,
  key,         \* what the view is about
  content,     \* the key whose data it holds
  loading,     \* its flag
  loadFailed,  \* the last load failed
  loads,       \* loads[k]: how many loads of k are on their way
  acts,        \* acts[k]: how many requests, by what their closure will reload
  raced,       \* loads were under way at once, or an old key was loaded again
  sent,        \* the last request: addressed to a key, about the data of one
  uses

viewVars == <<view, key, content, loading, loadFailed, loads, acts, raced, sent, uses>>

ViewsTypeOK ==
  /\ view \in AllViews /\ {key, content} \subseteq Keys \cup {NoKey}
  /\ {loading, loadFailed, raced} \subseteq BOOLEAN
  /\ loads \in [Keys -> 0..MaxUses] /\ acts \in [Keys -> 0..MaxUses]
  /\ (sent = NoKey \/ sent \in [to : Keys, about : Keys]) /\ uses \in 0..MaxUses

NoneRunning(requests) == \A k \in Keys : requests[k] = 0
Quiet == NoneRunning(loads) /\ NoneRunning(acts)

ViewsInit ==
  /\ view \in AllViews /\ key = NoKey /\ content = NoKey /\ loading = FALSE /\ loadFailed = FALSE
  /\ loads = [k \in Keys |-> 0] /\ acts = loads /\ raced = FALSE /\ sent = NoKey /\ uses = 0

Use == uses < MaxUses /\ uses' = uses + 1

\* setLoading(true) and the request.
StartLoad(k) ==
  /\ loads' = [loads EXCEPT ![k] = @ + 1] /\ loading' = TRUE /\ loadFailed' = FALSE

ChooseKey(k) ==
  /\ Use /\ (view.modal => key = NoKey) /\ k # key
  /\ key' = k /\ StartLoad(k) /\ content' = IF view.empties THEN NoKey ELSE content
  /\ raced' = (raced \/ ~Quiet) /\ UNCHANGED <<view, acts, sent>>

CloseView ==
  /\ view.modal /\ key # NoKey /\ key' = NoKey
  /\ UNCHANGED <<view, content, loading, loadFailed, loads, acts, raced, sent, uses>>

LoadOfKeyArrives(k) ==
  /\ loads[k] > 0 /\ loads' = [loads EXCEPT ![k] = @ - 1]
  /\ content' = k /\ loading' = FALSE
  /\ UNCHANGED <<view, key, loadFailed, acts, raced, sent, uses>>

LoadOfKeyFails(k) ==
  /\ Use /\ loads[k] > 0 /\ loads' = [loads EXCEPT ![k] = @ - 1]
  /\ content' = (IF view.failEmpties THEN NoKey ELSE content) /\ loading' = FALSE /\ loadFailed' = TRUE
  /\ UNCHANGED <<view, key, acts, raced, sent>>

Act ==
  /\ Use /\ view.acts /\ key # NoKey /\ content # NoKey
  /\ (view.blocked => ~loading) /\ (view.barred => ~loadFailed)
  /\ sent' = [to |-> IF view.byShown THEN content ELSE key, about |-> content]
  /\ acts' = [acts EXCEPT ![IF view.reloads = "key of the click" THEN key ELSE content] = @ + 1]
  /\ UNCHANGED <<view, key, content, loading, loadFailed, loads, raced>>

\* The closure of the click loads again, whatever the view is about by now.
ActDone(k) ==
  /\ acts[k] > 0 /\ acts' = [acts EXCEPT ![k] = @ - 1]
  /\ CASE view.reloads = "nothing" -> UNCHANGED <<key, loads, loading, loadFailed, raced>>
       [] view.reloads = "typed" -> /\ \E typed \in Keys : key' = typed /\ StartLoad(typed)
                                    /\ raced' = (raced \/ ~NoneRunning(loads))
       [] OTHER -> StartLoad(k) /\ UNCHANGED key /\ raced' = (raced \/ ~NoneRunning(loads) \/ k # key)
  /\ UNCHANGED <<view, content, sent, uses>>

ActFails(k) ==
  /\ Use /\ acts[k] > 0 /\ acts' = [acts EXCEPT ![k] = @ - 1]
  /\ UNCHANGED <<view, key, content, loading, loadFailed, loads, raced, sent>>

ViewsNext ==
  \/ Act \/ CloseView
  \/ \E k \in Keys : ChooseKey(k) \/ LoadOfKeyArrives(k) \/ LoadOfKeyFails(k) \/ ActDone(k) \/ ActFails(k)

-----------------------------------------------------------------------------
\* A request is addressed to the thing whose data the user saw (a video's form is saved to
\* that video, an item is removed from its playlist), and a view at rest shows its own key;
\* unless two loads were under way at once, an old closure loaded its own key again, or the
\* last load failed.
ViewsActOnTheirOwn ==
  /\ sent # NoKey /\ ~raced => sent.to = sent.about
  /\ Quiet /\ ~raced /\ ~loadFailed /\ key # NoKey => content = key
=============================================================================
