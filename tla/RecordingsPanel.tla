-------------------------- MODULE RecordingsPanel --------------------------
(***************************************************************************)
(* The table of Zoom recordings, for one recording: its sync log and Drive *)
(* backup on the server, what the table has of them, the polling while the *)
(* table believes that something runs, and the user's requests.            *)
(***************************************************************************)
EXTENDS Naturals

CONSTANTS MaxAsked, MaxServerSteps, MaxFailures   \* requests of a kind at once; bounds

ASSUME PanelAssumption == {MaxAsked, MaxServerSteps, MaxFailures} \subseteq Nat

VARIABLES
  serverHas,     \* serverHas.logs, serverHas.drive: the states of the sync log and of the backup
  shown,         \* the same, as the table has them
  inFlight,      \* inFlight[kind][i]: "off", "asked", or the answer that is on its way
  checking,    \* a request to check the video's processing is on its way
  posts,         \* posts[kind]: the user's request
  serverSteps, failures

panelVars == <<serverHas, shown, inFlight, checking, posts, serverSteps, failures>>

LogStates == {"none", "UPLOADING", "PROCESSING", "COMPLETED", "LINKED", "FAILED", "RETRY"}
DriveStates == {"none", "pending", "uploading", "done", "failed"}
Posts == {"sync", "backup", "link", "unlink"}
Requests == 1..MaxAsked

PanelTypeOK ==
  /\ \A record \in {serverHas, shown} : record.logs \in LogStates /\ record.drive \in DriveStates
  /\ inFlight \in [{"logs", "drive"} -> [Requests -> {"off", "asked"} \cup LogStates \cup DriveStates]]
  /\ posts \in [Posts -> {"idle", "sent", "done", "refused"}]
  /\ checking \in BOOLEAN /\ serverSteps \in 0..MaxServerSteps /\ failures \in 0..MaxFailures

PanelInit ==
  /\ serverHas \in [logs : {"none", "LINKED"}, drive : {"none"}] /\ shown = serverHas
  /\ inFlight = [kind \in {"logs", "drive"} |-> [i \in Requests |-> "off"]] /\ checking = FALSE
  /\ posts = [p \in Posts |-> "idle"] /\ serverSteps = 0 /\ failures = 0

-----------------------------------------------------------------------------
(* The server, as the other modules have it in detail *)

ServerStep(record) ==
  /\ serverSteps < MaxServerSteps /\ serverSteps' = serverSteps + 1 /\ serverHas' = record
  /\ UNCHANGED <<shown, inFlight, checking, posts, failures>>

\* A webhook or a retry, the upload's end, the video's processing, a linked row deleted elsewhere.
LogMoves(s) ==
  /\ s \in CASE serverHas.logs = "none" -> {"UPLOADING"}
             [] serverHas.logs = "UPLOADING" -> {"PROCESSING", "FAILED", "RETRY"}
             [] serverHas.logs = "PROCESSING" -> {"COMPLETED", "FAILED"}
             [] serverHas.logs = "RETRY" -> {"UPLOADING", "FAILED"}
             [] OTHER -> {}
  /\ ServerStep([serverHas EXCEPT !.logs = s])

BackupMoves(s) ==
  /\ s \in CASE serverHas.drive = "none" -> {"pending"}
             [] serverHas.drive = "pending" -> {"uploading"}
             [] serverHas.drive = "uploading" -> {"done", "failed"}
             [] serverHas.drive = "failed" -> {"pending"}
             [] OTHER -> {}
  /\ ServerStep([serverHas EXCEPT !.drive = s])

\* refresh-status: the video may be ready.
RefreshStatus ==
  /\ checking /\ checking' = FALSE
  /\ \/ serverHas.logs = "PROCESSING" /\ serverHas' = [serverHas EXCEPT !.logs = "COMPLETED"]
     \/ UNCHANGED serverHas
  /\ UNCHANGED <<shown, inFlight, posts, serverSteps, failures>>

\* A post is accepted or refused; a sync or a link may be refused by the row's state.
PostArrives(p) ==
  /\ posts[p] = "sent"
  /\ \/ /\ posts' = [posts EXCEPT ![p] = "done"]
        /\ serverHas' = CASE p = "sync" -> [serverHas EXCEPT !.logs = "UPLOADING"]
                       [] p = "backup" -> [serverHas EXCEPT !.drive = "pending"]
                       [] p = "link" -> IF serverHas.logs \in {"none", "FAILED", "RETRY"}
                                       THEN [serverHas EXCEPT !.logs = "LINKED"] ELSE serverHas
                       [] p = "unlink" -> IF serverHas.logs = "LINKED"
                                         THEN [serverHas EXCEPT !.logs = "none"] ELSE serverHas
        /\ UNCHANGED failures
     \/ /\ failures < MaxFailures /\ failures' = failures + 1
        /\ posts' = [posts EXCEPT ![p] = "refused"] /\ UNCHANGED serverHas
  /\ UNCHANGED <<shown, inFlight, checking, serverSteps>>

-----------------------------------------------------------------------------
(* Requests of the table *)

FreeRequests(kind) == {i \in Requests : inFlight[kind][i] = "off"}
FirstFree(kind) == CHOOSE i \in FreeRequests(kind) : \A j \in FreeRequests(kind) : i <= j
CanFetch == FreeRequests("logs") # {} /\ FreeRequests("drive") # {}

\* fetchLogs and fetchDriveBackups.
Fetched == [kind \in DOMAIN inFlight |-> [inFlight[kind] EXCEPT ![FirstFree(kind)] = "asked"]]

PanelRead(kind, i) ==
  /\ inFlight[kind][i] = "asked" /\ inFlight' = [inFlight EXCEPT ![kind][i] = serverHas[kind]]
  /\ UNCHANGED <<serverHas, shown, checking, posts, serverSteps, failures>>

\* Every answer is taken, whichever request it belongs to.
PanelArrives(kind, i) ==
  /\ inFlight[kind][i] \notin {"off", "asked"}
  /\ shown' = [shown EXCEPT ![kind] = inFlight[kind][i]] /\ inFlight' = [inFlight EXCEPT ![kind][i] = "off"]
  /\ UNCHANGED <<serverHas, checking, posts, serverSteps, failures>>

PanelFails(kind, i) ==
  /\ failures < MaxFailures /\ failures' = failures + 1
  /\ inFlight[kind][i] # "off" /\ inFlight' = [inFlight EXCEPT ![kind][i] = "off"]
  /\ UNCHANGED <<serverHas, shown, checking, posts, serverSteps>>

-----------------------------------------------------------------------------
(* Polling *)

BackupActive == shown.drive \in {"pending", "uploading"}

\* The mutant forgets that a failed sync may have a retry.
ActivePollingOfSyncs == shown.logs \in {"UPLOADING", "PROCESSING"} \/ BackupActive
ActivePolling == shown.logs \in {"UPLOADING", "PROCESSING", "RETRY"} \/ BackupActive

Poll15s ==
  /\ ActivePolling /\ CanFetch /\ inFlight' = Fetched
  /\ checking' = (checking \/ shown.logs = "PROCESSING")
  /\ UNCHANGED <<serverHas, shown, posts, serverSteps, failures>>

-----------------------------------------------------------------------------
(* The user: the buttons that the row has, by what is shown *)

Syncing == posts["sync"] # "idle" \/ shown.logs \in {"UPLOADING", "PROCESSING"}
Completed == shown.logs \in {"COMPLETED", "LINKED"}
Linking == posts["link"] # "idle" \/ posts["unlink"] # "idle"

Offered(p) ==
  CASE p = "sync" -> ~Completed /\ (~Syncing \/ (posts["sync"] = "idle" /\ shown.logs \in {"FAILED", "RETRY"}))
    [] p = "link" -> ~Completed /\ ~Syncing /\ ~Linking
    [] p = "unlink" -> shown.logs = "LINKED" /\ ~Linking
    [] p = "backup" -> posts["backup"] = "idle"

ClickPost(p) ==
  /\ failures < MaxFailures /\ failures' = failures + 1
  /\ Offered(p) /\ posts' = [posts EXCEPT ![p] = "sent"]
  /\ UNCHANGED <<serverHas, shown, inFlight, checking, serverSteps>>

\* fetchAllData follows a post that was done; the answer to a backup is its rows.
PostAnswered(p) ==
  /\ posts[p] \in {"done", "refused"} /\ posts' = [posts EXCEPT ![p] = "idle"]
  /\ IF posts[p] = "done" /\ p = "backup"
     THEN shown' = [shown EXCEPT !.drive = "pending"] /\ UNCHANGED inFlight
     ELSE /\ UNCHANGED shown
          /\ IF posts[p] = "done" THEN CanFetch /\ inFlight' = Fetched ELSE UNCHANGED inFlight
  /\ UNCHANGED <<serverHas, checking, serverSteps, failures>>

\* Reload, or another range.
FetchAll ==
  /\ failures < MaxFailures /\ failures' = failures + 1
  /\ CanFetch /\ inFlight' = Fetched
  /\ UNCHANGED <<serverHas, shown, checking, posts, serverSteps>>

PanelNext ==
  \/ \E s \in LogStates : LogMoves(s)
  \/ \E s \in DriveStates : BackupMoves(s)
  \/ \E p \in Posts : ClickPost(p) \/ PostArrives(p) \/ PostAnswered(p)
  \/ \E kind \in DOMAIN inFlight, i \in Requests : PanelRead(kind, i) \/ PanelArrives(kind, i) \/ PanelFails(kind, i)
  \/ RefreshStatus \/ Poll15s \/ FetchAll

-----------------------------------------------------------------------------
\* The table does not say for ever that a sync runs or waits for a retry, or that files are
\* being copied, when the server has it otherwise: late answers of older requests, lost ones
\* and refused posts included.  (It may say for ever that nothing runs when something does:
\* then it does not poll.)
PanelCatchesUp == <>[](ActivePolling \/ shown.logs = "RETRY" => shown = serverHas)
=============================================================================
