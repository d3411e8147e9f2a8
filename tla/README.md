# N3 Connect: a TLA+ verification

N3 Connect (`src/`) has two halves: it moves Zoom cloud recordings to YouTube,
Google Drive and OneDrive, and it runs live word clouds for an audience. This
directory models the parts of the backend and of the web pages whose correctness
depends on the order of events, checks them with TLC on small instances and proves
the safety properties of the backend and of the pages with TLAPS for all instances.

Contents: [the system](#1-the-system), [the modules](#2-the-modules),
[ZoomSync](#3-zoomsync-the-sync-log), [DriveBackup](#4-drivebackup),
[the services](#5-the-services), [the screens](#6-the-screens),
[the proofs](#7-what-is-proved), [where documents and code differ](#8-where-documents-and-code-differ),
[what is not modelled](#9-what-is-not-modelled), [the plan](#10-the-plan).

## 1. The system

The backend is one Node process (NestJS) over PostgreSQL (Prisma). Nothing runs in
parallel, but every `await` lets other work in: HTTP requests, webhooks, timers and
promise chains interleave between any two awaits. There are almost no locks and few
transactions. What keeps the data right is conditional updates, checks made shortly
before a write, in-memory maps and sets (lost in a restart), and the scheduler, which
comes back to rows that were left behind. The pages (Next.js) are clients of its HTTP
interface and of two socket gateways; they poll, keep copies, and act on answers that
come late, out of order or not at all.

Sources are under `src/backend/src/`, and under `src/frontend/` for pages.

| Component | State it keeps | Operations | What is hard | Modules |
|---|---|---|---|---|
| **Sync log**: `zoom/zoom.service.ts`, `zoom.controller.ts`, `zoom-sync-scheduler.service.ts`, `youtube/youtube.service.ts` | `ZoomSyncLog` row per recording: status, video id, `nextRetryAt`, `autoRetryCount`, `source` | manual sync, webhook, automatic retry, upload, status check, failure handling, listing of recordings | any number of chains of awaits on one row; two layers that record failures; retries claimed before they run; restarts; a token kept in memory | `ZoomSync`, `ZoomSyncNotices`, `SyncPromise`, `Listing` |
| **YouTube links**: `zoom/youtube-match*.ts` | the same row (`source = linked`), channel video cache | suggest, link, unlink, dismiss | check then write against a running sync | `ZoomSync`, `Matching` |
| **Captions**: `zoom/caption*.ts` | caption columns of the row | `tryUpload`, transcript webhook, sweep, by hand | several attempts at once; decisions about a row read earlier | `Captions` |
| **Drive backup**: `zoom/drive-backup*.ts` | `DriveBackup` row per file and destination; `queues`, `inProgress` in memory; upload sessions at the store | queue, kick, drain, process, sweep | promise chain per account, stale sweep, failed writes, resumed uploads | `DriveBackup` |
| **Sync rules and webhook owner**: `zoom/sync-rules*.ts`, `workflow-template.ts`, `webhook-owner.ts` | rules, settings | first matching rule, merged options, owner of an event, upcoming meetings | edits between the prediction, the webhook and its retries | `SyncPlan` |
| **Quota and channel cache**: `youtube/youtube.service.ts` | `YoutubeQuotaUsage`, cached videos | reserve, record, refresh cache | read, then spend; refresh against edits | `Quota`, `Channel` |
| **Connections**: `connections/`, `integrations/`, `google-drive/` | `Connection` rows, tokens, the mark of a refused token | connect, authorize, disconnect, mark invalid | read, then write; a mark written late; callbacks without a session | `TokenMark`, `Granting` |
| **Topics, questions, answers**: `topics/`, `questions/`, `public/` | topic, current question, question status and order, responses, words | open, close, reorder, answer, reveal, delete | two hosts, several tabs of a visitor, check then insert | `Answers`, `Editor`, `EditPage`, `RateLimit` |
| **Realtime**: `realtime/` | rooms, snapshot timers, joined counters | join, leave, broadcast | snapshots computed asynchronously; sockets that drop | `Answers`, `PresentPage`, `JoinPage` |
| **Auth, admin, workspaces**: `auth/`, `admin/`, `workspaces/` | users, login codes, memberships, active workspace | log in, lock, change password, demote, switch | check then write; in-memory codes | `Accounts`, `Session` |
| **Notifications**: `notifications/` | notifications, email preferences | create, list, mark, prefer | the bell's own copy | `ZoomSyncNotices`, `Bell`, `EmailCopies` |
| **Analytics**: `analytics/`, `lib/product-analytics.ts` | consent and its cache, events that wait | capture, flush, forget | consent withdrawn while a library loads or a row is read | `Consent`, `ConsentCache` |
| **Pages**: `app/`, `components/`, `lib/` | what they show and what is being edited | requests, polls, sockets, autosave | late, lost and overlapping answers; closures of an old render | `PresentPage` to `WorkflowPage` below |
| **YouTube statistics, workflow engine, AI, QR codes, mail delivery** | rows nobody decides on | send, render | I/O | none |

How they interact. Zoom's webhook starts a sync, a backup and, later, captions of the same
recording. A status check that completes a row calls the listeners registered with
`onSyncCompleted` (captions, workflow engine, activity). The scheduler ticks every minute
and runs, one after the other: due retries, status checks, the caption sweep and the
backup sweep. Connections decide whether any of them may talk to YouTube, Google or
Microsoft. The session half (topics, questions, answers, realtime) shares only users
and workspaces with the recording half.

`PROJECT.json` lists the hazards of this code at the lines where they bite, with the
properties that cover each, or the reason none does.

## 2. The modules

| Module | What it is |
|---|---|
| `ZoomSync` | the sync log and every process that writes it |
| `ZoomSyncNotices` | `ZoomSync` with a history of announcements |
| `SyncPromise`, `ZoomSyncPromise` | what the sync log promises of a recording, and the refinement mapping of `ZoomSync` to it |
| `ZoomSync_proofs` | TLAPS: type correctness and the three safety invariants of `ZoomSync`, and the refinement of `SyncPromise` |
| `DriveBackup` | the backup rows, the promise chains, the sweep, the stores |
| `DriveBackup_proofs` | TLAPS: type correctness and one upload at a time; what the stores have of each file |
| `Captions`, `Matching`, `SyncPlan`, `Listing` | beside the sync: captions, links of several recordings, what is done with a recording and why, the recordings of a range |
| `Quota`, `Channel`, `TokenMark`, `Granting` | YouTube's quota and the cached channel; the token of a connection and its mark; Google Drive's authorizations |
| `Accounts`, `ConsentCache` | people and what they may do; the backend's events |
| `Answers`, `RateLimit` | one topic with its audience; the guard of the public endpoints |
| `PresentPage`, `JoinPage`, `Editor`, `EditPage` | the screens of a word cloud; `Editor` has the autosave and the orders on the server, `EditPage` the page's list and panel |
| `RecordingsPanel`, `SyncDialog`, `WorkflowPage`, `IntegrationsPage`, `Views` | the pages of recordings and connections; `Views` has the twelve places that load by a key |
| `Bell`, `EmailCopies`, `Session`, `Consent` | what every page of the app carries |
| `Services_proofs`, `Parts_proofs` | TLAPS: `Captions`, `Quota`, `Matching` and `SyncPlan`; `RateLimit`, `ConsentCache`, `Accounts`, `Granting`, `Channel` and `Listing`, and with them the types of all the services, as `MCServices` composes them |
| `Sums_proofs`, `Answers_proofs`, `Screens_proofs` | TLAPS: sums over finite sets; `Answers`; `PresentPage` and `Editor` |
| `Pages_proofs` | TLAPS: all the screens, as `MCScreens` composes them |
| `MCZoomSync`, `MCDriveBackup`, `MCServices`, `MCScreens` | values for TLC; the last two put the services, and the screens, into one run each |

Conventions. A process is a *chain of awaits*; an action is what a chain does between two
awaits, including the database call it ends in, which takes effect atomically. Variables
named *history* in their comments are not in the program: they remember what the
properties are about. A definition named after another with a suffix (`NextEndSkipping` for
`NextEnd`) or marked *Mutant* is a plausible bug, used only to see that a property notices
it; no specification refers to it. Names are unique across modules that are
composed, so some states carry another name than in the code; the comments at the
variables say which field they are.

## 3. ZoomSync: the sync log

### State

| Variable | In the code |
|---|---|
| `row[r]` | the `ZoomSyncLog` row: `syncStatus` (`NONE`: no row), `youtubeVideoId`, `source = "linked"`, `autoRetryCount`, `nextRetryAt != null` |
| `fresh[r]` | the claimed retries for which `syncStartedAt <= claimedAt` still holds; it replaces the two timestamps compared in `handleRetryError` |
| `proc[p]` | a running chain of awaits: a sync (manual, webhook, as `system`, or a claimed retry) or a status check |
| `links` | `link` requests between their last check and their upsert |
| `yt[v]` | what YouTube answers about a video |
| `configured` | whether a read of the YouTube connection finds an active one |
| `news[r]` | history: what the account is owed (`failed`: a failure to be retried or reported, `ready`: an announcement; `dropped`: the process that owed it is gone) |

### Actions

A sync: `StartManual`, `StartWebhook`, `StartSystem` or `Claim` and `CheckQuota`;
`FetchFails` or `BeginSync` (`processRecordingSync`'s upsert); `DownloadFails`, `Caught` and
`MarkFailed` (its catch) or `StartUpload`; `SkipUpload`, `InsertVideo` and `RecordVideo`, or
`InsertFails` and `MarkUploadFailed` (`uploadVideoFromStream`). A failed retry that never
reached the row goes through `RetryError` (`handleRetryError`). A failure ends in
`HandleFailure`, then `ScheduleRetry` or `NotifyFailed` (`handleSyncFailure`). A check:
`StartCheck`, `AskYoutube` or `CheckUnconfigured`, one of the `Apply…` actions, `Announce`.
Links: `RequestLink`, `WriteLink`, `Unlink`. The environment: `VideoChanges`, `Reconnect`,
`Restart`.

Where the code's two awaits are one step here: `runDueRetries` reads a row and claims it
with an update conditional on the `nextRetryAt` it read, so a change in between makes the
claim fail and the pair is atomic; `unlink`'s read and delete (a row's `source` never goes
back); `createWebhookReceivedLog`; and `handleRetryError`'s read and the write of its
error, which changes nothing the model keeps.

Abstracted: time (a scheduled retry may be due at any moment after it was scheduled, a
superset of the real schedule), texts, privacy, playlists, progress, `failureCount` and
`attempt`, the choice of the account (webhook owner), and the amount of quota.
`autoRetryCount` saturates one above the maximum: overlapping syncs can raise it without
end, and the code only compares it with the maximum.

### Properties and runs

| Property | Says |
|---|---|
| `UploadHasOwner` | a row is UPLOADING only while a sync that will end it runs, unless the host restarted or the upload was skipped for want of a connection |
| `FailureIsAnswered` | a FAILED row is scheduled or reported, or a process that will do so runs |
| `CompletionIsTold` | a row moved to COMPLETED by a check is announced, or that check still runs |
| `UploadEnds`, `FailureEndsAnswered`, `RetryIsTaken` | the same as liveness: uploads end, failures get their answer, scheduled retries are taken |

The abstract specification `SyncPromise` states what the log promises whoever writes it: a
status and a video per recording, what the account is owed, and the moves they may make
together. A completion or a failure is not entered without owing word of it (save what
`MayLose` allows); what is owed is settled by an answer, or overtaken by a new start, video
or link; a completion does not follow a completion; and only an upload or a link gives a
row its video. `ZoomSyncPromise` maps `ZoomSync` to it (`status` and `video` from `row`, `owed`
from `news`), and `KeepsPromise` is the refinement: every step of every chain is a move of the
promise or stutters.

Why the invariants are not obvious. Both `processRecordingSync` and `uploadVideoFromStream` record
failures and each relies on what the other did; the decision to retry is made on a row
that another chain may have reset; a claimed retry has cleared the schedule that would
have answered for the failure. The exceptions in the properties are named by the
`dropped` value of `news`, which is set only in `Restart`, in `SkipUpload` when YouTube is not
connected, and in `CheckUnconfigured`.

| Run | Instance | Question |
|---|---|---|
| `sync_safety` | 1 recording, 2 videos, 2 chains, 1 retry; no restart, no disconnection; 2.2 million states | do the safety invariants hold for every interleaving of two chains, and is the promise kept? |
| `sync_host` | 1 video, with restarts and disconnections | do those break only what the exceptions name? |
| `sync_liveness` | 1 video, restarts, `FairSpec` without links | do uploads, failures and retries come to an end? |
| `restart_loses`, `linked_twice`, `told_twice` | as above | see section 8 |

Why the bounds are enough. Rows do not interact except through the check that a video is
linked once, so one recording suffices for these properties. Two chains give every pair
of overlapping operations. Two videos let a row's video change while a check asks about
the old one. One retry shows both a retry that remains and a budget that is spent. The
proofs cover the rest: any number of recordings, videos, chains and retries.
`UnlinkedSpec` removes `RequestLink` from the liveness run to keep its graph
small; links only end uploads and failures.

Fairness (`Fairness`): weak for every running chain (HTTP calls and database calls
answer or fail, so an await resolves), strong for the claim of a scheduled retry (the
scheduler ticks for ever, and a claim needs no slot in the code; here it competes for a
finite set of slots, which only strong fairness repairs). Nothing is assumed of users,
webhooks, YouTube, restarts or the connection.

## 4. DriveBackup

### State

| Variable | In the code |
|---|---|
| `store[f]` | how the file is uploaded: one request (`simpleUpload`), Google's resumable session, OneDrive's session; chosen by size and destination, fixed |
| `row[f]` | the `DriveBackup` row: `status`, `userId`, `errorCode = networkError`, `attempts`, `uploadUrl` |
| `queues[u]` | the map `queues`: the last promise of the account's chain |
| `drain[d]` | a link of such a chain: waiting behind another link (`after`), looking for a row, or somewhere in `process` |
| `inProgress` | the set `inProgress` |
| `asker[q]` | a running call of `queue` (webhook or by hand), between its `findUnique` and `upsert` |
| `sweep` | the scheduler's running sweep with the rows as it read them |
| `session[s]` | an upload session as its store knows it: bytes it has, and whether they are the file's |
| `copies`, `again`, `faults` | history: complete files in the store; a finished save was forgotten; restarts and failed writes so far |

### Actions

`queue`: `Ask`, `Look`, `Upsert`, `QueueKick`. `kick`: `Kick` (used by `QueueKick` and
`SweepKick`) and `EndDrain` (its `catch` and `finally`). `drain`: `Find`, `DrainEnds`. `process`:
`Begin`, `Prepare`, then `SendSimple`, or `AskStore`, `OpenZoom`, `CreateSession`,
`KeepSession`, `SendByte`, `SendEnds`; `WriteDone` or `WriteFailed`. `sweep`: `SweepRead`,
`SweepLook`, `SweepWrite`, `SweepKick`, `SweepEnds`. Every write may throw instead of taking
effect (`WriteThrows`, `UpsertThrows`, `SweepThrows`), and the host may restart (`Restart`);
both count against `MaxFaults`. A store may forget a session (`Expire`).

Details that matter. `inProgress.add` comes before the first update, which is outside
the `try`; the sweep reads all rows first and looks at `inProgress` row by row, with awaits in
between; `queue` looks at a row in one await and upserts it in the next; Google reports a
finished session (200) and the code takes its file, OneDrive does not; a question to
OneDrive that fails starts a new session, one to Google fails the attempt; a Range that Zoom
ignores means a new session from byte 0.

Abstracted: time (an interrupted or failed row may be due at any sweep; the code asks for
60 minutes, or 30 minutes per attempt), the page of 100 rows of the last 7 days, the age
order of pending rows, names and folders, reads that throw.

### Properties and runs

| Property | Says |
|---|---|
| `OneAtATime` | two drains of one account never run at once, although each kick adds a link and each ending link may remove the chain from the map |
| `CopiesAreExact` | a complete session has the file's bytes in order, however often it was resumed |
| `SavedOnce` | a large file enters Google Drive once, unless its session expired when complete or the row was queued again when done |
| `DoneIsSaved` | a row that says done has a file in the store |
| `UploadingEnds`, `FailedIsRetried`, `PendingIsTaken` | interrupted uploads are resumed, transient failures retried, queued rows taken |

| Run | Instance | Question |
|---|---|---|
| `drive_safety` | 1 file of any store, 2 bytes, 2 links, 1 request, 1 fault; 2.4 million states | do the invariants hold? |
| `drive_liveness` | 1 small file, 2 attempts, 2 faults, `FairSpec` | does every row go on? |
| `drive_again`, `drive_stuck` | as above | see section 8 |

Why the bounds are enough. Two bytes give a session that has nothing, a part or all. Two
links give a running and a waiting one; a third waits like the second. The properties
are about one row each; rows of one account meet only in the order they are taken, which
`OneAtATime` is about, and that needs two links, not two rows. Faults are bounded because a
host that restarts between any two awaits for ever finishes nothing; two allow a fault
while recovering from the first.

Fairness: weak for drains, requests and the sweep (awaits resolve); strong for a sweep that
finds a given row due (the scheduler ticks for ever and the row gets older), and for kicks
(they need no slot in the code). With one row nothing is said about one row starving
another.

## 5. The services

`MCServices` puts twelve modules into one run, `services`. They share no variable, and no
property speaks of two of them, so their steps commute and the initial state chooses which
one runs (`part`): every state of every module is reached, and none of the useless products.
What couples them in the code is given to each as nondeterminism: that a sync replaces a
video is an action of `Captions`, that an upload takes quota without looking is one of
`Quota`, that a video is uploaded is one of `Matching`.

| Module | How state and actions correspond to the code | Property and what it says |
|---|---|---|
| `Captions` | `tryUpload` split at its awaits (`tries`), called by the completed sync, the transcript webhook, the user and the sweep; time in units of the sweep's period | `CaptionsSettle`: once nobody asks any more, every recording is captioned, failed for good, or out of the 48 hours; `AttemptsHold`: a recording's attempts stay within `CAPTION_MAX_ATTEMPTS` and two for each request (its own attempt and the one that the sweep makes of the status it leaves), although the sweep decides on rows as it read them |
| `Quota` | a request is made, then booked on the day it is booked; what looks first is an automatic retry, an upload by hand, an upload of captions | `QuotaOvershoot`: overlapping uploads exceed the day's quota by what all but one of them cost and by what did not look, and by no more |
| `Channel` | `refreshChannelVideos` reads page by page and replaces the cache, shared by requests that come meanwhile; edits go to YouTube, then into the cache | `CacheKeepsUp`: no row shows a video as it was before a refresh that has ended began, save one whose edit was not written yet |
| `Listing` | `splitIntoMonthWindows`, batches of windows, `getAccessToken` and its cache, the connection changing account | `ListIsWhole`: a list has every recording of the range that was there; `TokenServes`: the token in memory is not too old |
| `TokenMark` | `save` reads, then upserts, then clears the mark; a call's `recordTokenError` is written later | `TokenMarkSettles`: the mark ends by saying the truth about the stored token |
| `Granting` | `authUrl`, the callback's awaits (verify, token, row, save), Google revoking, calls that mark | `GrantedAsBegun`: a stored token is the one granted to the account that began, for its workspace |
| `Accounts` | sign-in, codes, resets; an admin's request passes the guard, reads the target, counts the others, writes | `AdminRemains`: a super admin who can sign in is left, unless two removals overlapped |
| `SyncPlan` | settings and rules, `resolveWebhookAccounts`, `firstMatchingRule`, the options of the webhook and of its retries, upcoming meetings | `UploadsAsPromised`: the video is what the upcoming meetings told, however often retried and whatever was edited since |
| `Matching` | suggestions and their score, dismissals, `link` in its four awaits, uploads beside it | `LinkedOnce`: no video is given to two recordings, unless two writers overlapped |
| `Answers` | `createResponse` in its awaits, `setCurrentQuestion`, reveal, empty, delete, and what each broadcasts | `CloudIsBacked`: no word counts more answers than there are; `AnswersWithinTabs`: a participant exceeds the limit by the other tabs of its browser at most; `NoEarlyWords`: hidden results are not broadcast; `CurrentStaysOpen`: the current question exists and takes answers |
| `RateLimit` | `IpRateLimitGuard`'s fixed window | `WindowsHold`: at most two windows' worth in any span of a window, and no refusal without a full window before it |
| `ConsentCache` | `send`, `hasConsent` with its entry, `consentChanged` after the write of the row | `WithdrawalHolds`: nothing leaves long after a withdrawal, whatever overlapped |

`ListsKeepUp` (`CacheKeepsUp`, `ListIsWhole`, `TokenServes`), `RightsHold` (`AdminRemains`,
`GrantedAsBegun`) and `LimitsHold` (`WindowsHold`, `WithdrawalHolds`, `AttemptsHold`) are conjunctions of these.

Bounds. Every race in these modules is between two processes, so each has two of what can
overlap (two callers of `tryUpload`, uploads, admins, tabs of one browser, authorizations,
links) and two of what it is about where they can be confused. A third would repeat the roles
of the first two; `Quota` counts what overlaps instead of fixing it. `Max…` constants bound the
operations begun, never what a process does to end one. Month lengths in `Listing`
are those of a winter with a short February; the proof takes any months of 28 to 31 days. 407,000 states.

Fairness. `CaptionsFair`: awaits of `tryUpload` resolve, the sweep's period passes and it runs
(the scheduler ticks for ever). `TokenFair`: saves and calls of YouTube end. Nothing is assumed
of users, nor that a call is ever made, except that `TokenMarkSettles` is about a
connection in use: its slots call again.

## 6. The screens

`MCScreens` does the same with thirteen modules of pages in the run `screens`. A request
is sent with what the code's closure holds, read by the server at some later moment, and
its answer arrives at a third, in any order, or the request fails.

| Module | How state and actions correspond to the code | Property and what it says |
|---|---|---|
| `PresentPage` | the effect of `present/page.tsx` per question: fetch, join, messages, grace, poll, cancellation; the joined counter of `participant.gateway` | `ShowsItsQuestion`: never another question's words; `JoinedIsRoomSize`: the count is the room's; `PollingCatchesUp` |
| `JoinPage` | the fetches, socket and poll of `join/[code]/page.tsx`, one submission at a time | `TabCatchesUp`: a tab without a socket ends on the current question and its own count |
| `Editor` | `lib/autosave.ts` per question, the page's creations, removals, reorders, and `QuestionsService` under the unique constraint on order | `RenumberingFits`: no renumbering meets the constraint; `LastEditWins`; `EditsAreSent` |
| `EditPage` | the editor's list, selection and panel: each handler of `edit/page.tsx` and `QuestionEditPanel` is a request, the server's part, perhaps a reload, and a write of the list | `ListIsStored`: after an overlap with an edit, a failure or settings applied to others, one reload or reordering that runs alone makes the list the server's again; `AppliesAChange`: settings are offered for application only where they were changed |
| `Bell`, `EmailCopies` | polled list and count, marks, pop-ups; switches that show a change first | `BellSettles`; `SwitchesAreStored` |
| `RecordingsPanel`, `SyncDialog` | logs and backups of a recording as the table has them, `ActivePolling`, posts; the dialog's fields by where their values came from | `PanelCatchesUp`: it does not say for ever that something runs; `CarriesNothingOver`: no choice made for another recording is used |
| `WorkflowPage` | the settings form, rules and their editor, upcoming meetings with their own loads | `PredictsWhatIsSaved`: a rule is saved with its own fields, and after a change the meetings are asked for again |
| `IntegrationsPage` | cards, the drawer in the address, forms that are all filled together, what a save writes to | `SavesItsOwn`: what is saved for a connection was read from its card or typed in its drawer |
| `Session` | `AuthProvider`, `WorkspaceProvider`, `PreferencesProvider` against the account's row | `ShowsItsAccount`: at rest a tab sends the token, and has the workspace and preferences, of the account it shows |
| `Consent` | `PostHogAnalytics`' effect, its cancelled imports, `setAnalyticsClient` and the events that wait | `OnlyWithConsent`: PostHog learns only what was agreed to, as whom it was |
| `Views` | twelve places that load by a key without cancelling; a view is a record of what its code does differently | `ViewsActOnTheirOwn`: a request is addressed to the thing whose data was on the screen |

`PagesCatchUp`, `ShownIsStored` and `ActsAsAsked` are conjunctions of these. Several name an
exception, usually that two loads were under way at once (`crossed`, `raced`, `apart`, `tangled`): these
are what the code does not protect against, section 8 says with which effect.

Bounds: two keys, questions, people or connections (one and another one), two requests of
a kind in flight (an older and a newer), and enough clicks to leave and come back. In
`EditPage` two handlers overlap once; three, tried on a smaller topic, show nothing more. 389,000
states. Fairness: timers fire, polls repeat and requests are answered or fail, in the page
that is open; nothing of users, and of sockets only the hypothesis in the property that they
stay down.

## 7. What is proved

Eight modules hold theorems. They assume of the constants what the modules they extend
state by name (`ConstantsAssumption`, `DriveAssumption`, `QuotaAssumption` and so on), which the runs
evaluate too. Sets of recordings, videos, processes, files, accounts, drains, requests and sessions
may be of any size, finite or not, except where something is counted: the recordings
of `Captions`, the videos of a channel, the jobs of `Quota`, the tabs of an audience, the words, the listeners
in a room and the accounts are finite, as rows and sockets are. The other assumptions say that a value standing for
"none" is not one of the values (`NoMatch`, `Unset`, `NoAccount`, `Nobody`), that the bootstrap address is an
account's, that a publication is scheduled at least some time ahead (`MIN_SCHEDULE_LEAD_MS`,
`zoom/sync-rules.ts:67`), that months have 28 to 31 days, and that some
range is asked for.

| Theorem | Module | Says |
|---|---|---|
| `TypeCorrect` | `ZoomSync_proofs` | `Spec => []TypeOK` |
| `UploadsAreOwned`, `FailuresAreAnswered`, `CompletionsAreTold` | | `[]UploadHasOwner`, `[]FailureIsAnswered`, `[]CompletionIsTold` |
| `LogKeepsPromise` | | `Spec => KeepsPromise`: the sync log implements `SyncPromise` |
| `DriveTypeCorrect`, `OneUploadAtATime` | `DriveBackup_proofs` | `[]TypeOK`, `[]OneAtATime` |
| `SavedFilesAreExact`, `DoneRowsAreSaved`, `GoogleHasItOnce` | | `[]CopiesAreExact`, `[]DoneIsSaved`, `[]SavedOnce` |
| `CloudIsAlwaysBacked`, `NoWordsEarly`, `AnswersStayWithinTabs` | `Answers_proofs` | `[]CloudIsBacked`, `[]NoEarlyWords`, `[]AnswersWithinTabs` |
| `CurrentAlwaysStaysOpen` | | the action property `CurrentStaysOpen` |
| `ScreenShowsItsQuestion`, `CountIsRoomSize` | `Screens_proofs` | `[]ShowsItsQuestion`, `[]JoinedIsRoomSize` |
| `RowHasLastEdit`, `RenumberingAlwaysFits` | | `[]LastEditWins`, `[]RenumberingFits` |
| `OvershootIsBounded`, `VideosAreLinkedOnce`, `VideosAreAsPromised` | `Services_proofs` | `[]QuotaOvershoot`, `[]LinkedOnce`, `[]UploadsAsPromised` |
| `LimitsAreKept`, `RightsAreHeld`, `ListsAreCurrent` | `Parts_proofs` | `[]LimitsHold`, `[]RightsHold`, `[]ListsKeepUp` |
| `ServicesTypeCorrect` | | `[]TypeOK` of `MCServices` |
| `ActsAsAlwaysAsked`, `ShownIsAlwaysStored` | `Pages_proofs` | `[]ActsAsAsked`, `[]ShownIsStored` |
| `ScreensTypeCorrect` | | `[]TypeOK` of `MCScreens` |

The specification is each module's own; in `Parts_proofs` it is `Spec` of `MCServices`, and in
`Pages_proofs` that of `MCScreens`, whose steps are steps of every part or leave it as it is (`StepOfEachPart`,
`StepOfEachPage`).

**ZoomSync_proofs.** The three properties are not about the types of rows and slots, but to
follow a chain one must know that it is about a recording at all. The inductive invariant
`IInv` is therefore `TypeInv` (`TypeOK`; a slot that is not idle has a recording; a slot that
waits for YouTube's answer has a video) and, for every recording, `Owed(r)`: the three
duties together. They belong together, because a step that ends one duty begins another
(the sync that owned an upload leaves a failure to answer, the check that wrote COMPLETED
leaves an announcement). Every action moves at most one slot and one row (`Only`, `Moved`): the
duties of other rows stay (`Elsewhere`), and those of its own row are established again, by the
slot's new place or by the row's new state (`Here`, `Compose`). The argument does not depend
on `Restarts` or `Disconnects`, so the theorems hold with and without both.

The refinement needs three more facts, `Besides`: a row that does not exist names no video, a
finished upload has one, and a connection is missing only where it may be. Each action is then
one move of `SyncPromise` on the one row it shows to change (`Shows`), or changes nothing the promise
speaks of (`Unseen`).

**DriveBackup_proofs.** `OneAtATime` says nothing of waiting links, so it is not inductive: when
a link ends, which one starts? `Chains` adds what the promise chains are. `LastLink`: the map
holds the last live link of the account, with nobody behind it, or there is no live link
of it. `Behind`: a waiting link is behind a live link of its own account, and alone there.
`Ordered`: the links can be numbered so that each is behind a smaller one. A kick puts a new
link behind the last (`KickPreserves`); the end of a running link starts the only one behind
it (`EndPreserves`). The delicate case is the `finally` that removes the account from the map
when the link that ends is the last one: there must then be no other live link, or the next
kick would start a second upload. If there were others, take the one with the smallest
number: it does not run (`OneAtATime`), so it waits behind a live link of the account, which is
smaller, hence the ending one; but nobody is behind the last link (`RunningLastIsAlone`; the
smallest number exists because the naturals are well founded). `Work` supplies the types:
a drain past its find has a row that exists, a row that exists has an account, and
so do the rows a sweep has read.

The second half is about files. `FilesOK` says what a link knows of its file. The file is a queued one
of the link's account, so by `OneAtATime` no two links have the same. The session it sends to is its file's and is the
one on the row, if the row has any; what it sends next is what that session lacks; and after
the upload the file is in the store. What is left on rows that no link holds is the history
`SavedOnce` makes exceptions of: a file that Google has is done, or its finished session is on the
row, or the row was queued again, or the session was forgotten.

**Answers_proofs.** For `NoEarlyWords` the invariant carries what a broadcast has read to the moment it
emits: results once visible stay so. For `CloudIsBacked`, the rows behind a word are a sum over
participants. `Sums_proofs` shows that such a sum (`MapThenSumSet`, a fold in the order of
`CHOOSE`) does not depend on the order, by the smallest set that would be a counterexample; so an
answer adds one on both sides, and `deleteResponses` takes the same rows from both. For
`AnswersWithinTabs`, which says nothing of tabs between their count and their insert, the invariant
counts these as well: answers, plus tabs past the check, are at most the limit plus the
other tabs. `CurrentStaysOpen` follows step by step from what the requests in flight have read.

**Screens_proofs.** `PresentIInv`: a fetch that was not cancelled is for the question on the screen; the last count on its
way, or else the count shown, is the size of the room. `EditorIInv`: orders differ,
and what was typed last is pending, last in the queue, or in the row. That a renumbering fits is shown
of the whole loop: after the first `k` updates the first `k` questions have their new numbers and
the others their old ones (`RunTrace`), the k-th question in order has a number of at least `k`,
so each number is free when it is given; `reorder` goes through the negatives. `ByOrder`
in `Editor` is stated as the sequence that has the order, of which there is one.

**Services_proofs.** `QuotaIInv`: what is booked today, and what the running jobs still owe, are at most the
limit, as much as all jobs but one can cost, and what was booked without looking. A job
that looks first finds room for itself; those beside it are at most all the others, and midnight
only takes away. `MatchingIInv` adds the links about to be written: while no two
writers overlapped, the video of such a link belongs to no other row, and to no other link
or upload about to write it. `PlanIInv`: what an account was told is what its forms
say until it saves one, and a running sync carries, through all its retries, what it was told. `CaptionIInv`: what a recording's
row has counted, what the running sweep owes it by the row it read, and what the requests
under way may still add stay within the budget together. A request weighs two until it
has begun, one for its attempt and one for the attempt the sweep makes of a row it leaves waiting, then one. That the
plan of a sweep names a recording once, and that no attempt of the sweep runs for a recording that is
still on the plan, is part of it: otherwise one row read would pay for two attempts.

**Parts_proofs.** `LimitIInv`: the requests let through in the window of an entry are the last ones,
and two requests that are two windows' worth apart are more than a window apart. `ConsentIInv` gives an age
to everything that says an account agreed: the column, an answer read, an entry, an
event being filled. `AdminIInv`: while no removal was written on reads older than another's write,
what a removal has read is how the account is, and one that counted leaves
another super admin. `GrantIInv`: a row's token was saved by the callback of its own grant, and a grant
knows only saved ones as older. `ChannelIInv`: changes are numbered, one refresh runs at most
(the shared promise), and what it has found is not older than where it began.
`ListIInv`: a month of the request is waited for, or what was there of it when the
request came has been got; a token is not older than its account's last connection. That the
windows cover the range is shown of `SplitIntoMonthWindows` by the smallest number of windows for which
it would fail (`SplitsWindowed`); its recursion there is on the number of windows left, the
form in which the prover can unfold it.

`ServicesTypeCorrect` takes all twelve services together. The types of few of them are inductive
alone: that an entry never counts more hits than requests came, that a run began no later than now, or that
a request which waits has a token with a time of issue is not in them. So most have an invariant of their own, named
`…Typed` (`ListedTyped`, `GrantedTyped`, `SignedTyped`, `PlansTyped`), shown beside that of the part; `YoutubeIInv`,
`PeopleIInv` and `CloudIInv` put them together by `StepOfEachPart`. The bounds on what is begun are part
of the types, so that the theorem says of each run's bounds that no step escapes them.

**Pages_proofs.** Each page has its inductive invariant, and `StepOfEachPage` puts them together. What a
property names as its exception (`raced`, `crossed`, `apart`, `tangled`, `stale`) is the history the invariant is
conditional on: until two loads or changes overlapped, there is at most one, and it knows what is
stored. `ViewsIInv`: while no load raced another, the one under way is for the key that is open, and at
rest the content is of the key. `DialogIInv`: every field of an open dialog comes from its own
recording, from the settings or from the first opening, and a closed one carries neither playlist title nor file type
over. `IntegrationsIInv`: what was typed in any form was typed for the drawer that is open.
`WorkflowPageIInv`: a rule that is edited is the one its form was filled from, lists have no rule twice, and
a meeting list that missed a change is outdated or being asked for. `EmailIInv` and `SessionIInv`: nothing under
way, or shown, is older than what is stored (`Uncrossed`, `InStep`). `EditPageIInv`: apart from the request under way,
the editor's list is the server's (`ListsRows`), so a reload that runs alone makes them equal. `ConsentIInv` is the longest:
the library, the effect that is due and the import under way are of one account (`OneAccount`), and so
are the events that wait, all made with its consent (`QueueIsTheirs`); an event leaves only through these.
For the types, a bound on what is in flight must follow from what was begun: requests are numbered (`FewAsNumbered`),
or each took an operation of the user's (`AtMost`), and a fetch of the presenter's screen belongs to an effect
or is a ghost of a cancelled one (`PresentBounds`).

The prover checks about 21,900 obligations. Not proved, and left to TLC:
liveness (fairness is outside what the prover does) and what the end of section 9 names. Every proof is by the code's own guards: with a guard
dropped (the last-admin check, the shared refresh, the token that a new one replaces) its
proof fails at the step of that operation.

## 8. Where documents and code differ

Five runs show that the code does not do what a comment, the README or a test title says.
`PROJECT.json` has the quotations.

- `restart_loses`: "a restart loses nothing" (scheduler). FAILED and `nextRetryAt` are two
  writes, and a claim clears the schedule before the retry wrote anything: a restart in
  between leaves a failure nobody retries or reports.
- `linked_twice`: "Linked recordings are never uploaded twice" (README). A sync of a
  recording that was linked meanwhile, or a later webhook, resets the row and uploads.
- `told_twice`: "cannot create duplicate notifications" (status check). PROCESSING is written
  without a condition: an old answer written late takes COMPLETED back and the next check
  announces the video again.
- `drive_again`: "Saved already …: leave it" (queue). A sweep that read the row while it was
  uploading queues it again after it was saved. In the code this takes an upload that is
  silent for an hour.
- `drive_stuck`: the sweep takes care of "pending …" rows. A first update that throws leaves
  the id in `inProgress` and the row pending until the next restart.

Seen while reading or modelling, and named as exceptions in the properties where they bite;
no run is spent on them.

*Sync log and plan.* `handleSyncFailure`'s "Every failed attempt passes through here exactly
once" (`youtube.service.ts:151`) does not hold for a check without a connection, which marks
the row FAILED itself. `ConnectionReader.tryRead` logs a fallback for a read that failed but
returns null, which callers take for "not connected". After an unlink and a new sync, an old
check can write COMPLETED on a row without a video. The playlist is stored only by the upload
itself, so a retry after a failed download uploads without it; nor does a retry pass on
the file type chosen in the dialog (`zoom-sync-scheduler.service.ts:109-119`). The list of upcoming meetings promises
the upload to every account of a Zoom account, the webhook picks one. Zoom's access token is
cached by user (`zoom.service.ts:97`): after a change of account the old one's serves for up to
an hour. An empty range makes the listing fail on its last window.

*Links and captions.* "Only links: an upload made by the app stays" (`unlink`): nothing takes back a row's
`source`, so when a linked recording is synced after all, *Unlink* deletes the row of that
upload. Two overlapping links give one video to two recordings. A link keeps
the account of the row it finds. A caption's `uploaded` can be written for a video that was
replaced meanwhile; two attempts can upload two tracks; 50 rows that never caption fill the sweep's
page.

*Backups.* "The same MP4 as the YouTube sync" (`drive-backup.ts:38-39`): the sync picks by
the preferred file type and without asking whether the file is ready
(`zoom.service.ts:644-655`), so it may be another. A resumed session may get the rest of
another file if a better one became ready in between. Transcripts that come later do not queue a backup, and
a backup begun before any file was ready is given up. Folder ids are kept in memory: a
folder deleted in Drive makes saves fail until the next restart.

*Connections.* The comment "keeps a stored secret" (`connections.service.ts:37`) and its test
hold for a save that names its row: one without an id reads nothing and writes a row of its own,
with an empty or null external account. A disconnect without an id therefore misses the rows of
Google Drive and OneDrive; one with an id passes empty secrets, which keep the stored token. A
late mark falls on a new token, and for Google Drive it stays. Some readers take the first row in
no order. A Drive authorization begun without a workspace writes back the one it had read.
On the page, a drawer that a link opened without an id saves a new row, and a late answer
overwrites what was typed.

*Accounts.* A password set by the forgotten-password flow keeps the end of the temporary one:
sign-in is refused after 30 days, though `account-rules.ts:7` says "unless the user sets their
own". Two demotions that overlap leave no super admin.

*Word cloud.* Two requests that move on can leave two questions ACTIVE and broadcast in the
other order. An answer committed between the two deletes of `deleteResponses` loses its
count. A question deleted between the reads of words and of question lets the words of a hidden one out. The audience's page
writes the count of an answer to the question shown by then, and misses a change during a blip of less
than five seconds. In the editor: a failed autosave drops its patch, `loadQuestions` overwrites
pending edits, *apply to all* does not wait for its flush and carries its targets to the next question, a
failed reorder restores a snapshot, an answer of a removal jumps away from the question selected
since, a logo may land on it, and `duplicate` omits colour and logo.

*Pages.* Loads are not cancelled, so an answer of an older one that comes last stays: the
recordings table then believes that nothing runs and stops polling; the history, the video's
form, folders and playlists show, or act on, another key's data; late settings replace
a choice in the sync dialog. Moves of a rule are computed from the list shown, so a second click
undoes or repeats the first; an old save's answer closes another rule's editor; the answer of a save
of settings overwrites what was typed meanwhile. A retry of a failed upload with a new
playlist makes a second one. A notification pops up again when an older list comes last.
Any failed refresh of the user, not only a 401, signs the page out; `switchWorkspace` goes
on with the user of its old render.

*Consent.* "Sends a listed UI event, or nothing at all without consent"
(`product-analytics.ts:114`): a load of PostHog that was given up leaves the queue open, and
events made without consent go out with the next load, perhaps as another account. The backend may
cache an older `true` after a withdrawal, for a minute.

## 9. What is not modelled

Within the modelled components: single reads that fail, deadlines, pages of queries, counters
nobody decides on, and, in ZoomSync, database writes that fail (DriveBackup has them).
Texts (titles, descriptions, translations), layout and charts are left out everywhere; a form's
fields are one value, except where two are filled from different places.

Components without a module: YouTube's statistics (reads that are shown), the workflow
engine (nothing reads what it writes; the transcript it would enrich is never stored), AI and
QR codes, the delivery of mail. In part: OneDrive's authorization and rotation of tokens,
the search for folders, topics' titles, codes and removal, logos, the presenter's token, the
encryption of secrets, the writes of the activity log. The tenant filter of the database client
(`PrismaService`, `WorkspaceInterceptor`) is not modelled because no request enters it: a user has
`activeWorkspaceId`, not `workspaceId`, and the pages send no `x-workspace-id`.

Model-checked only. Every invariant of the passing runs is a theorem, and so are the action property
`CurrentStaysOpen` and the refinement `KeepsPromise`. What only the runs show is liveness: `UploadEnds`,
`FailureEndsAnswered`, `RetryIsTaken` (`ZoomSync`), `UploadingEnds`, `FailedIsRetried`, `PendingIsTaken`
(`DriveBackup`), `CaptionsSettle`, `TokenMarkSettles` (the services), `PagesCatchUp` and `EditsAreSent` (the screens).
They rest on fairness and on `ENABLED`, which the prover does not do. The five counterexamples of section
8 are TLC's too. Of pure algorithms, the windows of a range are proved to cover it and a renumbering to fit; the scores
of suggestions (`Matching`) and the merge of options (`SyncPlan`) are only seen at work in the run.

## 10. The plan

The modules were written and proved in this order: the sync log and its refinement, the backups,
the services, the screens; of each first the safety of what is stored, then the types. What remains:

1. *Writes that fail in the sync log.* `DriveBackup` has them, `ZoomSync` does not. Two of the hazards without
   a property wait for them: the write of PROCESSING after a finished upload
   (`youtube.service.ts:616`) and a quota read that throws after the claim
   (`zoom-sync-scheduler.service.ts:92`). Either adds an exception to `UploadHasOwner` or
   `FailureIsAnswered` and one case to each duty of `Owed`.
2. *Pages of the sweeps.* Rows that never change can keep others from their turn
   (`zoom-sync-scheduler.service.ts:162`, `caption.service.ts:76`). It takes more rows than a page has,
   so a model of its own with a page of one.
3. *Liveness* stays with TLC. A proof would need its well-founded argument by hand: the rank of
   a chain of awaits, and the retries left.
