---------------------------- MODULE DriveBackup ----------------------------
(***************************************************************************)
(* DriveBackupService: the original files of a Zoom recording are saved to *)
(* the account's Google Drive or OneDrive, one row (table DriveBackup) per *)
(* file.  Requests queue rows, a chain of drains per account uploads them  *)
(* one at a time, and the scheduler's sweep queues again what was pending, *)
(* interrupted or failed for the moment.                                   *)
(*                                                                         *)
(* An action is what the code does between two awaits.  A write to the     *)
(* database takes effect in a step of its own and, Faults permitting, may  *)
(* throw there instead.                                                    *)
(*                                                                         *)
(* Abstracted: file names, folders, time (an interrupted or failed row may *)
(* be due at any sweep), the sweep's page of 100 rows of the last 7 days,  *)
(* and the order of rows by age (any pending row may be found first).      *)
(***************************************************************************)
EXTENDS Naturals

CONSTANTS
  Files,         \* rows: (recordingId, fileType, destination)
  Users,
  Kinds,         \* how files may be uploaded
  Drains,        \* slots for the links of the promise chains
  Askers,        \* slots for requests that queue files
  Sessions,      \* upload sessions a store may hold at once
  None,          \* no drain, no file, no user, no session
  Size,          \* bytes of a file
  MaxAttempts,   \* BACKUP_MAX_ATTEMPTS
  MaxFaults      \* how many restarts and failed writes may happen

ASSUME DriveAssumption ==
  /\ Kinds \subseteq {"simple", "google", "onedrive"}
  /\ None \notin Files \cup Users \cup Drains \cup Sessions
  /\ Size \in Nat \ {0}
  /\ MaxAttempts \in Nat
  /\ MaxFaults \in Nat

VARIABLES
  store,       \* store[f]: how file f is uploaded, given its size and destination
  row,         \* row[f]: the DriveBackup row
  queues,      \* queues[u]: the last link of u's promise chain
  drain,       \* drain[d]: a link of a promise chain
  inProgress,  \* the rows being uploaded by this instance
  asker,       \* asker[q]: a running call of queue
  sweep,       \* the scheduler's running sweep
  session,     \* session[s]: an upload session as the store knows it
  copies,      \* history: complete files of f in the store (2: two or more)
  again,       \* history: a save of f was forgotten after it was complete
  faults       \* restarts and failed writes so far

stores == <<store, session, copies, again>>

vars == <<row, queues, drain, inProgress, asker, sweep, faults, stores>>

-----------------------------------------------------------------------------
Status == {"none", "pending", "uploading", "done", "failed", "skipped"}

Row == [status    : Status,
        user      : Users \cup {None},
        transient : BOOLEAN,             \* errorCode = "networkError"
        attempts  : 0..MaxAttempts,
        url       : Sessions \cup {None}]

NoRow == [status |-> "none", user |-> None, transient |-> FALSE, attempts |-> 0, url |-> None]

\* "waiting": behind the drain in after.  From "begin" on, the steps of process.
PC == {"idle", "waiting", "find", "begin", "upload", "ask", "open", "create", "keep",
       "send", "uploaded", "failed"}

Error == {"none", "network", "gone", "other"}

Drain == [pc     : PC,
          user   : Users \cup {None},
          after  : Drains \cup {None},
          file   : Files \cup {None},
          url    : Sessions \cup {None},
          offset : 0..Size,
          error  : Error]

NoDrain == [pc |-> "idle", user |-> None, after |-> None, file |-> None, url |-> None,
            offset |-> 0, error |-> "none"]

Asker == [pc : {"idle", "look", "write"}, user : Users \cup {None}, manual : BOOLEAN,
          todo : SUBSET Files, file : Files \cup {None}]

NoAsker == [pc |-> "idle", user |-> None, manual |-> FALSE, todo |-> {}, file |-> None]

\* pending, reset: rows to look at, as read; users: to be kicked.
Sweep == [pc : {"idle", "look", "write", "kick"}, pending : SUBSET Files,
          reset : SUBSET Files, file : Files \cup {None}, users : SUBSET Users]

NoSweep == [pc |-> "idle", pending |-> {}, reset |-> {}, file |-> None, users |-> {}]

Session == [state : {"unused", "open", "complete", "expired"},
            file  : Files \cup {None},
            got   : 0..Size,
            exact : BOOLEAN]   \* the bytes it has are the file's, in order

NoSession == [state |-> "unused", file |-> None, got |-> 0, exact |-> TRUE]

TypeOK ==
  /\ store \in [Files -> Kinds]
  /\ row \in [Files -> Row]
  /\ queues \in [Users -> Drains \cup {None}]
  /\ drain \in [Drains -> Drain]
  /\ inProgress \in SUBSET Files
  /\ asker \in [Askers -> Asker]
  /\ sweep \in Sweep
  /\ session \in [Sessions -> Session]
  /\ copies \in [Files -> 0..2]
  /\ again \in [Files -> BOOLEAN]
  /\ faults \in 0..MaxFaults

Init ==
  /\ store \in [Files -> Kinds]
  /\ row = [f \in Files |-> NoRow]
  /\ queues = [u \in Users |-> None]
  /\ drain = [d \in Drains |-> NoDrain]
  /\ inProgress = {}
  /\ asker = [q \in Askers |-> NoAsker]
  /\ sweep = NoSweep
  /\ session = [s \in Sessions |-> NoSession]
  /\ copies = [f \in Files |-> 0]
  /\ again = [f \in Files |-> FALSE]
  /\ faults = 0

-----------------------------------------------------------------------------
(* Shared steps.                                                           *)

At(d, pc) == drain[d].pc = pc

Running(d) == drain[d].pc \notin {"idle", "waiting"}

\* One more fault: a write that throws, or a restart.
Fault == faults < MaxFaults /\ faults' = faults + 1

\* f is written pending: a save that was complete is forgotten.
MarkAgain(f) == again' = [again EXCEPT ![f] = @ \/ row[f].status = "done"]

\* kick: a new link behind the last one.
Kick(u, d) ==
  /\ drain[d] = NoDrain
  /\ drain' = [drain EXCEPT ![d] =
                 [NoDrain EXCEPT !.user = u, !.after = queues[u],
                                 !.pc = IF queues[u] = None THEN "find" ELSE "waiting"]]
  /\ queues' = [queues EXCEPT ![u] = d]

\* Mutant: the map forgets the account whichever link of its chain ends.
EndDrainForgets(d) ==
  /\ drain' = [e \in Drains |->
                 IF e = d THEN NoDrain
                 ELSE IF drain[e].after = d
                 THEN [drain[e] EXCEPT !.after = None, !.pc = "find"]
                 ELSE drain[e]]
  /\ queues' = [queues EXCEPT ![drain[d].user] = None]

\* The link ends, well or not: the next one starts, and the map forgets the
\* chain if this was its last link.
EndDrain(d) ==
  /\ drain' = [e \in Drains |->
                 IF e = d THEN NoDrain
                 ELSE IF drain[e].after = d
                 THEN [drain[e] EXCEPT !.after = None, !.pc = "find"]
                 ELSE drain[e]]
  /\ queues' = [queues EXCEPT ![drain[d].user] = IF @ = d THEN None ELSE @]

-----------------------------------------------------------------------------
(* queue: called by the webhook (onRecordingCompleted) and by hand         *)
(* (backupForUser), once the files of the recording are known.             *)

Ask(q, u, manual) ==
  /\ asker[q] = NoAsker
  /\ \E fs \in SUBSET Files \ {{}} :
       asker' = [asker EXCEPT ![q] = [NoAsker EXCEPT !.pc = "look", !.user = u,
                                                     !.manual = manual, !.todo = fs]]
  /\ UNCHANGED <<row, queues, drain, inProgress, sweep, faults, stores>>

\* Saved already, being saved, or another account's: leave it.
LeftAlone(f, u) ==
  /\ row[f].status # "none"
  /\ row[f].user # u \/ row[f].status \in {"done", "uploading"}

Look(q) ==
  /\ asker[q].pc = "look"
  /\ \E f \in asker[q].todo :
       asker' = [asker EXCEPT ![q].todo = @ \ {f},
                              ![q].pc = IF LeftAlone(f, asker[q].user) THEN @ ELSE "write",
                              ![q].file = IF LeftAlone(f, asker[q].user) THEN None ELSE f]
  /\ UNCHANGED <<row, queues, drain, inProgress, sweep, faults, stores>>

\* What the upsert makes of row w.
Queued(w, u, manual) ==
  IF w.status = "none"
  THEN [NoRow EXCEPT !.status = "pending", !.user = u]
  ELSE [w EXCEPT !.status = "pending", !.transient = FALSE,
                 !.attempts = IF manual THEN 0 ELSE @]

\* The upsert: the row may have changed since it was looked at.
Upsert(q) ==
  LET f == asker[q].file IN
  /\ asker[q].pc = "write"
  /\ row' = [row EXCEPT ![f] = Queued(row[f], asker[q].user, asker[q].manual)]
  /\ MarkAgain(f)
  /\ asker' = [asker EXCEPT ![q].pc = "look", ![q].file = None]
  /\ UNCHANGED <<store, queues, drain, inProgress, sweep, session, copies, faults>>

QueueKick(q, d) ==
  /\ asker[q].pc = "look"
  /\ asker[q].todo = {}
  /\ Kick(asker[q].user, d)
  /\ asker' = [asker EXCEPT ![q] = NoAsker]
  /\ UNCHANGED <<row, inProgress, sweep, faults, stores>>

-----------------------------------------------------------------------------
(* sweep: one at a time (the scheduler's tick does not overlap itself).    *)

\* Mutant: only failures are due, an interrupted upload is not.
DueFailures(f) == row[f].status = "failed" /\ row[f].transient /\ row[f].attempts < MaxAttempts

\* backupSweepDecision; how long a row has to be idle is left out.
Due(f) ==
  \/ row[f].status = "uploading"
  \/ row[f].status = "failed" /\ row[f].transient /\ row[f].attempts < MaxAttempts

\* Mutant: the sweep leaves pending rows to their requests.
SweepReadInterrupted(due) ==
  /\ sweep = NoSweep
  /\ due # {}
  /\ \A f \in due : Due(f)
  /\ sweep' = [NoSweep EXCEPT !.pc = "look", !.reset = due]
  /\ UNCHANGED <<row, queues, drain, inProgress, asker, faults, stores>>

\* findMany: the pending rows, and those that are due.
SweepRead(due) ==
  /\ sweep = NoSweep
  /\ \A f \in due : Due(f)
  /\ LET pending == {f \in Files : row[f].status = "pending"} IN
     /\ due \cup pending # {}
     /\ sweep' = [NoSweep EXCEPT !.pc = "look", !.pending = pending, !.reset = due]
  /\ UNCHANGED <<row, queues, drain, inProgress, asker, faults, stores>>

\* Mutant: the sweep kicks the account but leaves the row as it is.
SweepLookOnlyKicks(f) ==
  /\ sweep.pc = "look"
  /\ f \in sweep.pending \cup sweep.reset
  /\ LET left == [sweep EXCEPT !.pending = @ \ {f}, !.reset = @ \ {f}] IN
     sweep' = IF f \in inProgress THEN left ELSE [left EXCEPT !.users = @ \cup {row[f].user}]
  /\ UNCHANGED <<row, queues, drain, inProgress, asker, faults, stores>>

\* The decision is about the row as it was read; inProgress is looked at now.
SweepLook(f) ==
  /\ sweep.pc = "look"
  /\ f \in sweep.pending \cup sweep.reset
  /\ LET left == [sweep EXCEPT !.pending = @ \ {f}, !.reset = @ \ {f}] IN
     sweep' = IF f \in inProgress THEN left
              ELSE IF f \in sweep.pending
              THEN [left EXCEPT !.users = @ \cup {row[f].user}]
              ELSE [left EXCEPT !.pc = "write", !.file = f]
  /\ UNCHANGED <<row, queues, drain, inProgress, asker, faults, stores>>

SweepWrite ==
  LET f == sweep.file IN
  /\ sweep.pc = "write"
  /\ row' = [row EXCEPT ![f].status = "pending"]
  /\ MarkAgain(f)
  /\ sweep' = [sweep EXCEPT !.pc = "look", !.file = None, !.users = @ \cup {row[f].user}]
  /\ UNCHANGED <<store, queues, drain, inProgress, asker, session, copies, faults>>

SweepKick(d) ==
  /\ sweep.pc \in {"look", "kick"}
  /\ sweep.pending \cup sweep.reset = {}
  /\ \E u \in sweep.users :
       /\ Kick(u, d)
       /\ sweep' = IF sweep.users = {u} THEN NoSweep
                   ELSE [sweep EXCEPT !.pc = "kick", !.users = @ \ {u}]
  /\ UNCHANGED <<row, inProgress, asker, faults, stores>>

SweepEnds ==
  /\ sweep.pc = "look"
  /\ sweep.pending \cup sweep.reset \cup sweep.users = {}
  /\ sweep' = NoSweep
  /\ UNCHANGED <<row, queues, drain, inProgress, asker, faults, stores>>

-----------------------------------------------------------------------------
(* drain and process.                                                      *)

Pending(u) == {f \in Files \ inProgress : row[f].status = "pending" /\ row[f].user = u}

\* findFirst; process then adds the id before its first write.
Find(d) ==
  /\ At(d, "find")
  /\ \E f \in Pending(drain[d].user) :
       /\ drain' = [drain EXCEPT ![d].pc = "begin", ![d].file = f]
       /\ inProgress' = inProgress \cup {f}
  /\ UNCHANGED <<row, queues, asker, sweep, faults, stores>>

\* Nothing is pending: the link ends.
DrainEnds(d) ==
  /\ At(d, "find")
  /\ Pending(drain[d].user) = {}
  /\ EndDrain(d)
  /\ UNCHANGED <<row, inProgress, asker, sweep, faults, stores>>

\* Mutant: every attempt starts over with a new session.
BeginForgetsSession(d) ==
  LET f == drain[d].file IN
  /\ At(d, "begin")
  /\ row' = [row EXCEPT ![f].status = "uploading", ![f].url = None,
                        ![f].attempts = IF @ < MaxAttempts THEN @ + 1 ELSE @]
  /\ drain' = [drain EXCEPT ![d].pc = "upload"]
  /\ UNCHANGED <<queues, inProgress, asker, sweep, faults, stores>>

\* Attempts past the maximum are one: they are only compared with it.
Begin(d) ==
  LET f == drain[d].file IN
  /\ At(d, "begin")
  /\ row' = [row EXCEPT ![f].status = "uploading",
                        ![f].attempts = IF @ < MaxAttempts THEN @ + 1 ELSE @]
  /\ drain' = [drain EXCEPT ![d].pc = "upload", ![d].url = row[f].url]
  /\ UNCHANGED <<queues, inProgress, asker, sweep, faults, stores>>

\* The error that process catches.
Throws(d, errors) ==
  \E e \in errors : drain' = [drain EXCEPT ![d].pc = "failed", ![d].error = e, ![d].url = None,
                                           ![d].offset = 0]

\* Zoom's file list, the folder, and the way to upload.
Prepare(d) ==
  /\ At(d, "upload")
  /\ \/ Throws(d, {"network", "gone", "other"})
     \/ drain' = [drain EXCEPT ![d].pc = IF store[drain[d].file] = "simple" THEN "send"
                                         ELSE IF drain[d].url = None THEN "open" ELSE "ask"]
  /\ UNCHANGED <<row, queues, inProgress, asker, sweep, faults, stores>>

\* Mutant: the resumed upload starts one byte after the confirmed ones.
AskStoreOffByOne(d) ==
  LET s == drain[d].url IN
  /\ At(d, "ask")
  /\ IF session[s].state = "open" /\ session[s].got < Size
     THEN drain' = [drain EXCEPT ![d].pc = "open", ![d].offset = session[s].got + 1]
     ELSE drain' = [drain EXCEPT ![d].pc = "open", ![d].url = None]
  /\ UNCHANGED <<row, queues, inProgress, asker, sweep, faults, stores>>

\* Mutant: any answer of a session that is still known counts as its end.
AskStoreCredulous(d) ==
  LET s == drain[d].url IN
  /\ At(d, "ask")
  /\ IF session[s].state \in {"open", "complete"}
     THEN drain' = [drain EXCEPT ![d].pc = "uploaded"]
     ELSE drain' = [drain EXCEPT ![d].pc = "open", ![d].url = None]
  /\ UNCHANGED <<row, queues, inProgress, asker, sweep, faults, stores>>

\* How much does the store have?  Google says if the file is complete; OneDrive
\* knows no session of a complete file.  A failed question is an error for
\* Google, and a new session for OneDrive.
AskStore(d) ==
  LET s == drain[d].url
      google == store[drain[d].file] = "google"
      known == session[s].state = "open" \/ (google /\ session[s].state = "complete")
      NewSession == drain' = [drain EXCEPT ![d].pc = "open", ![d].url = None]
  IN
  /\ At(d, "ask")
  /\ \/ /\ known
        /\ drain' = [drain EXCEPT ![d].pc = IF session[s].state = "open" THEN "open"
                                            ELSE "uploaded",
                                  ![d].offset = session[s].got]
     \/ ~known /\ NewSession
     \/ IF google THEN Throws(d, {"network", "other"}) ELSE NewSession
  /\ UNCHANGED <<row, queues, inProgress, asker, sweep, faults, stores>>

\* openRecordingFile from the offset; if Zoom ignores Range, from byte 0 in a
\* new session.
OpenZoom(d) ==
  /\ At(d, "open")
  /\ \/ Throws(d, {"network", "gone", "other"})
     \/ \E partial \in BOOLEAN :
          LET fromStart == drain[d].offset > 0 /\ ~partial
              url == IF fromStart THEN None ELSE drain[d].url
          IN drain' = [drain EXCEPT ![d].pc = IF url = None THEN "create" ELSE "send",
                                    ![d].url = url,
                                    ![d].offset = IF fromStart THEN 0 ELSE @]
  /\ UNCHANGED <<row, queues, inProgress, asker, sweep, faults, stores>>

\* No row and no drain knows session s (any more).
Unknown(s) ==
  /\ \A f \in Files : row[f].url # s
  /\ \A d \in Drains : drain[d].url # s

CreateSession(d) ==
  /\ At(d, "create")
  /\ \/ Throws(d, {"network", "other"}) /\ UNCHANGED session
     \/ \E s \in Sessions :
          /\ Unknown(s)
          /\ session' = [session EXCEPT ![s] = [NoSession EXCEPT !.state = "open",
                                                                 !.file = drain[d].file]]
          /\ drain' = [drain EXCEPT ![d].pc = "keep", ![d].url = s]
  /\ UNCHANGED <<store, row, queues, inProgress, asker, sweep, copies, again, faults>>

\* Its url is written on the row before the first byte is sent.
KeepSession(d) ==
  /\ At(d, "keep")
  /\ row' = [row EXCEPT ![drain[d].file].url = drain[d].url]
  /\ drain' = [drain EXCEPT ![d].pc = "send"]
  /\ UNCHANGED <<queues, inProgress, asker, sweep, faults, stores>>

MoreCopies(f) == copies' = [copies EXCEPT ![f] = IF @ < 2 THEN @ + 1 ELSE @]

\* simpleUpload: one request; the answer may be lost although the file arrived.
SendSimple(d) ==
  /\ At(d, "send")
  /\ drain[d].url = None
  /\ \/ MoreCopies(drain[d].file) /\ drain' = [drain EXCEPT ![d].pc = "uploaded"]
     \/ MoreCopies(drain[d].file) /\ Throws(d, {"network"})
     \/ UNCHANGED copies /\ Throws(d, {"network", "gone", "other"})
  /\ UNCHANGED <<store, row, queues, inProgress, asker, sweep, session, again, faults>>

\* One more byte from Zoom arrives in the session.
SendByte(d) ==
  LET s == drain[d].url IN
  /\ At(d, "send")
  /\ s # None
  /\ session[s].state = "open"
  /\ drain[d].offset < Size
  /\ drain' = [drain EXCEPT ![d].offset = @ + 1]
  /\ session' = [session EXCEPT ![s].got = IF @ < Size THEN @ + 1 ELSE @,
                                ![s].exact = @ /\ session[s].got = drain[d].offset,
                                ![s].state = IF drain[d].offset + 1 = Size THEN "complete"
                                             ELSE @]
  /\ IF drain[d].offset + 1 = Size THEN MoreCopies(drain[d].file) ELSE UNCHANGED copies
  /\ UNCHANGED <<store, row, queues, inProgress, asker, sweep, again, faults>>

\* The store's answer, or its loss.
SendEnds(d) ==
  /\ At(d, "send")
  /\ drain[d].url # None
  /\ \/ /\ drain[d].offset = Size
        /\ session[drain[d].url].state = "complete"
        /\ drain' = [drain EXCEPT ![d].pc = "uploaded"]
     \/ Throws(d, {"network", "gone", "other"})
  /\ UNCHANGED <<row, queues, inProgress, asker, sweep, faults, stores>>

\* The finally: the id leaves inProgress, and the drain looks for the next row.
Finish(d) ==
  /\ drain' = [drain EXCEPT ![d] = [NoDrain EXCEPT !.pc = "find", !.user = drain[d].user]]
  /\ inProgress' = inProgress \ {drain[d].file}

WriteDone(d) ==
  /\ At(d, "uploaded")
  /\ row' = [row EXCEPT ![drain[d].file].status = "done", ![drain[d].file].url = None,
                        ![drain[d].file].transient = FALSE]
  /\ Finish(d)
  /\ UNCHANGED <<queues, asker, sweep, faults, stores>>

\* Mutant: a file that is gone keeps its reason as its status.
WriteFailedRaw(d) ==
  LET f == drain[d].file IN
  /\ At(d, "failed")
  /\ row' = [row EXCEPT ![f].status = IF drain[d].error = "gone" THEN "gone" ELSE "failed",
                        ![f].transient = drain[d].error = "network"]
  /\ Finish(d)
  /\ UNCHANGED <<queues, asker, sweep, faults, stores>>

WriteFailed(d) ==
  LET f == drain[d].file IN
  /\ At(d, "failed")
  /\ row' = [row EXCEPT ![f].status = IF drain[d].error = "gone" THEN "skipped" ELSE "failed",
                        ![f].transient = drain[d].error = "network"]
  /\ Finish(d)
  /\ UNCHANGED <<queues, asker, sweep, faults, stores>>

-----------------------------------------------------------------------------
(* Writes that throw, the stores and the host.                             *)

\* A write of process throws: the first one outside its try, so that the id
\* stays in inProgress; those in the try are caught; the one in the catch ends
\* the drain after the finally.
WriteThrows(d) ==
  /\ Fault
  /\ \/ At(d, "begin") /\ EndDrain(d) /\ UNCHANGED inProgress
     \/ /\ drain[d].pc \in {"keep", "uploaded"}
        /\ Throws(d, {"network", "other"})
        /\ UNCHANGED <<queues, inProgress>>
     \/ At(d, "failed") /\ EndDrain(d) /\ inProgress' = inProgress \ {drain[d].file}
  /\ UNCHANGED <<row, asker, sweep, stores>>

\* queue's upsert throws: the request fails before it kicks.
UpsertThrows(q) ==
  /\ Fault
  /\ asker[q].pc = "write"
  /\ asker' = [asker EXCEPT ![q] = NoAsker]
  /\ UNCHANGED <<row, queues, drain, inProgress, sweep, stores>>

\* The sweep's update throws: the tick ends, and nobody is kicked.
SweepThrows ==
  /\ Fault
  /\ sweep.pc = "write"
  /\ sweep' = NoSweep
  /\ UNCHANGED <<row, queues, drain, inProgress, asker, stores>>

\* A session is forgotten by its store.
Expire(s) ==
  /\ session[s].state \in {"open", "complete"}
  /\ session' = [session EXCEPT ![s].state = "expired"]
  /\ again' = [f \in Files |->
                 again[f] \/ (session[s].state = "complete" /\ session[s].file = f)]
  /\ UNCHANGED <<store, row, queues, drain, inProgress, asker, sweep, copies, faults>>

Restart ==
  /\ Fault
  /\ queues' = [u \in Users |-> None]
  /\ drain' = [d \in Drains |-> NoDrain]
  /\ inProgress' = {}
  /\ asker' = [q \in Askers |-> NoAsker]
  /\ sweep' = NoSweep
  /\ UNCHANGED <<row, stores>>

-----------------------------------------------------------------------------
ProcessStep(d) ==
  \/ Begin(d) \/ Prepare(d) \/ AskStore(d) \/ OpenZoom(d) \/ CreateSession(d)
  \/ KeepSession(d) \/ SendSimple(d) \/ SendByte(d) \/ SendEnds(d)
  \/ WriteDone(d) \/ WriteFailed(d)

DrainStep(d) == Find(d) \/ DrainEnds(d) \/ ProcessStep(d) \/ WriteThrows(d)

AskStep(q) ==
  \/ Look(q) \/ Upsert(q) \/ UpsertThrows(q)
  \/ \E d \in Drains : QueueKick(q, d)

SweepStep ==
  \/ \E f \in Files : SweepLook(f)
  \/ SweepWrite \/ SweepThrows \/ SweepEnds
  \/ \E d \in Drains : SweepKick(d)

Next ==
  \/ \E d \in Drains : DrainStep(d)
  \/ \E q \in Askers, u \in Users, manual \in BOOLEAN : Ask(q, u, manual)
  \/ \E q \in Askers : AskStep(q)
  \/ \E due \in SUBSET Files : SweepRead(due)
  \/ SweepStep
  \/ \E s \in Sessions : Expire(s)
  \/ Restart

Spec == Init /\ [][Next]_vars

(* Awaits resolve, and the scheduler ticks for ever: a row that stays      *)
(* pending, interrupted or failed for the moment is, in time, due when it  *)
(* sweeps.  A kick needs no free slot in the code: strong fairness makes   *)
(* up for the finite set of slots.  Nothing is assumed of requests, stores *)
(* or faults.                                                              *)
Fairness ==
  /\ \A d \in Drains : WF_vars(DrainStep(d))
  /\ \A q \in Askers : WF_vars(AskStep(q)) /\ SF_vars(\E d \in Drains : QueueKick(q, d))
  /\ WF_vars(SweepStep) /\ SF_vars(\E d \in Drains : SweepKick(d))
  /\ \A f \in Files : SF_vars(\E due \in SUBSET Files : f \in due /\ SweepRead(due))
  /\ SF_vars(\E due \in SUBSET Files : SweepRead(due))

FairSpec == Spec /\ Fairness

-----------------------------------------------------------------------------
(* Properties.                                                             *)

(* "One upload at a time per account": however many requests and sweeps    *)
(* kick the queue, and whichever links of the chain fail, two drains of an *)
(* account never run at once.                                              *)
OneAtATime ==
  \A d, e \in Drains :
    Running(d) /\ Running(e) /\ drain[d].user = drain[e].user => d = e

(* A file in Drive is the file on Zoom, byte for byte, however often its   *)
(* upload was interrupted and resumed, and whether or not Zoom honours     *)
(* Range.                                                                  *)
CopiesAreExact ==
  \A s \in Sessions : session[s].state = "complete" => session[s].exact

(* A large file is put into Google Drive once: an attempt after a lost     *)
(* answer, a failed write or a restart finds the finished session, unless  *)
(* the session expired or the row was queued again although it was done.   *)
SavedOnce ==
  \A f \in Files : store[f] = "google" /\ copies[f] > 1 => again[f]

(* A row that says done has its file in the store.                         *)
DoneIsSaved == \A f \in Files : row[f].status = "done" => copies[f] > 0

(* An interrupted upload does not stay interrupted: a row leaves           *)
(* "uploading", whatever threw and however often the host restarted.       *)
UploadingEnds == \A f \in Files : row[f].status = "uploading" ~> row[f].status # "uploading"

(* A failure for the moment is retried while it has attempts left.         *)
FailedIsRetried ==
  \A f \in Files : row[f].status = "failed" /\ Due(f) ~> ~(row[f].status = "failed" /\ Due(f))

(* A queued row is taken by a drain, even if its request could not kick.   *)
PendingIsTaken ==
  \A f \in Files : row[f].status = "pending" ~> row[f].status # "pending" \/ f \in inProgress

-----------------------------------------------------------------------------
(* What the comments say, and the code does not do (see README.md).        *)

(* queue: "Saved already, being saved, or another account's: leave it".  A *)
(* row that is done stays done.                                            *)
DoneStaysDone ==
  [][\A f \in Files : row[f].status = "done" => row'[f].status = "done"]_row

(* sweep: "pending, interrupted and transient failures".  A pending row    *)
(* does not stay pending for ever.                                         *)
PendingEnds == \A f \in Files : row[f].status = "pending" ~> row[f].status # "pending"

=============================================================================
