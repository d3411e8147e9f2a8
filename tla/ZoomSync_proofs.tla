-------------------------- MODULE ZoomSync_proofs ---------------------------
(***************************************************************************)
(* The safety properties of ZoomSync for every set of recordings, videos   *)
(* and processes, with and without restarts and disconnections, and that   *)
(* it implements SyncPromise.                                              *)
(***************************************************************************)
EXTENDS ZoomSyncPromise, TLAPS

-----------------------------------------------------------------------------
(* Records.  The proofs below never look inside Proc, Row, Idle and Chain: *)
(* these lemmas say what their fields are and what an EXCEPT leaves alone. *)

LEMMA IdleFields == /\ Idle \in Proc
                    /\ Idle.pc = "idle"
                    /\ Idle.kind = "none"
                    /\ Idle.rec = NoRecording
  BY DEF Idle, Proc, PC, Kind, Answer

LEMMA ChainFields ==
  ASSUME NEW pc \in PC, NEW kind \in Kind, NEW r \in Recordings \cup {NoRecording}
  PROVE  /\ Chain(pc, kind, r) \in Proc
         /\ Chain(pc, kind, r).pc = pc
         /\ Chain(pc, kind, r).kind = kind
         /\ Chain(pc, kind, r).rec = r
  BY DEF Chain, Idle, Proc, PC, Kind, Answer

LEMMA ProcFields ==
  ASSUME NEW c \in Proc
  PROVE  /\ c.pc \in PC
         /\ c.kind \in Kind
         /\ c.rec \in Recordings \cup {NoRecording}
         /\ c.attempt \in Nat
         /\ c.video \in Videos \cup {NoVideo}
         /\ c.transient \in BOOLEAN
         /\ c.seen \in Answer
  BY DEF Proc

\* One lemma for each set of fields some action changes.
LEMMA SetPc ==
  ASSUME NEW c \in Proc, NEW pc \in PC
  PROVE  LET d == [c EXCEPT !.pc = pc]
         IN  /\ d \in Proc /\ d.pc = pc /\ d.kind = c.kind /\ d.rec = c.rec
             /\ d.video = c.video
  BY DEF Proc

LEMMA SetTransient ==
  ASSUME NEW c \in Proc, NEW t \in BOOLEAN
  PROVE  LET d == [c EXCEPT !.transient = t]
         IN  /\ d \in Proc /\ d.pc = c.pc /\ d.kind = c.kind /\ d.rec = c.rec
  BY DEF Proc

LEMMA SetAttempt ==
  ASSUME NEW c \in Proc, NEW n \in Nat
  PROVE  LET d == [c EXCEPT !.attempt = n]
         IN  /\ d \in Proc /\ d.pc = c.pc /\ d.kind = c.kind /\ d.rec = c.rec
  BY DEF Proc

LEMMA SetVideo ==
  ASSUME NEW c \in Proc, NEW v \in Videos \cup {NoVideo}
  PROVE  LET d == [c EXCEPT !.video = v]
         IN  /\ d \in Proc /\ d.pc = c.pc /\ d.kind = c.kind /\ d.rec = c.rec
             /\ d.video = v
  BY DEF Proc

LEMMA RowFields ==
  ASSUME NEW w \in Row
  PROVE  w.status \in Status /\ w.video \in Videos \cup {NoVideo} /\ w.count \in Nat
  BY DEF Row

LEMMA SetRowStatus ==
  ASSUME NEW w \in Row, NEW s \in Status
  PROVE  LET u == [w EXCEPT !.status = s] IN u \in Row /\ u.status = s
  BY DEF Row

LEMMA SetRowRetry ==
  ASSUME NEW w \in Row, NEW b \in BOOLEAN
  PROVE  LET u == [w EXCEPT !.retry = b] IN u \in Row /\ u.status = w.status
  BY DEF Row

LEMMA SetRowStatusRetry ==
  ASSUME NEW w \in Row, NEW s \in Status, NEW b \in BOOLEAN
  PROVE  LET u == [w EXCEPT !.status = s, !.retry = b] IN u \in Row /\ u.status = s
  BY DEF Row

LEMMA SetRowStatusVideo ==
  ASSUME NEW w \in Row, NEW s \in Status, NEW v \in Videos \cup {NoVideo}
  PROVE  LET u == [w EXCEPT !.status = s, !.video = v] IN u \in Row /\ u.status = s
  BY DEF Row

LEMMA SetRowRetryCount ==
  ASSUME NEW w \in Row, NEW n \in Nat
  PROVE  LET u == [w EXCEPT !.retry = FALSE, !.count = n]
         IN  u \in Row /\ u.status = w.status
  BY DEF Row

LEMMA UpsertedRow ==
  ASSUME NEW r \in Recordings, row[r] \in Row, NEW n \in Nat
  PROVE  Upserted(r, n) \in Row /\ Upserted(r, n).status = "UPLOADING"
  BY DEF Upserted, Row, NoRow, Status

LEMMA NoRowFields ==
  ASSUME NEW s \in Status
  PROVE  /\ NoRow \in Row
         /\ NoRow.status = "NONE"
         /\ [NoRow EXCEPT !.status = s] \in Row
         /\ [NoRow EXCEPT !.status = s].status = s
  BY DEF NoRow, Row, Status

-----------------------------------------------------------------------------
(* What an action does to the processes and the rows.                      *)

ProcOK ==
  /\ proc \in [Procs -> Proc]
  /\ \A p \in Procs : /\ At(p, "checking") => proc[p].video \in Videos
                      /\ ~At(p, "idle") => proc[p].rec \in Recordings

\* Only slot p may have moved.
Only(p) == ProcOK' /\ \A q \in Procs \ {p} : proc'[q] = proc[q]

\* Slot p is now at pc, working on r; the other slots are where they were.
Moved(p, pc, kind, r) ==
  Only(p) /\ proc'[p].pc = pc /\ proc'[p].kind = kind /\ proc'[p].rec = r

LEMMA ProcStep ==
  ASSUME ProcOK, NEW p \in Procs, NEW c \in Proc, proc' = [proc EXCEPT ![p] = c],
         c.pc = "checking" => c.video \in Videos,
         c.pc = "idle" \/ c.rec \in Recordings
  PROVE  Moved(p, c.pc, c.kind, c.rec)
  BY DEF ProcOK, At, Moved, Only

LEMMA StopStep ==
  ASSUME ProcOK, NEW p \in Procs, Stop(p)
  PROVE  Moved(p, "idle", "none", NoRecording)
  BY IdleFields, ProcStep DEF Stop

LEMMA StartStep ==
  ASSUME ProcOK, NEW p \in Procs, NEW r \in Recordings, NEW kind \in Kind,
         NEW pc \in PC \ {"checking"}, proc' = [proc EXCEPT ![p] = Chain(pc, kind, r)]
  PROVE  Moved(p, pc, kind, r)
<1> DEFINE c == Chain(pc, kind, r)
<1>1. c \in Proc /\ c.pc = pc /\ c.kind = kind /\ c.rec = r
  BY ChainFields
<1>2. Moved(p, c.pc, c.kind, c.rec)
  BY <1>1, ProcStep
<1> QED
  BY <1>1, <1>2

LEMMA GotoStep ==
  ASSUME ProcOK, NEW p \in Procs, ~At(p, "idle"), NEW pc \in PC \ {"checking"}, Goto(p, pc)
  PROVE  Moved(p, pc, proc[p].kind, proc[p].rec)
<1>1. proc[p].kind \in Kind /\ proc[p].rec \in Recordings
  BY ProcFields DEF ProcOK
<1> QED
  BY <1>1, StartStep DEF Goto

LEMMA ChainTransient ==
  ASSUME ProcOK, NEW p \in Procs, NEW r \in Recordings, NEW kind \in Kind,
         NEW pc \in PC \ {"checking"}, NEW t \in BOOLEAN,
         proc' = [proc EXCEPT ![p] = [Chain(pc, kind, r) EXCEPT !.transient = t]]
  PROVE  Moved(p, pc, kind, r)
<1> DEFINE c == Chain(pc, kind, r)
           d == [c EXCEPT !.transient = t]
<1>1. c \in Proc /\ c.pc = pc /\ c.kind = kind /\ c.rec = r
  BY ChainFields
<1>2. d \in Proc /\ d.pc = pc /\ d.kind = kind /\ d.rec = r
  BY <1>1, SetTransient
<1>3. Moved(p, d.pc, d.kind, d.rec)
  BY <1>2, ProcStep
<1> QED
  BY <1>2, <1>3

LEMMA FailStep ==
  ASSUME ProcOK, NEW p \in Procs, ~At(p, "idle"), NEW pc \in PC \ {"checking"}, Fail(p, pc)
  PROVE  Moved(p, pc, proc[p].kind, proc[p].rec)
<1>1. PICK t \in BOOLEAN :
        proc' = [proc EXCEPT ![p] =
                   [Chain(pc, proc[p].kind, proc[p].rec) EXCEPT !.transient = t]]
  BY DEF Fail
<1>2. proc[p].kind \in Kind /\ proc[p].rec \in Recordings
  BY ProcFields DEF ProcOK
<1> QED
  BY <1>1, <1>2, ChainTransient

LEMMA PcStep ==
  ASSUME ProcOK, NEW p \in Procs, ~At(p, "idle"), NEW pc \in PC \ {"checking"},
         proc' = [proc EXCEPT ![p].pc = pc]
  PROVE  Moved(p, pc, proc[p].kind, proc[p].rec)
<1> DEFINE d == [proc[p] EXCEPT !.pc = pc]
<1>1. proc[p] \in Proc /\ proc[p].rec \in Recordings
  BY DEF ProcOK
<1>2. d \in Proc /\ d.pc = pc /\ d.kind = proc[p].kind /\ d.rec = proc[p].rec
  BY <1>1, SetPc
<1>3. Moved(p, d.pc, d.kind, d.rec)
  BY <1>1, <1>2, ProcStep
<1> QED
  BY <1>2, <1>3

LEMMA PcVideoStep ==
  ASSUME ProcOK, NEW p \in Procs, ~At(p, "idle"), NEW pc \in PC \ {"checking"},
         NEW v \in Videos, proc' = [proc EXCEPT ![p].pc = pc, ![p].video = v]
  PROVE  Moved(p, pc, proc[p].kind, proc[p].rec)
<1> DEFINE d == [proc[p] EXCEPT !.pc = pc, !.video = v]
<1>1. proc[p] \in Proc /\ proc[p].rec \in Recordings
  BY DEF ProcOK
<1>2. d \in Proc /\ d.pc = pc /\ d.kind = proc[p].kind /\ d.rec = proc[p].rec
  BY <1>1 DEF Proc
<1>3. proc' = [proc EXCEPT ![p] = d]
  BY DEF ProcOK
<1>4. Moved(p, d.pc, d.kind, d.rec)
  BY <1>1, <1>2, <1>3, ProcStep
<1> QED
  BY <1>2, <1>4

LEMMA PcSeenStep ==
  ASSUME ProcOK, NEW p \in Procs, ~At(p, "idle"), NEW pc \in PC \ {"checking"},
         NEW a \in Answer, proc' = [proc EXCEPT ![p].pc = pc, ![p].seen = a]
  PROVE  Moved(p, pc, proc[p].kind, proc[p].rec)
<1> DEFINE d == [proc[p] EXCEPT !.pc = pc, !.seen = a]
<1>1. proc[p] \in Proc /\ proc[p].rec \in Recordings
  BY DEF ProcOK
<1>2. d \in Proc /\ d.pc = pc /\ d.kind = proc[p].kind /\ d.rec = proc[p].rec
  BY <1>1 DEF Proc
<1>3. proc' = [proc EXCEPT ![p] = d]
  BY DEF ProcOK
<1>4. Moved(p, d.pc, d.kind, d.rec)
  BY <1>1, <1>2, <1>3, ProcStep
<1> QED
  BY <1>2, <1>4

RowOK == row \in [Recordings -> Row] /\ news \in [Recordings -> News]

\* Only the row of r, and what is owed about it, may have changed.
OnlyRow(r) ==
  RowOK' /\ \A s \in Recordings \ {r} : row'[s] = row[s] /\ news'[s] = news[s]

\* The row of r now has status s, and n is owed.
Wrote(r, s, n) == OnlyRow(r) /\ row'[r].status = s /\ news'[r] = n

LEMMA NoWrite ==
  ASSUME RowOK, NEW r \in Recordings, UNCHANGED <<row, news>>
  PROVE  OnlyRow(r) /\ row'[r] = row[r] /\ news'[r] = news[r]
  BY DEF RowOK, OnlyRow

LEMMA RowStep ==
  ASSUME RowOK, NEW r \in Recordings, NEW w \in Row, NEW n \in News,
         row' = [row EXCEPT ![r] = w], news' = [news EXCEPT ![r] = n]
  PROVE  Wrote(r, w.status, n)
  BY DEF RowOK, Wrote, OnlyRow

LEMMA SetStatusStep ==
  ASSUME RowOK, NEW r \in Recordings, NEW s \in Status, NEW n \in News, SetStatus(r, s, n)
  PROVE  /\ OnlyRow(r)
         /\ IF Exists(r) THEN row'[r].status = s /\ news'[r] = n
            ELSE row'[r] = row[r] /\ news'[r] = news[r]
<1>1. CASE Exists(r)
  <2> DEFINE w == [row[r] EXCEPT !.status = s]
  <2>1. w \in Row /\ w.status = s
    BY SetRowStatus DEF RowOK
  <2>2. row' = [row EXCEPT ![r] = w] /\ news' = [news EXCEPT ![r] = n]
    BY <1>1 DEF SetStatus
  <2> QED
    BY <1>1, <2>1, <2>2, RowStep DEF Wrote
<1>2. CASE ~Exists(r)
  BY <1>2, NoWrite DEF SetStatus
<1> QED
  BY <1>1, <1>2

LEMMA SettleStep ==
  ASSUME RowOK, NEW r \in Recordings, NEW n \in News, UNCHANGED row, Settle(r, n)
  PROVE  /\ OnlyRow(r)
         /\ row'[r] = row[r]
         /\ news'[r] = IF news[r] = n THEN "none" ELSE news[r]
  BY DEF RowOK, OnlyRow, Settle, News

-----------------------------------------------------------------------------
(* The inductive invariant: types, and for each recording that what its    *)
(* row says is owed by some process.                                       *)

TypeInv ==
  /\ ProcOK
  /\ RowOK
  /\ fresh \in [Recordings -> SUBSET Procs]
  /\ links \in SUBSET (Recordings \X Videos)
  /\ yt \in [Videos -> Answer]
  /\ configured \in BOOLEAN

Tells(p, r) == proc[p].rec = r /\ At(p, "announce")

Owed(r) ==
  /\ row[r].status = "UPLOADING" /\ news[r] # "dropped" => \E p \in Procs : Uploads(p, r)
  /\ row[r].status = "FAILED" /\ news[r] = "failed" => \E p \in Procs : Answers(p, r)
  /\ row[r].status = "COMPLETED" /\ news[r] = "ready" => \E p \in Procs : Tells(p, r)

IInv == TypeInv /\ \A r \in Recordings : Owed(r)

\* A step of slot p for recording r leaves the other recordings in order.
LEMMA Elsewhere ==
  ASSUME IInv, NEW p \in Procs, NEW r \in Recordings,
         proc[p].rec = r \/ At(p, "idle"),
         Only(p), OnlyRow(r), \A s \in Recordings \ {r} : fresh'[s] = fresh[s]
  PROVE  \A s \in Recordings \ {r} : Owed(s)'
<1> SUFFICES ASSUME NEW s \in Recordings \ {r} PROVE Owed(s)'
  OBVIOUS
<1>1. Owed(s)
  BY DEF IInv
<1>2. ASSUME NEW q \in Procs PROVE (Uploads(q, s) => Uploads(q, s)')
                                 /\ (Answers(q, s) => Answers(q, s)')
                                 /\ (Tells(q, s) => Tells(q, s)')
  <2>1. CASE q = p
    BY <2>1 DEF Uploads, Answers, Retrying, Tells, At
  <2>2. CASE q # p
    BY <2>2 DEF Only, Uploads, Answers, Retrying, Tells, At
  <2> QED
    BY <2>1, <2>2
<1> QED
  BY <1>1, <1>2 DEF Owed, OnlyRow

\* A step of slot p that leaves the status of its row alone: what p owed it
\* still owes, or the debt is settled or dropped with this step.
LEMMA Here ==
  ASSUME IInv, NEW p \in Procs, NEW r \in Recordings, Only(p),
         \A q \in Procs \ {p} : q \in fresh[r] => q \in fresh'[r],
         row'[r].status = row[r].status,
         \/ news'[r] = news[r]
         \/ news'[r] = "dropped"
         \/ news'[r] = "none" /\ news[r] # "dropped",
         row[r].status = "UPLOADING" /\ Uploads(p, r) =>
           Uploads(p, r)' \/ news'[r] = "dropped",
         row[r].status = "FAILED" /\ Answers(p, r) => Answers(p, r)' \/ news'[r] # "failed",
         row[r].status = "COMPLETED" /\ Tells(p, r) => Tells(p, r)' \/ news'[r] # "ready"
  PROVE  Owed(r)'
<1>1. Owed(r)
  BY DEF IInv
<1>2. ASSUME NEW q \in Procs, q # p
      PROVE  /\ Uploads(q, r) => Uploads(q, r)'
             /\ Answers(q, r) => Answers(q, r)'
             /\ Tells(q, r) => Tells(q, r)'
  BY <1>2 DEF Only, Uploads, Answers, Retrying, Tells, At
<1> QED
  BY <1>1, <1>2 DEF Owed

LEMMA Compose ==
  ASSUME IInv, TypeInv', NEW p \in Procs, NEW r \in Recordings,
         proc[p].rec = r \/ At(p, "idle"),
         Only(p), OnlyRow(r), \A s \in Recordings \ {r} : fresh'[s] = fresh[s],
         Owed(r)'
  PROVE  IInv'
  BY Elsewhere DEF IInv

-----------------------------------------------------------------------------
(* Every step of a running process preserves the invariant.                *)

LEMMA SyncPreserves ==
  ASSUME IInv, NEW p \in Procs, NEW r \in Recordings, NEW kind \in Kind,
         ~At(p, "idle"), proc[p].rec = r, proc[p].kind = kind, SyncStep(p)
  PROVE  IInv'
<1> USE DEF PC, Kind
<1>0. TypeInv /\ ProcOK /\ RowOK
  BY DEF IInv, TypeInv
<1>1. CASE CheckQuota(p)
  <2>1. \/ Moved(p, "fetch", kind, r) /\ UNCHANGED fresh
        \/ Moved(p, "notify", kind, r) /\ fresh' = [fresh EXCEPT ![r] = @ \ {p}]
    BY <1>1, <1>0, PcStep, GotoStep DEF CheckQuota, At
  <2>2. Only(p)
    BY <2>1 DEF Moved
  <2>3. OnlyRow(r) /\ row'[r] = row[r] /\ news'[r] = news[r]
    BY <1>1, <1>0, NoWrite DEF CheckQuota
  <2>4. TypeInv' /\ \A s \in Recordings \ {r} : fresh'[s] = fresh[s]
    BY <1>1, <1>0, <2>2, <2>3 DEF CheckQuota, TypeInv, Only, OnlyRow
  <2>5. Owed(r)'
    BY <1>1, <1>0, <2>1, <2>2, <2>3, Here
       DEF CheckQuota, TypeInv, Moved, Uploads, Answers, Retrying, Tells, At
  <2> QED
    BY <2>2, <2>3, <2>4, <2>5, Compose
<1>2. CASE FetchFails(p)
  <2>1. IF kind = "retry" THEN Moved(p, "retryError", kind, r)
        ELSE Moved(p, "idle", "none", NoRecording)
    BY <1>2, <1>0, FailStep, StopStep DEF FetchFails, At
  <2>2. Only(p)
    BY <2>1 DEF Moved
  <2>3. OnlyRow(r) /\ row'[r] = row[r] /\ news'[r] = news[r]
    BY <1>2, <1>0, NoWrite DEF FetchFails
  <2>4. TypeInv' /\ \A s \in Recordings \ {r} : fresh'[s] = fresh[s]
    BY <1>2, <1>0, <2>2, <2>3 DEF FetchFails, TypeInv, Only, OnlyRow
  <2>5. Owed(r)'
    BY <1>2, <1>0, <2>1, <2>2, <2>3, Here
       DEF FetchFails, TypeInv, Moved, Uploads, Answers, Retrying, Tells, At
  <2> QED
    BY <2>2, <2>3, <2>4, <2>5, Compose
<1>3. CASE RetryError(p)
  <2>1. IF Exists(r) /\ p \in fresh[r] THEN Moved(p, "handle", kind, r)
        ELSE Moved(p, "idle", "none", NoRecording)
    BY <1>3, <1>0, PcStep, StopStep DEF RetryError, At
  <2>2. Only(p)
    BY <2>1 DEF Moved
  <2>3. OnlyRow(r) /\ row'[r] = row[r] /\ news'[r] = news[r]
    BY <1>3, <1>0, NoWrite DEF RetryError
  <2>4. TypeInv' /\ \A s \in Recordings \ {r} : fresh'[s] = fresh[s]
    BY <1>3, <1>0, <2>2, <2>3 DEF RetryError, TypeInv, Only, OnlyRow
  <2>5. Owed(r)'
    BY <1>3, <1>0, <2>1, <2>2, <2>3, Here
       DEF RetryError, TypeInv, Moved, Uploads, Answers, Retrying, Tells, At, Exists, Owed
  <2> QED
    BY <2>2, <2>3, <2>4, <2>5, Compose
<1>5. CASE DownloadFails(p)
  <2>1. IF kind = "system" THEN Moved(p, "idle", "none", NoRecording)
        ELSE Moved(p, "caught", kind, r)
    BY <1>5, <1>0, FailStep, StopStep DEF DownloadFails, At
  <2>2. Only(p)
    BY <2>1 DEF Moved
  <2>3. OnlyRow(r) /\ row'[r] = row[r] /\ news'[r] = news[r]
    BY <1>5, <1>0, NoWrite DEF DownloadFails
  <2>4. TypeInv' /\ \A s \in Recordings \ {r} : fresh'[s] = fresh[s]
    BY <1>5, <1>0, <2>2, <2>3 DEF DownloadFails, TypeInv, Only, OnlyRow
  <2>5. Owed(r)'
    BY <1>5, <1>0, <2>1, <2>2, <2>3, Here
       DEF DownloadFails, TypeInv, Moved, Uploads, Answers, Retrying, Tells, At
  <2> QED
    BY <2>2, <2>3, <2>4, <2>5, Compose
<1>6. CASE Caught(p)
  <2>1. IF row[r].status \in {"NONE", "FAILED"} THEN Moved(p, "idle", "none", NoRecording)
        ELSE Moved(p, "mark", kind, r)
    BY <1>6, <1>0, PcStep, StopStep DEF Caught, At
  <2>2. Only(p)
    BY <2>1 DEF Moved
  <2>3. OnlyRow(r) /\ row'[r] = row[r] /\ news'[r] = news[r]
    BY <1>6, <1>0, NoWrite DEF Caught
  <2>4. TypeInv' /\ \A s \in Recordings \ {r} : fresh'[s] = fresh[s]
    BY <1>6, <1>0, <2>2, <2>3 DEF Caught, TypeInv, Only, OnlyRow
  <2>5. Owed(r)'
    BY <1>6, <1>0, <2>1, <2>2, <2>3, Here
       DEF Caught, TypeInv, Moved, Uploads, Answers, Retrying, Tells, At, Owed
  <2> QED
    BY <2>2, <2>3, <2>4, <2>5, Compose
<1>7. CASE MarkFailed(p)
  <2>1. IF Exists(r) THEN Moved(p, "handle", kind, r) ELSE Moved(p, "idle", "none", NoRecording)
    BY <1>7, <1>0, PcStep, StopStep DEF MarkFailed, At
  <2>2. Only(p)
    BY <2>1 DEF Moved
  <2>3. OnlyRow(r) /\ (IF Exists(r) THEN row'[r].status = "FAILED" /\ news'[r] = "failed"
                     ELSE row'[r] = row[r] /\ news'[r] = news[r])
    BY <1>7, <1>0, SetStatusStep DEF MarkFailed, Status, News
  <2>4. TypeInv' /\ \A s \in Recordings \ {r} : fresh'[s] = fresh[s]
    BY <1>7, <1>0, <2>2, <2>3 DEF MarkFailed, TypeInv, Only, OnlyRow
  <2>5. Owed(r)'
    BY <1>7, <1>0, <2>1, <2>2, <2>3
       DEF MarkFailed, Owed, Moved, Uploads, Answers, Retrying, Tells, At, Exists
  <2> QED
    BY <2>2, <2>3, <2>4, <2>5, Compose
<1>8. CASE StartUpload(p)
  <2>1. Moved(p, "upload", kind, r)
    BY <1>8, <1>0, GotoStep DEF StartUpload, At
  <2>2. Only(p)
    BY <2>1 DEF Moved
  <2>3. OnlyRow(r) /\ (IF Exists(r) THEN row'[r].status = "UPLOADING" /\ news'[r] = "none"
                     ELSE row'[r] = row[r] /\ news'[r] = news[r])
    BY <1>8, <1>0, SetStatusStep DEF StartUpload, Status, News
  <2>4. TypeInv' /\ \A s \in Recordings \ {r} : fresh'[s] = fresh[s]
    BY <1>8, <1>0, <2>2, <2>3 DEF StartUpload, TypeInv, Only, OnlyRow
  <2>5. Owed(r)'
    BY <1>8, <1>0, <2>1, <2>2, <2>3
       DEF StartUpload, Owed, Moved, Uploads, Answers, Retrying, Tells, At, Exists
  <2> QED
    BY <2>2, <2>3, <2>4, <2>5, Compose
<1>9. CASE SkipUpload(p)
  <2>1. Moved(p, "idle", "none", NoRecording)
    BY <1>9, <1>0, StopStep DEF SkipUpload, At
  <2>2. Only(p)
    BY <2>1 DEF Moved
  <2>3. OnlyRow(r) /\ row'[r] = row[r]
        /\ news'[r] = IF row[r].status = "UPLOADING" THEN "dropped" ELSE news[r]
    BY <1>9, <1>0, NoWrite DEF SkipUpload, OnlyRow, RowOK, News
  <2>4. TypeInv' /\ \A s \in Recordings \ {r} : fresh'[s] = fresh[s]
    BY <1>9, <1>0, <2>2, <2>3 DEF SkipUpload, TypeInv, Only, OnlyRow
  <2>5. Owed(r)'
    BY <1>9, <1>0, <2>1, <2>2, <2>3, Here
       DEF SkipUpload, TypeInv, Moved, Uploads, Answers, Retrying, Tells, At
  <2> QED
    BY <2>2, <2>3, <2>4, <2>5, Compose
<1>10. CASE InsertFails(p)
  <2>1. Moved(p, "uploadFailed", kind, r)
    BY <1>10, <1>0, FailStep DEF InsertFails, At, CanInsert
  <2>2. Only(p)
    BY <2>1 DEF Moved
  <2>3. OnlyRow(r) /\ row'[r] = row[r] /\ news'[r] = news[r]
    BY <1>10, <1>0, NoWrite DEF InsertFails
  <2>4. TypeInv' /\ \A s \in Recordings \ {r} : fresh'[s] = fresh[s]
    BY <1>10, <1>0, <2>2, <2>3 DEF InsertFails, TypeInv, Only, OnlyRow
  <2>5. Owed(r)'
    BY <1>10, <1>0, <2>1, <2>2, <2>3, Here
       DEF InsertFails, TypeInv, Moved, Uploads, Answers, Retrying, Tells, At, CanInsert
  <2> QED
    BY <2>2, <2>3, <2>4, <2>5, Compose
<1>11. CASE MarkUploadFailed(p)
  <2>1. Moved(p, "handle", kind, r)
    BY <1>11, <1>0, PcStep DEF MarkUploadFailed, At
  <2>2. Only(p)
    BY <2>1 DEF Moved
  <2>3. OnlyRow(r) /\ (IF Exists(r) THEN row'[r].status = "FAILED" /\ news'[r] = "failed"
                     ELSE row'[r] = row[r] /\ news'[r] = news[r])
    BY <1>11, <1>0, SetStatusStep DEF MarkUploadFailed, Status, News
  <2>4. TypeInv' /\ \A s \in Recordings \ {r} : fresh'[s] = fresh[s]
    BY <1>11, <1>0, <2>2, <2>3 DEF MarkUploadFailed, TypeInv, Only, OnlyRow
  <2>5. Owed(r)'
    BY <1>11, <1>0, <2>1, <2>2, <2>3
       DEF MarkUploadFailed, Owed, Moved, Uploads, Answers, Retrying, Tells, At, Exists
  <2> QED
    BY <2>2, <2>3, <2>4, <2>5, Compose
<1>12. CASE RecordVideo(p)
  <2>1. Moved(p, "idle", "none", NoRecording)
    BY <1>12, <1>0, StopStep DEF RecordVideo, At
  <2>2. Only(p)
    BY <2>1 DEF Moved
  <2>3. OnlyRow(r) /\ (IF Exists(r) THEN row'[r].status = "PROCESSING" /\ news'[r] = "none"
                     ELSE row'[r] = row[r] /\ news'[r] = news[r])
    <3>1. CASE Exists(r)
      <4> DEFINE w == [row[r] EXCEPT !.status = "PROCESSING", !.video = proc[p].video]
      <4>1. row[r] \in Row /\ proc[p] \in Proc
        BY <1>0 DEF RowOK, ProcOK
      <4>2. proc[p].attempt \in Nat /\ proc[p].video \in Videos \cup {NoVideo}
        BY <4>1, ProcFields
      <4>3. w \in Row /\ w.status = "PROCESSING"
        <5>1. "PROCESSING" \in Status
          BY DEF Status
        <5> QED
          BY <4>1, <4>2, <5>1, SetRowStatusVideo
      <4>4. row' = [row EXCEPT ![r] = w] /\ news' = [news EXCEPT ![r] = "none"]
        BY <1>12, <3>1 DEF RecordVideo
      <4> QED
        BY <1>0, <3>1, <4>3, <4>4, RowStep DEF Wrote, News
    <3>2. CASE ~(Exists(r))
      BY <1>12, <1>0, <3>2, NoWrite DEF RecordVideo
    <3> QED
      BY <3>1, <3>2
  <2>4. TypeInv' /\ \A s \in Recordings \ {r} : fresh'[s] = fresh[s]
    BY <1>12, <1>0, <2>2, <2>3 DEF RecordVideo, TypeInv, Only, OnlyRow
  <2>5. Owed(r)'
    BY <1>12, <1>0, <2>1, <2>2, <2>3
       DEF RecordVideo, Owed, Moved, Uploads, Answers, Retrying, Tells, At, Exists
  <2> QED
    BY <2>2, <2>3, <2>4, <2>5, Compose
<1>4. CASE BeginSync(p)
  <2>1. Moved(p, "download", IF kind = "retry" THEN "sync" ELSE kind, r)
    BY <1>4, <1>0, StartStep DEF BeginSync, At
  <2>2. Only(p)
    BY <2>1 DEF Moved
  <2>3. OnlyRow(r) /\ (IF kind # "system" THEN row'[r].status = "UPLOADING" /\ news'[r] = "none"
                     ELSE row'[r] = row[r] /\ news'[r] = news[r])
    <3>1. CASE kind # "system"
      <4> DEFINE w == Upserted(r, proc[p].attempt)
      <4>1. row[r] \in Row /\ proc[p] \in Proc
        BY <1>0 DEF RowOK, ProcOK
      <4>2. proc[p].attempt \in Nat /\ proc[p].video \in Videos \cup {NoVideo}
        BY <4>1, ProcFields
      <4>3. w \in Row /\ w.status = "UPLOADING"
        BY <4>1, <4>2, UpsertedRow DEF Status
      <4>4. row' = [row EXCEPT ![r] = w] /\ news' = [news EXCEPT ![r] = "none"]
        BY <1>4, <3>1 DEF BeginSync
      <4> QED
        BY <1>0, <3>1, <4>3, <4>4, RowStep DEF Wrote, News
    <3>2. CASE ~(kind # "system")
      BY <1>4, <1>0, <3>2, NoWrite DEF BeginSync
    <3> QED
      BY <3>1, <3>2
  <2>4. TypeInv' /\ \A s \in Recordings \ {r} : fresh'[s] = fresh[s]
    BY <1>4, <1>0, <2>2, <2>3 DEF BeginSync, TypeInv, Only, OnlyRow
  <2>5. Owed(r)'
    BY <1>4, <1>0, <2>1, <2>2, <2>3
       DEF BeginSync, Owed, Moved, Uploads, Answers, Retrying, Tells, At, IInv
  <2> QED
    BY <2>2, <2>3, <2>4, <2>5, Compose
<1>13. ASSUME NEW v \in Videos, InsertVideo(p, v) PROVE IInv'
  <2>3. Moved(p, "uploaded", kind, r)
    BY <1>13, <1>0, PcVideoStep DEF InsertVideo
  <2>4. Only(p) /\ OnlyRow(r) /\ row'[r] = row[r] /\ news'[r] = news[r]
    BY <1>13, <1>0, <2>3, NoWrite DEF InsertVideo, Moved
  <2>5. TypeInv' /\ \A s \in Recordings \ {r} : fresh'[s] = fresh[s]
    BY <1>13, <1>0, <2>4 DEF InsertVideo, TypeInv, Only, OnlyRow, Answer
  <2>6. Owed(r)'
    BY <1>13, <1>0, <2>3, <2>4, Here
       DEF InsertVideo, CanInsert, Moved, Uploads, Answers, Retrying, Tells, At
  <2> QED
    BY <2>4, <2>5, <2>6, Compose
<1> QED
  BY <1>1, <1>2, <1>3, <1>4, <1>5, <1>6, <1>7, <1>8, <1>9, <1>10, <1>11, <1>12, <1>13
     DEF SyncStep

LEMMA FailurePreserves ==
  ASSUME IInv, NEW p \in Procs, NEW r \in Recordings, NEW kind \in Kind,
         ~At(p, "idle"), proc[p].rec = r, proc[p].kind = kind, FailureStep(p)
  PROVE  IInv'
<1> USE DEF PC, Kind
<1>0. TypeInv /\ ProcOK /\ RowOK
  BY DEF IInv, TypeInv
<1>1. CASE HandleFailure(p)
  <2>1. IF ~Exists(r) THEN Moved(p, "idle", "none", NoRecording)
        ELSE \/ Moved(p, "schedule", kind, r)
             \/ Moved(p, "notify", kind, r)
    BY <1>1, <1>0, GotoStep, StopStep DEF HandleFailure, At
  <2>2. Only(p)
    BY <2>1 DEF Moved
  <2>3. OnlyRow(r) /\ row'[r] = row[r] /\ news'[r] = news[r]
    BY <1>1, <1>0, NoWrite DEF HandleFailure
  <2>4. TypeInv' /\ \A s \in Recordings \ {r} : fresh'[s] = fresh[s]
    BY <1>1, <1>0, <2>2, <2>3 DEF HandleFailure, TypeInv, Only, OnlyRow
  <2>5. Owed(r)'
    BY <1>1, <1>0, <2>1, <2>2, <2>3, Here
       DEF HandleFailure, TypeInv, Moved, Uploads, Answers, Retrying, Tells, At, Exists
  <2> QED
    BY <2>2, <2>3, <2>4, <2>5, Compose
<1>2. CASE ScheduleRetry(p)
  <2>1. Moved(p, "idle", "none", NoRecording)
    BY <1>2, <1>0, StopStep DEF ScheduleRetry, At
  <2>2. Only(p)
    BY <2>1 DEF Moved
  <2>3. OnlyRow(r) /\ row'[r].status = row[r].status
        /\ news'[r] = IF news[r] = "failed" THEN "none" ELSE news[r]
    <3> DEFINE w == [row[r] EXCEPT !.retry = Exists(r)]
    <3>1. row[r] \in Row /\ Exists(r) \in BOOLEAN
      BY <1>0 DEF RowOK, Exists
    <3>2. w \in Row /\ w.status = row[r].status
      BY <3>1, SetRowRetry
    <3>3. row' = [row EXCEPT ![r] = w]
      BY <1>2 DEF ScheduleRetry
    <3> QED
      BY <1>2, <1>0, <3>2, <3>3 DEF ScheduleRetry, Settle, OnlyRow, RowOK, News
  <2>4. TypeInv' /\ \A s \in Recordings \ {r} : fresh'[s] = fresh[s]
    BY <1>2, <1>0, <2>2, <2>3 DEF ScheduleRetry, TypeInv, Only, OnlyRow
  <2>5. Owed(r)'
    BY <1>2, <1>0, <2>1, <2>2, <2>3, Here
       DEF ScheduleRetry, TypeInv, Moved, Uploads, Answers, Retrying, Tells, At
  <2> QED
    BY <2>2, <2>3, <2>4, <2>5, Compose
<1>3. CASE NotifyFailed(p)
  <2>1. Moved(p, "idle", "none", NoRecording)
    BY <1>3, <1>0, StopStep DEF NotifyFailed, At
  <2>2. Only(p)
    BY <2>1 DEF Moved
  <2>3. OnlyRow(r) /\ row'[r] = row[r]
        /\ news'[r] = IF news[r] = "failed" THEN "none" ELSE news[r]
    BY <1>3, <1>0, SettleStep DEF NotifyFailed, News
  <2>4. TypeInv' /\ \A s \in Recordings \ {r} : fresh'[s] = fresh[s]
    BY <1>3, <1>0, <2>2, <2>3 DEF NotifyFailed, TypeInv, Only, OnlyRow
  <2>5. Owed(r)'
    BY <1>3, <1>0, <2>1, <2>2, <2>3, Here
       DEF NotifyFailed, TypeInv, Moved, Uploads, Answers, Retrying, Tells, At
  <2> QED
    BY <2>2, <2>3, <2>4, <2>5, Compose
<1> QED
  BY <1>1, <1>2, <1>3 DEF FailureStep

LEMMA CheckPreserves ==
  ASSUME IInv, NEW p \in Procs, NEW r \in Recordings, NEW kind \in Kind,
         ~At(p, "idle"), proc[p].rec = r, proc[p].kind = kind, CheckStep(p)
  PROVE  IInv'
<1> USE DEF PC, Kind
<1>0. TypeInv /\ ProcOK /\ RowOK
  BY DEF IInv, TypeInv
<1>1. CASE CheckUnconfigured(p)
  <2>1. Moved(p, "idle", "none", NoRecording)
    BY <1>1, <1>0, StopStep DEF CheckUnconfigured, At
  <2>2. Only(p)
    BY <2>1 DEF Moved
  <2>3. OnlyRow(r) /\ (IF Exists(r) THEN row'[r].status = "FAILED" /\ news'[r] = "dropped"
                     ELSE row'[r] = row[r] /\ news'[r] = news[r])
    BY <1>1, <1>0, SetStatusStep DEF CheckUnconfigured, Status, News
  <2>4. TypeInv' /\ \A s \in Recordings \ {r} : fresh'[s] = fresh[s]
    BY <1>1, <1>0, <2>2, <2>3 DEF CheckUnconfigured, TypeInv, Only, OnlyRow
  <2>5. Owed(r)'
    BY <1>1, <1>0, <2>1, <2>2, <2>3
       DEF CheckUnconfigured, Owed, Moved, Uploads, Answers, Retrying, Tells, At, Exists
  <2> QED
    BY <2>2, <2>3, <2>4, <2>5, Compose
<1>3. CASE ApplyProcessing(p)
  <2>1. Moved(p, "idle", "none", NoRecording)
    BY <1>3, <1>0, StopStep DEF ApplyProcessing, At
  <2>2. Only(p)
    BY <2>1 DEF Moved
  <2>3. OnlyRow(r) /\ (IF Exists(r) THEN row'[r].status = "PROCESSING" /\ news'[r] = "none"
                     ELSE row'[r] = row[r] /\ news'[r] = news[r])
    BY <1>3, <1>0, SetStatusStep DEF ApplyProcessing, Status, News
  <2>4. TypeInv' /\ \A s \in Recordings \ {r} : fresh'[s] = fresh[s]
    BY <1>3, <1>0, <2>2, <2>3 DEF ApplyProcessing, TypeInv, Only, OnlyRow
  <2>5. Owed(r)'
    BY <1>3, <1>0, <2>1, <2>2, <2>3
       DEF ApplyProcessing, Owed, Moved, Uploads, Answers, Retrying, Tells, At, Exists
  <2> QED
    BY <2>2, <2>3, <2>4, <2>5, Compose
<1>2. CASE AskYoutube(p)
  <2>1. \/ Moved(p, "answered", kind, r)
        \/ Moved(p, "idle", "none", NoRecording)
    BY <1>2, <1>0, PcSeenStep, StopStep DEF AskYoutube, At, TypeInv, ProcOK
  <2>2. Only(p)
    BY <2>1 DEF Moved
  <2>3. OnlyRow(r) /\ row'[r] = row[r] /\ news'[r] = news[r]
    BY <1>2, <1>0, NoWrite DEF AskYoutube
  <2>4. TypeInv' /\ \A s \in Recordings \ {r} : fresh'[s] = fresh[s]
    BY <1>2, <1>0, <2>2, <2>3 DEF AskYoutube, TypeInv, Only, OnlyRow
  <2>5. Owed(r)'
    BY <1>2, <1>0, <2>1, <2>2, <2>3, Here
       DEF AskYoutube, TypeInv, Moved, Uploads, Answers, Retrying, Tells, At
  <2> QED
    BY <2>2, <2>3, <2>4, <2>5, Compose
<1>4. CASE ApplyProcessed(p)
  <2>1. IF Moves(p, "COMPLETED") THEN Moved(p, "announce", kind, r) ELSE Moved(p, "idle", "none", NoRecording)
    BY <1>4, <1>0, PcSeenStep, StopStep DEF ApplyProcessed, At, Answer
  <2>2. Only(p)
    BY <2>1 DEF Moved
  <2>3. OnlyRow(r) /\ (IF Moves(p, "COMPLETED") THEN row'[r].status = "COMPLETED" /\ news'[r] = "ready"
                     ELSE row'[r] = row[r] /\ news'[r] = news[r])
    <3>1. CASE Moves(p, "COMPLETED")
      BY <1>4, <1>0, <3>1, SetStatusStep DEF ApplyProcessed, Moves, Exists, Status, News
    <3>2. CASE ~Moves(p, "COMPLETED")
      BY <1>4, <1>0, <3>2, NoWrite DEF ApplyProcessed
    <3> QED
      BY <3>1, <3>2
  <2>4. TypeInv' /\ \A s \in Recordings \ {r} : fresh'[s] = fresh[s]
    BY <1>4, <1>0, <2>2, <2>3 DEF ApplyProcessed, TypeInv, Only, OnlyRow
  <2>5. Owed(r)'
    <3>1. CASE Moves(p, "COMPLETED")
      BY <2>1, <2>2, <2>3, <3>1 DEF Owed, Moved, Answers, Tells, At
    <3>2. CASE ~Moves(p, "COMPLETED")
      BY <1>4, <1>0, <2>1, <2>2, <2>3, <3>2, Here
         DEF ApplyProcessed, TypeInv, Uploads, Answers, Retrying, Tells, At
    <3> QED
      BY <3>1, <3>2
  <2> QED
    BY <2>2, <2>3, <2>4, <2>5, Compose
<1>5. CASE ApplyFailed(p)
  <2>1. IF Moves(p, "FAILED") THEN Moved(p, "handle", "check", r) ELSE Moved(p, "idle", "none", NoRecording)
    BY <1>5, <1>0, ChainTransient, StopStep DEF ApplyFailed, At
  <2>2. Only(p)
    BY <2>1 DEF Moved
  <2>3. OnlyRow(r) /\ (IF Moves(p, "FAILED") THEN row'[r].status = "FAILED" /\ news'[r] = "failed"
                     ELSE row'[r] = row[r] /\ news'[r] = news[r])
    <3>1. CASE Moves(p, "FAILED")
      BY <1>5, <1>0, <3>1, SetStatusStep DEF ApplyFailed, Moves, Exists, Status, News
    <3>2. CASE ~Moves(p, "FAILED")
      BY <1>5, <1>0, <3>2, NoWrite DEF ApplyFailed
    <3> QED
      BY <3>1, <3>2
  <2>4. TypeInv' /\ \A s \in Recordings \ {r} : fresh'[s] = fresh[s]
    BY <1>5, <1>0, <2>2, <2>3 DEF ApplyFailed, TypeInv, Only, OnlyRow
  <2>5. Owed(r)'
    <3>1. CASE Moves(p, "FAILED")
      BY <2>1, <2>2, <2>3, <3>1 DEF Owed, Moved, Answers, Tells, At
    <3>2. CASE ~Moves(p, "FAILED")
      BY <1>5, <1>0, <2>1, <2>2, <2>3, <3>2, Here
         DEF ApplyFailed, TypeInv, Uploads, Answers, Retrying, Tells, At
    <3> QED
      BY <3>1, <3>2
  <2> QED
    BY <2>2, <2>3, <2>4, <2>5, Compose
<1>6. CASE ApplyDeleted(p)
  <2>1. IF Moves(p, "FAILED") THEN Moved(p, "handle", kind, r) ELSE Moved(p, "idle", "none", NoRecording)
    BY <1>6, <1>0, GotoStep, StopStep DEF ApplyDeleted, At
  <2>2. Only(p)
    BY <2>1 DEF Moved
  <2>3. OnlyRow(r) /\ (IF Moves(p, "FAILED") THEN row'[r].status = "FAILED" /\ news'[r] = "failed"
                     ELSE row'[r] = row[r] /\ news'[r] = news[r])
    <3>1. CASE Moves(p, "FAILED")
      <4> DEFINE w == [row[r] EXCEPT !.status = "FAILED", !.retry = FALSE]
      <4>1. row[r] \in Row /\ proc[p] \in Proc
        BY <1>0 DEF RowOK, ProcOK
      <4>2. proc[p].attempt \in Nat /\ proc[p].video \in Videos \cup {NoVideo}
        BY <4>1, ProcFields
      <4>3. w \in Row /\ w.status = "FAILED"
        BY <4>1, <4>2, SetRowStatusRetry DEF Status
      <4>4. row' = [row EXCEPT ![r] = w] /\ news' = [news EXCEPT ![r] = "failed"]
        BY <1>6, <3>1 DEF ApplyDeleted
      <4> QED
        BY <1>0, <3>1, <4>3, <4>4, RowStep DEF Wrote, News
    <3>2. CASE ~(Moves(p, "FAILED"))
      BY <1>6, <1>0, <3>2, NoWrite DEF ApplyDeleted
    <3> QED
      BY <3>1, <3>2
  <2>4. TypeInv' /\ \A s \in Recordings \ {r} : fresh'[s] = fresh[s]
    BY <1>6, <1>0, <2>2, <2>3 DEF ApplyDeleted, TypeInv, Only, OnlyRow
  <2>5. Owed(r)'
    <3>1. CASE Moves(p, "FAILED")
      BY <2>1, <2>2, <2>3, <3>1 DEF Owed, Moved, Answers, Tells, At
    <3>2. CASE ~Moves(p, "FAILED")
      BY <1>6, <1>0, <2>1, <2>2, <2>3, <3>2, Here
         DEF ApplyDeleted, TypeInv, Uploads, Answers, Retrying, Tells, At
    <3> QED
      BY <3>1, <3>2
  <2> QED
    BY <2>2, <2>3, <2>4, <2>5, Compose
<1>7. CASE Announce(p)
  <2>1. Moved(p, "idle", "none", NoRecording)
    BY <1>7, <1>0, StopStep DEF Announce, At
  <2>2. Only(p)
    BY <2>1 DEF Moved
  <2>3. OnlyRow(r) /\ row'[r] = row[r]
        /\ news'[r] = IF news[r] = "ready" THEN "none" ELSE news[r]
    BY <1>7, <1>0, SettleStep DEF Announce, News
  <2>4. TypeInv' /\ \A s \in Recordings \ {r} : fresh'[s] = fresh[s]
    BY <1>7, <1>0, <2>2, <2>3 DEF Announce, TypeInv, Only, OnlyRow
  <2>5. Owed(r)'
    BY <1>7, <1>0, <2>1, <2>2, <2>3, Here
       DEF Announce, TypeInv, Moved, Uploads, Answers, Retrying, Tells, At
  <2> QED
    BY <2>2, <2>3, <2>4, <2>5, Compose
<1> QED
  BY <1>1, <1>2, <1>3, <1>4, <1>5, <1>6, <1>7 DEF CheckStep

-----------------------------------------------------------------------------
(* So does every request, claim, link and change of the environment.       *)

LEMMA StartPreserves ==
  ASSUME IInv, NEW p \in Procs, NEW r \in Recordings, Claim(p, r) \/ Request(p, r)
  PROVE  IInv'
<1> USE DEF PC, Kind
<1>0. TypeInv /\ ProcOK /\ RowOK
  BY DEF IInv, TypeInv
<1>1. proc[p] = Idle /\ At(p, "idle")
  BY IdleFields DEF Claim, Request, StartManual, StartWebhook, StartSystem, StartCheck, Start, At
<1>2. row[r] \in Row /\ row[r].count \in Nat /\ row[r].video \in Videos \cup {NoVideo}
  BY <1>0, RowFields DEF RowOK
\* A slot that starts working owed nothing before.
<1>3. ~Uploads(p, r) /\ ~Answers(p, r) /\ ~Tells(p, r)
  BY <1>1, IdleFields DEF Uploads, Answers, Retrying, Tells, At
<1>4. CASE Claim(p, r)
  <2> DEFINE n == Bump(row[r].count)
             c == Chain("claimed", "retry", r)
             d == [c EXCEPT !.attempt = n]
             w == [row[r] EXCEPT !.retry = FALSE, !.count = n]
  <2>1. n \in Nat
    BY <1>2, ConstantsAssumption DEF Bump
  <2>2. c \in Proc /\ c.pc = "claimed" /\ c.kind = "retry" /\ c.rec = r
    BY ChainFields
  <2>3. d \in Proc /\ d.pc = "claimed" /\ d.kind = "retry" /\ d.rec = r
    BY <2>1, <2>2, SetAttempt
  <2>4. Only(p) /\ proc'[p].pc = "claimed" /\ proc'[p].kind = "retry" /\ proc'[p].rec = r
    BY <1>0, <1>4, <2>3, ProcStep DEF Claim, Moved
  <2>5. w \in Row /\ w.status = row[r].status
    BY <1>2, <2>1, SetRowRetryCount
  <2>6. row' = [row EXCEPT ![r] = w] /\ news' = [news EXCEPT ![r] = "failed"]
    BY <1>0, <1>4 DEF Claim, RowOK
  <2>7. OnlyRow(r) /\ row'[r].status = "FAILED"
    BY <1>0, <1>4, <2>5, <2>6, RowStep DEF Wrote, News, Claim
  <2>8. TypeInv' /\ p \in fresh'[r] /\ \A s \in Recordings \ {r} : fresh'[s] = fresh[s]
    BY <1>0, <1>4, <2>4, <2>7 DEF Claim, TypeInv, Only, OnlyRow
  <2>9. Owed(r)'
    BY <2>4, <2>7, <2>8 DEF Owed, Answers, Retrying, At
  <2> QED
    BY <1>1, <2>4, <2>7, <2>8, <2>9, Compose
<1>5. CASE StartManual(p, r) \/ StartSystem(p, r)
  <2>1. Moved(p, "fetch", "sync", r) \/ Moved(p, "fetch", "system", r)
    BY <1>0, <1>5, StartStep DEF StartManual, StartSystem, Start
  <2>2. Only(p)
    BY <2>1 DEF Moved
  <2>3. OnlyRow(r) /\ row'[r] = row[r] /\ news'[r] = news[r]
    BY <1>0, <1>5, NoWrite DEF StartManual, StartSystem
  <2>4. TypeInv' /\ UNCHANGED fresh
    BY <1>0, <1>5, <2>2, <2>3 DEF StartManual, StartSystem, TypeInv, Only, OnlyRow
  <2>5. Owed(r)'
    BY <1>3, <2>2, <2>3, <2>4, Here
  <2> QED
    BY <1>1, <2>2, <2>3, <2>4, <2>5, Compose
<1>6. CASE StartWebhook(p, r)
  <2>1. Moved(p, "fetch", "sync", r)
    BY <1>0, <1>6, StartStep DEF StartWebhook, Start
  <2>2. Only(p)
    BY <2>1 DEF Moved
  <2>3. OnlyRow(r) /\ news'[r] = news[r]
        /\ (row'[r] = row[r] \/ row'[r].status = "SKIPPED")
    BY <1>0, <1>2, <1>6, NoRowFields DEF StartWebhook, ReceiveWebhook, RowOK, OnlyRow, Status
  <2>4. TypeInv' /\ UNCHANGED fresh
    BY <1>0, <1>6, <2>2, <2>3 DEF StartWebhook, TypeInv, Only, OnlyRow
  <2>5. Owed(r)'
    <3>1. CASE row'[r] = row[r]
      BY <1>3, <2>2, <2>3, <2>4, <3>1, Here
    <3>2. CASE row'[r].status = "SKIPPED"
      BY <3>2 DEF Owed
    <3> QED
      BY <2>3, <3>1, <3>2
  <2> QED
    BY <1>1, <2>2, <2>3, <2>4, <2>5, Compose
<1>7. CASE StartCheck(p, r)
  <2> DEFINE c == Chain("checking", "check", r)
             d == [c EXCEPT !.video = row[r].video]
  <2>1. c \in Proc /\ c.pc = "checking" /\ c.kind = "check" /\ c.rec = r
    BY ChainFields
  <2>2. row[r].video \in Videos
    BY <1>2, <1>7 DEF StartCheck
  <2>3. d \in Proc /\ d.pc = "checking" /\ d.kind = "check" /\ d.rec = r /\ d.video \in Videos
    BY <2>1, <2>2, SetVideo
  <2>4. Only(p)
    BY <1>0, <1>7, <2>3, ProcStep DEF StartCheck, Moved
  <2>5. OnlyRow(r) /\ row'[r] = row[r] /\ news'[r] = news[r]
    BY <1>0, <1>7, NoWrite DEF StartCheck
  <2>6. TypeInv' /\ UNCHANGED fresh
    BY <1>0, <1>7, <2>4, <2>5 DEF StartCheck, TypeInv, Only, OnlyRow
  <2>7. Owed(r)'
    BY <1>3, <2>4, <2>5, <2>6, Here
  <2> QED
    BY <1>1, <2>4, <2>5, <2>6, <2>7, Compose
<1> QED
  BY <1>4, <1>5, <1>6, <1>7 DEF Request

LEMMA EnvironmentPreserves ==
  ASSUME IInv,
         \/ \E r \in Recordings : WebhookSkipped(r) \/ LinkStep(r)
         \/ \E v \in Videos : VideoChanges(v)
         \/ Reconnect \/ Restart \/ UNCHANGED vars
  PROVE  IInv'
<1>0. TypeInv /\ ProcOK /\ RowOK /\ \A r \in Recordings : Owed(r)
  BY DEF IInv, TypeInv
\* A step that moves no process keeps ProcOK and everything the processes owe.
<1>1. ASSUME UNCHANGED proc
      PROVE  /\ ProcOK'
             /\ \A r \in Recordings :
                  fresh'[r] = fresh[r] /\ row'[r].status = row[r].status /\ news'[r] = news[r]
                  => Owed(r)'
  BY <1>0, <1>1 DEF ProcOK, Owed, Uploads, Answers, Retrying, Tells, At
<1>2. ASSUME NEW r \in Recordings, WebhookSkipped(r) PROVE IInv'
  <2>1. OnlyRow(r) /\ row'[r].status = "SKIPPED" /\ UNCHANGED <<proc, fresh, news>>
    BY <1>0, <1>2, NoRowFields DEF WebhookSkipped, ReceiveWebhook, Exists, RowOK, OnlyRow, Status
  <2>2. TypeInv'
    BY <1>0, <1>1, <1>2, <2>1 DEF WebhookSkipped, TypeInv, OnlyRow
  <2>3. Owed(r)'
    BY <2>1 DEF Owed
  <2> QED
    BY <1>1, <2>1, <2>2, <2>3 DEF IInv, OnlyRow
<1>3. ASSUME NEW r \in Recordings, Unlink(r) PROVE IInv'
  <2>1. OnlyRow(r) /\ row'[r].status = "NONE" /\ UNCHANGED proc
    <3>1. NoRow \in Row /\ NoRow.status = "NONE"
      BY NoRowFields DEF Status
    <3>2. row' = [row EXCEPT ![r] = NoRow] /\ news' = [news EXCEPT ![r] = "none"]
      BY <1>3 DEF Unlink
    <3> QED
      BY <1>0, <1>3, <3>1, <3>2, RowStep DEF Unlink, Wrote, News
  <2>2. TypeInv' /\ \A s \in Recordings \ {r} : fresh'[s] = fresh[s]
    BY <1>0, <1>1, <1>3, <2>1 DEF Unlink, TypeInv, OnlyRow
  <2>3. Owed(r)'
    BY <2>1 DEF Owed
  <2> QED
    BY <1>1, <2>1, <2>2, <2>3 DEF IInv, OnlyRow
<1>4. ASSUME NEW r \in Recordings, NEW v \in Videos, WriteLink(r, v) PROVE IInv'
  <2> DEFINE w == [status |-> "COMPLETED", video |-> v, linked |-> TRUE,
                   count |-> 0, retry |-> FALSE]
  <2>1. w \in Row /\ w.status = "COMPLETED"
    BY DEF Row, Status
  <2>2. OnlyRow(r) /\ row'[r].status = "COMPLETED" /\ news'[r] = "none" /\ UNCHANGED proc
    BY <1>0, <1>4, <2>1, RowStep DEF WriteLink, Wrote, News
  <2>3. TypeInv' /\ \A s \in Recordings \ {r} : fresh'[s] = fresh[s]
    BY <1>0, <1>1, <1>4, <2>2 DEF WriteLink, TypeInv, OnlyRow
  <2>4. Owed(r)'
    BY <2>2 DEF Owed
  <2> QED
    BY <1>1, <2>2, <2>3, <2>4 DEF IInv, OnlyRow
<1>5. ASSUME NEW r \in Recordings, NEW v \in Videos, RequestLink(r, v) PROVE IInv'
  <2>1. UNCHANGED <<row, fresh, proc, yt, configured, news>> /\ links' = links \cup {<<r, v>>}
    BY <1>5 DEF RequestLink
  <2>2. TypeInv'
    BY <1>0, <1>1, <2>1 DEF TypeInv, RowOK
  <2> QED
    BY <1>1, <2>1, <2>2 DEF IInv
<1>6. ASSUME NEW v \in Videos, VideoChanges(v) PROVE IInv'
  <2>1. UNCHANGED <<row, fresh, proc, links, configured, news>>
    BY <1>6 DEF VideoChanges
  <2>2. yt' \in [Videos -> Answer]
    BY <1>0, <1>6 DEF VideoChanges, VideoNext, TypeInv, Answer
  <2>3. TypeInv'
    BY <1>0, <1>1, <2>1, <2>2 DEF TypeInv, RowOK
  <2> QED
    BY <1>1, <2>1, <2>3 DEF IInv
<1>7. CASE Reconnect
  <2>1. UNCHANGED <<row, fresh, proc, links, yt, news>> /\ configured' \in BOOLEAN
    BY <1>0, <1>7 DEF Reconnect
  <2>2. TypeInv'
    BY <1>0, <1>1, <2>1 DEF TypeInv, RowOK
  <2> QED
    BY <1>1, <2>1, <2>2 DEF IInv
<1>8. CASE Restart
  <2>1. ProcOK'
    BY <1>8, IdleFields DEF Restart, ProcOK, At
  <2>2. TypeInv'
    BY <1>0, <1>8, <2>1 DEF Restart, TypeInv, RowOK, News
  <2>3. ASSUME NEW r \in Recordings PROVE Owed(r)'
    BY <1>8 DEF Restart, Owed
  <2> QED
    BY <2>2, <2>3 DEF IInv
<1>9. CASE UNCHANGED vars
  <2>1. UNCHANGED <<row, fresh, proc, links, yt, configured, news>>
    BY <1>9 DEF vars
  <2>2. TypeInv'
    BY <1>0, <1>1, <2>1 DEF TypeInv, RowOK
  <2> QED
    BY <1>1, <2>1, <2>2 DEF IInv
<1> QED
  BY <1>2, <1>3, <1>4, <1>5, <1>6, <1>7, <1>8, <1>9 DEF LinkStep

-----------------------------------------------------------------------------
(* The theorems.                                                           *)

LEMMA Initially == Init => IInv
<1> SUFFICES ASSUME Init PROVE IInv
  OBVIOUS
<1>1. ProcOK /\ RowOK
  BY IdleFields, NoRowFields DEF Init, ProcOK, RowOK, At, News, Status
<1>2. TypeInv
  BY <1>1 DEF Init, TypeInv, Answer
<1>3. ASSUME NEW r \in Recordings PROVE Owed(r)
  BY NoRowFields DEF Init, Owed, Status
<1> QED
  BY <1>2, <1>3 DEF IInv

LEMMA Inductive == IInv /\ [Next]_vars => IInv'
<1> SUFFICES ASSUME IInv, [Next]_vars PROVE IInv'
  OBVIOUS
<1>1. ASSUME NEW p \in Procs, Step(p) PROVE IInv'
  <2>1. ~At(p, "idle")
    BY <1>1 DEF Step, SyncStep, FailureStep, CheckStep, At, CheckQuota, FetchFails, RetryError,
       BeginSync, DownloadFails, Caught, MarkFailed, StartUpload, SkipUpload, InsertFails,
       CanInsert, MarkUploadFailed, InsertVideo, RecordVideo, HandleFailure, ScheduleRetry,
       NotifyFailed, CheckUnconfigured, AskYoutube, ApplyProcessing, ApplyProcessed,
       ApplyFailed, ApplyDeleted, Announce
  <2>2. proc[p].rec \in Recordings /\ proc[p].kind \in Kind
    BY <2>1, ProcFields DEF IInv, TypeInv, ProcOK
  <2> QED
    BY <1>1, <2>1, <2>2, SyncPreserves, FailurePreserves, CheckPreserves DEF Step
<1> QED
  BY <1>1, StartPreserves, EnvironmentPreserves DEF Next

(* Whatever a row says is to come, some running process still owes it.     *)
THEOREM Invariance == Spec => []IInv
  BY Initially, Inductive, PTL DEF Spec

(* TypeOK holds in every reachable state.                                  *)
THEOREM TypeCorrect == Spec => []TypeOK
<1>1. IInv => TypeOK
  BY DEF IInv, TypeInv, ProcOK, RowOK, TypeOK
<1> QED
  BY <1>1, Invariance, PTL

(* However syncs, checks, links and retries overlap, a row says UPLOADING  *)
(* only while some sync of that recording has the write that ends it still *)
(* before it (or was lost with a restart, or gave up without a connection).*)
THEOREM UploadsAreOwned == Spec => []UploadHasOwner
<1>1. IInv => UploadHasOwner
  BY DEF IInv, Owed, UploadHasOwner
<1> QED
  BY <1>1, Invariance, PTL

(* However they overlap, no failure is left that neither a scheduled retry *)
(* nor a notification answers, nor a running process will.                 *)
THEOREM FailuresAreAnswered == Spec => []FailureIsAnswered
<1>1. IInv => FailureIsAnswered
  BY DEF IInv, Owed, FailureIsAnswered
<1> QED
  BY <1>1, Invariance, PTL

(* However they overlap, a check that completed a row tells the account.   *)
THEOREM CompletionsAreTold == Spec => []CompletionIsTold
<1>1. IInv => CompletionIsTold
  BY DEF IInv, Owed, Tells, CompletionIsTold
<1> QED
  BY <1>1, Invariance, PTL

-----------------------------------------------------------------------------
(* ZoomSync implements SyncPromise: every step of a chain of awaits, of a  *)
(* request, of YouTube or of the host is one of the moves promised, or     *)
(* none at all.                                                            *)

-----------------------------------------------------------------------------
(* What the invariant of ZoomSync_proofs does not say.                     *)

\* A row that does not exist names no video.
NoneNamesNothing == \A r \in Recordings : row[r].status = "NONE" => row[r].video = NoVideo

\* A finished upload has an id from YouTube.
UploadedHasVideo == \A p \in Procs : At(p, "uploaded") => proc[p].video \in Videos

\* The connection is only missing where it may go.
ConnectedOrMayLose == configured \/ Disconnects

Besides == NoneNamesNothing /\ UploadedHasVideo /\ ConnectedOrMayLose

-----------------------------------------------------------------------------
(* A step as the promise sees it.                                          *)

\* The row of r now has status s and video v, and n is owed; the others stay.
Shows(r, s, v, n) ==
  /\ \A q \in Recordings \ {r} : /\ row'[q].status = row[q].status
                                 /\ row'[q].video = row[q].video
                                 /\ news'[q] = news[q]
  /\ row'[r].status = s
  /\ row'[r].video = v
  /\ news'[r] = n
  /\ news \in [Recordings -> News]
  /\ news' \in [Recordings -> News]

\* Nothing the promise speaks of changes.
ShowsNothing == UNCHANGED Promise!promiseVars

LEMMA ShowsStarted ==
  ASSUME NEW r \in Recordings, Shows(r, "UPLOADING", row[r].video, "none")
  PROVE  Promise!Started(r)
  BY DEF Shows, Promise!Started, Promise!Moved, Promise!Nobody

LEMMA ShowsReceived ==
  ASSUME NEW r \in Recordings, row[r].status = "NONE",
         Shows(r, "SKIPPED", row[r].video, news[r])
  PROVE  Promise!Received(r)
<1>1. [news EXCEPT ![r] = news[r]] = news
  BY DEF Shows
<1> QED
  BY <1>1 DEF Shows, Promise!Received, Promise!Moved

LEMMA ShowsPublished ==
  ASSUME NEW r \in Recordings, row[r].status # "NONE",
         NEW v, v = row[r].video \/ v \in Videos, Shows(r, "PROCESSING", v, "none")
  PROVE  Promise!Published(r)
  BY DEF Shows, Promise!Published, Promise!Moved, Promise!Nobody

LEMMA ShowsCompleted ==
  ASSUME NEW r \in Recordings, row[r].status \notin {"NONE", "COMPLETED"},
         Shows(r, "COMPLETED", row[r].video, "ready")
  PROVE  Promise!Completed(r)
  BY DEF Shows, Promise!Completed, Promise!Moved

LEMMA ShowsFailed ==
  ASSUME NEW r \in Recordings, row[r].status # "NONE",
         Shows(r, "FAILED", row[r].video, "failed")
  PROVE  Promise!Failed(r)
  BY DEF Shows, Promise!Failed, Promise!Moved

LEMMA ShowsFailedUnheard ==
  ASSUME NEW r \in Recordings, row[r].status # "NONE", Restarts \/ Disconnects,
         Shows(r, "FAILED", row[r].video, "dropped")
  PROVE  Promise!FailedUnheard(r)
  BY DEF Shows, Promise!FailedUnheard, Promise!Moved

LEMMA ShowsAnswered ==
  ASSUME NEW r \in Recordings, news[r] \in {"failed", "ready"},
         Shows(r, row[r].status, row[r].video, "none")
  PROVE  Promise!Answered(r)
  BY DEF Shows, Promise!Answered, Promise!Nobody

LEMMA ShowsUploadLeft ==
  ASSUME NEW r \in Recordings, row[r].status = "UPLOADING",
         Shows(r, row[r].status, row[r].video, "dropped")
  PROVE  Promise!UploadLeft(r)
  BY DEF Shows, Promise!UploadLeft

LEMMA ShowsLinked ==
  ASSUME NEW r \in Recordings, NEW v \in Videos, Shows(r, "COMPLETED", v, "none")
  PROVE  Promise!Linked(r)
  BY DEF Shows, Promise!Linked, Promise!Moved, Promise!Nobody

LEMMA ShowsUnlinked ==
  ASSUME NEW r \in Recordings, Shows(r, "NONE", NoVideo, "none")
  PROVE  Promise!Unlinked(r)
  BY DEF Shows, Promise!Unlinked, Promise!Moved, Promise!Nobody

LEMMA ShowsSame ==
  ASSUME NEW r \in Recordings, Shows(r, row[r].status, row[r].video, news[r])
  PROVE  ShowsNothing
<1>1. [news EXCEPT ![r] = news[r]] = news
  BY DEF Shows
<1> QED
  BY <1>1 DEF Shows, ShowsNothing, Promise!promiseVars

LEMMA Unseen == ASSUME UNCHANGED <<row, news>> PROVE ShowsNothing
  BY DEF ShowsNothing, Promise!promiseVars

-----------------------------------------------------------------------------
(* What the writes show.                                                   *)

LEMMA SetStatusShows ==
  ASSUME RowOK, NEW r \in Recordings, NEW s \in Status, NEW n \in News, SetStatus(r, s, n)
  PROVE  IF Exists(r) THEN Shows(r, s, row[r].video, n) ELSE UNCHANGED <<row, news>>
<1>1. CASE Exists(r)
  <2> DEFINE w == [row[r] EXCEPT !.status = s]
  <2>1. w.status = s /\ w.video = row[r].video
    BY DEF RowOK, Row
  <2>2. row' = [row EXCEPT ![r] = w] /\ news' = [news EXCEPT ![r] = n]
    BY <1>1 DEF SetStatus
  <2> HIDE DEF w
  <2> QED
    BY <1>1, <2>1, <2>2 DEF Shows, RowOK
<1>2. CASE ~Exists(r)
  BY <1>2 DEF SetStatus
<1> QED
  BY <1>1, <1>2

\* A row written with a status, a video and what is owed.
LEMMA RowShows ==
  ASSUME RowOK, NEW r \in Recordings, NEW w, NEW n \in News,
         row' = [row EXCEPT ![r] = w], news' = [news EXCEPT ![r] = n]
  PROVE  Shows(r, w.status, w.video, n)
  BY DEF Shows, RowOK

\* The promise is kept by this step.
Kept == Promise!PromiseNext \/ ShowsNothing

LEMMA SettleKept ==
  ASSUME RowOK, NEW r \in Recordings, NEW n \in {"failed", "ready"}, UNCHANGED row, Settle(r, n)
  PROVE  Kept
<1>1. news' \in [Recordings -> News]
  BY DEF Settle, RowOK, News
<1>2. CASE news[r] = n
  <2>1. Shows(r, row[r].status, row[r].video, "none")
    BY <1>1, <1>2 DEF Shows, Settle, RowOK
  <2> QED
    BY <1>2, <2>1, ShowsAnswered DEF Kept, Promise!PromiseNext
<1>3. CASE news[r] # n
  <2>1. Shows(r, row[r].status, row[r].video, news[r])
    BY <1>1, <1>3 DEF Shows, Settle, RowOK
  <2> QED
    BY <2>1, ShowsSame DEF Kept
<1> QED
  BY <1>2, <1>3

\* A failure written by one who will answer for it.
LEMMA FailureKept ==
  ASSUME RowOK, NEW r \in Recordings, SetStatus(r, "FAILED", "failed")
  PROVE  Kept
<1>1. CASE Exists(r)
  <2>1. Shows(r, "FAILED", row[r].video, "failed")
    BY <1>1, SetStatusShows DEF Status, News
  <2> QED
    BY <1>1, <2>1, ShowsFailed DEF Exists, Kept, Promise!PromiseNext
<1>2. CASE ~Exists(r)
  BY <1>2, Unseen DEF SetStatus, Kept
<1> QED
  BY <1>1, <1>2

LEMMA ReceivedKept ==
  ASSUME RowOK, NoneNamesNothing, NEW r \in Recordings, ReceiveWebhook(r), UNCHANGED news
  PROVE  Kept
<1>1. CASE Exists(r)
  <2>1. row' = row
    BY <1>1 DEF ReceiveWebhook, Exists, RowOK
  <2> QED
    BY <2>1, Unseen DEF Kept
<1>2. CASE ~Exists(r)
  <2> DEFINE w == [NoRow EXCEPT !.status = "SKIPPED"]
  <2>1. row' = [row EXCEPT ![r] = w] /\ news' = [news EXCEPT ![r] = news[r]]
    BY <1>2 DEF ReceiveWebhook, Exists, RowOK
  <2>2. w.status = "SKIPPED" /\ w.video = row[r].video /\ news[r] \in News
    BY <1>2 DEF NoRow, NoneNamesNothing, Exists, RowOK
  <2> HIDE DEF w
  <2>3. Shows(r, w.status, w.video, news[r])
    <3>1. PICK n \in News : n = news[r]
      BY <2>2
    <3> QED
      BY <2>1, <3>1, RowShows
  <2> QED
    BY <1>2, <2>2, <2>3, ShowsReceived DEF Exists, Kept, Promise!PromiseNext
<1> QED
  BY <1>1, <1>2

-----------------------------------------------------------------------------
(* Every step keeps the promise.                                           *)

LEMMA SyncKept ==
  ASSUME RowOK, Besides, NEW p \in Procs, NEW r \in Recordings, proc[p].rec = r, SyncStep(p)
  PROVE  Kept
<1>1. CASE UNCHANGED <<row, news>>
  BY <1>1, Unseen DEF Kept
<1>2. CASE BeginSync(p) /\ ~(UNCHANGED <<row, news>>)
  <2> DEFINE w == Upserted(r, proc[p].attempt)
  <2>1. row' = [row EXCEPT ![r] = w] /\ news' = [news EXCEPT ![r] = "none"]
    BY <1>2 DEF BeginSync
  <2>2. w.status = "UPLOADING" /\ w.video = row[r].video
    <3>1. CASE Exists(r)
      BY <3>1 DEF Upserted, RowOK, Row
    <3>2. CASE ~Exists(r)
      BY <3>2 DEF Upserted, NoRow, Exists, Besides, NoneNamesNothing
    <3> QED
      BY <3>1, <3>2
  <2> HIDE DEF w
  <2>3. Shows(r, "UPLOADING", row[r].video, "none")
    BY <2>1, <2>2, RowShows DEF News
  <2> QED
    BY <2>3, ShowsStarted DEF Kept, Promise!PromiseNext
<1>3. CASE MarkFailed(p) \/ MarkUploadFailed(p)
  BY <1>3, FailureKept DEF MarkFailed, MarkUploadFailed
<1>4. CASE StartUpload(p)
  <2>1. SetStatus(r, "UPLOADING", "none")
    BY <1>4 DEF StartUpload
  <2>2. CASE Exists(r)
    BY <2>1, <2>2, SetStatusShows, ShowsStarted DEF Status, News, Kept, Promise!PromiseNext
  <2>3. CASE ~Exists(r)
    BY <2>1, <2>3, Unseen DEF SetStatus, Kept
  <2> QED
    BY <2>2, <2>3
<1>5. CASE SkipUpload(p)
  <2>1. row' = row
        /\ news' = [news EXCEPT ![r] = IF row[r].status = "UPLOADING" THEN "dropped" ELSE @]
    BY <1>5 DEF SkipUpload
  <2>2. CASE row[r].status = "UPLOADING"
    <3>1. Shows(r, row[r].status, row[r].video, "dropped")
      BY <2>1, <2>2 DEF Shows, RowOK, News
    <3> QED
      BY <2>2, <3>1, ShowsUploadLeft DEF Kept, Promise!PromiseNext
  <2>3. CASE row[r].status # "UPLOADING"
    <3>1. Shows(r, row[r].status, row[r].video, news[r])
      BY <2>1, <2>3 DEF Shows, RowOK
    <3> QED
      BY <3>1, ShowsSame DEF Kept
  <2> QED
    BY <2>2, <2>3
<1>6. CASE RecordVideo(p) /\ ~(UNCHANGED <<row, news>>)
  <2> DEFINE w == [row[r] EXCEPT !.status = "PROCESSING", !.video = proc[p].video]
  <2>1. /\ Exists(r) /\ proc[p].video \in Videos
        /\ row' = [row EXCEPT ![r] = w] /\ news' = [news EXCEPT ![r] = "none"]
    BY <1>6 DEF RecordVideo, Besides, UploadedHasVideo
  <2>2. w.status = "PROCESSING" /\ w.video = proc[p].video
    BY DEF RowOK, Row
  <2> HIDE DEF w
  <2>3. Shows(r, "PROCESSING", proc[p].video, "none")
    BY <2>1, <2>2, RowShows DEF News
  <2> QED
    BY <2>1, <2>3, ShowsPublished DEF Exists, Kept, Promise!PromiseNext
<1> QED
  BY <1>1, <1>2, <1>3, <1>4, <1>5, <1>6
  DEF SyncStep, CheckQuota, FetchFails, RetryError, DownloadFails, Caught, InsertFails,
      InsertVideo

LEMMA FailureStepKept ==
  ASSUME RowOK, NEW p \in Procs, NEW r \in Recordings, proc[p].rec = r, FailureStep(p)
  PROVE  Kept
<1>1. CASE HandleFailure(p)
  BY <1>1, Unseen DEF HandleFailure, Kept
<1>2. CASE ScheduleRetry(p)
  <2> DEFINE w == [row[r] EXCEPT !.retry = Exists(r)]
             n == IF news[r] = "failed" THEN "none" ELSE news[r]
  <2>1. row' = [row EXCEPT ![r] = w] /\ news' = [news EXCEPT ![r] = n]
    BY <1>2 DEF ScheduleRetry, Settle
  <2>2. w.status = row[r].status /\ w.video = row[r].video /\ n \in News
    BY DEF RowOK, Row, News
  <2> HIDE DEF w
  <2>3. Shows(r, row[r].status, row[r].video, n)
    BY <2>1, <2>2, RowShows
  <2> QED
    BY <2>3, ShowsAnswered, ShowsSame DEF Kept, Promise!PromiseNext
<1>3. CASE NotifyFailed(p)
  BY <1>3, SettleKept DEF NotifyFailed
<1> QED
  BY <1>1, <1>2, <1>3 DEF FailureStep

LEMMA CheckKept ==
  ASSUME RowOK, Besides, NEW p \in Procs, NEW r \in Recordings, proc[p].rec = r, CheckStep(p)
  PROVE  Kept
<1>1. CASE UNCHANGED <<row, news>>
  BY <1>1, Unseen DEF Kept
<1>2. CASE CheckUnconfigured(p) /\ Exists(r)
  <2>1. Shows(r, "FAILED", row[r].video, "dropped") /\ Disconnects
    BY <1>2, SetStatusShows DEF CheckUnconfigured, Status, News, Besides, ConnectedOrMayLose
  <2> QED
    BY <1>2, <2>1, ShowsFailedUnheard DEF Exists, Kept, Promise!PromiseNext
<1>3. CASE ApplyProcessing(p) /\ Exists(r)
  <2>1. Shows(r, "PROCESSING", row[r].video, "none")
    BY <1>3, SetStatusShows DEF ApplyProcessing, Status, News
  <2> QED
    BY <1>3, <2>1, ShowsPublished DEF Exists, Kept, Promise!PromiseNext
<1>4. CASE ApplyProcessed(p) /\ Moves(p, "COMPLETED")
  <2>1. Exists(r) /\ row[r].status # "COMPLETED" /\ SetStatus(r, "COMPLETED", "ready")
    BY <1>4 DEF ApplyProcessed, Moves, Exists
  <2>2. Shows(r, "COMPLETED", row[r].video, "ready")
    BY <2>1, SetStatusShows DEF Status, News
  <2> QED
    BY <2>1, <2>2, ShowsCompleted DEF Exists, Kept, Promise!PromiseNext
<1>5. CASE ApplyFailed(p) /\ Moves(p, "FAILED")
  BY <1>5, FailureKept DEF ApplyFailed
<1>6. CASE ApplyDeleted(p) /\ Moves(p, "FAILED")
  <2> DEFINE w == [row[r] EXCEPT !.status = "FAILED", !.retry = FALSE]
  <2>1. /\ row' = [row EXCEPT ![r] = w] /\ news' = [news EXCEPT ![r] = "failed"]
        /\ row[r].status # "NONE"
    BY <1>6 DEF ApplyDeleted, Moves
  <2>2. w.status = "FAILED" /\ w.video = row[r].video
    BY DEF RowOK, Row
  <2> HIDE DEF w
  <2>3. Shows(r, "FAILED", row[r].video, "failed")
    BY <2>1, <2>2, RowShows DEF News
  <2> QED
    BY <2>1, <2>3, ShowsFailed DEF Kept, Promise!PromiseNext
<1>7. CASE Announce(p)
  BY <1>7, SettleKept DEF Announce
<1> QED
  BY <1>1, <1>2, <1>3, <1>4, <1>5, <1>6, <1>7
  DEF CheckStep, CheckUnconfigured, AskYoutube, ApplyProcessing, ApplyProcessed, ApplyFailed,
      ApplyDeleted, SetStatus

LEMMA ClaimKept ==
  ASSUME RowOK, NEW p \in Procs, NEW r \in Recordings, Claim(p, r)
  PROVE  Kept
<1> DEFINE w == [row[r] EXCEPT !.retry = FALSE, !.count = Bump(row[r].count)]
<1>1. /\ row' = [row EXCEPT ![r] = w] /\ news' = [news EXCEPT ![r] = "failed"]
      /\ row[r].status = "FAILED"
  BY DEF Claim
<1>2. w.status = row[r].status /\ w.video = row[r].video
  BY DEF RowOK, Row
<1> HIDE DEF w
<1>3. Shows(r, "FAILED", row[r].video, "failed")
  BY <1>1, <1>2, RowShows DEF News
<1> QED
  BY <1>1, <1>3, ShowsFailed DEF Kept, Promise!PromiseNext

LEMMA LinkKept ==
  ASSUME RowOK, NEW r \in Recordings, LinkStep(r)
  PROVE  Kept
<1>1. CASE Unlink(r)
  <2>1. row' = [row EXCEPT ![r] = NoRow] /\ news' = [news EXCEPT ![r] = "none"]
    BY <1>1 DEF Unlink
  <2>2. NoRow.status = "NONE" /\ NoRow.video = NoVideo
    BY DEF NoRow
  <2>3. Shows(r, "NONE", NoVideo, "none")
    BY <2>1, <2>2, RowShows DEF News
  <2> QED
    BY <2>3, ShowsUnlinked DEF Kept, Promise!PromiseNext
<1>2. ASSUME NEW v \in Videos, RequestLink(r, v) PROVE Kept
  BY <1>2, Unseen DEF RequestLink, Kept
<1>3. ASSUME NEW v \in Videos, WriteLink(r, v) PROVE Kept
  <2> DEFINE w == [status |-> "COMPLETED", video |-> v, linked |-> TRUE,
                   count |-> 0, retry |-> FALSE]
  <2>1. row' = [row EXCEPT ![r] = w] /\ news' = [news EXCEPT ![r] = "none"]
    BY <1>3 DEF WriteLink
  <2>2. w.status = "COMPLETED" /\ w.video = v
    OBVIOUS
  <2> HIDE DEF w
  <2>3. Shows(r, "COMPLETED", v, "none")
    BY <2>1, <2>2, RowShows DEF News
  <2> QED
    BY <2>3, ShowsLinked DEF Kept, Promise!PromiseNext
<1> QED
  BY <1>1, <1>2, <1>3 DEF LinkStep

LEMMA RestartKept ==
  ASSUME RowOK, Restart
  PROVE  Kept
<1>1. /\ row' = row /\ Restarts
      /\ news' = [r \in Recordings |->
                    IF news[r] \in {"failed", "ready"} \/ row[r].status = "UPLOADING"
                    THEN "dropped" ELSE news[r]]
  BY DEF Restart
<1>2. \A r \in Recordings : /\ news'[r] \in {"none", "dropped"}
                            /\ news[r] = "none" /\ row[r].status # "UPLOADING" => news'[r] = "none"
  BY <1>1 DEF RowOK, News
<1>3. news' \in [Recordings -> {"none", "dropped"}]
  BY <1>1, <1>2
<1>4. Promise!Lost
  BY <1>1, <1>2, <1>3 DEF Promise!Lost
<1> QED
  BY <1>4 DEF Kept, Promise!PromiseNext

LEMMA NextKept ==
  ASSUME IInv, Besides, [Next]_vars
  PROVE  Kept
<1>1. RowOK
  BY DEF IInv, TypeInv
<1>2. ASSUME NEW p \in Procs, Step(p) PROVE Kept
  <2>1. ~At(p, "idle")
    BY <1>2 DEF Step, SyncStep, FailureStep, CheckStep, At, CheckQuota, FetchFails, RetryError,
       BeginSync, DownloadFails, Caught, MarkFailed, StartUpload, SkipUpload, InsertFails,
       CanInsert, MarkUploadFailed, InsertVideo, RecordVideo, HandleFailure, ScheduleRetry,
       NotifyFailed, CheckUnconfigured, AskYoutube, ApplyProcessing, ApplyProcessed,
       ApplyFailed, ApplyDeleted, Announce
  <2>2. proc[p].rec \in Recordings
    BY <2>1 DEF IInv, TypeInv, ProcOK
  <2> QED
    BY <1>1, <1>2, <2>2, SyncKept, FailureStepKept, CheckKept DEF Step
<1>3. ASSUME NEW p \in Procs, NEW r \in Recordings, Request(p, r) PROVE Kept
  <2>1. CASE StartWebhook(p, r)
    BY <1>1, <2>1, ReceivedKept DEF StartWebhook, Besides
  <2>2. CASE StartManual(p, r) \/ StartSystem(p, r) \/ StartCheck(p, r)
    BY <2>2, Unseen DEF StartManual, StartSystem, StartCheck, Kept
  <2> QED
    BY <1>3, <2>1, <2>2 DEF Request
<1>4. ASSUME NEW r \in Recordings, WebhookSkipped(r) PROVE Kept
  BY <1>1, <1>4, ReceivedKept DEF WebhookSkipped, Besides
<1>5. ASSUME NEW v \in Videos, VideoChanges(v) PROVE Kept
  BY <1>5, Unseen DEF VideoChanges, Kept
<1>6. CASE Reconnect
  BY <1>6, Unseen DEF Reconnect, Kept
<1>7. CASE UNCHANGED vars
  BY <1>7, Unseen DEF vars, Kept
<1> QED
  BY <1>1, <1>2, <1>3, <1>4, <1>5, <1>6, <1>7, ClaimKept, LinkKept, RestartKept DEF Next

-----------------------------------------------------------------------------
(* What the promise needs besides is invariant, and the theorem.           *)

\* The promise itself keeps rows that do not exist without a video.
LEMMA KeptNamesNothing ==
  ASSUME NoneNamesNothing, Kept
  PROVE  NoneNamesNothing'
<1>1. CASE ShowsNothing
  <2>1. ASSUME NEW r \in Recordings
        PROVE  row'[r].status = row[r].status /\ row'[r].video = row[r].video
    <3>1. [q \in Recordings |-> row'[q].status][r] = [q \in Recordings |-> row[q].status][r]
      BY <1>1 DEF ShowsNothing, Promise!promiseVars
    <3>2. [q \in Recordings |-> row'[q].video][r] = [q \in Recordings |-> row[q].video][r]
      BY <1>1 DEF ShowsNothing, Promise!promiseVars
    <3> QED
      BY <3>1, <3>2
  <2> QED
    BY <2>1 DEF NoneNamesNothing
<1>2. CASE Promise!PromiseNext
  BY <1>2
  DEF NoneNamesNothing, Promise!PromiseNext, Promise!Lost, Promise!Received, Promise!Started,
      Promise!Published, Promise!Completed, Promise!Failed, Promise!Answered, Promise!Linked,
      Promise!Unlinked, Promise!UploadLeft, Promise!FailedUnheard, Promise!Moved, Promise!Nobody
<1> QED
  BY <1>1, <1>2 DEF Kept

\* Slot p alone moves, and not to the end of an upload.
LEMMA OnlyKeepsUploaded ==
  ASSUME UploadedHasVideo, NEW p \in Procs, Only(p),
         proc'[p].pc = "uploaded" => proc'[p].video \in Videos
  PROVE  UploadedHasVideo'
  BY DEF UploadedHasVideo, Only, At

LEMMA StepUploads ==
  ASSUME ProcOK, UploadedHasVideo, NEW p \in Procs, ~At(p, "idle"), Step(p)
  PROVE  UploadedHasVideo'
<1> USE DEF PC, Kind
<1>1. ASSUME NEW v \in Videos, InsertVideo(p, v) PROVE UploadedHasVideo'
  BY <1>1 DEF InsertVideo, UploadedHasVideo, ProcOK, At, Proc
<1>2. CASE Stop(p)
  BY <1>2, StopStep, OnlyKeepsUploaded DEF Moved
<1>3. ASSUME NEW pc \in PC \ {"checking", "uploaded"},
             Goto(p, pc) \/ Fail(p, pc) \/ proc' = [proc EXCEPT ![p].pc = pc]
      PROVE  UploadedHasVideo'
  BY <1>3, GotoStep, FailStep, PcStep, OnlyKeepsUploaded DEF Moved
<1>4. ASSUME NEW pc \in PC \ {"checking", "uploaded"}, NEW a \in Answer,
             proc' = [proc EXCEPT ![p].pc = pc, ![p].seen = a]
      PROVE  UploadedHasVideo'
  BY <1>4, PcSeenStep, OnlyKeepsUploaded DEF Moved
<1>5. ASSUME NEW pc \in PC \ {"checking", "uploaded"}, NEW kind \in Kind, NEW r \in Recordings,
             NEW t \in BOOLEAN,
             \/ proc' = [proc EXCEPT ![p] = Chain(pc, kind, r)]
             \/ proc' = [proc EXCEPT ![p] = [Chain(pc, kind, r) EXCEPT !.transient = t]]
      PROVE  UploadedHasVideo'
  BY <1>5, StartStep, ChainTransient, OnlyKeepsUploaded DEF Moved
<1>6. proc[p].rec \in Recordings /\ proc[p].kind \in Kind
  BY ProcFields DEF ProcOK
<1>7. CASE SyncStep(p)
  <2>1. CASE CheckQuota(p)
    BY <2>1, <1>3 DEF CheckQuota
  <2>2. CASE FetchFails(p)
    BY <2>2, <1>2, <1>3 DEF FetchFails
  <2>3. CASE RetryError(p)
    BY <2>3, <1>2, <1>3 DEF RetryError
  <2>4. CASE BeginSync(p)
    <3>1. (IF proc[p].kind = "retry" THEN "sync" ELSE proc[p].kind) \in Kind
      BY <1>6
    <3> QED
      BY <2>4, <3>1, <1>5, <1>6 DEF BeginSync
  <2>5. CASE DownloadFails(p)
    BY <2>5, <1>2, <1>3 DEF DownloadFails
  <2>6. CASE Caught(p)
    BY <2>6, <1>2, <1>3 DEF Caught
  <2>7. CASE MarkFailed(p)
    BY <2>7, <1>2, <1>3 DEF MarkFailed
  <2>8. CASE StartUpload(p)
    BY <2>8, <1>3 DEF StartUpload
  <2>9. CASE SkipUpload(p)
    BY <2>9, <1>2 DEF SkipUpload
  <2>10. CASE InsertFails(p) \/ MarkUploadFailed(p)
    BY <2>10, <1>3 DEF InsertFails, MarkUploadFailed
  <2>11. CASE RecordVideo(p)
    BY <2>11, <1>2 DEF RecordVideo
  <2> QED
    BY <1>7, <1>1, <2>1, <2>2, <2>3, <2>4, <2>5, <2>6, <2>7, <2>8, <2>9, <2>10, <2>11
    DEF SyncStep
<1>8. CASE FailureStep(p)
  BY <1>8, <1>2, <1>3 DEF FailureStep, HandleFailure, ScheduleRetry, NotifyFailed
<1>9. CASE CheckStep(p)
  <2>1. CASE AskYoutube(p)
    <3>1. CASE UNCHANGED yt /\ proc' = [proc EXCEPT ![p].pc = "answered",
                                                    ![p].seen = yt[proc[p].video]]
      BY <3>1 DEF UploadedHasVideo, ProcOK, At, Proc
    <3> QED
      BY <2>1, <3>1, <1>2 DEF AskYoutube
  <2>2. CASE ApplyProcessed(p)
    <3>1. "none" \in Answer /\ "announce" \in PC \ {"checking", "uploaded"}
      BY DEF Answer
    <3> QED
      BY <2>2, <3>1, <1>2, <1>4 DEF ApplyProcessed
  <2>3. CASE ApplyFailed(p)
    <3>1. "check" \in Kind /\ "handle" \in PC \ {"checking", "uploaded"}
            /\ (proc[p].seen = "aborted") \in BOOLEAN
      OBVIOUS
    <3> QED
      BY <2>3, <3>1, <1>2, <1>5, <1>6 DEF ApplyFailed
  <2>4. CASE ApplyDeleted(p)
    BY <2>4, <1>2, <1>3 DEF ApplyDeleted
  <2>5. CASE CheckUnconfigured(p) \/ ApplyProcessing(p) \/ Announce(p)
    BY <2>5, <1>2 DEF CheckUnconfigured, ApplyProcessing, Announce
  <2> QED
    BY <1>9, <2>1, <2>2, <2>3, <2>4, <2>5 DEF CheckStep
<1> QED
  BY <1>7, <1>8, <1>9 DEF Step

\* A new chain of awaits is at its beginning.
LEMMA StartUploads ==
  ASSUME ProcOK, UploadedHasVideo, NEW p \in Procs, NEW r \in Recordings,
         Claim(p, r) \/ Request(p, r)
  PROVE  UploadedHasVideo'
<1>1. \A q \in Procs \ {p} : proc'[q] = proc[q]
  BY DEF ProcOK, Claim, Request, StartManual, StartWebhook, StartSystem, StartCheck, Start
<1>2. proc'[p].pc \in {"fetch", "claimed", "checking"}
  BY DEF ProcOK, Claim, Request, StartManual, StartWebhook, StartSystem, StartCheck, Start, Chain,
         Idle
<1> QED
  BY <1>1, <1>2 DEF UploadedHasVideo, At

LEMMA BesidesInitially == Init => Besides
  BY DEF Init, Besides, NoneNamesNothing, UploadedHasVideo, ConnectedOrMayLose, NoRow, Idle, At

LEMMA BesidesInductive ==
  ASSUME IInv, Besides, [Next]_vars
  PROVE  Besides'
<1>1. NoneNamesNothing'
  BY NextKept, KeptNamesNothing DEF Besides
<1>2. ConnectedOrMayLose'
  <2>1. CASE Reconnect
    BY <2>1 DEF Reconnect, ConnectedOrMayLose
  <2>2. CASE UNCHANGED configured
    BY <2>2 DEF Besides, ConnectedOrMayLose
  <2> QED
    BY <2>1, <2>2
    DEF Next, vars, Step, SyncStep, FailureStep, CheckStep, Claim, Request, WebhookSkipped,
        LinkStep, VideoChanges, Restart, CheckQuota, FetchFails, RetryError, BeginSync,
        DownloadFails, Caught, MarkFailed, StartUpload, SkipUpload, InsertFails, MarkUploadFailed,
        InsertVideo, RecordVideo, HandleFailure, ScheduleRetry, NotifyFailed, CheckUnconfigured,
        AskYoutube, ApplyProcessing, ApplyProcessed, ApplyFailed, ApplyDeleted, Announce,
        StartManual, StartWebhook, StartSystem, StartCheck, RequestLink, WriteLink, Unlink
<1>3. UploadedHasVideo'
  <2>1. ProcOK /\ UploadedHasVideo
    BY DEF IInv, TypeInv, Besides
  <2>2. ASSUME NEW p \in Procs, Step(p) PROVE UploadedHasVideo'
    <3>1. ~At(p, "idle")
      BY <2>2 DEF Step, SyncStep, FailureStep, CheckStep, At, CheckQuota, FetchFails, RetryError,
         BeginSync, DownloadFails, Caught, MarkFailed, StartUpload, SkipUpload, InsertFails,
         CanInsert, MarkUploadFailed, InsertVideo, RecordVideo, HandleFailure, ScheduleRetry,
         NotifyFailed, CheckUnconfigured, AskYoutube, ApplyProcessing, ApplyProcessed,
         ApplyFailed, ApplyDeleted, Announce
    <3> QED
      BY <2>1, <2>2, <3>1, StepUploads
  <2>3. CASE UNCHANGED proc
    BY <2>1, <2>3 DEF UploadedHasVideo, At
  <2>4. CASE Restart
    BY <2>4, IdleFields DEF Restart, UploadedHasVideo, At
  <2>5. ASSUME NEW r \in Recordings, WebhookSkipped(r) \/ LinkStep(r) PROVE UNCHANGED proc
    BY <2>5 DEF WebhookSkipped, LinkStep, RequestLink, WriteLink, Unlink
  <2> QED
    BY <2>1, <2>2, <2>3, <2>4, <2>5, StartUploads DEF Next, vars, VideoChanges, Reconnect
<1> QED
  BY <1>1, <1>2, <1>3 DEF Besides

LEMMA PromiseInitially == Init => Promise!PromiseInit
  BY DEF Init, Promise!PromiseInit, NoRow

(* The sync log keeps its promise: whatever chains of awaits overlap, the  *)
(* statuses, videos and debts it shows move as SyncPromise says.           *)
THEOREM LogKeepsPromise == Spec => KeepsPromise
<1>1. Init => IInv /\ Besides /\ Promise!PromiseInit
  BY Initially, BesidesInitially, PromiseInitially
<1>2. IInv /\ Besides /\ [Next]_vars => IInv' /\ Besides'
  BY Inductive, BesidesInductive
<1>3. IInv /\ Besides /\ [Next]_vars => [Promise!PromiseNext]_Promise!promiseVars
  BY NextKept DEF Kept, ShowsNothing
<1> QED
  BY <1>1, <1>2, <1>3, PTL DEF Spec, KeepsPromise, Promise!PromiseSpec

=============================================================================
