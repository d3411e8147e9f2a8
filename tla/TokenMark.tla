----------------------------- MODULE TokenMark -----------------------------
(***************************************************************************)
(* The refresh token of a connection and the mark that it was refused      *)
(* (tokenInvalidAt), for an account that has one connection of YouTube:    *)
(* the OAuth callback and the forms store tokens, calls of YouTube use     *)
(* them, and the mark is written some time after the answer.  A save reads *)
(* the row and writes its secrets back in a second step.                   *)
(***************************************************************************)
EXTENDS Naturals, FiniteSets

CONSTANTS
  Slots,      \* calls of YouTube at the same time
  MaxTokens,  \* tokens that Google issues
  MaxSteps    \* revocations, forms saved, disconnections and authorizations

ASSUME TokenMarkAssumption == {MaxTokens, MaxSteps} \subseteq Nat

VARIABLES
  connection,  \* the row of Connection: its status, refreshToken (0: none) and bookkeeping
  accepted,    \* the tokens that Google takes
  issued,      \* the last token it issued
  call,        \* call[s]: a call of YouTube, with the token it read
  save,        \* save[k]: a running callback, and beside it a form or a disconnection
  steps

tokenVars == <<connection, accepted, issued, call, save, steps>>

Tokens == 0..MaxTokens
Savers == {"callback", "form"}

\* fresh: lastTokenRefreshAt is younger than REFRESH_WRITE_INTERVAL_MS.
ConnectionRow == [active : BOOLEAN, token : Tokens, invalid : BOOLEAN, fresh : BOOLEAN]

\* kept: the stored token the save has read; given: the token it brings, 0 for none.
NoSave == [step |-> "none", active |-> FALSE, kept |-> 0, given |-> 0, then |-> "none"]
NoCall == [step |-> "none", token |-> 0]

TokenTypeOK ==
  /\ connection \in ConnectionRow
  /\ accepted \subseteq Tokens /\ issued \in Tokens
  /\ call \in [Slots -> [step : {"none", "sent", "taken", "refused", "marking"}, token : Tokens]]
  /\ save \in [Savers -> [step : {"none", "read", "write", "mark"}, active : BOOLEAN, kept : Tokens,
                          given : Tokens, then : {"none", "issued", "invalid"}]]
  /\ steps \in 0..MaxSteps

TokenInit ==
  /\ connection = [active |-> TRUE, token |-> 0, invalid |-> FALSE, fresh |-> FALSE]
  /\ accepted = {} /\ issued = 0
  /\ call = [s \in Slots |-> NoCall]
  /\ save = [k \in Savers |-> NoSave] /\ steps = 0

TokenStep == steps < MaxSteps /\ steps' = steps + 1

-----------------------------------------------------------------------------
(* updateMany, of an active row *)

MarkTokenIssued ==
  IF connection.active THEN [connection EXCEPT !.invalid = FALSE, !.fresh = TRUE] ELSE connection

MarkRefreshedKeepsMark ==
  IF connection.active THEN [connection EXCEPT !.fresh = TRUE] ELSE connection

MarkTokenRefreshed ==
  IF connection.active /\ (~connection.fresh \/ connection.invalid)
  THEN [connection EXCEPT !.invalid = FALSE, !.fresh = TRUE]
  ELSE connection

MarkTokenInvalid ==
  IF connection.active THEN [connection EXCEPT !.invalid = TRUE] ELSE connection

-----------------------------------------------------------------------------
(* Saves *)

Saving(k, active, given, then) ==
  /\ TokenStep /\ save[k] = NoSave
  /\ save' = [save EXCEPT ![k] = [step |-> "read", active |-> active, kept |-> 0, given |-> given, then |-> then]]
  /\ UNCHANGED <<connection, call>>

\* handleCallback: Google may return no refresh token.
HandleCallback ==
  \/ /\ issued < MaxTokens
     /\ issued' = issued + 1 /\ accepted' = accepted \cup {issued + 1}
     /\ Saving("callback", TRUE, issued + 1, "issued")
  \/ UNCHANGED <<issued, accepted>> /\ Saving("callback", TRUE, 0, "issued")

\* The form brings no token.
UpdateConfig(active) == UNCHANGED <<issued, accepted>> /\ Saving("form", active, 0, "none")

\* A save with an empty token, then the mark.
DisconnectYoutube == UNCHANGED <<issued, accepted>> /\ Saving("form", FALSE, 0, "invalid")

SaveReads(k) ==
  /\ save[k].step = "read"
  /\ save' = [save EXCEPT ![k].step = "write", ![k].kept = connection.token]
  /\ UNCHANGED <<connection, accepted, issued, call, steps>>

\* An empty secret keeps the one that was read.
SaveWrites(k) ==
  /\ save[k].step = "write"
  /\ connection' = [connection EXCEPT !.active = save[k].active,
                                      !.token = IF save[k].given # 0 THEN save[k].given ELSE save[k].kept]
  /\ save' = [save EXCEPT ![k] = IF @.then = "none" THEN NoSave ELSE [@ EXCEPT !.step = "mark"]]
  /\ UNCHANGED <<accepted, issued, call, steps>>

SaveMarks(k) ==
  /\ save[k].step = "mark"
  /\ connection' = IF save[k].then = "issued" THEN MarkTokenIssued ELSE MarkTokenInvalid
  /\ save' = [save EXCEPT ![k] = NoSave]
  /\ UNCHANGED <<accepted, issued, call, steps>>

-----------------------------------------------------------------------------
(* Calls of YouTube *)

SetCall(s, step) == call' = [call EXCEPT ![s].step = step]

\* getYoutubeClient
CallStarts(s) ==
  /\ call[s].step = "none"
  /\ connection.active /\ connection.token # 0
  /\ call' = [call EXCEPT ![s] = [step |-> "sent", token |-> connection.token]]
  /\ UNCHANGED <<connection, accepted, issued, save, steps>>

\* The token is exchanged: the event tokens, or invalid_grant.
CallAnswered(s) ==
  /\ call[s].step = "sent"
  /\ SetCall(s, IF call[s].token \in accepted THEN "taken" ELSE "refused")
  /\ UNCHANGED <<connection, accepted, issued, save, steps>>

\* Nobody waits for these.
RecordTokenRefresh(s) ==
  /\ call[s].step = "taken"
  /\ connection' = MarkTokenRefreshed
  /\ call' = [call EXCEPT ![s] = NoCall]
  /\ UNCHANGED <<accepted, issued, save, steps>>

RecordTokenError(s) ==
  /\ call[s].step = "refused"
  /\ call' = IF connection.invalid THEN [call EXCEPT ![s] = NoCall] ELSE [call EXCEPT ![s].step = "marking"]
  /\ UNCHANGED <<connection, accepted, issued, save, steps>>

RecordInvalid(s) ==
  /\ call[s].step = "marking"
  /\ connection' = MarkTokenInvalid
  /\ call' = [call EXCEPT ![s] = NoCall]
  /\ UNCHANGED <<accepted, issued, save, steps>>

Works(s) ==
  CallStarts(s) \/ CallAnswered(s) \/ RecordTokenRefresh(s) \/ RecordTokenError(s) \/ RecordInvalid(s)

\* Revoked by the user, or older than TESTING_TOKEN_LIFETIME_DAYS.
Revoke(t) ==
  /\ TokenStep
  /\ t \in accepted /\ accepted' = accepted \ {t}
  /\ UNCHANGED <<connection, issued, call, save>>

FiveMinutes ==
  /\ connection.fresh
  /\ connection' = [connection EXCEPT !.fresh = FALSE]
  /\ UNCHANGED <<accepted, issued, call, save, steps>>

TokenNext ==
  \/ HandleCallback \/ (\E active \in BOOLEAN : UpdateConfig(active)) \/ DisconnectYoutube
  \/ (\E k \in Savers : SaveReads(k) \/ SaveWrites(k) \/ SaveMarks(k))
  \/ (\E t \in Tokens : Revoke(t)) \/ FiveMinutes
  \/ \E s \in Slots : Works(s)

-----------------------------------------------------------------------------
\* The mark comes to say the truth: once nobody saves, authorizes or revokes any more and
\* the connection is in use, it says that the stored token is refused exactly when it is;
\* a mark that an older call has put late on a new token goes with the next call.
TokenMarkSettles ==
  <>[](connection.active /\ connection.token # 0
         => (connection.invalid <=> connection.token \notin accepted))
=============================================================================
