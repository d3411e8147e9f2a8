------------------------------ MODULE Granting ------------------------------
(***************************************************************************)
(* GoogleDriveService: how accounts authorize their Google Drives.  Google *)
(* redirects to the backend, without a session: only the signed state says *)
(* who began, and for which workspace.  Authorizations overlap; tokens die *)
(* and are marked by the calls that find out.                              *)
(***************************************************************************)
EXTENDS Naturals, FiniteSets

CONSTANTS
  Grantees,         \* accounts of the app
  GoogleAccounts,   \* their Google accounts
  Targets,          \* workspaces
  Consents,         \* grant screens; each grants a token of its own
  MaxUses,          \* calls of Google
  NoGrant           \* no token, owner, workspace or row

ASSUME GrantingAssumption ==
  /\ MaxUses \in Nat
  /\ NoGrant \notin Grantees \cup GoogleAccounts \cup Targets \cup Consents

VARIABLES
  driveRow,         \* driveRow[u, g]: [token, target, marked], or NoGrant: not connected
  grant,            \* grant[c]: its state, and how far its callback is
  dead,             \* tokens that Google has revoked
  driveCall,        \* a call for an account: [by, token], or NoGrant
  uses

grantVars == <<driveRow, grant, dead, driveCall, uses>>

\* grant[c].after: the tokens stored for the same row when the callback of c came in.
NotAsked == [step |-> "none", by |-> NoGrant, target |-> NoGrant, as |-> NoGrant, old |-> NoGrant,
             after |-> {}]
DriveRows == Grantees \X GoogleAccounts

GrantingTypeOK ==
  /\ \A r \in DriveRows : driveRow[r] # NoGrant =>
       /\ driveRow[r].token \in Consents /\ driveRow[r].target \in Targets \cup {NoGrant}
       /\ driveRow[r].marked \in BOOLEAN
  /\ \A c \in Consents : /\ grant[c].step \in {"none", "asked", "late", "verified", "about", "found",
                                            "saved", "over"}
                         /\ grant[c].by \in Grantees \cup {NoGrant} /\ grant[c].after \subseteq Consents
  /\ dead \subseteq Consents /\ uses \in 0..MaxUses

GrantingInit ==
  /\ driveRow = [r \in DriveRows |-> NoGrant] /\ grant = [c \in Consents |-> NotAsked]
  /\ dead = {} /\ driveCall = NoGrant /\ uses = 0

At(c, step) == grant[c].step = step
Proceeds(c, step) == grant' = [grant EXCEPT ![c].step = step]
RowOf(c) == <<grant[c].by, grant[c].as>>

-----------------------------------------------------------------------------
(* authUrl, Google's screen, handleCallback *)

\* The state carries the account, and the workspace that was active, if any.
AuthUrl(c, u, w) ==
  /\ At(c, "none")
  /\ grant' = [grant EXCEPT ![c] = [NotAsked EXCEPT !.step = "asked", !.by = u, !.target = w]]
  /\ UNCHANGED <<driveRow, dead, driveCall, uses>>

\* STATE_TTL_MS: an answer after that is refused.
StateExpires(c) == At(c, "asked") /\ Proceeds(c, "late") /\ UNCHANGED <<driveRow, dead, driveCall, uses>>

Saved(c) == At(c, "saved") \/ At(c, "over")

\* Whoever sits at the browser now chooses a Google account; the state is checked.
VerifyState(c, g) ==
  /\ At(c, "asked")
  /\ LET same == {d \in Consents : grant[d].by = grant[c].by /\ grant[d].as = g /\ Saved(d)}
     IN  grant' = [grant EXCEPT ![c].step = "verified", ![c].as = g, ![c].after = same]
  /\ UNCHANGED <<driveRow, dead, driveCall, uses>>

\* getToken, then about.get: the address is the key of the row.
GetToken(c) == At(c, "verified") /\ Proceeds(c, "about") /\ UNCHANGED <<driveRow, dead, driveCall, uses>>
CallbackFails(c) ==
  /\ grant[c].step \in {"verified", "about", "found"} /\ Proceeds(c, "late")
  /\ UNCHANGED <<driveRow, dead, driveCall, uses>>

FindRow(c) ==
  /\ At(c, "about") /\ grant' = [grant EXCEPT ![c].step = "found", ![c].old = driveRow[RowOf(c)]]
  /\ UNCHANGED <<driveRow, dead, driveCall, uses>>

\* save: a secret that is given replaces the stored one.  In the mutant the stored one stays.
MergedKeepsOld(c) == IF grant[c].old = NoGrant THEN c ELSE grant[c].old.token
Merged(c) == c

\* Without a workspace the stored one stays.  The mark stays until markTokenIssued.
TargetOf(c, row) ==
  IF grant[c].target # NoGrant THEN grant[c].target
  ELSE IF grant[c].old # NoGrant THEN grant[c].old.target
  ELSE IF row # NoGrant THEN row.target ELSE NoGrant

SaveConnection(c) ==
  /\ At(c, "found") /\ Proceeds(c, "saved")
  /\ LET row == driveRow[RowOf(c)]
     IN  driveRow' = [driveRow EXCEPT ![RowOf(c)] =
                        [token |-> Merged(c), target |-> TargetOf(c, row),
                         marked |-> IF row = NoGrant THEN FALSE ELSE row.marked]]
  /\ UNCHANGED <<dead, driveCall, uses>>

\* The marks are of all the account's Drives.
Marked(u, mark) ==
  [r \in DriveRows |-> IF r[1] = u /\ driveRow[r] # NoGrant
                      THEN [driveRow[r] EXCEPT !.marked = mark] ELSE driveRow[r]]

MarkIssued(c) ==
  /\ At(c, "saved") /\ Proceeds(c, "over") /\ driveRow' = Marked(grant[c].by, FALSE)
  /\ UNCHANGED <<dead, driveCall, uses>>

-----------------------------------------------------------------------------
(* drive, accessToken, storage: with the first row that is found *)

CallDrive(r) ==
  /\ driveRow[r] # NoGrant /\ driveCall = NoGrant /\ uses < MaxUses /\ uses' = uses + 1
  /\ driveCall' = [by |-> r[1], token |-> driveRow[r].token]
  /\ UNCHANGED <<driveRow, grant, dead>>

\* A mutant marks every account's rows.
MarkedAll(u) ==
  [r \in DriveRows |-> IF driveRow[r] # NoGrant THEN [driveRow[r] EXCEPT !.marked = TRUE] ELSE NoGrant]
MarkInvalid(u) == Marked(u, TRUE)

GoogleAnswers ==
  /\ driveCall # NoGrant /\ driveCall' = NoGrant
  /\ driveRow' = IF driveCall.token \in dead THEN MarkInvalid(driveCall.by) ELSE Marked(driveCall.by, FALSE)
  /\ UNCHANGED <<grant, dead, uses>>

CallLost == driveCall # NoGrant /\ driveCall' = NoGrant /\ UNCHANGED <<driveRow, grant, dead, uses>>

GoogleRevokes(c) ==
  c \notin dead /\ Saved(c) /\ dead' = dead \cup {c} /\ UNCHANGED <<driveRow, grant, driveCall, uses>>

\* deleteConnection with the id of the card.
DeleteRow(r) ==
  /\ driveRow[r] # NoGrant /\ uses < MaxUses /\ uses' = uses + 1
  /\ driveRow' = [driveRow EXCEPT ![r] = NoGrant] /\ UNCHANGED <<grant, dead, driveCall>>

GrantingNext ==
  \/ \E c \in Consents : \/ \E u \in Grantees, w \in Targets \cup {NoGrant} : AuthUrl(c, u, w)
                         \/ \E g \in GoogleAccounts : VerifyState(c, g)
                         \/ StateExpires(c) \/ GetToken(c) \/ CallbackFails(c) \/ FindRow(c) \/ SaveConnection(c)
                         \/ MarkIssued(c) \/ GoogleRevokes(c)
  \/ \E r \in DriveRows : CallDrive(r) \/ DeleteRow(r)
  \/ GoogleAnswers \/ CallLost

-----------------------------------------------------------------------------
\* A stored token was granted to the account that began, for the workspace it began in,
\* whoever signed in since; an authorization is not undone by one that had ended before it
\* came back, or by the row it read meanwhile; and a mark comes from a token of one's own.
GrantedAsBegun ==
  \A r \in DriveRows : driveRow[r] # NoGrant =>
    /\ LET c == driveRow[r].token
       IN  /\ RowOf(c) = r /\ grant[c].target \in {NoGrant, driveRow[r].target}
           /\ \A d \in Consents : RowOf(d) = r /\ Saved(d) => c \notin grant[d].after
    /\ driveRow[r].marked => \E c \in dead : grant[c].by = r[1]
=============================================================================
