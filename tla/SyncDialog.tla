----------------------------- MODULE SyncDialog -----------------------------
(***************************************************************************)
(* The dialog that confirms a manual sync, whose defaults may arrive while *)
(* it is open, late, or never.  A field is modelled by where its value     *)
(* comes from: the panel's first defaults, the saved settings, or a choice *)
(* made for a recording.                                                   *)
(***************************************************************************)
EXTENDS Naturals

CONSTANTS
  DialogRows,    \* recordings
  MaxTouches,    \* clicks, choices and failures
  NoRow          \* no recording; an empty field

ASSUME DialogAssumption == NoRow \notin DialogRows /\ MaxTouches \in Nat

VARIABLES
  confirming,    \* the recording of the dialog, which keeps it when it closes
  visible,
  fields,        \* where the value of each field comes from
  defaults,      \* where the panel's own defaults come from
  fetching,      \* how many requests for the settings are on their way
  posting,       \* the syncs on their way: a recording, the fields of its click
  stored,        \* what the server was asked to upload and to copy, with the fields it used
  touches

dialogVars == <<confirming, visible, fields, defaults, fetching, posting, stored, touches>>

Fields == {"privacyStatus", "playlistId", "newPlaylistTitle", "fileType", "saveToDrive"}
Origins == {"first", "settings", NoRow} \cup DialogRows
Syncs == [row : DialogRows, fields : [Fields -> Origins]]

DialogTypeOK ==
  /\ confirming \in DialogRows \cup {NoRow} /\ visible \in BOOLEAN /\ fields \in [Fields -> Origins]
  /\ defaults \in {"first", "settings"} /\ fetching \in 0..MaxTouches
  /\ posting \subseteq Syncs /\ stored \subseteq Syncs /\ touches \in 0..MaxTouches

DialogInit ==
  /\ confirming = NoRow /\ visible = FALSE /\ defaults = "first" /\ fetching = 0
  /\ fields = [f \in Fields |-> IF f \in {"privacyStatus", "playlistId"} THEN "first" ELSE NoRow]
  /\ posting = {} /\ stored = {} /\ touches = 0

Touch == touches < MaxTouches /\ touches' = touches + 1

\* setSyncPrivacyStatus, setSyncPlaylistId, setSaveToDrive; the mutant leaves the last alone.
OpenedKeepingDrive == [fields EXCEPT !["privacyStatus"] = defaults, !["playlistId"] = defaults]
OpenedFields == [fields EXCEPT !["privacyStatus"] = defaults, !["playlistId"] = defaults, !["saveToDrive"] = NoRow]

OpenSyncDialog(r) ==
  /\ Touch /\ ~visible /\ visible' = TRUE /\ confirming' = r
  /\ fields' = OpenedFields /\ fetching' = fetching + 1
  /\ UNCHANGED <<defaults, posting, stored>>

\* The settings replace what was chosen meanwhile, in whatever dialog is open.
SettingsArrive ==
  /\ fetching > 0 /\ fetching' = fetching - 1 /\ defaults' = "settings"
  /\ fields' = [f \in Fields |-> IF f = "newPlaylistTitle" THEN fields[f] ELSE "settings"]
  /\ UNCHANGED <<confirming, visible, posting, stored, touches>>

SettingsFail ==
  /\ Touch /\ fetching > 0 /\ fetching' = fetching - 1
  /\ UNCHANGED <<confirming, visible, fields, defaults, posting, stored>>

\* A title is typed for a playlist chosen as new.
ChooseField(f) ==
  /\ Touch /\ visible /\ (f = "newPlaylistTitle" => fields["playlistId"] = confirming)
  /\ fields' = [fields EXCEPT ![f] = confirming]
  /\ UNCHANGED <<confirming, visible, defaults, fetching, posting, stored>>

Cleared == [fields EXCEPT !["playlistId"] = NoRow, !["newPlaylistTitle"] = NoRow, !["fileType"] = NoRow]

\* onOk: handleManualSync has the fields of the click; without quota or a title nothing is posted.
Confirm ==
  /\ visible /\ visible' = FALSE /\ fields' = Cleared
  /\ \/ posting' = posting \cup {[row |-> confirming, fields |-> fields]}
     \/ UNCHANGED posting
  /\ UNCHANGED <<confirming, defaults, fetching, stored, touches>>

CancelDialog ==
  /\ visible /\ visible' = FALSE /\ fields' = Cleared
  /\ UNCHANGED <<confirming, defaults, fetching, posting, stored, touches>>

\* The playlist is created, the sync posted, and the copy to Drive asked for after it.
SyncPosted(sync) ==
  /\ posting' = posting \ {sync}
  /\ \/ stored' = stored \cup {sync}
     \/ UNCHANGED stored
  /\ UNCHANGED <<confirming, visible, fields, defaults, fetching, touches>>

DialogNext ==
  \/ SettingsArrive \/ SettingsFail \/ Confirm \/ CancelDialog
  \/ \E r \in DialogRows : OpenSyncDialog(r)
  \/ \E f \in Fields : ChooseField(f)
  \/ \E sync \in posting : SyncPosted(sync)

-----------------------------------------------------------------------------
\* What is uploaded and copied for a recording was set by defaults, by the saved settings or in
\* its own dialog, whichever dialogs were opened, cancelled and confirmed before, and
\* whichever settings arrived late or never: no choice made for another recording is used.
CarriesNothingOver ==
  \A sync \in stored, f \in Fields : sync.fields[f] \in {"first", "settings", NoRow, sync.row}
=============================================================================
