---------------------------- MODULE EmailCopies ----------------------------
(***************************************************************************)
(* The preferences for emails: stored on the server, read when a copy of a *)
(* notification is sent, loaded when the bell's panel is first opened, and *)
(* changed by two switches that show the change before the server answers. *)
(***************************************************************************)
EXTENDS Naturals, FiniteSets

CONSTANTS
  Kinds,       \* sync_completed and sync_failed
  MaxCopies, MaxFlips,
  Unloaded     \* preferences that are not loaded, an answer that is not there

ASSUME EmailAssumption == Unloaded \notin [Kinds -> BOOLEAN] /\ {MaxCopies, MaxFlips} \subseteq Nat

VARIABLES
  wanted,      \* wanted[kind]: the preference that is stored
  copies,      \* the kinds of the emails that are due
  created,
  switches,    \* the preferences that the panel shows, or Unloaded
  prefReads,   \* the requests to load them: [n, answer]
  flips,       \* the changes on their way: [kind, value, previous, answer]
  flipped,
  crossed      \* a change was made while another, or a load, was under way, or its answer was lost

mailVars == <<wanted, copies, created, switches, prefReads, flips, flipped, crossed>>

Preferences == [Kinds -> BOOLEAN]

EmailTypeOK ==
  /\ wanted \in Preferences /\ (switches = Unloaded \/ switches \in Preferences)
  /\ created \in 0..MaxCopies /\ flipped \in 0..MaxFlips

EmailInit ==
  /\ wanted = [k \in Kinds |-> TRUE] /\ copies = {} /\ created = 0
  /\ switches = Unloaded /\ prefReads = {} /\ flips = {} /\ flipped = 0 /\ crossed = FALSE

\* create: the email is not awaited.
CreateCopy(kind) ==
  /\ created < MaxCopies /\ created' = created + 1 /\ copies' = copies \cup {kind}
  /\ UNCHANGED <<wanted, switches, prefReads, flips, flipped, crossed>>

\* The preference of the moment decides; a mail that is not wanted, or refused, ends as well.
SendEmailCopy(kind) ==
  /\ kind \in copies /\ copies' = copies \ {kind}
  /\ UNCHANGED <<wanted, created, switches, prefReads, flips, flipped, crossed>>

\* The panel is opened, perhaps again, before the preferences are there.
LoadPreferences ==
  /\ flipped < MaxFlips /\ flipped' = flipped + 1
  /\ switches = Unloaded /\ prefReads' = prefReads \cup {[n |-> flipped, answer |-> Unloaded]}
  /\ UNCHANGED <<wanted, copies, created, switches, flips, crossed>>

GetPreferences(p) ==
  /\ p.answer = Unloaded /\ prefReads' = (prefReads \ {p}) \cup {[p EXCEPT !.answer = wanted]}
  /\ UNCHANGED <<wanted, copies, created, switches, flips, flipped, crossed>>

\* Every answer is taken; a failed load leaves the panel as it is.
PreferencesArrive(p) ==
  /\ prefReads' = prefReads \ {p}
  /\ \/ p.answer # Unloaded /\ switches' = p.answer
     \/ UNCHANGED switches
  /\ UNCHANGED <<wanted, copies, created, flips, flipped, crossed>>

UpdatePreference(kind, value) ==
  /\ flipped < MaxFlips /\ flipped' = flipped + 1
  /\ switches # Unloaded /\ switches' = [switches EXCEPT ![kind] = value]
  /\ flips' = flips \cup {[kind |-> kind, value |-> value, previous |-> switches, answer |-> Unloaded]}
  /\ crossed' = (crossed \/ flips # {} \/ prefReads # {})
  /\ UNCHANGED <<wanted, copies, created, prefReads>>

\* updatePreferences answers with what it reads after its write.
StorePreference(f) ==
  /\ f \in flips /\ f.answer = Unloaded
  /\ wanted' = [wanted EXCEPT ![f.kind] = f.value]
  /\ flips' = (flips \ {f}) \cup {[f EXCEPT !.answer = wanted']}
  /\ UNCHANGED <<copies, created, switches, prefReads, flipped, crossed>>

\* What the panel shows when a change that was not stored fails; the mutant keeps the click.
AfterFailureKept(f) == switches
AfterFailure(f) == f.previous

\* The answer of a change that was stored may be lost, too.
FlipAnswered(f) ==
  /\ f \in flips /\ flips' = flips \ {f}
  /\ \/ f.answer # Unloaded /\ switches' = f.answer /\ UNCHANGED crossed
     \/ switches' = AfterFailure(f) /\ crossed' = (crossed \/ f.answer # Unloaded)
  /\ UNCHANGED <<wanted, copies, created, prefReads, flipped>>

EmailNext ==
  \/ \E kind \in Kinds :
       \/ CreateCopy(kind) \/ SendEmailCopy(kind)
       \/ \E value \in BOOLEAN : UpdatePreference(kind, value)
  \/ LoadPreferences
  \/ \E p \in prefReads : GetPreferences(p) \/ PreferencesArrive(p)
  \/ \E f \in flips : StorePreference(f) \/ FlipAnswered(f)

-----------------------------------------------------------------------------
\* With no change on its way the switches show the stored preferences, after failures too,
\* unless a change overlapped another or a load, or its answer was lost: then the panel may
\* show the older preferences for good, as nothing loads them again.
SwitchesAreStored == flips = {} /\ ~crossed => switches \in {wanted, Unloaded}
=============================================================================
