---------------------------- MODULE ConsentCache ----------------------------
(***************************************************************************)
(* AnalyticsService: the backend's events, sent for accounts that agreed.  *)
(* The consent is read at most once per CONSENT_TTL_MS; a change of it     *)
(* writes the database first and this instance's memory after.  Time       *)
(* passes in whole units, and no await takes longer than MaxAwait.         *)
(***************************************************************************)
EXTENDS Integers

CONSTANTS
  Subjects,         \* accounts
  CONSENT_TTL_MS, MaxAwait,
  Captures,         \* events on their way
  Answering,        \* changes of the consent on their way
  MaxInstant, MaxConsents

ASSUME ConsentCacheAssumption == CONSENT_TTL_MS \in Nat \ {0} /\ {MaxAwait, MaxInstant, MaxConsents} \subseteq Nat

VARIABLES
  instant,
  consentOf,        \* consentOf[u]: the column analyticsConsent is true
  consent,          \* consent[u]: the entry of the map; known FALSE: none
  capturing,        \* capturing[c]: a running send
  answering,        \* answering[p]: a running updatePreferences
  lastAgreed,       \* history: the last instant at which u agreed; -1: never
  tooLate,          \* history: an event left long after its account had withdrawn
  consents

consentCacheVars == <<instant, consentOf, consent, capturing, answering, lastAgreed, tooLate, consents>>

Idle == [step |-> "idle", since |-> 0]

ConsentCacheTypeOK ==
  /\ instant \in 0..MaxInstant /\ consentOf \in [Subjects -> BOOLEAN]
  /\ \A u \in Subjects : {consent[u].value, consent[u].known} \subseteq BOOLEAN /\ consent[u].at \in 0..instant
  /\ \A c \in Captures : /\ capturing[c].step \in {"idle", "reads", "read", "fills"}
                        /\ capturing[c].since \in 0..instant
  /\ \A p \in Answering : answering[p].step \in {"idle", "stored"} /\ answering[p].since \in 0..instant
  /\ lastAgreed \in [Subjects -> -1..instant] /\ tooLate \in BOOLEAN /\ consents \in 0..MaxConsents

ConsentCacheInit ==
  /\ instant = 0 /\ consents = 0 /\ tooLate = FALSE
  /\ consentOf = [u \in Subjects |-> FALSE] /\ lastAgreed = [u \in Subjects |-> -1]
  /\ consent = [u \in Subjects |-> [known |-> FALSE, value |-> FALSE, at |-> 0]]
  /\ capturing = [c \in Captures |-> Idle] /\ answering = [p \in Answering |-> Idle]

Remember(u, value) == [consent EXCEPT ![u] = [known |-> TRUE, value |-> value, at |-> instant]]
Fresh(u) == consent[u].known /\ instant - consent[u].at < CONSENT_TTL_MS

\* A hit keeps the time of its entry.  In the mutant it makes the entry new.
HitRenews(u) == Remember(u, consent[u].value)
Hit(u) == consent

-----------------------------------------------------------------------------
(* capture: hasConsent, then the properties, then PostHog *)

Go(c, step, u) ==
  capturing' = [capturing EXCEPT ![c] = [step |-> step, since |-> instant, of |-> u, value |-> FALSE]]

Capture(c, u) ==
  /\ capturing[c].step = "idle"
  /\ IF Fresh(u) THEN /\ consent' = Hit(u)
                      /\ Go(c, IF consent[u].value THEN "fills" ELSE "idle", u)
     ELSE Go(c, "reads", u) /\ UNCHANGED consent
  /\ UNCHANGED <<instant, consentOf, answering, lastAgreed, tooLate, consents>>

ReadConsent(c) ==
  /\ capturing[c].step = "reads"
  /\ capturing' = [capturing EXCEPT ![c].step = "read", ![c].value = consentOf[capturing[c].of]]
  /\ UNCHANGED <<instant, consentOf, consent, answering, lastAgreed, tooLate, consents>>

HasConsent(c) ==
  /\ capturing[c].step = "read"
  /\ consent' = Remember(capturing[c].of, capturing[c].value)
  /\ Go(c, IF capturing[c].value THEN "fills" ELSE "idle", capturing[c].of)
  /\ UNCHANGED <<instant, consentOf, answering, lastAgreed, tooLate, consents>>

\* The longest way from an answer that was true to an event: the read, the entry's life, and
\* the properties.
Bound == MaxAwait + CONSENT_TTL_MS + MaxAwait

Sends(c) ==
  /\ capturing[c].step = "fills" /\ capturing' = [capturing EXCEPT ![c] = Idle]
  /\ tooLate' = (tooLate \/ lastAgreed[capturing[c].of] = -1 \/ instant - lastAgreed[capturing[c].of] >= Bound)
  /\ UNCHANGED <<instant, consentOf, consent, answering, lastAgreed, consents>>

-----------------------------------------------------------------------------
(* updatePreferences: the row, then consentChanged *)

StoreConsent(p, u, value) ==
  /\ answering[p].step = "idle" /\ consents < MaxConsents /\ consents' = consents + 1
  /\ consentOf' = [consentOf EXCEPT ![u] = value]
  /\ lastAgreed' = IF value \/ consentOf[u] THEN [lastAgreed EXCEPT ![u] = instant] ELSE lastAgreed
  /\ answering' = [answering EXCEPT ![p] = [step |-> "stored", since |-> instant, of |-> u, value |-> value]]
  /\ UNCHANGED <<instant, consent, capturing, tooLate>>

\* Agreeing counts the sign-up, as an event of its own that asks the new entry.
ConsentChanged(p) ==
  /\ answering[p].step = "stored" /\ answering' = [answering EXCEPT ![p] = Idle]
  /\ consent' = Remember(answering[p].of, answering[p].value)
  /\ IF answering[p].value
     THEN \E c \in Captures : capturing[c].step = "idle" /\ Go(c, "fills", answering[p].of)
     ELSE UNCHANGED capturing
  /\ UNCHANGED <<instant, consentOf, lastAgreed, tooLate, consents>>

AnalyticsRestarts ==
  /\ consent' = [u \in Subjects |-> [known |-> FALSE, value |-> FALSE, at |-> 0]]
  /\ capturing' = [c \in Captures |-> Idle] /\ answering' = [p \in Answering |-> Idle]
  /\ UNCHANGED <<instant, consentOf, lastAgreed, tooLate, consents>>

Passes ==
  /\ instant < MaxInstant /\ instant' = instant + 1
  /\ \A c \in Captures : capturing[c].step # "idle" => instant - capturing[c].since < MaxAwait
  /\ \A p \in Answering : answering[p].step # "idle" => instant - answering[p].since < MaxAwait
  /\ lastAgreed' = [u \in Subjects |-> IF consentOf[u] THEN instant + 1 ELSE lastAgreed[u]]
  /\ UNCHANGED <<consentOf, consent, capturing, answering, tooLate, consents>>

ConsentCacheNext ==
  \/ \E c \in Captures : (\E u \in Subjects : Capture(c, u)) \/ ReadConsent(c) \/ HasConsent(c) \/ Sends(c)
  \/ \E p \in Answering : (\E u \in Subjects, value \in BOOLEAN : StoreConsent(p, u, value)) \/ ConsentChanged(p)
  \/ AnalyticsRestarts \/ Passes

-----------------------------------------------------------------------------
\* An account that withdraws is left alone within one life of an entry and two awaits,
\* whatever reads and changes overlapped when it withdrew.
WithdrawalHolds == ~tooLate
=============================================================================
