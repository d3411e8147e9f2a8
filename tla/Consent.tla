------------------------------- MODULE Consent -------------------------------
(***************************************************************************)
(* PostHogAnalytics and trackEvent: what of a tab reaches PostHog.  The    *)
(* library is loaded once the account has agreed; events made while it     *)
(* loads wait in `pendingEvents'; page views are the library's.            *)
(* The effect of a render runs after those of the pages, and cancels the   *)
(* load that the effect before it had started.                             *)
(***************************************************************************)
EXTENDS Naturals, Sequences, FiniteSets

CONSTANTS
  Visitors,         \* accounts that use the tab
  MAX_PENDING,
  MaxSights,        \* renders and events
  NoVisitor         \* signed out; no load, queue or identity

ASSUME ConsentAssumption ==
  /\ {MAX_PENDING, MaxSights} \subseteq Nat
  /\ NoVisitor \notin Visitors \cup [who : Visitors, agrees : BOOLEAN]

VARIABLES
  visitor,          \* the user of AuthProvider: [who, agrees], or NoVisitor
  publicPage,       \* the path is one of the word cloud's audience
  effectDue,        \* the effect of the last render is still to run: "no", "page" or "user"
  posthog,          \* the library: "none", "in", or "out" when opted out
  clientSet,        \* `client' of product-analytics is the library
  identity,         \* whom the library was told it sees
  pendingEvents,          \* the events that wait, or NoVisitor
  importing,          \* whose import is awaited, not cancelled
  toldPostHog,      \* what it got: [by, agreed, public, seenAs, excused]
  stale,            \* history: a load was given up and its queue stayed, or one account took
                    \* the place of another, until the library is told who is there
  sights

consentVars == <<visitor, publicPage, effectDue, posthog, clientSet, identity, pendingEvents, importing,
                 toldPostHog, stale, sights>>

Who(u) == IF u = NoVisitor THEN NoVisitor ELSE u.who
Visitor == [who : Visitors, agrees : BOOLEAN] \cup {NoVisitor}

ConsentTypeOK ==
  /\ visitor \in Visitor /\ publicPage \in BOOLEAN /\ effectDue \in {"no", "page", "user"}
  /\ posthog \in {"none", "in", "out"} /\ clientSet \in BOOLEAN /\ (clientSet => posthog # "none")
  /\ {identity, importing} \subseteq Visitors \cup {NoVisitor}
  /\ (pendingEvents # NoVisitor => Len(pendingEvents) <= MAX_PENDING)
  /\ stale \in BOOLEAN /\ sights \in 0..MaxSights

ConsentInit ==
  /\ visitor = NoVisitor /\ publicPage = FALSE /\ effectDue = "no"
  /\ posthog = "none" /\ clientSet = FALSE /\ identity = NoVisitor
  /\ pendingEvents = NoVisitor /\ importing = NoVisitor
  /\ toldPostHog = {} /\ stale = FALSE /\ sights = 0

Sight == sights < MaxSights /\ sights' = sights + 1

Agrees(u) == IF u = NoVisitor THEN FALSE ELSE u.agrees
ShouldTrack(u, public) == Agrees(u) /\ ~public

\* What before_send lets through: nothing of a public page.  The mutant forgets the paths.
CleanCaptureOfAll(e) == {e}
CleanCapture(e) == IF e.public THEN {} ELSE {e}

\* An opted-out library sends nothing.
Capture(events) == IF posthog = "in" THEN toldPostHog \cup UNION {CleanCapture(e) : e \in events} ELSE toldPostHog

Made(u, public) ==
  [by |-> u.who, agreed |-> u.agrees, public |-> public, seenAs |-> identity, excused |-> stale]

-----------------------------------------------------------------------------
\* A render with another page or user object: the library sees the new path at once, and
\* the layout effect gets the queue ready before the effects of the pages.
Render(u, public) ==
  /\ effectDue = "no" /\ Sight
  /\ <<u, public>> # <<visitor, publicPage>> /\ (u = visitor \/ public = publicPage)
  /\ visitor' = u /\ publicPage' = public
  /\ effectDue' = IF Who(u) = Who(visitor) /\ public = publicPage THEN "user" ELSE "page"
  /\ stale' = (stale \/ Cardinality({Who(u), Who(visitor)} \ {NoVisitor}) = 2)
  /\ pendingEvents' = IF posthog = "none" /\ ShouldTrack(u, public) /\ pendingEvents = NoVisitor
                      THEN <<>> ELSE pendingEvents
  /\ toldPostHog' = IF public # publicPage /\ u # NoVisitor THEN Capture({Made(u, public)}) ELSE toldPostHog
  /\ UNCHANGED <<posthog, clientSet, identity, importing>>

\* setAnalyticsClient: the queue goes out, as whoever is identified now.
Flush(as) ==
  /\ clientSet' = TRUE /\ pendingEvents' = NoVisitor /\ identity' = as /\ stale' = (Who(visitor) # as)
  /\ toldPostHog' = toldPostHog \cup
       (IF pendingEvents = NoVisitor THEN {} ELSE
        {[pendingEvents[i] EXCEPT !.seenAs = as, !.excused = stale] : i \in DOMAIN pendingEvents})

\* The mutant forgets to opt out: page views go on.
ForgetsStillIn == posthog
Forgets == "out"

WithdrawnEffect ==
  /\ posthog # "none" /\ ~Agrees(visitor)
  /\ posthog' = Forgets /\ clientSet' = FALSE /\ pendingEvents' = NoVisitor
  /\ identity' = NoVisitor /\ importing' = NoVisitor /\ stale' = FALSE
  /\ UNCHANGED toldPostHog

\* Nothing to track, and nothing to stop: a load under way is cancelled, its queue stays.
IdleEffect ==
  /\ ~ShouldTrack(visitor, publicPage) /\ (posthog = "none" \/ Agrees(visitor))
  /\ importing' = NoVisitor /\ stale' = (stale \/ importing # NoVisitor)
  /\ UNCHANGED <<posthog, clientSet, identity, pendingEvents, toldPostHog>>

TrackingEffect ==
  /\ ShouldTrack(visitor, publicPage)
  /\ \/ /\ posthog = "none" /\ importing' = visitor.who
        /\ pendingEvents' = IF pendingEvents = NoVisitor THEN <<>> ELSE pendingEvents
        /\ stale' = (stale \/ importing \notin {NoVisitor, visitor.who})
        /\ UNCHANGED <<posthog, clientSet, identity, toldPostHog>>
     \/ /\ posthog # "none" /\ posthog' = "in" /\ Flush(visitor.who) /\ UNCHANGED importing

RunEffect ==
  /\ effectDue # "no" /\ effectDue' = "no"
  /\ WithdrawnEffect \/ IdleEffect \/ TrackingEffect
  /\ UNCHANGED <<visitor, publicPage, sights>>

\* The import is there and was not cancelled.
LibraryLoads ==
  /\ importing # NoVisitor /\ importing' = NoVisitor
  /\ posthog' = "in" /\ Flush(importing)
  /\ UNCHANGED <<visitor, publicPage, effectDue, sights>>

LoadingFails ==
  /\ importing # NoVisitor /\ importing' = NoVisitor /\ stale' = TRUE
  /\ UNCHANGED <<visitor, publicPage, effectDue, posthog, clientSet, identity, pendingEvents, toldPostHog, sights>>

\* trackEvent, of a click, or of a page that opens and whose effects run first.
TrackEvent ==
  /\ visitor # NoVisitor /\ ~publicPage /\ effectDue # "user" /\ Sight
  /\ LET e == Made(visitor, FALSE)
         waits == ~clientSet /\ pendingEvents # NoVisitor /\ Len(pendingEvents) < MAX_PENDING
     IN  /\ toldPostHog' = IF clientSet THEN Capture({e}) ELSE toldPostHog
         /\ pendingEvents' = IF waits THEN Append(pendingEvents, e) ELSE pendingEvents
  /\ UNCHANGED <<visitor, publicPage, effectDue, posthog, clientSet, identity, importing, stale>>

ConsentNext ==
  \/ \E u \in Visitor, public \in BOOLEAN : Render(u, public)
  \/ RunEffect \/ LibraryLoads \/ LoadingFails \/ TrackEvent

-----------------------------------------------------------------------------
\* PostHog only learns what an account did while it agreed, never on the audience's pages,
\* and as that account: whatever was importing when it signed out, agreed or withdrew.  The
\* exceptions: events that waited behind a load that was given up go out with the next one,
\* and an account that takes another's place is only told apart once its effect has run.
OnlyWithConsent ==
  \A e \in toldPostHog : e.excused \/ (e.agreed /\ ~e.public /\ e.seenAs = e.by)
=============================================================================
