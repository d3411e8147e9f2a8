------------------------------- MODULE Listing -------------------------------
(***************************************************************************)
(* ZoomService.listRecordings of one user: a range of days is asked for    *)
(* month by month, a few months at a time, with one access token, which    *)
(* is kept in memory until shortly before it expires, whatever happens to  *)
(* the connection meanwhile.  A day stands for its recordings; a date is   *)
(* its number, and time passes in whole units.                             *)
(***************************************************************************)
EXTENDS Integers, Sequences, FiniteSets

CONSTANTS
  MonthFirsts,      \* the number of the first day of each month
  Ranges,           \* the ranges that are asked for: [from, to]
  LateDays,         \* days whose recordings appear at some moment
  ZoomAccounts, NotConnected,
  MAX_RECORDING_WINDOWS, RECORDING_WINDOW_CONCURRENCY,
  EXPIRES_IN, MARGIN,     \* a token lives for one, and is dropped the other before its end
  MaxMoment

ASSUME ListingAssumption ==
  /\ {MAX_RECORDING_WINDOWS, RECORDING_WINDOW_CONCURRENCY} \subseteq Nat \ {0}
  /\ MonthFirsts \in Seq(Nat) /\ Len(MonthFirsts) >= 2
  /\ \A m \in 2..Len(MonthFirsts) : MonthFirsts[m] - MonthFirsts[m - 1] \in 28..31
  /\ Ranges # {}
  /\ \A r \in Ranges : r \in [from : Nat, to : Nat] /\ MonthFirsts[2] <= r.from /\ r.from <= r.to
  /\ {MARGIN, EXPIRES_IN, MaxMoment} \subseteq Nat /\ MARGIN < EXPIRES_IN

VARIABLES
  moment,
  zoomAccount,      \* the account of the connection, or NotConnected
  lateThere,        \* the recordings of LateDays are there
  zoomToken,        \* the entry of accessTokens: [of, issued, expiresAt], or NotConnected
  listing,          \* the request: running, or as it was answered
  lastConfigured    \* history: the last moment at which an account was connected; -1: never

listingVars == <<moment, zoomAccount, lateThere, zoomToken, listing, lastConfigured>>

\* One month before a date, as setUTCMonth counts: the 31st of a month without one is a day
\* of the month after it.
MonthOf(d) ==
  CHOOSE m \in DOMAIN MonthFirsts :
    MonthFirsts[m] <= d /\ \A k \in DOMAIN MonthFirsts : MonthFirsts[k] <= d => k <= m
MonthBefore(d) == MonthFirsts[MonthOf(d) - 1] + (d - MonthFirsts[MonthOf(d)])

\* The mutant leaves a day out between two windows.
NextEndSkipping(start) == start - 2
NextEnd(start) == start - 1

SplitIntoMonthWindows(from, to) ==
  LET split[n \in 0..MAX_RECORDING_WINDOWS] ==
        [end \in (from - 2)..to |->
           IF end < from \/ n = 0 THEN <<>>
           ELSE LET start == IF MonthBefore(end) > from THEN MonthBefore(end) ELSE from
                IN  <<[from |-> start, to |-> end]>> \o split[n - 1][NextEnd(start)]]
  IN  split[MAX_RECORDING_WINDOWS][to]

Windows == SplitIntoMonthWindows(listing.range.from, listing.range.to)

\* listing.age and listing.left: when the token was taken from memory, how long ago its account
\* was last connected, and how long it still lived.
NoListing == [step |-> "none", range |-> CHOOSE r \in Ranges : TRUE, token |-> NotConnected, asked |-> 0,
              batch |-> {}, next |-> 1, got |-> {}, before |-> {}, age |-> 0, left |-> EXPIRES_IN]

ListingTypeOK ==
  /\ moment \in 0..MaxMoment /\ zoomAccount \in ZoomAccounts \cup {NotConnected} /\ lateThere \in BOOLEAN
  /\ zoomToken # NotConnected => zoomToken.of \in ZoomAccounts /\ zoomToken.issued \in 0..moment
  /\ listing.step \in {"none", "token", "asks", "waits", "lists", "answered"} /\ listing.range \in Ranges
  /\ listing.batch \subseteq 1..MAX_RECORDING_WINDOWS /\ listing.next \in 1..(MAX_RECORDING_WINDOWS + 1)
  /\ lastConfigured \in [ZoomAccounts -> -1..moment]

ListingInit ==
  /\ moment = 0 /\ zoomAccount \in ZoomAccounts /\ lateThere = FALSE
  /\ zoomToken = NotConnected /\ listing = NoListing
  /\ lastConfigured = [a \in ZoomAccounts |-> IF a = zoomAccount THEN 0 ELSE -1]

Others == <<moment, zoomAccount, lateThere, lastConfigured>>

There(r) == (r.from..r.to) \ (IF lateThere THEN {} ELSE LateDays)

-----------------------------------------------------------------------------
\* listRecordings, if Zoom is configured, with both dates.
ListRecordings(r) ==
  /\ listing.step \in {"none", "answered"} /\ zoomAccount # NotConnected
  /\ listing' = [NoListing EXCEPT !.step = "token", !.range = r, !.before = There(r)]
  /\ UNCHANGED <<Others, zoomToken>>

ListsWith(t) == [listing EXCEPT !.step = "lists", !.token = t]

\* getAccessToken: the one in memory, or a new one, which remembers when it was asked for.
GetAccessToken ==
  /\ listing.step = "token"
  /\ IF zoomToken # NotConnected
     THEN IF moment < zoomToken.expiresAt
          THEN listing' = [ListsWith(zoomToken) EXCEPT !.age = moment - lastConfigured[zoomToken.of],
                                                      !.left = zoomToken.issued + EXPIRES_IN - moment]
          ELSE listing' = [listing EXCEPT !.step = "asks", !.asked = moment]
     ELSE listing' = [listing EXCEPT !.step = "asks", !.asked = moment]
  /\ UNCHANGED <<Others, zoomToken>>

\* The account's credentials are read, and Zoom issues a token for them.
IssueToken ==
  /\ listing.step = "asks" /\ zoomAccount # NotConnected
  /\ listing' = [listing EXCEPT !.step = "waits", !.token = [of |-> zoomAccount, issued |-> moment]]
  /\ UNCHANGED <<Others, zoomToken>>

\* The mutant counts from the answer.
ExpiresFromAnswer(asked) == moment + EXPIRES_IN - MARGIN
ExpiresAt(asked) == asked + EXPIRES_IN - MARGIN

TokenComes ==
  /\ listing.step = "waits"
  /\ zoomToken' = [of |-> listing.token.of, issued |-> listing.token.issued, expiresAt |-> ExpiresAt(listing.asked)]
  /\ listing' = ListsWith(listing.token)
  /\ UNCHANGED Others

\* The next months together, once those before them are there.
NextBatch ==
  /\ listing.step = "lists" /\ listing.batch = {} /\ listing.next <= Len(Windows)
  /\ LET last == listing.next + RECORDING_WINDOW_CONCURRENCY - 1
         batch == (listing.next..last) \cap DOMAIN Windows
     IN  listing' = [listing EXCEPT !.batch = batch, !.next = @ + Cardinality(batch)]
  /\ UNCHANGED <<Others, zoomToken>>

\* All pages of one month.
FetchWindow(i) ==
  /\ i \in listing.batch
  /\ listing' = [listing EXCEPT !.batch = @ \ {i}, !.got = @ \cup There(Windows[i])]
  /\ UNCHANGED <<Others, zoomToken>>

ListAnswered ==
  /\ listing.step = "lists" /\ listing.batch = {} /\ listing.next > Len(Windows)
  /\ listing' = [listing EXCEPT !.step = "answered"] /\ UNCHANGED <<Others, zoomToken>>

ListFails ==
  listing.step \in {"asks", "waits", "lists"} /\ listing' = NoListing /\ UNCHANGED <<Others, zoomToken>>

\* Others connect another account, or record; time passes.
Reconfigure(a) ==
  /\ a # zoomAccount /\ zoomAccount' = a
  /\ lastConfigured' = IF a = NotConnected THEN lastConfigured ELSE [lastConfigured EXCEPT ![a] = moment]
  /\ UNCHANGED <<moment, lateThere, zoomToken, listing>>

RecordingAppears ==
  ~lateThere /\ lateThere' = TRUE /\ UNCHANGED <<moment, zoomAccount, zoomToken, listing, lastConfigured>>

MomentPasses ==
  /\ moment < MaxMoment /\ moment' = moment + 1
  /\ lastConfigured' = [a \in ZoomAccounts |-> IF a = zoomAccount THEN moment + 1 ELSE lastConfigured[a]]
  /\ UNCHANGED <<zoomAccount, lateThere, zoomToken, listing>>

ListingNext ==
  \/ \E r \in Ranges : ListRecordings(r)
  \/ GetAccessToken \/ IssueToken \/ TokenComes \/ NextBatch \/ ListAnswered \/ ListFails
  \/ \E i \in 1..MAX_RECORDING_WINDOWS : FetchWindow(i)
  \/ \E a \in ZoomAccounts \cup {NotConnected} : Reconfigure(a)
  \/ RecordingAppears \/ MomentPasses

-----------------------------------------------------------------------------
\* An answered list has every recording that was there when it was asked for, of the whole
\* range, or of as many months as it may ask for, over the ends of months that differ in
\* length; and Zoom is never asked for more than a month.
ListIsWhole ==
  listing.step = "answered" =>
    LET first == Windows[Len(Windows)].from IN
    /\ {d \in listing.before : d >= first} \subseteq listing.got
    /\ first = listing.range.from \/ Len(Windows) = MAX_RECORDING_WINDOWS
    /\ \A i \in DOMAIN Windows : Windows[i].to - Windows[i].from <= 31

\* A token from memory is of an account that was connected within the life of a token, and
\* lives for the margin and more, however late Zoom had answered.
TokenServes == listing.age < EXPIRES_IN - MARGIN /\ listing.left > MARGIN
=============================================================================
