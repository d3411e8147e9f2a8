----------------------------- MODULE MCServices -----------------------------
(***************************************************************************)
(* The services beside the syncs and the backups, for TLC: captions, the   *)
(* YouTube quota and cache, Zoom listings, tokens, accounts, sync          *)
(* settings, links, analytics, and the word cloud's answers.  The modules  *)
(* share no variable, so their steps commute and no property speaks of two *)
(* of them at once: each is explored on its own, from the initial state    *)
(* that chooses it.                                                        *)
(***************************************************************************)
EXTENDS Captions, Quota, Channel, TokenMark, Accounts, SyncPlan, Matching,
        Answers, RateLimit, ConsentCache, Listing, Granting, TLC

MCTexts == {[letters |-> "tea", upper |-> TRUE, marks |-> FALSE],
            [letters |-> Nothing, upper |-> FALSE, marks |-> TRUE]}
MCParticipant == "a1" :> "a" @@ "a2" :> "a" @@ "b1" :> "b"
MCLimit == "q1" :> Nothing @@ "q2" :> 1
MCHiding == "q1" :> "ON_CLICK" @@ "q2" :> "INSTANT"

MCTopic == <<"soh", "goh">>
Uploading == [autoUpload |-> TRUE, title |-> "ours", playlist |-> "p", privacy |-> "unlisted"]
Manual == [autoUpload |-> FALSE, title |-> "ours", playlist |-> Unset, privacy |-> "private"]
Delayed == [matchText |-> <<"goh">>, title |-> "goh", playlist |-> "q", privacy |-> Unset, delay |-> 1]
Open == [matchText |-> <<"soh">>, title |-> Unset, playlist |-> Unset, privacy |-> "public", delay |-> Unset]
MCWorkflows == {Uploading, Manual}
MCRuleForms == {Delayed, Open}
MCSetups == {[workflow |-> "u" :> Uploading @@ "v" :> Unset, rules |-> "u" :> <<Open, Delayed>> @@ "v" :> <<>>]}

MCRecorded == "r1" :> [topic |-> <<"soh", "goh">>, start |-> 100, durations |-> {3600}]
           @@ "r2" :> [topic |-> <<"soh">>, start |-> 20000, durations |-> {3610}]
MCPublished == "v1" :> [title |-> <<"soh", "goh", "x">>, at |-> 120, duration |-> 3602, recording |-> NoMatch]
            @@ "v2" :> [title |-> <<"soh">>, at |-> NoMatch, duration |-> NoMatch, recording |-> "r2"]

\* December to April, and a range of three months and one of four, more than may be asked for.
MCMonthFirsts == <<0, 31, 62, 90, 121, 151>>
MCRanges == {[from |-> 35, to |-> 120], [from |-> 31, to |-> 150]}

VARIABLE part

Parts == {"captions", "quota", "channel", "token", "accounts", "plan", "matching",
          "answers", "limit", "consent", "listing", "grants"}
youtubeVars == <<captionVars, quotaVars, channelVars, tokenVars, listingVars>>
peopleVars == <<accountVars, planVars, matchVars, grantVars>>
cloudVars == <<answerVars, limitVars, consentCacheVars>>
vars == <<part, youtubeVars, peopleVars, cloudVars>>

\* Parts with several initial states start from one of them in the other parts.
Init ==
  /\ part \in Parts
  /\ CaptionsInit /\ QuotaInit /\ ChannelInit /\ TokenInit
  /\ AccountsInit /\ SyncPlanInit /\ MatchingInit /\ AnswersInit /\ RateLimitInit
  /\ ConsentCacheInit /\ ListingInit /\ GrantingInit
  /\ (part # "accounts" => \A e \in Emails : account[e] # NoAccount)
  /\ (part # "listing" => zoomAccount = CHOOSE a \in ZoomAccounts : TRUE)

YoutubeNext ==
  \/ part = "captions" /\ CaptionsNext /\ UNCHANGED <<quotaVars, channelVars, tokenVars, listingVars>>
  \/ part = "quota" /\ QuotaNext /\ UNCHANGED <<captionVars, channelVars, tokenVars, listingVars>>
  \/ part = "channel" /\ ChannelNext /\ UNCHANGED <<captionVars, quotaVars, tokenVars, listingVars>>
  \/ part = "token" /\ TokenNext /\ UNCHANGED <<captionVars, quotaVars, channelVars, listingVars>>
  \/ part = "listing" /\ ListingNext /\ UNCHANGED <<captionVars, quotaVars, channelVars, tokenVars>>

PeopleNext ==
  \/ part = "accounts" /\ AccountsNext /\ UNCHANGED <<planVars, matchVars, grantVars>>
  \/ part = "plan" /\ SyncPlanNext /\ UNCHANGED <<accountVars, matchVars, grantVars>>
  \/ part = "matching" /\ MatchingNext /\ UNCHANGED <<accountVars, planVars, grantVars>>
  \/ part = "grants" /\ GrantingNext /\ UNCHANGED <<accountVars, planVars, matchVars>>

CloudNext ==
  \/ part = "answers" /\ AnswersNext /\ UNCHANGED <<limitVars, consentCacheVars>>
  \/ part = "limit" /\ RateLimitNext /\ UNCHANGED <<answerVars, consentCacheVars>>
  \/ part = "consent" /\ ConsentCacheNext /\ UNCHANGED <<answerVars, limitVars>>

Next ==
  /\ UNCHANGED part
  /\ \/ YoutubeNext /\ UNCHANGED <<peopleVars, cloudVars>>
     \/ PeopleNext /\ UNCHANGED <<youtubeVars, cloudVars>>
     \/ CloudNext /\ UNCHANGED <<youtubeVars, peopleVars>>

\* Timers fire, requests are answered and saves end, in the part that runs.
CaptionsFair ==
  /\ WF_captionVars(part = "captions" /\ \E t \in tries : TryUpload(t))
  /\ WF_captionVars(part = "captions" /\ (SweepStarts \/ SweepStep \/ SweepEnds \/ CaptionsTick))

TokenFair ==
  /\ \A k \in Savers : WF_tokenVars(part = "token" /\ (SaveReads(k) \/ SaveWrites(k) \/ SaveMarks(k)))
  /\ \A s \in Slots : WF_tokenVars(part = "token" /\ Works(s))

Spec ==
  /\ Init /\ [][Next]_vars
  /\ CaptionsFair /\ TokenFair

\* What is listed keeps up with YouTube and Zoom: the cache ends on the channel's videos, a
\* list of recordings misses none, and its token is one that still serves.
ListsKeepUp == CacheKeepsUp /\ ListIsWhole /\ TokenServes

\* Who may do what: a super admin remains, and a token is used for whom it was granted.
RightsHold == AdminRemains /\ GrantedAsBegun

\* What is allowed so often, or for so long, is not done more often or for longer, however calls
\* overlap: requests per window and address, events after an account withdrew its consent, and
\* attempts at the captions of a recording.
LimitsHold == WindowsHold /\ WithdrawalHolds /\ AttemptsHold

\* The part that runs is well typed.
TypeOK ==
  CASE part = "captions" -> CaptionsTypeOK
    [] part = "quota" -> QuotaTypeOK
    [] part = "channel" -> ChannelTypeOK
    [] part = "token" -> TokenTypeOK
    [] part = "accounts" -> AccountsTypeOK
    [] part = "plan" -> SyncPlanTypeOK
    [] part = "matching" -> MatchingTypeOK
    [] part = "answers" -> AnswersTypeOK
    [] part = "limit" -> RateLimitTypeOK
    [] part = "consent" -> ConsentCacheTypeOK
    [] part = "listing" -> ListingTypeOK
    [] part = "grants" -> GrantingTypeOK
==============================================================================
