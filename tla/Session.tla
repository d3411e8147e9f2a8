------------------------------- MODULE Session -------------------------------
(***************************************************************************)
(* Who a tab is signed in as, the workspace it shows and how it looks:     *)
(* AuthProvider, WorkspaceProvider and PreferencesProvider, with the       *)
(* accounts on the server that they copy.  A new user object reloads the   *)
(* workspaces, whatever changed in it; and a function that goes on after   *)
(* an await still has the user of the render it was taken from.            *)
(***************************************************************************)
EXTENDS Naturals, Sequences, SequencesExt

CONSTANTS
  People,          \* accounts
  Spaces,          \* workspaces, numbered as they are listed
  Looks,           \* preferences
  MaxSessionOps,   \* clicks, failures and lost answers
  Nobody           \* signed out, no workspace, not there yet

ASSUME SessionAssumption ==
  Spaces \subseteq Nat /\ Spaces # {} /\ MaxSessionOps \in Nat /\ Nobody \notin People

VARIABLES
  accountHas,      \* accountHas[p]: [active, prefs, spaces]: a row of User and its memberships
  token,           \* whose token, or cookie, the browser sends
  signedIn,        \* the user of AuthProvider, or Nobody
  activeSpace,     \* activeWorkspace
  look,            \* the preferences in use, which this browser also keeps
  asking,          \* the requests on their way, but for
  listings,        \* the loads of the workspaces, in the order they were asked for
  apart,           \* two operations were under way at once, or an answer was late or lost
  sessionOps

sessionVars == <<accountHas, token, signedIn, activeSpace, look, asking, listings, apart, sessionOps>>
tabVars == <<token, signedIn, activeSpace, look, listings, apart, sessionOps>>

User == [who : People, active : Spaces \cup {Nobody}, prefs : Looks]
ToSessionUser(p) == [who |-> p, active |-> accountHas[p].active, prefs |-> accountHas[p].prefs]
FirstOf(spaces) == CHOOSE s \in spaces : \A t \in spaces : s <= t

\* by: whose token is sent; user and previous: the closure's user and preferences; got: the
\* user, or the workspaces, of the answer.
Ask(kind, by, arg) ==
  [n |-> sessionOps, kind |-> kind, by |-> by, arg |-> arg, user |-> signedIn, previous |-> look,
   answer |-> "none", got |-> Nobody]
\* The workspaces are asked for with the token that the step leaves.
Listing(u) == [by |-> token', user |-> u, answer |-> "none", got |-> {}]

SessionTypeOK ==
  /\ \A p \in People : /\ accountHas[p].prefs \in Looks /\ accountHas[p].spaces \subseteq Spaces
                       /\ accountHas[p].active \in accountHas[p].spaces \cup {Nobody}
  /\ token \in People \cup {Nobody} /\ signedIn \in User \cup {Nobody}
  /\ activeSpace \in Spaces \cup {Nobody} /\ look \in Looks
  /\ \A a \in asking : /\ a.by \in People \cup {Nobody} /\ a.previous \in Looks
                      /\ {a.user, a.got} \subseteq User \cup {Nobody}
  /\ \A l \in Range(listings) : l.by \in People \cup {Nobody} /\ l.user \in User
  /\ apart \in BOOLEAN /\ sessionOps \in 0..MaxSessionOps

\* The tab opens: refreshUser.
SessionInit ==
  /\ \E look0 \in Looks :
       /\ look = look0
       /\ accountHas = [p \in People |-> [active |-> Nobody, prefs |-> look0, spaces |-> {FirstOf(Spaces)}]]
  /\ token \in People \cup {Nobody} /\ signedIn = Nobody /\ activeSpace = Nobody
  /\ sessionOps = 0 /\ asking = {Ask("session", token, Nobody)} /\ listings = <<>> /\ apart = FALSE

SessionOp == sessionOps < MaxSessionOps /\ sessionOps' = sessionOps + 1

-----------------------------------------------------------------------------
(* The server *)

Answer(a, reply, u) == asking' = (asking \ {a}) \cup {[a EXCEPT !.answer = reply, !.got = u]}
Unanswered(a, kinds) == a.kind \in kinds /\ a.answer = "none"

ReadSession(a) ==
  /\ Unanswered(a, {"session", "login"})
  /\ IF a.by = Nobody THEN Answer(a, "refused", Nobody) ELSE Answer(a, "done", ToSessionUser(a.by))
  /\ UNCHANGED <<accountHas, tabVars>>

\* switchWorkspace asks for the membership; create has none; preferences are the account's own.
Allowed(a) == a.by # Nobody /\ (a.kind = "switch" => a.arg \in accountHas[a.by].spaces)
Stored(a) ==
  CASE a.kind = "switch" -> [accountHas EXCEPT ![a.by].active = a.arg]
    [] a.kind = "create" -> [accountHas EXCEPT ![a.by].spaces = @ \cup {a.arg}]
    [] a.kind = "prefs" -> [accountHas EXCEPT ![a.by].prefs = a.arg]

StoreOp(a) ==
  /\ Unanswered(a, {"switch", "create", "prefs"})
  /\ IF Allowed(a) THEN accountHas' = Stored(a) /\ Answer(a, "done", Nobody)
     ELSE UNCHANGED accountHas /\ Answer(a, "refused", Nobody)
  /\ UNCHANGED tabVars

\* findAllForUser.
ListSpaces(i) ==
  /\ listings[i].answer = "none"
  /\ listings' = IF listings[i].by = Nobody THEN [listings EXCEPT ![i].answer = "refused"]
                 ELSE [listings EXCEPT ![i].answer = "done", ![i].got = accountHas[listings[i].by].spaces]
  /\ UNCHANGED <<accountHas, token, signedIn, activeSpace, look, asking, apart, sessionOps>>

-----------------------------------------------------------------------------
(* Answers, in the tab *)

\* Loads of the closures that go on after setUser come before the effect of the new user
\* object.  In the mutant they come after it.
LoadOrderReversed(effect, closures) == effect \o closures
LoadOrder(effect, closures) == closures \o effect

\* setUser; the preferences of a user replace those in use.
SetUser(u, closures) ==
  /\ signedIn' = u /\ look' = (IF u = Nobody THEN look ELSE u.prefs)
  /\ activeSpace' = IF u = Nobody THEN Nobody ELSE activeSpace
  /\ listings' = listings \o LoadOrder(IF u = Nobody THEN <<>> ELSE <<Listing(u)>>, closures)

\* refreshUser, with refreshWorkspaces after it when switchWorkspace called it.  Any failure
\* signs the page out, and a refusal forgets the token.
AfterSwitch(a) == IF a.user = Nobody THEN <<>> ELSE <<Listing(a.user)>>

SessionAnswered(a) ==
  /\ a.kind = "session" /\ asking' = asking \ {a}
  /\ \/ a.answer = "done" /\ UNCHANGED <<token, sessionOps>> /\ SetUser(a.got, AfterSwitch(a))
     \/ a.answer = "refused" /\ token' = Nobody /\ SetUser(Nobody, AfterSwitch(a)) /\ UNCHANGED sessionOps
     \/ SessionOp /\ UNCHANGED token /\ SetUser(Nobody, AfterSwitch(a))
  /\ UNCHANGED <<accountHas, apart>>

\* completeLogin, or a wrong password.
LoginAnswered(a) ==
  /\ a.kind = "login" /\ asking' = asking \ {a}
  /\ \/ a.answer = "done" /\ token' = a.by /\ SetUser(a.got, <<>>)
     \/ UNCHANGED <<token, signedIn, look, activeSpace, listings>>
  /\ UNCHANGED <<accountHas, apart, sessionOps>>

\* The local token is forgotten; without an answer the cookie may be left.
LogoutAnswered(a) ==
  /\ a.kind = "logout" /\ asking' = asking \ {a}
  /\ token' \in {token, Nobody} /\ SetUser(Nobody, <<>>)
  /\ UNCHANGED <<accountHas, apart, sessionOps>>

\* An operation that was stored, and whose answer came.
Done(a, kind) == a.kind = kind /\ a.answer = "done" /\ UNCHANGED <<accountHas, token, apart, sessionOps>>

SwitchAnswered(a) ==
  /\ Done(a, "switch") /\ asking' = (asking \ {a}) \cup {[Ask("session", token, Nobody) EXCEPT !.user = a.user]}
  /\ UNCHANGED <<signedIn, look, activeSpace, listings>>

CreateAnswered(a) ==
  /\ Done(a, "create") /\ asking' = asking \ {a}
  /\ listings' = Append(listings, Listing(a.user)) /\ UNCHANGED <<signedIn, look, activeSpace>>

\* updateUser, if there is still one.
PrefsAnswered(a) ==
  /\ Done(a, "prefs") /\ asking' = asking \ {a}
  /\ IF signedIn = Nobody THEN UNCHANGED <<signedIn, look, activeSpace, listings>>
     ELSE SetUser([signedIn EXCEPT !.prefs = a.arg], <<>>)

\* The mutant keeps the look of the click.
LookKept(a) == look
LookAfterFailure(a) == a.previous

\* A refusal, or an answer that is lost.
OpFails(a) ==
  /\ a.kind \in {"switch", "create", "prefs"} /\ asking' = asking \ {a}
  /\ \/ a.answer = "refused" /\ UNCHANGED <<apart, sessionOps>>
     \/ SessionOp /\ apart' = (apart \/ a.answer = "done")
  /\ look' = IF a.kind = "prefs" THEN LookAfterFailure(a) ELSE look
  /\ UNCHANGED <<accountHas, token, signedIn, activeSpace, listings>>

\* refreshWorkspaces: by the user of its closure, or else the first of the list.
Chosen(active, spaces) == IF active \in spaces THEN active ELSE IF spaces = {} THEN Nobody ELSE FirstOf(spaces)

ListingArrives(i) ==
  /\ listings[i].answer = "done"
  /\ activeSpace' = Chosen(listings[i].user.active, listings[i].got)
  /\ listings' = RemoveAt(listings, i) /\ apart' = (apart \/ i # 1)
  /\ UNCHANGED <<accountHas, token, signedIn, look, asking, sessionOps>>

ListingFails(i) ==
  /\ \/ listings[i].answer = "refused" /\ UNCHANGED sessionOps
     \/ SessionOp
  /\ listings' = RemoveAt(listings, i) /\ apart' = TRUE
  /\ UNCHANGED <<accountHas, token, signedIn, activeSpace, look, asking>>

-----------------------------------------------------------------------------
(* The person at the tab *)

AskFor(a) == SessionOp /\ asking' = asking \cup {a} /\ apart' = (apart \/ asking # {})

\* The login page waits for the tab's first answer.
Login(p) ==
  /\ signedIn = Nobody /\ (\A a \in asking : a.n > 0 \/ a.kind # "session") /\ AskFor(Ask("login", p, Nobody))
  /\ UNCHANGED <<accountHas, token, signedIn, activeSpace, look, listings>>

UserOp(kind, arg) ==
  /\ signedIn # Nobody /\ AskFor(Ask(kind, token, arg))
  /\ UNCHANGED <<accountHas, token, signedIn, activeSpace, listings>>

SwitchSpace(s) == UserOp("switch", s) /\ UNCHANGED look
CreateSpace(s) == (\A p \in People : s \notin accountHas[p].spaces) /\ UserOp("create", s) /\ UNCHANGED look
LogOut == UserOp("logout", Nobody) /\ UNCHANGED look

\* updatePreferences: without a user, in this browser only.
ChooseLook(l) ==
  /\ look' = l
  /\ \/ UserOp("prefs", l)
     \/ /\ signedIn = Nobody /\ SessionOp
         /\ UNCHANGED <<accountHas, token, signedIn, activeSpace, asking, listings, apart>>

SessionNext ==
  \/ \E a \in asking :
       \/ ReadSession(a) \/ StoreOp(a) \/ SessionAnswered(a) \/ LoginAnswered(a) \/ LogoutAnswered(a)
       \/ SwitchAnswered(a) \/ CreateAnswered(a) \/ PrefsAnswered(a) \/ OpFails(a)
  \/ \E i \in DOMAIN listings : ListSpaces(i) \/ ListingArrives(i) \/ ListingFails(i)
  \/ LogOut
  \/ \E p \in People : Login(p)
  \/ \E s \in Spaces : SwitchSpace(s) \/ CreateSpace(s)
  \/ \E l \in Looks : ChooseLook(l)

-----------------------------------------------------------------------------
\* When nothing is on its way, a signed-in tab sends the token of the account it shows, and
\* has its preferences and its active workspace, whatever was refused or failed; unless two
\* operations were under way at once, or an answer was lost or overtook another's.
ShowsItsAccount ==
  asking = {} /\ listings = <<>> /\ ~apart /\ signedIn # Nobody =>
    /\ token = signedIn.who
    /\ LET has == accountHas[token]
       IN  look = has.prefs /\ activeSpace = Chosen(has.active, has.spaces)
=============================================================================
