------------------------------ MODULE Accounts ------------------------------
(***************************************************************************)
(* Accounts: sign-in by password and by Google, passwords and their ends,  *)
(* the super admins' requests with their reads and writes apart, and the   *)
(* workspaces of an account.  A request of an admin passes JwtStrategy and *)
(* SuperAdminGuard first and then runs on, whatever others do to its actor.*)
(***************************************************************************)
EXTENDS Naturals, FiniteSets

CONSTANTS
  Emails,          \* the accounts, named by their address
  BootstrapEmail,  \* BOOTSTRAP_SUPER_ADMIN_EMAIL
  Workspaces,
  Admins,          \* admin requests that run at the same time, numbered
  MaxAccountOps,   \* requests, restarts and ends of codes and temp passwords
  NoAccount

VARIABLES
  account,    \* account[e]: a row of User, or NoAccount
  session,    \* the accounts with a token that was signed for them
  code,       \* one-time codes: code[e] is the time left of one, 0: none
  member,     \* member[w]: the accounts in the workspace, its creator the OWNER
  adminRequest,  \* adminRequest[a]: an admin request with what it has read, or NotAsking
  adminsCrossed, \* a removal of an admin was written on reads older than another's write
  accountOps

accountVars == <<account, session, code, member, adminRequest, adminsCrossed, accountOps>>

\* expires: tempPasswordExpiresAt, yet to come or past; reset: resetPasswordToken.
Account ==
  [role : {"user", "super_admin"}, locked : BOOLEAN, verified : BOOLEAN, password : {"none", "own", "temp"},
   mustChange : BOOLEAN, expires : {"never", "later", "past"}, reset : BOOLEAN, active : Workspaces \cup {"none"}]

ASSUME AccountsAssumption ==
  /\ MaxAccountOps \in Nat /\ IsFiniteSet(Emails)
  /\ BootstrapEmail \in Emails /\ NoAccount \notin Account

New == [role |-> "user", locked |-> FALSE, verified |-> FALSE, password |-> "own", mustChange |-> FALSE,
        expires |-> "never", reset |-> FALSE, active |-> "none"]
SuperAdmin == [New EXCEPT !.role = "super_admin", !.verified = TRUE]

Removals == {"demote", "lock", "delete"}
AccountChanges == Removals \cup {"promote", "unlock", "verify", "unverify"}
NotAsking == [step |-> "idle"]
RequestRecord == [step : {"guarded", "found", "counted"}, actor : Emails, target : Emails,
                  change : AccountChanges,
                  user : Account, stale : BOOLEAN]

AccountsTypeOK ==
  /\ account \in [Emails -> Account \cup {NoAccount}]
  /\ session \subseteq Emails /\ code \in [Emails -> 0..1] /\ member \in [Workspaces -> SUBSET Emails]
  /\ adminRequest \in [Admins -> RequestRecord \cup {NotAsking}]
  /\ adminsCrossed \in BOOLEAN /\ accountOps \in 0..MaxAccountOps

AccountsInit ==
  /\ account \in [Emails -> {SuperAdmin, NoAccount}]
  /\ account[BootstrapEmail] = SuperAdmin
  /\ session = {e \in Emails : account[e] # NoAccount}
  /\ code = [e \in Emails |-> 0] /\ member = [w \in Workspaces |-> {}]
  /\ adminRequest = [a \in Admins |-> NotAsking] /\ adminsCrossed = FALSE /\ accountOps = 0

Registered(e) == account[e] # NoAccount
SuperAdmins == {e \in Emails : Registered(e) /\ account[e].role = "super_admin"}
ActiveSuperAdmins == {e \in SuperAdmins : ~account[e].locked}

AccountOp == accountOps < MaxAccountOps /\ accountOps' = accountOps + 1
Update(e, row) == account' = [account EXCEPT ![e] = row]

-----------------------------------------------------------------------------
(* Signing in *)

\* bootstrapSuperAdmin, of an account that signs in.
Bootstrapped(e, row) ==
  IF e = BootstrapEmail /\ SuperAdmins = {} THEN [row EXCEPT !.role = "super_admin"] ELSE row

PasswordSignInBlock(row) == row.locked \/ row.expires = "past"

Login(e) ==
  /\ AccountOp
  /\ Registered(e) /\ account[e].password # "none" /\ ~PasswordSignInBlock(account[e]) /\ account[e].verified
  /\ Update(e, Bootstrapped(e, account[e])) /\ session' = session \cup {e}
  /\ UNCHANGED <<code, member, adminRequest, adminsCrossed>>

\* validateOAuthUser: found by its address or created, then a one-time code
\* and a cookie, which a browser may refuse.
GoogleSignIn(e) ==
  /\ AccountOp
  /\ Registered(e) => ~account[e].locked
  /\ LET row == IF Registered(e) THEN [account[e] EXCEPT !.verified = TRUE, !.mustChange = FALSE]
                ELSE [New EXCEPT !.verified = TRUE, !.password = "none"]
     IN Update(e, Bootstrapped(e, row))
  /\ code' = [code EXCEPT ![e] = 1] /\ session' \in {session, session \cup {e}}
  /\ UNCHANGED <<member, adminRequest, adminsCrossed>>

\* The code is removed whether or not it is still valid.
Exchange(e) ==
  /\ code[e] > 0
  /\ code' = [code EXCEPT ![e] = 0] /\ session' = session \cup {e}
  /\ UNCHANGED <<account, member, adminRequest, adminsCrossed, accountOps>>

CodeExpires(e) ==
  /\ AccountOp /\ code[e] > 0 /\ code' = [code EXCEPT ![e] = 0]
  /\ UNCHANGED <<account, session, member, adminRequest, adminsCrossed>>

Register(e) ==
  /\ AccountOp /\ ~Registered(e) /\ Update(e, New)
  /\ UNCHANGED <<session, code, member, adminRequest, adminsCrossed>>

VerifyEmail(e) ==
  /\ AccountOp /\ Registered(e) /\ ~account[e].verified
  /\ Update(e, [account[e] EXCEPT !.verified = TRUE])
  /\ UNCHANGED <<session, code, member, adminRequest, adminsCrossed>>

ForgotPassword(e) ==
  /\ AccountOp /\ Registered(e) /\ Update(e, [account[e] EXCEPT !.reset = TRUE])
  /\ UNCHANGED <<session, code, member, adminRequest, adminsCrossed>>

\* A temp password's end and the pending change stay.
ResetPassword(e) ==
  /\ AccountOp /\ Registered(e) /\ account[e].reset
  /\ Update(e, [account[e] EXCEPT !.password = "own", !.reset = FALSE])
  /\ UNCHANGED <<session, code, member, adminRequest, adminsCrossed>>

-----------------------------------------------------------------------------
(* Requests of an account that is signed in *)

\* validate: the account's current state, not the token's.
Validated(e) == e \in session /\ Registered(e) /\ ~account[e].locked
MayAct(e) == Validated(e) /\ ~account[e].mustChange

ChangePassword(e) ==
  /\ AccountOp /\ Validated(e)
  /\ Update(e, [account[e] EXCEPT !.password = "own", !.mustChange = FALSE, !.expires = "never", !.reset = FALSE])
  /\ UNCHANGED <<session, code, member, adminRequest, adminsCrossed>>

Logout(e) ==
  /\ AccountOp /\ e \in session /\ session' = session \ {e}
  /\ UNCHANGED <<account, code, member, adminRequest, adminsCrossed>>

CreateWorkspace(e, w) ==
  /\ AccountOp /\ MayAct(e) /\ member[w] = {}
  /\ member' = [member EXCEPT ![w] = {e}]
  /\ UNCHANGED <<account, session, code, adminRequest, adminsCrossed>>

SwitchWorkspace(e, w) ==
  /\ AccountOp /\ MayAct(e) /\ e \in member[w]
  /\ Update(e, [account[e] EXCEPT !.active = w])
  /\ UNCHANGED <<session, code, member, adminRequest, adminsCrossed>>

-----------------------------------------------------------------------------
(* The super admins *)

Guarded(e) == MayAct(e) /\ account[e].role = "super_admin"

CreateAccount(e, new, must) ==
  /\ AccountOp /\ Guarded(e) /\ ~Registered(new)
  /\ \E verified \in BOOLEAN :
       Update(new, [New EXCEPT !.password = "temp", !.verified = verified, !.mustChange = must,
                                !.expires = "later"])
  /\ UNCHANGED <<session, code, member, adminRequest, adminsCrossed>>

ResetTempPassword(e, of, must) ==
  /\ AccountOp /\ Guarded(e) /\ Registered(of)
  /\ Update(of, [account[of] EXCEPT !.password = "temp", !.mustChange = must, !.expires = "later", !.reset = FALSE])
  /\ UNCHANGED <<session, code, member, adminRequest, adminsCrossed>>

\* updateAccount and deleteAccount
AdminAsks(a, e, target, change) ==
  /\ AccountOp /\ adminRequest[a] = NotAsking /\ Guarded(e)
  /\ \A b \in Admins : b < a => adminRequest[b] # NotAsking
  /\ adminRequest' = [adminRequest EXCEPT ![a] =
       [step |-> "guarded", actor |-> e, target |-> target, change |-> change, user |-> New, stale |-> FALSE]]
  /\ UNCHANGED <<account, session, code, member, adminsCrossed>>

AnswerAdmin(a) == adminRequest' = [adminRequest EXCEPT ![a] = NotAsking]

\* find, then no removal of oneself.
Find(a) ==
  /\ adminRequest[a].step = "guarded"
  /\ LET r == adminRequest[a]
     IN IF ~Registered(r.target) \/ (r.target = r.actor /\ r.change \in Removals)
        THEN AnswerAdmin(a)
        ELSE adminRequest' = [adminRequest EXCEPT ![a].user = account[r.target],
                                        ![a].step = IF r.change \in Removals THEN "found" ELSE "counted"]
  /\ UNCHANGED <<account, session, code, member, adminsCrossed, accountOps>>

RemovesNobody(user, n) == FALSE

RemovesLastSuperAdmin(user, n) == user.role = "super_admin" /\ ~user.locked /\ n <= 1

AssertNotLastSuperAdmin(a) ==
  /\ adminRequest[a].step = "found"
  /\ IF RemovesLastSuperAdmin(adminRequest[a].user, Cardinality(ActiveSuperAdmins))
     THEN AnswerAdmin(a) ELSE adminRequest' = [adminRequest EXCEPT ![a].step = "counted"]
  /\ UNCHANGED <<account, session, code, member, adminsCrossed, accountOps>>

AccountChanged(row, change) ==
  CASE change = "demote" -> [row EXCEPT !.role = "user"]
    [] change = "promote" -> [row EXCEPT !.role = "super_admin"]
    [] change = "lock" -> [row EXCEPT !.locked = TRUE]
    [] change = "unlock" -> [row EXCEPT !.locked = FALSE]
    [] change = "verify" -> [row EXCEPT !.verified = TRUE]
    [] change = "unverify" -> [row EXCEPT !.verified = FALSE]
    [] change = "delete" -> NoAccount

\* A deleted account leaves its workspaces; a row that is gone fails the update.
WriteChange(a) ==
  /\ adminRequest[a].step = "counted"
  /\ LET r == adminRequest[a]
     IN IF ~Registered(r.target) THEN UNCHANGED <<account, member, adminsCrossed>> /\ AnswerAdmin(a)
        ELSE /\ Update(r.target, AccountChanged(account[r.target], r.change))
             /\ member' = IF r.change = "delete" THEN [w \in Workspaces |-> member[w] \ {r.target}] ELSE member
             /\ adminsCrossed' = (adminsCrossed \/ (r.change \in Removals /\ r.stale))
             /\ adminRequest' = [b \in Admins |->
                  CASE b = a -> NotAsking
                    [] b # a /\ adminRequest[b].step \in {"found", "counted"} ->
                         [adminRequest[b] EXCEPT !.stale = TRUE]
                    [] OTHER -> adminRequest[b]]
  /\ UNCHANGED <<session, code, accountOps>>

-----------------------------------------------------------------------------
ThirtyDays(e) ==
  /\ AccountOp /\ Registered(e) /\ account[e].expires = "later"
  /\ Update(e, [account[e] EXCEPT !.expires = "past"])
  /\ UNCHANGED <<session, code, member, adminRequest, adminsCrossed>>

\* onApplicationBootstrap; codes and running requests are in memory.
BackendStarts ==
  /\ AccountOp
  /\ IF Registered(BootstrapEmail)
     THEN Update(BootstrapEmail, Bootstrapped(BootstrapEmail, account[BootstrapEmail]))
     ELSE UNCHANGED account
  /\ code' = [e \in Emails |-> 0] /\ adminRequest' = [a \in Admins |-> NotAsking]
  /\ UNCHANGED <<session, member, adminsCrossed>>

AccountsNext ==
  \/ \E e \in Emails :
       \/ Login(e) \/ GoogleSignIn(e) \/ Exchange(e) \/ CodeExpires(e) \/ Register(e) \/ VerifyEmail(e)
       \/ ForgotPassword(e) \/ ResetPassword(e) \/ ChangePassword(e) \/ Logout(e) \/ ThirtyDays(e)
       \/ \E w \in Workspaces : CreateWorkspace(e, w) \/ SwitchWorkspace(e, w)
       \/ \E of \in Emails, must \in BOOLEAN : CreateAccount(e, of, must) \/ ResetTempPassword(e, of, must)
       \/ \E a \in Admins, target \in Emails, change \in AccountChanges : AdminAsks(a, e, target, change)
  \/ \E a \in Admins : Find(a) \/ AssertNotLastSuperAdmin(a) \/ WriteChange(a)
  \/ BackendStarts

-----------------------------------------------------------------------------
\* A super admin who can sign in is left, whatever the admins do to each other and to
\* requests that are still running; only a removal that is written after another's write,
\* on what it read before it, can leave none.
AdminRemains == ActiveSuperAdmins = {} => adminsCrossed
=============================================================================
