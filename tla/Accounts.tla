------------------------------ MODULE Accounts ------------------------------
(***************************************************************************)
(* Signing up, signing in and the profile of one email address: the        *)
(* sign-up hook of apps/backend/src/lib/auth.ts, the pages under           *)
(* apps/web/app/(auth), and ensureAppUser (apps/web/lib/rbac.ts), which    *)
(* gives a signed-in user a row of the control plane.                      *)
(*                                                                         *)
(* Better Auth itself is external: it keeps users, accounts and sessions,  *)
(* email being unique, and a session only for a verified user.             *)
(***************************************************************************)
EXTENDS Naturals

CONSTANTS
  Browsers,
  MaxUsers,   \* bound: auth users ever created
  MaxCodes    \* bound: reset codes ever mailed

ASSUME AccountsAssumption == MaxUsers \in Nat \ {0} /\ MaxCodes \in Nat

VARIABLES
  user,      \* the auth user of the address; id 0: none
  lastId,    \* ids given so far
  session,   \* of each browser: the auth user of its session row, 0 without one
  profile,   \* authUserId of the SolobserveUser with this address, 0: none
  hook,      \* of each browser: the sign-up it has under way
  visit,     \* of each browser: the page it is loading, and whether the last one failed
  code,      \* the reset code in force, 0: none
  lastCode,
  form,      \* of each browser: the reset page
  overtaken  \* history: a user was verified while a sign-up was deleting it

accountVars == <<user, lastId, session, profile, hook, visit, code, lastCode, form, overtaken>>
formVars == <<code, lastCode, form>>

NoUser == [id |-> 0, verified |-> FALSE, password |-> FALSE]
NoHook == [at |-> "idle", id |-> 0]

AccountsInit ==
  /\ user = NoUser /\ lastId = 0 /\ profile = 0
  /\ session = [b \in Browsers |-> 0]
  /\ hook = [b \in Browsers |-> NoHook]
  /\ visit = [b \in Browsers |-> [at |-> "idle", id |-> 0, failed |-> FALSE]]
  /\ code = 0 /\ lastCode = 0
  /\ form = [b \in Browsers |-> [step |-> "email", otp |-> 0, open |-> FALSE]]
  /\ overtaken = FALSE

NextId == lastId + 1
Held(id) == \E b \in Browsers : hook[b].at # "idle" /\ hook[b].id = id
-----------------------------------------------------------------------------
(* POST /sign-up/email. *)

\* The hook reads the user of the address; only an unverified one is deleted.
Doomed(u) == u.id # 0 /\ ~u.verified

HookRead(b) ==
  /\ hook[b].at = "idle"
  /\ hook' = [hook EXCEPT ![b] = IF Doomed(user) THEN [at |-> "accounts", id |-> user.id]
                                 ELSE [at |-> "create", id |-> 0]]
  /\ UNCHANGED <<user, lastId, session, profile, visit, formVars, overtaken>>

DeleteAccounts(b) ==
  /\ hook[b].at = "accounts"
  /\ hook' = [hook EXCEPT ![b].at = "sessions"]
  /\ user' = IF user.id = hook[b].id THEN [user EXCEPT !.password = FALSE] ELSE user
  /\ UNCHANGED <<lastId, session, profile, visit, formVars, overtaken>>

Without(id) == [b \in Browsers |-> IF session[b] = id THEN 0 ELSE session[b]]

\* Mutant of DeleteSessions: those of the address go, not those of the user read.
DeleteSessionsOfAddress(b) ==
  /\ hook[b].at = "sessions"
  /\ hook' = [hook EXCEPT ![b].at = "user"]
  /\ session' = Without(user.id)
  /\ UNCHANGED <<user, lastId, profile, visit, formVars, overtaken>>

DeleteSessions(b) ==
  /\ hook[b].at = "sessions"
  /\ hook' = [hook EXCEPT ![b].at = "user"]
  /\ session' = Without(hook[b].id)
  /\ UNCHANGED <<user, lastId, profile, visit, formVars, overtaken>>

\* Mutant of DeleteUser: the row goes without its sessions.
DeleteUserOnly(b) ==
  /\ hook[b].at = "user"
  /\ IF user.id = hook[b].id
     THEN user' = NoUser /\ hook' = [hook EXCEPT ![b] = [at |-> "create", id |-> 0]]
     ELSE hook' = [hook EXCEPT ![b] = NoHook] /\ UNCHANGED user
  /\ UNCHANGED <<session, lastId, profile, visit, formVars, overtaken>>

\* delete throws when the row is gone; its sessions and accounts go with it.
DeleteUser(b) ==
  /\ hook[b].at = "user"
  /\ IF user.id = hook[b].id
     THEN /\ user' = NoUser /\ session' = Without(hook[b].id)
          /\ hook' = [hook EXCEPT ![b] = [at |-> "create", id |-> 0]]
     ELSE hook' = [hook EXCEPT ![b] = NoHook] /\ UNCHANGED <<user, session>>
  /\ UNCHANGED <<lastId, profile, visit, formVars, overtaken>>

\* A statement of the hook fails, and the sign-up with it.
HookFails(b) ==
  /\ hook[b].at \in {"accounts", "sessions", "user"}
  /\ hook' = [hook EXCEPT ![b] = NoHook]
  /\ UNCHANGED <<user, lastId, session, profile, visit, formVars, overtaken>>

\* Better Auth: refused when the address is taken.
CreateUser(b) ==
  /\ hook[b].at = "create"
  /\ hook' = [hook EXCEPT ![b] = NoHook]
  /\ IF user.id = 0
     THEN /\ lastId < MaxUsers /\ lastId' = lastId + 1
          /\ user' = [id |-> NextId, verified |-> FALSE, password |-> TRUE]
     ELSE UNCHANGED <<user, lastId>>
  /\ UNCHANGED <<session, profile, visit, formVars, overtaken>>
-----------------------------------------------------------------------------
(* Signing in and out. *)

\* The magic link of the sign-up and sign-in pages, or a social provider:
\* makes the user if there is none, and verifies the address.
OpenLink(b) ==
  /\ IF user.id = 0
     THEN /\ lastId < MaxUsers /\ lastId' = lastId + 1
          /\ user' = [id |-> NextId, verified |-> TRUE, password |-> FALSE]
     ELSE user' = [user EXCEPT !.verified = TRUE] /\ UNCHANGED lastId
  /\ session' = [session EXCEPT ![b] = user'.id]
  /\ overtaken' = (overtaken \/ (user.id # 0 /\ ~user.verified /\ Held(user.id)))
  /\ UNCHANGED <<profile, hook, visit, formVars>>

\* The password form of the sign-in page.
SignIn(b) ==
  /\ user.verified /\ user.password
  /\ session' = [session EXCEPT ![b] = user.id]
  /\ UNCHANGED <<user, lastId, profile, hook, visit, formVars, overtaken>>

SignOut(b) ==
  /\ session[b] # 0
  /\ session' = [session EXCEPT ![b] = 0]
  /\ UNCHANGED <<user, lastId, profile, hook, visit, formVars, overtaken>>
-----------------------------------------------------------------------------
(* The reset page: email, code, new password. *)

SendCode(b) ==
  /\ form[b].step = "email" \/ form[b].open
  /\ user.id # 0 /\ lastCode < MaxCodes
  /\ lastCode' = lastCode + 1 /\ code' = lastCode + 1
  /\ form' = [form EXCEPT ![b].open = TRUE]
  /\ UNCHANGED <<user, lastId, session, profile, hook, visit, overtaken>>

\* The dialog accepts any six digits: nothing is asked of the server yet.
TypeCode(b) == \E typed \in {0, code} :
  /\ form[b].open
  /\ form' = [form EXCEPT ![b] = [step |-> "reset", otp |-> typed, open |-> FALSE]]
  /\ UNCHANGED <<user, lastId, session, profile, hook, visit, code, lastCode, overtaken>>

\* A refused reset leaves the page as it is; an accepted one leads to sign-in.
SubmitPassword(b) ==
  /\ form[b].step = "reset"
  /\ IF form[b].otp # 0 /\ form[b].otp = code /\ user.id # 0
     THEN /\ user' = [user EXCEPT !.password = TRUE, !.verified = TRUE] /\ code' = 0
          /\ form' = [form EXCEPT ![b] = [step |-> "email", otp |-> 0, open |-> FALSE]]
          /\ overtaken' = (overtaken \/ (~user.verified /\ Held(user.id)))
     ELSE UNCHANGED <<user, code, form, overtaken>>
  /\ UNCHANGED <<lastId, session, profile, hook, visit, lastCode>>

LeaveForm(b) ==
  /\ form[b].step = "reset"
  /\ form' = [form EXCEPT ![b] = [step |-> "email", otp |-> 0, open |-> FALSE]]
  /\ UNCHANGED <<user, lastId, session, profile, hook, visit, code, lastCode, overtaken>>
-----------------------------------------------------------------------------
(* A page of the web interface. *)

\* requireSession: without a session the page redirects to the sign-in page.
Visit(b) ==
  /\ visit[b].at = "idle"
  /\ visit' = [visit EXCEPT ![b] = IF session[b] = 0
                                   THEN [at |-> "idle", id |-> 0, failed |-> FALSE]
                                   ELSE [at |-> "profile", id |-> session[b], failed |-> FALSE]]
  /\ UNCHANGED <<user, lastId, session, profile, hook, formVars, overtaken>>

\* ensureAppUser: an upsert by auth user, with the address unique.
EnsureAppUser(b) ==
  /\ visit[b].at = "profile"
  /\ profile' = IF profile = 0 THEN visit[b].id ELSE profile
  /\ visit' = [visit EXCEPT ![b] = [at |-> "idle", id |-> 0,
                 failed |-> profile \notin {0, visit[b].id}]]
  /\ UNCHANGED <<user, lastId, session, hook, formVars, overtaken>>

AccountsNext == \E b \in Browsers :
  \/ HookRead(b) \/ DeleteAccounts(b) \/ DeleteSessions(b) \/ DeleteUser(b)
  \/ HookFails(b) \/ CreateUser(b)
  \/ OpenLink(b) \/ SignIn(b) \/ SignOut(b)
  \/ SendCode(b) \/ TypeCode(b) \/ SubmitPassword(b) \/ LeaveForm(b)
  \/ Visit(b) \/ EnsureAppUser(b)

AccountsSpec == AccountsInit /\ [][AccountsNext]_accountVars
-----------------------------------------------------------------------------
AccountsTypeOK ==
  /\ user.id \in 0 .. lastId /\ lastId \in 0 .. MaxUsers /\ profile \in 0 .. lastId
  /\ session \in [Browsers -> 0 .. lastId]

\* The two stores have no key between them: still a session belongs to the
\* living, verified user, and the profile of an address belongs to a user that
\* was deleted only if that user was verified while a sign-up was deleting it.
ProfileFollowsTheUser ==
  /\ \A b \in Browsers : session[b] # 0 => session[b] = user.id /\ user.verified
  /\ profile \notin {0, user.id} => overtaken

\* Nothing that is done with the address takes from its verified user the row,
\* the password, or a session, but the sign-out of the browser that has it: a
\* sign-up in particular does not, although its deletes may run long after it
\* read whom they are for.  Only the race that overtaken marks is excepted.
VerifiedUserStays ==
  [][user.verified /\ ~overtaken =>
       /\ user'.id = user.id /\ (user.password => user'.password)
       /\ \A b \in Browsers :
            session[b] # 0 => session'[b] = session[b] \/ SignOut(b)]_accountVars

\* A signed-in visitor gets a page, not an error, unless that race happened.
SignedInVisitsSucceed ==
  \A b \in Browsers : visit[b].failed => overtaken

\* What sign-ups, verifications and visits in any order keep: the two stores agree,
\* and signed-in visitors are let in.
AccountsInv ==
  /\ AccountsTypeOK /\ ProfileFollowsTheUser /\ SignedInVisitsSucceed
=============================================================================
