--------------------------- MODULE PlatformProofs ---------------------------
(***************************************************************************)
(* Proofs about what people do to accounts, organizations and programs.    *)
(*                                                                         *)
(* Accounts and Orgs: the sign-up and the user it deletes, the profile     *)
(* without a foreign key, the memberships with their log.  CuChecks and    *)
(* ControlPlane: the checks of concurrent jobs, and the handlers that      *)
(* write to Postgres, ClickHouse and NATS with a failure between any two   *)
(* statements.  OrgPages: the queues of the pages with lists, and what a   *)
(* tab shows when it is at rest.  For any number of browsers, people,      *)
(* tabs, versions, jobs, commits and instructions.                         *)
(***************************************************************************)
EXTENDS Accounts, Orgs, ControlPlane, CuChecks, OrgPages, FiniteSetTheorems, SequenceTheorems,
        WellFoundedInduction, TLAPS
-----------------------------------------------------------------------------
(* Accounts. *)

UserIds == 0 .. lastId

TypesOfAccounts ==
  /\ lastId \in 0 .. MaxUsers
  /\ user \in [id : UserIds, verified : BOOLEAN, password : BOOLEAN]
  /\ session \in [Browsers -> UserIds]
  /\ profile \in UserIds
  /\ hook \in [Browsers -> [at : {"idle", "accounts", "sessions", "user", "create"}, id : UserIds]]
  /\ visit \in [Browsers -> [at : {"idle", "profile"}, id : UserIds, failed : BOOLEAN]]
  /\ overtaken \in BOOLEAN

\* A sign-up that has read an unverified user holds a user that exists, or did.
HooksHold ==
  \A b \in Browsers : hook[b].at \in {"accounts", "sessions", "user"} => hook[b].id # 0

\* Unless somebody verified the user in between, no sign-up is about to delete a
\* verified one, the profile is the user's, and so is the page that is loading.
NobodyOvertaken ==
  ~overtaken =>
    /\ \A b \in Browsers :
         user.verified => ~(hook[b].at \in {"accounts", "sessions", "user"} /\ hook[b].id = user.id)
    /\ profile # 0 => profile = user.id /\ user.verified
    /\ \A b \in Browsers :
         visit[b].at = "profile" => visit[b].id = user.id /\ user.id # 0 /\ user.verified

\* A verified user is one.
VerifiedExists == user.verified => user.id # 0

AccountsIInv ==
  /\ TypesOfAccounts /\ HooksHold /\ NobodyOvertaken /\ VerifiedExists
  /\ ProfileFollowsTheUser /\ SignedInVisitsSucceed

LEMMA AccountsStart == AccountsInit => AccountsIInv
<1> SUFFICES ASSUME AccountsInit PROVE AccountsIInv
  OBVIOUS
<1> USE DEF AccountsInit, NoUser, NoHook
<1>1. TypesOfAccounts
  <2>1. lastId \in 0 .. MaxUsers /\ 0 \in UserIds
    BY AccountsAssumption DEF UserIds
  <2>2. user \in [id : UserIds, verified : BOOLEAN, password : BOOLEAN] /\ profile \in UserIds
    BY <2>1
  <2>3. session \in [Browsers -> UserIds] /\ overtaken \in BOOLEAN
    BY <2>1
  <2>4. hook \in [Browsers -> [at : {"idle", "accounts", "sessions", "user", "create"}, id : UserIds]]
    BY <2>1
  <2>5. visit \in [Browsers -> [at : {"idle", "profile"}, id : UserIds, failed : BOOLEAN]]
    BY <2>1
  <2> QED
    BY <2>1, <2>2, <2>3, <2>4, <2>5 DEF TypesOfAccounts
<1>2. HooksHold /\ NobodyOvertaken /\ VerifiedExists
  BY DEF HooksHold, NobodyOvertaken, VerifiedExists
<1>3. ProfileFollowsTheUser /\ SignedInVisitsSucceed
  BY DEF ProfileFollowsTheUser, SignedInVisitsSucceed
<1> QED
  BY <1>1, <1>2, <1>3 DEF AccountsIInv

LEMMA AccountTypes ==
  ASSUME TypesOfAccounts, NEW b \in Browsers,
         HookRead(b) \/ DeleteAccounts(b) \/ DeleteSessions(b) \/ DeleteUser(b) \/ HookFails(b)
           \/ CreateUser(b) \/ OpenLink(b) \/ SignIn(b) \/ SignOut(b) \/ SendCode(b) \/ TypeCode(b)
           \/ SubmitPassword(b) \/ LeaveForm(b) \/ Visit(b) \/ EnsureAppUser(b)
  PROVE  TypesOfAccounts'
<1> DEFINE Users == [id : UserIds, verified : BOOLEAN, password : BOOLEAN]
           Hooks == [at : {"idle", "accounts", "sessions", "user", "create"}, id : UserIds]
           Visits == [at : {"idle", "profile"}, id : UserIds, failed : BOOLEAN]
           Ids == 0 .. (lastId + 1)
<1>0. /\ lastId \in Nat /\ MaxUsers \in Nat /\ user \in Users /\ session \in [Browsers -> UserIds]
      /\ hook \in [Browsers -> Hooks] /\ visit \in [Browsers -> Visits] /\ profile \in UserIds
      /\ overtaken \in BOOLEAN /\ lastId \in 0 .. MaxUsers
  BY AccountsAssumption DEF TypesOfAccounts
<1>1. 0 \in UserIds /\ UserIds \subseteq Nat
  BY <1>0 DEF UserIds
<1>2. lastId' = lastId => UserIds' = UserIds
  BY DEF UserIds
<1>3. lastId' = lastId + 1 => UserIds \subseteq UserIds' /\ lastId' \in UserIds'
  BY <1>0 DEF UserIds
<1> HIDE DEF Users, Hooks, Visits
<1>4. /\ \A i \in UserIds, v, w \in BOOLEAN : [id |-> i, verified |-> v, password |-> w] \in Users
      /\ user.id \in UserIds /\ user.verified \in BOOLEAN /\ user.password \in BOOLEAN
      /\ [user EXCEPT !.password = FALSE] \in Users /\ [user EXCEPT !.verified = TRUE] \in Users
      /\ [user EXCEPT !.password = TRUE, !.verified = TRUE] \in Users
  BY <1>0 DEF Users
<1>5. lastId' \in 0 .. MaxUsers /\ (lastId' = lastId \/ lastId' = lastId + 1)
  BY <1>0
     DEF HookRead, DeleteAccounts, DeleteSessions, DeleteUser, HookFails, CreateUser, OpenLink,
         SignIn, SignOut, SendCode, TypeCode, SubmitPassword, LeaveForm, Visit, EnsureAppUser, NextId
<1>6. UserIds \subseteq UserIds'
  BY <1>2, <1>3, <1>5
<1>7. user' \in [id : UserIds', verified : BOOLEAN, password : BOOLEAN]
  <2>1. Users \subseteq [id : UserIds', verified : BOOLEAN, password : BOOLEAN]
    BY <1>6 DEF Users
  <2>2. CASE user' \in Users
    BY <2>1, <2>2
  <2>3. CASE lastId' = lastId + 1 /\ \E v, w \in BOOLEAN :
               user' = [id |-> lastId', verified |-> v, password |-> w]
    BY <1>3, <2>3
  <2>4. NoUser \in Users
    BY <1>1, <1>4 DEF NoUser
  <2>5. ASSUME CreateUser(b) \/ OpenLink(b)
        PROVE  user' \in Users \/ (lastId' = lastId + 1 /\ \E v, w \in BOOLEAN :
                 user' = [id |-> lastId', verified |-> v, password |-> w])
    BY <1>0, <1>4, <2>5 DEF CreateUser, OpenLink, NextId
  <2>6. CASE DeleteAccounts(b) \/ DeleteUser(b) \/ SubmitPassword(b)
    BY <1>0, <1>4, <2>2, <2>4, <2>6 DEF DeleteAccounts, DeleteUser, SubmitPassword
  <2>7. CASE HookRead(b) \/ DeleteSessions(b) \/ HookFails(b) \/ SignIn(b) \/ SignOut(b)
             \/ SendCode(b) \/ TypeCode(b) \/ LeaveForm(b) \/ Visit(b) \/ EnsureAppUser(b)
    BY <1>0, <2>2, <2>7
       DEF HookRead, DeleteSessions, HookFails, SignIn, SignOut, SendCode, TypeCode, LeaveForm,
           Visit, EnsureAppUser
  <2> QED
    BY <2>2, <2>3, <2>5, <2>6, <2>7
<1>8. session' \in [Browsers -> UserIds']
  <2>1. user'.id \in UserIds'
    BY <1>7
  <2>2. session \in [Browsers -> UserIds'] /\ user.id \in UserIds' /\ 0 \in UserIds'
    BY <1>0, <1>1, <1>4, <1>6
  <2>3. \A id : Without(id) \in [Browsers -> UserIds']
    BY <2>2 DEF Without
  <2>4. \/ session' = session
        \/ \E i \in UserIds' : session' = [session EXCEPT ![b] = i]
        \/ \E id : session' = Without(id)
    BY <2>1, <2>2
       DEF HookRead, DeleteAccounts, DeleteSessions, DeleteUser, HookFails, CreateUser, OpenLink,
           SignIn, SignOut, SendCode, TypeCode, SubmitPassword, LeaveForm, Visit, EnsureAppUser
  <2> QED
    BY <2>2, <2>3, <2>4
<1>9. hook' \in [Browsers -> [at : {"idle", "accounts", "sessions", "user", "create"}, id : UserIds']]
  <2> DEFINE H == [at : {"idle", "accounts", "sessions", "user", "create"}, id : UserIds']
  <2>1. Hooks \subseteq H
    BY <1>6 DEF Hooks
  <2>2. hook \in [Browsers -> H]
    BY <1>0, <2>1
  <2>3. /\ NoHook \in H /\ [at |-> "create", id |-> 0] \in H /\ [at |-> "accounts", id |-> user.id] \in H
        /\ [hook[b] EXCEPT !.at = "sessions"] \in H /\ [hook[b] EXCEPT !.at = "user"] \in H
    BY <1>1, <1>4, <1>6, <2>2 DEF NoHook
  <2> HIDE DEF H
  <2>4. hook' = hook \/ \E h \in H : hook' = [hook EXCEPT ![b] = h]
    BY <2>3
       DEF HookRead, DeleteAccounts, DeleteSessions, DeleteUser, HookFails, CreateUser, OpenLink,
           SignIn, SignOut, SendCode, TypeCode, SubmitPassword, LeaveForm, Visit, EnsureAppUser
  <2>5. hook' \in [Browsers -> H]
    BY <2>2, <2>4
  <2> QED
    BY <2>5 DEF H
<1>10. visit' \in [Browsers -> [at : {"idle", "profile"}, id : UserIds', failed : BOOLEAN]]
  <2> DEFINE V == [at : {"idle", "profile"}, id : UserIds', failed : BOOLEAN]
  <2>1. visit \in [Browsers -> V]
    BY <1>0, <1>6 DEF Visits
  <2>2. /\ \A f \in BOOLEAN : [at |-> "idle", id |-> 0, failed |-> f] \in V
        /\ [at |-> "profile", id |-> session[b], failed |-> FALSE] \in V
    BY <1>0, <1>1, <1>6
  <2> HIDE DEF V
  <2>3. visit' = visit \/ \E v \in V : visit' = [visit EXCEPT ![b] = v]
    <3>1. CASE Visit(b)
      BY <2>2, <3>1 DEF Visit
    <3>2. CASE EnsureAppUser(b)
      BY <2>2, <3>2 DEF EnsureAppUser
    <3> QED
      BY <3>1, <3>2
         DEF HookRead, DeleteAccounts, DeleteSessions, DeleteUser, HookFails, CreateUser, OpenLink,
             SignIn, SignOut, SendCode, TypeCode, SubmitPassword, LeaveForm
  <2>4. visit' \in [Browsers -> V]
    BY <2>1, <2>3
  <2> QED
    BY <2>4 DEF V
<1>11. profile' \in UserIds'
  <2>1. visit[b].id \in UserIds
    BY <1>0 DEF Visits
  <2> QED
    BY <1>0, <1>6, <2>1
       DEF HookRead, DeleteAccounts, DeleteSessions, DeleteUser, HookFails, CreateUser, OpenLink,
           SignIn, SignOut, SendCode, TypeCode, SubmitPassword, LeaveForm, Visit, EnsureAppUser
<1>12. overtaken' \in BOOLEAN
  BY <1>0
     DEF HookRead, DeleteAccounts, DeleteSessions, DeleteUser, HookFails, CreateUser, OpenLink,
         SignIn, SignOut, SendCode, TypeCode, SubmitPassword, LeaveForm, Visit, EnsureAppUser
<1> QED
  BY <1>5, <1>7, <1>8, <1>9, <1>10, <1>11, <1>12 DEF TypesOfAccounts

\* A sign-up that gives up disturbs nothing.
LEMMA HookDropped ==
  ASSUME HooksHold, NobodyOvertaken, VerifiedExists, ProfileFollowsTheUser, SignedInVisitsSucceed,
         NEW b \in Browsers, hook' = [hook EXCEPT ![b] = NoHook],
         hook = [c \in Browsers |-> hook[c]],
         UNCHANGED <<user, session, profile, visit, overtaken>>
  PROVE  (HooksHold /\ NobodyOvertaken /\ VerifiedExists
            /\ ProfileFollowsTheUser /\ SignedInVisitsSucceed)'
<1>1. \A c \in Browsers : hook'[c] = hook[c] \/ hook'[c].at = "idle"
  BY DEF NoHook
<1>2. HooksHold'
  BY <1>1 DEF HooksHold
<1>3. NobodyOvertaken'
  BY <1>1 DEF NobodyOvertaken
<1>4. VerifiedExists' /\ ProfileFollowsTheUser' /\ SignedInVisitsSucceed'
  BY DEF VerifiedExists, ProfileFollowsTheUser, SignedInVisitsSucceed
<1> QED
  BY <1>2, <1>3, <1>4

\* The parts of the invariant, for the step of one browser.
LEMMA AccountsStep == AccountsIInv /\ [AccountsNext]_accountVars => AccountsIInv'
<1> SUFFICES ASSUME AccountsIInv, [AccountsNext]_accountVars PROVE AccountsIInv'
  OBVIOUS
<1> DEFINE Remaining == HooksHold /\ NobodyOvertaken /\ VerifiedExists
                     /\ ProfileFollowsTheUser /\ SignedInVisitsSucceed
<1>0. TypesOfAccounts /\ Remaining
  BY DEF AccountsIInv
<1>1. /\ lastId \in Nat /\ user.id \in 0 .. lastId /\ user.verified \in BOOLEAN
      /\ \A b \in Browsers : hook[b].id \in 0 .. lastId /\ visit[b].id \in 0 .. lastId
                             /\ session[b] \in 0 .. lastId
      /\ profile \in 0 .. lastId
  BY <1>0, AccountsAssumption DEF TypesOfAccounts, UserIds
<1>2. /\ session \in [Browsers -> 0 .. lastId]
      /\ DOMAIN hook = Browsers /\ DOMAIN visit = Browsers /\ overtaken \in BOOLEAN
      /\ hook = [b \in Browsers |-> hook[b]] /\ visit = [b \in Browsers |-> visit[b]]
      /\ \A b \in Browsers : /\ hook[b] = [at |-> hook[b].at, id |-> hook[b].id]
                             /\ visit[b].failed \in BOOLEAN
      /\ user = [id |-> user.id, verified |-> user.verified, password |-> user.password]
  BY <1>0 DEF TypesOfAccounts, UserIds
<1> USE DEF HooksHold, NobodyOvertaken, VerifiedExists, ProfileFollowsTheUser, SignedInVisitsSucceed
<1>3. ASSUME NEW b \in Browsers, HookRead(b) PROVE Remaining'
  BY <1>0, <1>1, <1>2, <1>3 DEF HookRead, Doomed
<1>4. ASSUME NEW b \in Browsers, DeleteAccounts(b) PROVE Remaining'
  BY <1>0, <1>1, <1>2, <1>4 DEF DeleteAccounts
<1>5. ASSUME NEW b \in Browsers, DeleteSessions(b) PROVE Remaining'
  BY <1>0, <1>1, <1>2, <1>5 DEF DeleteSessions, Without
<1>6. ASSUME NEW b \in Browsers, DeleteUser(b) PROVE Remaining'
  <2>1. CASE user.id = hook[b].id
    <3>1. /\ hook[b].at = "user" /\ UNCHANGED <<profile, visit, overtaken>> /\ user' = NoUser
          /\ session' = Without(hook[b].id) /\ hook' = [hook EXCEPT ![b] = [at |-> "create", id |-> 0]]
      BY <1>6, <2>1 DEF DeleteUser
    <3>2. ~overtaken => ~user.verified
      BY <1>0, <2>1, <3>1
    <3>3. \A c \in Browsers : session'[c] = 0
      BY <1>0, <2>1, <3>1 DEF Without
    <3>4. HooksHold' /\ VerifiedExists' /\ SignedInVisitsSucceed'
      BY <1>0, <1>2, <3>1 DEF NoUser
    <3>5. ProfileFollowsTheUser'
      BY <1>0, <3>1, <3>2, <3>3
    <3>6. NobodyOvertaken'
      BY <1>0, <3>1, <3>2 DEF NoUser
    <3> QED
      BY <3>4, <3>5, <3>6
  <2>2. CASE user.id # hook[b].id
    <3>1. UNCHANGED <<user, session, profile, visit, overtaken>> /\ hook' = [hook EXCEPT ![b] = NoHook]
      BY <1>6, <2>2 DEF DeleteUser
    <3> QED
      BY <1>0, <1>2, <3>1, HookDropped
  <2> QED
    BY <2>1, <2>2
<1>7. ASSUME NEW b \in Browsers, HookFails(b) PROVE Remaining'
  BY <1>0, <1>2, <1>7, HookDropped DEF HookFails
<1>8. ASSUME NEW b \in Browsers, CreateUser(b) PROVE Remaining'
  <2>1. CASE user.id = 0
    <3>1. /\ UNCHANGED <<session, profile, visit, overtaken>> /\ hook' = [hook EXCEPT ![b] = NoHook]
          /\ user'.id = lastId + 1 /\ user'.verified = FALSE
      BY <1>8, <2>1 DEF CreateUser, NextId
    <3>2. ~user.verified /\ \A c \in Browsers : session[c] = 0
      BY <1>0, <2>1
    <3>3. HooksHold' /\ VerifiedExists' /\ SignedInVisitsSucceed'
      BY <1>0, <1>2, <3>1 DEF NoHook
    <3>4. ProfileFollowsTheUser'
      BY <1>0, <3>1, <3>2
    <3>5. NobodyOvertaken'
      BY <1>0, <3>1, <3>2
    <3> QED
      BY <3>3, <3>4, <3>5
  <2>2. CASE user.id # 0
    BY <1>0, <1>2, <1>8, <2>2 DEF CreateUser, NoHook
  <2> QED
    BY <2>1, <2>2
<1>9. ASSUME NEW b \in Browsers, OpenLink(b) PROVE Remaining'
  <2>1. /\ UNCHANGED <<profile, hook, visit>> /\ session' = [session EXCEPT ![b] = user'.id]
        /\ user'.verified = TRUE /\ user'.id = IF user.id = 0 THEN lastId + 1 ELSE user.id
        /\ overtaken' = (overtaken \/ (user.id # 0 /\ ~user.verified /\ Held(user.id)))
    BY <1>2, <1>9 DEF OpenLink, NextId
  <2>2. (overtaken => overtaken') /\ user'.id # 0 /\ (user.id # 0 => user'.id = user.id)
    <3>1. overtaken => overtaken'
      BY <2>1
    <3>2. user'.id # 0 /\ (user.id # 0 => user'.id = user.id)
      <4> HIDE DEF HooksHold, NobodyOvertaken, VerifiedExists, ProfileFollowsTheUser, SignedInVisitsSucceed
      <4> QED
        BY <1>1, <2>1
    <3> QED
      BY <3>1, <3>2
  <2>5. HooksHold' /\ VerifiedExists'
    BY <1>0, <2>1, <2>2
  <2>6. SignedInVisitsSucceed'
    BY <1>0, <2>1, <2>2
  <2>7. \A c \in Browsers : session'[c] # 0 => session'[c] = user'.id
    BY <1>0, <1>1, <1>2, <2>1, <2>2
  <2>3. ProfileFollowsTheUser'
    BY <1>0, <1>1, <2>1, <2>2, <2>7
  <2>4. NobodyOvertaken'
    <3> SUFFICES ASSUME ~overtaken'
                 PROVE  /\ \A c \in Browsers :
                             ~(hook[c].at \in {"accounts", "sessions", "user"} /\ hook[c].id = user'.id)
                        /\ profile # 0 => profile = user'.id
                        /\ \A c \in Browsers :
                             visit[c].at = "profile" => visit[c].id = user'.id /\ user'.id # 0
      BY <2>1
    <3>1. ~overtaken /\ (user.id # 0 /\ ~user.verified => ~Held(user.id))
      BY <2>1
    <3>2. ASSUME NEW c \in Browsers, hook[c].at \in {"accounts", "sessions", "user"}
          PROVE  hook[c].id # user'.id
      BY <1>0, <1>1, <2>1, <3>1, <3>2 DEF Held
    <3> QED
      BY <1>0, <1>1, <2>1, <3>1, <3>2
  <2> QED
    BY <2>5, <2>6, <2>3, <2>4
<1>10. ASSUME NEW b \in Browsers, SignIn(b) \/ SignOut(b) PROVE Remaining'
  BY <1>0, <1>2, <1>10 DEF SignIn, SignOut
<1>11. ASSUME NEW b \in Browsers, SendCode(b) \/ TypeCode(b) \/ LeaveForm(b) PROVE Remaining'
  BY <1>0, <1>11 DEF SendCode, TypeCode, LeaveForm
<1>12. ASSUME NEW b \in Browsers, SubmitPassword(b) PROVE Remaining'
  <2>1. CASE UNCHANGED <<user, overtaken>>
    BY <1>0, <1>12, <2>1 DEF SubmitPassword
  <2>2. CASE /\ user' = [user EXCEPT !.password = TRUE, !.verified = TRUE] /\ user.id # 0
             /\ overtaken' = (overtaken \/ (~user.verified /\ Held(user.id)))
    <3>1. user'.id = user.id /\ user'.verified = TRUE /\ UNCHANGED <<session, profile, hook, visit>>
      BY <1>2, <1>12, <2>2 DEF SubmitPassword
    <3>2. NobodyOvertaken'
      BY <1>0, <1>1, <2>2, <3>1 DEF Held
    <3> QED
      BY <1>0, <2>2, <3>1, <3>2
  <2> QED
    BY <1>12, <2>1, <2>2 DEF SubmitPassword
<1>13. ASSUME NEW b \in Browsers, Visit(b) PROVE Remaining'
  BY <1>0, <1>1, <1>2, <1>13 DEF Visit
<1>14. ASSUME NEW b \in Browsers, EnsureAppUser(b) PROVE Remaining'
  <2>1. /\ UNCHANGED <<user, session, hook, overtaken>> /\ visit[b].at = "profile"
        /\ profile' = IF profile = 0 THEN visit[b].id ELSE profile
        /\ visit' = [visit EXCEPT ![b] = [at |-> "idle", id |-> 0,
                                          failed |-> profile \notin {0, visit[b].id}]]
    BY <1>14 DEF EnsureAppUser
  <2> QED
    BY <1>0, <1>1, <1>2, <2>1
<1>15. ASSUME UNCHANGED accountVars PROVE Remaining'
  <2>1. UNCHANGED <<user, session, profile, hook, visit, overtaken>>
    BY <1>15 DEF accountVars
  <2> QED
    BY <1>0, <2>1
<1> HIDE DEF HooksHold, NobodyOvertaken, VerifiedExists, ProfileFollowsTheUser, SignedInVisitsSucceed
<1>16. Remaining'
  <2> HIDE DEF Remaining
  <2> QED
    <3>1. CASE AccountsNext
      <4>1. PICK b \in Browsers :
              HookRead(b) \/ DeleteAccounts(b) \/ DeleteSessions(b) \/ DeleteUser(b) \/ HookFails(b)
                \/ CreateUser(b) \/ OpenLink(b) \/ (SignIn(b) \/ SignOut(b))
                \/ (SendCode(b) \/ TypeCode(b) \/ LeaveForm(b))
                \/ SubmitPassword(b) \/ Visit(b) \/ EnsureAppUser(b)
        BY <3>1, Zenon DEF AccountsNext
      <4>2. CASE HookRead(b) \/ DeleteAccounts(b) \/ DeleteSessions(b) \/ DeleteUser(b)
        BY <1>3, <1>4, <1>5, <1>6, <4>2, Zenon
      <4>3. CASE HookFails(b) \/ CreateUser(b) \/ OpenLink(b) \/ (SignIn(b) \/ SignOut(b))
        BY <1>7, <1>8, <1>9, <1>10, <4>3, Zenon
      <4>4. CASE (SendCode(b) \/ TypeCode(b) \/ LeaveForm(b)) \/ SubmitPassword(b)
        BY <1>11, <1>12, <4>4, Zenon
      <4>5. CASE Visit(b) \/ EnsureAppUser(b)
        BY <1>13, <1>14, <4>5, Zenon
      <4> QED
        BY <4>1, <4>2, <4>3, <4>4, <4>5, Zenon
    <3> QED
      BY <1>15, <3>1
<1>17. TypesOfAccounts'
  <2>1. CASE UNCHANGED accountVars
    BY <1>0, <2>1 DEF accountVars, TypesOfAccounts, UserIds
  <2> QED
    BY <1>0, <2>1, AccountTypes DEF AccountsNext
<1> QED
  BY <1>16, <1>17 DEF AccountsIInv

\* The two stores agree, and a signed-in visitor gets a page, unless a user was
\* verified while a sign-up was deleting it (apps/web/lib/auth.ts).
THEOREM AccountsInvariant == AccountsSpec => []AccountsInv
<1>1. AccountsIInv => AccountsInv
  BY DEF AccountsIInv, AccountsInv, AccountsTypeOK, TypesOfAccounts, UserIds
<1> QED
  BY <1>1, AccountsStart, AccountsStep, PTL DEF AccountsSpec

\* Nothing takes the row, the password or a session of a verified user, but the
\* sign-out of the browser that has it (auth.ts, beforeSignUp).
THEOREM VerifiedUsersStay == AccountsSpec => VerifiedUserStays
<1> DEFINE Stays == user.verified /\ ~overtaken =>
                      /\ user'.id = user.id /\ (user.password => user'.password)
                      /\ \A b \in Browsers :
                           session[b] # 0 => session'[b] = session[b] \/ SignOut(b)
<1>1. AccountsIInv /\ [AccountsNext]_accountVars => [Stays]_accountVars
  <2> SUFFICES ASSUME AccountsIInv, AccountsNext, user.verified, ~overtaken
               PROVE  /\ user'.id = user.id /\ (user.password => user'.password)
                      /\ \A b \in Browsers :
                           session[b] # 0 => session'[b] = session[b] \/ SignOut(b)
    OBVIOUS
  <2>1. /\ \A b \in Browsers : ~(hook[b].at \in {"accounts", "sessions", "user"} /\ hook[b].id = user.id)
        /\ \A b \in Browsers : session[b] # 0 => session[b] = user.id
        /\ \A b \in Browsers : hook[b].at \in {"accounts", "sessions", "user"} => hook[b].id # 0
        /\ user.id # 0
    BY DEF AccountsIInv, NobodyOvertaken, ProfileFollowsTheUser, HooksHold, VerifiedExists
  <2>2. session = [b \in Browsers |-> session[b]]
        /\ user = [id |-> user.id, verified |-> user.verified, password |-> user.password]
    BY DEF AccountsIInv, TypesOfAccounts
  <2>3. PICK b \in Browsers :
          HookRead(b) \/ DeleteAccounts(b) \/ DeleteSessions(b) \/ DeleteUser(b) \/ HookFails(b)
            \/ CreateUser(b) \/ OpenLink(b) \/ SignIn(b) \/ SignOut(b) \/ SendCode(b) \/ TypeCode(b)
            \/ SubmitPassword(b) \/ LeaveForm(b) \/ Visit(b) \/ EnsureAppUser(b)
    BY DEF AccountsNext
  <2>4. user'.id = user.id /\ (user.password => user'.password)
    BY <2>1, <2>2, <2>3
       DEF HookRead, DeleteAccounts, DeleteSessions, DeleteUser, HookFails, CreateUser, OpenLink,
           SignIn, SignOut, SendCode, TypeCode, SubmitPassword, LeaveForm, Visit, EnsureAppUser
  <2>5. ASSUME NEW c \in Browsers, session[c] # 0
        PROVE  session'[c] = session[c] \/ SignOut(c)
    <3>1. hook[b].at \in {"sessions", "user"} => Without(hook[b].id) = session
      BY <2>1, <2>2 DEF Without
    <3>2. CASE HookRead(b) \/ DeleteAccounts(b) \/ DeleteSessions(b) \/ DeleteUser(b)
               \/ HookFails(b) \/ CreateUser(b)
      BY <2>1, <3>1, <3>2
         DEF HookRead, DeleteAccounts, DeleteSessions, DeleteUser, HookFails, CreateUser
    <3>3. CASE OpenLink(b)
      <4>1. session' = [session EXCEPT ![b] = user.id]
        BY <2>1, <2>4, <3>3 DEF OpenLink
      <4> QED
        BY <2>1, <2>2, <2>5, <4>1
    <3>4. CASE SignIn(b)
      BY <2>1, <2>2, <2>5, <3>4 DEF SignIn
    <3>5. CASE SignOut(b)
      <4>1. session' = [session EXCEPT ![b] = 0]
        BY <3>5 DEF SignOut
      <4>2. c # b => session'[c] = session[c]
        BY <2>2, <4>1
      <4> QED
        BY <3>5, <4>2
    <3>6. CASE SendCode(b) \/ TypeCode(b) \/ SubmitPassword(b) \/ LeaveForm(b)
               \/ Visit(b) \/ EnsureAppUser(b)
      BY <3>6 DEF SendCode, TypeCode, SubmitPassword, LeaveForm, Visit, EnsureAppUser
    <3> QED
      BY <2>3, <3>2, <3>3, <3>4, <3>5, <3>6
  <2> QED
    BY <2>4, <2>5
<1> QED
  BY <1>1, AccountsStart, AccountsStep, PTL DEF AccountsSpec, VerifiedUserStays

-----------------------------------------------------------------------------
(* Orgs. *)

Acts == [op : {"none", "org", "project", "invite"}, at : {"idle", "slug", "gate", "write"},
         org : Slugs, try : Nat, who : People \cup {Nobody}, role : Roles \cup {"none"}]
OrgForms == [busy : BOOLEAN, threw : BOOLEAN]

TypesOfOrgs ==
  /\ OrgsTypeOK
  /\ owns \in [Slugs -> People \cup {Nobody}]
  /\ project = [o \in Slugs |-> project[o]]
  /\ act \in [People -> Acts]
  /\ orgForm \in [People -> OrgForms]

\* An action that is about to write still has the slug it checked, or is a loser of
\* the race for it; an invitation names a person and one of the roles of its list.
WriterOK(a, p) ==
  /\ a.op = "invite" => a.who \in People /\ a.role \in OfferedRoles
  /\ a.at = "write" /\ a.op = "org" => a.try \in Slugs /\ (Taken(a.try) => p \in raced)
  /\ a.at = "write" /\ a.op = "project" => (a.try \in project[a.org] => p \in raced)
WritersOK == \A p \in People : WriterOK(act[p], p)

OrgsIInv ==
  /\ TypesOfOrgs /\ WritersOK
  /\ AuditTellsTheRoles /\ OwnersCreated /\ StuckOnlyAfterARace

LEMMA SlugsStartAtZero == 0 \in Slugs /\ Slugs \subseteq Nat
BY OrgsAssumption DEF Slugs

LEMMA OrgsStart == OrgsInit => OrgsIInv
<1> SUFFICES ASSUME OrgsInit PROVE OrgsIInv
  OBVIOUS
<1> USE DEF OrgsInit
<1>1. NoAct \in Acts
  BY SlugsStartAtZero DEF NoAct, Acts
<1>2. TypesOfOrgs
  <2>1. member \in [Slugs -> [People -> Roles \cup {"none"}]] /\ raced \subseteq People
        /\ errors \in 0 .. MaxErrors
    BY OrgsAssumption DEF Outsider
  <2>2. act \in [People -> Acts]
    BY <1>1
  <2>3. orgForm \in [People -> OrgForms]
    BY DEF OrgForms
  <2> QED
    BY <2>1, <2>2, <2>3 DEF TypesOfOrgs, OrgsTypeOK
<1>3. WritersOK
  BY DEF WritersOK, WriterOK, NoAct
<1>4. AuditTellsTheRoles /\ OwnersCreated /\ StuckOnlyAfterARace
  BY DEF AuditTellsTheRoles, OwnersCreated, StuckOnlyAfterARace, Outsider
<1> QED
  BY <1>2, <1>3, <1>4 DEF OrgsIInv

\* A step that changes only the actions under way and the forms: it is enough that the
\* new action is one, is ready to write if it is about to, and that no form is stuck.
LEMMA OnlyTheForm ==
  ASSUME OrgsIInv, NEW p \in People, NEW a \in Acts, NEW f \in OrgForms,
         act' = [act EXCEPT ![p] = a], orgForm' = [orgForm EXCEPT ![p] = f],
         WriterOK(a, p), f.threw => orgForm[p].threw,
         UNCHANGED <<orgRows, raced, errors>>
  PROVE  OrgsIInv'
<1>1. act' \in [People -> Acts] /\ orgForm' \in [People -> OrgForms]
  BY DEF OrgsIInv, TypesOfOrgs
<1>2. TypesOfOrgs'
  BY <1>1 DEF OrgsIInv, TypesOfOrgs, OrgsTypeOK, orgRows
<1>3. WritersOK'
  <2>1. \A q \in People : act'[q] = act[q] \/ (q = p /\ act'[q] = a)
    BY DEF OrgsIInv, TypesOfOrgs
  <2>2. \A q \in People : WriterOK(act'[q], q)
    BY <2>1 DEF OrgsIInv, WritersOK
  <2> QED
    BY <2>2 DEF WritersOK, WriterOK, Taken, orgRows
<1>4. (AuditTellsTheRoles /\ OwnersCreated)'
  BY DEF OrgsIInv, AuditTellsTheRoles, OwnersCreated, orgRows
<1>5. StuckOnlyAfterARace'
  <2>1. \A q \in People : orgForm'[q].threw => orgForm[q].threw
    BY DEF OrgsIInv, TypesOfOrgs
  <2> QED
    BY <2>1 DEF OrgsIInv, StuckOnlyAfterARace
<1> QED
  BY <1>2, <1>3, <1>4, <1>5 DEF OrgsIInv

\* What an answer and a thrown action leave.
LEMMA ActionAnswered ==
  ASSUME TypesOfOrgs, NEW p \in People, Resolve(p) \/ Reject(p)
  PROVE  /\ act' = [act EXCEPT ![p] = NoAct] /\ NoAct \in Acts
         /\ act' \in [People -> Acts] /\ orgForm' \in [People -> OrgForms]
         /\ \A q \in People : q # p => orgForm'[q] = orgForm[q]
         /\ Resolve(p) => orgForm'[p].threw = orgForm[p].threw
         /\ orgForm' = [orgForm EXCEPT ![p] = orgForm'[p]]
<1>1. NoAct \in Acts
  BY SlugsStartAtZero DEF NoAct, Acts
<1>2. /\ orgForm \in [People -> OrgForms]
      /\ [orgForm[p] EXCEPT !.busy = FALSE] \in OrgForms /\ [orgForm[p] EXCEPT !.threw = TRUE] \in OrgForms
      /\ [orgForm[p] EXCEPT !.busy = FALSE].threw = orgForm[p].threw
  BY DEF TypesOfOrgs, OrgForms
<1>3. PICK f \in OrgForms : orgForm' = [orgForm EXCEPT ![p] = f]
                            /\ (Resolve(p) => f.threw = orgForm[p].threw)
  BY <1>2 DEF Resolve, Reject
<1> QED
  BY <1>1, <1>2, <1>3 DEF TypesOfOrgs, Resolve, Reject

LEMMA SubmitStep ==
  ASSUME OrgsIInv, NEW p \in People, SubmitOrg(p) \/ SubmitProject(p) \/ SubmitInvite(p)
  PROVE  OrgsIInv'
<1>1. PICK a \in Acts : SubmitForm(p, a) /\ WriterOK(a, p)
  <2>1. CASE SubmitOrg(p)
    <3>1. [NoAct EXCEPT !.op = "org", !.at = "slug"] \in Acts
      BY SlugsStartAtZero DEF NoAct, Acts
    <3> QED
      BY <2>1, <3>1 DEF SubmitOrg, WriterOK, NoAct
  <2>2. CASE SubmitProject(p)
    <3>1. PICK o \in Slugs : SubmitForm(p, [NoAct EXCEPT !.op = "project", !.at = "gate", !.org = o])
      BY <2>2 DEF SubmitProject
    <3>2. [NoAct EXCEPT !.op = "project", !.at = "gate", !.org = o] \in Acts
      BY SlugsStartAtZero DEF NoAct, Acts
    <3> QED
      BY <3>1, <3>2 DEF WriterOK, NoAct
  <2>3. CASE SubmitInvite(p)
    <3>1. PICK o \in Slugs, q \in People, r \in OfferedRoles :
            SubmitForm(p, [NoAct EXCEPT !.op = "invite", !.at = "gate", !.org = o, !.who = q, !.role = r])
      BY <2>3 DEF SubmitInvite
    <3>2. [NoAct EXCEPT !.op = "invite", !.at = "gate", !.org = o, !.who = q, !.role = r] \in Acts
      BY SlugsStartAtZero DEF NoAct, Acts, OfferedRoles
    <3> QED
      BY <3>1, <3>2 DEF WriterOK, NoAct
  <2> QED
    BY <2>1, <2>2, <2>3
<1>2. orgForm \in [People -> OrgForms]
  BY DEF OrgsIInv, TypesOfOrgs
<1>3. [orgForm[p] EXCEPT !.busy = TRUE] \in OrgForms
      /\ [orgForm[p] EXCEPT !.busy = TRUE].threw = orgForm[p].threw
  BY <1>2 DEF OrgForms
<1>4. PICK f \in OrgForms : orgForm' = [orgForm EXCEPT ![p] = f] /\ f.threw = orgForm[p].threw
  BY <1>1, <1>3 DEF SubmitForm
<1> QED
  BY <1>1, <1>4, OnlyTheForm DEF SubmitForm

LEMMA ReloadFormStep ==
  ASSUME OrgsIInv, NEW p \in People, ReloadForm(p)
  PROVE  OrgsIInv'
<1>1. [busy |-> FALSE, threw |-> FALSE] \in OrgForms
  BY DEF OrgForms
<1>2. act' = [act EXCEPT ![p] = act[p]] /\ act[p] \in Acts /\ WriterOK(act[p], p)
  BY DEF ReloadForm, OrgsIInv, TypesOfOrgs, WritersOK
<1> QED
  BY <1>1, <1>2, OnlyTheForm DEF ReloadForm

LEMMA GateStep ==
  ASSUME OrgsIInv, NEW p \in People, RoleGate(p) \/ TrySlug(p)
  PROVE  OrgsIInv'
<1>1. /\ act[p] \in Acts /\ orgForm \in [People -> OrgForms] /\ act \in [People -> Acts]
      /\ WriterOK(act[p], p) /\ TypesOfOrgs
  BY DEF OrgsIInv, TypesOfOrgs, WritersOK
<1>2. CASE Resolve(p)
  <2>1. WriterOK(NoAct, p)
    BY DEF WriterOK, NoAct
  <2>2. PICK f \in OrgForms : orgForm' = [orgForm EXCEPT ![p] = f] /\ f.threw = orgForm[p].threw
    BY <1>1, <1>2, ActionAnswered
  <2> QED
    BY <1>1, <1>2, <2>1, <2>2, ActionAnswered, OnlyTheForm DEF RoleGate, TrySlug
<1>3. CASE \E a \in Acts : act' = [act EXCEPT ![p] = a] /\ WriterOK(a, p) /\ UNCHANGED orgForm
  <2>1. orgForm' = [orgForm EXCEPT ![p] = orgForm[p]] /\ orgForm[p] \in OrgForms
    BY <1>1, <1>3
  <2> QED
    BY <1>3, <2>1, OnlyTheForm DEF RoleGate, TrySlug
<1>4. CASE RoleGate(p) /\ ~Resolve(p)
  <2>1. PICK s \in {"write", "slug"} :
          /\ act' = [act EXCEPT ![p] = [act[p] EXCEPT !.at = s]] /\ UNCHANGED orgForm
          /\ s = "write" => act[p].op = "invite"
    BY <1>1, <1>4 DEF RoleGate, Proceed
  <2>2. [act[p] EXCEPT !.at = s] \in Acts
    BY <1>1 DEF Acts
  <2>3. WriterOK([act[p] EXCEPT !.at = s], p)
    BY <1>1, <2>1 DEF WriterOK, Acts
  <2> QED
    BY <1>3, <2>1, <2>2, <2>3
<1>5. CASE TrySlug(p)
  <2>1. CASE act' = [act EXCEPT ![p] = [act[p] EXCEPT !.try = act[p].try + 1]] /\ UNCHANGED orgForm
    <3>1. [act[p] EXCEPT !.try = act[p].try + 1] \in Acts
      BY <1>1 DEF Acts
    <3>2. WriterOK([act[p] EXCEPT !.try = act[p].try + 1], p)
      BY <1>1, <1>5 DEF WriterOK, Acts, TrySlug
    <3> QED
      BY <1>3, <2>1, <3>1, <3>2
  <2>2. CASE /\ act' = [act EXCEPT ![p] = [act[p] EXCEPT !.at = "write"]] /\ UNCHANGED orgForm
             /\ act[p].op = "org" => act[p].try \in Slugs /\ ~Taken(act[p].try)
             /\ act[p].op # "org" => act[p].try \notin project[act[p].org]
    <3>1. [act[p] EXCEPT !.at = "write"] \in Acts
      BY <1>1 DEF Acts
    <3>2. WriterOK([act[p] EXCEPT !.at = "write"], p)
      BY <1>1, <2>2 DEF WriterOK, Acts
    <3> QED
      BY <1>3, <2>2, <3>1, <3>2
  <2> QED
    BY <1>1, <1>5, <2>1, <2>2 DEF TrySlug, Proceed
<1> QED
  BY <1>2, <1>4, <1>5

\* A thrown action leaves the form stuck: it lost a race, or a statement failed.
LEMMA RejectStep ==
  ASSUME OrgsIInv, NEW p \in People, Reject(p), UNCHANGED <<orgRows, raced>>,
         \/ errors' = errors /\ p \in raced
         \/ errors' = errors + 1 /\ errors < MaxErrors
  PROVE  OrgsIInv'
<1>1. TypesOfOrgs /\ errors \in Nat /\ errors' \in 0 .. MaxErrors
  BY OrgsAssumption DEF OrgsIInv, TypesOfOrgs, OrgsTypeOK
<1>2. TypesOfOrgs'
  BY <1>1, ActionAnswered DEF TypesOfOrgs, OrgsTypeOK, orgRows
<1>3. WritersOK'
  <2>1. \A q \in People : act'[q] = act[q] \/ act'[q] = NoAct
    BY <1>1, ActionAnswered DEF TypesOfOrgs
  <2>2. \A q \in People : WriterOK(NoAct, q)
    BY DEF WriterOK, NoAct
  <2>3. \A q \in People : WriterOK(act'[q], q)
    BY <2>1, <2>2 DEF OrgsIInv, WritersOK
  <2> QED
    BY <2>3 DEF WritersOK, WriterOK, Taken, orgRows
<1>4. (AuditTellsTheRoles /\ OwnersCreated)'
  BY DEF OrgsIInv, AuditTellsTheRoles, OwnersCreated, orgRows
<1>5. StuckOnlyAfterARace'
  <2> SUFFICES ASSUME errors' = 0, NEW q \in People, orgForm'[q].threw PROVE q \in raced
    BY DEF StuckOnlyAfterARace
  <2>1. errors = 0 /\ p \in raced
    BY <1>1
  <2> QED
    BY <1>1, <2>1, ActionAnswered DEF OrgsIInv, StuckOnlyAfterARace
<1> QED
  BY <1>2, <1>3, <1>4, <1>5 DEF OrgsIInv

LEMMA CreateOrganizationStep ==
  ASSUME OrgsIInv, NEW p \in People, CreateOrganization(p)
  PROVE  OrgsIInv'
<1>1. PICK o : o = act[p].try
  OBVIOUS
<1>2. /\ TypesOfOrgs /\ act[p] \in Acts /\ act[p].op = "org" /\ act[p].at = "write"
      /\ o \in Slugs /\ (Taken(o) => p \in raced) /\ UNCHANGED errors
  BY <1>1 DEF OrgsIInv, TypesOfOrgs, WritersOK, WriterOK, CreateOrganization
<1>3. CASE Taken(o)
  BY <1>1, <1>2, <1>3, RejectStep DEF CreateOrganization
<1>4. CASE ~Taken(o)
  <2>1. /\ owns' = [owns EXCEPT ![o] = p]
        /\ member' = [member EXCEPT ![o][p] = "owner"]
        /\ audited' = [audited EXCEPT ![o][p] = "owner"]
        /\ raced' = raced \cup Losers(p, "org", o)
        /\ Resolve(p) /\ UNCHANGED project
    BY <1>1, <1>4 DEF CreateOrganization, OwnerRole
  <2>2. /\ owns \in [Slugs -> People \cup {Nobody}] /\ owns[o] = Nobody /\ Nobody \notin People
        /\ member \in [Slugs -> [People -> Roles \cup {"none"}]]
    BY <1>2, <1>4, OrgsAssumption DEF TypesOfOrgs, OrgsTypeOK, Taken
  <2>3. member' \in [Slugs -> [People -> Roles \cup {"none"}]] /\ owns' \in [Slugs -> People \cup {Nobody}]
    BY <1>2, <2>1, <2>2 DEF Roles
  <2>4. raced' \subseteq People /\ raced \subseteq raced'
    BY <1>2, <2>1 DEF TypesOfOrgs, OrgsTypeOK, Losers
  <2>5. TypesOfOrgs'
    BY <1>2, <2>1, <2>3, <2>4, ActionAnswered DEF TypesOfOrgs, OrgsTypeOK
  <2>6. WritersOK'
    <3> SUFFICES ASSUME NEW q \in People PROVE WriterOK(act[q], q)' \/ act'[q] = NoAct
      BY DEF WritersOK, WriterOK, NoAct
    <3>1. q # p => act'[q] = act[q]
      BY <1>2, <2>1, ActionAnswered DEF TypesOfOrgs
    <3>2. q = p => act'[q] = NoAct
      BY <1>2, <2>1, ActionAnswered DEF TypesOfOrgs
    <3>3. WriterOK(act[q], q)
      BY DEF OrgsIInv, WritersOK
    <3>4. CASE q # p /\ act[q].op = "org" /\ act[q].at = "write"
      <4>1. act[q].try \in Slugs /\ (Taken(act[q].try) => q \in raced)
        BY <3>3, <3>4 DEF WriterOK
      <4>2. act[q].try = o => q \in Losers(p, "org", o)
        BY <1>1, <3>4 DEF Losers
      <4>3. Taken(act[q].try)' => q \in raced'
        BY <2>1, <2>2, <3>1, <3>4, <4>1, <4>2 DEF Taken
      <4> QED
        BY <3>1, <3>4, <4>1, <4>3 DEF WriterOK, Taken
    <3>5. CASE q # p /\ ~(act[q].op = "org" /\ act[q].at = "write")
      BY <2>1, <2>4, <3>1, <3>3, <3>5 DEF WriterOK
    <3> QED
      BY <3>2, <3>4, <3>5
  <2>7. AuditTellsTheRoles'
    BY <2>1 DEF OrgsIInv, AuditTellsTheRoles
  <2>8. OwnersCreated'
    <3> SUFFICES ASSUME NEW n \in Slugs, NEW q \in People, member'[n][q] = "owner"
                 PROVE  owns'[n] = q
      BY DEF OwnersCreated
    <3>1. CASE n = o /\ q = p
      BY <2>1, <2>2, <3>1
    <3>2. CASE n # o \/ q # p
      <4>1. member[n][q] = "owner"
        BY <2>1, <2>2, <3>2
      <4>2. owns[n] = q
        BY <4>1 DEF OrgsIInv, OwnersCreated
      <4> QED
        BY <2>1, <2>2, <4>2
    <3> QED
      BY <3>1, <3>2
  <2>9. StuckOnlyAfterARace'
    BY <1>2, <2>1, <2>4, ActionAnswered DEF OrgsIInv, StuckOnlyAfterARace
  <2> QED
    BY <2>5, <2>6, <2>7, <2>8, <2>9 DEF OrgsIInv
<1> QED
  BY <1>3, <1>4

LEMMA CreateProjectStep ==
  ASSUME OrgsIInv, NEW p \in People, CreateProject(p)
  PROVE  OrgsIInv'
<1>1. PICK o, s : o = act[p].org /\ s = act[p].try
  OBVIOUS
<1>2. /\ TypesOfOrgs /\ act[p] \in Acts /\ act[p].op = "project" /\ act[p].at = "write"
      /\ o \in Slugs /\ (s \in project[o] => p \in raced) /\ UNCHANGED errors
  BY <1>1 DEF OrgsIInv, TypesOfOrgs, WritersOK, WriterOK, CreateProject, Acts
<1>3. CASE s \in project[o]
  BY <1>1, <1>2, <1>3, RejectStep DEF CreateProject
<1>4. CASE s \notin project[o]
  <2>1. /\ project' = [project EXCEPT ![o] = @ \cup {s}]
        /\ raced' = raced \cup Losers(p, "project", o)
        /\ Resolve(p) /\ UNCHANGED <<member, owns, audited>>
    BY <1>1, <1>4 DEF CreateProject
  <2>2. project' = [n \in Slugs |-> project'[n]]
        /\ \A n \in Slugs : project'[n] = IF n = o THEN project[n] \cup {s} ELSE project[n]
    BY <1>2, <2>1 DEF TypesOfOrgs
  <2>3. raced' \subseteq People /\ raced \subseteq raced'
    BY <1>2, <2>1 DEF TypesOfOrgs, OrgsTypeOK, Losers
  <2>4. TypesOfOrgs'
    BY <1>2, <2>1, <2>2, <2>3, ActionAnswered DEF TypesOfOrgs, OrgsTypeOK
  <2>5. WritersOK'
    <3> SUFFICES ASSUME NEW q \in People PROVE WriterOK(act[q], q)' \/ act'[q] = NoAct
      BY DEF WritersOK, WriterOK, NoAct
    <3>1. (q # p => act'[q] = act[q]) /\ (q = p => act'[q] = NoAct)
      BY <1>2, <2>1, ActionAnswered DEF TypesOfOrgs
    <3>2. WriterOK(act[q], q) /\ act[q].org \in Slugs
      BY DEF OrgsIInv, WritersOK, TypesOfOrgs, Acts
    <3>3. CASE q # p /\ act[q].op = "project" /\ act[q].at = "write"
      <4>1. act[q].try \in project[act[q].org] => q \in raced
        BY <3>2, <3>3 DEF WriterOK
      <4>2. act[q].org = o /\ act[q].try = s => q \in Losers(p, "project", o)
        BY <1>1, <3>3 DEF Losers
      <4>3. act[q].try \in project'[act[q].org] => q \in raced'
        BY <2>1, <2>2, <3>2, <4>1, <4>2
      <4> QED
        BY <3>1, <3>3, <4>3 DEF WriterOK
    <3>4. CASE q # p /\ ~(act[q].op = "project" /\ act[q].at = "write")
      BY <2>1, <2>3, <3>1, <3>2, <3>4 DEF WriterOK, Taken
    <3> QED
      BY <3>1, <3>3, <3>4
  <2>6. (AuditTellsTheRoles /\ OwnersCreated)'
    BY <2>1 DEF OrgsIInv, AuditTellsTheRoles, OwnersCreated
  <2>7. StuckOnlyAfterARace'
    BY <1>2, <2>1, <2>3, ActionAnswered DEF OrgsIInv, StuckOnlyAfterARace
  <2> QED
    BY <2>4, <2>5, <2>6, <2>7 DEF OrgsIInv
<1> QED
  BY <1>3, <1>4

LEMMA InviteMemberStep ==
  ASSUME OrgsIInv, NEW p \in People, InviteMember(p)
  PROVE  OrgsIInv'
<1>1. PICK o, w, r : o = act[p].org /\ w = act[p].who /\ r = act[p].role
  OBVIOUS
<1>2. /\ TypesOfOrgs /\ act[p] \in Acts /\ o \in Slugs /\ w \in People /\ r \in Roles /\ r # "owner"
  BY <1>1 DEF OrgsIInv, TypesOfOrgs, WritersOK, WriterOK, InviteMember, Acts, OfferedRoles
<1>3. /\ member' = [member EXCEPT ![o][w] = r] /\ audited' = [audited EXCEPT ![o][w] = r]
      /\ Resolve(p) /\ UNCHANGED <<owns, project, raced, errors>>
  BY <1>1 DEF InviteMember
<1>4. member \in [Slugs -> [People -> Roles \cup {"none"}]]
  BY <1>2 DEF TypesOfOrgs, OrgsTypeOK
<1>5. member' \in [Slugs -> [People -> Roles \cup {"none"}]]
  BY <1>2, <1>3, <1>4
<1>6. TypesOfOrgs'
  BY <1>2, <1>3, <1>5, ActionAnswered DEF TypesOfOrgs, OrgsTypeOK
<1>7. WritersOK'
  <2>1. \A q \in People : act'[q] = act[q] \/ act'[q] = NoAct
    BY <1>2, <1>3, ActionAnswered DEF TypesOfOrgs
  <2>2. \A q \in People : WriterOK(NoAct, q)
    BY DEF WriterOK, NoAct
  <2>3. \A q \in People : WriterOK(act'[q], q)
    BY <2>1, <2>2 DEF OrgsIInv, WritersOK
  <2> QED
    BY <1>3, <2>3 DEF WritersOK, WriterOK, Taken
<1>8. AuditTellsTheRoles'
  BY <1>3 DEF OrgsIInv, AuditTellsTheRoles
<1>9. OwnersCreated'
  <2> SUFFICES ASSUME NEW n \in Slugs, NEW q \in People, member'[n][q] = "owner"
               PROVE  owns[n] = q
    BY <1>3 DEF OwnersCreated
  <2>1. member[n][q] = "owner"
    BY <1>2, <1>3, <1>4
  <2> QED
    BY <2>1 DEF OrgsIInv, OwnersCreated
<1>10. StuckOnlyAfterARace'
  BY <1>2, <1>3, ActionAnswered DEF OrgsIInv, StuckOnlyAfterARace
<1> QED
  BY <1>6, <1>7, <1>8, <1>9, <1>10 DEF OrgsIInv

LEMMA OrgsStep == OrgsIInv /\ [OrgsNext]_orgVars => OrgsIInv'
<1> SUFFICES ASSUME OrgsIInv, [OrgsNext]_orgVars PROVE OrgsIInv'
  OBVIOUS
<1>1. CASE UNCHANGED orgVars
  BY <1>1 DEF orgVars, OrgsIInv, TypesOfOrgs, OrgsTypeOK, WritersOK, WriterOK, Taken,
              AuditTellsTheRoles, OwnersCreated, StuckOnlyAfterARace
<1>2. ASSUME NEW p \in People, ActFails(p) PROVE OrgsIInv'
  BY <1>2, RejectStep DEF ActFails
<1>3. CASE OrgsNext
  <2>1. PICK p \in People :
          \/ SubmitOrg(p) \/ SubmitProject(p) \/ SubmitInvite(p) \/ ReloadForm(p)
          \/ ServerAction(p) \/ ActFails(p)
    BY <1>3 DEF OrgsNext
  <2> QED
    BY <1>2, <2>1, SubmitStep, ReloadFormStep, GateStep, CreateOrganizationStep, CreateProjectStep,
       InviteMemberStep DEF ServerAction
<1> QED
  BY <1>1, <1>3

\* The audit log tells the membership, owners are creators, and without failures only a
\* loser of the race for a slug is left with a busy form (apps/web/actions/control-plane.ts).
THEOREM OrgsInvariant == OrgsSpec => []OrgsInv
<1>1. OrgsIInv => OrgsInv
  BY DEF OrgsIInv, OrgsInv, TypesOfOrgs
<1> QED
  BY <1>1, OrgsStart, OrgsStep, PTL DEF OrgsSpec
-----------------------------------------------------------------------------
(* CuChecks. *)

JobSteps == {"tests", "send", "key", "compare", "record", "judge", "promote", "answered",
             "failed", "passed"}
JobRows == [at : JobSteps, commit : Commits, main : BOOLEAN, bypass : BOOLEAN,
            units : [Ixs -> Units \cup {None}], verdict : {"none", "fine", "regressed"},
            late : BOOLEAN, todo : SUBSET Ixs]
BaseRows == [units : Units \cup {None}, run : Jobs \cup {"none"}, at : Nat]

CuTypes ==
  /\ job \in [Jobs -> JobRows] /\ runs \subseteq Jobs /\ stamps \in Nat
  /\ base \in [Commits -> [Ixs -> BaseRows]]

\* Before it is recorded a job has no row and no verdict.
JobsInOrder == \A j \in Jobs :
  /\ job[j].at \in {"tests", "send", "key", "compare", "record"} => j \notin runs /\ job[j].verdict = "none"
  /\ job[j].at \in {"judge", "promote", "answered", "passed"} => j \in runs
  /\ job[j].at = "judge" => job[j].verdict = "none"
  /\ job[j].at = "promote" => job[j].main

\* The revocation is answered after the row has changed, and who comes later is
\* stopped by the lookup.
RevocationIsSeen ==
  /\ revoking # "no" => key = "revoked"
  /\ \A j \in Jobs : job[j].late =>
       /\ revoking = "answered" /\ j \notin runs
       /\ job[j].at \in {"key", "failed"}

\* What is still to be promoted was measured, what is not has its row.
PromotionsProceed == \A j \in Jobs :
  job[j].at = "promote" =>
    /\ job[j].todo \subseteq Measured(j)
    /\ \A i \in Measured(j) \ job[j].todo : base[job[j].commit][i].units # None

CuIInv ==
  /\ CuTypes /\ JobsInOrder /\ RevocationIsSeen /\ PromotionsProceed
  /\ BaselineIsItsRuns /\ AnsweredIsPromoted

LEMMA NoneIsNoUnit == None \notin Units /\ None # 0
BY CuAssumption DEF None

LEMMA CuStarts == CuInit => CuIInv
<1> SUFFICES ASSUME CuInit PROVE CuIInv
  OBVIOUS
<1>1. CuTypes
  <2>1. job \in [Jobs -> JobRows]
    <3>1. {"tests"} \subseteq JobSteps /\ {"none"} \subseteq {"none", "fine", "regressed"}
          /\ [Ixs -> {None}] \subseteq [Ixs -> Units \cup {None}] /\ {{}} \subseteq SUBSET Ixs
      BY DEF JobSteps
    <3> QED
      BY <3>1 DEF CuInit, JobRows
  <2>2. NoRow \in BaseRows
    BY DEF NoRow, BaseRows, None
  <2> QED
    BY <2>1, <2>2 DEF CuInit, CuTypes
<1>2. \A j \in Jobs : job[j].at = "tests" /\ job[j].verdict = "none" /\ job[j].late = FALSE
  BY DEF CuInit
<1>3. JobsInOrder /\ RevocationIsSeen /\ PromotionsProceed /\ AnsweredIsPromoted
  BY <1>2 DEF CuInit, JobsInOrder, RevocationIsSeen, PromotionsProceed, AnsweredIsPromoted
<1>4. BaselineIsItsRuns
  BY DEF CuInit, BaselineIsItsRuns, NoRow, None
<1> QED
  BY <1>1, <1>3, <1>4 DEF CuIInv

\* A step of one job that leaves the baselines alone and goes no further than its
\* checks allow.
LEMMA JobMoves ==
  ASSUME CuIInv, NEW j \in Jobs, NEW r \in JobRows, job' = [job EXCEPT ![j] = r],
         UNCHANGED <<base, stamps, key, revoking>>,
         runs' = runs \/ runs' = runs \cup {j},
         r.commit = job[j].commit, r.main = job[j].main,
         j \in runs => r.units = job[j].units /\ job[j].late = r.late,
         r.at \in {"tests", "send", "key", "compare", "record"} => j \notin runs' /\ r.verdict = "none",
         r.at \in {"judge", "promote", "answered", "passed"} => j \in runs',
         r.at = "judge" => r.verdict = "none",
         r.at = "promote" => /\ r.main /\ r.todo \subseteq {i \in Ixs : r.units[i] # None}
                             /\ \A i \in {i \in Ixs : r.units[i] # None} \ r.todo :
                                  base[r.commit][i].units # None,
         r.late => revoking = "answered" /\ j \notin runs' /\ r.at \in {"key", "failed"},
         r.verdict # "none" /\ r.main /\ r.at \in {"answered", "passed"} =>
           \A i \in Ixs : r.units[i] # None => base[r.commit][i].units # None
  PROVE  CuIInv'
<1>1. job' \in [Jobs -> JobRows] /\ job'[j] = r /\ \A k \in Jobs : k # j => job'[k] = job[k]
  BY DEF CuIInv, CuTypes
<1>2. runs' \subseteq Jobs /\ runs \subseteq runs' /\ \A k \in Jobs : k # j => (k \in runs' <=> k \in runs)
  BY DEF CuIInv, CuTypes
<1>3. CuTypes'
  BY <1>1, <1>2 DEF CuIInv, CuTypes
<1>4. JobsInOrder'
  BY <1>1, <1>2 DEF CuIInv, JobsInOrder
<1>5. RevocationIsSeen'
  BY <1>1, <1>2 DEF CuIInv, RevocationIsSeen
<1>6. PromotionsProceed'
  BY <1>1, <1>2 DEF CuIInv, PromotionsProceed, Measured
<1>7. BaselineIsItsRuns'
  <2> SUFFICES ASSUME NEW c \in Commits, NEW i \in Ixs, base[c][i].units # None
               PROVE  LET k == base[c][i].run
                      IN k \in runs' /\ job'[k].main /\ job'[k].commit = c
                         /\ job'[k].units[i] = base[c][i].units
    BY DEF BaselineIsItsRuns
  <2>1. PICK k : k = base[c][i].run
    OBVIOUS
  <2>2. k \in runs /\ job[k].main /\ job[k].commit = c /\ job[k].units[i] = base[c][i].units
    BY <2>1 DEF CuIInv, BaselineIsItsRuns
  <2>3. k \in Jobs
    BY <2>2 DEF CuIInv, CuTypes
  <2>4. job'[k].main /\ job'[k].commit = c /\ job'[k].units[i] = base[c][i].units
    BY <1>1, <2>2, <2>3
  <2> QED
    BY <1>2, <2>1, <2>2, <2>4
<1>8. AnsweredIsPromoted'
  BY <1>1, <1>2 DEF CuIInv, AnsweredIsPromoted, Measured
<1> QED
  BY <1>3, <1>4, <1>5, <1>6, <1>7, <1>8 DEF CuIInv

\* Such a step by the name of the step it leads to.
LEMMA JobGoesTo ==
  ASSUME CuIInv, NEW j \in Jobs, NEW s \in JobSteps, Move(j, s),
         UNCHANGED <<base, stamps, key, revoking>>,
         runs' = runs \/ runs' = runs \cup {j},
         ~job[j].late \/ (s = "failed" /\ runs' = runs),
         \/ s = "failed"
         \/ s \in {"compare", "record"} /\ j \notin runs' /\ job[j].verdict = "none"
         \/ s = "judge" /\ j \in runs' /\ job[j].verdict = "none"
         \/ /\ s \in {"answered", "passed"} /\ j \in runs'
            /\ \/ job[j].at = "answered"
               \/ job[j].at = "promote" /\ job[j].todo = {}
  PROVE  CuIInv'
<1>1. PICK r : r = [job[j] EXCEPT !.at = s]
  OBVIOUS
<1>2. job[j] \in JobRows /\ job' = [job EXCEPT ![j] = r]
  BY <1>1 DEF CuIInv, CuTypes, Move
<1>3. /\ r \in JobRows /\ r.at = s /\ r.commit = job[j].commit /\ r.main = job[j].main
      /\ r.units = job[j].units /\ r.late = job[j].late /\ r.verdict = job[j].verdict
  BY <1>1, <1>2 DEF JobRows
<1>4. r.verdict # "none" /\ r.main /\ r.at \in {"answered", "passed"} =>
        \A i \in Ixs : r.units[i] # None => base[r.commit][i].units # None
  <2> SUFFICES ASSUME r.verdict # "none", r.main, s \in {"answered", "passed"}, NEW i \in Ixs,
                      r.units[i] # None
               PROVE  base[r.commit][i].units # None
    BY <1>3
  <2>1. i \in Measured(j)
    BY <1>3 DEF Measured
  <2>2. CASE job[j].at = "answered"
    BY <1>3, <2>1, <2>2 DEF CuIInv, AnsweredIsPromoted
  <2>3. CASE job[j].at = "promote" /\ job[j].todo = {}
    BY <1>3, <2>1, <2>3 DEF CuIInv, PromotionsProceed
  <2> QED
    BY <2>2, <2>3
<1>5. r.late => revoking = "answered" /\ j \notin runs' /\ r.at \in {"key", "failed"}
  BY <1>3 DEF CuIInv, RevocationIsSeen
<1> HIDE DEF JobRows, JobSteps
<1> QED
  BY <1>2, <1>3, <1>4, <1>5, JobMoves

LEMMA MeasureStep ==
  ASSUME CuIInv, NEW j \in Jobs, Measure(j)
  PROVE  CuIInv'
<1>1. PICK u \in [Ixs -> Units \cup {None}], label \in BOOLEAN :
        /\ job[j].at = "tests"
        /\ job' = [job EXCEPT ![j].at = "send", ![j].units = u, ![j].bypass = label /\ ~job[j].main]
        /\ UNCHANGED <<key, revoking, runs, base, stamps, limits, faults>>
  BY DEF Measure
<1>2. PICK d \in BOOLEAN : d = (label /\ ~job[j].main)
  BY DEF CuIInv, CuTypes, JobRows
<1>3. PICK r : r = [job[j] EXCEPT !.at = "send", !.units = u, !.bypass = d]
  OBVIOUS
<1>4. job[j] \in JobRows /\ job' = [job EXCEPT ![j] = r]
  BY <1>1, <1>2, <1>3 DEF CuIInv, CuTypes
<1>5. /\ r \in JobRows /\ r.at = "send" /\ r.commit = job[j].commit /\ r.main = job[j].main
      /\ r.units = u /\ r.late = job[j].late /\ r.verdict = job[j].verdict
  BY <1>3, <1>4 DEF JobRows, JobSteps
<1>6. j \notin runs /\ job[j].verdict = "none" /\ ~r.late
  BY <1>1, <1>5 DEF CuIInv, JobsInOrder, RevocationIsSeen
<1> HIDE DEF JobRows, JobSteps
<1> QED
  BY <1>1, <1>4, <1>5, <1>6, JobMoves

LEMMA SendRunStep ==
  ASSUME CuIInv, NEW j \in Jobs, SendRun(j)
  PROVE  CuIInv'
<1>1. PICK d \in BOOLEAN : d = (revoking = "answered")
  OBVIOUS
<1>2. PICK r : r = [job[j] EXCEPT !.at = "key", !.late = d]
  OBVIOUS
<1>3. job[j] \in JobRows /\ job' = [job EXCEPT ![j] = r] /\ job[j].at = "send"
      /\ UNCHANGED <<key, revoking, runs, base, stamps, limits, faults>>
  BY <1>1, <1>2 DEF CuIInv, CuTypes, SendRun
<1>4. /\ r \in JobRows /\ r.at = "key" /\ r.commit = job[j].commit /\ r.main = job[j].main
      /\ r.units = job[j].units /\ r.late = d /\ r.verdict = job[j].verdict
  BY <1>2, <1>3 DEF JobRows, JobSteps
<1>5. j \notin runs /\ job[j].verdict = "none"
  BY <1>3 DEF CuIInv, JobsInOrder
<1> HIDE DEF JobRows, JobSteps
<1> QED
  BY <1>1, <1>3, <1>4, <1>5, JobMoves

LEMMA JudgeStep ==
  ASSUME CuIInv, NEW j \in Jobs, Judge(j)
  PROVE  CuIInv'
<1> DEFINE bad == \E i \in Measured(j) : Regressed(i, Baseline(i), job[j].units[i])
<1>v. PICK v : v = IF bad THEN "regressed" ELSE "fine"
  OBVIOUS
<1>s. PICK s : s = IF job[j].main THEN "promote" ELSE "answered"
  OBVIOUS
<1>d. PICK d : d = Promoted(j)
  OBVIOUS
<1>1. /\ v \in {"fine", "regressed"}
      /\ job' = [job EXCEPT ![j].verdict = v, ![j].at = s, ![j].todo = d]
      /\ s = (IF job[j].main THEN "promote" ELSE "answered") /\ d = Promoted(j)
      /\ job[j].at = "judge" /\ UNCHANGED <<key, revoking, runs, base, stamps, limits, faults>>
  <2>1. v \in {"fine", "regressed"}
    BY <1>v
  <2> QED
    BY <1>v, <1>s, <1>d, <2>1 DEF Judge
<1>2. PICK r : r = [job[j] EXCEPT !.verdict = v, !.at = s, !.todo = d]
  OBVIOUS
<1>3. job[j] \in JobRows /\ job' = [job EXCEPT ![j] = r]
  BY <1>1, <1>2 DEF CuIInv, CuTypes
<1>4. d \in SUBSET Ixs /\ (job[j].main => d = {i \in Ixs : job[j].units[i] # None})
  BY <1>1 DEF Promoted, Measured
<1>5. /\ r \in JobRows /\ r.at = s /\ r.commit = job[j].commit /\ r.main = job[j].main
      /\ r.units = job[j].units /\ r.late = job[j].late /\ r.verdict = v /\ r.todo = d
  BY <1>1, <1>2, <1>3, <1>4 DEF JobRows, JobSteps
<1>6. j \in runs /\ ~r.late
  BY <1>1, <1>5 DEF CuIInv, JobsInOrder, RevocationIsSeen
<1>7. CASE job[j].main
  <2>1. s = "promote" /\ d = {i \in Ixs : r.units[i] # None} /\ r.main
    BY <1>1, <1>4, <1>5, <1>7
  <2> HIDE DEF JobRows, JobSteps
  <2> QED
    BY <1>1, <1>3, <1>5, <1>6, <2>1, JobMoves
<1>8. CASE ~job[j].main
  <2>1. s = "answered" /\ ~r.main
    BY <1>1, <1>5, <1>8
  <2> HIDE DEF JobRows, JobSteps
  <2> QED
    BY <1>1, <1>3, <1>5, <1>6, <2>1, JobMoves
<1> QED
  BY <1>7, <1>8

\* The row that a promotion leaves is of this job, and takes no other row away.
LEMMA PromoteStep ==
  ASSUME CuIInv, NEW j \in Jobs, Promote(j)
  PROVE  CuIInv'
<1>1. /\ job[j] \in JobRows /\ job[j].at = "promote" /\ j \in runs /\ ~job[j].late /\ job[j].main
      /\ job[j].todo \subseteq Measured(j) /\ stamps \in Nat
      /\ UNCHANGED <<key, revoking, runs, limits, faults>>
  BY DEF CuIInv, CuTypes, JobsInOrder, RevocationIsSeen, PromotionsProceed, Promote
<1>2. CASE job[j].todo = {}
  BY <1>1, <1>2, JobGoesTo DEF Promote, JobSteps
<1>3. CASE job[j].todo # {}
  <2>1. PICK i, c, row :
          /\ i \in job[j].todo /\ c = job[j].commit /\ row = Row(j, c, i)
          /\ base' = [base EXCEPT ![c][i] = row]
          /\ stamps' \in {stamps, stamps + 1}
          /\ job' = [job EXCEPT ![j].todo = @ \ {i}]
    BY <1>3 DEF Promote
  <2>2. /\ c \in Commits /\ i \in Ixs /\ row.run = j /\ row.units = job[j].units[i]
        /\ row.units # None /\ row \in BaseRows
    <3>1. c \in Commits /\ i \in Ixs /\ job[j].units[i] # None /\ job[j].units[i] \in Units \cup {None}
      BY <1>1, <2>1 DEF JobRows, Measured
    <3>2. base[c][i].at \in Nat
      BY <3>1 DEF CuIInv, CuTypes, BaseRows
    <3>3. row = [units |-> job[j].units[i], run |-> j, at |-> row.at] /\ row.at \in Nat
      BY <1>1, <2>1, <3>2 DEF Row
    <3> QED
      BY <3>1, <3>3 DEF BaseRows
  <2>3. PICK r : r = [job[j] EXCEPT !.todo = job[j].todo \ {i}]
    OBVIOUS
  <2>4. job' = [job EXCEPT ![j] = r] /\ r \in JobRows
    BY <1>1, <2>1, <2>3 DEF CuIInv, CuTypes, JobRows
  <2>5. /\ r.at = "promote" /\ r.commit = c /\ r.main = job[j].main /\ r.units = job[j].units
        /\ r.verdict = job[j].verdict /\ r.late = job[j].late /\ r.todo = job[j].todo \ {i}
    BY <1>1, <2>1, <2>3 DEF JobRows
  <2>6. /\ job' \in [Jobs -> JobRows] /\ job'[j] = r /\ \A k \in Jobs : k # j => job'[k] = job[k]
        /\ base' \in [Commits -> [Ixs -> BaseRows]]
        /\ \A d \in Commits, x \in Ixs :
             base'[d][x] = IF d = c /\ x = i THEN row ELSE base[d][x]
    BY <2>1, <2>2, <2>4 DEF CuIInv, CuTypes
  <2>7. \A d \in Commits, x \in Ixs : base[d][x].units # None => base'[d][x].units # None
    BY <2>2, <2>6
  <2>8. \A k \in Jobs : /\ job'[k].at = job[k].at /\ job'[k].verdict = job[k].verdict
                        /\ job'[k].late = job[k].late /\ job'[k].main = job[k].main
                        /\ job'[k].commit = job[k].commit /\ job'[k].units = job[k].units
                        /\ k # j => job'[k].todo = job[k].todo
                        /\ job[k].commit \in Commits
    BY <1>1, <2>1, <2>5, <2>6 DEF CuIInv, CuTypes, JobRows
  <2>9. CuTypes'
    BY <1>1, <2>1, <2>6 DEF CuIInv, CuTypes
  <2>10. JobsInOrder' /\ RevocationIsSeen'
    BY <1>1, <2>8 DEF CuIInv, JobsInOrder, RevocationIsSeen
  <2>11. \A k \in Jobs : Measured(k)' = Measured(k)
    BY <2>8 DEF Measured
  <2>12. PromotionsProceed'
    <3> SUFFICES ASSUME NEW k \in Jobs, job[k].at = "promote"
                 PROVE  /\ job'[k].todo \subseteq Measured(k)
                        /\ \A x \in Measured(k) \ job'[k].todo : base'[job[k].commit][x].units # None
      BY <2>8, <2>11 DEF PromotionsProceed
    <3>1. /\ job[k].todo \subseteq Measured(k) /\ Measured(k) \subseteq Ixs
          /\ \A x \in Measured(k) \ job[k].todo : base[job[k].commit][x].units # None
      BY DEF CuIInv, PromotionsProceed, Measured
    <3>2. CASE k # j
      BY <2>7, <2>8, <3>1, <3>2
    <3>3. CASE k = j
      <4>1. job'[j].todo = job[j].todo \ {i} /\ job[j].commit = c
        BY <2>1, <2>5, <2>6
      <4>2. base'[c][i].units # None
        BY <2>2, <2>6
      <4> QED
        BY <2>2, <2>7, <3>1, <3>3, <4>1, <4>2
    <3> QED
      BY <3>2, <3>3
  <2>13. BaselineIsItsRuns'
    <3> SUFFICES ASSUME NEW d \in Commits, NEW x \in Ixs, base'[d][x].units # None
                 PROVE  LET k == base'[d][x].run
                        IN k \in runs /\ job'[k].main /\ job'[k].commit = d
                           /\ job'[k].units[x] = base'[d][x].units
      BY <1>1 DEF BaselineIsItsRuns
    <3>1. CASE d = c /\ x = i
      BY <1>1, <2>1, <2>2, <2>5, <2>6, <3>1
    <3>2. CASE ~(d = c /\ x = i)
      <4>1. PICK k : k = base[d][x].run
        OBVIOUS
      <4>2. base'[d][x] = base[d][x]
        BY <2>6, <3>2
      <4>3. k \in runs /\ job[k].main /\ job[k].commit = d /\ job[k].units[x] = base[d][x].units
        BY <4>1, <4>2 DEF CuIInv, BaselineIsItsRuns
      <4>4. k \in Jobs
        BY <4>3 DEF CuIInv, CuTypes
      <4> QED
        BY <2>8, <4>1, <4>2, <4>3, <4>4
    <3> QED
      BY <3>1, <3>2
  <2>14. AnsweredIsPromoted'
    <3> SUFFICES ASSUME NEW k \in Jobs, job[k].verdict # "none", job[k].main,
                        job[k].at \in {"answered", "passed"}, NEW x \in Measured(k)
                 PROVE  base'[job[k].commit][x].units # None
      BY <2>8, <2>11 DEF AnsweredIsPromoted
    <3>1. x \in Ixs /\ base[job[k].commit][x].units # None
      BY DEF CuIInv, AnsweredIsPromoted, Measured
    <3> QED
      BY <2>7, <2>8, <3>1
  <2> QED
    BY <2>9, <2>10, <2>12, <2>13, <2>14 DEF CuIInv
<1> QED
  BY <1>2, <1>3

\* What the key page and the pages of the program do.
LEMMA KeyStep ==
  ASSUME CuIInv, UNCHANGED <<job, runs, base, stamps>>,
         \/ key = "unissued" /\ UNCHANGED revoking
         \/ revoking = "no" /\ key' = "revoked" /\ revoking' = "sent"
         \/ revoking = "sent" /\ revoking' = "answered" /\ UNCHANGED key
         \/ UNCHANGED <<key, revoking>>
  PROVE  CuIInv'
<1>1. CuTypes' /\ JobsInOrder' /\ PromotionsProceed' /\ BaselineIsItsRuns' /\ AnsweredIsPromoted'
  BY DEF CuIInv, CuTypes, JobsInOrder, PromotionsProceed, BaselineIsItsRuns, AnsweredIsPromoted, Measured
<1>2. RevocationIsSeen'
  BY DEF CuIInv, RevocationIsSeen
<1> QED
  BY <1>1, <1>2 DEF CuIInv

LEMMA CuStep == CuIInv /\ [CuNext]_cuVars => CuIInv'
<1> SUFFICES ASSUME CuIInv, [CuNext]_cuVars PROVE CuIInv'
  OBVIOUS
<1>1. CASE CreateKey \/ RevokeKey \/ KeyRevoked \/ SaveThresholds \/ UNCHANGED cuVars
  BY <1>1, KeyStep DEF CreateKey, RevokeKey, KeyRevoked, SaveThresholds, cuVars
<1>2. ASSUME NEW j \in Jobs, JobStep(j) \/ RunFails(j) PROVE CuIInv'
  <2>1. job[j] \in JobRows
    BY DEF CuIInv, CuTypes
  <2>2. CASE LookUpKey(j)
    <3>1. job[j].at = "key" /\ j \notin runs /\ job[j].verdict = "none" /\ (job[j].late => key = "revoked")
      BY <2>2 DEF LookUpKey, CuIInv, JobsInOrder, RevocationIsSeen
    <3> QED
      BY <2>2, <3>1, JobGoesTo DEF LookUpKey, KeyIsLive, JobSteps
  <2>3. CASE CompareSecret(j)
    <3>1. job[j].at = "compare" /\ j \notin runs /\ job[j].verdict = "none" /\ ~job[j].late
      BY <2>3 DEF CompareSecret, CuIInv, JobsInOrder, RevocationIsSeen
    <3> QED
      BY <2>3, <3>1, JobGoesTo DEF CompareSecret, JobSteps
  <2>4. CASE RecordRun(j)
    <3>1. job[j].at = "record" /\ job[j].verdict = "none" /\ ~job[j].late
      BY <2>4 DEF RecordRun, CuIInv, JobsInOrder, RevocationIsSeen
    <3> QED
      BY <2>4, <3>1, JobGoesTo DEF RecordRun, JobSteps
  <2>5. CASE Conclude(j)
    <3>1. job[j].at = "answered" /\ j \in runs /\ ~job[j].late
      BY <2>5 DEF Conclude, CuIInv, JobsInOrder, RevocationIsSeen
    <3> QED
      BY <2>5, <3>1, JobGoesTo DEF Conclude, JobSteps
  <2>6. CASE RunFails(j)
    BY <2>6, JobGoesTo DEF RunFails, JobSteps
  <2> QED
    BY <1>2, <2>2, <2>3, <2>4, <2>5, <2>6, MeasureStep, SendRunStep, JudgeStep, PromoteStep
       DEF JobStep
<1> QED
  BY <1>1, <1>2 DEF CuNext

\* A key whose revocation was answered records nothing sent later, each row of the
\* baselines holds what its run measured on the default branch, and who is told the
\* outcome there has moved the baseline (apps/backend/src/routes/integrations.ts).
THEOREM CuInvariant == CuSpec => []CuInv
<1>1. CuIInv => CuInv
  <2> SUFFICES ASSUME CuIInv PROVE CuInv
    OBVIOUS
  <2>1. CuTypeOK
    BY DEF CuIInv, CuTypes, CuTypeOK, BaseRows
  <2>2. RevokedKeyRecordsNothing
    BY DEF CuIInv, CuTypes, RevocationIsSeen, RevokedKeyRecordsNothing
  <2> QED
    BY <2>1, <2>2 DEF CuIInv, CuInv
<1> QED
  BY <1>1, CuStarts, CuStep, PTL DEF CuSpec

-----------------------------------------------------------------------------
(* ControlPlane. *)

Calls == [op : Steering \cup Adding \cup {"status", "none"}, at : Steps \cup Replies \cup {"idle"},
          read : Nat, flag : BOOLEAN, for : Steering \cup {"none"}]
TabPages == [busy : BOOLEAN, running : BOOLEAN, threw : BOOLEAN]

StoresOK ==
  /\ db = [by |-> db.by, config |-> db.config, tracked |-> db.tracked,
           upserts |-> db.upserts, audits |-> db.audits]
  /\ Versions = 1 .. Cardinality(Versions) /\ Cardinality(Versions) \in 0 .. MaxVersion
  /\ db.by \in [Versions -> Tabs] /\ db.config \in Configs
  /\ db.upserts \in [Steering -> Nat] /\ db.audits \in [Steering -> Nat]
  /\ sent = [applied |-> sent.applied, control |-> sent.control]
  /\ sent.applied \in [1 .. MaxVersion -> Nat] /\ sent.control \in [Steering -> Nat]

TabsOK == call \in [Tabs -> Calls] /\ page \in [Tabs -> TabPages]

\* The version a handler writes the ClickHouse row of.
Mine(c) == IF c.op = "register" THEN 1 ELSE c.read + 1

Unwritten(c) == c.at = "chrow" \/ (c.op = "register" /\ c.at = "publish")

\* A handler reaches a statement only by those before it: past its transaction the
\* version is there and is its own, and has no row in ClickHouse before the handler
\* has tried to write it.
HandlerOK(t, c) ==
  /\ c.op # "status" => c.for = "none"
  /\ c.at = "publish" => c.op \in Steering \cup {"register"}
  /\ c.at = "chrow" => c.op \in {"register", "upload"}
  /\ c.at = "audit" => c.op \in Steering \cup {"track"}
  /\ c.op = "upload" /\ c.at = "commit" => c.read <= Cardinality(Versions) /\ c.read < MaxVersion
  /\ c.op = "upload" /\ c.at \in {"chrow", "ok"} => c.read + 1 \in Versions /\ db.by[c.read + 1] = t
  /\ c.op = "register" /\ c.at \in {"publish", "chrow", "ok"} => 1 \in Versions /\ db.by[1] = t
  /\ c.op = "register" /\ c.at = "conflict" => 1 \in Versions
  /\ Unwritten(c) => sent.applied[Mine(c)] = 0
HandlersOK == \A t \in Tabs : HandlerOK(t, call[t])

\* Handlers that have written the row and are about to send the message, and those
\* that have sent it and are about to write the audit row.
Sending(o) == {t \in Tabs : call[t].at = "publish" /\ Control(call[t].op) = o}
Auditing(o) == {t \in Tabs : call[t].at = "audit" /\ call[t].op = o}
One(b) == IF b THEN 1 ELSE 0

Due(c, o) == IF c.at = "publish" /\ Control(c.op) = o THEN 1 ELSE 0
DueAudit(c, o) == IF c.at = "audit" /\ c.op = o THEN 1 ELSE 0

\* What allows messages: upserts of the row, and for a start the registration.
Paying == {"start", "stop"}
RowsFor(o) == db.upserts[o] + (IF o = "start" THEN One(Registered) ELSE 0)

\* Rows pay for messages and messages for audit rows, those under way included.
ControlIsPaid ==
  /\ \A o \in Steering : IsFiniteSet(Sending(o)) /\ IsFiniteSet(Auditing(o))
  /\ \A o \in Paying : sent.control[o] + Cardinality(Sending(o)) <= RowsFor(o)
  /\ \A o \in Steering : db.audits[o] + Cardinality(Auditing(o)) <= sent.control[o]

CPIInv ==
  /\ StoresOK /\ TabsOK /\ HandlersOK /\ AppliedVersionsAreCommitted
  /\ ControlIsPaid /\ BusyIsWorkOrAThrow

LEMMA CPStarts == CPInit => CPIInv
<1> SUFFICES ASSUME CPInit PROVE CPIInv
  OBVIOUS
<1>1. Versions = {} /\ Cardinality(Versions) = 0
  BY FS_EmptySet DEF CPInit, Versions
<1>2. NoCall \in Calls /\ TabsOK
  BY DEF CPInit, TabsOK, Calls, TabPages, NoCall
<1>3. StoresOK
  <2>1. 0 \in 0 .. MaxVersion /\ 1 .. 0 = {}
    BY ControlPlaneAssumption
  <2> QED
    BY <1>1, <2>1 DEF CPInit, StoresOK, Configs, Versions
<1>4. HandlersOK
  BY DEF CPInit, HandlersOK, HandlerOK, NoCall, Unwritten
<1>5. AppliedVersionsAreCommitted
  BY <1>1 DEF CPInit, AppliedVersionsAreCommitted
<1>6. ControlIsPaid
  <2>1. \A o \in Steering : Sending(o) = {} /\ Auditing(o) = {}
    BY DEF CPInit, Sending, Auditing, NoCall
  <2>2. \A o \in Steering : sent.control[o] = 0 /\ db.audits[o] = 0 /\ db.upserts[o] = 0
    BY DEF CPInit
  <2>3. Paying \subseteq Steering /\ One(Registered) \in Nat
    BY DEF Steering, Paying, One
  <2>6. \A o \in Paying : RowsFor(o) \in Nat
    BY <2>2, <2>3 DEF RowsFor
  <2>4. IsFiniteSet({}) /\ Cardinality({}) = 0
    BY FS_EmptySet
  <2>5. \A o \in Steering : /\ IsFiniteSet(Sending(o)) /\ IsFiniteSet(Auditing(o))
                            /\ Cardinality(Sending(o)) = 0 /\ Cardinality(Auditing(o)) = 0
    BY <2>1, <2>4
  <2> QED
    BY <2>2, <2>3, <2>5, <2>6 DEF ControlIsPaid
<1>7. BusyIsWorkOrAThrow
  BY DEF CPInit, BusyIsWorkOrAThrow
<1> QED
  BY <1>2, <1>3, <1>4, <1>5, <1>6, <1>7 DEF CPIInv

LEMMA RowsAreCounted == StoresOK => \A o \in Paying : o \in Steering /\ RowsFor(o) \in Nat
BY DEF StoresOK, Steering, Paying, RowsFor, One

\* Counting a set that one element enters or leaves.
LEMMA CountOfOne ==
  ASSUME NEW S, NEW T, NEW t, IsFiniteSet(S), T \ {t} = S \ {t}
  PROVE  /\ IsFiniteSet(T) /\ Cardinality(S) \in Nat /\ Cardinality(T) \in Nat
         /\ Cardinality(T) = Cardinality(S) - One(t \in S) + One(t \in T)
<1>1. IsFiniteSet(S \ {t}) /\ Cardinality(S \ {t}) = Cardinality(S) - One(t \in S)
  BY FS_RemoveElement, FS_CardinalityType DEF One
<1>2. Cardinality(S) \in Nat /\ Cardinality(S \ {t}) \in Nat
  BY <1>1, FS_CardinalityType
<1>3. IsFiniteSet((S \ {t}) \cup {t}) /\ Cardinality((S \ {t}) \cup {t}) = Cardinality(S \ {t}) + 1
  BY <1>1, FS_AddElement
<1>4. IsFiniteSet(T) /\ Cardinality(T) = Cardinality(S \ {t}) + One(t \in T)
  <2>1. CASE t \in T
    <3>1. T = (S \ {t}) \cup {t}
      BY <2>1
    <3> QED
      BY <1>3, <2>1, <3>1 DEF One
  <2>2. CASE t \notin T
    <3>1. T = S \ {t}
      BY <2>2
    <3> QED
      BY <1>1, <1>2, <2>2, <3>1 DEF One
  <2> QED
    BY <2>1, <2>2
<1> QED
  BY <1>1, <1>2, <1>4 DEF One

\* A handler moves: the other handlers' promises hold as long as versions only come
\* and ClickHouse rows are written by their uploaders.
LEMMA HandlerMoves ==
  ASSUME CPIInv, NEW t \in Tabs, NEW c \in Calls, call' = [call EXCEPT ![t] = c], StoresOK',
         HandlerOK(t, c)', Versions \subseteq Versions', \A v \in Versions : db'.by[v] = db.by[v],
         Cardinality(Versions) <= Cardinality(Versions'),
         \A v \in 1 .. MaxVersion :
           sent'.applied[v] = sent.applied[v] \/ (v \in Versions /\ db.by[v] = t)
  PROVE  HandlersOK'
<1> SUFFICES ASSUME NEW u \in Tabs PROVE HandlerOK(u, call[u])'
  BY DEF HandlersOK
<1>1. CASE u = t
  <2>1. call'[t] = c
    BY DEF CPIInv, TabsOK
  <2> QED
    BY <1>1, <2>1 DEF HandlerOK, Mine, Unwritten
<1>2. CASE u # t
  <2>1. call'[u] = call[u] /\ call[u] \in Calls /\ HandlerOK(u, call[u])
    BY <1>2 DEF CPIInv, TabsOK, HandlersOK
  <2>2. call[u].read \in Nat /\ Cardinality(Versions) \in Nat /\ Cardinality(Versions') \in Nat
    BY <2>1 DEF CPIInv, StoresOK, Calls
  <2>3. Unwritten(call[u]) =>
          Mine(call[u]) \in Versions /\ db.by[Mine(call[u])] = u /\ Mine(call[u]) \in 1 .. MaxVersion
    <3>1. Versions \subseteq 1 .. MaxVersion
      BY ControlPlaneAssumption DEF CPIInv, StoresOK
    <3>2. Unwritten(call[u]) => Mine(call[u]) \in Versions /\ db.by[Mine(call[u])] = u
      BY <2>1 DEF HandlerOK, Mine, Unwritten
    <3> QED
      BY <3>1, <3>2
  <2>4. Unwritten(call[u]) => sent'.applied[Mine(call[u])] = 0
    BY <1>2, <2>1, <2>3 DEF HandlerOK
  <2>5. call[u].op = "upload" /\ call[u].at = "commit" => call[u].read <= Cardinality(Versions')
    BY <2>1, <2>2 DEF HandlerOK
  <2>6. PICK d : d = call[u]
    OBVIOUS
  <2>7. HandlerOK(u, d)'
    BY <2>1, <2>4, <2>5, <2>6 DEF HandlerOK, Mine, Unwritten
  <2> QED
    BY <2>1, <2>6, <2>7 DEF HandlerOK, Mine, Unwritten
<1> QED
  BY <1>1, <1>2

\* ... and the counts of those who are sending and auditing change by this one.
LEMMA CountsMove ==
  ASSUME CPIInv, NEW t \in Tabs, NEW c \in Calls, call' = [call EXCEPT ![t] = c], NEW o \in Steering
  PROVE  /\ IsFiniteSet(Sending(o)') /\ IsFiniteSet(Auditing(o)')
         /\ {Cardinality(Sending(o)), Cardinality(Auditing(o)),
             Cardinality(Sending(o)'), Cardinality(Auditing(o)')} \subseteq Nat
         /\ Cardinality(Sending(o)') =
              Cardinality(Sending(o)) - Due(call[t], o)
                + Due(c, o)
         /\ Cardinality(Auditing(o)') =
              Cardinality(Auditing(o)) - DueAudit(call[t], o)
                + DueAudit(c, o)
<1>1. call'[t] = c /\ \A u \in Tabs : u # t => call'[u] = call[u]
  BY DEF CPIInv, TabsOK
<1>2. IsFiniteSet(Sending(o)) /\ IsFiniteSet(Auditing(o))
  BY DEF CPIInv, ControlIsPaid
<1>3. /\ Sending(o)' \ {t} = Sending(o) \ {t}
      /\ t \in Sending(o) <=> call[t].at = "publish" /\ Control(call[t].op) = o
      /\ t \in Sending(o)' <=> c.at = "publish" /\ Control(c.op) = o
  BY <1>1 DEF Sending, Control
<1>4. /\ Auditing(o)' \ {t} = Auditing(o) \ {t}
      /\ t \in Auditing(o) <=> call[t].at = "audit" /\ call[t].op = o
      /\ t \in Auditing(o)' <=> c.at = "audit" /\ c.op = o
  BY <1>1 DEF Auditing
<1>6. /\ IsFiniteSet(Sending(o)') /\ Cardinality(Sending(o)) \in Nat /\ Cardinality(Sending(o)') \in Nat
      /\ Cardinality(Sending(o)') = Cardinality(Sending(o)) - One(t \in Sending(o)) + One(t \in Sending(o)')
  BY <1>2, <1>3, CountOfOne
<1>7. /\ IsFiniteSet(Auditing(o)') /\ Cardinality(Auditing(o)) \in Nat /\ Cardinality(Auditing(o)') \in Nat
      /\ Cardinality(Auditing(o)') = Cardinality(Auditing(o)) - One(t \in Auditing(o)) + One(t \in Auditing(o)')
  BY <1>2, <1>4, CountOfOne
<1>8. One(t \in Sending(o)) = Due(call[t], o) /\ One(t \in Sending(o)') = Due(c, o)
  BY <1>3 DEF One, Due
<1>9. One(t \in Auditing(o)) = DueAudit(call[t], o) /\ One(t \in Auditing(o)') = DueAudit(c, o)
  BY <1>4 DEF One, DueAudit
<1> QED
  BY <1>6, <1>7, <1>8, <1>9

\* A step of a tab or a handler that writes to no store, and after which neither a
\* message that a row pays for nor an audit row is due.
LEMMA QuietMove ==
  ASSUME CPIInv, NEW t \in Tabs, NEW c \in Calls, NEW g \in TabPages,
         call' = [call EXCEPT ![t] = c], page' = [page EXCEPT ![t] = g], UNCHANGED <<db, sent>>,
         HandlerOK(t, c), c.at = "publish" => Control(c.op) = "backfill", c.at # "audit",
         g.busy => g.threw \/ c.for # "none" \/ c.op \in Steering \cup {"track"}
  PROVE  CPIInv'
<1>1. StoresOK' /\ AppliedVersionsAreCommitted' /\ Registered' = Registered
  BY DEF CPIInv, StoresOK, AppliedVersionsAreCommitted, Versions, Registered
<1>2. TabsOK'
  BY DEF CPIInv, TabsOK
<1>3. HandlersOK'
  <2>1. HandlerOK(t, c)' /\ Versions' = Versions
    BY DEF HandlerOK, Versions, Mine, Unwritten
  <2>2. Cardinality(Versions) \in Nat /\ Cardinality(Versions') = Cardinality(Versions)
    BY <2>1 DEF CPIInv, StoresOK
  <2>3. /\ Versions \subseteq Versions' /\ \A v \in Versions : db'.by[v] = db.by[v]
        /\ \A v \in 1 .. MaxVersion : sent'.applied[v] = sent.applied[v]
        /\ Cardinality(Versions) <= Cardinality(Versions')
    BY <2>1, <2>2
  <2> QED
    BY <1>1, <2>1, <2>3, HandlerMoves
<1>4. ControlIsPaid'
  <2>1. \A o \in Steering :
          /\ IsFiniteSet(Sending(o)') /\ IsFiniteSet(Auditing(o)')
          /\ {Cardinality(Sending(o)), Cardinality(Auditing(o)),
              Cardinality(Sending(o)'), Cardinality(Auditing(o)')} \subseteq Nat
          /\ o # "backfill" => Cardinality(Sending(o)') <= Cardinality(Sending(o))
          /\ Cardinality(Auditing(o)') <= Cardinality(Auditing(o))
    <3> TAKE o \in Steering
    <3>1. (o # "backfill" => Due(c, o) = 0) /\ DueAudit(c, o) = 0
      BY DEF Due, DueAudit
    <3>2. Due(c, o) \in Nat /\ DueAudit(call[t], o) \in Nat /\ Due(call[t], o) \in Nat
      BY DEF Due, DueAudit
    <3>3. /\ IsFiniteSet(Sending(o)') /\ IsFiniteSet(Auditing(o)')
          /\ {Cardinality(Sending(o)), Cardinality(Auditing(o)),
              Cardinality(Sending(o)'), Cardinality(Auditing(o)')} \subseteq Nat
          /\ Cardinality(Sending(o)') =
               Cardinality(Sending(o)) - Due(call[t], o)
                 + Due(c, o)
          /\ Cardinality(Auditing(o)') =
               Cardinality(Auditing(o)) - DueAudit(call[t], o)
                 + DueAudit(c, o)
      BY CountsMove
    <3> QED
      BY <3>1, <3>2, <3>3
  <2>2. /\ \A o \in Steering : db.audits[o] \in Nat /\ sent.control[o] \in Nat
        /\ \A o \in Paying : o \in Steering /\ o # "backfill" /\ RowsFor(o) \in Nat /\ RowsFor(o)' = RowsFor(o)
    BY <1>1 DEF CPIInv, StoresOK, One, Steering, Paying, RowsFor
  <2>3. /\ \A o \in Paying : sent.control[o] + Cardinality(Sending(o)) <= RowsFor(o)
        /\ \A o \in Steering : db.audits[o] + Cardinality(Auditing(o)) <= sent.control[o]
    BY DEF CPIInv, ControlIsPaid
  <2>4. \A o \in Paying : sent.control[o] + Cardinality(Sending(o)') <= RowsFor(o)
    BY <2>1, <2>2, <2>3
  <2>6. \A o \in Steering : db.audits[o] + Cardinality(Auditing(o)') <= sent.control[o]
    BY <2>1, <2>2, <2>3
  <2> QED
    BY <1>1, <2>1, <2>2, <2>4, <2>6 DEF ControlIsPaid
<1>5. BusyIsWorkOrAThrow'
  BY DEF CPIInv, BusyIsWorkOrAThrow, TabsOK
<1> QED
  BY <1>1, <1>2, <1>3, <1>4, <1>5 DEF CPIInv

\* A statement that writes: the stores are given with it.
LEMMA WritingMove ==
  ASSUME CPIInv, NEW t \in Tabs, NEW c \in Calls, call' = [call EXCEPT ![t] = c], UNCHANGED page,
         c.op = call[t].op, c.for = call[t].for, StoresOK', HandlerOK(t, c)',
         Versions \subseteq Versions', \A v \in Versions : db'.by[v] = db.by[v],
         Cardinality(Versions) <= Cardinality(Versions'),
         \A v \in 1 .. MaxVersion :
           sent'.applied[v] = sent.applied[v] \/ (v \in Versions /\ db.by[v] = t /\ sent'.applied[v] = 1),
         \A o \in Paying :
           sent'.control[o] + Due(c, o) + RowsFor(o)
             <= sent.control[o] + Due(call[t], o) + RowsFor(o)',
         \A o \in Steering :
           db'.audits[o] + DueAudit(c, o) + sent.control[o]
             <= db.audits[o] + DueAudit(call[t], o) + sent'.control[o]
  PROVE  CPIInv'
<1>1. TabsOK'
  BY DEF CPIInv, TabsOK
<1>2. HandlersOK'
  BY HandlerMoves
<1>3. AppliedVersionsAreCommitted'
  <2> SUFFICES ASSUME NEW v \in 1 .. MaxVersion
               PROVE  sent'.applied[v] <= (IF v \in Versions' THEN 1 ELSE 0)
    BY DEF AppliedVersionsAreCommitted
  <2>1. sent.applied[v] \in Nat /\ sent.applied[v] <= (IF v \in Versions THEN 1 ELSE 0)
    BY DEF CPIInv, AppliedVersionsAreCommitted, StoresOK
  <2> QED
    BY <2>1
<1>4. BusyIsWorkOrAThrow'
  BY DEF CPIInv, BusyIsWorkOrAThrow, TabsOK
<1>5. ControlIsPaid'
  <2>1. \A o \in Steering :
          /\ IsFiniteSet(Sending(o)') /\ IsFiniteSet(Auditing(o)')
          /\ {Cardinality(Sending(o)), Cardinality(Auditing(o)),
              Cardinality(Sending(o)'), Cardinality(Auditing(o)')} \subseteq Nat
          /\ Cardinality(Sending(o)') =
               Cardinality(Sending(o)) - Due(call[t], o)
                 + Due(c, o)
          /\ Cardinality(Auditing(o)') =
               Cardinality(Auditing(o)) - DueAudit(call[t], o)
                 + DueAudit(c, o)
    BY CountsMove
  <2>2. /\ \A o \in Steering : /\ db.audits[o] \in Nat /\ sent.control[o] \in Nat
                               /\ db'.audits[o] \in Nat /\ sent'.control[o] \in Nat
        /\ \A o \in Paying : o \in Steering /\ RowsFor(o) \in Nat /\ RowsFor(o)' \in Nat
        /\ \A b, o : Due(b, o) \in Nat /\ DueAudit(b, o) \in Nat
    <3>1. (\A o \in Paying : o \in Steering /\ RowsFor(o) \in Nat)'
      BY RowsAreCounted, PTL
    <3> QED
      BY <3>1, RowsAreCounted DEF CPIInv, StoresOK, Due, DueAudit
  <2>3. /\ \A o \in Paying : sent.control[o] + Cardinality(Sending(o)) <= RowsFor(o)
        /\ \A o \in Steering : db.audits[o] + Cardinality(Auditing(o)) <= sent.control[o]
    BY DEF CPIInv, ControlIsPaid
  <2>4. \A o \in Paying : sent'.control[o] + Cardinality(Sending(o)') <= RowsFor(o)'
    <3> TAKE o \in Paying
    <3> DEFINE x == Due(c, o)
               y == Due(call[t], o)
    <3>1. /\ sent'.control[o] + x + RowsFor(o) <= sent.control[o] + y + RowsFor(o)'
          /\ Cardinality(Sending(o)') = Cardinality(Sending(o)) - y + x
          /\ sent.control[o] + Cardinality(Sending(o)) <= RowsFor(o)
          /\ {Cardinality(Sending(o)), Cardinality(Sending(o)'), x, y, RowsFor(o), RowsFor(o)',
              sent.control[o], sent'.control[o]} \subseteq Nat
      BY <2>1, <2>2, <2>3
    <3> HIDE DEF x, y
    <3> QED
      BY <3>1
  <2>6. \A o \in Steering : db'.audits[o] + Cardinality(Auditing(o)') <= sent'.control[o]
    <3> TAKE o \in Steering
    <3> DEFINE x == DueAudit(c, o)
               y == DueAudit(call[t], o)
    <3>1. /\ db'.audits[o] + x + sent.control[o] <= db.audits[o] + y + sent'.control[o]
          /\ Cardinality(Auditing(o)') = Cardinality(Auditing(o)) - y + x
          /\ db.audits[o] + Cardinality(Auditing(o)) <= sent.control[o]
          /\ {Cardinality(Auditing(o)), Cardinality(Auditing(o)'), x, y, db.audits[o],
              db'.audits[o], sent.control[o], sent'.control[o]} \subseteq Nat
      BY <2>1, <2>2, <2>3
    <3> HIDE DEF x, y
    <3> QED
      BY <3>1
  <2> QED
    BY <2>1, <2>4, <2>6 DEF ControlIsPaid
<1> QED
  BY <1>1, <1>2, <1>3, <1>4, <1>5 DEF CPIInv

\* The steps of a tab: its buttons, its interval, and what it does with an answer.
LEMMA TabStep ==
  ASSUME CPIInv, NEW t \in Tabs, User(t) \/ Poll(t) \/ Continue(t)
  PROVE  CPIInv'
<1>1. /\ call[t] \in Calls /\ page[t] \in TabPages /\ HandlerOK(t, call[t])
      /\ page[t].busy => page[t].threw \/ call[t].for # "none" \/ call[t].op \in Steering \cup {"track"}
  BY DEF CPIInv, TabsOK, HandlersOK, BusyIsWorkOrAThrow
<1>2. NoCall \in Calls /\ \A f \in Steering \cup {"none"} : Load(f) \in Calls
  BY DEF NoCall, Load, Calls, Steps
<1>3. HandlerOK(t, NoCall) /\ NoCall.at = "idle" /\ NoCall.for = "none" /\ NoCall.op = "none"
  BY DEF HandlerOK, NoCall, Unwritten
<1>4. page = [page EXCEPT ![t] = page[t]]
  BY DEF CPIInv, TabsOK
<1>5. ASSUME NEW o \in Steering \cup Adding, NEW auto \in BOOLEAN, Send(t, o, auto),
             \/ UNCHANGED page
             \/ o \in Steering \cup {"track"} /\ page' = [page EXCEPT ![t].busy = TRUE]
      PROVE  CPIInv'
  <2>1. PICK c : c = [NoCall EXCEPT !.op = o, !.at = "gate", !.flag = auto]
    OBVIOUS
  <2>2. c \in Calls /\ c.op = o /\ c.at = "gate" /\ c.for = "none" /\ HandlerOK(t, c)
    BY <2>1 DEF NoCall, Calls, Steps, HandlerOK, Unwritten
  <2>3. call' = [call EXCEPT ![t] = c] /\ call[t] = NoCall /\ UNCHANGED <<db, sent>>
    BY <1>5, <2>1 DEF Send
  <2>4. [page[t] EXCEPT !.busy = TRUE] \in TabPages
    BY <1>1 DEF TabPages
  <2>5. PICK g \in TabPages : /\ page' = [page EXCEPT ![t] = g]
                              /\ g.busy => g.threw \/ o \in Steering \cup {"track"}
    <3>1. CASE UNCHANGED page
      <4>1. page[t].busy => page[t].threw
        BY <1>1, <1>3, <2>3 DEF Steering
      <4> QED
        BY <1>1, <1>4, <3>1, <4>1
    <3>2. CASE o \in Steering \cup {"track"} /\ page' = [page EXCEPT ![t].busy = TRUE]
      BY <2>4, <3>2
    <3> QED
      BY <1>5, <3>1, <3>2
  <2>6. c.at # "publish" /\ c.at # "audit"
    BY <2>2
  <2>7. g.busy => g.threw \/ c.for # "none" \/ c.op \in Steering \cup {"track"}
    BY <2>2, <2>5
  <2>8. page' = [page EXCEPT ![t] = g] /\ call' = [call EXCEPT ![t] = c] /\ UNCHANGED <<db, sent>>
    BY <2>3, <2>5
  <2>9. c \in Calls /\ HandlerOK(t, c)
    BY <2>2
  <2> QED
    BY <2>6, <2>7, <2>8, <2>9, QuietMove
<1>6. CASE User(t)
  <2>1. Steering \subseteq Steering \cup Adding /\ Adding \subseteq Steering \cup Adding
        /\ "start" \in Steering /\ "stop" \in Steering /\ "backfill" \in Steering
        /\ {"register", "upload", "track"} = Adding
    BY DEF Steering, Adding
  <2> QED
    BY <1>5, <1>6, <2>1
       DEF User, ClickStart, ClickStop, ClickBackfill, AddAccount, Click, SubmitProgram, SubmitIdl
<1>7. CASE Poll(t)
  <2>1. HandlerOK(t, Load("none")) /\ Load("none").at = "gate"
    BY DEF HandlerOK, Load, NoCall, Unwritten
  <2>2. page[t].busy => page[t].threw
    BY <1>1, <1>3, <1>7 DEF Poll, Steering
  <2> QED
    BY <1>1, <1>2, <1>4, <1>7, <2>1, <2>2, QuietMove DEF Poll
<1>8. CASE Throws(t)
  <2>1. PICK d \in BOOLEAN : d = (page[t].threw \/ call[t].for # "none" \/ call[t].op \in Steering \cup {"track"})
    OBVIOUS
  <2>2. PICK g : g = [page[t] EXCEPT !.threw = d]
    OBVIOUS
  <2>3. g \in TabPages /\ g.busy = page[t].busy /\ g.threw = d
    BY <1>1, <2>2 DEF TabPages
  <2>4. page' = [page EXCEPT ![t] = g]
    BY <1>8, <2>1, <2>2 DEF Throws
  <2> QED
    BY <1>1, <1>2, <1>3, <1>8, <2>1, <2>3, <2>4, QuietMove DEF Throws
<1>9. CASE ThenLoad(t)
  <2>1. PICK f \in Steering : f = call[t].op
    BY <1>9 DEF ThenLoad, Answered
  <2>2. HandlerOK(t, Load(f)) /\ Load(f).at = "gate" /\ Load(f).for = f /\ f # "none"
    BY DEF HandlerOK, Load, NoCall, Steering, Unwritten
  <2> QED
    BY <1>1, <1>2, <1>4, <1>9, <2>1, <2>2, QuietMove DEF ThenLoad
<1>10. CASE AccountAdded(t)
  <2>1. PICK g : g = [page[t] EXCEPT !.busy = FALSE]
    OBVIOUS
  <2>2. g \in TabPages /\ ~g.busy
    BY <1>1, <2>1 DEF TabPages
  <2>3. HandlerOK(t, Load("none")) /\ Load("none").at = "gate"
    BY DEF HandlerOK, Load, NoCall, Unwritten
  <2>4. PICK c \in Calls : /\ call' = [call EXCEPT ![t] = c] /\ HandlerOK(t, c)
                           /\ c.at \in {"gate", "idle"}
    BY <1>2, <1>3, <1>10, <2>3 DEF AccountAdded
  <2> QED
    BY <1>10, <2>1, <2>2, <2>4, QuietMove DEF AccountAdded
<1>11. CASE Loaded(t)
  <2>1. PICK r \in BOOLEAN : r = (call[t].at = "ok" /\ call[t].flag)
    BY <1>1 DEF Calls
  <2>2. PICK d \in BOOLEAN : d = (page[t].busy /\ call[t].for = "none")
    BY <1>1 DEF TabPages
  <2>3. PICK g : g = [page[t] EXCEPT !.running = r, !.busy = d]
    OBVIOUS
  <2>4. g \in TabPages /\ g.busy = d /\ g.threw = page[t].threw
    BY <1>1, <2>3 DEF TabPages
  <2>5. page' = [page EXCEPT ![t] = g]
    BY <1>11, <2>1, <2>2, <2>3 DEF Loaded
  <2>6. d => page[t].threw
    BY <1>1, <1>11, <2>2 DEF Loaded, Answered, Steering
  <2> QED
    BY <1>2, <1>3, <1>11, <2>4, <2>5, <2>6, QuietMove DEF Loaded
<1>12. CASE Told(t)
  <2>1. call[t].op \notin Steering \cup {"track"} /\ call[t].for = "none"
    BY <1>1, <1>12 DEF Told, Answered, Steering, HandlerOK, Unwritten
  <2> QED
    BY <1>1, <1>2, <1>3, <1>4, <1>12, <2>1, QuietMove DEF Told
<1> QED
  BY <1>6, <1>7, <1>8, <1>9, <1>10, <1>11, <1>12 DEF Continue

\* The statements that write nothing, and those that fail before they have.
LEMMA ReadingStep ==
  ASSUME CPIInv, NEW t \in Tabs,
         \/ Gate(t) \/ ReadVersion(t) \/ Status(t)
         \/ StatementFails(t) /\ UNCHANGED sent
  PROVE  CPIInv'
<1>1. /\ call[t] \in Calls /\ page[t] \in TabPages /\ HandlerOK(t, call[t])
      /\ page[t].busy => page[t].threw \/ call[t].for # "none" \/ call[t].op \in Steering \cup {"track"}
      /\ page = [page EXCEPT ![t] = page[t]]
  BY DEF CPIInv, TabsOK, HandlersOK, BusyIsWorkOrAThrow
<1>2. UNCHANGED <<db, sent, page>>
  BY DEF Gate, ReadVersion, Status, StatementFails, Quiet
<1>3. ASSUME NEW s \in {"refused", "failed", "html", "commit", "read", "publish", "row"},
             Goto(t, s),
             s = "commit" => call[t].op = "register",
             s = "publish" => call[t].op = "backfill"
      PROVE  CPIInv'
  <2>1. PICK c : c = [call[t] EXCEPT !.at = s]
    OBVIOUS
  <2>2. /\ c \in Calls /\ c.at = s /\ c.op = call[t].op /\ c.for = call[t].for
    BY <1>1, <2>1 DEF Calls, Steps, Replies
  <2>3. HandlerOK(t, c)
    BY <1>1, <1>3, <2>2 DEF HandlerOK, Steering, Unwritten
  <2> QED
    BY <1>1, <1>2, <1>3, <2>1, <2>2, <2>3, QuietMove DEF Goto, Control
<1>4. CASE Gate(t)
  <2>1. First(call[t].op) \in {"commit", "read", "publish", "row"}
        /\ (First(call[t].op) = "commit" => call[t].op = "register")
        /\ (First(call[t].op) = "publish" => call[t].op = "backfill")
    BY DEF First
  <2> QED
    BY <1>3, <1>4, <2>1 DEF Gate
<1>5. CASE StatementFails(t)
  BY <1>3, <1>5 DEF StatementFails
<1>6. CASE ReadVersion(t)
  <2>1. PICK n \in Nat : n = Cardinality(Versions) /\ n < MaxVersion
    BY <1>6 DEF ReadVersion, CPIInv, StoresOK
  <2>2. PICK c : c = [call[t] EXCEPT !.at = "commit", !.read = n]
    OBVIOUS
  <2>3. /\ c \in Calls /\ c.at = "commit" /\ c.op = "upload" /\ c.for = call[t].for /\ c.read = n
        /\ call' = [call EXCEPT ![t] = c] /\ call[t].op = "upload"
    BY <1>1, <1>6, <2>1, <2>2 DEF ReadVersion, At, Calls, Steps
  <2>4. HandlerOK(t, c)
    BY <1>1, <2>1, <2>3 DEF HandlerOK, Unwritten
  <2> QED
    BY <1>1, <1>2, <2>3, <2>4, QuietMove
<1>7. CASE Status(t)
  <2>1. PICK f \in BOOLEAN : f = (db.config = "on")
    OBVIOUS
  <2>2. PICK c : c = [call[t] EXCEPT !.at = "ok", !.flag = f]
    OBVIOUS
  <2>3. /\ c \in Calls /\ c.at = "ok" /\ c.op = "status" /\ c.for = call[t].for
        /\ call' = [call EXCEPT ![t] = c] /\ call[t].op = "status"
    BY <1>1, <1>7, <2>1, <2>2 DEF Status, At, Calls, Replies
  <2>4. HandlerOK(t, c)
    BY <1>1, <2>3 DEF HandlerOK, Unwritten
  <2> QED
    BY <1>1, <1>2, <2>3, <2>4, QuietMove
<1> QED
  BY <1>4, <1>5, <1>6, <1>7

\* What a step leaves when it changes no version, no upsert, no ClickHouse row.
LEMMA SteadyMove ==
  ASSUME CPIInv, NEW t \in Tabs, NEW s \in Steps \cup Replies, Goto(t, s), UNCHANGED page, StoresOK',
         db'.by = db.by, sent'.applied = sent.applied,
         NEW c, c = [call[t] EXCEPT !.at = s], HandlerOK(t, c),
         \A o \in Paying :
           sent'.control[o] + Due(c, o) + db.upserts[o]
             <= sent.control[o] + Due(call[t], o) + db'.upserts[o],
         \A o \in Steering :
           db'.audits[o] + DueAudit(c, o) + sent.control[o]
             <= db.audits[o] + DueAudit(call[t], o) + sent'.control[o]
  PROVE  CPIInv'
<1>2. /\ c \in Calls /\ c.at = s /\ c.op = call[t].op /\ c.for = call[t].for
      /\ call' = [call EXCEPT ![t] = c]
  BY DEF CPIInv, TabsOK, Calls, Goto
<1>3. Versions' = Versions /\ Registered' = Registered
  BY DEF Versions, Registered
<1>4. HandlerOK(t, c)'
  BY <1>3 DEF HandlerOK, Mine, Unwritten
<1>5. Cardinality(Versions) \in Nat /\ Cardinality(Versions') = Cardinality(Versions)
  BY <1>3 DEF CPIInv, StoresOK
<1>6. \A o \in Paying :
        sent'.control[o] + Due(c, o) + RowsFor(o)
          <= sent.control[o] + Due(call[t], o) + RowsFor(o)'
  <2> TAKE o \in Paying
  <2>1. One(Registered) \in Nat
    BY DEF One
  <2>2. PICK x \in Nat : x = Due(c, o)
    BY DEF Due
  <2>3. PICK y \in Nat : y = Due(call[t], o)
    BY DEF Due
  <2>4. PICK z \in Nat : z = IF o = "start" THEN One(Registered) ELSE 0
    BY <2>1
  <2>5. PICK u, w \in Nat : u = db.upserts[o] /\ w = db'.upserts[o]
    <3>1. db.upserts \in [Steering -> Nat] /\ db'.upserts \in [Steering -> Nat] /\ o \in Steering
      BY DEF CPIInv, StoresOK, Paying, Steering
    <3> QED
      BY <3>1
  <2>6. PICK m, n \in Nat : m = sent.control[o] /\ n = sent'.control[o]
    <3>1. sent.control \in [Steering -> Nat] /\ sent'.control \in [Steering -> Nat] /\ o \in Steering
      BY DEF CPIInv, StoresOK, Paying, Steering
    <3> QED
      BY <3>1
  <2>7. n + x + u <= m + y + w
    BY <2>2, <2>3, <2>5, <2>6
  <2>8. RowsFor(o) = u + z /\ RowsFor(o)' = w + z
    BY <1>2, <1>3, <2>2, <2>4, <2>5 DEF RowsFor
  <2>9. n + x + (u + z) <= m + y + (w + z)
    BY <2>7
  <2> QED
    BY <2>2, <2>3, <2>6, <2>8, <2>9
<1>8. Versions \subseteq Versions' /\ (\A v \in Versions : db'.by[v] = db.by[v])
      /\ Cardinality(Versions) <= Cardinality(Versions')
      /\ \A v \in 1 .. MaxVersion : sent'.applied[v] = sent.applied[v]
  BY <1>3, <1>5
<1> HIDE DEF Calls
<1> QED
  BY <1>2, <1>4, <1>6, <1>8, WritingMove

LEMMA SetConfigStep ==
  ASSUME CPIInv, NEW t \in Tabs, Start(t) \/ Stop(t)
  PROVE  CPIInv'
<1>1. PICK p \in Paying, to \in Configs : SetConfig(t, p, to)
  BY DEF Start, Stop, Paying, Configs
<1>2. /\ call[t] \in Calls /\ HandlerOK(t, call[t]) /\ call[t].op = p /\ call[t].at = "row"
      /\ Goto(t, "publish") /\ UNCHANGED <<page, sent>>
  BY <1>1 DEF CPIInv, TabsOK, HandlersOK, SetConfig, At, Quiet
<1>3. PICK n : n = [db.upserts EXCEPT ![p] = @ + 1]
  OBVIOUS
<1>4. db' = [by |-> db.by, config |-> to, tracked |-> db.tracked, upserts |-> n, audits |-> db.audits]
  BY <1>1, <1>3 DEF CPIInv, StoresOK, SetConfig
<1>5. n \in [Steering -> Nat] /\ \A o \in Paying : n[o] = db.upserts[o] + One(o = p)
  BY <1>3 DEF CPIInv, StoresOK, Steering, Paying, One
<1>6. StoresOK'
  BY <1>2, <1>4, <1>5 DEF CPIInv, StoresOK, Versions
<1>7. PICK c : c = [call[t] EXCEPT !.at = "publish"]
  OBVIOUS
<1>8. HandlerOK(t, c) /\ c.at = "publish" /\ c.op = p
  BY <1>2, <1>7 DEF HandlerOK, Calls, Paying, Steering, Unwritten
<1>9. \A o \in Paying :
        sent'.control[o] + Due(c, o) + db.upserts[o] <= sent.control[o] + Due(call[t], o) + db'.upserts[o]
  <2>1. \A o \in Paying : /\ db.upserts[o] \in Nat /\ db'.upserts[o] = db.upserts[o] + One(o = p)
                           /\ sent'.control[o] = sent.control[o] /\ sent.control[o] \in Nat
                           /\ Due(call[t], o) = 0 /\ Due(c, o) = One(o = p)
    BY <1>2, <1>4, <1>5, <1>8 DEF CPIInv, StoresOK, Paying, Steering, Control, One, Due
  <2> QED
    BY <2>1 DEF One
<1>10. \A o \in Steering :
        db'.audits[o] + DueAudit(c, o) + sent.control[o]
          <= db.audits[o] + DueAudit(call[t], o) + sent'.control[o]
  BY <1>2, <1>4, <1>8 DEF CPIInv, StoresOK, DueAudit
<1>11. "publish" \in Steps
  BY DEF Steps
<1> QED
  BY <1>2, <1>4, <1>6, <1>7, <1>8, <1>9, <1>10, <1>11, SteadyMove

\* The message is out, whether or not its answer arrives.
LEMMA PublishStep ==
  ASSUME CPIInv, NEW t \in Tabs, Publish(t) \/ (StatementFails(t) /\ ~UNCHANGED sent)
  PROVE  CPIInv'
<1>1. /\ call[t] \in Calls /\ HandlerOK(t, call[t]) /\ call[t].at = "publish"
      /\ sent' = [sent EXCEPT !.control[Control(call[t].op)] = @ + 1] /\ UNCHANGED <<page, db>>
  BY DEF CPIInv, TabsOK, HandlersOK, Publish, Quiet, StatementFails
<1>2. PICK p \in Steering : p = Control(call[t].op) /\ (call[t].op # "register" => p = call[t].op)
  BY <1>1 DEF HandlerOK, Control, Steering
<1>3. PICK n : n = [sent.control EXCEPT ![p] = @ + 1]
  OBVIOUS
<1>4. sent' = [applied |-> sent.applied, control |-> n]
  BY <1>1, <1>2, <1>3 DEF CPIInv, StoresOK
<1>5. n \in [Steering -> Nat] /\ \A o \in Steering : n[o] = sent.control[o] + One(o = p)
  BY <1>3 DEF CPIInv, StoresOK, One
<1>6. StoresOK'
  <2>1. sent' = [applied |-> sent'.applied, control |-> sent'.control]
        /\ sent'.applied = sent.applied /\ sent'.control = n
    BY <1>4
  <2> QED
    BY <1>1, <1>5, <2>1 DEF CPIInv, StoresOK, Versions
<1>7. PICK s \in {"chrow", "audit", "failed", "html"} :
        /\ Goto(t, s) /\ (s = "audit" => call[t].op \in Steering)
        /\ s = "chrow" => call[t].op = "register"
  BY <1>1 DEF HandlerOK, Publish, StatementFails
<1>8. PICK c : c = [call[t] EXCEPT !.at = s]
  OBVIOUS
<1>9. HandlerOK(t, c) /\ c.at = s /\ c.op = call[t].op
  <2>1. call[t].op = "register" => sent.applied[1] = 0
    BY <1>1 DEF HandlerOK, Unwritten, Mine
  <2> QED
    BY <1>1, <1>7, <1>8, <2>1 DEF HandlerOK, Calls, Mine, Unwritten
<1>10. \A o \in Steering : /\ sent'.control[o] = sent.control[o] + One(o = p) /\ sent.control[o] \in Nat
                            /\ db'.upserts[o] = db.upserts[o] /\ db'.audits[o] = db.audits[o]
                            /\ db.upserts[o] \in Nat /\ db.audits[o] \in Nat
                            /\ Due(c, o) = 0 /\ Due(call[t], o) = One(o = p)
                            /\ DueAudit(c, o) <= One(o = p) /\ DueAudit(call[t], o) = 0
                            /\ DueAudit(c, o) \in Nat /\ One(o = p) \in Nat
  <2> TAKE o \in Steering
  <2>1. /\ sent'.control[o] = sent.control[o] + One(o = p) /\ sent.control[o] \in Nat
        /\ db'.upserts[o] = db.upserts[o] /\ db'.audits[o] = db.audits[o]
        /\ db.upserts[o] \in Nat /\ db.audits[o] \in Nat
    BY <1>1, <1>4, <1>5 DEF CPIInv, StoresOK
  <2>2. Due(c, o) = 0 /\ Due(call[t], o) = One(o = p) /\ DueAudit(call[t], o) = 0
    BY <1>1, <1>2, <1>7, <1>9 DEF Due, DueAudit, One
  <2>3. DueAudit(c, o) <= One(o = p) /\ DueAudit(c, o) \in Nat /\ One(o = p) \in Nat
    BY <1>2, <1>7, <1>9 DEF DueAudit, One, Steering
  <2> QED
    BY <2>1, <2>2, <2>3
<1>11. s \in Steps \cup Replies /\ Paying \subseteq Steering
  BY <1>7 DEF Steps, Replies, Paying, Steering
<1>12. \A o \in Paying :
        sent'.control[o] + Due(c, o) + db.upserts[o] <= sent.control[o] + Due(call[t], o) + db'.upserts[o]
  BY <1>10, <1>11
<1>13. \A o \in Steering :
        db'.audits[o] + DueAudit(c, o) + sent.control[o]
          <= db.audits[o] + DueAudit(call[t], o) + sent'.control[o]
  BY <1>10
<1> QED
  BY <1>1, <1>4, <1>6, <1>7, <1>8, <1>9, <1>11, <1>12, <1>13, SteadyMove

\* The next version, and its uploader.
LEMMA NextVersion ==
  ASSUME CPIInv, NEW t \in Tabs, NEW v \in 1 .. MaxVersion, v = Cardinality(Versions) + 1,
         db'.by = Add(v, t)
  PROVE  /\ Versions' = 1 .. v /\ Cardinality(Versions') = v /\ v \notin Versions
         /\ Versions \subseteq Versions' /\ Cardinality(Versions) <= Cardinality(Versions')
         /\ db'.by \in [Versions' -> Tabs] /\ db'.by[v] = t
         /\ \A w \in Versions : db'.by[w] = db.by[w]
         /\ sent.applied[v] = 0
<1>1. PICK n \in Nat : n = Cardinality(Versions) /\ v = n + 1
  BY DEF CPIInv, StoresOK
<1>2. Versions = 1 .. n /\ db.by \in [Versions -> Tabs] /\ v \in Nat
  BY <1>1 DEF CPIInv, StoresOK
<1>3. Versions \cup {v} = 1 .. v /\ v \notin Versions
  <2>1. (1 .. n) \cup {n + 1} = 1 .. (n + 1) /\ n + 1 \notin 1 .. n
    BY <1>1, SMT
  <2> QED
    BY <1>1, <1>2, <2>1
<1>4. db'.by = [x \in Versions \cup {v} |-> IF x \in Versions THEN db.by[x] ELSE t]
  BY DEF Add
<1>5. Versions' = 1 .. v
  BY <1>3, <1>4 DEF Versions
<1>6. Cardinality(1 .. v) = v
  BY <1>1, FS_Interval
<1>7. sent.applied[v] = 0
  <2>1. sent.applied[v] \in Nat
    BY DEF CPIInv, StoresOK
  <2>2. sent.applied[v] <= (IF v \in Versions THEN 1 ELSE 0)
    BY DEF CPIInv, AppliedVersionsAreCommitted
  <2> QED
    BY <1>3, <2>1, <2>2
<1>8. Versions \subseteq Versions'
  BY <1>2, <1>3, <1>5
<1>9. Cardinality(Versions) <= Cardinality(Versions') /\ Cardinality(Versions') = v
  BY <1>1, <1>5, <1>6
<1>10. db'.by \in [Versions' -> Tabs] /\ db'.by[v] = t /\ \A w \in Versions : db'.by[w] = db.by[w]
  <2>1. \A x \in Versions \cup {v} : (IF x \in Versions THEN db.by[x] ELSE t) \in Tabs
    BY <1>2
  <2> QED
    BY <1>3, <1>4, <1>5, <2>1
<1> QED
  BY <1>3, <1>5, <1>7, <1>8, <1>9, <1>10

LEMMA AddingStep ==
  ASSUME CPIInv, NEW t \in Tabs, Register(t) \/ Upload(t)
  PROVE  CPIInv'
<1>1. /\ call[t] \in Calls /\ HandlerOK(t, call[t]) /\ call[t].at = "commit"
      /\ UNCHANGED <<page, sent>> /\ call[t].read \in Nat /\ call[t].flag \in BOOLEAN
  BY DEF CPIInv, TabsOK, HandlersOK, Register, Upload, At, Quiet, Calls
<1>2. ASSUME NEW s \in {"conflict", "failed"}, Goto(t, s), UNCHANGED db,
             s = "conflict" => 1 \in Versions
      PROVE  CPIInv'
  <2>1. PICK c : c = [call[t] EXCEPT !.at = s]
    OBVIOUS
  <2>2. c.at = s /\ c.op = call[t].op /\ c.for = call[t].for /\ HandlerOK(t, c)
    BY <1>1, <1>2, <2>1 DEF HandlerOK, Calls, Unwritten
  <2>3. \A o : Due(c, o) = 0 /\ Due(call[t], o) = 0 /\ DueAudit(c, o) = 0 /\ DueAudit(call[t], o) = 0
    BY <1>1, <2>2 DEF Due, DueAudit
  <2>4. /\ StoresOK' /\ s \in Replies
        /\ \A o \in Steering : sent.control[o] \in Nat /\ db.upserts[o] \in Nat /\ db.audits[o] \in Nat
    BY <1>1, <1>2 DEF CPIInv, StoresOK, Versions, Replies
  <2>5. Paying \subseteq Steering
    BY DEF Paying, Steering
  <2> QED
    BY <1>1, <1>2, <2>1, <2>2, <2>3, <2>4, <2>5, SteadyMove
<1>3. ASSUME NEW s \in {"publish", "chrow"}, Goto(t, s), NEW v \in 1 .. MaxVersion,
             v = Cardinality(Versions) + 1, v = Mine(call[t]), NEW g \in Configs,
             s = "publish" => call[t].op = "register",
             call[t].op \in {"register", "upload"},
             db' = [db EXCEPT !.by = Add(v, t), !.config = g]
      PROVE  CPIInv'
  <2>1. PICK c : c = [call[t] EXCEPT !.at = s]
    OBVIOUS
  <2>2. /\ c \in Calls /\ c.at = s /\ c.op = call[t].op /\ c.for = call[t].for /\ c.read = call[t].read
        /\ call' = [call EXCEPT ![t] = c]
    BY <1>1, <1>3, <2>1 DEF Calls, Steps, Goto
  <2>3. db' = [by |-> Add(v, t), config |-> g, tracked |-> db.tracked, upserts |-> db.upserts,
               audits |-> db.audits]
    BY <1>3 DEF CPIInv, StoresOK
  <2>4. db'.by = Add(v, t) /\ db'.upserts = db.upserts /\ db'.audits = db.audits /\ db'.config = g
    BY <2>3
  <2>5. /\ Versions' = 1 .. v /\ Cardinality(Versions') = v /\ v \notin Versions
        /\ Versions \subseteq Versions' /\ Cardinality(Versions) <= Cardinality(Versions')
        /\ db'.by \in [Versions' -> Tabs] /\ db'.by[v] = t
        /\ \A w \in Versions : db'.by[w] = db.by[w]
        /\ sent.applied[v] = 0
    BY <1>3, <2>4, NextVersion
  <2>6. StoresOK'
    <3>1. v \in 0 .. MaxVersion
      BY ControlPlaneAssumption
    <3>2. db' = [by |-> db'.by, config |-> db'.config, tracked |-> db'.tracked,
                 upserts |-> db'.upserts, audits |-> db'.audits]
      BY <2>3
    <3> QED
      BY <1>1, <2>4, <2>5, <3>1, <3>2 DEF CPIInv, StoresOK
  <2>7. HandlerOK(t, c)'
    <3>1. /\ c.op = "register" => v = 1 /\ Mine(c) = 1
          /\ c.op = "upload" => v = c.read + 1 /\ Mine(c) = c.read + 1
          /\ v \in Versions'
      BY <1>3, <2>2, <2>5 DEF Mine
    <3> QED
      BY <1>1, <1>3, <2>2, <2>5, <3>1 DEF HandlerOK, Unwritten, Mine
  <2>8. \A o \in Paying : sent'.control[o] + Due(c, o) + RowsFor(o) <= sent.control[o] + Due(call[t], o) + RowsFor(o)'
    <3> TAKE o \in Paying
    <3>1. Due(call[t], o) = 0 /\ sent.control[o] \in Nat /\ RowsFor(o) \in Nat /\ sent'.control[o] = sent.control[o]
          /\ db.upserts[o] \in Nat
      BY <1>1, RowsAreCounted DEF Due, CPIInv, StoresOK
    <3>2. CASE s = "publish"
      <4>1. v = 1 /\ ~Registered /\ Registered' /\ Due(c, o) = One(o = "start")
        BY <1>3, <2>2, <2>5, <3>2 DEF Due, Control, Registered, Mine, Paying, One
      <4>2. RowsFor(o)' = RowsFor(o) + One(o = "start")
        BY <2>4, <3>1, <4>1 DEF RowsFor, One
      <4> QED
        BY <3>1, <4>1, <4>2 DEF One
    <3>3. CASE s = "chrow"
      <4>1. Due(c, o) = 0 /\ (Registered => Registered')
        BY <2>2, <2>5, <3>3 DEF Due, Registered
      <4>2. RowsFor(o)' \in Nat /\ RowsFor(o) <= RowsFor(o)'
        BY <2>4, <3>1, <4>1 DEF RowsFor, One
      <4> QED
        BY <3>1, <4>1, <4>2
    <3> QED
      BY <3>2, <3>3
  <2>9. \A o \in Steering : db'.audits[o] + DueAudit(c, o) + sent.control[o]
                              <= db.audits[o] + DueAudit(call[t], o) + sent'.control[o]
    <3>1. \A o : DueAudit(c, o) = 0 /\ DueAudit(call[t], o) = 0
      BY <1>1, <2>2 DEF DueAudit
    <3> QED
      BY <1>1, <2>4, <3>1 DEF CPIInv, StoresOK
  <2>10. \A w \in 1 .. MaxVersion : sent'.applied[w] = sent.applied[w]
    BY <1>1
  <2> HIDE DEF Calls
  <2> QED
    BY <1>1, <2>2, <2>5, <2>6, <2>7, <2>8, <2>9, <2>10, WritingMove
<1>4. CASE Register(t)
  <2>1. call[t].op = "register" /\ Mine(call[t]) = 1
    BY <1>4 DEF Register, At, Mine
  <2>2. CASE Registered
    BY <1>2, <1>4, <2>2 DEF Register, Registered
  <2>3. CASE ~Registered
    <3>1. 1 = Cardinality(Versions) + 1 /\ 1 \in 1 .. MaxVersion
      BY <2>3, ControlPlaneAssumption DEF Registered, CPIInv, StoresOK
    <3>2. PICK g \in Configs : g = IF call[t].flag THEN "on" ELSE db.config
      BY DEF CPIInv, StoresOK, Configs
    <3>3. PICK s \in {"publish", "chrow"} : s = IF call[t].flag THEN "publish" ELSE "chrow"
      OBVIOUS
    <3>4. Goto(t, s) /\ db' = [db EXCEPT !.by = Add(1, t), !.config = g]
      BY <1>4, <2>3, <3>2, <3>3 DEF Register
    <3> QED
      BY <1>3, <2>1, <3>1, <3>4
  <2> QED
    BY <2>2, <2>3
<1>5. CASE Upload(t)
  <2>1. call[t].op = "upload" /\ Mine(call[t]) = call[t].read + 1
        /\ call[t].read <= Cardinality(Versions) /\ call[t].read < MaxVersion
    BY <1>1, <1>5 DEF Upload, At, Mine, HandlerOK
  <2>2. CASE call[t].read + 1 \in Versions
    BY <1>2, <1>5, <2>2 DEF Upload
  <2>3. CASE call[t].read + 1 \notin Versions
    <3>1. call[t].read = Cardinality(Versions) /\ call[t].read + 1 \in 1 .. MaxVersion
      BY <1>1, <2>1, <2>3, ControlPlaneAssumption DEF CPIInv, StoresOK
    <3>2. Goto(t, "chrow") /\ db' = [db EXCEPT !.by = Add(call[t].read + 1, t)]
      BY <1>5, <2>3 DEF Upload
    <3>3. db' = [db EXCEPT !.by = Add(call[t].read + 1, t), !.config = db.config] /\ db.config \in Configs
      BY <3>2 DEF CPIInv, StoresOK
    <3> QED
      BY <1>3, <2>1, <3>1, <3>2, <3>3
  <2> QED
    BY <2>2, <2>3
<1> QED
  BY <1>4, <1>5

LEMMA VersionRowStep ==
  ASSUME CPIInv, NEW t \in Tabs, WriteVersionRow(t)
  PROVE  CPIInv'
<1>1. PICK v : v = Mine(call[t])
  OBVIOUS
<1>2. /\ call[t] \in Calls /\ HandlerOK(t, call[t]) /\ call[t].at = "chrow" /\ Goto(t, "ok")
      /\ UNCHANGED <<db, page>> /\ sent.applied[v] = 0
      /\ sent' = [sent EXCEPT !.applied[v] = @ + 1] \/ UNCHANGED sent
  BY <1>1 DEF CPIInv, TabsOK, HandlersOK, WriteVersionRow, HandlerOK, Unwritten, Mine
<1>3. v \in Versions /\ db.by[v] = t /\ v \in 1 .. MaxVersion
  <2>1. Versions \subseteq 1 .. MaxVersion
    BY ControlPlaneAssumption DEF CPIInv, StoresOK
  <2> QED
    BY <1>1, <1>2, <2>1 DEF HandlerOK, Mine
<1>4. PICK c : c = [call[t] EXCEPT !.at = "ok"]
  OBVIOUS
<1>5. /\ c \in Calls /\ c.at = "ok" /\ c.op = call[t].op /\ c.for = call[t].for
      /\ call' = [call EXCEPT ![t] = c]
  BY <1>2, <1>4 DEF Calls, Replies, Goto
<1>6. Versions' = Versions /\ Registered' = Registered
  BY <1>2 DEF Versions, Registered
<1>7. PICK a \in [1 .. MaxVersion -> Nat] :
        /\ sent' = [applied |-> a, control |-> sent.control]
        /\ \A w \in 1 .. MaxVersion : a[w] = sent.applied[w] \/ (w = v /\ a[w] = 1)
  <2>1. CASE UNCHANGED sent
    BY <2>1 DEF CPIInv, StoresOK
  <2>2. CASE sent' = [sent EXCEPT !.applied[v] = @ + 1]
    <3>1. PICK a : a = [sent.applied EXCEPT ![v] = @ + 1]
      OBVIOUS
    <3>2. a \in [1 .. MaxVersion -> Nat] /\ \A w \in 1 .. MaxVersion : a[w] = sent.applied[w] \/ (w = v /\ a[w] = 1)
      BY <1>2, <1>3, <3>1 DEF CPIInv, StoresOK
    <3>3. sent' = [applied |-> a, control |-> sent.control]
      BY <2>2, <3>1 DEF CPIInv, StoresOK
    <3> QED
      BY <3>2, <3>3
  <2> QED
    BY <1>2, <2>1, <2>2
<1>8. sent'.applied = a /\ sent'.control = sent.control
      /\ sent' = [applied |-> sent'.applied, control |-> sent'.control]
  BY <1>7
<1>9. StoresOK'
  BY <1>2, <1>6, <1>8 DEF CPIInv, StoresOK
<1>10. HandlerOK(t, c)'
  BY <1>2, <1>4, <1>5, <1>6 DEF HandlerOK, Unwritten, Calls
<1>11. /\ \A o : Due(c, o) = 0 /\ Due(call[t], o) = 0 /\ DueAudit(c, o) = 0 /\ DueAudit(call[t], o) = 0
       /\ \A o \in Paying : o \in Steering /\ RowsFor(o) \in Nat /\ RowsFor(o)' = RowsFor(o)
       /\ \A o \in Steering : sent.control[o] \in Nat /\ db.audits[o] \in Nat
  <2>1. \A o : Due(c, o) = 0 /\ Due(call[t], o) = 0 /\ DueAudit(c, o) = 0 /\ DueAudit(call[t], o) = 0
    BY <1>2, <1>5 DEF Due, DueAudit
  <2>2. \A o : RowsFor(o)' = RowsFor(o)
    BY <1>2, <1>6 DEF RowsFor
  <2> QED
    BY <2>1, <2>2, RowsAreCounted DEF CPIInv, StoresOK
<1>12. \A o \in Paying : sent'.control[o] + Due(c, o) + RowsFor(o) <= sent.control[o] + Due(call[t], o) + RowsFor(o)'
  BY <1>8, <1>11
<1>13. \A o \in Steering : db'.audits[o] + DueAudit(c, o) + sent.control[o]
                              <= db.audits[o] + DueAudit(call[t], o) + sent'.control[o]
  BY <1>2, <1>8, <1>11
<1>14. /\ Versions \subseteq Versions' /\ (\A w \in Versions : db'.by[w] = db.by[w])
       /\ Cardinality(Versions) <= Cardinality(Versions')
       /\ \A w \in 1 .. MaxVersion :
            sent'.applied[w] = sent.applied[w] \/ (w \in Versions /\ db.by[w] = t /\ sent'.applied[w] = 1)
  BY <1>2, <1>3, <1>6, <1>7, <1>8 DEF CPIInv, StoresOK
<1> HIDE DEF Calls
<1> QED
  BY <1>2, <1>5, <1>9, <1>10, <1>12, <1>13, <1>14, WritingMove

LEMMA AuditStep ==
  ASSUME CPIInv, NEW t \in Tabs, TrackAccount(t) \/ Audit(t)
  PROVE  CPIInv'
<1>1. PICK s \in {"html", "audit", "ok"}, d \in {0, 1}, o \in Steering :
        /\ Goto(t, s) /\ (s = "audit" => call[t].op = "track")
        /\ call[t].at \in {"row", "audit"} /\ call[t].op \notin {"register", "upload"}
        /\ d = 1 => call[t].at = "audit" /\ call[t].op = o
        /\ \/ db' = [db EXCEPT !.audits[o] = @ + d]
           \/ d = 0 /\ db' = [db EXCEPT !.tracked = TRUE]
        /\ UNCHANGED <<sent, page>>
  <2>1. HandlerOK(t, call[t]) /\ "stop" \in Steering
    BY DEF CPIInv, HandlersOK, Steering
  <2>2. CASE TrackAccount(t)
    BY <2>1, <2>2 DEF TrackAccount, At, Quiet
  <2>3. CASE Audit(t) /\ call[t].op = "track"
    <3>1. db' = [db EXCEPT !.audits["stop"] = @ + 0]
      BY <2>1, <2>3 DEF Audit, CPIInv, StoresOK
    <3> QED
      BY <2>1, <2>3, <3>1 DEF Audit, Quiet
  <2>4. CASE Audit(t) /\ call[t].op # "track"
    <3>1. call[t].op \in Steering
      BY <2>1, <2>4 DEF HandlerOK, Audit
    <3> QED
      BY <2>4, <3>1 DEF Audit, Quiet, Steering
  <2> QED
    BY <2>2, <2>3, <2>4
<1>2. call[t] \in Calls /\ HandlerOK(t, call[t])
  BY DEF CPIInv, TabsOK, HandlersOK
<1>3. PICK c : c = [call[t] EXCEPT !.at = s]
  OBVIOUS
<1>4. /\ c.at = s /\ c.op = call[t].op /\ HandlerOK(t, c)
      /\ s \in Steps \cup Replies
  BY <1>1, <1>2, <1>3 DEF HandlerOK, Calls, Unwritten, Steps, Replies
<1>5. PICK n, r :
        /\ n \in [Steering -> Nat]
        /\ db' = [by |-> db.by, config |-> db.config, tracked |-> r, upserts |-> db.upserts, audits |-> n]
        /\ \A x \in Steering : n[x] = db.audits[x] + (IF x = o THEN d ELSE 0)
  <2>1. db = [by |-> db.by, config |-> db.config, tracked |-> db.tracked, upserts |-> db.upserts,
              audits |-> db.audits]
        /\ db.audits \in [Steering -> Nat]
    BY DEF CPIInv, StoresOK
  <2>2. CASE db' = [db EXCEPT !.audits[o] = @ + d]
    <3>1. PICK n : n = [db.audits EXCEPT ![o] = @ + d]
      OBVIOUS
    <3>2. n \in [Steering -> Nat] /\ \A x \in Steering : n[x] = db.audits[x] + (IF x = o THEN d ELSE 0)
      BY <2>1, <3>1
    <3>3. db' = [by |-> db.by, config |-> db.config, tracked |-> db.tracked, upserts |-> db.upserts,
                 audits |-> n]
      BY <2>1, <2>2, <3>1
    <3> QED
      BY <2>1, <3>2, <3>3
  <2>3. CASE d = 0 /\ db' = [db EXCEPT !.tracked = TRUE]
    <3>1. db' = [by |-> db.by, config |-> db.config, tracked |-> TRUE, upserts |-> db.upserts,
                 audits |-> db.audits]
      BY <2>1, <2>3
    <3>2. \A x \in Steering : db.audits[x] = db.audits[x] + (IF x = o THEN d ELSE 0)
      BY <2>1, <2>3
    <3> QED
      BY <2>1, <3>1, <3>2
  <2> QED
    BY <1>1, <2>2, <2>3
<1>6. StoresOK'
  BY <1>1, <1>5 DEF CPIInv, StoresOK, Versions
<1>7. \A x \in Steering : /\ Due(c, x) = 0 /\ Due(call[t], x) = 0 /\ DueAudit(c, x) = 0
                           /\ (x = o => d <= DueAudit(call[t], x)) /\ DueAudit(call[t], x) \in {0, 1}
  <2> TAKE x \in Steering
  <2>1. s = "audit" => c.op = "track" /\ x # "track"
    BY <1>1, <1>4 DEF Steering
  <2> QED
    BY <1>1, <1>4, <2>1 DEF Due, DueAudit
<1>8. /\ \A x \in Steering : /\ sent.control[x] \in Nat /\ sent'.control[x] = sent.control[x]
                             /\ db.upserts[x] \in Nat /\ db'.upserts[x] = db.upserts[x]
                             /\ db.audits[x] \in Nat
                             /\ db'.audits[x] = db.audits[x] + (IF x = o THEN d ELSE 0)
      /\ Paying \subseteq Steering
  BY <1>1, <1>5 DEF CPIInv, StoresOK, Paying, Steering
<1>9. /\ \A x \in Paying : sent'.control[x] + Due(c, x) + db.upserts[x]
                             <= sent.control[x] + Due(call[t], x) + db'.upserts[x]
  BY <1>7, <1>8
<1>10. \A x \in Steering : db'.audits[x] + DueAudit(c, x) + sent.control[x]
                              <= db.audits[x] + DueAudit(call[t], x) + sent'.control[x]
  BY <1>1, <1>7, <1>8
<1>11. db'.by = db.by /\ sent'.applied = sent.applied /\ UNCHANGED page
  BY <1>1, <1>5
<1> QED
  BY <1>1, <1>3, <1>4, <1>6, <1>9, <1>10, <1>11, SteadyMove

\* Every step keeps the inductive invariant.
LEMMA CPStep == CPIInv /\ [CPNext]_cpVars => CPIInv'
<1> SUFFICES ASSUME CPIInv, [CPNext]_cpVars PROVE CPIInv'
  OBVIOUS
<1>1. CASE UNCHANGED cpVars
  <2>1. UNCHANGED <<db, sent, call, page>>
    BY <1>1 DEF cpVars
  <2>2. Versions' = Versions /\ Registered' = Registered
    BY <2>1 DEF Versions, Registered
  <2>3. StoresOK' /\ TabsOK' /\ AppliedVersionsAreCommitted' /\ BusyIsWorkOrAThrow'
    BY <2>1, <2>2 DEF CPIInv, StoresOK, TabsOK, AppliedVersionsAreCommitted, BusyIsWorkOrAThrow
  <2>4. HandlersOK'
    BY <2>1, <2>2 DEF CPIInv, HandlersOK, HandlerOK, Unwritten, Mine
  <2>5. \A o : Sending(o)' = Sending(o) /\ Auditing(o)' = Auditing(o) /\ RowsFor(o)' = RowsFor(o)
    BY <2>1, <2>2 DEF Sending, Auditing, RowsFor, One
  <2>6. ControlIsPaid'
    BY <2>1, <2>5 DEF CPIInv, ControlIsPaid
  <2> QED
    BY <2>3, <2>4, <2>6 DEF CPIInv
<1>2. ASSUME NEW t \in Tabs,
             Handler(t) \/ Continue(t) \/ User(t) \/ Poll(t) \/ StatementFails(t)
      PROVE  CPIInv'
  <2>1. CASE Continue(t) \/ User(t) \/ Poll(t)
    BY <2>1, TabStep
  <2>2. CASE StatementFails(t)
    BY <2>2, ReadingStep, PublishStep
  <2>3. CASE Handler(t)
    <3>1. CASE Gate(t) \/ ReadVersion(t) \/ Status(t)
      BY <3>1, ReadingStep
    <3>2. CASE Register(t) \/ Upload(t)
      BY <3>2, AddingStep
    <3>3. CASE WriteVersionRow(t)
      BY <3>3, VersionRowStep
    <3>4. CASE Start(t) \/ Stop(t)
      BY <3>4, SetConfigStep
    <3>5. CASE Publish(t)
      BY <3>5, PublishStep
    <3>6. CASE TrackAccount(t) \/ Audit(t)
      BY <3>6, AuditStep
    <3> QED
      BY <2>3, <3>1, <3>2, <3>3, <3>4, <3>5, <3>6 DEF Handler
  <2> QED
    BY <1>2, <2>1, <2>2, <2>3
<1> QED
  BY <1>1, <1>2 DEF CPNext

LEMMA CPImplies == CPIInv => CPInv
<1> SUFFICES ASSUME CPIInv PROVE CPInv
  OBVIOUS
<1>1. CPTypeOK
  <2>1. Versions \subseteq 1 .. MaxVersion /\ db.by \in [Versions -> Tabs] /\ db.config \in Configs
    BY ControlPlaneAssumption DEF CPIInv, StoresOK
  <2>2. \A t \in Tabs : call[t].at \in Steps \cup Replies \cup {"idle"}
    BY DEF CPIInv, TabsOK, Calls
  <2> QED
    BY <2>1, <2>2 DEF CPTypeOK
<1>2. VersionsAreTheirUploaders
  BY DEF CPIInv, StoresOK, HandlersOK, HandlerOK, VersionsAreTheirUploaders, At, Registered
<1>3. ControlFollowsTheRow
  <2>1. \A o \in Steering : Cardinality(Sending(o)) \in Nat /\ Cardinality(Auditing(o)) \in Nat
                            /\ sent.control[o] \in Nat /\ db.audits[o] \in Nat /\ db.upserts[o] \in Nat
    BY FS_CardinalityType DEF CPIInv, ControlIsPaid, StoresOK
  <2>2. \A o \in Paying : o \in Steering /\ RowsFor(o) \in Nat
    BY RowsAreCounted DEF CPIInv
  <2>3. /\ \A o \in Paying : sent.control[o] <= RowsFor(o)
        /\ \A o \in Steering : db.audits[o] <= sent.control[o]
    BY <2>1, <2>2 DEF CPIInv, ControlIsPaid
  <2>4. RowsFor("start") = db.upserts["start"] + (IF Registered THEN 1 ELSE 0)
        /\ RowsFor("stop") = db.upserts["stop"]
    BY <2>1 DEF RowsFor, One, Steering
  <2> QED
    BY <2>3, <2>4 DEF ControlFollowsTheRow, Paying
<1> QED
  BY <1>1, <1>2, <1>3 DEF CPIInv, CPInv

\* Whatever tabs register, upload and steer, and wherever a statement fails: the
\* versions are gapless and their uploaders', ClickHouse has none that Postgres rolled
\* back, no message is without its row and no audit without its message, and a busy
\* panel has work or has thrown.
THEOREM ControlInvariant == CPSpec => []CPInv
<1>1. CPSpec => []CPIInv
  BY CPStarts, CPStep, PTL DEF CPSpec
<1> QED
  BY <1>1, CPImplies, PTL

-----------------------------------------------------------------------------
(* Pages with lists.  L is the page's lists, in the order they are read.    *)

Anything == Names \cup Nat \cup BOOLEAN \cup Lists
PageCalls == [op : Lists \cup {"read", "delete"}, name : Anything, served : BOOLEAN]
Entries == Lists \X Nat
TabType ==
  [calls : Seq(PageCalls), view : SUBSET Entries, got : SUBSET Entries, typed : Names \cup {""},
   threw : BOOLEAN, bad : BOOLEAN, on : Anything, refused : SUBSET Lists]
RowType ==
  [name : Anything, by : PageTabs, gone : SUBSET PageTabs, sealed : Keys \cup {"none", "lost"}, kind : Kinds,
   rule : BOOLEAN]

NeverFilled == {"oncall", "incidents", "findings"}
TablesOK(tb) ==
  /\ tb \in [Lists -> Seq(RowType)]
  /\ \A l \in Lists : Len(tb[l]) <= MaxRows
  /\ \A l \in NeverFilled : tb[l] = <<>>

IsPage(L) ==
  /\ L \in Seq(Lists \ {"mev", "watches"}) /\ Len(L) \in {0, 1, 2, 3}
  /\ \A j, k \in 1 .. Len(L) : L[j] = L[k] => j = k

\* Reads are queued in whole blocks, and only the first call is ever served.
ReadOf(c, L, k) == c.op = "read" /\ c.name = L[k]
QueueOK(q, L) ==
  /\ \A i \in 1 .. Len(q) : q[i].op = "read" => \E k \in 1 .. Len(L) : ReadOf(q[i], L, k)
  /\ \A i \in 2 .. Len(q) : ~q[i].served
  /\ \A i \in 1 .. Len(q), k \in 1 .. Len(L) :
       ReadOf(q[i], L, k) /\ k < Len(L) => i < Len(q) /\ ReadOf(q[i + 1], L, k + 1)
  /\ \A i \in 2 .. Len(q), k \in 2 .. Len(L) : ReadOf(q[i], L, k) => ReadOf(q[i - 1], L, k - 1)

Changing(q) == \E i \in 1 .. Len(q) : q[i].op \notin {"read", "mev"}
Reads(q) == \E i \in 1 .. Len(q) : q[i].op = "read"
Comes(q, L, k) == \E i \in 1 .. Len(q) : ReadOf(q[i], L, k) /\ ~q[i].served
Between(q, L) == q # <<>> /\ Head(q).op = "read" => ReadOf(Head(q), L, 1) /\ ~Head(q).served

MadeBy(tb, l, t) == {n \in 1 .. Len(tb[l]) : tb[l][n].gone = {} /\ tb[l][n].by = t}
Complete(rows, t, tb, l) == \A m \in MadeBy(tb, l, t) : <<l, m>> \in rows
Undeleted(rows, t, tb) == \A r \in rows : t \notin tb[r[1]][r[2]].gone
Existing(rows, tb) == \A r \in rows : r[2] \in 1 .. Len(tb[r[1]])

\* What a tab that has not failed shows, or has read so far, but for what was
\* refused.  A change under way is followed by a reload.
ReloadOK(p, t, tb, L) ==
  /\ ~p.bad /\ (Between(p.calls, L) => p.got = {}) /\ Undeleted(p.got, t, tb)
  /\ ~Changing(p.calls) /\ ~Reads(p.calls) => Undeleted(p.view, t, tb)
  /\ ~Changing(p.calls) => \A k \in 1 .. Len(L) :
       \/ Comes(p.calls, L, k) \/ L[k] \in p.refused
       \/ Reads(p.calls) /\ Complete(p.got, t, tb, L[k])
       \/ ~Reads(p.calls) /\ Complete(p.view, t, tb, L[k])

Switching(q) == q # <<>> /\ Head(q).op = "mev" /\ Head(q).served
SwitchOK(p, t, rows) ==
  rows # <<>> /\ "mev" \notin p.refused /\ rows[Len(rows)].by = t =>
    /\ Switching(p.calls) => Head(p.calls).name = rows[Len(rows)].name
    /\ ~Switching(p.calls) => p.on = rows[Len(rows)].name

TabOK(p, t, tb, L) ==
  /\ p \in TabType /\ QueueOK(p.calls, L) /\ Existing(p.view, tb) /\ Existing(p.got, tb)
  /\ L = <<>> => p.view = {}
  /\ ~p.threw => ReloadOK(p, t, tb, L) /\ SwitchOK(p, t, tb["mev"])

\* The inductive invariant of the pages.
PagesIInv ==
  /\ open \in DOMAIN Pages /\ TablesOK(table) /\ env \in Keys \cup {"none"}
  /\ test.row \in 0 .. Len(table["channels"]) /\ LostConfigsStaySilent
  /\ tab = [t \in PageTabs |-> tab[t]]
  /\ \A t \in PageTabs : TabOK(tab[t], t, table, Pages[open])

LEMMA PagesAreLists ==
  ASSUME NEW o \in DOMAIN Pages
  PROVE  IsPage(Pages[o])
<1> USE DEF IsPage, Lists
<1>1. /\ IsPage(<<>>) /\ IsPage(<<"tags">>) /\ IsPage(<<"watchlists">>) /\ IsPage(<<"schemas">>)
      /\ IsPage(<<"searches">>) /\ IsPage(<<"endpoints">>) /\ IsPage(<<"findings">>)
  OBVIOUS
<1>2. IsPage(<<"channels", "routes", "oncall">>)
  OBVIOUS
<1>3. IsPage(<<"rules", "incidents">>)
  OBVIOUS
<1>4. /\ DOMAIN Pages = {"channels", "tags", "watchlists", "schemas", "rules", "searches", "watches", "endpoints", "mev", "sealing"}
      /\ Pages["channels"] = <<"channels", "routes", "oncall">> /\ Pages["tags"] = <<"tags">>
      /\ Pages["watchlists"] = <<"watchlists">> /\ Pages["schemas"] = <<"schemas">>
      /\ Pages["rules"] = <<"rules", "incidents">> /\ Pages["searches"] = <<"searches">>
      /\ Pages["watches"] = <<>> /\ Pages["endpoints"] = <<"endpoints">>
      /\ Pages["mev"] = <<"findings">> /\ Pages["sealing"] = <<>>
  BY DEF Pages, ChannelsPage, TagsPage, WatchlistsPage, SchemasPage, AlertsPage, SearchesPage, WatchesPage, EndpointsPage,
         SecurityPage
<1> HIDE DEF IsPage
<1> QED
  BY <1>1, <1>2, <1>3, <1>4

-----------------------------------------------------------------------------
(* Queues of a page. *)

\* Where a block of reads begins, or none is under way, whole blocks are ahead.
LEMMA AllCome ==
  ASSUME NEW L, IsPage(L), NEW q \in Seq(PageCalls), QueueOK(q, L), Reads(q),
         \A i \in 1 .. Len(q) : ~q[i].served,
         \A k \in 2 .. Len(L) : q # <<>> => ~ReadOf(q[1], L, k),
         NEW k \in 1 .. Len(L)
  PROVE  Comes(q, L, k)
<1>1. Len(q) \in Nat /\ Len(L) \in {1, 2, 3}
  <2>1. Len(L) \in {0, 1, 2, 3}
    BY DEF IsPage
  <2>2. Len(L) # 0
    OBVIOUS
  <2> QED
    BY <2>1, <2>2
<1>0. \A x \in 1 .. Len(L) : x = 1 \/ x = 2 \/ x = 3
  <2>1. CASE Len(L) = 1
    BY <2>1
  <2>2. CASE Len(L) = 2
    BY <2>2
  <2>3. CASE Len(L) = 3
    BY <2>3
  <2> QED
    BY <1>1, <2>1, <2>2, <2>3
<1>2. PICK i \in 1 .. Len(q), j \in 1 .. Len(L) : ReadOf(q[i], L, j)
  BY DEF Reads, QueueOK
<1>3. \A n \in 1 .. Len(q), m \in 2 .. Len(L) : ReadOf(q[n], L, m) => n - 1 \in 1 .. Len(q) /\ ReadOf(q[n - 1], L, m - 1)
  <2> SUFFICES ASSUME NEW n \in 1 .. Len(q), NEW m \in 2 .. Len(L), ReadOf(q[n], L, m)
               PROVE  n - 1 \in 1 .. Len(q) /\ ReadOf(q[n - 1], L, m - 1)
    OBVIOUS
  <2>1. n # 1
    <3>1. n = 1 => q # <<>>
      BY <1>1
    <3> QED
      BY <3>1
  <2>2. n \in 2 .. Len(q) /\ n - 1 \in 1 .. Len(q)
    BY <1>1, <2>1
  <2> QED
    BY <2>2 DEF QueueOK
<1>4. \A n \in 1 .. Len(q), m \in 1 .. Len(L) :
        ReadOf(q[n], L, m) /\ m < Len(L) => n + 1 \in 1 .. Len(q) /\ ReadOf(q[n + 1], L, m + 1)
  BY <1>1 DEF QueueOK
<1>5. \E n \in 1 .. Len(q) : ReadOf(q[n], L, 1)
  <2>1. CASE j = 1
    BY <1>2, <2>1
  <2>2. CASE j = 2
    <3>1. 2 \in 2 .. Len(L)
      BY <1>1, <1>2, <2>2
    <3>2. i - 1 \in 1 .. Len(q) /\ ReadOf(q[i - 1], L, 2 - 1)
      BY <1>2, <1>3, <2>2, <3>1
    <3> QED
      BY <3>2
  <2>3. CASE j = 3
    <3>1. 3 \in 2 .. Len(L) /\ 2 \in 2 .. Len(L)
      BY <1>1, <1>2, <2>3
    <3>2. i - 1 \in 1 .. Len(q) /\ ReadOf(q[i - 1], L, 2)
      <4>1. i - 1 \in 1 .. Len(q) /\ ReadOf(q[i - 1], L, 3 - 1)
        BY <1>2, <1>3, <2>3, <3>1
      <4> QED
        BY <4>1
    <3>3. (i - 1) - 1 \in 1 .. Len(q) /\ ReadOf(q[(i - 1) - 1], L, 2 - 1)
      BY <1>3, <3>1, <3>2
    <3> QED
      BY <3>3
  <2> QED
    BY <1>0, <1>2, <2>1, <2>2, <2>3
<1>6. PICK n \in 1 .. Len(q) : ReadOf(q[n], L, 1)
  BY <1>5
<1>7. \E m \in 1 .. Len(q) : ReadOf(q[m], L, k)
  <2>1. CASE k = 1
    BY <1>6, <2>1
  <2>2. ASSUME Len(L) >= 2 PROVE n + 1 \in 1 .. Len(q) /\ ReadOf(q[n + 1], L, 2)
    <3>1. 1 < Len(L) /\ 1 \in 1 .. Len(L)
      BY <1>1, <2>2
    <3>2. n + 1 \in 1 .. Len(q) /\ ReadOf(q[n + 1], L, 1 + 1)
      BY <1>4, <1>6, <3>1
    <3> QED
      BY <3>2
  <2>3. CASE k = 2
    <3>1. Len(L) >= 2
      BY <1>1, <2>3
    <3> QED
      BY <2>2, <2>3, <3>1
  <2>4. CASE k = 3
    <3>1. Len(L) >= 2 /\ 2 < Len(L) /\ 2 \in 1 .. Len(L)
      BY <1>1, <2>4
    <3>2. (n + 1) + 1 \in 1 .. Len(q) /\ ReadOf(q[(n + 1) + 1], L, 2 + 1)
      BY <1>4, <2>2, <3>1
    <3> QED
      BY <2>4, <3>2
  <2> QED
    BY <1>0, <2>1, <2>3, <2>4
<1> QED
  BY <1>7 DEF Comes

\* A call that is no read joins; the first call is served, or leaves.
QueueJoined(q, r, c, L) ==
  /\ r \in Seq(PageCalls) /\ QueueOK(r, L) /\ r # <<>> /\ (q # <<>> => Head(r) = Head(q)) /\ (q = <<>> => Head(r) = c)
  /\ (Reads(r) <=> Reads(q)) /\ (Changing(r) <=> Changing(q) \/ c.op # "mev")
  /\ \A k \in 1 .. Len(L) : Comes(q, L, k) => Comes(r, L, k)

LEMMA QueuePosted ==
  ASSUME NEW L, NEW q \in Seq(PageCalls), QueueOK(q, L), NEW c \in PageCalls, c.op # "read", ~c.served,
         NEW r, r = Append(q, c)
  PROVE  QueueJoined(q, r, c, L)
<1>1. /\ r \in Seq(PageCalls) /\ Len(q) \in Nat /\ Len(r) = Len(q) + 1 /\ r[Len(q) + 1] = c
      /\ \A i \in 1 .. Len(q) : r[i] = q[i]
  OBVIOUS
<1>2. \A i \in 1 .. Len(r) : i \in 1 .. Len(q) \/ i = Len(q) + 1
  BY <1>1
<1>3. \A i \in 1 .. Len(q) : i \in 1 .. Len(r)
  BY <1>1
<1>4. Len(q) + 1 \in 1 .. Len(r)
  BY <1>1
<1>5. r # <<>> /\ (q # <<>> => Head(r) = Head(q)) /\ (q = <<>> => Head(r) = c)
  BY <1>1
<1>6. \A i \in 1 .. Len(r), k \in 1 .. Len(L) : ReadOf(r[i], L, k) => i \in 1 .. Len(q) /\ ReadOf(q[i], L, k)
  BY <1>1, <1>2 DEF ReadOf
<1>7. QueueOK(r, L)
  <2>1. \A i \in 1 .. Len(r) : r[i].op = "read" => \E k \in 1 .. Len(L) : ReadOf(r[i], L, k)
    BY <1>1, <1>2 DEF QueueOK
  <2>2. \A i \in 2 .. Len(r) : ~r[i].served
    <3> SUFFICES ASSUME NEW i \in 2 .. Len(r) PROVE ~r[i].served
      OBVIOUS
    <3>1. (i \in 2 .. Len(q) /\ i \in 1 .. Len(q)) \/ i = Len(q) + 1
      BY <1>1
    <3> QED
      BY <1>1, <3>1 DEF QueueOK
  <2>3. \A i \in 1 .. Len(r), k \in 1 .. Len(L) :
          ReadOf(r[i], L, k) /\ k < Len(L) => i < Len(r) /\ ReadOf(r[i + 1], L, k + 1)
    <3> SUFFICES ASSUME NEW i \in 1 .. Len(r), NEW k \in 1 .. Len(L), ReadOf(r[i], L, k), k < Len(L)
                 PROVE  i < Len(r) /\ ReadOf(r[i + 1], L, k + 1)
      OBVIOUS
    <3>1. i \in 1 .. Len(q) /\ ReadOf(q[i], L, k)
      BY <1>6
    <3>2. i < Len(q) /\ ReadOf(q[i + 1], L, k + 1)
      BY <3>1 DEF QueueOK
    <3>3. i + 1 \in 1 .. Len(q) /\ i < Len(r)
      BY <1>1, <3>2
    <3> QED
      BY <1>1, <3>2, <3>3
  <2>4. \A i \in 2 .. Len(r), k \in 2 .. Len(L) : ReadOf(r[i], L, k) => ReadOf(r[i - 1], L, k - 1)
    <3> SUFFICES ASSUME NEW i \in 2 .. Len(r), NEW k \in 2 .. Len(L), ReadOf(r[i], L, k)
                 PROVE  ReadOf(r[i - 1], L, k - 1)
      OBVIOUS
    <3>1. i \in 1 .. Len(r) /\ k \in 1 .. Len(L)
      BY <1>1
    <3>2. i \in 1 .. Len(q) /\ ReadOf(q[i], L, k)
      BY <1>6, <3>1
    <3>3. i \in 2 .. Len(q) /\ i - 1 \in 1 .. Len(q)
      BY <1>1, <3>2
    <3>4. ReadOf(q[i - 1], L, k - 1)
      BY <3>2, <3>3 DEF QueueOK
    <3> QED
      BY <1>1, <3>3, <3>4
  <2> QED
    BY <2>1, <2>2, <2>3, <2>4 DEF QueueOK
<1>8. Reads(r) <=> Reads(q)
  BY <1>1, <1>2, <1>3 DEF Reads
<1>9. Changing(r) <=> Changing(q) \/ c.op # "mev"
  BY <1>1, <1>2, <1>3, <1>4 DEF Changing
<1>10. \A k \in 1 .. Len(L) : Comes(q, L, k) => Comes(r, L, k)
  BY <1>1, <1>3 DEF Comes
<1> QED
  BY <1>1, <1>5, <1>7, <1>8, <1>9, <1>10 DEF QueueJoined

Answering(q) == [q EXCEPT ![1].served = TRUE]

QueueAnswered(q, r, L) ==
  /\ r \in Seq(PageCalls) /\ QueueOK(r, L) /\ r # <<>>
  /\ Head(r).op = Head(q).op /\ Head(r).name = Head(q).name /\ Head(r).served
  /\ (Reads(r) <=> Reads(q)) /\ (Changing(r) <=> Changing(q))
  /\ \A k \in 1 .. Len(L) : Comes(q, L, k) => Comes(r, L, k) \/ ReadOf(Head(q), L, k)

LEMMA QueueServed ==
  ASSUME NEW L, NEW q \in Seq(PageCalls), QueueOK(q, L), q # <<>>, NEW r, r = Answering(q)
  PROVE  QueueAnswered(q, r, L)
<1> DEFINE c == [q[1] EXCEPT !.served = TRUE]
<1>1. Len(q) \in Nat /\ 1 \in 1 .. Len(q) /\ q[1] \in PageCalls /\ Head(q) = q[1]
  OBVIOUS
<1>2. c \in PageCalls /\ c.op = q[1].op /\ c.name = q[1].name /\ c.served
  BY <1>1 DEF PageCalls
<1>3. r = [q EXCEPT ![1] = c]
  BY DEF Answering
<1> HIDE DEF c
<1>4. /\ r \in Seq(PageCalls) /\ Len(r) = Len(q) /\ r[1] = c
      /\ \A i \in 1 .. Len(q) : i # 1 => r[i] = q[i]
  BY <1>1, <1>2, <1>3
<1>5. \A i \in 1 .. Len(q) : r[i].op = q[i].op /\ r[i].name = q[i].name
  BY <1>2, <1>4
<1>6. \A i \in 1 .. Len(q), k \in 1 .. Len(L) : ReadOf(r[i], L, k) <=> ReadOf(q[i], L, k)
  BY <1>5 DEF ReadOf
<1>7. r # <<>> /\ Head(r) = c
  BY <1>1, <1>4
<1>8. QueueOK(r, L)
  <2>1. \A i \in 1 .. Len(r) : r[i].op = "read" => \E k \in 1 .. Len(L) : ReadOf(r[i], L, k)
    BY <1>4, <1>5, <1>6 DEF QueueOK
  <2>2. \A i \in 2 .. Len(r) : ~r[i].served
    <3> SUFFICES ASSUME NEW i \in 2 .. Len(r) PROVE ~r[i].served
      OBVIOUS
    <3>1. i \in 2 .. Len(q) /\ i \in 1 .. Len(q) /\ i # 1
      BY <1>1, <1>4
    <3> QED
      BY <1>4, <3>1 DEF QueueOK
  <2>3. \A i \in 1 .. Len(r), k \in 1 .. Len(L) :
          ReadOf(r[i], L, k) /\ k < Len(L) => i < Len(r) /\ ReadOf(r[i + 1], L, k + 1)
    <3> SUFFICES ASSUME NEW i \in 1 .. Len(r), NEW k \in 1 .. Len(L), ReadOf(r[i], L, k), k < Len(L)
                 PROVE  i < Len(r) /\ ReadOf(r[i + 1], L, k + 1)
      OBVIOUS
    <3>1. i \in 1 .. Len(q) /\ ReadOf(q[i], L, k)
      BY <1>4, <1>6
    <3>2. i < Len(q) /\ ReadOf(q[i + 1], L, k + 1)
      BY <3>1 DEF QueueOK
    <3>3. i + 1 \in 1 .. Len(q) /\ i + 1 # 1 /\ i < Len(r)
      BY <1>1, <1>4, <3>2
    <3> QED
      BY <1>4, <3>2, <3>3
  <2>4. \A i \in 2 .. Len(r), k \in 2 .. Len(L) : ReadOf(r[i], L, k) => ReadOf(r[i - 1], L, k - 1)
    <3> SUFFICES ASSUME NEW i \in 2 .. Len(r), NEW k \in 2 .. Len(L), ReadOf(r[i], L, k)
                 PROVE  ReadOf(r[i - 1], L, k - 1)
      OBVIOUS
    <3>1. i \in 1 .. Len(q) /\ i \in 2 .. Len(q) /\ i # 1 /\ i - 1 \in 1 .. Len(q)
      BY <1>1, <1>4
    <3>2. ReadOf(q[i], L, k)
      BY <1>4, <3>1
    <3>3. ReadOf(q[i - 1], L, k - 1)
      BY <3>1, <3>2 DEF QueueOK
    <3>4. r[i - 1].op = q[i - 1].op /\ r[i - 1].name = q[i - 1].name
      BY <1>5, <3>1
    <3> QED
      BY <3>3, <3>4 DEF ReadOf
  <2> QED
    BY <2>1, <2>2, <2>3, <2>4 DEF QueueOK
<1>9. Reads(r) <=> Reads(q)
  BY <1>4, <1>5 DEF Reads
<1>10. Changing(r) <=> Changing(q)
  BY <1>4, <1>5 DEF Changing
<1>11. \A k \in 1 .. Len(L) : Comes(q, L, k) => Comes(r, L, k) \/ ReadOf(Head(q), L, k)
  <2> SUFFICES ASSUME NEW k \in 1 .. Len(L), Comes(q, L, k), ~ReadOf(Head(q), L, k) PROVE Comes(r, L, k)
    OBVIOUS
  <2>1. PICK i \in 1 .. Len(q) : ReadOf(q[i], L, k) /\ ~q[i].served
    BY DEF Comes
  <2>2. i # 1
    BY <1>1, <2>1
  <2> QED
    BY <1>4, <2>1, <2>2 DEF Comes
<1> QED
  BY <1>1, <1>2, <1>4, <1>7, <1>8, <1>9, <1>10, <1>11 DEF QueueAnswered

QueueShorter(q, r, L) ==
  /\ r \in Seq(PageCalls) /\ QueueOK(r, L) /\ \A i \in 1 .. Len(r) : ~r[i].served
  /\ (Reads(q) <=> Reads(r) \/ Head(q).op = "read")
  /\ (Changing(q) <=> Changing(r) \/ Head(q).op \notin {"read", "mev"})
  /\ \A k \in 1 .. Len(L) : Comes(q, L, k) /\ Head(q).served => Comes(r, L, k)
  /\ \A k \in 2 .. Len(L) : r # <<>> /\ ReadOf(r[1], L, k) => ReadOf(Head(q), L, k - 1)
  /\ \A k \in 1 .. Len(L) : ReadOf(Head(q), L, k) /\ k < Len(L) => r # <<>> /\ ReadOf(Head(r), L, k + 1)

LEMMA QueueLeft ==
  ASSUME NEW L, NEW q \in Seq(PageCalls), QueueOK(q, L), q # <<>>, NEW r, r = Tail(q)
  PROVE  QueueShorter(q, r, L)
<1>1. /\ Len(q) \in Nat /\ Len(q) >= 1 /\ Head(q) = q[1] /\ r \in Seq(PageCalls) /\ Len(r) = Len(q) - 1
      /\ \A i \in 1 .. Len(r) : r[i] = q[i + 1]
  OBVIOUS
<1>2. \A i \in 1 .. Len(q) : i = 1 \/ (i - 1 \in 1 .. Len(r) /\ r[i - 1] = q[i] /\ i \in 2 .. Len(q))
  <2> SUFFICES ASSUME NEW i \in 1 .. Len(q), i # 1
               PROVE  i - 1 \in 1 .. Len(r) /\ r[i - 1] = q[i] /\ i \in 2 .. Len(q)
    OBVIOUS
  <2>1. i - 1 \in 1 .. Len(r) /\ (i - 1) + 1 = i /\ i \in 2 .. Len(q)
    BY <1>1
  <2> QED
    BY <1>1, <2>1
<1>3. \A i \in 1 .. Len(r) : i + 1 \in 1 .. Len(q) /\ i + 1 \in 2 .. Len(q) /\ r[i] = q[i + 1]
  BY <1>1
<1>4. \A i \in 1 .. Len(r) : ~r[i].served
  BY <1>3 DEF QueueOK
<1>5. QueueOK(r, L)
  <2>1. \A i \in 1 .. Len(r) : r[i].op = "read" => \E k \in 1 .. Len(L) : ReadOf(r[i], L, k)
    BY <1>3 DEF QueueOK
  <2>2. \A i \in 2 .. Len(r) : ~r[i].served
    BY <1>1, <1>4
  <2>3. \A i \in 1 .. Len(r), k \in 1 .. Len(L) :
          ReadOf(r[i], L, k) /\ k < Len(L) => i < Len(r) /\ ReadOf(r[i + 1], L, k + 1)
    <3> SUFFICES ASSUME NEW i \in 1 .. Len(r), NEW k \in 1 .. Len(L), ReadOf(r[i], L, k), k < Len(L)
                 PROVE  i < Len(r) /\ ReadOf(r[i + 1], L, k + 1)
      OBVIOUS
    <3>1. i + 1 \in 1 .. Len(q) /\ ReadOf(q[i + 1], L, k)
      BY <1>3
    <3>2. i + 1 < Len(q) /\ ReadOf(q[(i + 1) + 1], L, k + 1)
      BY <3>1 DEF QueueOK
    <3>3. i < Len(r) /\ i + 1 \in 1 .. Len(r)
      BY <1>1, <3>2
    <3> QED
      BY <1>3, <3>2, <3>3
  <2>4. \A i \in 2 .. Len(r), k \in 2 .. Len(L) : ReadOf(r[i], L, k) => ReadOf(r[i - 1], L, k - 1)
    <3> SUFFICES ASSUME NEW i \in 2 .. Len(r), NEW k \in 2 .. Len(L), ReadOf(r[i], L, k)
                 PROVE  ReadOf(r[i - 1], L, k - 1)
      OBVIOUS
    <3>1. i \in 1 .. Len(r) /\ i - 1 \in 1 .. Len(r) /\ i + 1 \in 2 .. Len(q) /\ (i + 1) - 1 = i /\ (i - 1) + 1 = i
      BY <1>1
    <3>2. ReadOf(q[i + 1], L, k)
      BY <1>3, <3>1
    <3>3. ReadOf(q[(i + 1) - 1], L, k - 1)
      BY <3>1, <3>2 DEF QueueOK
    <3> QED
      BY <1>3, <3>1, <3>3
  <2> QED
    BY <2>1, <2>2, <2>3, <2>4 DEF QueueOK
<1>6. 1 \in 1 .. Len(q)
  BY <1>1
<1>7. Reads(q) <=> Reads(r) \/ Head(q).op = "read"
  BY <1>1, <1>2, <1>3, <1>6 DEF Reads
<1>8. Changing(q) <=> Changing(r) \/ Head(q).op \notin {"read", "mev"}
  BY <1>1, <1>2, <1>3, <1>6 DEF Changing
<1>9. \A k \in 1 .. Len(L) : Comes(q, L, k) /\ Head(q).served => Comes(r, L, k)
  BY <1>1, <1>2 DEF Comes
<1>10. \A k \in 2 .. Len(L) : r # <<>> /\ ReadOf(r[1], L, k) => ReadOf(Head(q), L, k - 1)
  <2> SUFFICES ASSUME NEW k \in 2 .. Len(L), r # <<>>, ReadOf(r[1], L, k) PROVE ReadOf(Head(q), L, k - 1)
    OBVIOUS
  <2>1. 1 \in 1 .. Len(r) /\ 2 \in 2 .. Len(q) /\ 1 + 1 = 2 /\ 2 - 1 = 1
    BY <1>1
  <2>2. ReadOf(q[2], L, k)
    BY <1>3, <2>1
  <2>3. ReadOf(q[2 - 1], L, k - 1)
    BY <2>1, <2>2 DEF QueueOK
  <2> QED
    BY <1>1, <2>1, <2>3
<1>11. \A k \in 1 .. Len(L) : ReadOf(Head(q), L, k) /\ k < Len(L) => r # <<>> /\ ReadOf(Head(r), L, k + 1)
  <2> SUFFICES ASSUME NEW k \in 1 .. Len(L), ReadOf(q[1], L, k), k < Len(L)
               PROVE  r # <<>> /\ ReadOf(Head(r), L, k + 1)
    BY <1>1
  <2>1. 1 < Len(q) /\ ReadOf(q[1 + 1], L, k + 1)
    BY <1>6 DEF QueueOK
  <2>2. 1 \in 1 .. Len(r)
    <3>1. Len(r) = Len(q) - 1 /\ Len(q) \in Nat
      BY <1>1
    <3> QED
      BY <2>1, <3>1
  <2>3. r \in Seq(PageCalls)
    BY <1>1
  <2>4. r # <<>> /\ Head(r) = r[1]
    <3>1. Len(r) # 0
      BY <2>2
    <3>2. r # <<>>
      BY <3>1
    <3> QED
      BY <2>3, <3>2
  <2> QED
    BY <1>3, <2>1, <2>2, <2>4
<1> QED
  BY <1>1, <1>4, <1>5, <1>7, <1>8, <1>9, <1>10, <1>11 DEF QueueShorter

\* The block of reads of one reload.
Block(L) == [n \in 1 .. Len(L) |-> Call("read", L[n])]

LEMMA BlockReads ==
  ASSUME NEW L, IsPage(L)
  PROVE  /\ Block(L) \in Seq(PageCalls) /\ Len(Block(L)) = Len(L) /\ Len(L) \in Nat
         /\ \A n \in 1 .. Len(L) : Block(L)[n] = Call("read", L[n])
         /\ \A n, k \in 1 .. Len(L) : ReadOf(Block(L)[n], L, k) <=> n = k
<1>1. Len(L) \in Nat /\ \A n \in 1 .. Len(L) : L[n] \in Lists
  BY DEF IsPage
<1>2. \A n \in 1 .. Len(L) : Call("read", L[n]) \in PageCalls
  <2> SUFFICES ASSUME NEW n \in 1 .. Len(L) PROVE Call("read", L[n]) \in PageCalls
    OBVIOUS
  <2>1. L[n] \in Lists
    BY <1>1
  <2>2. PICK x : x = L[n]
    OBVIOUS
  <2>3. x \in Anything
    BY <2>1, <2>2 DEF Anything
  <2>4. [op |-> "read", name |-> x, served |-> FALSE] \in PageCalls
    BY <2>3 DEF PageCalls
  <2> QED
    BY <2>2, <2>4 DEF Call
<1>3. Block(L) \in Seq(PageCalls) /\ Len(Block(L)) = Len(L)
  BY <1>1, <1>2 DEF Block
<1>4. \A n \in 1 .. Len(L) : Block(L)[n] = Call("read", L[n])
  BY DEF Block
<1>5. \A n, k \in 1 .. Len(L) : ReadOf(Block(L)[n], L, k) <=> n = k
  <2> SUFFICES ASSUME NEW n \in 1 .. Len(L), NEW k \in 1 .. Len(L) PROVE ReadOf(Block(L)[n], L, k) <=> n = k
    OBVIOUS
  <2>1. L[n] = L[k] => n = k
    BY DEF IsPage
  <2>2. Block(L)[n].op = "read" /\ Block(L)[n].name = L[n]
    <3>1. Block(L)[n] = Call("read", L[n])
      BY <1>4
    <3>2. PICK x : x = L[n]
      OBVIOUS
    <3>3. Call("read", x).op = "read" /\ Call("read", x).name = x
      BY DEF Call
    <3> QED
      BY <3>1, <3>2, <3>3
  <2> QED
    BY <2>1, <2>2 DEF ReadOf
<1> QED
  BY <1>1, <1>3, <1>4, <1>5

QueueLonger(q, r, L) ==
  /\ r \in Seq(PageCalls) /\ QueueOK(r, L) /\ \A i \in 1 .. Len(r) : ~r[i].served
  /\ (Changing(r) <=> Changing(q)) /\ (Reads(r) <=> Reads(q) \/ L # <<>>)
  /\ \A k \in 1 .. Len(L) : Comes(r, L, k)

LEMMA QueueReloaded ==
  ASSUME NEW L, IsPage(L), NEW q \in Seq(PageCalls), QueueOK(q, L), \A i \in 1 .. Len(q) : ~q[i].served,
         NEW r, r = q \o Block(L)
  PROVE  QueueLonger(q, r, L)
<1> DEFINE n == Len(q)
<1>1. /\ n \in Nat /\ Len(L) \in Nat /\ r \in Seq(PageCalls) /\ Len(r) = n + Len(L)
      /\ \A i \in 1 .. n : r[i] = q[i]
      /\ \A j \in 1 .. Len(L) : r[n + j] = Block(L)[j]
  <2>1. /\ Block(L) \in Seq(PageCalls) /\ Len(Block(L)) = Len(L) /\ Len(L) \in Nat
    BY BlockReads
  <2>2. PICK b \in Seq(PageCalls) : b = Block(L)
    BY <2>1
  <2>3. r = q \o b /\ Len(b) = Len(L)
    BY <2>1, <2>2
  <2>4. /\ n \in Nat /\ r \in Seq(PageCalls) /\ Len(r) = n + Len(b)
    <3>1. b \in Seq(PageCalls)
      BY <2>1, <2>2
    <3>2. q \o b \in Seq(PageCalls) /\ Len(q \o b) = Len(q) + Len(b)
      BY <3>1
    <3>3. Len(q) \in Nat
      OBVIOUS
    <3> QED
      BY <2>3, <3>2, <3>3
  <2>5. \A i \in 1 .. n : r[i] = q[i]
    BY <2>3
  <2>6. \A j \in 1 .. Len(b) : r[n + j] = b[j]
    <3> SUFFICES ASSUME NEW j \in 1 .. Len(b) PROVE r[n + j] = b[j]
      OBVIOUS
    <3>1. n + j \in 1 .. (n + Len(b)) /\ n + j > n /\ (n + j) - n = j
      BY <2>2, <2>4
    <3> QED
      BY <2>3, <3>1
  <2> QED
    BY <2>1, <2>2, <2>3, <2>4, <2>5, <2>6
<1> HIDE DEF n
<1>2. \A i \in 1 .. Len(r) : i \in 1 .. n \/ \E j \in 1 .. Len(L) : i = n + j
  <2> SUFFICES ASSUME NEW i \in 1 .. Len(r), i \notin 1 .. n PROVE \E j \in 1 .. Len(L) : i = n + j
    OBVIOUS
  <2>1. i - n \in 1 .. Len(L) /\ i = n + (i - n)
    BY <1>1
  <2> QED
    BY <2>1
<1>3. \A j \in 1 .. Len(L) :
        /\ n + j \in 1 .. Len(r) /\ r[n + j].op = "read" /\ ~r[n + j].served
        /\ \A k \in 1 .. Len(L) : ReadOf(r[n + j], L, k) <=> j = k
  <2> SUFFICES ASSUME NEW j \in 1 .. Len(L)
               PROVE  /\ n + j \in 1 .. Len(r) /\ r[n + j].op = "read" /\ ~r[n + j].served
                      /\ \A k \in 1 .. Len(L) : ReadOf(r[n + j], L, k) <=> j = k
    OBVIOUS
  <2>1. n + j \in 1 .. Len(r)
    BY <1>1
  <2>2. r[n + j] = Block(L)[j] /\ Block(L)[j] = Call("read", L[j])
    BY <1>1, BlockReads
  <2> QED
    BY <2>1, <2>2, BlockReads DEF Call
<1>4. \A i \in 1 .. n : i \in 1 .. Len(r)
  BY <1>1
<1>5. \A i \in 1 .. Len(r) : ~r[i].served
  BY <1>1, <1>2, <1>3 DEF n
<1>6. QueueOK(r, L)
  <2>1. \A i \in 1 .. Len(r) : r[i].op = "read" => \E k \in 1 .. Len(L) : ReadOf(r[i], L, k)
    BY <1>1, <1>2, <1>3 DEF QueueOK, n
  <2>2. \A i \in 2 .. Len(r) : ~r[i].served
    <3>1. \A i \in 2 .. Len(r) : i \in 1 .. Len(r)
      BY <1>1
    <3> QED
      BY <1>5, <3>1
  <2>3. \A i \in 1 .. Len(r), k \in 1 .. Len(L) :
          ReadOf(r[i], L, k) /\ k < Len(L) => i < Len(r) /\ ReadOf(r[i + 1], L, k + 1)
    <3> SUFFICES ASSUME NEW i \in 1 .. Len(r), NEW k \in 1 .. Len(L), ReadOf(r[i], L, k), k < Len(L)
                 PROVE  i < Len(r) /\ ReadOf(r[i + 1], L, k + 1)
      OBVIOUS
    <3>1. CASE i \in 1 .. n
      <4>1. i \in 1 .. Len(q) /\ ReadOf(q[i], L, k)
        BY <1>1, <3>1 DEF n
      <4>2. i < Len(q) /\ ReadOf(q[i + 1], L, k + 1)
        BY <4>1 DEF QueueOK
      <4>3. i + 1 \in 1 .. n /\ i < Len(r)
        BY <1>1, <3>1, <4>2 DEF n
      <4> QED
        BY <1>1, <4>2, <4>3
    <3>2. ASSUME NEW j \in 1 .. Len(L), i = n + j PROVE i < Len(r) /\ ReadOf(r[i + 1], L, k + 1)
      <4>1. j = k
        BY <1>3, <3>2
      <4>2. j + 1 \in 1 .. Len(L) /\ i + 1 = n + (j + 1) /\ i < Len(r)
        BY <1>1, <3>2, <4>1
      <4>3. ReadOf(r[n + (j + 1)], L, j + 1)
        BY <1>3, <4>2
      <4> QED
        BY <4>1, <4>2, <4>3
    <3> QED
      BY <1>2, <3>1, <3>2
  <2>4. \A i \in 2 .. Len(r), k \in 2 .. Len(L) : ReadOf(r[i], L, k) => ReadOf(r[i - 1], L, k - 1)
    <3> SUFFICES ASSUME NEW i \in 2 .. Len(r), NEW k \in 2 .. Len(L), ReadOf(r[i], L, k)
                 PROVE  ReadOf(r[i - 1], L, k - 1)
      OBVIOUS
    <3>0. i \in 1 .. Len(r) /\ k \in 1 .. Len(L)
      BY <1>1
    <3>1. CASE i \in 1 .. n
      <4>1. i \in 2 .. Len(q) /\ ReadOf(q[i], L, k) /\ i - 1 \in 1 .. n
        BY <1>1, <3>1 DEF n
      <4>2. ReadOf(q[i - 1], L, k - 1)
        BY <4>1 DEF QueueOK
      <4> QED
        BY <1>1, <4>1, <4>2
    <3>2. ASSUME NEW j \in 1 .. Len(L), i = n + j PROVE ReadOf(r[i - 1], L, k - 1)
      <4>1. j = k
        BY <1>3, <3>0, <3>2
      <4>2. j - 1 \in 1 .. Len(L) /\ i - 1 = n + (j - 1)
        BY <1>1, <3>2, <4>1
      <4>3. ReadOf(r[n + (j - 1)], L, j - 1)
        BY <1>3, <4>2
      <4> QED
        BY <4>1, <4>2, <4>3
    <3> QED
      BY <1>2, <3>0, <3>1, <3>2
  <2> QED
    BY <2>1, <2>2, <2>3, <2>4 DEF QueueOK
<1>7. Changing(r) <=> Changing(q)
  <2>1. Changing(q) => Changing(r)
    BY <1>1, <1>4 DEF Changing, n
  <2>2. ASSUME NEW i \in 1 .. Len(r), r[i].op \notin {"read", "mev"} PROVE Changing(q)
    <3>1. i \in 1 .. n
      BY <1>2, <1>3, <2>2
    <3> QED
      BY <1>1, <2>2, <3>1 DEF Changing, n
  <2> QED
    BY <2>1, <2>2 DEF Changing
<1>8. \A k \in 1 .. Len(L) : Comes(r, L, k)
  BY <1>3 DEF Comes
<1>9. Reads(r) <=> Reads(q) \/ L # <<>>
  <2>1. Reads(q) => Reads(r)
    BY <1>1, <1>4 DEF Reads, n
  <2>2. L # <<>> => Reads(r)
    <3>1. L # <<>> => 1 \in 1 .. Len(L)
      BY DEF IsPage
    <3> QED
      BY <1>3, <3>1 DEF Reads
  <2>3. L = <<>> /\ Reads(r) => Reads(q)
    <3>1. L = <<>> => Len(L) = 0
      OBVIOUS
    <3>2. L = <<>> => \A i \in 1 .. Len(r) : i \in 1 .. n
      BY <1>1, <3>1
    <3> QED
      BY <1>1, <3>2 DEF Reads, n
  <2> QED
    BY <2>1, <2>2, <2>3
<1> QED
  BY <1>1, <1>5, <1>6, <1>7, <1>8, <1>9 DEF QueueLonger

-----------------------------------------------------------------------------
(* Tables: what a call of tab t may do to them. *)

Kept(tb, tb2, t) ==
  /\ \A l \in Lists :
       /\ Len(tb[l]) <= Len(tb2[l])
       /\ \A n \in 1 .. Len(tb[l]) :
            /\ tb2[l][n].by = tb[l][n].by /\ tb2[l][n].name = tb[l][n].name /\ tb2[l][n].sealed = tb[l][n].sealed
            /\ tb[l][n].gone \subseteq tb2[l][n].gone /\ tb2[l][n].gone \subseteq tb[l][n].gone \cup {t}
       /\ \A n \in 1 .. Len(tb2[l]) : n > Len(tb[l]) => tb2[l][n].by = t /\ tb2[l][n].gone = {}
  /\ tb2["mev"] = tb["mev"] \/ tb2["mev"][Len(tb2["mev"])].by = t

LEMMA TablesSame ==
  ASSUME NEW tb, TablesOK(tb), NEW t, NEW tb2, tb2 = tb
  PROVE  TablesOK(tb2) /\ Kept(tb, tb2, t)
<1>1. \A l \in Lists : Len(tb[l]) \in Nat
  BY DEF TablesOK
<1> QED
  BY <1>1 DEF Kept

TablesGrew(tb, tb2, t, l, row) ==
  /\ TablesOK(tb2) /\ Kept(tb, tb2, t)
  /\ (l = "mev" => tb2["mev"] # <<>> /\ tb2["mev"][Len(tb2["mev"])] = row)
  /\ (l # "mev" => tb2["mev"] = tb["mev"])
  /\ \A m \in Lists : m # l => tb2[m] = tb[m]
  /\ \A n \in 1 .. Len(tb[l]) : tb2[l][n] = tb[l][n]

LEMMA TablesGrown ==
  ASSUME NEW tb, TablesOK(tb), NEW t \in PageTabs, NEW l \in Lists \ NeverFilled, NEW row \in RowType, row.by = t,
         row.gone = {}, Len(tb[l]) < MaxRows, NEW tb2, tb2 = [tb EXCEPT ![l] = Append(tb[l], row)]
  PROVE  TablesGrew(tb, tb2, t, l, row)
<1>1. tb \in [Lists -> Seq(RowType)] /\ MaxRows \in Nat /\ l \in Lists
  BY OrgPagesAssumption DEF TablesOK
<1> DEFINE new == Append(tb[l], row)
<1>2. /\ Len(tb[l]) \in Nat /\ new \in Seq(RowType) /\ Len(new) = Len(tb[l]) + 1 /\ new[Len(tb[l]) + 1] = row
      /\ \A n \in 1 .. Len(tb[l]) : new[n] = tb[l][n]
  BY <1>1
<1>3. tb2[l] = new /\ \A m \in Lists : m # l => tb2[m] = tb[m]
  BY <1>1
<1>4. tb2 \in [Lists -> Seq(RowType)]
  BY <1>1, <1>2
<1>9. new # <<>>
  BY <1>2
<1> HIDE DEF new
<1>5. TablesOK(tb2)
  <2>1. \A m \in Lists : Len(tb2[m]) <= MaxRows
    <3> SUFFICES ASSUME NEW m \in Lists PROVE Len(tb2[m]) <= MaxRows
      OBVIOUS
    <3>1. CASE m = l
      BY <1>1, <1>2, <1>3, <3>1
    <3>2. CASE m # l
      BY <1>3, <3>2 DEF TablesOK
    <3> QED
      BY <3>1, <3>2
  <2>2. \A m \in NeverFilled : tb2[m] = <<>>
    BY <1>3 DEF TablesOK, NeverFilled, Lists
  <2> QED
    BY <1>4, <2>1, <2>2 DEF TablesOK
<1>6. "mev" \in Lists
  BY DEF Lists
<1>7. Kept(tb, tb2, t)
  <2>1. ASSUME NEW m \in Lists
        PROVE  /\ Len(tb[m]) <= Len(tb2[m])
               /\ \A n \in 1 .. Len(tb[m]) : tb2[m][n] = tb[m][n]
               /\ \A n \in 1 .. Len(tb2[m]) : n > Len(tb[m]) => tb2[m][n].by = t /\ tb2[m][n].gone = {}
    <3>1. CASE m = l
      <4>1. \A n \in 1 .. Len(new) : n > Len(tb[l]) => n = Len(tb[l]) + 1
        BY <1>2
      <4> QED
        BY <1>2, <1>3, <3>1, <4>1
    <3>2. CASE m # l
      <4>1. tb2[m] = tb[m] /\ Len(tb[m]) \in Nat
        BY <1>1, <1>3, <3>2
      <4> QED
        BY <4>1
    <3> QED
      BY <3>1, <3>2
  <2>2. tb2["mev"] = tb["mev"] \/ tb2["mev"][Len(tb2["mev"])].by = t
    BY <1>2, <1>3, <1>6
  <2>3. \A m \in Lists : \A n \in 1 .. Len(tb[m]) :
          /\ tb2[m][n].by = tb[m][n].by /\ tb2[m][n].name = tb[m][n].name /\ tb2[m][n].sealed = tb[m][n].sealed
          /\ tb[m][n].gone \subseteq tb2[m][n].gone /\ tb2[m][n].gone \subseteq tb[m][n].gone \cup {t}
    BY <2>1
  <2> QED
    BY <2>1, <2>2, <2>3 DEF Kept
<1>8. /\ (l = "mev" => tb2["mev"] # <<>> /\ tb2["mev"][Len(tb2["mev"])] = row)
      /\ (l # "mev" => tb2["mev"] = tb["mev"])
  BY <1>2, <1>3, <1>6, <1>9
<1>10. \A n \in 1 .. Len(tb[l]) : tb2[l][n] = tb[l][n]
  BY <1>2, <1>3
<1> QED
  BY <1>3, <1>5, <1>7, <1>8, <1>10 DEF TablesGrew

LEMMA TablesDropped ==
  ASSUME NEW tb, TablesOK(tb), NEW t \in PageTabs, NEW n, NEW tb2, tb2 = [tb EXCEPT !["schemas"][n].gone = @ \cup {t}]
  PROVE  TablesOK(tb2) /\ Kept(tb, tb2, t) /\ tb2["mev"] = tb["mev"]
<1>1. tb \in [Lists -> Seq(RowType)] /\ "schemas" \in Lists /\ "mev" \in Lists /\ "schemas" \notin NeverFilled
      /\ "schemas" # "mev"
  BY DEF TablesOK, Lists, NeverFilled
<1>2. PICK rows \in Seq(RowType) : rows = tb["schemas"]
  BY <1>1
<1>3. PICK rows2 : rows2 = [rows EXCEPT ![n].gone = @ \cup {t}]
  OBVIOUS
<1>4. tb2 = [tb EXCEPT !["schemas"] = rows2]
  BY <1>2, <1>3
<1>5. /\ rows2 \in Seq(RowType) /\ Len(rows2) = Len(rows) /\ Len(rows) \in Nat
      /\ \A m \in 1 .. Len(rows) :
           /\ rows2[m].by = rows[m].by /\ rows2[m].name = rows[m].name /\ rows2[m].sealed = rows[m].sealed
           /\ rows[m].gone \subseteq rows2[m].gone /\ rows2[m].gone \subseteq rows[m].gone \cup {t}
  <2>1. CASE n \in 1 .. Len(rows)
    <3>1. rows[n] \in RowType
      BY <2>1
    <3>2. PICK old \in RowType : old = rows[n]
      BY <3>1
    <3>3. PICK new : new = [old EXCEPT !.gone = old.gone \cup {t}]
      OBVIOUS
    <3>4. /\ new \in RowType /\ new.by = old.by /\ new.name = old.name /\ new.sealed = old.sealed
          /\ new.gone = old.gone \cup {t}
      BY <3>2, <3>3 DEF RowType
    <3>5. rows2 = [rows EXCEPT ![n] = new]
      BY <1>3, <3>2, <3>3
    <3>6. /\ rows2 \in Seq(RowType) /\ Len(rows2) = Len(rows) /\ Len(rows) \in Nat /\ rows2[n] = new
          /\ \A m \in 1 .. Len(rows) : m # n => rows2[m] = rows[m]
      BY <2>1, <3>4, <3>5
    <3> QED
      BY <3>2, <3>4, <3>6
  <2>2. CASE n \notin 1 .. Len(rows)
    <3>1. DOMAIN rows = 1 .. Len(rows)
      OBVIOUS
    <3>2. rows2 = rows
      BY <1>3, <2>2, <3>1
    <3> QED
      BY <3>2
  <2> QED
    BY <2>1, <2>2
<1>6. tb2["schemas"] = rows2 /\ \A m \in Lists : m # "schemas" => tb2[m] = tb[m]
  BY <1>1, <1>4
<1>7. tb2 \in [Lists -> Seq(RowType)]
  BY <1>1, <1>4, <1>5
<1>8. TablesOK(tb2)
  <2>1. \A m \in Lists : Len(tb2[m]) <= MaxRows
    BY <1>2, <1>5, <1>6 DEF TablesOK
  <2>2. \A m \in NeverFilled : tb2[m] = <<>>
    BY <1>6 DEF TablesOK, NeverFilled, Lists
  <2> QED
    BY <1>7, <2>1, <2>2 DEF TablesOK
<1>9. ASSUME NEW m \in Lists
      PROVE  /\ Len(tb[m]) \in Nat /\ Len(tb2[m]) = Len(tb[m])
             /\ \A k \in 1 .. Len(tb[m]) :
                  /\ tb2[m][k].by = tb[m][k].by /\ tb2[m][k].name = tb[m][k].name /\ tb2[m][k].sealed = tb[m][k].sealed
                  /\ tb[m][k].gone \subseteq tb2[m][k].gone /\ tb2[m][k].gone \subseteq tb[m][k].gone \cup {t}
  <2>1. CASE m = "schemas"
    BY <1>2, <1>5, <1>6, <2>1
  <2>2. CASE m # "schemas"
    <3>1. tb2[m] = tb[m] /\ Len(tb[m]) \in Nat
      BY <1>1, <1>6, <2>2
    <3> QED
      BY <3>1
  <2> QED
    BY <2>1, <2>2
<1>10. tb2["mev"] = tb["mev"]
  BY <1>1, <1>6
<1>11. Kept(tb, tb2, t)
  <2>1. \A m \in Lists : Len(tb[m]) <= Len(tb2[m]) /\ \A k \in 1 .. Len(tb2[m]) : ~(k > Len(tb[m]))
    BY <1>9
  <2> QED
    BY <1>9, <1>10, <2>1 DEF Kept
<1> QED
  BY <1>8, <1>10, <1>11

LEMMA KeptRows ==
  ASSUME NEW tb, TablesOK(tb), NEW tb2, TablesOK(tb2), NEW t, Kept(tb, tb2, t), NEW rows, rows \in SUBSET Entries,
         Existing(rows, tb)
  PROVE  /\ Existing(rows, tb2)
         /\ \A u : u # t /\ Undeleted(rows, u, tb) => Undeleted(rows, u, tb2)
         /\ \A u : \A l \in Lists : u # t => MadeBy(tb2, l, u) \subseteq MadeBy(tb, l, u)
<1>0. \A l \in Lists : Len(tb[l]) \in Nat /\ Len(tb2[l]) \in Nat
  BY DEF TablesOK
<1>1. \A r \in rows : r[1] \in Lists /\ r[2] \in 1 .. Len(tb[r[1]])
  BY DEF Entries, Existing
<1>2. Existing(rows, tb2)
  <2> SUFFICES ASSUME NEW r \in rows PROVE r[2] \in 1 .. Len(tb2[r[1]])
    BY DEF Existing
  <2>1. PICK l, n : l \in Lists /\ n \in 1 .. Len(tb[l]) /\ l = r[1] /\ n = r[2]
    BY <1>1
  <2>2. Len(tb[l]) <= Len(tb2[l])
    BY <2>1 DEF Kept
  <2>3. n \in 1 .. Len(tb2[l])
    BY <1>0, <2>1, <2>2
  <2> QED
    BY <2>1, <2>3
<1>3. \A u : u # t /\ Undeleted(rows, u, tb) => Undeleted(rows, u, tb2)
  BY <1>1 DEF Undeleted, Kept
<1>4. ASSUME NEW u, NEW l \in Lists, u # t PROVE MadeBy(tb2, l, u) \subseteq MadeBy(tb, l, u)
  <2> SUFFICES ASSUME NEW n \in 1 .. Len(tb2[l]), tb2[l][n].gone = {}, tb2[l][n].by = u
               PROVE  n \in 1 .. Len(tb[l]) /\ tb[l][n].gone = {} /\ tb[l][n].by = u
    BY DEF MadeBy
  <2>1. ~(n > Len(tb[l]))
    BY <1>4 DEF Kept
  <2>2. n \in 1 .. Len(tb[l])
    BY <1>0, <2>1
  <2> QED
    BY <2>2 DEF Kept
<1> QED
  BY <1>2, <1>3, <1>4

\* What the others do disturbs no tab.
LEMMA OthersChange ==
  ASSUME NEW tb, TablesOK(tb), NEW tb2, TablesOK(tb2), NEW t, Kept(tb, tb2, t), NEW u, u # t, NEW p, NEW L, IsPage(L),
         TabOK(p, u, tb, L)
  PROVE  TabOK(p, u, tb2, L)
<1>1. p \in TabType /\ p.view \in SUBSET Entries /\ p.got \in SUBSET Entries
  BY DEF TabOK, TabType
<1>2. \A k \in 1 .. Len(L) : L[k] \in Lists
  BY DEF IsPage
<1>3. Existing(p.view, tb2) /\ (Undeleted(p.view, u, tb) => Undeleted(p.view, u, tb2))
  BY <1>1, KeptRows DEF TabOK
<1>4. Existing(p.got, tb2) /\ (Undeleted(p.got, u, tb) => Undeleted(p.got, u, tb2))
  BY <1>1, KeptRows DEF TabOK
<1>5. \A l \in Lists : MadeBy(tb2, l, u) \subseteq MadeBy(tb, l, u)
  BY <1>1, KeptRows DEF TabOK
<1>6. \A rows : \A k \in 1 .. Len(L) : Complete(rows, u, tb, L[k]) => Complete(rows, u, tb2, L[k])
  BY <1>2, <1>5 DEF Complete
<1>7. ~p.threw => ReloadOK(p, u, tb2, L)
  BY <1>3, <1>4, <1>6 DEF TabOK, ReloadOK
<1>8. ~p.threw => SwitchOK(p, u, tb2["mev"])
  <2>1. tb2["mev"] = tb["mev"] \/ tb2["mev"][Len(tb2["mev"])].by # u
    BY DEF Kept
  <2> QED
    BY <2>1 DEF TabOK, SwitchOK
<1> QED
  BY <1>3, <1>4, <1>7, <1>8 DEF TabOK

-----------------------------------------------------------------------------
(* Tabs: one lemma per transition of a tab. *)

Posting(p, c) == [p EXCEPT !.calls = Append(p.calls, c)]
Typing(p, name) == [p EXCEPT !.typed = name]
Replied(p) == [p EXCEPT !.calls = Answering(p.calls)]
Flipped(p) == [p EXCEPT !.calls = Answering(p.calls), !.refused = p.refused \ {"mev"}]
Denied(p, marks) == [p EXCEPT !.calls = Answering(p.calls), !.refused = p.refused \cup marks]
ReadInto(p, rows, l) ==
  [p EXCEPT !.calls = Answering(p.calls), !.got = p.got \cup rows, !.refused = p.refused \ {l}]
Thrown(p, b) == [p EXCEPT !.calls = Tail(p.calls), !.threw = TRUE, !.bad = b]
Cleared(p, name, L) == [p EXCEPT !.calls = Tail(p.calls) \o Block(L), !.typed = name]
Passed(p) == [p EXCEPT !.calls = Tail(p.calls)]
Drawn(p, rows) == [p EXCEPT !.calls = Tail(p.calls), !.got = {}, !.bad = FALSE, !.view = rows]
Turned(p, name) == [p EXCEPT !.calls = Tail(p.calls), !.on = name]

LEMMA FirstIsHead ==
  ASSUME NEW q \in Seq(PageCalls), q # <<>>
  PROVE  1 \in 1 .. Len(q) /\ Head(q) = q[1]
OBVIOUS

LEMMA TabTyped ==
  ASSUME NEW p, NEW t, NEW tb, NEW L, TabOK(p, t, tb, L), NEW name \in Names \cup {""}, NEW p2, p2 = Typing(p, name)
  PROVE  TabOK(p2, t, tb, L)
<1>1. p \in TabType
  BY DEF TabOK
<1>2. /\ p2 \in TabType /\ p2.calls = p.calls /\ p2.view = p.view /\ p2.got = p.got /\ p2.threw = p.threw
      /\ p2.bad = p.bad /\ p2.on = p.on /\ p2.refused = p.refused
  BY <1>1 DEF TabType, Typing
<1> QED
  BY <1>2 DEF TabOK, ReloadOK, SwitchOK

LEMMA TabPosted ==
  ASSUME NEW p, NEW t, NEW tb, NEW L, TabOK(p, t, tb, L), NEW c \in PageCalls, c.op # "read", ~c.served, NEW p2,
         p2 = Posting(p, c)
  PROVE  TabOK(p2, t, tb, L)
<1>1. p \in TabType /\ QueueOK(p.calls, L)
  BY DEF TabOK
<1>2. PICK q, r : q \in Seq(PageCalls) /\ q = p.calls /\ r = Append(q, c)
  BY <1>1 DEF TabType
<1>3. /\ r \in Seq(PageCalls) /\ QueueOK(r, L) /\ r # <<>> /\ (q # <<>> => Head(r) = Head(q)) /\ (q = <<>> => Head(r) = c)
      /\ (Reads(r) <=> Reads(q)) /\ (Changing(r) <=> Changing(q) \/ c.op # "mev")
      /\ \A k \in 1 .. Len(L) : Comes(q, L, k) => Comes(r, L, k)
  <2>1. q \in Seq(PageCalls) /\ QueueOK(q, L) /\ r = Append(q, c)
    BY <1>1, <1>2
  <2>2. QueueJoined(q, r, c, L)
    BY <2>1, QueuePosted
  <2> QED
    BY <2>2 DEF QueueJoined
<1>4. /\ p2 \in TabType /\ p2.calls = r /\ p2.view = p.view /\ p2.got = p.got /\ p2.threw = p.threw
      /\ p2.bad = p.bad /\ p2.on = p.on /\ p2.refused = p.refused
  BY <1>1, <1>2, <1>3 DEF TabType, Posting
<1>5. Switching(r) <=> Switching(q)
  BY <1>3 DEF Switching
<1>6. Switching(q) => Head(r) = Head(q)
  BY <1>3 DEF Switching
<1>7. Between(r, L) => Between(q, L)
  BY <1>3 DEF Between
<1>8. ReloadOK(p, t, tb, L) => ReloadOK(p2, t, tb, L)
  BY <1>2, <1>3, <1>4, <1>7 DEF ReloadOK
<1>9. SwitchOK(p, t, tb["mev"]) => SwitchOK(p2, t, tb["mev"])
  BY <1>2, <1>4, <1>5, <1>6 DEF SwitchOK
<1> QED
  BY <1>3, <1>4, <1>8, <1>9 DEF TabOK

\* A change is stored, and its caller answered.
LEMMA TabReplied ==
  ASSUME NEW tb, TablesOK(tb), NEW tb2, TablesOK(tb2), NEW t, Kept(tb, tb2, t), tb2["mev"] = tb["mev"],
         NEW p, NEW L, IsPage(L), TabOK(p, t, tb, L), p.calls # <<>>, Head(p.calls).op \notin {"read", "mev"},
         NEW p2, p2 = Replied(p)
  PROVE  TabOK(p2, t, tb2, L)
<1>1. p \in TabType /\ QueueOK(p.calls, L) /\ p.view \in SUBSET Entries /\ p.got \in SUBSET Entries
  BY DEF TabOK, TabType
<1>2. PICK q, r : q \in Seq(PageCalls) /\ q = p.calls /\ r = Answering(q)
  BY <1>1 DEF TabType
<1>3. /\ r \in Seq(PageCalls) /\ QueueOK(r, L) /\ r # <<>>
      /\ Head(r).op = Head(q).op /\ (Changing(r) <=> Changing(q))
  <2>1. q \in Seq(PageCalls) /\ QueueOK(q, L) /\ q # <<>> /\ r = Answering(q)
    BY <1>1, <1>2
  <2>2. QueueAnswered(q, r, L)
    BY <2>1, QueueServed
  <2> QED
    BY <2>2 DEF QueueAnswered
<1>4. /\ p2 \in TabType /\ p2.calls = r /\ p2.view = p.view /\ p2.got = p.got /\ p2.threw = p.threw
      /\ p2.bad = p.bad /\ p2.on = p.on /\ p2.refused = p.refused
  BY <1>1, <1>2, <1>3 DEF TabType, Replied
<1>5. Existing(p.view, tb2) /\ Existing(p.got, tb2)
  BY <1>1, KeptRows DEF TabOK
<1>6. Changing(q)
  <2>1. 1 \in 1 .. Len(q) /\ Head(q) = q[1]
    BY <1>2
  <2> QED
    BY <1>2, <2>1 DEF Changing
<1>7. Between(q, L)
  BY <1>2 DEF Between
<1>8. ReloadOK(p, t, tb, L) => ReloadOK(p2, t, tb2, L)
  <2>1. ReloadOK(p, t, tb, L) => p.got = {} /\ ~p.bad
    BY <1>2, <1>7 DEF ReloadOK
  <2>2. p.got = {} => Undeleted(p.got, t, tb2)
    BY DEF Undeleted
  <2> QED
    BY <1>3, <1>4, <1>6, <2>1, <2>2 DEF ReloadOK
<1>9. ~Switching(q) /\ ~Switching(r)
  BY <1>2, <1>3 DEF Switching
<1>10. SwitchOK(p, t, tb["mev"]) => SwitchOK(p2, t, tb2["mev"])
  BY <1>2, <1>4, <1>9 DEF SwitchOK
<1> QED
  BY <1>3, <1>4, <1>5, <1>8, <1>10 DEF TabOK

\* The switch is stored: its row is the last one, and the answer tells it.
LEMMA TabFlipped ==
  ASSUME NEW tb, TablesOK(tb), NEW tb2, TablesOK(tb2), NEW t \in PageTabs, Kept(tb, tb2, t),
         NEW p, NEW L, IsPage(L), TabOK(p, t, tb, L), p.calls # <<>>, Head(p.calls).op = "mev",
         \A l \in Lists : l # "mev" => tb2[l] = tb[l], \A n \in 1 .. Len(tb["mev"]) : tb2["mev"][n] = tb["mev"][n],
         tb2["mev"] # <<>>, tb2["mev"][Len(tb2["mev"])].name = Head(p.calls).name, NEW p2, p2 = Flipped(p)
  PROVE  TabOK(p2, t, tb2, L)
<1>0. \A l \in Lists : Len(tb[l]) \in Nat /\ Len(tb2[l]) \in Nat
  BY DEF TablesOK
<1>1. p \in TabType /\ QueueOK(p.calls, L) /\ p.view \in SUBSET Entries /\ p.got \in SUBSET Entries
  BY DEF TabOK, TabType
<1>2. PICK q, r : q \in Seq(PageCalls) /\ q = p.calls /\ r = Answering(q)
  BY <1>1 DEF TabType
<1>3. /\ r \in Seq(PageCalls) /\ QueueOK(r, L) /\ r # <<>>
      /\ Head(r).op = Head(q).op /\ Head(r).name = Head(q).name /\ Head(r).served
      /\ (Reads(r) <=> Reads(q)) /\ (Changing(r) <=> Changing(q))
      /\ \A k \in 1 .. Len(L) : Comes(q, L, k) => Comes(r, L, k) \/ ReadOf(Head(q), L, k)
  <2>1. q \in Seq(PageCalls) /\ QueueOK(q, L) /\ q # <<>> /\ r = Answering(q)
    BY <1>1, <1>2
  <2>2. QueueAnswered(q, r, L)
    BY <2>1, QueueServed
  <2> QED
    BY <2>2 DEF QueueAnswered
<1>4. /\ p2 \in TabType /\ p2.calls = r /\ p2.view = p.view /\ p2.got = p.got /\ p2.threw = p.threw
      /\ p2.bad = p.bad /\ p2.on = p.on
      /\ \A k \in 1 .. Len(L) : L[k] \in p.refused => L[k] \in p2.refused
  <2>1. p2 = [p EXCEPT !.calls = r, !.refused = p.refused \ {"mev"}]
    BY <1>2 DEF Flipped
  <2>2. p.refused \ {"mev"} \in SUBSET Lists
    BY <1>1 DEF TabType
  <2>3. \A k \in 1 .. Len(L) : L[k] # "mev"
    BY DEF IsPage
  <2> QED
    BY <1>1, <1>3, <2>1, <2>2, <2>3 DEF TabType
<1>5. Existing(p.view, tb2) /\ Existing(p.got, tb2)
  BY <1>1, KeptRows DEF TabOK
<1>6. \A k \in 1 .. Len(L) : ~ReadOf(Head(q), L, k) /\ MadeBy(tb2, L[k], t) = MadeBy(tb, L[k], t)
  <2>1. \A k \in 1 .. Len(L) : L[k] \in Lists /\ L[k] # "mev"
    BY DEF IsPage
  <2> QED
    BY <1>2, <2>1 DEF ReadOf, MadeBy
<1>7. ASSUME NEW rows \in SUBSET Entries, Existing(rows, tb), Undeleted(rows, t, tb) PROVE Undeleted(rows, t, tb2)
  <2> SUFFICES ASSUME NEW x \in rows PROVE t \notin tb2[x[1]][x[2]].gone
    BY DEF Undeleted
  <2>1. x[1] \in Lists /\ x[2] \in 1 .. Len(tb[x[1]]) /\ t \notin tb[x[1]][x[2]].gone
    BY <1>7 DEF Existing, Undeleted, Entries
  <2>2. CASE x[1] = "mev"
    BY <2>1, <2>2
  <2>3. CASE x[1] # "mev"
    BY <2>1, <2>3
  <2> QED
    BY <2>2, <2>3
<1>8. Between(r, L) /\ Between(q, L)
  BY <1>2, <1>3 DEF Between
<1>9. ReloadOK(p, t, tb, L) => ReloadOK(p2, t, tb2, L)
  <2> SUFFICES ASSUME ReloadOK(p, t, tb, L) PROVE ReloadOK(p2, t, tb2, L)
    OBVIOUS
  <2>1. ~p.bad /\ p.got = {}
    BY <1>2, <1>8 DEF ReloadOK
  <2>2. Undeleted(p.got, t, tb2)
    BY <2>1 DEF Undeleted
  <2>3. ~Changing(q) /\ ~Reads(q) => Undeleted(p.view, t, tb2)
    BY <1>1, <1>2, <1>7 DEF ReloadOK, TabOK
  <2>4. \A k \in 1 .. Len(L) : Comes(q, L, k) => Comes(r, L, k)
    BY <1>3, <1>6
  <2>5. \A rows : \A k \in 1 .. Len(L) : Complete(rows, t, tb, L[k]) => Complete(rows, t, tb2, L[k])
    BY <1>6 DEF Complete
  <2> QED
    BY <1>2, <1>3, <1>4, <2>1, <2>2, <2>3, <2>4, <2>5 DEF ReloadOK
<1>10. SwitchOK(p2, t, tb2["mev"])
  BY <1>2, <1>3, <1>4 DEF SwitchOK, Switching
<1> QED
  BY <1>3, <1>4, <1>5, <1>9, <1>10 DEF TabOK

\* A list is read: its rows join what was read, and the call is answered.
LEMMA TabRead ==
  ASSUME NEW tb, TablesOK(tb), NEW t, NEW p, NEW L, IsPage(L), TabOK(p, t, tb, L), p.calls # <<>>,
         Head(p.calls).op = "read", ~Head(p.calls).served, NEW S, S \subseteq Nat,
         \A n \in S : n \in 1 .. Len(tb[Head(p.calls).name]) /\ t \notin tb[Head(p.calls).name][n].gone,
         \A k \in 1 .. Len(L) : ReadOf(Head(p.calls), L, k) => MadeBy(tb, L[k], t) \subseteq S,
         NEW p2, p2 = ReadInto(p, {<<Head(p.calls).name, n>> : n \in S}, Head(p.calls).name)
  PROVE  TabOK(p2, t, tb, L)
<1>1. p \in TabType /\ QueueOK(p.calls, L) /\ p.view \in SUBSET Entries /\ p.got \in SUBSET Entries
  BY DEF TabOK, TabType
<1>2. PICK q, r, rows : q \in Seq(PageCalls) /\ q = p.calls /\ r = Answering(q) /\ rows = {<<Head(q).name, n>> : n \in S}
  BY <1>1 DEF TabType
<1>3. QueueAnswered(q, r, L)
  <2>1. q \in Seq(PageCalls) /\ QueueOK(q, L) /\ q # <<>> /\ r = Answering(q)
    BY <1>1, <1>2
  <2> QED
    BY <2>1, QueueServed
<1>4. PICK k0 \in 1 .. Len(L) : ReadOf(Head(q), L, k0)
  <2>1. 1 \in 1 .. Len(q) /\ Head(q) = q[1] /\ q[1].op = "read"
    BY <1>2
  <2>2. QueueOK(q, L)
    BY <1>1, <1>2
  <2> QED
    BY <2>1, <2>2 DEF QueueOK
<1>5. Head(q).name = L[k0] /\ L[k0] \in Lists
  BY <1>4 DEF ReadOf, IsPage
<1>6. rows \in SUBSET Entries /\ Existing(rows, tb) /\ Undeleted(rows, t, tb)
  BY <1>2, <1>5 DEF Entries, Existing, Undeleted
<1>7. p.got \cup rows \in SUBSET Entries
  BY <1>1, <1>6
<1>8. /\ p2 \in TabType /\ p2.calls = r /\ p2.view = p.view /\ p2.got = p.got \cup rows /\ p2.threw = p.threw
      /\ p2.bad = p.bad /\ p2.on = p.on /\ p2.refused = p.refused \ {L[k0]}
  <2>1. PICK g \in SUBSET Entries : g = p.got \cup rows
    BY <1>7
  <2>2. PICK f : f = p.refused \ {L[k0]}
    OBVIOUS
  <2>3. f \in SUBSET Lists
    BY <1>1, <2>2 DEF TabType
  <2>4. p2 = [p EXCEPT !.calls = r, !.got = g, !.refused = f] /\ r \in Seq(PageCalls)
    BY <1>2, <1>3, <1>5, <2>1, <2>2 DEF ReadInto, QueueAnswered
  <2> QED
    BY <1>1, <2>1, <2>2, <2>3, <2>4 DEF TabType
<1>9. Existing(p2.got, tb)
  BY <1>6, <1>8 DEF TabOK, Existing
<1>10. Reads(r)
  <2>1. 1 \in 1 .. Len(q) /\ Head(q) = q[1]
    BY <1>2
  <2>2. Reads(q)
    BY <1>2, <2>1 DEF Reads
  <2> QED
    BY <1>3, <2>2 DEF QueueAnswered
<1>11. ~Between(r, L)
  BY <1>2, <1>3 DEF Between, QueueAnswered
<1>12. ReloadOK(p, t, tb, L) => ReloadOK(p2, t, tb, L)
  <2> SUFFICES ASSUME ReloadOK(p, t, tb, L) PROVE ReloadOK(p2, t, tb, L)
    OBVIOUS
  <2>1. ~p2.bad /\ Undeleted(p2.got, t, tb)
    BY <1>6, <1>8 DEF ReloadOK, Undeleted
  <2>2. ASSUME NEW k \in 1 .. Len(L), ~Changing(r)
               PROVE  Comes(r, L, k) \/ L[k] \in p2.refused \/ Complete(p2.got, t, tb, L[k])
    <3>1. CASE k = k0
      <4>1. MadeBy(tb, L[k], t) \subseteq S
        BY <1>2, <1>4, <3>1
      <4>2. Complete(rows, t, tb, L[k])
        BY <1>2, <1>5, <3>1, <4>1 DEF Complete
      <4> QED
        BY <1>8, <4>2 DEF Complete
    <3>2. CASE k # k0
      <4>1. ~ReadOf(Head(q), L, k)
        BY <1>4, <3>2 DEF ReadOf, IsPage
      <4>2. ~Changing(q) /\ Reads(q) /\ (Comes(q, L, k) => Comes(r, L, k))
        BY <1>3, <1>10, <2>2, <4>1 DEF QueueAnswered
      <4>3. Comes(q, L, k) \/ L[k] \in p.refused \/ Complete(p.got, t, tb, L[k])
        BY <1>2, <4>2 DEF ReloadOK
      <4>4. Complete(p.got, t, tb, L[k]) => Complete(p2.got, t, tb, L[k])
        BY <1>8 DEF Complete
      <4>5. L[k] \in p.refused => L[k] \in p2.refused
        BY <1>8, <3>2 DEF IsPage
      <4> QED
        BY <4>2, <4>3, <4>4, <4>5
    <3> QED
      BY <3>1, <3>2
  <2> QED
    BY <1>8, <1>10, <1>11, <2>1, <2>2 DEF ReloadOK
<1>13. SwitchOK(p, t, tb["mev"]) => SwitchOK(p2, t, tb["mev"])
  <2>1. L[k0] # "mev"
    BY DEF IsPage
  <2> QED
    BY <1>2, <1>3, <1>8, <2>1 DEF SwitchOK, Switching, QueueAnswered
<1> QED
  BY <1>3, <1>8, <1>9, <1>12, <1>13 DEF TabOK, QueueAnswered

\* A call is refused: it is answered, and what it would have shown is marked.
LEMMA TabDenied ==
  ASSUME NEW tb, NEW t, NEW p, NEW L, IsPage(L), TabOK(p, t, tb, L), p.calls # <<>>,
         NEW marks \in SUBSET Lists, Head(p.calls).op = "read" => Head(p.calls).name \in marks,
         Head(p.calls).op = "mev" => "mev" \in marks, NEW p2, p2 = Denied(p, marks)
  PROVE  TabOK(p2, t, tb, L)
<1>1. p \in TabType /\ QueueOK(p.calls, L)
  BY DEF TabOK
<1>2. PICK q, r : q \in Seq(PageCalls) /\ q = p.calls /\ r = Answering(q)
  BY <1>1 DEF TabType
<1>3. QueueAnswered(q, r, L)
  <2>1. q \in Seq(PageCalls) /\ QueueOK(q, L) /\ q # <<>> /\ r = Answering(q)
    BY <1>1, <1>2
  <2> QED
    BY <2>1, QueueServed
<1>4. /\ p2 \in TabType /\ p2.calls = r /\ p2.view = p.view /\ p2.got = p.got /\ p2.threw = p.threw
      /\ p2.bad = p.bad /\ p2.on = p.on /\ p2.refused = p.refused \cup marks
  <2>1. PICK f : f = p.refused \cup marks
    OBVIOUS
  <2>2. f \in SUBSET Lists
    BY <1>1, <2>1 DEF TabType
  <2>3. p2 = [p EXCEPT !.calls = r, !.refused = f] /\ r \in Seq(PageCalls)
    BY <1>2, <1>3, <2>1 DEF Denied, QueueAnswered
  <2> QED
    BY <1>1, <2>1, <2>2, <2>3 DEF TabType
<1>5. Between(r, L) => Between(q, L)
  BY <1>2, <1>3 DEF Between, QueueAnswered
<1>6. \A k \in 1 .. Len(L) : Comes(q, L, k) => Comes(r, L, k) \/ L[k] \in marks
  BY <1>2, <1>3 DEF QueueAnswered, ReadOf
<1>7. ReloadOK(p, t, tb, L) => ReloadOK(p2, t, tb, L)
  <2>1. (Reads(r) <=> Reads(q)) /\ (Changing(r) <=> Changing(q))
    BY <1>3 DEF QueueAnswered
  <2> QED
    BY <1>2, <1>4, <1>5, <1>6, <2>1 DEF ReloadOK
<1>8. SwitchOK(p, t, tb["mev"]) => SwitchOK(p2, t, tb["mev"])
  BY <1>2, <1>3, <1>4 DEF SwitchOK, Switching, QueueAnswered
<1> QED
  BY <1>3, <1>4, <1>7, <1>8 DEF TabOK, QueueAnswered

LEMMA TabThrown ==
  ASSUME NEW p, NEW t, NEW tb, NEW L, TabOK(p, t, tb, L), p.calls # <<>>, NEW b \in BOOLEAN, NEW p2, p2 = Thrown(p, b)
  PROVE  TabOK(p2, t, tb, L)
<1>1. p \in TabType /\ QueueOK(p.calls, L)
  BY DEF TabOK
<1>2. PICK q, r : q \in Seq(PageCalls) /\ q = p.calls /\ r = Tail(q)
  BY <1>1 DEF TabType
<1>3. QueueShorter(q, r, L)
  <2>1. q \in Seq(PageCalls) /\ QueueOK(q, L) /\ q # <<>> /\ r = Tail(q)
    BY <1>1, <1>2
  <2> QED
    BY <2>1, QueueLeft
<1>4. p2 \in TabType /\ p2.calls = r /\ p2.view = p.view /\ p2.got = p.got /\ p2.threw
  BY <1>1, <1>2, <1>3 DEF TabType, Thrown, QueueShorter
<1> QED
  BY <1>3, <1>4 DEF TabOK, QueueShorter

\* A change is answered: the lists are read again.
LEMMA TabCleared ==
  ASSUME NEW tb, NEW t, NEW p, NEW L, IsPage(L), TabOK(p, t, tb, L), p.calls # <<>>,
         Head(p.calls).op \notin {"read", "mev"}, NEW name \in Names \cup {""}, NEW p2, p2 = Cleared(p, name, L)
  PROVE  TabOK(p2, t, tb, L)
<1>1. p \in TabType /\ QueueOK(p.calls, L)
  BY DEF TabOK
<1>2. PICK q, q1, r : q \in Seq(PageCalls) /\ q = p.calls /\ q1 = Tail(q) /\ r = q1 \o Block(L)
  BY <1>1 DEF TabType
<1>3. QueueShorter(q, q1, L)
  <2>1. q \in Seq(PageCalls) /\ QueueOK(q, L) /\ q # <<>> /\ q1 = Tail(q)
    BY <1>1, <1>2
  <2> QED
    BY <2>1, QueueLeft
<1>4. QueueLonger(q1, r, L)
  <2>1. q1 \in Seq(PageCalls) /\ QueueOK(q1, L) /\ (\A i \in 1 .. Len(q1) : ~q1[i].served) /\ r = q1 \o Block(L)
    BY <1>2, <1>3 DEF QueueShorter
  <2> QED
    BY <2>1, QueueReloaded
<1>5. /\ p2 \in TabType /\ p2.calls = r /\ p2.view = p.view /\ p2.got = p.got /\ p2.threw = p.threw
      /\ p2.bad = p.bad /\ p2.on = p.on /\ p2.refused = p.refused
  BY <1>1, <1>2, <1>4 DEF TabType, Cleared, QueueLonger
<1>6. Between(q, L)
  BY <1>2 DEF Between
<1>7. ~Reads(r) => L = <<>>
  BY <1>4 DEF QueueLonger
<1>8. ReloadOK(p, t, tb, L) => ReloadOK(p2, t, tb, L)
  <2> SUFFICES ASSUME ReloadOK(p, t, tb, L) PROVE ReloadOK(p2, t, tb, L)
    OBVIOUS
  <2>1. ~p.bad /\ p.got = {} /\ Undeleted(p.got, t, tb)
    BY <1>2, <1>6 DEF ReloadOK
  <2>2. L = <<>> => Undeleted(p.view, t, tb)
    BY DEF TabOK, Undeleted
  <2>3. \A k \in 1 .. Len(L) : Comes(r, L, k)
    BY <1>4 DEF QueueLonger
  <2> QED
    BY <1>5, <1>7, <2>1, <2>2, <2>3 DEF ReloadOK
<1>9. ~Switching(q) /\ ~Switching(r)
  <2>0. r \in Seq(PageCalls)
    BY <1>4 DEF QueueLonger
  <2>1. r # <<>> => 1 \in 1 .. Len(r) /\ Head(r) = r[1]
    BY <2>0, FirstIsHead
  <2>2. r # <<>> => ~Head(r).served
    BY <1>4, <2>1 DEF QueueLonger
  <2> QED
    BY <1>2, <2>2 DEF Switching
<1>10. SwitchOK(p, t, tb["mev"]) => SwitchOK(p2, t, tb["mev"])
  BY <1>2, <1>5, <1>9 DEF SwitchOK
<1> QED
  BY <1>4, <1>5, <1>8, <1>10 DEF TabOK, QueueLonger

\* A read is answered, and is not the last one of its reload.
LEMMA TabPassed ==
  ASSUME NEW tb, NEW t, NEW p, NEW L, IsPage(L), TabOK(p, t, tb, L), p.calls # <<>>, Head(p.calls).served,
         Head(p.calls).op = "read", Head(p.calls).name # L[Len(L)], NEW p2, p2 = Passed(p)
  PROVE  TabOK(p2, t, tb, L)
<1>1. p \in TabType /\ QueueOK(p.calls, L)
  BY DEF TabOK
<1>2. PICK q, r : q \in Seq(PageCalls) /\ q = p.calls /\ r = Tail(q)
  BY <1>1 DEF TabType
<1>3. QueueShorter(q, r, L)
  <2>1. q \in Seq(PageCalls) /\ QueueOK(q, L) /\ q # <<>> /\ r = Tail(q)
    BY <1>1, <1>2
  <2> QED
    BY <2>1, QueueLeft
<1>4. PICK k \in 1 .. Len(L) : ReadOf(Head(q), L, k)
  <2>1. 1 \in 1 .. Len(q) /\ Head(q) = q[1] /\ q[1].op = "read"
    BY <1>2
  <2>2. QueueOK(q, L)
    BY <1>1, <1>2
  <2> QED
    BY <2>1, <2>2 DEF QueueOK
<1>5. k < Len(L) /\ Len(L) \in Nat
  <2>1. k # Len(L) /\ Len(L) \in Nat
    BY <1>2, <1>4 DEF ReadOf, IsPage
  <2> QED
    BY <2>1
<1>6. r # <<>> /\ ReadOf(Head(r), L, k + 1) /\ k + 1 \in 1 .. Len(L) /\ k + 1 # 1
  BY <1>3, <1>4, <1>5 DEF QueueShorter
<1>7. /\ p2 \in TabType /\ p2.calls = r /\ p2.view = p.view /\ p2.got = p.got /\ p2.threw = p.threw
      /\ p2.bad = p.bad /\ p2.on = p.on /\ p2.refused = p.refused
  BY <1>1, <1>2, <1>3 DEF TabType, Passed, QueueShorter
<1>8. ~Between(r, L)
  <2>1. 1 \in 1 .. Len(L)
    BY <1>5
  <2>2. L[k + 1] # L[1]
    BY <1>6, <2>1 DEF IsPage
  <2> QED
    BY <1>6, <2>2 DEF Between, ReadOf
<1>9. Reads(r) /\ Reads(q)
  <2>1. 1 \in 1 .. Len(r) /\ Head(r) = r[1]
    BY <1>3, <1>6 DEF QueueShorter
  <2>2. Reads(r)
    BY <1>6, <2>1 DEF Reads, ReadOf
  <2> QED
    BY <1>3, <2>2 DEF QueueShorter
<1>10. ReloadOK(p, t, tb, L) => ReloadOK(p2, t, tb, L)
  <2>1. Changing(q) <=> Changing(r)
    BY <1>2, <1>3 DEF QueueShorter
  <2>2. \A m \in 1 .. Len(L) : Comes(q, L, m) => Comes(r, L, m)
    BY <1>2, <1>3 DEF QueueShorter
  <2> QED
    BY <1>2, <1>7, <1>8, <1>9, <2>1, <2>2 DEF ReloadOK
<1>11. ~Switching(q) /\ ~Switching(r)
  BY <1>2, <1>6 DEF Switching, ReadOf
<1>12. SwitchOK(p, t, tb["mev"]) => SwitchOK(p2, t, tb["mev"])
  BY <1>2, <1>7, <1>11 DEF SwitchOK
<1> QED
  BY <1>3, <1>7, <1>10, <1>12 DEF TabOK, QueueShorter

\* The last read of a reload is answered: what was read is shown, unless a read failed.
LEMMA TabDrawn ==
  ASSUME NEW tb, NEW t, NEW p, NEW L, IsPage(L), TabOK(p, t, tb, L), p.calls # <<>>, Head(p.calls).served,
         Head(p.calls).op = "read", Head(p.calls).name = L[Len(L)], NEW rows, rows = IF p.bad THEN p.view ELSE p.got,
         NEW p2, p2 = Drawn(p, rows)
  PROVE  TabOK(p2, t, tb, L)
<1>1. p \in TabType /\ QueueOK(p.calls, L) /\ p.view \in SUBSET Entries /\ p.got \in SUBSET Entries /\ p.bad \in BOOLEAN
  BY DEF TabOK, TabType
<1>2. PICK q, r : q \in Seq(PageCalls) /\ q = p.calls /\ r = Tail(q)
  BY <1>1 DEF TabType
<1>3. QueueShorter(q, r, L)
  <2>1. q \in Seq(PageCalls) /\ QueueOK(q, L) /\ q # <<>> /\ r = Tail(q)
    BY <1>1, <1>2
  <2> QED
    BY <2>1, QueueLeft
<1>4. PICK k \in 1 .. Len(L) : ReadOf(Head(q), L, k)
  <2>1. 1 \in 1 .. Len(q) /\ Head(q) = q[1] /\ q[1].op = "read"
    BY <1>2
  <2>2. QueueOK(q, L)
    BY <1>1, <1>2
  <2> QED
    BY <2>1, <2>2 DEF QueueOK
<1>5. k = Len(L) /\ Len(L) \in Nat /\ Len(L) \in 1 .. Len(L) /\ L # <<>>
  <2>1. Len(L) \in Nat /\ Len(L) # 0
    BY <1>4 DEF IsPage
  <2>2. Len(L) \in 1 .. Len(L) /\ L # <<>>
    BY <2>1
  <2>3. L[k] = L[Len(L)]
    BY <1>2, <1>4 DEF ReadOf
  <2>4. k = Len(L)
    BY <2>2, <2>3 DEF IsPage
  <2> QED
    BY <2>1, <2>2, <2>4
<1>6. rows \in SUBSET Entries /\ Existing(rows, tb)
  BY <1>1 DEF TabOK
<1>7. /\ p2 \in TabType /\ p2.calls = r /\ p2.view = rows /\ p2.got = {} /\ p2.threw = p.threw
      /\ p2.bad = FALSE /\ p2.on = p.on /\ p2.refused = p.refused
  BY <1>1, <1>2, <1>3, <1>6 DEF TabType, Drawn, QueueShorter
<1>8. Existing(p2.got, tb)
  BY <1>7 DEF Existing
<1>9. ReloadOK(p, t, tb, L) => ReloadOK(p2, t, tb, L)
  <2> SUFFICES ASSUME ReloadOK(p, t, tb, L) PROVE ReloadOK(p2, t, tb, L)
    OBVIOUS
  <2>1. ~p.bad /\ rows = p.got /\ Undeleted(p.got, t, tb) /\ Undeleted({}, t, tb)
    BY DEF ReloadOK, Undeleted
  <2>2. Changing(q) <=> Changing(r)
    BY <1>2, <1>3 DEF QueueShorter
  <2>3. Reads(q)
    BY <1>2, <1>3 DEF QueueShorter
  <2>4. CASE Reads(r)
    <3>1. ASSUME NEW m \in 2 .. Len(L), r # <<>>, ReadOf(r[1], L, m) PROVE FALSE
      <4>1. ReadOf(Head(q), L, m - 1)
        BY <1>3, <3>1 DEF QueueShorter
      <4>2. m - 1 \in 1 .. Len(L) /\ m - 1 # Len(L)
        BY <1>5
      <4>3. L[m - 1] = L[Len(L)]
        BY <1>2, <4>1 DEF ReadOf
      <4> QED
        BY <1>5, <4>2, <4>3 DEF IsPage
    <3>2. \A m \in 1 .. Len(L) : Comes(r, L, m)
      BY <1>3, <2>4, <3>1, AllCome DEF QueueShorter
    <3> QED
      BY <1>7, <2>1, <2>4, <3>2 DEF ReloadOK
  <2>5. CASE ~Reads(r)
    <3>1. ASSUME NEW m \in 1 .. Len(L), Comes(q, L, m) PROVE FALSE
      <4>1. Comes(r, L, m)
        BY <1>2, <1>3, <3>1 DEF QueueShorter
      <4> QED
        BY <2>5, <4>1 DEF Comes, Reads, ReadOf
    <3>2. ~Changing(r) => \A m \in 1 .. Len(L) : L[m] \in p.refused \/ Complete(p.got, t, tb, L[m])
      BY <1>2, <2>2, <2>3, <3>1 DEF ReloadOK
    <3> QED
      BY <1>7, <2>1, <2>5, <3>2 DEF ReloadOK
  <2> QED
    BY <2>4, <2>5
<1>10. ~Switching(q) /\ ~Switching(r)
  <2>1. r # <<>> => 1 \in 1 .. Len(r) /\ Head(r) = r[1]
    BY <1>3 DEF QueueShorter
  <2>2. r # <<>> => ~Head(r).served
    BY <1>3, <2>1 DEF QueueShorter
  <2> QED
    BY <1>2, <2>2 DEF Switching
<1>11. SwitchOK(p, t, tb["mev"]) => SwitchOK(p2, t, tb["mev"])
  BY <1>2, <1>7, <1>10 DEF SwitchOK
<1> QED
  BY <1>3, <1>5, <1>6, <1>7, <1>8, <1>9, <1>11 DEF TabOK, QueueShorter

\* A switch is answered: the page shows what it sent.
LEMMA TabTurned ==
  ASSUME NEW tb, NEW t, NEW p, NEW L, IsPage(L), TabOK(p, t, tb, L), p.calls # <<>>, Head(p.calls).served,
         Head(p.calls).op = "mev", NEW p2, p2 = Turned(p, Head(p.calls).name)
  PROVE  TabOK(p2, t, tb, L)
<1>1. p \in TabType /\ QueueOK(p.calls, L)
  BY DEF TabOK
<1>2. PICK q, r, name : q \in Seq(PageCalls) /\ q = p.calls /\ r = Tail(q) /\ name = Head(q).name
  BY <1>1 DEF TabType
<1>3. QueueShorter(q, r, L)
  <2>1. q \in Seq(PageCalls) /\ QueueOK(q, L) /\ q # <<>> /\ r = Tail(q)
    BY <1>1, <1>2
  <2> QED
    BY <2>1, QueueLeft
<1>4. name \in Anything
  <2>1. Head(q) \in PageCalls
    BY <1>2
  <2> QED
    BY <1>2, <2>1 DEF PageCalls
<1>5. /\ p2 \in TabType /\ p2.calls = r /\ p2.view = p.view /\ p2.got = p.got /\ p2.threw = p.threw
      /\ p2.bad = p.bad /\ p2.on = name /\ p2.refused = p.refused
  BY <1>1, <1>2, <1>3, <1>4 DEF TabType, Turned, QueueShorter
<1>6. r # <<>> => ~Head(r).served
  <2>1. r # <<>> => 1 \in 1 .. Len(r) /\ Head(r) = r[1]
    BY <1>3 DEF QueueShorter
  <2> QED
    BY <1>3, <2>1 DEF QueueShorter
<1>7. ReloadOK(p, t, tb, L) => ReloadOK(p2, t, tb, L)
  <2>1. Between(q, L)
    BY <1>2 DEF Between
  <2>2. (Changing(q) <=> Changing(r)) /\ (Reads(q) <=> Reads(r))
    BY <1>2, <1>3 DEF QueueShorter
  <2>3. \A m \in 1 .. Len(L) : Comes(q, L, m) => Comes(r, L, m)
    BY <1>2, <1>3 DEF QueueShorter
  <2> QED
    BY <1>2, <1>5, <2>1, <2>2, <2>3 DEF ReloadOK
<1>8. SwitchOK(p, t, tb["mev"]) => SwitchOK(p2, t, tb["mev"])
  BY <1>2, <1>5, <1>6 DEF SwitchOK, Switching
<1> QED
  BY <1>3, <1>5, <1>7, <1>8 DEF TabOK, QueueShorter

-----------------------------------------------------------------------------
(* The steps. *)

LEMMA NewestIs ==
  ASSUME NEW N \in Nat, NEW rows \in SUBSET (1 .. N), rows # {}
  PROVE  Newest(rows) \in rows
<1> DEFINE R == OpToRel(<, Nat)
           T == {N - x : x \in rows}
<1>1. \A x \in rows : x \in Nat /\ x <= N
  OBVIOUS
<1>2. T \subseteq Nat /\ T # {}
  <2>1. \A x \in rows : N - x \in Nat
    BY <1>1
  <2> QED
    BY <2>1
<1>3. IsWellFoundedOn(R, Nat)
  BY NatLessThanWellFounded, Zenon
<1>4. PICK m \in T : \A y \in T : ~(<<y, m>> \in R)
  BY <1>2, <1>3, WFMin, Zenon
<1>5. PICK x \in rows : m = N - x
  BY <1>4
<1>6. \A y \in rows : y <= x
  <2> TAKE y \in rows
  <2>1. N - y \in T /\ N - y \in Nat /\ m \in Nat
    BY <1>1, <1>2, <1>4
  <2>2. ~(N - y < m)
    BY <2>1, <1>4 DEF OpToRel
  <2> QED
    BY <2>1, <2>2, <1>1, <1>5
<1> QED
  BY <1>6 DEF Newest

\* What tab t is after the step, and that nothing else has a say.
TabBecomes(t, p2) == tab' = [tab EXCEPT ![t] = p2]

LEMMA TabMoves ==
  ASSUME PagesIInv, NEW t \in PageTabs, NEW p2, TabBecomes(t, p2), open' = open, env' = env, test' = test,
         TablesOK(table'), Kept(table, table', t), TabOK(p2, t, table', Pages[open])
  PROVE  PagesIInv'
<1>1. /\ TablesOK(table) /\ tab = [u \in PageTabs |-> tab[u]] /\ \A u \in PageTabs : TabOK(tab[u], u, table, Pages[open])
      /\ open \in DOMAIN Pages /\ IsPage(Pages[open])
  BY PagesAreLists DEF PagesIInv
<1>2. /\ tab'[t] = p2 /\ \A u \in PageTabs : u # t => tab'[u] = tab[u]
      /\ tab' = [u \in PageTabs |-> tab'[u]]
  BY <1>1 DEF TabBecomes
<1>3. ASSUME NEW u \in PageTabs PROVE TabOK(tab'[u], u, table', Pages[open])
  <2>1. CASE u = t
    BY <1>2, <2>1
  <2>2. CASE u # t
    <3>1. TabOK(tab[u], u, table, Pages[open])
      BY <1>1
    <3>2. TabOK(tab[u], u, table', Pages[open])
      BY <1>1, <2>2, <3>1, OthersChange
    <3> QED
      BY <1>2, <2>2, <3>2
  <2> QED
    BY <2>1, <2>2
<1>4. "channels" \in Lists /\ Len(table["channels"]) \in Nat /\ Len(table'["channels"]) \in Nat
  <2>1. "channels" \in Lists
    BY DEF Lists
  <2> QED
    BY <1>1, <2>1 DEF TablesOK
<1>5. Len(table["channels"]) <= Len(table'["channels"])
  BY <1>4 DEF Kept
<1>6. test.row \in 0 .. Len(table["channels"])
  BY DEF PagesIInv
<1>7. test.row \in 0 .. Len(table'["channels"])
  BY <1>4, <1>5, <1>6
<1>8. test.row > 0 => table'["channels"][test.row].sealed = table["channels"][test.row].sealed
  <2>1. test.row > 0 => test.row \in 1 .. Len(table["channels"])
    BY <1>4, <1>6
  <2> QED
    BY <1>4, <2>1 DEF Kept
<1>9. LostConfigsStaySilent'
  BY <1>8 DEF PagesIInv, LostConfigsStaySilent
<1> QED
  BY <1>2, <1>3, <1>7, <1>9 DEF PagesIInv

\* A step of tab t that leaves the tables alone.
LEMMA TabMovesAlone ==
  ASSUME PagesIInv, NEW t \in PageTabs, NEW p2, TabBecomes(t, p2), open' = open, env' = env, test' = test, table' = table,
         TabOK(p2, t, table, Pages[open])
  PROVE  PagesIInv'
<1>1. TablesOK(table') /\ Kept(table, table', t)
  BY TablesSame DEF PagesIInv
<1> QED
  BY <1>1, TabMoves

\* What a tab is before a step.
LEMMA TabIs ==
  ASSUME PagesIInv, NEW t \in PageTabs
  PROVE  /\ TablesOK(table) /\ IsPage(Pages[open]) /\ TabOK(tab[t], t, table, Pages[open])
         /\ tab = [u \in PageTabs |-> tab[u]] /\ tab[t] \in TabType /\ tab[t].calls \in Seq(PageCalls)
         /\ tab[t].view \in SUBSET Entries
BY PagesAreLists DEF PagesIInv, TabOK, TabType

LEMMA PostStep ==
  ASSUME PagesIInv, NEW t \in PageTabs, NEW op \in Lists \cup {"delete"}, NEW name \in Anything, Post(t, op, name)
  PROVE  PagesIInv'
<1>1. tab[t] \in TabType /\ TabOK(tab[t], t, table, Pages[open]) /\ tab = [u \in PageTabs |-> tab[u]]
  BY TabIs
<1>2. PICK c, p2 : c = Call(op, name) /\ p2 = Posting(tab[t], c)
  OBVIOUS
<1>3. c \in PageCalls /\ c.op = op /\ ~c.served
  BY <1>2 DEF Call, PageCalls
<1>4. op # "read"
  BY DEF Lists
<1>5. TabOK(p2, t, table, Pages[open])
  BY <1>1, <1>2, <1>3, <1>4, TabPosted
<1>6. TabBecomes(t, p2)
  BY <1>1, <1>2 DEF Post, Posting, TabType, TabBecomes
<1>7. open' = open /\ env' = env /\ test' = test /\ table' = table
  BY DEF Post
<1> QED
  BY <1>5, <1>6, <1>7, TabMovesAlone

LEMMA ClickStep ==
  ASSUME PagesIInv, NEW t \in PageTabs, ClickAny(t)
  PROVE  PagesIInv'
<1>1. /\ tab[t] \in TabType /\ TabOK(tab[t], t, table, Pages[open]) /\ tab = [u \in PageTabs |-> tab[u]]
      /\ tab[t].view \in SUBSET Entries /\ TablesOK(table)
  BY TabIs
<1>2. CASE TypeName(t)
  <2>1. PICK name \in Names : tab' = [tab EXCEPT ![t].typed = name]
    BY <1>2 DEF TypeName
  <2>2. PICK p2 : p2 = Typing(tab[t], name)
    OBVIOUS
  <2>3. TabOK(p2, t, table, Pages[open])
    BY <1>1, <2>2, TabTyped
  <2>4. TabBecomes(t, p2)
    BY <1>1, <2>1, <2>2 DEF Typing, TabType, TabBecomes
  <2>5. open' = open /\ env' = env /\ test' = test /\ table' = table
    BY <1>2 DEF TypeName
  <2> QED
    BY <2>3, <2>4, <2>5, TabMovesAlone
<1>3. CASE ClickAdd(t)
  <2>1. tab[t].typed \in Anything
    BY <1>1, <1>3 DEF ClickAdd, TabType, Anything
  <2>2. Form \in Lists
    <3>1. open \in {"channels", "tags", "watchlists", "schemas", "rules", "searches", "watches", "endpoints", "mev", "sealing"}
      BY DEF PagesIInv, Pages
    <3> QED
      BY <3>1 DEF Form, Lists
  <2> QED
    BY <1>3, <2>1, <2>2, PostStep DEF ClickAdd
<1>4. CASE ClickRoute(t)
  <2>0. "channels" \in Lists
    BY DEF Lists
  <2>1. PICK N \in Nat : N = Len(table["channels"])
    BY <1>1, <2>0 DEF TablesOK
  <2>2. PICK rows : rows = {n \in 1 .. N : <<"channels", n>> \in tab[t].view}
    OBVIOUS
  <2>3. rows # {} /\ Post(t, "routes", Newest(rows))
    BY <1>4, <2>1, <2>2 DEF ClickRoute
  <2>4. rows \in SUBSET (1 .. N)
    BY <2>2
  <2>5. Newest(rows) \in 1 .. N
    BY <2>3, <2>4, NewestIs
  <2>6. Newest(rows) \in Anything /\ "routes" \in Lists \cup {"delete"}
    BY <2>5 DEF Anything, Lists
  <2> QED
    BY <2>3, <2>6, PostStep
<1>5. CASE ClickDelete(t)
  <2>1. PICK r \in tab[t].view : Post(t, "delete", r[2])
    BY <1>5 DEF ClickDelete
  <2>2. r[2] \in Anything
    BY <1>1 DEF Entries, Anything
  <2> QED
    BY <2>1, <2>2, PostStep
<1>6. CASE ClickDemote(t)
  <2>1. PICK e \in Names : Post(t, "endpoints", e)
    BY <1>6 DEF ClickDemote
  <2>2. e \in Anything /\ "endpoints" \in Lists \cup {"delete"}
    BY DEF Anything, Lists
  <2> QED
    BY <2>1, <2>2, PostStep
<1>7. CASE ClickSwitch(t)
  <2>1. Post(t, "mev", ~tab[t].on)
    BY <1>7 DEF ClickSwitch
  <2>2. (~tab[t].on) \in Anything /\ "mev" \in Lists \cup {"delete"}
    BY DEF Anything, Lists
  <2> QED
    BY <2>1, <2>2, PostStep
<1> QED
  BY <1>2, <1>3, <1>4, <1>5, <1>6, <1>7 DEF ClickAny

\* A handler that stored a change, or had nothing to store.
LEMMA RepliedStep ==
  ASSUME PagesIInv, NEW t \in PageTabs, NEW op, Served(t, op), op \notin {"read", "mev"}, Reply(t), open' = open, env' = env,
         test' = test, TablesOK(table'), Kept(table, table', t), table'["mev"] = table["mev"]
  PROVE  PagesIInv'
<1>1. /\ tab[t] \in TabType /\ TabOK(tab[t], t, table, Pages[open]) /\ tab = [u \in PageTabs |-> tab[u]]
      /\ TablesOK(table) /\ IsPage(Pages[open])
  BY TabIs
<1>2. PICK p2 : p2 = Replied(tab[t])
  OBVIOUS
<1>3. tab[t].calls # <<>> /\ Head(tab[t].calls).op \notin {"read", "mev"}
  BY DEF Served
<1>4. TabOK(p2, t, table', Pages[open])
  BY <1>1, <1>2, <1>3, TabReplied
<1>5. TabBecomes(t, p2)
  BY <1>1, <1>2 DEF Reply, Replied, Answering, TabType, TabBecomes
<1> QED
  BY <1>4, <1>5, TabMoves

LEMMA InsertStep ==
  ASSUME PagesIInv, NEW t \in PageTabs, NEW l \in Lists \ NeverFilled, l # "mev", Served(t, l), NEW row \in RowType,
         row.by = t, row.gone = {}, Insert(l, row), Reply(t), open' = open, env' = env, test' = test
  PROVE  PagesIInv'
<1>1. TablesOK(table)
  BY TabIs
<1>2. PICK tb2 : tb2 = table'
  OBVIOUS
<1>3. Len(table[l]) < MaxRows /\ tb2 = [table EXCEPT ![l] = Append(table[l], row)]
  BY <1>2 DEF Insert
<1>4. TablesOK(tb2) /\ Kept(table, tb2, t) /\ tb2["mev"] = table["mev"]
  <2>1. TablesGrew(table, tb2, t, l, row)
    BY <1>1, <1>3, TablesGrown
  <2> QED
    BY <2>1 DEF TablesGrew
<1>5. l \notin {"read", "mev"}
  BY DEF Lists
<1> QED
  BY <1>2, <1>4, <1>5, RepliedStep

LEMMA RowsAreRows ==
  ASSUME PagesIInv, NEW t \in PageTabs, tab[t].calls # <<>>, NEW row, row = PageRow(Name(t), t)
  PROVE  /\ row \in RowType /\ row.by = t /\ row.gone = {} /\ row.name = Name(t)
<1>1. tab[t].calls \in Seq(PageCalls)
  BY TabIs
<1>2. PICK q \in Seq(PageCalls) : q = tab[t].calls
  BY <1>1
<1>3. Head(q) \in PageCalls
  BY <1>2
<1>4. PICK name \in Anything : name = Name(t)
  BY <1>2, <1>3 DEF PageCalls, Name
<1>5. row = [name |-> name, by |-> t, gone |-> {}, sealed |-> "none", kind |-> "webhook", rule |-> FALSE]
  BY <1>4 DEF PageRow
<1>6. row \in RowType /\ row.by = t /\ row.gone = {} /\ row.name = Name(t)
  BY <1>4, <1>5 DEF RowType, Kinds
<1> QED
  BY <1>6

LEMMA SealedKeys ==
  ASSUME PagesIInv
  PROVE  SealedUnder \in Keys \cup {"none", "lost"}
BY DEF PagesIInv, SealedUnder

LEMMA CreateStep ==
  ASSUME PagesIInv, NEW t \in PageTabs,
         CreateChannel(t) \/ CreateRoute(t) \/ CreateRule(t) \/ CreateSearch(t) \/ CreateFieldWatch(t) \/ CreateWatchlist(t)
  PROVE  PagesIInv'
<1>1. ASSUME NEW l \in {"routes", "rules", "searches", "watches"}, Create(t, l) PROVE PagesIInv'
  <2>1. l \in Lists \ NeverFilled /\ l # "mev"
    BY <1>1 DEF Lists, NeverFilled
  <2>2. PICK row : row = PageRow(Name(t), t)
    OBVIOUS
  <2>3. Served(t, l) /\ Insert(l, row) /\ Reply(t) /\ open' = open /\ env' = env /\ test' = test
    BY <1>1, <2>2 DEF Create, Rest
  <2>4. tab[t].calls # <<>>
    BY <2>3 DEF Served
  <2>5. row \in RowType /\ row.by = t /\ row.gone = {}
    BY <2>2, <2>4, RowsAreRows
  <2> QED
    BY <2>1, <2>3, <2>5, InsertStep
<1>2. CASE CreateChannel(t)
  <2>1. "channels" \in Lists \ NeverFilled /\ "channels" # "mev"
    BY DEF Lists, NeverFilled
  <2>2. PICK kind \in Kinds : Insert("channels", [PageRow(Name(t), t) EXCEPT !.sealed = SealedUnder, !.kind = kind])
    BY <1>2 DEF CreateChannel, Kinds
  <2>3. Served(t, "channels") /\ Reply(t) /\ open' = open /\ env' = env /\ test' = test
    BY <1>2 DEF CreateChannel, Rest
  <2>4. PICK r0, row, s : /\ r0 = PageRow(Name(t), t) /\ s = SealedUnder /\ s \in Keys \cup {"none", "lost"}
                          /\ row = [r0 EXCEPT !.sealed = s, !.kind = kind]
    BY SealedKeys
  <2>5. tab[t].calls # <<>>
    BY <2>3 DEF Served
  <2>6. row \in RowType /\ row.by = t /\ row.gone = {}
    <3>1. r0 \in RowType /\ r0.by = t /\ r0.gone = {}
      BY <2>4, <2>5, RowsAreRows
    <3> QED
      BY <2>4, <3>1 DEF RowType
  <2>7. Insert("channels", row)
    BY <2>2, <2>4
  <2> QED
    BY <2>1, <2>3, <2>6, <2>7, InsertStep
<1>3. CASE CreateWatchlist(t)
  <2>1. "watchlists" \in Lists \ NeverFilled /\ "watchlists" # "mev"
    BY DEF Lists, NeverFilled
  <2>2. PICK rule \in BOOLEAN : Insert("watchlists", [PageRow(Name(t), t) EXCEPT !.rule = rule])
    BY <1>3 DEF CreateWatchlist
  <2>3. Served(t, "watchlists") /\ Reply(t) /\ open' = open /\ env' = env /\ test' = test
    BY <1>3 DEF CreateWatchlist
  <2>4. PICK r0, row : r0 = PageRow(Name(t), t) /\ row = [r0 EXCEPT !.rule = rule]
    OBVIOUS
  <2>5. tab[t].calls # <<>>
    BY <2>3 DEF Served
  <2>6. row \in RowType /\ row.by = t /\ row.gone = {}
    <3>1. r0 \in RowType /\ r0.by = t /\ r0.gone = {}
      BY <2>4, <2>5, RowsAreRows
    <3> QED
      BY <2>4, <3>1 DEF RowType
  <2>7. Insert("watchlists", row)
    BY <2>2, <2>4
  <2> QED
    BY <2>1, <2>3, <2>6, <2>7, InsertStep
<1> QED
  BY <1>1, <1>2, <1>3 DEF CreateRoute, CreateRule, CreateSearch, CreateFieldWatch

LEMMA ThrowStep ==
  ASSUME PagesIInv, NEW t \in PageTabs, tab[t].calls # <<>>, Throw(t), open' = open, env' = env, test' = test, table' = table
  PROVE  PagesIInv'
<1>1. /\ tab[t] \in TabType /\ TabOK(tab[t], t, table, Pages[open]) /\ tab = [u \in PageTabs |-> tab[u]]
  BY TabIs
<1>2. PICK b \in BOOLEAN : b = (tab[t].bad \/ Head(tab[t].calls).op = "read")
  OBVIOUS
<1>3. PICK p2 : p2 = Thrown(tab[t], b)
  OBVIOUS
<1>4. TabOK(p2, t, table, Pages[open])
  BY <1>1, <1>3, TabThrown
<1>5. TabBecomes(t, p2)
  BY <1>1, <1>2, <1>3 DEF Throw, Thrown, TabType, TabBecomes
<1> QED
  BY <1>4, <1>5, TabMovesAlone

LEMMA UniqueStep ==
  ASSUME PagesIInv, NEW t \in PageTabs, CreateTag(t) \/ UpsertSchema(t) \/ DemoteEndpoint(t)
  PROVE  PagesIInv'
<1>1. PICK row : row = PageRow(Name(t), t)
  OBVIOUS
<1>2. tab[t].calls # <<>> => row \in RowType /\ row.by = t /\ row.gone = {}
  BY <1>1, RowsAreRows
<1>3. ASSUME NEW l \in {"schemas", "endpoints"}, Upsert(t, l) PROVE PagesIInv'
  <2>1. l \in Lists \ NeverFilled /\ l \notin {"read", "mev"} /\ l # "mev"
    BY <1>3 DEF Lists, NeverFilled
  <2>2. Served(t, l) /\ Reply(t) /\ open' = open /\ env' = env /\ test' = test
    BY <1>3 DEF Upsert, Rest
  <2>3. row \in RowType /\ row.by = t /\ row.gone = {}
    BY <1>2, <2>2 DEF Served
  <2>4. CASE table' = table
    <3>1. TablesOK(table') /\ Kept(table, table', t) /\ table'["mev"] = table["mev"]
      BY <2>4, TablesSame, TabIs
    <3> QED
      BY <2>1, <2>2, <3>1, RepliedStep
  <2>5. CASE Insert(l, row)
    BY <2>1, <2>2, <2>3, <2>5, InsertStep
  <2> QED
    BY <1>1, <1>3, <2>4, <2>5 DEF Upsert
<1>4. CASE CreateTag(t)
  <2>1. "tags" \in Lists \ NeverFilled /\ "tags" # "mev"
    BY DEF Lists, NeverFilled
  <2>2. Served(t, "tags") /\ open' = open /\ env' = env /\ test' = test
    BY <1>4 DEF CreateTag, Rest
  <2>3. row \in RowType /\ row.by = t /\ row.gone = {} /\ tab[t].calls # <<>>
    BY <1>2, <2>2 DEF Served
  <2>4. CASE Throw(t) /\ table' = table
    BY <2>2, <2>3, <2>4, ThrowStep
  <2>5. CASE Insert("tags", row) /\ Reply(t)
    BY <2>1, <2>2, <2>3, <2>5, InsertStep
  <2> QED
    BY <1>1, <1>4, <2>4, <2>5 DEF CreateTag
<1> QED
  BY <1>3, <1>4 DEF UpsertSchema, DemoteEndpoint

LEMMA DeleteStep ==
  ASSUME PagesIInv, NEW t \in PageTabs, DeleteSchema(t)
  PROVE  PagesIInv'
<1>1. PICK n, tb2 : n = Name(t) /\ tb2 = [table EXCEPT !["schemas"][n].gone = @ \cup {t}]
  OBVIOUS
<1>2. table' = tb2
  BY <1>1 DEF DeleteSchema
<1>3. TablesOK(tb2) /\ Kept(table, tb2, t) /\ tb2["mev"] = table["mev"]
  <2>1. TablesOK(table)
    BY TabIs
  <2> QED
    BY <1>1, <2>1, TablesDropped
<1>4. Served(t, "delete") /\ Reply(t) /\ open' = open /\ env' = env /\ test' = test
  BY DEF DeleteSchema, Rest
<1> QED
  BY <1>2, <1>3, <1>4, RepliedStep

LEMMA SetMevStep ==
  ASSUME PagesIInv, NEW t \in PageTabs, SetMev(t)
  PROVE  PagesIInv'
<1>1. /\ tab[t] \in TabType /\ TabOK(tab[t], t, table, Pages[open]) /\ tab = [u \in PageTabs |-> tab[u]]
      /\ TablesOK(table) /\ IsPage(Pages[open])
  BY TabIs
<1>2. /\ tab[t].calls # <<>> /\ Head(tab[t].calls).op = "mev" /\ open' = open /\ env' = env /\ test' = test
  BY DEF SetMev, Served, Rest
<1>3. PICK row, tb2, p2 : row = PageRow(Name(t), t) /\ tb2 = table' /\ p2 = Flipped(tab[t])
  OBVIOUS
<1>4. row \in RowType /\ row.by = t /\ row.gone = {} /\ row.name = Name(t)
  BY <1>2, <1>3, RowsAreRows
<1>5. "mev" \in Lists \ NeverFilled
  BY DEF Lists, NeverFilled
<1>6. Len(table["mev"]) < MaxRows /\ tb2 = [table EXCEPT !["mev"] = Append(table["mev"], row)]
  BY <1>3 DEF SetMev, Insert
<1>7. TablesGrew(table, tb2, t, "mev", row)
  BY <1>1, <1>4, <1>5, <1>6, TablesGrown
<1>8. /\ TablesOK(tb2) /\ Kept(table, tb2, t) /\ \A l \in Lists : l # "mev" => tb2[l] = table[l]
      /\ \A n \in 1 .. Len(table["mev"]) : tb2["mev"][n] = table["mev"][n]
      /\ tb2["mev"] # <<>> /\ tb2["mev"][Len(tb2["mev"])] = row
  BY <1>7 DEF TablesGrew
<1>9. tb2["mev"][Len(tb2["mev"])].name = Head(tab[t].calls).name
  BY <1>4, <1>8 DEF Name
<1>10. TabOK(p2, t, tb2, Pages[open])
  BY <1>1, <1>2, <1>3, <1>8, <1>9, TabFlipped
<1>11. TabBecomes(t, p2)
  BY <1>1, <1>2, <1>3 DEF SetMev, Flipped, Answering, TabType, TabBecomes
<1> QED
  BY <1>2, <1>3, <1>8, <1>10, <1>11, TabMoves

LEMMA ReadStep ==
  ASSUME PagesIInv, NEW t \in PageTabs, ReadList(t)
  PROVE  PagesIInv'
<1>1. /\ tab[t] \in TabType /\ TabOK(tab[t], t, table, Pages[open]) /\ tab = [u \in PageTabs |-> tab[u]]
      /\ TablesOK(table) /\ IsPage(Pages[open])
  BY TabIs
<1>2. tab[t].calls # <<>> /\ Head(tab[t].calls).op = "read" /\ ~Head(tab[t].calls).served
  BY DEF ReadList, Served
<1>3. PICK l, S, L : l = Head(tab[t].calls).name /\ S = Listed(l, t) /\ L = Pages[open]
  OBVIOUS
<1>4. \A m \in {"channels", "routes", "tags", "watchlists", "schemas", "rules", "endpoints"} : Listed(m, t) = Live(m)
  BY DEF Listed, ListChannels, ListRoutes, ListTags, ListWatchlists, ListSchemas, ListRules, ListEndpoints
<1>5. Listed("searches", t) = Made("searches", t)
  BY DEF Listed, ListSearches
<1>6. l \in {"channels", "routes", "tags", "watchlists", "schemas", "rules", "endpoints", "searches"} \/ Listed(l, t) = {}
  BY DEF Listed
<1>7. ASSUME NEW n \in S PROVE n \in 1 .. Len(table[l]) /\ table[l][n].gone = {}
  <2>1. S = Live(l) \/ S = Made(l, t)
    BY <1>3, <1>4, <1>5, <1>6, <1>7
  <2> QED
    BY <1>7, <2>1 DEF Live, Made
<1>8. S \subseteq Nat
  BY <1>7
<1>9. ASSUME NEW k \in 1 .. Len(L), ReadOf(Head(tab[t].calls), L, k) PROVE MadeBy(table, L[k], t) \subseteq S
  <2>1. l = L[k] /\ l \in Lists /\ l \notin {"mev", "watches"}
    BY <1>1, <1>3, <1>9 DEF ReadOf, IsPage
  <2>2. CASE l \in NeverFilled
    <3>1. table[l] = <<>>
      BY <1>1, <2>2 DEF TablesOK
    <3>2. MadeBy(table, l, t) = {}
      BY <3>1 DEF MadeBy
    <3> QED
      BY <2>1, <3>2
  <2>3. CASE l = "searches"
    <3>1. S = Made(l, t)
      BY <1>3, <1>5, <2>3
    <3> QED
      BY <2>1, <3>1 DEF MadeBy, Made, Live
  <2>4. CASE l \in {"channels", "routes", "tags", "watchlists", "schemas", "rules", "endpoints"}
    <3>1. S = Live(l)
      BY <1>3, <1>4, <2>4
    <3> QED
      BY <2>1, <3>1 DEF MadeBy, Live
  <2> QED
    BY <2>1, <2>2, <2>3, <2>4 DEF Lists, NeverFilled
<1>10. PICK p2 : p2 = ReadInto(tab[t], {<<Head(tab[t].calls).name, n>> : n \in S}, Head(tab[t].calls).name)
  OBVIOUS
<1>11. \A n \in S : n \in 1 .. Len(table[Head(tab[t].calls).name]) /\ t \notin table[Head(tab[t].calls).name][n].gone
  BY <1>3, <1>7
<1>12. TabOK(p2, t, table, L)
  <2>1. \A k \in 1 .. Len(L) : ReadOf(Head(tab[t].calls), L, k) => MadeBy(table, L[k], t) \subseteq S
    BY <1>9
  <2>2. IsPage(L) /\ TabOK(tab[t], t, table, L) /\ TablesOK(table)
    BY <1>1, <1>3
  <2> QED
    BY <1>2, <1>8, <1>10, <1>11, <2>1, <2>2, TabRead
<1>13. TabBecomes(t, p2)
  BY <1>1, <1>3, <1>10 DEF ReadList, ReadInto, Answering, TabType, TabBecomes, Name
<1>14. open' = open /\ env' = env /\ test' = test /\ table' = table
  BY DEF ReadList, Rest
<1> QED
  BY <1>3, <1>12, <1>13, <1>14, TabMovesAlone

LEMMA RefuseStep ==
  ASSUME PagesIInv, NEW t \in PageTabs, Refuse(t)
  PROVE  PagesIInv'
<1>1. /\ tab[t] \in TabType /\ TabOK(tab[t], t, table, Pages[open]) /\ tab = [u \in PageTabs |-> tab[u]]
      /\ IsPage(Pages[open]) /\ tab[t].calls \in Seq(PageCalls) /\ tab[t].calls # <<>>
  BY TabIs DEF Refuse
<1>2. PICK c : c = Head(tab[t].calls)
  OBVIOUS
<1>3. PICK marks : marks = CASE c.op = "read" -> {Name(t)} [] c.op = "mev" -> {"mev"} [] OTHER -> {}
  OBVIOUS
<1>4. c.op = "read" => c.name \in Lists
  <2>1. 1 \in 1 .. Len(tab[t].calls) /\ c = tab[t].calls[1] /\ QueueOK(tab[t].calls, Pages[open])
    BY <1>1, <1>2 DEF TabOK
  <2>2. c.op = "read" => \E k \in 1 .. Len(Pages[open]) : c.name = Pages[open][k]
    BY <2>1 DEF QueueOK, ReadOf
  <2> QED
    BY <1>1, <2>2 DEF IsPage
<1>5. marks \in SUBSET Lists /\ (c.op = "read" => c.name \in marks) /\ (c.op = "mev" => "mev" \in marks)
  <2>1. CASE c.op = "read"
    BY <1>2, <1>3, <1>4, <2>1 DEF Name
  <2>2. CASE c.op # "read"
    BY <1>3, <2>2 DEF Lists
  <2> QED
    BY <2>1, <2>2
<1>6. PICK p2 : p2 = Denied(tab[t], marks)
  OBVIOUS
<1>7. TabOK(p2, t, table, Pages[open])
  BY <1>1, <1>2, <1>5, <1>6, TabDenied
<1>8. TabBecomes(t, p2)
  BY <1>1, <1>2, <1>3, <1>6 DEF Refuse, Denied, Answering, TabType, TabBecomes
<1>9. open' = open /\ env' = env /\ test' = test /\ table' = table
  BY DEF Refuse
<1> QED
  BY <1>7, <1>8, <1>9, TabMovesAlone

LEMMA AnswerStep ==
  ASSUME PagesIInv, NEW t \in PageTabs, Changed(t) \/ Shown(t) \/ Switched(t)
  PROVE  PagesIInv'
<1>1. /\ tab[t] \in TabType /\ TabOK(tab[t], t, table, Pages[open]) /\ tab = [u \in PageTabs |-> tab[u]]
      /\ IsPage(Pages[open])
  BY TabIs
<1>2. tab[t].calls # <<>> /\ Head(tab[t].calls).served /\ open' = open /\ env' = env /\ test' = test /\ table' = table
  BY DEF Changed, Shown, Switched, PageAnswered, Same
<1>3. CASE Changed(t)
  <2>1. PICK name : name = IF Head(tab[t].calls).op = Form /\ open # "searches" THEN "" ELSE tab[t].typed
    OBVIOUS
  <2>2. name \in Names \cup {""}
    BY <1>1, <2>1 DEF TabType
  <2>3. PICK p2 : p2 = Cleared(tab[t], name, Pages[open])
    OBVIOUS
  <2>4. Head(tab[t].calls).op \notin {"read", "mev"}
    BY <1>3 DEF Changed
  <2>5. TabOK(p2, t, table, Pages[open])
    BY <1>1, <1>2, <2>2, <2>3, <2>4, TabCleared
  <2>6. TabBecomes(t, p2)
    BY <1>1, <1>3, <2>1, <2>3 DEF Changed, Cleared, TabType, Reload, Block, TabBecomes
  <2> QED
    BY <1>2, <2>5, <2>6, TabMovesAlone
<1>4. CASE Shown(t)
  <2>1. Head(tab[t].calls).op = "read"
    BY <1>4 DEF Shown
  <2>2. CASE Name(t) # Pages[open][Len(Pages[open])]
    <3>1. PICK p2 : p2 = Passed(tab[t])
      OBVIOUS
    <3>2. Head(tab[t].calls).name # Pages[open][Len(Pages[open])]
      BY <2>2 DEF Name
    <3>3. TabOK(p2, t, table, Pages[open])
      BY <1>1, <1>2, <2>1, <3>1, <3>2, TabPassed
    <3>4. TabBecomes(t, p2)
      BY <1>1, <1>4, <2>2, <3>1 DEF Shown, Passed, TabType, TabBecomes
    <3> QED
      BY <1>2, <3>3, <3>4, TabMovesAlone
  <2>3. CASE Name(t) = Pages[open][Len(Pages[open])]
    <3>1. PICK rows : rows = IF tab[t].bad THEN tab[t].view ELSE tab[t].got
      OBVIOUS
    <3>2. PICK p2 : p2 = Drawn(tab[t], rows)
      OBVIOUS
    <3>3. Head(tab[t].calls).name = Pages[open][Len(Pages[open])]
      BY <2>3 DEF Name
    <3>4. TabOK(p2, t, table, Pages[open])
      BY <1>1, <1>2, <2>1, <3>1, <3>2, <3>3, TabDrawn
    <3>5. TabBecomes(t, p2)
      BY <1>1, <1>4, <2>3, <3>1, <3>2 DEF Shown, Drawn, TabType, TabBecomes
    <3> QED
      BY <1>2, <3>4, <3>5, TabMovesAlone
  <2> QED
    BY <2>2, <2>3
<1>5. CASE Switched(t)
  <2>1. Head(tab[t].calls).op = "mev"
    BY <1>5 DEF Switched
  <2>2. PICK p2 : p2 = Turned(tab[t], Head(tab[t].calls).name)
    OBVIOUS
  <2>3. TabOK(p2, t, table, Pages[open])
    BY <1>1, <1>2, <2>1, <2>2, TabTurned
  <2>4. TabBecomes(t, p2)
    BY <1>1, <1>5, <2>2 DEF Switched, Turned, TabType, TabBecomes, Name
  <2> QED
    BY <1>2, <2>3, <2>4, TabMovesAlone
<1> QED
  BY <1>3, <1>4, <1>5

LEMMA TestStep ==
  ASSUME PagesIInv, TestSend
  PROVE  PagesIInv'
<1>1. PICK n \in Live("channels") :
        /\ test' = [row |-> n, delivered |-> Opens(table["channels"][n]) /\ Sends(table["channels"][n])]
        /\ UNCHANGED <<open, table, tab, env, clicks, breaks>>
  BY DEF TestSend
<1>2. PICK d : test' = [row |-> n, delivered |-> d] /\ (d => Opens(table["channels"][n]))
  BY <1>1
<1>3. n \in 1 .. Len(table["channels"])
  BY DEF Live
<1>4. TablesOK(table)
  BY DEF PagesIInv
<1>5. Len(table["channels"]) \in Nat
  <2>1. "channels" \in Lists
    BY DEF Lists
  <2> QED
    BY <1>4, <2>1 DEF TablesOK
<1>6. n \in 0 .. Len(table["channels"])
  BY <1>3, <1>5
<1>7. d => table["channels"][n].sealed # "lost"
  BY <1>2 DEF Opens, PagesIInv, Keys
<1>8. LostConfigsStaySilent'
  BY <1>1, <1>2, <1>7 DEF LostConfigsStaySilent
<1>9. test'.row = n
  BY <1>2
<1> QED
  BY <1>1, <1>6, <1>8, <1>9 DEF PagesIInv

LEMMA PagesStart ==
  ASSUME PagesInit
  PROVE  PagesIInv
<1>1. open \in DOMAIN Pages /\ table = [l \in Lists |-> <<>>] /\ IsPage(Pages[open])
  BY PagesAreLists DEF PagesInit
<1>2. TablesOK(table)
  <2>1. MaxRows \in Nat /\ NeverFilled \subseteq Lists
    BY OrgPagesAssumption DEF NeverFilled, Lists
  <2> QED
    BY <1>1, <2>1 DEF TablesOK
<1>3. env \in Keys \cup {"none"} /\ test.row = 0
  BY DEF PagesInit, Keys
<1>4. LostConfigsStaySilent
  BY <1>3 DEF LostConfigsStaySilent
<1>5. table["channels"] = <<>> /\ table["mev"] = <<>>
  BY <1>1 DEF Lists
<1>6. ASSUME NEW t \in PageTabs PROVE TabOK(tab[t], t, table, Pages[open])
  <2>1. PICK L, p : L = Pages[open] /\ p = tab[t]
    OBVIOUS
  <2>2. PICK r : r = <<>> \o Block(L)
    OBVIOUS
  <2>3. <<>> \in Seq(PageCalls) /\ QueueOK(<<>>, L) /\ ~Changing(<<>>) /\ ~Reads(<<>>)
    BY DEF QueueOK, Changing, Reads
  <2>4. QueueLonger(<<>>, r, L)
    <3>1. \A i \in 1 .. Len(<<>>) : ~(<<>>)[i].served
      OBVIOUS
    <3> QED
      BY <1>1, <2>1, <2>2, <2>3, <3>1, QueueReloaded
  <2>5. r = Block(L)
    <3>1. Block(L) \in Seq(PageCalls)
      BY <1>1, <2>1, BlockReads
    <3> QED
      BY <2>2, <3>1
  <2>6. p = [Idle EXCEPT !.calls = r]
    BY <2>1, <2>5 DEF PagesInit, Reload, Block
  <2>7. /\ p \in TabType /\ p.calls = r /\ p.view = {} /\ p.got = {} /\ p.threw = FALSE /\ p.bad = FALSE
      /\ p.refused = {}
    BY <2>4, <2>6 DEF Idle, TabType, Anything, QueueLonger
  <2>8. Existing({}, table) /\ Undeleted({}, t, table)
    BY DEF Existing, Undeleted
  <2>9. ReloadOK(p, t, table, L)
    BY <2>4, <2>7, <2>8 DEF ReloadOK, QueueLonger
  <2>10. SwitchOK(p, t, table["mev"])
    BY <1>5 DEF SwitchOK
  <2> QED
    BY <2>1, <2>4, <2>7, <2>8, <2>9, <2>10 DEF TabOK, QueueLonger
<1>7. tab = [t \in PageTabs |-> tab[t]]
  BY DEF PagesInit
<1>8. test.row \in 0 .. Len(table["channels"])
  BY <1>3, <1>5
<1> QED
  BY <1>1, <1>2, <1>3, <1>4, <1>6, <1>7, <1>8 DEF PagesIInv

LEMMA PagesStep ==
  ASSUME PagesIInv, [PagesNext]_pageVars
  PROVE  PagesIInv'
<1>1. ASSUME NEW t \in PageTabs, Serve(t) PROVE PagesIInv'
  BY <1>1, CreateStep, UniqueStep, DeleteStep, SetMevStep, ReadStep DEF Serve
<1>2. ASSUME NEW t \in PageTabs, CallFails(t) PROVE PagesIInv'
  <2>1. tab[t].calls # <<>> /\ Throw(t) /\ open' = open /\ env' = env /\ test' = test /\ table' = table
    BY <1>2 DEF CallFails
  <2> QED
    BY <2>1, ThrowStep
<1>3. CASE Restart
  <2>1. env' \in Keys \cup {"none"} /\ UNCHANGED <<open, table, tab, test>>
    BY <1>3 DEF Restart
  <2> QED
    BY <2>1 DEF PagesIInv, LostConfigsStaySilent
<1>4. CASE UNCHANGED pageVars
  BY <1>4 DEF pageVars, PagesIInv, LostConfigsStaySilent
<1> QED
  BY <1>1, <1>2, <1>3, <1>4, ClickStep, AnswerStep, RefuseStep, TestStep DEF PagesNext

LEMMA PagesMean ==
  ASSUME PagesIInv
  PROVE  PagesInv
<1>1. OrgPagesTypeOK
  <2>1. \A t \in PageTabs : Existing(tab[t].view, table)
    BY DEF PagesIInv, TabOK
  <2> QED
    BY <2>1 DEF OrgPagesTypeOK, PagesIInv, TablesOK, Existing
<1>2. ASSUME NEW t \in PageTabs, AtRest(t)
      PROVE  /\ ~Changing(tab[t].calls) /\ ~Reads(tab[t].calls) /\ ~Switching(tab[t].calls)
             /\ ReloadOK(tab[t], t, table, Pages[open]) /\ SwitchOK(tab[t], t, table["mev"])
             /\ \A k \in 1 .. Len(Pages[open]) : ~Comes(tab[t].calls, Pages[open], k)
  BY <1>2 DEF PagesIInv, TabOK, AtRest, Changing, Reads, Switching, Comes
<1>3. OwnChangesAreShown
  <2> SUFFICES ASSUME NEW t \in PageTabs, NEW n \in 1 .. Len(Pages[open]), AtRest(t)
               PROVE  /\ Pages[open][n] \notin tab[t].refused =>
                           \A m \in Made(Pages[open][n], t) : <<Pages[open][n], m>> \in tab[t].view
                      /\ \A r \in tab[t].view : t \notin table[r[1]][r[2]].gone
    BY DEF OwnChangesAreShown
  <2>1. /\ Pages[open][n] \notin tab[t].refused => Complete(tab[t].view, t, table, Pages[open][n])
        /\ Undeleted(tab[t].view, t, table)
    BY <1>2 DEF ReloadOK
  <2>2. Made(Pages[open][n], t) = MadeBy(table, Pages[open][n], t)
    BY DEF Made, Live, MadeBy
  <2> QED
    BY <2>1, <2>2 DEF Complete, Undeleted
<1>4. SwitchShowsItsRow
  <2> SUFFICES ASSUME NEW t \in PageTabs, Len(table["mev"]) > 0, AtRest(t), "mev" \notin tab[t].refused,
                      table["mev"][Len(table["mev"])].by = t
               PROVE  tab[t].on = table["mev"][Len(table["mev"])].name
    BY DEF SwitchShowsItsRow
  <2>1. table["mev"] # <<>>
    OBVIOUS
  <2> QED
    BY <1>2, <2>1 DEF SwitchOK
<1> QED
  BY <1>1, <1>3, <1>4 DEF PagesInv, PagesIInv

\* What clicks, reloads, refused and failed calls, restarts and other tabs leave at rest:
\* a page shows every row of its own in a list whose last reading was not refused, and
\* none it deleted; the MEV switch shows what was stored last by it, unless its next
\* switch was refused; and a channel sealed under a lost key never delivers a test.
THEOREM PagesInvariant == PagesSpec => []PagesInv
<1>1. PagesInit => PagesIInv
  BY PagesStart
<1>2. PagesIInv /\ [PagesNext]_pageVars => PagesIInv'
  BY PagesStep
<1>3. PagesIInv => PagesInv
  BY PagesMean
<1> QED
  BY <1>1, <1>2, <1>3, PTL DEF PagesSpec
=============================================================================
