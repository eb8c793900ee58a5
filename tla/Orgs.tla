-------------------------------- MODULE Orgs --------------------------------
(***************************************************************************)
(* Organizations, projects and members: the server actions of              *)
(* apps/web/actions/control-plane.ts with requireOrgRole, and the forms    *)
(* that wait for them.  An action checks, then writes in a transaction;    *)
(* between the check and the write the actions of others run.              *)
(*                                                                         *)
(* Every organization and project is given the same name, so that its slug *)
(* is the number of attempts; an organization is known by its slug.        *)
(***************************************************************************)
EXTENDS Naturals, FiniteSets

CONSTANTS
  People,   \* profiles
  Nobody,   \* none of them
  MaxOrgs,
  MaxProjects,
  MaxErrors \* bound: failed transactions

ASSUME OrgsAssumption == Nobody \notin People /\ MaxOrgs \in Nat \ {0} /\ MaxProjects \in Nat /\ MaxErrors \in Nat

VARIABLES
  member,   \* of each slug: the role of each person, "none" outside
  owns,     \* of each slug: its creator, or Nobody
  project,  \* of each slug: the slugs of its projects
  audited,  \* of each slug: the role of each person in the audit log
  act,      \* of each person: the server action under way
  orgForm,     \* of each person: busy, and whether a thrown action left it so
  raced,    \* history: people whose slug was taken after they had checked it
  errors

orgVars == <<member, owns, project, audited, act, orgForm, raced, errors>>

Slugs == 0 .. MaxOrgs - 1
ProjectSlugs == 0 .. MaxProjects - 1
Roles == {"viewer", "editor", "admin", "owner"}
Rank == [none |-> 0, viewer |-> 1, editor |-> 2, admin |-> 3, owner |-> 4]

NoAct == [op |-> "none", at |-> "idle", org |-> 0, try |-> 0, who |-> Nobody, role |-> "none"]
Outsider == [p \in People |-> "none"]

OrgsInit ==
  /\ member = [o \in Slugs |-> Outsider] /\ audited = member
  /\ owns = [o \in Slugs |-> Nobody]
  /\ project = [o \in Slugs |-> {}]
  /\ act = [p \in People |-> NoAct]
  /\ orgForm = [p \in People |-> [busy |-> FALSE, threw |-> FALSE]]
  /\ raced = {} /\ errors = 0

OwnerRole == "owner"
Taken(o) == owns[o] # Nobody
orgRows == <<member, owns, project, audited>>
-----------------------------------------------------------------------------
(* Submitting a form, and what it does with the answer. *)

SubmitForm(p, a) ==
  /\ act[p] = NoAct /\ ~orgForm[p].busy
  /\ act' = [act EXCEPT ![p] = a]
  /\ orgForm' = [orgForm EXCEPT ![p].busy = TRUE]
  /\ UNCHANGED <<orgRows, raced, errors>>

\* The onboarding page.
SubmitOrg(p) == SubmitForm(p, [NoAct EXCEPT !.op = "org", !.at = "slug"])

\* NewProjectForm.
SubmitProject(p) == \E o \in Slugs :
  Taken(o) /\ SubmitForm(p, [NoAct EXCEPT !.op = "project", !.at = "gate", !.org = o])

\* InviteMemberForm: its list of roles does not offer owner.
OfferedRoles == Roles \ {"owner"}
SubmitInvite(p) == \E o \in Slugs, q \in People, r \in OfferedRoles :
  Taken(o) /\ SubmitForm(p, [NoAct EXCEPT !.op = "invite", !.at = "gate", !.org = o, !.who = q, !.role = r])

\* Mutant of Resolve: the form is left as a thrown action leaves it.
ResolveBusy(p) ==
  /\ act' = [act EXCEPT ![p] = NoAct]
  /\ orgForm' = [orgForm EXCEPT ![p].threw = TRUE]

\* The answer, an error message among others, resets busy ...
Resolve(p) ==
  /\ act' = [act EXCEPT ![p] = NoAct]
  /\ orgForm' = [orgForm EXCEPT ![p].busy = FALSE]

\* ... but an action that throws does not return to the form.
Reject(p) ==
  /\ act' = [act EXCEPT ![p] = NoAct]
  /\ orgForm' = [orgForm EXCEPT ![p].threw = TRUE]

ReloadForm(p) ==
  /\ orgForm[p].threw
  /\ orgForm' = [orgForm EXCEPT ![p] = [busy |-> FALSE, threw |-> FALSE]]
  /\ UNCHANGED <<orgRows, act, raced, errors>>
-----------------------------------------------------------------------------
(* The server actions. *)

Proceed(p, step) == act' = [act EXCEPT ![p].at = step] /\ UNCHANGED orgForm

\* requireOrgRole: an outsider is redirected, too low a role is an error.
RoleFor(op) == IF op = "invite" THEN "admin" ELSE "editor"
RoleGate(p) ==
  /\ act[p].at = "gate"
  /\ IF Rank[member[act[p].org][p]] < Rank[RoleFor(act[p].op)]
     THEN Resolve(p)
     ELSE Proceed(p, IF act[p].op = "invite" THEN "write" ELSE "slug")
  /\ UNCHANGED <<orgRows, raced, errors>>

\* One lookup of the loop that looks for a free slug.
TrySlug(p) ==
  /\ act[p].at = "slug"
  /\ LET used == IF act[p].op = "org" THEN {o \in Slugs : Taken(o)} ELSE project[act[p].org]
         room == IF act[p].op = "org" THEN Slugs ELSE ProjectSlugs
     IN IF act[p].try \in used
        THEN /\ act[p].try + 1 \in room
             /\ act' = [act EXCEPT ![p].try = @ + 1] /\ UNCHANGED orgForm
        ELSE act[p].try \in room /\ Proceed(p, "write")
  /\ UNCHANGED <<orgRows, raced, errors>>

\* Whoever has checked this slug and not written yet has lost the race.
Losers(p, op, org) ==
  {q \in People \ {p} : act[q].op = op /\ act[q].at = "write" /\ act[q].try = act[p].try
                        /\ (op = "org" \/ act[q].org = org)}

\* Organization, its owner and the audit row, or a unique violation.
CreateOrganization(p) ==
  /\ act[p].op = "org" /\ act[p].at = "write"
  /\ LET o == act[p].try
     IN IF Taken(o)
        THEN Reject(p) /\ UNCHANGED <<orgRows, raced>>
        ELSE /\ owns' = [owns EXCEPT ![o] = p]
             /\ member' = [member EXCEPT ![o][p] = OwnerRole]
             /\ audited' = [audited EXCEPT ![o][p] = OwnerRole]
             /\ raced' = raced \cup Losers(p, "org", o)
             /\ Resolve(p)
             /\ UNCHANGED project
  /\ UNCHANGED errors

CreateProject(p) ==
  /\ act[p].op = "project" /\ act[p].at = "write"
  /\ LET o == act[p].org
     IN IF act[p].try \in project[o]
        THEN Reject(p) /\ UNCHANGED <<orgRows, raced>>
        ELSE /\ project' = [project EXCEPT ![o] = @ \cup {act[p].try}]
             /\ raced' = raced \cup Losers(p, "project", o)
             /\ Resolve(p)
             /\ UNCHANGED <<member, owns, audited>>
  /\ UNCHANGED errors

\* The member is upserted, whatever role it had.
InviteMember(p) ==
  /\ act[p].op = "invite" /\ act[p].at = "write"
  /\ LET a == act[p]
     IN /\ member' = [member EXCEPT ![a.org][a.who] = a.role]
        /\ audited' = [audited EXCEPT ![a.org][a.who] = a.role]
  /\ Resolve(p)
  /\ UNCHANGED <<owns, project, raced, errors>>

\* A statement fails: a transaction writes nothing.
ActFails(p) ==
  /\ act[p].at # "idle" /\ errors < MaxErrors /\ errors' = errors + 1
  /\ Reject(p)
  /\ UNCHANGED <<orgRows, raced>>

ServerAction(p) ==
  RoleGate(p) \/ TrySlug(p) \/ CreateOrganization(p) \/ CreateProject(p) \/ InviteMember(p)

OrgsNext == \E p \in People :
  \/ SubmitOrg(p) \/ SubmitProject(p) \/ SubmitInvite(p) \/ ReloadForm(p)
  \/ ServerAction(p) \/ ActFails(p)

OrgsSpec == OrgsInit /\ [][OrgsNext]_orgVars
-----------------------------------------------------------------------------
OrgsTypeOK ==
  /\ member \in [Slugs -> [People -> Roles \cup {"none"}]]
  /\ raced \subseteq People /\ errors \in 0 .. MaxErrors

\* The audit log tells the membership: the last row about a person has the
\* role the person has, whoever invited whom at the same time.
AuditTellsTheRoles == audited = member

\* Only creating an organization makes an owner, and nobody else ever is one.
OwnersCreated == \A o \in Slugs, p \in People : member[o][p] = "owner" => owns[o] = p

\* Without failures a form stays busy for ever only because two people were
\* given the same slug by the check.
StuckOnlyAfterARace ==
  errors = 0 => \A p \in People : orgForm[p].threw => p \in raced

\* What creations and invitations of several people keep: log and membership agree,
\* the owner is the creator, and forms recover but for the race for a slug.
OrgsInv ==
  /\ OrgsTypeOK /\ AuditTellsTheRoles /\ OwnersCreated /\ StuckOnlyAfterARace
=============================================================================
