----------------------------- MODULE MCPlatform ------------------------------
(***************************************************************************)
(* Accounts, organizations, programs, compute-unit checks, the pages with  *)
(* lists, live mode and the file it edits, the decoder's reading of a log  *)
(* and the endpoints that read its tables, for TLC.  They share no state   *)
(* but the rows their gates read, so a behaviour chooses one of them and   *)
(* leaves the others in one initial state.                                 *)
(***************************************************************************)
EXTENDS Accounts, Orgs, ControlPlane, CuChecks, OrgPages, LiveTab, VariantFile, CallTree, ReadSide

VARIABLE part

platformVars ==
  <<part, accountVars, orgVars, cpVars, cuVars, pageVars, liveVars, fileVars, callVars, readVars>>

AnyCommit == CHOOSE c \in Commits : TRUE

PlatformInit ==
  /\ part \in {"accounts", "orgs", "programs", "checks", "pages", "live", "file", "calls", "reads"}
  /\ AccountsInit /\ OrgsInit /\ CPInit /\ CuInit /\ PagesInit /\ LiveInit /\ VariantFileInit
  /\ CallsInit
  /\ IF part = "reads" THEN ReadInit ELSE content = [t \in Slots |-> Bodies[1]] /\ NothingRead
  /\ part # "checks" => \A j \in Jobs : job[j].commit = AnyCommit /\ ~job[j].main
  /\ part # "pages" => open = "tags"
  /\ part # "file" => jsx /\ file = Simple

AccountsPart ==
  /\ part = "accounts" /\ AccountsNext
  /\ UNCHANGED <<orgVars, cpVars, cuVars, pageVars, liveVars, fileVars, callVars, readVars>>
OrgsPart ==
  /\ part = "orgs" /\ OrgsNext
  /\ UNCHANGED <<accountVars, cpVars, cuVars, pageVars, liveVars, fileVars, callVars, readVars>>
ProgramsPart ==
  /\ part = "programs" /\ CPNext
  /\ UNCHANGED <<accountVars, orgVars, cuVars, pageVars, liveVars, fileVars, callVars, readVars>>
ChecksPart ==
  /\ part = "checks" /\ CuNext
  /\ UNCHANGED <<accountVars, orgVars, cpVars, pageVars, liveVars, fileVars, callVars, readVars>>
PagesPart ==
  /\ part = "pages" /\ PagesNext
  /\ UNCHANGED <<accountVars, orgVars, cpVars, cuVars, liveVars, fileVars, callVars, readVars>>
LivePart ==
  /\ part = "live" /\ LiveNext
  /\ UNCHANGED <<accountVars, orgVars, cpVars, cuVars, pageVars, fileVars, callVars, readVars>>
FilePart ==
  /\ part = "file" /\ VariantFileNext
  /\ UNCHANGED <<accountVars, orgVars, cpVars, cuVars, pageVars, liveVars, callVars, readVars>>
CallsPart ==
  /\ part = "calls" /\ CallsNext
  /\ UNCHANGED <<accountVars, orgVars, cpVars, cuVars, pageVars, liveVars, fileVars, readVars>>
ReadsPart ==
  /\ part = "reads" /\ ReadNext
  /\ UNCHANGED <<accountVars, orgVars, cpVars, cuVars, pageVars, liveVars, fileVars, callVars>>

PlatformNext ==
  /\ \/ AccountsPart \/ OrgsPart \/ ProgramsPart \/ ChecksPart \/ PagesPart \/ LivePart \/ FilePart
     \/ CallsPart \/ ReadsPart
  /\ UNCHANGED part

PlatformSpec == PlatformInit /\ [][PlatformNext]_platformVars

\* What is read of a program's transactions: the calls of a log, and the lists over
\* the decoder's tables.
ReadInv ==
  /\ part = "calls" => CallTreeInv
  /\ part = "reads" => ReadsInv

Clients == Permutations(Browsers)
==============================================================================
