-------------------------------- MODULE Intake -------------------------------
(***************************************************************************)
(* What the backend makes of an IDL and of what it is sent with it: the    *)
(* check of a replay's modifications and what the replay service applies   *)
(* of them, the packs it recommends, the words it completes queries with,  *)
(* and a language model's translation of a question.                       *)
(***************************************************************************)
EXTENDS Integers, Sequences, FiniteSets, Query

VARIABLES
  idl,   \* the latest IDL: its instructions, each a name and the type of its argument
  sent,  \* what was sent to the backend
  told   \* its answer

intakeVars == <<idl, sent, told>>

NothingSent == [op |-> "none"]
NothingTold == [ok |-> FALSE]

Base == {"u", "i", "bool", "string", "pubkey", "defined"}
Ty(k, of, n) == [k |-> k, of |-> of, n |-> n]
Shapes == {Ty(b, <<>>, 0) : b \in Base} \cup {Ty(k, <<b>>, 1) : k \in {"option", "vec", "array"}, b \in {"u", "string"}}

\* Values as JSON has them: numbers, texts of a number, of a key, an object with the
\* bytes of the whole data, no value.
Plain == {"int", "fraction", "negative", "digits", "-digits", "text", "key", "true", "null", "bytes", "absent"}
Val(k, items) == [k |-> k, items |-> items]
ValuesSent == {Val(p, <<>>) : p \in Plain} \cup {Val("array", s) : s \in {<<>>, <<"int">>, <<"text">>, <<"int", "text">>}}

NothingDone == sent = NothingSent /\ told = NothingTold

\* An instruction of each pack, and one of none.
PackOf == [swap |-> "dex", borrow |-> "lending", mint |-> "nft", release |-> "escrow", vote |-> "governance",
           stake |-> "staking", other |-> ""]
Unsigned == Ty("u", <<>>, 0)
IntakeInit ==
  /\ idl \in {f \in [1 .. 2 -> [name : DOMAIN PackOf, type : Shapes]] :
               /\ f[2].type = Unsigned
               /\ f[1].type = Unsigned \/ {f[1].name, f[2].name} = {"other"}}
  /\ NothingDone

-----------------------------------------------------------------------------
(* Modifications. *)

ScalarMatches(type, k) ==
  CASE type = "u" -> k \in {"int", "fraction", "digits"}
    [] type = "i" -> k \in {"int", "fraction", "negative", "digits", "-digits"}
    [] type = "bool" -> k = "true"
    [] type = "string" -> k \in {"text", "key", "digits", "-digits"}
    [] type = "pubkey" -> k = "key"
    [] OTHER -> TRUE

ValidateIdlScalarValue(type, value) ==
  CASE type.k = "option" -> value.k = "null" \/ ScalarMatches(type.of[1], value.k)
    [] type.k \in {"vec", "array"} ->
         /\ value.k = "array"
         /\ type.k = "array" => Len(value.items) = type.n
         /\ \A i \in DOMAIN value.items : ScalarMatches(type.of[1], value.items[i])
    [] OTHER -> ScalarMatches(type.k, value.k)

\* The place of the argument's instruction is looked up in the IDL.
ValidateReplayModification(m) ==
  CASE m.type = "OverrideIxArg" ->
         m.ix \in DOMAIN idl /\ m.known /\ ValidateIdlScalarValue(idl[m.ix].type, m.value)
    [] m.type = "OverrideAccountOwner" -> m.value.k = "key"
    [] m.type = "OverrideLamports" -> m.value.k # "absent"
    [] OTHER -> TRUE

\* What the schema lets through: all fields are optional, lamports are no fraction.
Modification ==
  {[type |-> "OverrideIxArg", ix |-> i, known |-> b, value |-> v] : i \in 1 .. 3, b \in BOOLEAN, v \in ValuesSent}
    \cup {[type |-> y, pubkey |-> b, value |-> Val(k, <<>>)] :
            y \in {"OverrideAccountData", "OverrideAccountOwner"}, b \in BOOLEAN, k \in {"text", "key", "absent"}}
    \cup {[type |-> "OverrideLamports", pubkey |-> b, value |-> Val(k, <<>>)] : b \in BOOLEAN, k \in {"int", "absent"}}

\* The replay service reads all of a request or nothing, and of an argument it
\* applies whole data only.
Decodes(m) == m.value.k # "absent" /\ (m.type # "OverrideIxArg" => m.pubkey)
Applies(m) == Decodes(m) /\ (m.type = "OverrideIxArg" => m.value.k = "bytes")

PostReplay ==
  \E m \in Modification :
    /\ sent' = [op |-> "replay", with |-> m]
    /\ told' = [ok |-> ValidateReplayModification(m), read |-> Decodes(m), applied |-> Applies(m)]

-----------------------------------------------------------------------------
(* Recommendations and templates. *)

Packs == {"generic_anchor", "dex", "lending", "nft", "escrow", "governance", "staking"}
PanelsOf(kind) == IF kind = "generic_anchor" THEN 9 ELSE 0
Recommended ==
  LET hits == {PackOf[idl[i].name] : i \in DOMAIN idl} \ {""}
  IN IF hits = {} THEN {"generic-anchor"} ELSE hits

InstallTemplatePack(kind) == [ok |-> kind \in Packs, panels |-> IF kind \in Packs THEN PanelsOf(kind) ELSE 0]
InstallRecommended ==
  \E pack \in Recommended :
    /\ sent' = [op |-> "install", with |-> pack]
    /\ told' = InstallTemplatePack(pack)

-----------------------------------------------------------------------------
(* The catalog and the translation of a question. *)

Catalog ==
  [labels |-> {"instruction", "error_name", "event_type"},
   metricLabels |-> [calls |-> {"instruction", "status"}, errors |-> {"instruction", "error_name"},
                     fees |-> {"signer", "status"}]]
GetCatalog ==
  /\ sent' = [op |-> "catalog"]
  /\ told' = [ok |-> TRUE, words |-> Catalog.labels, by |-> Catalog.metricLabels]

\* Confidence in tenths.
Translate(answer) ==
  IF answer.json # "object" THEN [ok |-> TRUE, dsl |-> FALSE, confidence |-> 2]
  ELSE [ok |-> TRUE, dsl |-> answer.dsl,
        confidence |-> IF answer.confidence = "none" THEN 5 ELSE Max({0, Min({10, answer.tenths})})]
AskInWords ==
  \E json \in {"no", "null", "object"}, dsl \in BOOLEAN, confidence \in {"none", "number"}, tenths \in {-1, 4, 11} :
    LET answer == [json |-> json, dsl |-> dsl, confidence |-> confidence, tenths |-> tenths]
    IN sent' = [op |-> "words", with |-> answer] /\ told' = Translate(answer)

IntakeNext ==
  /\ sent = NothingSent
  /\ PostReplay \/ InstallRecommended \/ GetCatalog \/ AskInWords
  /\ UNCHANGED idl
IntakeSpec == IntakeInit /\ QueryInit /\ [][IntakeNext /\ UNCHANGED queryVars]_<<intakeVars, queryVars>>
-----------------------------------------------------------------------------

\* The values of a type, as the IDL means it.
Fits(type, value) ==
  LET fits(b, k) == CASE b = "u" -> k \in {"int", "digits"}
                      [] b = "i" -> k \in {"int", "negative", "digits", "-digits"}
                      [] b = "bool" -> k = "true"
                      [] b = "string" -> k \in {"text", "key", "digits", "-digits"}
                      [] b = "pubkey" -> k = "key"
                      [] OTHER -> FALSE
  IN CASE type.k \in Base -> fits(type.k, value.k)
       [] type.k = "option" -> value.k = "null" \/ fits(type.of[1], value.k)
       [] OTHER -> /\ value.k = "array" /\ type.k = "array" => Len(value.items) = type.n
                   /\ value.k = "array" /\ \A i \in DOMAIN value.items : fits(type.of[1], value.items[i])

\* A value of the argument's type is accepted, and of an unsigned one none that is
\* negative; what is accepted for a scalar is not applied by the replay, which takes
\* whole data only, and that is accepted for other types only.
ScalarsAreNeverApplied ==
  sent.op = "replay" /\ sent.with.type = "OverrideIxArg" /\ sent.with.ix \in DOMAIN idl /\ sent.with.known =>
    LET type == idl[sent.with.ix].type
    IN /\ Fits(type, sent.with.value) => told.ok
       /\ type.k = "u" /\ told.ok => sent.with.value.k \notin {"negative", "-digits"}
       /\ told.ok /\ told.applied => type.k = "defined"

\* The replay service can read what is accepted unless an account is not named, or
\* something is missing that nothing checks: the bytes of an account, or the value of
\* an argument whose type is none of the known.
UnreadableLacksAField ==
  sent.op = "replay" /\ told.ok /\ ~told.read =>
    LET m == sent.with
    IN \/ m.type # "OverrideIxArg" /\ ~m.pubkey
       \/ m.type = "OverrideAccountData" /\ m.value.k = "absent"
       \/ m.type = "OverrideIxArg" /\ m.value.k = "absent" /\ idl[m.ix].type.k = "defined"

\* No recommendation leads to a dashboard with panels: the packs that are recommended
\* are empty, and the one that is not has another name.
RecommendedPacksAreEmpty == sent.op = "install" => told.panels = 0

\* Every label of the catalog's metrics compiles with its metric; of the words that
\* are completed the event type compiles with none.
CatalogCompiles ==
  sent.op = "catalog" =>
    /\ \A m \in DOMAIN told.by : \A l \in told.by[m] : Compiled(Vec(m, <<<<l, "">>>>, 0)) /\ Compiled(Sum({l}, All(m)))
    /\ {l \in told.words : \E m \in DOMAIN LabelsOfMetric : Compiled(Sum({l}, All(m)))} = told.words \ {"event_type"}

\* A question is answered with some confidence between none and full, and with a
\* query only if the answer was an object that had one.
TranslationIsBounded ==
  sent.op = "words" =>
    told.confidence \in 0 .. 10 /\ (told.dsl => sent.with.json = "object" /\ sent.with.dsl)

IntakeInv ==
  /\ ScalarsAreNeverApplied /\ UnreadableLacksAField /\ RecommendedPacksAreEmpty
  /\ CatalogCompiles /\ TranslationIsBounded
==============================================================================
