------------------------------- MODULE ReadSide ------------------------------
(***************************************************************************)
(* The endpoints that read the decoder's tables, while rows arrive table   *)
(* by table, once more after a redelivery, are merged, or are hidden by a  *)
(* rollback: raw stream and its detail page, log search, trace search,     *)
(* wallet page, funnel, cohort and retention.  A transaction is its slot,  *)
(* and its block time.                                                     *)
(***************************************************************************)
EXTENDS Integers, Sequences, FiniteSets, FiniteSetsExt, SequencesExt, TLC

CONSTANTS Slots,  \* the transactions
          Again,  \* bound: those that may be delivered twice
          Forked, \* bound: those that may be rolled back
          Opened  \* bound: those whose page is opened

ASSUME ReadBounds == Slots \subseteq Nat \ {0} /\ Again \cup Forked \cup Opened \subseteq Slots

VARIABLES content, \* what each transaction is
          stored,  \* inserts each table has had of it
          txRows,  \* its rows in the table transactions, merged or not
          rolled,  \* transactions in the table rollbacks
          sheet,   \* the page that is open: what it shows and has still to read
          moved    \* rows of its wallet written or merged while a page was read

readVars == <<content, stored, txRows, rolled, sheet, moved>>

\* Mutant of Order: the log is stored before the rows it belongs to.
OrderLogFirst == <<"transactions", "tx_logs", "instructions", "events", "cpi_edges">>
\* The tables, in the order the decoder fills them.
Order == <<"transactions", "instructions", "events", "cpi_edges", "tx_logs">>
TableNames == Range(Order)

Tx(w, ok, ixs, calls, amounts) == [wallet |-> w, ok |-> ok, ixs |-> ixs, calls |-> calls, amounts |-> amounts]
Bodies == <<Tx("x", TRUE, <<"a", "b">>, <<"p">>, {5}), Tx("y", TRUE, <<"b">>, <<"p", "p">>, {1, 5}),
            Tx("x", FALSE, <<"a">>, <<>>, {})>>
Wallets == {"x", "y"}
IxNames == {"a", "b"}
Parts == [detail |-> {"tx", "instructions", "events", "cpi_edges"},
          wallet |-> {"activity", "errors", "stats"}]
NoPage == [at |-> "none", of |-> 0, left |-> {}, got |-> <<>>]

NothingRead ==
  /\ stored = [t \in Slots |-> [n \in TableNames |-> 0]]
  /\ txRows = [t \in Slots |-> 0]
  /\ rolled = {} /\ sheet = NoPage /\ moved = 0

ReadInit ==
  /\ content \in {[t \in Slots |-> Bodies[((t + shift) % Len(Bodies)) + 1]] : shift \in Slots}
  /\ NothingRead

-----------------------------------------------------------------------------
(* The decoder and the store. *)

Has(t, n) == stored[t][n] > 0
ByWallet(w) == {t \in Slots : content[t].wallet = w}

\* Rows of the open wallet page that change while it is read.
Moving(t) ==
  LET reading == sheet.at = "wallet" /\ sheet.left \notin {{}, Parts.wallet}
  IN moved' = IF reading /\ t \in ByWallet(sheet.of) THEN moved + 1 ELSE moved

InsertTx(t) ==
  /\ stored[t]["transactions"] < (IF t \in Again THEN 2 ELSE 1)
  /\ stored' = [stored EXCEPT ![t]["transactions"] = @ + 1]
  /\ txRows' = [txRows EXCEPT ![t] = @ + 1]
  /\ Moving(t)
  /\ UNCHANGED <<content, rolled, sheet>>

InsertRows(t, i) ==
  /\ stored[t][Order[i]] < stored[t][Order[i - 1]]
  /\ stored' = [stored EXCEPT ![t][Order[i]] = @ + 1]
  /\ UNCHANGED <<content, txRows, rolled, sheet, moved>>

\* ReplacingMergeTree drops all rows of a key but one, some time.
Merge(t) ==
  /\ txRows[t] > 1
  /\ txRows' = [txRows EXCEPT ![t] = 1]
  /\ Moving(t)
  /\ UNCHANGED <<content, stored, rolled, sheet>>

RollBack(t) ==
  /\ t \in Forked
  /\ rolled' = rolled \cup {t}
  /\ UNCHANGED <<content, stored, txRows, sheet, moved>>

-----------------------------------------------------------------------------
(* The lists: each is one query, newest slot first. *)

NewestOf(S, n) == {t \in S : Cardinality({u \in S : u > t}) < n}
Times(t, name) == Cardinality({i \in DOMAIN content[t].ixs : content[t].ixs[i] = name})

\* transactions LEFT JOIN instructions: every pair of rows, and a row without
\* partner has one empty name; a filter on the instruction drops the others' names.
NamesOf(t, only) ==
  IF ~Has(t, "instructions") THEN [n \in {""} |-> txRows[t]]
  ELSE [n \in {m \in IxNames : Times(t, m) > 0 /\ only \in {"", m}} |->
          txRows[t] * stored[t]["instructions"] * Times(t, n)]

RawStream(wallet, only, limit) ==
  LET hits == {t \in Slots \ rolled :
                /\ Has(t, "transactions")
                /\ wallet \in {"", content[t].wallet}
                /\ only # "" => only \in DOMAIN NamesOf(t, only)}
  IN [t \in NewestOf(hits, limit) |-> NamesOf(t, only)]

\* Of the instructions asked for the first counts; its row may be without its log.
Search(wallet, names) ==
  {t \in Slots \ rolled :
     /\ Has(t, "tx_logs")
     /\ wallet \in {"", content[t].wallet}
     /\ names # <<>> => Has(t, "instructions") /\ Times(t, names[1]) > 0}

\* cpi_edges JOIN instructions, by signature alone, and JOIN events for an amount:
\* a row per edge, instruction and event.
TraceRows(t, callee, above) ==
  LET amounts == Cardinality({a \in content[t].amounts : a > above})
  IN IF t \in rolled THEN 0
     ELSE stored[t]["cpi_edges"] * Cardinality({i \in DOMAIN content[t].calls : content[t].calls[i] = callee})
          * stored[t]["instructions"] * Len(content[t].ixs)
          * (IF above = 0 THEN 1 ELSE stored[t]["events"] * amounts)

-----------------------------------------------------------------------------
(* Pages of several queries, which run side by side. *)

Show(at, of, got) == sheet' = [at |-> at, of |-> of, left |-> {}, got |-> got]

ListRaw(wallet) == Show("raw", wallet, DOMAIN RawStream(wallet, "", 2))
ListHits(name) == Show("search", name, Search("", <<name>>))

Open(at, of) ==
  sheet' = [at |-> at, of |-> of, left |-> Parts[at], got |-> [p \in {} |-> {}]]
OpenListed(t) ==
  /\ sheet.at \in {"raw", "search"} /\ t \in sheet.got
  /\ sheet' = [at |-> "detail", of |-> t, left |-> Parts.detail,
              got |-> [p \in {sheet.at} |-> {}]]

\* Rows a part reads; neither page looks at the table rollbacks.
Part(p) ==
  LET has(n) == IF Has(sheet.of, n) THEN {sheet.of} ELSE {}
      rows(S) == MapThenSumSet(LAMBDA t : txRows[t], S)
  IN CASE p = "tx" -> has("transactions")
       [] p \in {"instructions", "events", "cpi_edges"} -> has(p)
       [] p \in {"activity", "stats"} -> rows(ByWallet(sheet.of))
       [] p = "errors" -> rows({t \in ByWallet(sheet.of) : ~content[t].ok})

ReadPart(p) ==
  /\ p \in sheet.left
  /\ sheet' = [sheet EXCEPT !.left = @ \ {p}, !.got = [q \in {p} |-> Part(p)] @@ @]

\* Bound: one wallet and one instruction are asked for.
ReadPages ==
  /\ \/ sheet.left = {} /\ (ListRaw("") \/ ListHits("a") \/ Open("wallet", "x"))
     \/ \E t \in Opened : OpenListed(t)
     \/ \E p \in sheet.left : ReadPart(p)
  /\ moved' = IF sheet.left = {} THEN 0 ELSE moved
  /\ UNCHANGED <<content, stored, txRows, rolled>>

ReadNext ==
  \/ \E t \in Slots : InsertTx(t) \/ Merge(t) \/ RollBack(t) \/ \E i \in 2 .. Len(Order) : InsertRows(t, i)
  \/ ReadPages
ReadSpec == ReadInit /\ [][ReadNext]_readVars

-----------------------------------------------------------------------------
(* Analytics: instructions of successful transactions, by signer.  The decoder *)
(* leaves the column at its default, so that all have one signer.               *)

Signer(t) == ""
Calls(name) == {t \in Slots : Has(t, "instructions") /\ content[t].ok /\ Times(t, name) > 0}
AnyCalls == UNION {Calls(n) : n \in IxNames}
Signers(S) == {Signer(t) : t \in S}

\* windowFunnel: steps at times that do not decrease, all within the window.
Reaches(steps, window, who, k) ==
  \E f \in [1 .. k -> Slots] :
    /\ \A i \in 1 .. k : f[i] \in Calls(steps[i]) /\ Signer(f[i]) = who /\ f[i] - f[1] <= window
    /\ \A i \in 1 .. k - 1 : f[i] <= f[i + 1]
Level(steps, window, who) == Max({0} \cup {k \in DOMAIN steps : Reaches(steps, window, who, k)})
Funnel(steps, window) ==
  [k \in 0 .. Len(steps) |-> Cardinality({w \in Signers(AnyCalls) : Level(steps, window, w) = k})]

Cohort(name) ==
  [w \in Signers(Calls(name)) |->
     MapThenSumSet(LAMBDA t : stored[t]["instructions"] * Times(t, name), {t \in Calls(name) : Signer(t) = w})]

\* A bucket is a transaction's slot.  Activity of a cohort, by distance from its start.
Retention(name) ==
  LET start(w) == Min({t \in Calls(name) : Signer(t) = w})
      at(w) == {t - start(w) : t \in {u \in AnyCalls : Signer(u) = w}}
  IN [d \in UNION {at(w) : w \in Signers(Calls(name))} |->
        Cardinality({w \in Signers(Calls(name)) : d \in at(w)})]

-----------------------------------------------------------------------------

\* A transaction of a list can be opened: its page has the transaction, although the
\* list is older than the page and the rows come table by table, and all it consists
\* of if the log search found it.
ListedOpens ==
  sheet.at = "detail" /\ sheet.left = {} =>
    /\ sheet.got["tx"] # {}
    /\ "search" \in DOMAIN sheet.got => \A p \in Parts.detail : sheet.got[p] # {}

\* The three queries of a wallet page differ by no more than the rows that moved
\* while they ran.
WalletPageAgrees ==
  sheet.at = "wallet" /\ sheet.left = {} =>
    LET n(p) == sheet.got[p]
    IN n("activity") <= n("stats") + moved /\ n("stats") <= n("activity") + moved /\ n("errors") <= n("stats") + moved

\* What log and trace search find is in the raw stream, with all its instructions;
\* a wallet page has that and what was rolled back.
ListsAgree ==
  /\ \A t \in Slots :
       t \in Search("", <<>>) \/ TraceRows(t, "p", 0) > 0 =>
         /\ t \in DOMAIN RawStream("", "", Cardinality(Slots))
         /\ DOMAIN NamesOf(t, "") = Range(content[t].ixs)
  /\ \A w \in Wallets :
       {t \in ByWallet(w) : txRows[t] > 0}
         = DOMAIN RawStream(w, "", Cardinality(Slots)) \cup {t \in rolled \cap ByWallet(w) : txRows[t] > 0}

\* A trace search lists a call as often as its transaction has instructions, and as
\* often as the delivery of each was repeated.
TracesMultiply ==
  \A t \in Slots \ rolled :
    Has(t, "cpi_edges") => TraceRows(t, "p", 0) >= Len(content[t].calls) * Len(content[t].ixs)

\* Without its signers the funnel is one user's, who is as far as any wallet or
\* farther: one step may be one wallet's and the next another's.
FunnelMixesWallets ==
  LET f == Funnel(<<"a", "b">>, 1)
      own(w) == [b |-> \E t, u \in ByWallet(w) : t \in Calls("a") /\ u \in Calls("b") /\ t <= u /\ u - t <= 1,
                 a |-> ByWallet(w) \cap Calls("a") # {}]
  IN /\ f[0] + f[1] + f[2] = (IF AnyCalls = {} THEN 0 ELSE 1)
     /\ \A w \in Wallets : (own(w).b => f[2] = 1) /\ (own(w).a => f[0] = 0)
     /\ f[1] + f[2] = Cardinality(DOMAIN Cohort("a"))

\* A cohort is nowhere larger than at its start.
RetentionStartsFull ==
  \A n \in IxNames : \A d \in DOMAIN Retention(n) : Retention(n)[d] <= Retention(n)[0]

\* Lists and analytics do not depend on the page that is open.
ReadsInv ==
  /\ ListedOpens /\ WalletPageAgrees
  /\ sheet = NoPage =>
       ListsAgree /\ TracesMultiply /\ FunnelMixesWallets /\ RetentionStartsFull
==============================================================================
