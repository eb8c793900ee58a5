------------------------------ MODULE OrgPages ------------------------------
(***************************************************************************)
(* The pages of the web interface that show a list with a form above it:   *)
(* channels, routes and on-call of an organization, tags, watchlists, SDK  *)
(* schemas, alert rules, saved searches, field watches, RPC endpoints and  *)
(* the MEV switch, with the handlers of routes/org-settings.ts,            *)
(* routes/intel.ts and routes/programs.ts behind them.                     *)
(*                                                                         *)
(* Every page works alike: a click sends a server action, its answer is    *)
(* not looked at, the form is cleared and the list read again.  Next runs  *)
(* the server actions of one tab one after the other, in the order they    *)
(* were made; nothing keeps a user from clicking again.  The tabs of a     *)
(* behaviour have the same page open.  A row is what its list tells apart: *)
(* a name, the tab that made it and, for a channel, how it is sealed.      *)
(***************************************************************************)
EXTENDS Naturals, Sequences, FiniteSets

CONSTANTS
  PageTabs,   \* browser tabs
  Names,      \* what a user types, or an RPC endpoint
  MaxRows,    \* bound: rows of a list
  MaxClicks,  \* bound: clicks of all tabs
  MaxBreaks   \* bound: failed and refused calls, and restarts of the backend

ASSUME OrgPagesAssumption ==
  MaxRows \in Nat /\ MaxClicks \in Nat /\ MaxBreaks \in Nat

Lists == {"channels", "routes", "oncall", "tags", "watchlists", "schemas", "rules",
          "incidents", "searches", "watches", "endpoints", "mev", "findings"}
Kinds == {"webhook", "telegram"}   \* those the form's url is enough for, and the others
Keys == {"k1", "k2"}

VARIABLES
  open,    \* the page of this behaviour
  table,   \* the rows of each list, in the order they were made
  tab,     \* of each tab: its calls, what it shows, what is typed; and, for the properties
           \* alone, "refused": lists whose last reading was refused, "mev" if its last switch was
  env,     \* ALERT_ENCRYPTION_KEY of the running backend, or "none"
  test,    \* the last success of test-send: the row, and whether it was delivered
  clicks,
  breaks

pageVars == <<open, table, tab, env, test, clicks, breaks>>

PageRow(name, t) ==
  [name |-> name, by |-> t, gone |-> {}, sealed |-> "none", kind |-> "webhook", rule |-> FALSE]
Call(op, name) == [op |-> op, name |-> name, served |-> FALSE]
Idle == [calls |-> <<>>, view |-> {}, got |-> {}, typed |-> "", threw |-> FALSE,
         bad |-> FALSE, on |-> FALSE, refused |-> {}]

\* What a page reads when it is opened and after every change: a table of the
\* rows, or three of them, or the endpoints with their latencies.  What becomes
\* of a channel does not depend on the lists shown: "sealing" leaves them out.
ChannelsPage == <<"channels", "routes", "oncall">>
TagsPage == <<"tags">>
WatchlistsPage == <<"watchlists">>
SchemasPage == <<"schemas">>
AlertsPage == <<"rules", "incidents">>
SearchesPage == <<"searches">>
WatchesPage == <<>>
EndpointsPage == <<"endpoints">>
SecurityPage == <<"findings">>

Pages == [channels |-> ChannelsPage, tags |-> TagsPage, watchlists |-> WatchlistsPage,
          schemas |-> SchemasPage, rules |-> AlertsPage, searches |-> SearchesPage,
          watches |-> WatchesPage, endpoints |-> EndpointsPage, mev |-> SecurityPage,
          sealing |-> <<>>]
Reload == [n \in 1 .. Len(Pages[open]) |-> Call("read", Pages[open][n])]

PagesInit ==
  /\ open \in DOMAIN Pages
  /\ table = [l \in Lists |-> <<>>]
  /\ tab = [t \in PageTabs |-> [Idle EXCEPT !.calls = Reload]]
  /\ env \in (IF open = "sealing" THEN {"none", "k1"} ELSE {"none"})
  /\ test = [row |-> 0, delivered |-> TRUE] /\ clicks = 0 /\ breaks = 0

Live(l) == {n \in 1 .. Len(table[l]) : table[l][n].gone = {}}
Made(l, t) == {n \in Live(l) : table[l][n].by = t}
Named(l, name) == {n \in Live(l) : table[l][n].name = name}
-----------------------------------------------------------------------------
(* The user. *)

\* A click while an earlier one is answered goes to the end of the queue.
Post(t, op, name) ==
  /\ clicks < MaxClicks /\ clicks' = clicks + 1
  /\ tab' = [tab EXCEPT ![t].calls = Append(@, Call(op, name))]
  /\ UNCHANGED <<open, table, env, test, breaks>>

TypeName(t) == \E name \in Names :
  /\ open \notin {"endpoints", "mev"} /\ tab[t].typed = ""
  /\ tab' = [tab EXCEPT ![t].typed = name]
  /\ UNCHANGED <<open, table, env, test, clicks, breaks>>

\* Without a name the button is disabled, or its handler returns.
Form == IF open = "sealing" THEN "channels" ELSE open
ClickAdd(t) == tab[t].typed # "" /\ Post(t, Form, tab[t].typed)

\* The route goes to the first channel shown, which is the newest one.
Newest(rows) == CHOOSE n \in rows : \A m \in rows : m <= n
ClickRoute(t) == LET shown == {n \in 1 .. Len(table["channels"]) : <<"channels", n>> \in tab[t].view}
                 IN shown # {} /\ open = "channels" /\ Post(t, "routes", Newest(shown))

ClickDelete(t) == open = "schemas" /\ \E r \in tab[t].view : Post(t, "delete", r[2])

ClickDemote(t) == open = "endpoints" /\ \E e \in Names :
  /\ \A r \in tab[t].view : table["endpoints"][r[2]].name # e
  /\ Post(t, "endpoints", e)

\* The switch sends the opposite of what it shows, which starts at off.
ClickSwitch(t) == open = "mev" /\ Post(t, "mev", ~tab[t].on)

ClickAny(t) ==
  TypeName(t) \/ ClickAdd(t) \/ ClickRoute(t) \/ ClickDelete(t) \/ ClickDemote(t) \/ ClickSwitch(t)
-----------------------------------------------------------------------------
(* The handlers: each serves the call a tab waits for. *)

Served(t, op) == tab[t].calls # <<>> /\ ~Head(tab[t].calls).served /\ Head(tab[t].calls).op = op
Name(t) == Head(tab[t].calls).name
Reply(t) == tab' = [tab EXCEPT ![t].calls[1].served = TRUE]
Insert(l, row) == Len(table[l]) < MaxRows /\ table' = [table EXCEPT ![l] = Append(@, row)]
Rest == UNCHANGED <<open, env, test, clicks, breaks>>

\* A server action whose answer is no JSON throws: what its click had still to do
\* is not done, and a reload with such a read shows nothing new.
Throw(t) == tab' = [tab EXCEPT ![t].calls = Tail(@), ![t].threw = TRUE,
                               ![t].bad = @ \/ Head(tab[t].calls).op = "read"]

\* A fresh random key seals the config when none is set, and is forgotten.
SealedUnder == IF env = "none" THEN "lost" ELSE env

CreateChannel(t) ==
  /\ Served(t, "channels")
  /\ \E kind \in (IF open = "sealing" THEN Kinds ELSE {"webhook"}) :
       Insert("channels", [PageRow(Name(t), t) EXCEPT !.sealed = SealedUnder, !.kind = kind])
  /\ Reply(t) /\ Rest

Create(t, l) == Served(t, l) /\ Insert(l, PageRow(Name(t), t)) /\ Reply(t) /\ Rest
CreateRoute(t) == Create(t, "routes")
CreateRule(t) == Create(t, "rules")
CreateSearch(t) == Create(t, "searches")
CreateFieldWatch(t) == Create(t, "watches")

\* (scope, organization, name) is unique.
CreateTag(t) ==
  /\ Served(t, "tags")
  /\ IF Named("tags", Name(t)) # {} THEN Throw(t) /\ UNCHANGED table
     ELSE Insert("tags", PageRow(Name(t), t)) /\ Reply(t)
  /\ Rest

\* Two statements.  The second, the rule, may fail without a word.
CreateWatchlist(t) ==
  /\ Served(t, "watchlists")
  /\ \E rule \in BOOLEAN :
       /\ Insert("watchlists", [PageRow(Name(t), t) EXCEPT !.rule = rule])
       /\ rule \/ breaks < MaxBreaks
       /\ breaks' = IF rule THEN breaks ELSE breaks + 1
  /\ Reply(t) /\ UNCHANGED <<open, env, test, clicks>>

\* The row of this name, made when there is none.
Upsert(t, l) ==
  /\ Served(t, l)
  /\ IF Named(l, Name(t)) # {} THEN UNCHANGED table ELSE Insert(l, PageRow(Name(t), t))
  /\ Reply(t) /\ Rest
UpsertSchema(t) == Upsert(t, "schemas")
DemoteEndpoint(t) == Upsert(t, "endpoints")

\* Deleting a row that is gone is no error.
DeleteSchema(t) ==
  /\ Served(t, "delete")
  /\ table' = [table EXCEPT !["schemas"][Name(t)].gone = @ \cup {t}]
  /\ Reply(t) /\ Rest

\* solana_programs.mev_detection_enabled, kept as the history of its values.
SetMev(t) ==
  /\ Served(t, "mev") /\ Insert("mev", PageRow(Name(t), t))
  /\ tab' = [tab EXCEPT ![t].calls[1].served = TRUE, ![t].refused = @ \ {"mev"}]
  /\ Rest

\* What each list holds at this moment: every row, and of the searches one's own.
ListChannels == Live("channels")
ListRoutes == Live("routes")
ListTags == Live("tags")
ListWatchlists == Live("watchlists")
ListSchemas == Live("schemas")
ListRules == Live("rules")
ListSearches(t) == Made("searches", t)
ListEndpoints == Live("endpoints")
Listed(l, t) ==
  CASE l = "channels" -> ListChannels [] l = "routes" -> ListRoutes
    [] l = "tags" -> ListTags [] l = "watchlists" -> ListWatchlists
    [] l = "schemas" -> ListSchemas [] l = "rules" -> ListRules
    [] l = "searches" -> ListSearches(t) [] l = "endpoints" -> ListEndpoints
    [] OTHER -> {}

ReadList(t) ==
  /\ Served(t, "read")
  /\ tab' = [tab EXCEPT ![t].calls[1].served = TRUE,
                        ![t].got = @ \cup {<<Name(t), n>> : n \in Listed(Name(t), t)},
                        ![t].refused = @ \ {Name(t)}]
  /\ UNCHANGED table /\ Rest

\* A statement fails, or the answer to what was done is lost.
CallFails(t) ==
  /\ tab[t].calls # <<>> /\ breaks < MaxBreaks /\ breaks' = breaks + 1
  /\ Throw(t)
  /\ UNCHANGED <<open, table, env, test, clicks>>

\* The session has ended, the membership or the row its gate asks for is gone: the
\* answer says so in JSON, and no page looks.  A list without rows is an empty one,
\* and a refused change an answered one.
Refuse(t) ==
  /\ tab[t].calls # <<>> /\ ~Head(tab[t].calls).served
  /\ breaks < MaxBreaks /\ breaks' = breaks + 1
  /\ tab' = [tab EXCEPT ![t].calls[1].served = TRUE,
                        ![t].refused = @ \cup (CASE Head(tab[t].calls).op = "read" -> {Name(t)}
                                                 [] Head(tab[t].calls).op = "mev" -> {"mev"}
                                                 [] OTHER -> {})]
  /\ UNCHANGED <<open, table, env, test, clicks>>

Serve(t) ==
  \/ CreateChannel(t) \/ CreateRoute(t) \/ CreateTag(t) \/ CreateWatchlist(t)
  \/ CreateRule(t) \/ CreateSearch(t) \/ CreateFieldWatch(t)
  \/ UpsertSchema(t) \/ DemoteEndpoint(t) \/ DeleteSchema(t) \/ SetMev(t) \/ ReadList(t)
-----------------------------------------------------------------------------
(* The answers. *)

PageAnswered(t) == tab[t].calls # <<>> /\ Head(tab[t].calls).served
Same == UNCHANGED <<open, table, env, test, clicks, breaks>>

\* Mutant of Changed: the form is cleared, and the list is not read again.
ChangedOnly(t) ==
  /\ PageAnswered(t) /\ Head(tab[t].calls).op \notin {"read", "mev"}
  /\ tab' = [tab EXCEPT ![t].calls = Tail(@), ![t].typed = ""]
  /\ Same

\* The form is cleared, whatever is in it by now, and the list read again; the
\* box of a search keeps its text.
Changed(t) ==
  /\ PageAnswered(t) /\ Head(tab[t].calls).op \notin {"read", "mev"}
  /\ tab' = [tab EXCEPT ![t].calls = Tail(@) \o Reload,
                        ![t].typed = IF Head(tab[t].calls).op = Form /\ open # "searches" THEN "" ELSE @]
  /\ Same

\* Promise.all: all lists of the page are shown at once, or none.
Shown(t) ==
  /\ PageAnswered(t) /\ Head(tab[t].calls).op = "read"
  /\ tab' = IF Name(t) # Pages[open][Len(Pages[open])] THEN [tab EXCEPT ![t].calls = Tail(@)]
            ELSE [tab EXCEPT ![t].calls = Tail(@), ![t].got = {}, ![t].bad = FALSE,
                             ![t].view = IF tab[t].bad THEN @ ELSE tab[t].got]
  /\ Same

\* The page shows what it sent.
Switched(t) ==
  /\ PageAnswered(t) /\ Head(tab[t].calls).op = "mev"
  /\ tab' = [tab EXCEPT ![t].calls = Tail(@), ![t].on = Name(t)]
  /\ Same
-----------------------------------------------------------------------------
(* Test messages, which API clients ask for, and restarts. *)

\* decryptChannelConfig: empty without a key; the tag of a config sealed under
\* another key does not verify, which throws.
Opens(row) == env # "none" /\ row.sealed = env

\* sendTestNotification: a page gives every channel a url, and nothing else.
\* A kind that wants other fields, or is not sent at all, returns.
Sends(row) == row.kind = "webhook"

TestSend == \E n \in Live("channels") :
  LET row == table["channels"][n]
  IN /\ open = "sealing" /\ (env = "none" \/ Opens(row))
     /\ test' = [row |-> n, delivered |-> Opens(row) /\ Sends(row)]
     /\ UNCHANGED <<open, table, tab, env, clicks, breaks>>

\* The backend comes back with another key, or with none.
Restart == \E key \in Keys \cup {"none"} :
  /\ open = "sealing" /\ key # env /\ env' = key
  /\ breaks < MaxBreaks /\ breaks' = breaks + 1
  /\ UNCHANGED <<open, table, tab, test, clicks>>

PagesNext ==
  \/ \E t \in PageTabs :
       ClickAny(t) \/ Serve(t) \/ Changed(t) \/ Shown(t) \/ Switched(t) \/ CallFails(t)
       \/ Refuse(t)
  \/ TestSend \/ Restart

PagesSpec == PagesInit /\ [][PagesNext]_pageVars
-----------------------------------------------------------------------------
OrgPagesTypeOK ==
  /\ open \in DOMAIN Pages
  /\ \A l \in Lists : Len(table[l]) <= MaxRows
  /\ \A t \in PageTabs : \A r \in tab[t].view : r[2] \in 1 .. Len(table[r[1]])

AtRest(t) == tab[t].calls = <<>> /\ ~tab[t].threw

\* Clicks overlap reloads, other tabs change the same list, and calls are refused: a
\* tab at rest shows every row of its own in each list whose last reading was not
\* refused, and never one that it deleted itself.
OwnChangesAreShown == \A t \in PageTabs, n \in 1 .. Len(Pages[open]) :
  LET l == Pages[open][n]
  IN AtRest(t) => /\ l \notin tab[t].refused => \A m \in Made(l, t) : <<l, m>> \in tab[t].view
                  /\ \A r \in tab[t].view : t \notin table[r[1]][r[2]].gone

\* Two tabs switch, clicks are queued, and switches are refused: the tab whose switch
\* was stored last shows what is stored, unless its next one was refused.
SwitchShowsItsRow == \A t \in PageTabs :
  LET n == Len(table["mev"])
  IN n > 0 /\ AtRest(t) /\ "mev" \notin tab[t].refused /\ table["mev"][n].by = t
       => tab[t].on = table["mev"][n].name

\* A channel sealed under a key that is gone delivers no test, through any
\* number of restarts.
LostConfigsStaySilent ==
  test.row > 0 /\ test.delivered => table["channels"][test.row].sealed # "lost"

\* What clicks, reloads, refusals, failures and other tabs leave at rest: pages show
\* what was stored, and channels that cannot be opened stay silent.
PagesInv ==
  /\ OrgPagesTypeOK /\ OwnChangesAreShown /\ SwitchShowsItsRow
  /\ LostConfigsStaySilent
=============================================================================
