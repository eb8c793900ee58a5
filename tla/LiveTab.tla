------------------------------- MODULE LiveTab -------------------------------
(***************************************************************************)
(* The live-mode tab: pick, Go, cycling through variants, accept and        *)
(* discard, with the timers, the observers of the page and the stored      *)
(* session that a reload resumes (live-browser.js,                          *)
(* live-browser-session.js), on the helper of LiveServer.                  *)
(***************************************************************************)
EXTENDS LiveServer

CONSTANT MaxPosts  \* bound: requests in flight

ASSUME PostsBound == MaxPosts \in Nat \ {0}

VARIABLES script,     \* the page's script: state, session, timers, observers, stream
          store,      \* localStorage: the saved session and the handled one
          dom,        \* the wrappers the page shows
          gos,        \* sessions started
          confirmed,  \* history, per session: its confirmed accepts and discards
          own         \* history: the sessions handled without a request of theirs

liveVars == <<serverVars, script, store, dom, gos, confirmed, own>>

\* What a page starts with.
Fresh == [token |-> 0, state |-> "IDLE", cur |-> 0, ready |-> FALSE, seen |-> 0, closed |-> FALSE,
          timer |-> FALSE, capture |-> {}, clean |-> 0, obs |-> 0, scout |-> FALSE, rev |-> 0]
NoSession == [id |-> 0, seen |-> 0, rev |-> 0]
Unwrapped == [id \in Ids |-> "absent"]

LiveInit ==
  /\ ServerInit
  /\ script = [Fresh EXCEPT !.scout = TRUE]
  /\ store = [saved |-> NoSession, handled |-> 0]
  /\ dom = Unwrapped /\ gos = 0
  /\ confirmed = [id \in Ids |-> 0] /\ own = {}

-----------------------------------------------------------------------------
(* The page. *)

\* The wrappers that the source has, as hot reload shows them.
InSource == [id \in Ids |-> IF src[id].at \in Settled THEN "absent" ELSE src[id].at]
Wrapped(wraps) == {id \in Ids : wraps[id] # "absent"}

Saved(t) == IF t.cur = 0 THEN store.saved ELSE [id |-> t.cur, seen |-> t.seen, rev |-> t.rev]
SeenFor(id) == IF store.saved.id = id /\ store.saved.seen > 0 THEN store.saved.seen ELSE 1

\* Adopting the wrapper found first in the page, unless its session is the handled one.
Resumed(t, id, wraps) ==
  LET all == wraps[id] = "variants"
      rev == IF store.saved.rev > t.rev THEN store.saved.rev ELSE t.rev
  IN [t EXCEPT !.cur = id, !.ready = all, !.seen = IF all THEN SeenFor(id) ELSE 0,
               !.state = IF all THEN "CYCLING" ELSE "GENERATING",
               !.rev = rev, !.timer = TRUE, !.obs = id]

Resume(t, wraps) ==
  IF Wrapped(wraps) = {}
  THEN /\ script' = [t EXCEPT !.scout = TRUE]
       /\ store' = [saved |-> NoSession, handled |-> 0]
  ELSE \E id \in Wrapped(wraps) :
         IF store.handled = id
         THEN script' = t /\ UNCHANGED store
         ELSE /\ script' = Resumed(t, id, wraps)
              /\ store' = [store EXCEPT !.saved = Saved(script')]

\* The observer of the current session sees its variants arrive.
Observed(t, wraps) ==
  IF t.obs # 0 /\ wraps[t.obs] = "variants" /\ ~t.ready
  THEN [t EXCEPT !.ready = TRUE, !.seen = IF t.seen = 0 THEN SeenFor(t.obs) ELSE t.seen,
                 !.state = "CYCLING", !.timer = t.cur # 0]
  ELSE t

\* Hot reload brings the page to the source: the scout of a page without a
\* session resumes the first wrapper, then the session's observer looks.
Hmr ==
  /\ dom # InSource /\ dom' = InSource
  /\ IF script.scout /\ Wrapped(InSource) # {}
     THEN Resume([script EXCEPT !.scout = FALSE], InSource)
     ELSE /\ script' = Observed(script, InSource)
          /\ store' = IF script' = script THEN store ELSE [store EXCEPT !.saved = Saved(script')]
  /\ UNCHANGED <<serverVars, gos, confirmed, own>>

\* A reload drops timers, captures and the answers to come, and may cut requests
\* off; the stream closes, which starts the server's timer, and the script is the
\* running server's.
ReloadPage ==
  /\ srv.up /\ Spend
  /\ dom' = InSource
  /\ Resume([Fresh EXCEPT !.token = srv.epoch], InSource)
  /\ \E sent \in {{}, {m \in posts : m.answer = "none"}} :
       posts' = {[m EXCEPT !.waits = FALSE] : m \in sent}
  /\ srv' = IF srv.client THEN [srv EXCEPT !.client = FALSE, !.exit = TRUE] ELSE srv
  /\ wire' = <<>>
  /\ UNCHANGED <<journal, src, agent, asked, lost, gos, confirmed, own>>

-----------------------------------------------------------------------------
(* The stream. *)

Steady == <<journal, src, agent, posts, asked, lost, spent, dom, gos, confirmed, own>>

\* The browser connects again whenever the stream is gone; a server that was
\* restarted refuses the old token, which closes the stream for good.
StreamOpens ==
  /\ ~script.closed /\ ~srv.client /\ srv.up
  /\ IF script.token = srv.epoch
     THEN /\ script' = [script EXCEPT !.state = IF @ = "IDLE" THEN "PICKING" ELSE @]
          /\ srv' = [srv EXCEPT !.client = TRUE, !.exit = FALSE]
     ELSE script' = [script EXCEPT !.closed = TRUE] /\ UNCHANGED srv
  /\ UNCHANGED <<wire, store>> /\ UNCHANGED Steady

\* Twenty retries later the script gives up and keeps its session for a reload.
ServerLost ==
  /\ ~script.closed /\ ~srv.up
  /\ script' = [script EXCEPT !.closed = TRUE, !.obs = 0, !.state = IF script.cur = 0 THEN "IDLE" ELSE @]
  /\ store' = [store EXCEPT !.saved = Saved(script)]
  /\ UNCHANGED <<srv, wire>> /\ UNCHANGED Steady

\* "done" ends the wait if the variants are there; "error" leaves the bar, of
\* whatever session it speaks.
Message ==
  /\ wire # <<>> /\ srv.client
  /\ wire' = Tail(wire)
  /\ script' = [script EXCEPT !.state = IF Head(wire) = "error" THEN "PICKING"
                                  ELSE IF @ = "GENERATING" /\ script.ready THEN "CYCLING" ELSE @]
  /\ UNCHANGED <<srv, store>> /\ UNCHANGED Steady

-----------------------------------------------------------------------------
(* What the user does, and the requests it sends. *)

Local == <<srv, journal, src, agent, wire, asked, lost, dom, confirmed, own>>

Request(t, type, id) ==
  [type |-> type, id |-> id, v |-> IF type = "accept" THEN t.seen ELSE 0, epoch |-> t.token,
   phase |-> t.state, rev |-> IF type = "checkpoint" THEN t.rev ELSE 0,
   answer |-> "none", waits |-> type \in Requests,
   again |-> \E m \in posts : m.type = "discard" /\ type = "discard" /\ m.id = id]
Room == Cardinality(posts) < MaxPosts

Pick == /\ script.state = "PICKING" /\ gos < MaxGos
        /\ script' = [script EXCEPT !.state = "CONFIGURING"]
        /\ UNCHANGED <<spent, store, posts, gos>> /\ UNCHANGED Local

Escape == /\ script.state = "CONFIGURING"
          /\ script' = [script EXCEPT !.state = "PICKING"]
          /\ UNCHANGED <<spent, store, posts, gos>> /\ UNCHANGED Local

\* Go: a new session is saved and a checkpoint sent; the event itself follows the capture.
Go ==
  /\ script.state = "CONFIGURING" /\ gos < MaxGos /\ Room /\ Spend
  /\ gos' = gos + 1
  /\ script' = [script EXCEPT !.state = "GENERATING", !.cur = gos', !.ready = FALSE, !.seen = 0,
                        !.capture = @ \cup {gos'}, !.obs = gos', !.rev = @ + 1]
  /\ store' = [store EXCEPT !.saved = Saved(script')]
  /\ posts' = posts \cup {Request(script', "checkpoint", gos')}
  /\ UNCHANGED Local

EmitGenerate(id) ==
  /\ id \in script.capture /\ Room
  /\ script' = [script EXCEPT !.capture = @ \ {id}]
  /\ posts' = posts \cup {Request(script, "generate", id)}
  /\ UNCHANGED <<spent, store, gos>> /\ UNCHANGED Local

Cycle ==
  /\ script.state = "CYCLING" /\ script.ready
  /\ \E v \in {script.seen - 1, script.seen + 1} \cap Variants :
       /\ script' = [script EXCEPT !.seen = v, !.timer = script.cur # 0]
       /\ store' = [store EXCEPT !.saved = Saved(script')]
  /\ UNCHANGED <<spent, posts, gos>> /\ UNCHANGED Local

\* The checkpoint's timer sends what the session and the state are when it fires.
CheckpointTimer ==
  /\ script.timer
  /\ IF script.cur = 0 THEN UNCHANGED spent ELSE Room /\ Spend
  /\ script' = [script EXCEPT !.timer = FALSE, !.rev = IF script.cur = 0 THEN @ ELSE @ + 1]
  /\ posts' = IF script.cur = 0 THEN posts ELSE posts \cup {Request(script', "checkpoint", script.cur)}
  /\ store' = IF store.saved.id = 0 THEN store ELSE [store EXCEPT !.saved.rev = script'.rev]
  /\ UNCHANGED gos /\ UNCHANGED Local

Accept ==
  /\ script.state = "CYCLING" /\ script.cur # 0 /\ script.ready /\ Room /\ Spend
  /\ script' = [script EXCEPT !.state = "SAVING"]
  /\ posts' = posts \cup {Request(script, "accept", script.cur)}
  /\ UNCHANGED <<store, gos>> /\ UNCHANGED Local

\* Discard waits for its answer with the bar as it is: it can be pressed again.
Discard ==
  /\ script.state = "CYCLING" /\ script.cur # 0 /\ Room /\ Spend
  /\ posts' = posts \cup {Request(script, "discard", script.cur)}
  /\ UNCHANGED <<script, store, gos>> /\ UNCHANGED Local

-----------------------------------------------------------------------------
(* What the answers do. *)

\* Back to picking, whatever session is the current one.
Cleaned(t) == [t EXCEPT !.state = "PICKING", !.cur = 0, !.obs = 0]

\* The handled session is the current one, not the one of the answered request.
Handled(m) == IF script.cur = 0 THEN store.handled ELSE script.cur

Foreign(m) == IF script.cur \notin {0, m.id} THEN own \cup {script.cur} ELSE own

Answer(m) ==
  /\ m.answer # "none"
  /\ posts' = posts \ {m}
  /\ CASE m.type = "accept" /\ m.answer = "ok" ->
            /\ script' = [script EXCEPT !.state = "CONFIRMED", !.clean = @ + 1]
            /\ store' = [store EXCEPT !.handled = Handled(m)]
       [] m.type = "accept" /\ m.answer = "fail" ->
            script' = [script EXCEPT !.state = "CYCLING"] /\ UNCHANGED store
       [] m.type = "discard" /\ m.answer = "ok" ->
            /\ script' = Cleaned(script)
            /\ store' = [saved |-> NoSession, handled |-> Handled(m)]
       [] OTHER -> UNCHANGED <<script, store>>
  /\ LET ends == m.type \in Requests /\ m.answer = "ok"
     IN /\ confirmed' = IF ends THEN [confirmed EXCEPT ![m.id] = @ + 1] ELSE confirmed
        /\ own' = IF ends THEN Foreign(m) ELSE own
  /\ UNCHANGED <<srv, journal, src, agent, wire, asked, lost, spent, dom, gos>>

\* 1.8 s after a confirmed accept the page goes back to picking.
CleanTimer ==
  /\ script.clean > 0
  /\ script' = [Cleaned(script) EXCEPT !.clean = @ - 1]
  /\ store' = [store EXCEPT !.saved = NoSession]
  /\ own' = IF script.cur # 0 /\ confirmed[script.cur] = 0 THEN own \cup {script.cur} ELSE own
  /\ UNCHANGED <<serverVars, dom, gos, confirmed>>

LiveNext ==
  \/ ServerNext /\ UNCHANGED <<script, store, dom, gos, confirmed, own>>
  \/ Hmr \/ ReloadPage \/ StreamOpens \/ ServerLost \/ Message
  \/ Pick \/ Escape \/ Go \/ Cycle \/ CheckpointTimer \/ Accept \/ Discard \/ CleanTimer
  \/ \E id \in Ids : EmitGenerate(id)
  \/ \E m \in posts : Answer(m)

LiveSpec == LiveInit /\ [][LiveNext]_liveVars
-----------------------------------------------------------------------------
(* Properties. *)

\* The source is settled only as a request that reached the server said.  A
\* settled session is never generated again, through leases that run out, restarts
\* and answers that acknowledge another event, but when the agent is interrupted
\* between the script and its answer with the generation still queued, or when the
\* request came before its element was wrapped, so that the answer to it leaves the
\* generation in the queue.
SettledAsAsked ==
  \A id \in Ids : src[id].once /\ lost[id] \cap {"reply", "early"} = {} =>
    /\ src[id].at \in Settled
    /\ <<IF src[id].at = "accepted" THEN "accept" ELSE "discard", src[id].v>> \in asked[id]

\* An accept or discard that the page saw confirmed was carried out, or is queued
\* or, with the server down, journaled; but one overtaken by the late answer to its
\* generation is lost by a restart, one that the script failed on is the agent's to
\* finish, and one that came too early is answered with an error.
Queued(id) == \E i \in DOMAIN srv.pending : srv.pending[i].ev.id = id /\ srv.pending[i].ev.type \in Requests

ConfirmedIsKept ==
  \A id \in Ids : confirmed[id] > 0 =>
    \/ src[id].once \/ Queued(id)
    \/ ~srv.up /\ journal[id].pending.type \in Requests
    \/ lost[id] \cap {"agent", "early"} # {}
    \/ "overtaken" \in lost[id] /\ (srv.epoch > 0 \/ ~srv.up)

\* While the server runs, what its journal calls pending is queued; a queued
\* request is pending in the journal unless it was carried out or lost as above.
JournalAgrees ==
  \A id \in Ids : srv.up =>
    /\ journal[id].pending # NoEvent => \E i \in DOMAIN srv.pending : srv.pending[i].ev.id = id
    /\ Queued(id) /\ journal[id].pending = NoEvent =>
         src[id].once \/ lost[id] \cap {"overtaken", "agent", "early"} # {}

\* A session is marked handled, or cleared by the cleanup timer, on a request of
\* its own only, unless another session was answered twice or ended in an error,
\* which gives the page back to picking with an answer or a timer still to come.
HandledByOwn == own # {} => \E id \in Ids : confirmed[id] > 1 \/ "error" \in lost[id]

LiveInv == SettledAsAsked /\ ConfirmedIsKept /\ JournalAgrees /\ HandledByOwn
=============================================================================
