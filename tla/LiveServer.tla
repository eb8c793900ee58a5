------------------------------ MODULE LiveServer -----------------------------
(***************************************************************************)
(* The live-mode helper: the server's queue of browser events leased to a  *)
(* polling agent, the journal of each session and the agent's scripts      *)
(* (live-server.mjs, live-session-store.mjs, live-poll.mjs,                 *)
(* live-complete.mjs, live-completion.mjs).  The posts and the wire are    *)
(* what LiveTab, the browser's half, sends and receives.                   *)
(***************************************************************************)
EXTENDS Naturals, Sequences, FiniteSets, SequencesExt

CONSTANTS MaxGos, \* bound: variant sessions started
          Budget  \* bound: sessions, accepts and discards pressed, delayed checkpoints,
                  \* reloads, server stops, interrupted agents and failures in all

ASSUME LiveBounds == {MaxGos, Budget} \subseteq Nat \ {0}

VARIABLES srv,      \* the server process: up, token epoch, pending events, stream
          journal,  \* per session: the snapshot its journal file rebuilds to
          src,      \* per session: what its markers in the source file are
          agent,    \* the agent: where it is, with which event and answer
          posts,    \* the browser's POST requests, answered or not
          wire,     \* what was pushed on the stream and not read
          asked,    \* history, per session: the accepts and discards journaled
          lost,     \* history, per session: what took work away from it
          spent     \* of the budget

serverVars == <<srv, journal, src, agent, posts, wire, asked, lost, spent>>

Ids == 1..MaxGos
Variants == 1..2
NoEvent == [type |-> "none", id |-> 0, v |-> 0]
Requests == {"accept", "discard"}
Settled == {"restored", "accepted"}

ServerInit ==
  /\ srv = [up |-> TRUE, epoch |-> 0, pending |-> <<>>, client |-> FALSE, exit |-> FALSE]
  /\ journal = [id \in Ids |-> [phase |-> "new", pending |-> NoEvent, rev |-> 0]]
  /\ src = [id \in Ids |-> [at |-> "absent", v |-> 0, once |-> FALSE]]
  /\ agent = [at |-> "polling", ev |-> NoEvent, reply |-> "none", carbonize |-> FALSE, epoch |-> 0]
  /\ posts = {} /\ wire = <<>>
  /\ asked = [id \in Ids |-> {}] /\ lost = [id \in Ids |-> {}]
  /\ spent = 0

Spend == spent < Budget /\ spent' = spent + 1

-----------------------------------------------------------------------------
(* The journal. *)

RequestedPhase == [generate |-> "generate_requested", accept |-> "accept_requested",
                   discard |-> "discard_requested"]
ReplyPhase == [agent_done |-> "variants_ready", discarded |-> "discarded",
               complete |-> "completed", error |-> "agent_error"]

\* A browser's event: a request becomes the session's one pending event, a
\* checkpoint moves the phase unless a later revision was journaled.
Requested(j, m) ==
  IF m.type # "checkpoint"
  THEN [j EXCEPT !.phase = RequestedPhase[m.type],
                 !.pending = [type |-> m.type, id |-> m.id, v |-> m.v]]
  ELSE IF m.rev >= j.rev THEN [j EXCEPT !.phase = m.phase, !.rev = m.rev] ELSE j

\* An agent's answer clears whatever event is pending.
Replied(j, reply, carbonize) ==
  [j EXCEPT !.phase = IF reply = "agent_done" /\ carbonize THEN "carbonize_required"
                      ELSE ReplyPhase[reply],
            !.pending = NoEvent]

ListedActive(j) == j.phase \notin {"completed", "discarded"}

-----------------------------------------------------------------------------
(* The queue. *)

Entry(ev) == [ev |-> ev, leased |-> FALSE]

Enqueue(q, ev) ==
  IF ev.id # 0 /\ \E i \in DOMAIN q : q[i].ev.id = ev.id /\ q[i].ev.type = ev.type
  THEN q ELSE Append(q, Entry(ev))

\* The first entry that is not leased: with an id it is leased, without one removed.
Available(q) == {i \in DOMAIN q : ~q[i].leased}
FirstAvailable(q) == CHOOSE i \in Available(q) : \A k \in Available(q) : i <= k
Lease(q, i) == IF q[i].ev.id = 0 THEN RemoveAt(q, i) ELSE [q EXCEPT ![i].leased = TRUE]

\* Mutant of Acknowledge: every entry of the session is removed.
AcknowledgeAll(q, ev) == SelectSeq(q, LAMBDA e : e.ev.id # ev.id)
\* An answer removes the first entry of its session, of whatever type.
Acknowledge(q, ev) ==
  LET own == {i \in DOMAIN q : q[i].ev.id = ev.id}
  IN IF own = {} THEN q ELSE RemoveAt(q, CHOOSE i \in own : \A k \in own : i <= k)

-----------------------------------------------------------------------------
(* Requests. *)

Push(msg) == wire' = IF srv.client /\ msg \in {"done", "error"} THEN Append(wire, msg) ELSE wire

\* Only accepts and discards are waited for, by the page that sent them.
AfterAnswer(m, answer) ==
  (posts \ {m}) \cup (IF m.waits THEN {[m EXCEPT !.answer = answer]} ELSE {})

\* POST /events: refused with another server's token or when the journal cannot
\* be written, else journaled and, unless it is a checkpoint, queued.  A request is
\* early when nothing of its session is in the source yet.
PostEvent(m) ==
  /\ srv.up /\ m.answer = "none" /\ m.epoch = srv.epoch
  /\ journal' = [journal EXCEPT ![m.id] = Requested(@, m)]
  /\ srv' = IF m.type = "checkpoint" THEN srv
            ELSE [srv EXCEPT !.pending = Enqueue(@, journal'[m.id].pending)]
  /\ asked' = IF m.type \in Requests THEN [asked EXCEPT ![m.id] = @ \cup {<<m.type, m.v>>}]
              ELSE asked
  /\ lost' = IF m.type \in Requests /\ src[m.id].at = "absent"
             THEN [lost EXCEPT ![m.id] = @ \cup {"early"}] ELSE lost
  /\ posts' = AfterAnswer(m, "ok")
  /\ UNCHANGED <<src, agent, wire, spent>>

PostRefused(m) ==
  /\ m.answer = "none"
  /\ \/ (~srv.up \/ m.epoch # srv.epoch) /\ UNCHANGED spent
     \/ srv.up /\ m.epoch = srv.epoch /\ Spend
  /\ posts' = AfterAnswer(m, "fail")
  /\ UNCHANGED <<srv, journal, src, agent, wire, asked, lost>>

\* Eight seconds without a stream: the agent is told to leave.
ExitTimer ==
  /\ srv.up /\ srv.exit
  /\ srv' = [srv EXCEPT !.exit = FALSE,
                        !.pending = Enqueue(@, [NoEvent EXCEPT !.type = "exit"])]
  /\ UNCHANGED <<journal, src, agent, posts, wire, asked, lost, spent>>

\* Thirty seconds after its poll an event may be handed out again; only a poll looks.
LeaseExpires(i) ==
  /\ srv.up /\ srv.pending[i].leased /\ agent.at = "polling"
  /\ srv' = [srv EXCEPT !.pending[i].leased = FALSE]
  /\ UNCHANGED <<journal, src, agent, posts, wire, asked, lost, spent>>

\* The process ends: parked polls are answered with exit; answers that were on
\* their way may be cut off.
Down == [srv EXCEPT !.up = FALSE, !.pending = <<>>, !.client = FALSE, !.exit = FALSE]

ServerStops ==
  /\ srv.up /\ Spend
  /\ srv' = Down
  /\ \E cut \in SUBSET {m \in posts : m.answer = "ok"} :
       posts' = (posts \ cut) \cup {[m EXCEPT !.answer = "fail"] : m \in cut}
  /\ agent' = IF agent.at = "polling" THEN [agent EXCEPT !.at = "off"] ELSE agent
  /\ wire' = <<>>
  /\ UNCHANGED <<journal, src, asked, lost>>

\* A new process, with a new token: the pending events of the listed sessions
\* are queued again, in the order of their random names.
ServerStarts ==
  /\ ~srv.up
  /\ LET again == {id \in Ids : ListedActive(journal[id]) /\ journal[id].pending # NoEvent}
     IN \E order \in SetToSeqs(again) :
          srv' = [srv EXCEPT !.up = TRUE, !.epoch = @ + 1,
                    !.pending = [k \in DOMAIN order |-> Entry(journal[order[k]].pending)]]
  /\ UNCHANGED <<journal, src, agent, posts, wire, asked, lost, spent>>
-----------------------------------------------------------------------------
(* The agent: one poll, then the event, then its answer. *)

AgentStarts ==
  /\ agent.at = "off" /\ srv.up
  /\ agent' = [agent EXCEPT !.at = "polling"]
  /\ UNCHANGED <<srv, journal, src, posts, wire, asked, lost, spent>>

\* GET /poll: an event is leased; exit ends the loop and stops the server.
AgentPolls ==
  /\ agent.at = "polling" /\ srv.up /\ Available(srv.pending) # {}
  /\ LET i == FirstAvailable(srv.pending)
         ev == srv.pending[i].ev
     IN IF ev.type = "exit"
        THEN /\ srv' = Down /\ wire' = <<>>
             /\ agent' = [agent EXCEPT !.at = "off"]
        ELSE /\ srv' = [srv EXCEPT !.pending = Lease(@, i)]
             /\ agent' = [agent EXCEPT !.at = "handling", !.ev = ev, !.epoch = srv.epoch]
             /\ UNCHANGED wire
  /\ UNCHANGED <<journal, src, posts, asked, lost, spent>>

PollFails ==
  /\ agent.at = "polling" /\ ~srv.up
  /\ agent' = [agent EXCEPT !.at = "off"]
  /\ UNCHANGED <<srv, journal, src, posts, wire, asked, lost, spent>>

ReplyWith(reply, carbonize) ==
  agent' = [agent EXCEPT !.at = "replying", !.reply = reply, !.carbonize = carbonize]

\* The agent wraps the element unless its markers are there, then writes the variants.
Wrap ==
  /\ agent.at = "handling" /\ agent.ev.type = "generate"
  /\ src[agent.ev.id].at \notin {"wrapped", "variants"}
  /\ src' = [src EXCEPT ![agent.ev.id].at = "wrapped"]
  /\ UNCHANGED <<srv, journal, agent, posts, wire, asked, lost, spent>>

WriteVariants ==
  /\ agent.at = "handling" /\ agent.ev.type = "generate"
  /\ src[agent.ev.id].at \in {"wrapped", "variants"}
  /\ src' = [src EXCEPT ![agent.ev.id].at = "variants"]
  /\ ReplyWith("agent_done", FALSE)
  /\ UNCHANGED <<srv, journal, posts, wire, asked, lost, spent>>

\* live-accept on the session's markers, and the answer that follows from its result.
CompletionType(type, handled, carbonize, failed) ==
  IF type = "discard" THEN IF handled THEN "discarded" ELSE "error"
  ELSE IF handled THEN IF carbonize THEN "agent_done" ELSE "complete"
  ELSE IF failed THEN "error" ELSE "agent_done"

AutoAccept ==
  /\ agent.at = "handling" /\ agent.ev.type \in Requests
  /\ LET id == agent.ev.id
         type == agent.ev.type
         handled == src[id].at = "variants" \/ (type = "discard" /\ src[id].at = "wrapped")
     IN \E carbonize \in IF handled /\ type = "accept" THEN BOOLEAN ELSE {FALSE} :
          /\ src' = IF ~handled THEN src
                    ELSE [src EXCEPT ![id] = [at |-> IF type = "accept" THEN "accepted" ELSE "restored",
                                              v |-> agent.ev.v, once |-> TRUE]]
          /\ ReplyWith(CompletionType(type, handled, carbonize, FALSE), carbonize)
  /\ UNCHANGED <<srv, journal, posts, wire, asked, lost, spent>>

\* The generation or the script fails: the answer is an error.
HandlingFails ==
  /\ agent.at = "handling" /\ Spend
  /\ ReplyWith("error", FALSE)
  /\ lost' = IF agent.ev.type \in Requests THEN [lost EXCEPT ![agent.ev.id] = @ \cup {"agent"}] ELSE lost
  /\ UNCHANGED <<srv, journal, src, posts, wire, asked>>

\* POST /poll: acknowledged, journaled and pushed.  A reply to an earlier event
\* that arrives after a request was journaled overtakes it.  A request is answered
\* with the token of its poll, a generation by a new process with the current one.
Overtakes(id) == agent.ev.type = "generate" /\ asked[id] # {}
Pushed(reply) == CASE reply = "agent_done" -> "done" [] reply = "error" -> "error" [] OTHER -> "none"

Received == srv.up /\ (agent.ev.type = "generate" \/ agent.epoch = srv.epoch)

AgentReplies ==
  LET id == agent.ev.id IN
  /\ agent.at = "replying" /\ Received
  /\ srv' = [srv EXCEPT !.pending = Acknowledge(@, agent.ev)]
  /\ journal' = [journal EXCEPT ![id] = Replied(@, agent.reply, agent.carbonize)]
  /\ Push(Pushed(agent.reply))
  /\ lost' = [lost EXCEPT ![id] = @ \cup (IF Overtakes(id) THEN {"overtaken"} ELSE {})
                                    \cup (IF agent.reply = "error" THEN {"error"} ELSE {})]
  /\ agent' = [agent EXCEPT !.at = IF agent.carbonize THEN "cleaning" ELSE "polling"]
  /\ UNCHANGED <<src, posts, asked, spent>>

\* Without that server the answer fails: a generation's is dropped, an accept or
\* discard is completed by hand.
ReplyFails ==
  /\ agent.at = "replying" /\ ~Received
  /\ agent' = [agent EXCEPT !.at = IF agent.ev.type = "generate" THEN "off" ELSE "cleaning"]
  /\ UNCHANGED <<srv, journal, src, posts, wire, asked, lost, spent>>

\* live-complete once the markers are gone: through the server, else in the journal.
Complete ==
  LET id == agent.ev.id
      reply == IF agent.ev.type = "discard" THEN "discarded" ELSE "complete"
  IN
  /\ agent.at = "cleaning" /\ src[id].at \in Settled
  /\ journal' = [journal EXCEPT ![id] = Replied(@, reply, FALSE)]
  /\ srv' = [srv EXCEPT !.pending = Acknowledge(@, agent.ev)]
  /\ agent' = [agent EXCEPT !.at = IF srv.up THEN "polling" ELSE "off"]
  /\ UNCHANGED <<src, posts, wire, asked, lost, spent>>

\* Nothing was written: the request stays journaled for the next server.
LeaveIncomplete ==
  /\ agent.at = "cleaning" /\ src[agent.ev.id].at \notin Settled
  /\ agent' = [agent EXCEPT !.at = "off"]
  /\ UNCHANGED <<srv, journal, src, posts, wire, asked, lost, spent>>

AgentInterrupted ==
  /\ agent.at # "off" /\ Spend
  /\ agent' = [agent EXCEPT !.at = "off"]
  /\ lost' = IF agent.at = "replying" /\ agent.ev.type \in Requests
             THEN [lost EXCEPT ![agent.ev.id] = @ \cup {"reply"}] ELSE lost
  /\ UNCHANGED <<srv, journal, src, posts, wire, asked>>

AgentNext ==
  \/ AgentStarts \/ AgentPolls \/ PollFails \/ Wrap \/ WriteVariants \/ AutoAccept \/ HandlingFails
  \/ AgentReplies \/ ReplyFails \/ Complete \/ LeaveIncomplete \/ AgentInterrupted

ServerNext ==
  \/ \E m \in posts : PostEvent(m) \/ PostRefused(m)
  \/ \E i \in DOMAIN srv.pending : LeaseExpires(i)
  \/ ExitTimer \/ ServerStops \/ ServerStarts \/ AgentNext
==============================================================================
