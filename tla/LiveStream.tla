----------------------------- MODULE LiveStream -----------------------------
(***************************************************************************)
(* The live search: the WebSocket of apps/backend/src/index.ts, which      *)
(* relays decoded.live.<cluster>.<program> from NATS, the cached NATS      *)
(* connection of lib/nats.ts with its other user, the requests that        *)
(* publish, and the logs panel that opens a socket for every query typed.  *)
(*                                                                         *)
(* The handlers of a socket are attached after two awaits: what happens to *)
(* the socket before has no handler.  A rejection there is caught nowhere  *)
(* and takes the process down; one in a request is answered by Express.    *)
(* NATS and the WebSocket library are external: in order, at most once.    *)
(***************************************************************************)
EXTENDS Naturals, Sequences, FiniteSets

CONSTANTS
  MaxSockets,   \* bound: sockets the panel opens
  MaxFeed,      \* bound: messages
  RingSize,     \* maxBuffer: 200
  RowsKept,     \* rows the panel keeps: 200
  MaxOrders,    \* bound: pauses and resumes
  MaxCrashes    \* bound: rejections

ASSUME LiveStreamAssumption ==
  /\ MaxSockets \in Nat \ {0} /\ MaxFeed \in Nat /\ RingSize \in Nat \ {0} /\ RowsKept \in Nat
  /\ MaxOrders \in Nat /\ MaxCrashes \in Nat

VARIABLES
  feed,    \* messages of decoded instructions: whether the typed query is in their log lines
  sock,    \* of each socket: both its ends
  nats,    \* connPromise: "none", "up" or "rejected"
  proc,    \* the backend process: "up" or "closing", for five seconds at most
  logs,    \* the panel: query typed, live, its socket, rows
  streamBounds  \* orders and crashes so far

streamVars == <<feed, sock, nats, proc, logs, streamBounds>>

SocketIds == 1 .. MaxSockets
Phases == {"unused", "lookup", "connect", "attached"}

\* client and server: readyState of either end.  at: how far the connection
\* handler is.  inbox: messages of the subscription.  wire: sent to the browser.
NoSocket == [at |-> "unused", client |-> "none", server |-> "none", query |-> FALSE, early |-> FALSE,
             sub |-> FALSE, from |-> 0, inbox |-> <<>>, paused |-> FALSE, ring |-> <<>>,
             shifted |-> {}, wire |-> <<>>, got |-> <<>>]

StreamInit ==
  /\ feed = <<>> /\ nats = "none" /\ proc = "up"
  /\ sock = [n \in SocketIds |-> NoSocket]
  /\ logs = [query |-> FALSE, live |-> FALSE, socket |-> 0, rows |-> <<>>]
  /\ streamBounds = [orders |-> 0, crashes |-> 0]

Matches(n, m) == sock[n].query => feed[m]
-----------------------------------------------------------------------------
(* The panel.  Its effect closes the socket of the old query and opens one for  *)
(* the new; a socket that is closing delivers nothing more.                     *)

Closing(n) == [sock EXCEPT ![n] = [sock[n] EXCEPT !.client = "closed", !.wire = <<>>]]
WithoutOld == IF logs.socket = 0 THEN sock ELSE Closing(logs.socket)

Reopen(query, live) ==
  LET unused == {n \in SocketIds : sock[n].at = "unused"}
      n == CHOOSE k \in unused : \A j \in unused : k <= j
  IN IF live
     THEN /\ proc = "up" /\ unused # {}
          /\ sock' = [WithoutOld EXCEPT ![n] = [NoSocket EXCEPT !.at = "lookup", !.client = "open",
                                                                !.server = "open", !.query = query]]
          /\ logs' = [logs EXCEPT !.query = query, !.live = live, !.socket = n]
     ELSE /\ sock' = WithoutOld
          /\ logs' = [logs EXCEPT !.query = query, !.live = live, !.socket = 0]

ToggleLive == Reopen(logs.query, ~logs.live) /\ UNCHANGED <<feed, nats, proc, streamBounds>>
TypeText ==
  /\ Reopen(~logs.query, logs.live)
  /\ UNCHANGED <<feed, nats, proc, streamBounds>>

\* ws.onmessage: newest first, so many of them.
Keep(rows) == SubSeq(rows, 1, IF Len(rows) < RowsKept THEN Len(rows) ELSE RowsKept)
Receive(n) ==
  /\ sock[n].client = "open" /\ sock[n].wire # <<>>
  /\ sock' = [sock EXCEPT ![n] = [sock[n] EXCEPT !.wire = Tail(@), !.got = Append(@, Head(sock[n].wire))]]
  /\ logs' = [logs EXCEPT !.rows = Keep(<<Head(sock[n].wire)>> \o @)]
  /\ UNCHANGED <<feed, nats, proc, streamBounds>>

\* searchProgramLogs: what is stored replaces all rows.
SearchAnswered ==
  /\ logs.rows # <<>> /\ logs' = [logs EXCEPT !.rows = <<>>]
  /\ UNCHANGED <<feed, sock, nats, proc, streamBounds>>
-----------------------------------------------------------------------------
(* The connection handler. *)

\* A rejected promise that nobody handles: uncaughtException, shutdown(1).
Unhandled ==
  /\ streamBounds.crashes < MaxCrashes /\ streamBounds' = [streamBounds EXCEPT !.crashes = @ + 1]
  /\ proc' = "closing"

\* A program that is not found closes the socket; a statement that fails is not caught.
FindProgram(n) ==
  /\ sock[n].at = "lookup"
  /\ \/ sock' = [sock EXCEPT ![n].at = "connect"] /\ UNCHANGED <<proc, streamBounds>>
     \/ /\ sock' = [sock EXCEPT ![n] = [NoSocket EXCEPT !.at = "gone"]]
        /\ Unhandled \/ UNCHANGED <<proc, streamBounds>>
  /\ UNCHANGED <<feed, nats, logs>>

\* The close of a socket that is gone by now has been missed.
Attach(n) == [sock EXCEPT ![n] = [sock[n] EXCEPT !.at = "attached", !.sub = TRUE, !.from = Len(feed),
                                                 !.early = sock[n].server # "open"]]

\* getNatsConnection: the promise is made once, and kept when it rejects.
Connect(n) ==
  /\ sock[n].at = "connect"
  /\ \/ nats # "rejected" /\ nats' = "up" /\ sock' = Attach(n) /\ UNCHANGED <<proc, streamBounds>>
     \/ /\ nats # "up" /\ nats' = "rejected"
        /\ sock' = [sock EXCEPT ![n] = [NoSocket EXCEPT !.at = "gone"]] /\ Unhandled
  /\ UNCHANGED <<feed, logs>>

\* publishIngestControl in a request: the rejection is answered with an error.
RequestConnects ==
  /\ nats = "none"
  /\ \/ nats' = "up" /\ UNCHANGED streamBounds
     \/ /\ nats' = "rejected" /\ streamBounds.crashes < MaxCrashes
        /\ streamBounds' = [streamBounds EXCEPT !.crashes = @ + 1]
  /\ UNCHANGED <<feed, sock, proc, logs>>

\* The close reaches the server; with the handler attached it ends the
\* subscription.
SeeClose(n) ==
  /\ sock[n].client = "closed" /\ sock[n].server = "open"
  /\ sock' = [sock EXCEPT ![n] = [sock[n] EXCEPT !.server = "closed", !.sub = @ /\ sock[n].at # "attached"]]
  /\ UNCHANGED <<feed, nats, proc, logs, streamBounds>>

\* Orders of an API client; those before the handler is attached are lost.
Order(n) ==
  /\ sock[n].client = "open" /\ streamBounds.orders < MaxOrders
  /\ streamBounds' = [streamBounds EXCEPT !.orders = @ + 1]
  /\ UNCHANGED <<feed, nats, proc, logs>>
Pause(n) == Order(n) /\ sock' = IF sock[n].at = "attached" THEN [sock EXCEPT ![n].paused = TRUE] ELSE sock

Drained(n) == sock[n].ring
Resume(n) ==
  /\ Order(n)
  /\ sock' = IF sock[n].at # "attached" THEN sock
             ELSE [sock EXCEPT ![n] = [sock[n] EXCEPT !.paused = FALSE, !.ring = <<>>, !.wire = @ \o Drained(n)]]
-----------------------------------------------------------------------------
(* The feed and the loop that relays it. *)

Decoded == \E match \in BOOLEAN :
  /\ Len(feed) < MaxFeed /\ feed' = Append(feed, match)
  /\ sock' = [n \in SocketIds |-> IF sock[n].sub THEN [sock[n] EXCEPT !.inbox = Append(@, Len(feed) + 1)]
                                  ELSE sock[n]]
  /\ UNCHANGED <<nats, proc, logs, streamBounds>>

\* Mutant of Push: the newest one finds no room.
PushIfRoom(ring, m) == IF Len(ring) = RingSize THEN ring ELSE Append(ring, m)

\* The oldest one makes room.
Push(ring, m) == IF Len(ring) = RingSize THEN Append(Tail(ring), m) ELSE Append(ring, m)

\* Mutant of Gone: the loop does not look at the socket.
NeverGone(s) == FALSE

Gone(s) == s.server # "open"

\* Leaving the loop ends the subscription.
Relay(n) ==
  /\ sock[n].sub /\ sock[n].inbox # <<>>
  /\ LET m == Head(sock[n].inbox)
         s == [sock[n] EXCEPT !.inbox = Tail(@)]
     IN sock' = [sock EXCEPT ![n] =
          IF Gone(s) THEN [s EXCEPT !.sub = FALSE, !.inbox = <<>>]
          ELSE IF ~Matches(n, m) THEN s
          ELSE IF s.paused
               THEN [s EXCEPT !.ring = Push(@, m),
                              !.shifted = IF Len(s.ring) = RingSize THEN @ \cup {Head(s.ring)} ELSE @]
          ELSE [s EXCEPT !.wire = IF s.client = "open" THEN Append(@, m) ELSE @]]
  /\ UNCHANGED <<feed, nats, proc, logs, streamBounds>>

\* After five seconds the process exits, all sockets close, and a new process
\* starts.  The panel does not open its socket again.
ExitAndRestart ==
  /\ proc = "closing" /\ proc' = "up" /\ nats' = "none"
  /\ sock' = [n \in SocketIds |-> IF sock[n].at = "unused" THEN NoSocket
                                  ELSE [NoSocket EXCEPT !.at = "gone", !.client = "closed"]]
  /\ UNCHANGED <<feed, logs, streamBounds>>

StreamNext ==
  \/ ToggleLive \/ TypeText \/ SearchAnswered \/ RequestConnects \/ Decoded \/ ExitAndRestart
  \/ \E n \in SocketIds :
       \/ Receive(n) \/ FindProgram(n) \/ Connect(n) \/ SeeClose(n) \/ Pause(n) \/ Resume(n) \/ Relay(n)

\* Statements are answered, loops run, frames travel, the process exits in time.
StreamFairness ==
  /\ WF_streamVars(ExitAndRestart)
  /\ \A n \in SocketIds :
       /\ WF_streamVars(FindProgram(n)) /\ WF_streamVars(Connect(n)) /\ WF_streamVars(SeeClose(n))
       /\ WF_streamVars(Relay(n)) /\ WF_streamVars(Receive(n))

StreamSpec == StreamInit /\ [][StreamNext]_streamVars /\ StreamFairness
-----------------------------------------------------------------------------
StreamTypeOK ==
  /\ nats \in {"none", "up", "rejected"} /\ proc \in {"up", "closing"}
  /\ Len(logs.rows) <= RowsKept /\ logs.socket \in 0 .. MaxSockets
  /\ \A n \in SocketIds : sock[n].at \in Phases \cup {"gone"} /\ Len(sock[n].ring) <= RingSize

Elements(s) == {s[k] : k \in 1 .. Len(s)}

\* Through pauses, resumes and a full ring a browser gets the messages that match,
\* each once and in order, what was kept before what came after.
ReceivedInOrder == \A n \in SocketIds :
  LET s == sock[n].got \o sock[n].wire
  IN \A j, k \in 1 .. Len(s) : j < k => s[j] < s[k]

\* An open socket misses no message since its subscription but those the
\* ring had no room for, and those are older than all the ring holds.
NothingIsSkipped == \A n \in SocketIds :
  LET s == sock[n]
  IN s.at = "attached" /\ s.client = "open" =>
       /\ {m \in s.from + 1 .. Len(feed) : Matches(n, m)} =
            {m \in Elements(s.got \o s.wire \o s.ring \o s.inbox) : Matches(n, m)} \cup s.shifted
       /\ \A m \in s.shifted, k \in Elements(s.ring) : m < k

\* Closes, lookups and connects in any order: a subscription outlives its socket
\* only if the socket was closed before the handlers were attached.
OnlyEarlyClosesLeak == \A n \in SocketIds :
  sock[n].sub /\ sock[n].server # "open" => sock[n].early

\* One that does ends with the next message.
LeaksEnd == \A n \in SocketIds :
  (sock[n].sub /\ sock[n].server # "open" /\ sock[n].inbox # <<>>) ~> ~sock[n].sub

\* A failed lookup or connect of a socket does not leave a process that accepts
\* sockets for ever and serves none of them.
RejectedSocketsRestart == (proc = "closing") ~> (proc = "up" /\ nats # "rejected")

\* What pauses, closes and failed connects keep: browsers get each match once and in
\* order, the ring forgets the oldest, and only early closes leak.
StreamInv ==
  /\ StreamTypeOK /\ ReceivedInOrder /\ NothingIsSkipped /\ OnlyEarlyClosesLeak
=============================================================================
