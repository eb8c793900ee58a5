--------------------------- MODULE SchemaRegistry ----------------------------
(***************************************************************************)
(* crates/schema-registry: the IDL versions of one program as the decoder  *)
(* caches them, filled when it starts, refreshed by NOTIFY idl_updated of  *)
(* the backend's upload, or every five seconds when no listener could      *)
(* connect.  Between the first refresh and LISTEN, and while the           *)
(* connection is lost, nobody is told of an upload.                        *)
(*                                                                         *)
(* Times are seconds; a version's is read from created_at, which is set    *)
(* before the upload commits.  A transaction has no time when the ingestor *)
(* could not ask the RPC node for its block's, and an account never has    *)
(* one.  External: PgListener, which reconnects and listens again without  *)
(* a word to its user.                                                     *)
(***************************************************************************)
EXTENDS Naturals, Sequences, SequencesExt, FiniteSetsExt

CONSTANTS
  MaxVersions,  \* bound: uploads
  MaxSeconds,   \* bound: the clock
  MaxGaps       \* bound: lost connections, failed refreshes and restarts

ASSUME SchemaRegistryAssumption ==
  /\ MaxVersions \in Nat /\ MaxSeconds \in Nat /\ MaxGaps \in Nat

VARIABLES
  idls,      \* rows of the program: version n was created at idls[n]
  uploading, \* created_at of the version whose transaction is open, or Idle
  second,    \* the clock
  reg,       \* the registry: where its task is, whether the server knows it as a
             \* listener, notifications that wait, rows read, versions cached
  missed,    \* whether an upload or a refresh was lost for this process
  judged,    \* the last transaction or account decoded: its time, the version it got
  gaps

registryVars == <<idls, uploading, second, reg, missed, judged, gaps>>

Idle == MaxSeconds + 1
NoTime == MaxSeconds + 2
NewRegistry == [at |-> "start", heard |-> FALSE, inbox |-> 0, rows |-> <<>>, cache |-> <<>>]
NoJudgement == [time |-> 0, version |-> 0, excused |-> TRUE]

RegistryInit ==
  /\ idls = <<>> /\ uploading = Idle /\ second = 0
  /\ reg = NewRegistry /\ missed = FALSE /\ judged = NoJudgement /\ gaps = 0

Gap == gaps < MaxGaps /\ gaps' = gaps + 1
-----------------------------------------------------------------------------
(* POST of an IDL, whose transactions exclude one another by the version.    *)

CreateVersion ==
  /\ uploading = Idle /\ Len(idls) < MaxVersions
  /\ uploading' = second
  /\ UNCHANGED <<idls, second, reg, missed, judged, gaps>>

\* The notification leaves with the commit, to those who listen.
CommitVersion ==
  /\ uploading # Idle
  /\ idls' = Append(idls, uploading) /\ uploading' = Idle
  /\ reg' = IF reg.heard THEN [reg EXCEPT !.inbox = @ + 1] ELSE reg
  /\ missed' = (missed \/ ~reg.heard)
  /\ UNCHANGED <<second, judged, gaps>>

SecondPasses ==
  /\ second < MaxSeconds /\ second' = second + 1
  /\ UNCHANGED <<idls, uploading, reg, missed, judged, gaps>>
-----------------------------------------------------------------------------
(* The registry's task.  A refresh reads all rows and replaces the list.     *)

ReadRows ==
  /\ reg.at \in {"start", "told", "poll"}
  /\ reg' = [reg EXCEPT !.at = CASE @ = "start" -> "fill" [] @ = "told" -> "refresh" [] OTHER -> "replace",
                        !.rows = idls]
  /\ UNCHANGED <<idls, uploading, second, missed, judged, gaps>>

\* Whatever was lost before the rows were read is in them.
StoreRows ==
  /\ reg.at \in {"fill", "refresh", "replace"}
  /\ reg' = [reg EXCEPT !.at = CASE @ = "fill" -> "connect" [] @ = "refresh" -> "listen" [] OTHER -> "sleep",
                        !.cache = reg.rows, !.rows = <<>>]
  /\ missed' = (missed /\ reg.rows # idls)
  /\ UNCHANGED <<idls, uploading, second, judged, gaps>>

\* A refresh that fails is logged; nobody tries it again.
RefreshFails ==
  /\ reg.at \in {"told", "poll"} /\ Gap
  /\ reg' = [reg EXCEPT !.at = IF @ = "told" THEN "listen" ELSE "sleep"]
  /\ missed' = (reg.cache # idls)
  /\ UNCHANGED <<idls, uploading, second, judged>>

ConnectListener ==
  /\ reg.at = "connect"
  /\ \/ reg' = [reg EXCEPT !.at = "subscribe"] /\ UNCHANGED gaps
     \/ Gap /\ reg' = [reg EXCEPT !.at = "poll"]
  /\ UNCHANGED <<idls, uploading, second, missed, judged>>

\* A LISTEN that fails is logged, and its task waits for ever: "deaf".
Subscribe ==
  /\ reg.at = "subscribe"
  /\ \/ reg' = [reg EXCEPT !.at = "listen", !.heard = TRUE] /\ UNCHANGED gaps
     \/ Gap /\ reg' = [reg EXCEPT !.at = "deaf"]
  /\ UNCHANGED <<idls, uploading, second, missed, judged>>

ReceiveNote ==
  /\ reg.at = "listen" /\ reg.inbox > 0
  /\ reg' = [reg EXCEPT !.at = "told", !.inbox = @ - 1]
  /\ UNCHANGED <<idls, uploading, second, missed, judged, gaps>>

\* The fallback loop.
FiveSecondsPass ==
  /\ reg.at = "sleep"
  /\ reg' = [reg EXCEPT !.at = "poll"]
  /\ UNCHANGED <<idls, uploading, second, missed, judged, gaps>>

ConnectionLost ==
  /\ reg.heard /\ Gap
  /\ reg' = [reg EXCEPT !.heard = FALSE, !.inbox = 0]
  /\ missed' = (missed \/ reg.inbox > 0)
  /\ UNCHANGED <<idls, uploading, second, judged>>

Reconnect ==
  /\ reg.at = "listen" /\ ~reg.heard
  /\ reg' = [reg EXCEPT !.heard = TRUE]
  /\ UNCHANGED <<idls, uploading, second, missed, judged, gaps>>

\* The decoder ends, also when its first refresh fails, and is started again.
RegistryRestarts ==
  /\ Gap /\ reg # NewRegistry
  /\ reg' = NewRegistry /\ missed' = FALSE
  /\ UNCHANGED <<idls, uploading, second, judged>>
-----------------------------------------------------------------------------
(* resolve_for_slot: the loop keeps the last version whose time has come;    *)
(* without a time it is the last of all.                                     *)

\* Mutant of Resolve: the first version whose time has come is kept.
ResolveFirst(versions, time) ==
  LET chosen[n \in 0 .. Len(versions)] ==
        IF n = 0 THEN IF versions = <<>> THEN 0 ELSE 1
        ELSE IF versions[n] <= time /\ (n > 1 => versions[chosen[n - 1]] > time) THEN n ELSE chosen[n - 1]
  IN IF time = NoTime THEN Len(versions) ELSE chosen[Len(versions)]
\* 0: there is no version.
Resolve(versions, time) ==
  LET chosen[n \in 0 .. Len(versions)] ==
        IF n = 0 THEN IF versions = <<>> THEN 0 ELSE 1
        ELSE IF versions[n] <= time THEN n ELSE chosen[n - 1]
  IN IF time = NoTime THEN Len(versions) ELSE chosen[Len(versions)]

\* A transaction of this second or an earlier one, or something without a time.
DecodeTransaction == \E time \in (0 .. second) \cup {NoTime} :
  /\ reg.at \notin {"start", "fill"}
  /\ judged' = [time |-> time, version |-> Resolve(reg.cache, time),
                excused |-> reg.cache # idls \/ idls = <<>> \/ time = NoTime \/ uploading <= time \/ time = second]
  /\ UNCHANGED <<idls, uploading, second, reg, missed, gaps>>

RegistryStep ==
  ReadRows \/ StoreRows \/ ConnectListener \/ Subscribe \/ ReceiveNote \/ FiveSecondsPass \/ Reconnect

RegistryNext ==
  \/ CreateVersion \/ CommitVersion \/ SecondPasses \/ RegistryStep \/ RefreshFails \/ ConnectionLost
  \/ RegistryRestarts \/ DecodeTransaction

\* The task is polled, the server takes connections, and the database answers.
RegistryFairness == WF_registryVars(RegistryStep)

RegistrySpec == RegistryInit /\ [][RegistryNext]_registryVars /\ RegistryFairness
-----------------------------------------------------------------------------

RegistryTypeOK ==
  /\ idls \in Seq(0 .. MaxSeconds) /\ Len(idls) <= MaxVersions
  /\ uploading \in 0 .. Idle /\ second \in 0 .. MaxSeconds /\ gaps \in 0 .. MaxGaps
  /\ reg.at \in {"start", "fill", "connect", "subscribe", "listen", "told", "refresh", "poll", "replace",
                 "sleep", "deaf"}
  /\ reg.heard \in BOOLEAN /\ reg.inbox \in 0 .. MaxVersions /\ missed \in BOOLEAN

\* The cache is what the table held at some time, never a mixture of two refreshes.
CacheIsAPrefix == IsPrefix(reg.cache, idls)

\* A cache that lags behind the table has a reason: a first refresh or a poll to come,
\* a notification that waits, its refresh under way, or one of those gaps in which a
\* notification is lost.
StaleHasAReason ==
  reg.cache # idls =>
    \/ reg.at \in {"start", "fill", "told", "refresh", "poll", "replace", "sleep"}
    \/ reg.inbox > 0 \/ missed

\* A transaction gets the version that it would get from all that is uploaded later:
\* decoding it again, after a redelivery, changes nothing.  Not so when the cache
\* lagged or was empty, an upload of the transaction's second was to come, or the
\* transaction has no time.
DecodedOnceForAll ==
  ~judged.excused => judged.version = Resolve(idls, judged.time)

\* What has no time gets the newest version the decoder has: decoding it again after
\* an upload changes its version, but no refresh, gap or restart takes it back to an
\* older one.
NewestNeverGoesBack ==
  judged.time = NoTime /\ reg.at \notin {"start", "fill"} => judged.version <= Resolve(reg.cache, NoTime)

\* The version in force is the newest that is not younger than the transaction, and
\* the oldest for what was before all of them.
ResolveIsInForce == \A time \in 0 .. MaxSeconds :
  LET inForce == {n \in DOMAIN idls : idls[n] <= time}
  IN idls # <<>> => Resolve(idls, time) = IF inForce = {} THEN 1 ELSE Max(inForce)

RegistryInv ==
  RegistryTypeOK /\ CacheIsAPrefix /\ StaleHasAReason /\ DecodedOnceForAll /\ NewestNeverGoesBack
  /\ ResolveIsInForce

\* Once uploads and gaps have ended, the registry has every version, unless it
\* listens and a notification was lost; one that polls needs none.
RegistryCatchesUp ==
  <>[](reg.cache = idls \/ (missed /\ reg.at \notin {"sleep", "poll", "replace"}))
=============================================================================
