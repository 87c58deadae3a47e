----------------------------- MODULE TunnelOpen -----------------------------
(***************************************************************************)
(* tunnel_connection of tunnel_client.rs: one client connection of Full    *)
(* mode from its pre-read to the shutdown of its socket.  The first bytes  *)
(* are read and travel with the connect; the connect is retried, or done   *)
(* again without them; the session runs (tunnel_loop is FullTunnel, here   *)
(* only what it returns); a session that ended without an answer is opened *)
(* once more.  Connections share the connect_data_unsupported flag and the *)
(* cache of unreachable targets.                                           *)
(*                                                                         *)
(* The client's stream is 1..STREAM, in pieces as the socket returns them. *)
(***************************************************************************)
EXTENDS Naturals, Sequences, FiniteSets, FiniteSetsExt

CONSTANTS
    ToSetups,   \* behaviours to explore: sequences of [target, speaks] with one entry a connection
    STREAM,     \* pieces a client sends
    CONNECT_DATA_TRANSPORT_RETRIES,
    UNREACHABLE_CACHE_MAX, UNREACHABLE_CACHE_TTL

VARIABLES
    toSetup,
    toAt,           \* connection -> its place in tunnel_connection
    toRead,         \* connection -> pieces taken from its socket
    toInitial,      \* connection -> initial_data, retry_ready_data: 0 for None, 1 for the first piece
    toPending,      \* connection -> pending_client_data
    toLeft,         \* connection -> attempts left in connect_with_initial_data
    toCount,        \* connection -> what the end of the loop is decided on:
                    \*   [wrote: first_resp_wrote_data, bytes: bytes_to_browser # 0, eof]
    toSess,         \* connection -> sessions it opened at the node, in order:
                    \*   [up: pieces its upstream got, spoke: FALSE, "counted" or "late", at, known]
    toUnsupported,  \* TunnelMux.connect_data_unsupported
    toCache,        \* TunnelMux.unreachable_cache: target -> time left, 0 when it is expired
    toReported      \* target -> time left since the node itself called it unreachable

toVars == <<toSetup, toAt, toRead, toInitial, toPending, toLeft, toCount, toSess,
            toUnsupported, toCache, toReported>>

ToConns == DOMAIN toSetup
ToTargets == {s[i].target : <<s, i>> \in {<<s, i>> \in ToSetups \X (1..2) : i \in DOMAIN s}}
Speaks(c) == toSetup[c].speaks       \* tls, clear, or server (a port where the server speaks first)
ToCurrent(c) == Len(toSess[c])
Nothing == [wrote |-> FALSE, bytes |-> FALSE, eof |-> FALSE]

ToInit ==
    /\ toSetup \in ToSetups
    /\ toAt = [c \in ToConns |-> "begin"]
    /\ toRead = [c \in ToConns |-> 0] /\ toInitial = [c \in ToConns |-> 0]
    /\ toPending = [c \in ToConns |-> 0] /\ toLeft = [c \in ToConns |-> 0]
    /\ toCount = [c \in ToConns |-> Nothing]
    /\ toSess = [c \in ToConns |-> <<>>]
    /\ toUnsupported = FALSE
    /\ toCache = << >> /\ toReported = [t \in ToTargets |-> 0]

ToGo(c, at) == toAt' = [toAt EXCEPT ![c] = at]
ToShared == UNCHANGED <<toSetup, toUnsupported, toCache, toReported>>

\* A session of the node: what its upstream has received, whether the client has its sid.
Opened(c, up, known) ==
    toSess' = [toSess EXCEPT ![c] = Append(@, [up |-> up, spoke |-> "no",
                                               at |-> "open", known |-> known])]

-----------------------------------------------------------------------------
(* The cache of unreachable targets. *)

\* is_unreachable: the front end refuses the connection without a session.
IsUnreachable(t) == t \in DOMAIN toCache /\ toCache[t] > 0

\* record_unreachable_if_match: expired entries go first, then those that would expire first.
Recorded(t) ==
    LET live  == {k \in DOMAIN toCache : toCache[k] > 0}
        over  == Cardinality(live) + 1 - UNREACHABLE_CACHE_MAX
        kept  == IF Cardinality(DOMAIN toCache) < UNREACHABLE_CACHE_MAX THEN {DOMAIN toCache}
                 ELSE IF over <= 0 THEN {live}
                 ELSE {k \in SUBSET live : /\ Cardinality(k) = UNREACHABLE_CACHE_MAX - 1
                                           /\ \A a \in k, b \in live \ k : toCache[b] <= toCache[a]}
    IN  {[k \in s \cup {t} |-> IF k = t THEN UNREACHABLE_CACHE_TTL ELSE toCache[k]] : s \in kept}

\* The node's own answer to a connect; only the "unreachable" kind is remembered.
ConnectRefused(c) ==
    /\ ToGo(c, "done")
    /\ \/ UNCHANGED <<toCache, toReported>>
       \/ /\ toCache' \in Recorded(toSetup[c].target)
          /\ toReported' = [toReported EXCEPT ![toSetup[c].target] = UNREACHABLE_CACHE_TTL]
    /\ UNCHANGED <<toSetup, toUnsupported>>

\* The entry of a target that has expired is removed when it is looked up.
Refuse(c) ==
    /\ toAt[c] = "begin" /\ IsUnreachable(toSetup[c].target)
    /\ ToGo(c, "done") /\ ToShared
    /\ UNCHANGED <<toRead, toInitial, toPending, toLeft, toCount, toSess>>

ToTick ==
    /\ \E t \in DOMAIN toCache : toCache[t] > 0
    /\ toCache' = [t \in DOMAIN toCache |-> IF toCache[t] = 0 THEN 0 ELSE toCache[t] - 1]
    /\ toReported' = [t \in ToTargets |-> IF toReported[t] = 0 THEN 0 ELSE toReported[t] - 1]
    /\ UNCHANGED <<toSetup, toAt, toRead, toInitial, toPending, toLeft, toCount, toSess, toUnsupported>>

-----------------------------------------------------------------------------
(* Opening the session. *)

\* The pre-read: skipped, won, lost, or the client closes (or its socket fails) first.
Preread(c) ==
    /\ toAt[c] = "begin" /\ ~IsUnreachable(toSetup[c].target)
    /\ IF toUnsupported \/ Speaks(c) = "server"
       THEN ToGo(c, "connect_plain") /\ UNCHANGED <<toRead, toInitial, toLeft>>
       ELSE \/ /\ toRead' = [toRead EXCEPT ![c] = 1] /\ toInitial' = [toInitial EXCEPT ![c] = 1]
               /\ toLeft' = [toLeft EXCEPT ![c] = IF Speaks(c) = "tls"
                                                  THEN CONNECT_DATA_TRANSPORT_RETRIES + 1 ELSE 1]
               /\ ToGo(c, "connect_data")
            \/ ToGo(c, "connect_plain") /\ UNCHANGED <<toRead, toInitial, toLeft>>
            \/ ToGo(c, "done") /\ UNCHANGED <<toRead, toInitial, toLeft>>
    /\ toCache' = [t \in {k \in DOMAIN toCache : k # toSetup[c].target \/ toCache[k] > 0} |-> toCache[t]]
    /\ UNCHANGED <<toSetup, toPending, toCount, toSess, toUnsupported, toReported>>

\* connect_data succeeded; its response may already hold data, the end of the stream, or nonsense.
DataOpened(c) ==
    /\ toAt[c] = "connect_data"
    /\ \E d, e, bad \in BOOLEAN :
          /\ toSess' = [toSess EXCEPT ![c] =
                Append(@, [up |-> <<1>>, spoke |-> IF d THEN "counted" ELSE "no",
                           at |-> IF e THEN "reaped" ELSE "open", known |-> TRUE])]
          /\ bad => ~d /\ ~e
          /\ toCount' = [toCount EXCEPT ![c] = [wrote |-> d, bytes |-> FALSE, eof |-> e]]
          /\ ToGo(c, IF e \/ bad THEN "ended" ELSE "loop")
    /\ ToShared /\ UNCHANGED <<toRead, toInitial, toPending, toLeft>>

\* The batch failed below the node: retried while attempts are left and the error is of that kind.
\* The node may have opened a session whose sid nobody knows.
\* It says nothing about the target.
FailureSaysNothing(c) == UNCHANGED <<toCache, toReported>>

DataTransportError(c) ==
    /\ toAt[c] = "connect_data"
    /\ Opened(c, <<1>>, FALSE) \/ UNCHANGED toSess
    /\ \/ /\ toLeft[c] > 1
          /\ toLeft' = [toLeft EXCEPT ![c] = @ - 1] /\ UNCHANGED toAt
       \/ ToGo(c, "done") /\ UNCHANGED toLeft
    /\ FailureSaysNothing(c)
    /\ UNCHANGED <<toSetup, toRead, toInitial, toPending, toCount, toUnsupported>>

\* A node or a script that does not know the op: the flag is set for every later connection and
\* the bytes that were read go first in the plain session.
DataUnsupported(c) ==
    /\ toAt[c] = "connect_data"
    /\ toUnsupported' = TRUE
    /\ toPending' = [toPending EXCEPT ![c] = toInitial[c]]
    /\ ToGo(c, "connect_plain")
    /\ UNCHANGED <<toSetup, toRead, toInitial, toLeft, toCount, toSess, toCache, toReported>>

DataRefused(c) ==
    /\ toAt[c] = "connect_data" /\ ConnectRefused(c)
    /\ UNCHANGED <<toRead, toInitial, toPending, toLeft, toCount, toSess>>

\* connect_plain, for the first session and for the retry; its replies.
PlainOpened(c) ==
    /\ toAt[c] \in {"connect_plain", "retry"}
    /\ Opened(c, <<>>, TRUE)
    /\ toCount' = [toCount EXCEPT ![c] = Nothing]
    /\ ToGo(c, IF toAt[c] = "retry" THEN "retry_loop" ELSE "loop")
    /\ ToShared /\ UNCHANGED <<toRead, toInitial, toPending, toLeft>>

PlainTransportError(c) ==
    /\ toAt[c] \in {"connect_plain", "retry"}
    /\ Opened(c, <<>>, FALSE) \/ UNCHANGED toSess
    /\ ToGo(c, "done")
    /\ ToShared /\ UNCHANGED <<toRead, toInitial, toPending, toLeft, toCount>>

PlainRefused(c) ==
    /\ toAt[c] \in {"connect_plain", "retry"} /\ ConnectRefused(c)
    /\ UNCHANGED <<toRead, toInitial, toPending, toLeft, toCount, toSess>>

-----------------------------------------------------------------------------
(* The session, and what is done about its end. *)

InLoop(c) == toAt[c] \in {"loop", "retry_loop"}
Sends(c, p) == toSess' = [toSess EXCEPT ![c][ToCurrent(c)].up = Append(@, p)]
Hears(c, how) ==
    toSess' = [toSess EXCEPT ![c][ToCurrent(c)].spoke = IF @ = "counted" THEN @ ELSE how]

\* pending_client_data is the first thing the loop sends, then what the socket has.
LoopSends(c) ==
    /\ InLoop(c) /\ ~toCount[c].eof
    /\ IF toPending[c] # 0
       THEN Sends(c, toPending[c]) /\ toPending' = [toPending EXCEPT ![c] = 0] /\ UNCHANGED toRead
       ELSE /\ toRead[c] < STREAM
            /\ toRead' = [toRead EXCEPT ![c] = @ + 1] /\ Sends(c, toRead[c] + 1)
            /\ UNCHANGED toPending
    /\ ToShared /\ UNCHANGED <<toAt, toInitial, toLeft, toCount>>

\* A reply with data is written; after the end was seen it is written without being counted.
LoopWrites(c) ==
    /\ InLoop(c)
    /\ Hears(c, IF toCount[c].eof THEN "late" ELSE "counted")
    /\ toCount' = [toCount EXCEPT ![c].bytes = @ \/ ~toCount[c].eof]
    /\ ToShared /\ UNCHANGED <<toAt, toRead, toInitial, toPending, toLeft>>

LoopSeesEof(c) ==
    /\ InLoop(c) /\ ~toCount[c].eof
    /\ toCount' = [toCount EXCEPT ![c].eof = TRUE]
    /\ toSess' = [toSess EXCEPT ![c][ToCurrent(c)].at = "reaped"]
    /\ ToShared /\ UNCHANGED <<toAt, toRead, toInitial, toPending, toLeft>>

\* The loop returns: RemoteEof, NeedsClose, or an error of the local socket.
LoopReturns(c) ==
    /\ InLoop(c)
    /\ ToGo(c, IF toAt[c] = "loop" THEN "ended" ELSE "retry_ended")
    /\ \/ UNCHANGED toCount
       \/ toCount' = [toCount EXCEPT ![c].eof = FALSE]
    /\ ToShared /\ UNCHANGED <<toRead, toInitial, toPending, toLeft, toSess>>

\* (Mutant: any protocol is retried.)
RetryAnyProtocol(c) ==
    /\ toCount[c].eof /\ ~toCount[c].bytes /\ ~toCount[c].wrote
    /\ toInitial[c] # 0
CanRetryRemoteEof(c) ==
    /\ toCount[c].eof /\ ~toCount[c].bytes /\ ~toCount[c].wrote
    /\ toInitial[c] # 0 /\ Speaks(c) = "tls"

\* Close is queued unless the node has already reaped the session; the retry closes it anyway.
CloseSid(c) == toSess' = [toSess EXCEPT ![c][ToCurrent(c)].at = "closed"]
CloseUnlessReaped(c) == IF toCount[c].eof THEN UNCHANGED toSess ELSE CloseSid(c)

Ended(c) ==
    /\ toAt[c] = "ended"
    /\ IF CanRetryRemoteEof(c)
       THEN /\ CloseSid(c)
            /\ toPending' = [toPending EXCEPT ![c] = toInitial[c]]
            /\ ToGo(c, "retry")
       ELSE /\ CloseUnlessReaped(c)
            /\ ToGo(c, "done") /\ UNCHANGED toPending
    /\ ToShared /\ UNCHANGED <<toRead, toInitial, toLeft, toCount>>

RetryEnded(c) ==
    /\ toAt[c] = "retry_ended"
    /\ CloseUnlessReaped(c)
    /\ ToGo(c, "done")
    /\ ToShared /\ UNCHANGED <<toRead, toInitial, toPending, toLeft, toCount>>

ToConnStep(c) ==
    \/ Refuse(c) \/ Preread(c)
    \/ DataOpened(c) \/ DataTransportError(c) \/ DataUnsupported(c) \/ DataRefused(c)
    \/ PlainOpened(c) \/ PlainTransportError(c) \/ PlainRefused(c)
    \/ LoopSends(c) \/ LoopWrites(c) \/ LoopSeesEof(c) \/ LoopReturns(c)
    \/ Ended(c) \/ RetryEnded(c)

ToNext == ToTick \/ \E c \in ToConns : ToConnStep(c)

ToSpec == ToInit /\ [][ToNext]_toVars

-----------------------------------------------------------------------------
(* Properties. *)

\* Type invariant; the cache of unreachable targets never outgrows its limit.
ToTypeOK ==
    /\ Cardinality(DOMAIN toCache) <= UNREACHABLE_CACHE_MAX
    /\ \A t \in DOMAIN toCache : toCache[t] \in 0..UNREACHABLE_CACHE_TTL
    /\ \A c \in ToConns : /\ toRead[c] \in 0..STREAM /\ toPending[c] \in {0, toInitial[c]}
                          /\ Len(toSess[c]) <= CONNECT_DATA_TRANSPORT_RETRIES + 2

\* Bytes that are not a TLS handshake reach one upstream at most, whatever is retried: they may be
\* a request that must not be made twice (connect_with_initial_data, can_retry_remote_eof).
CleartextOnce ==
    \A c \in ToConns : Speaks(c) = "clear" =>
        Cardinality({i \in DOMAIN toSess[c] : toSess[c][i].up # <<>>}) <= 1

\* The browser never hears a second server after bytes of a first one that were counted: the retry
\* of tunnel_connection looks at connect_data's response and at the loop's.
OneServerSpeaks ==
    \A c \in ToConns : \A i, j \in DOMAIN toSess[c] :
        i < j /\ toSess[c][i].spoke = "counted" => toSess[c][j].spoke = "no"

\* A session whose sid the client has is not left open at the node when the connection is over:
\* every path of tunnel_connection closes it, or the node reaped it with the end it reported.
KnownSessionsReleased ==
    \A c \in ToConns : toAt[c] = "done" =>
        \A i \in DOMAIN toSess[c] : toSess[c][i].known => toSess[c][i].at # "open"

\* A target is refused only while an answer of the node itself that called it unreachable is recent:
\* failures of the relay in between say nothing about the target.
OnlyTheNodeCondemns == \A t \in DOMAIN toCache : toCache[t] <= toReported[t]

=============================================================================
