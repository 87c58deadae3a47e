---------------------------- MODULE UdpAssociate ----------------------------
(***************************************************************************)
(* One SOCKS5 UDP ASSOCIATE in full mode (proxy_server.rs): the dispatch   *)
(* loop of handle_socks5_udp_associate, the table of per-target sessions   *)
(* (UdpRelayState) and one udp_session_task for every session, each of     *)
(* which owns a session on the tunnel-node.                                *)
(*                                                                         *)
(* A datagram is its target and its class; the ones the loop drops without *)
(* touching anything (a foreign address, a frame that does not parse,      *)
(* QUIC or STUN that is blocked) are no step at all.                       *)
(***************************************************************************)
EXTENDS Naturals, Sequences, FiniteSets

CONSTANTS
    Targets,         \* SocksUdpTarget
    Ports,           \* source ports of the client's host
    MAX_SESSIONS,    \* MAX_UDP_SESSIONS_PER_ASSOCIATE
    UPLINK_QUEUE,    \* UDP_UPLINK_QUEUE
    MaxSid           \* bound on the sessions one association opens

ASSUME UdpAssumption == MAX_SESSIONS \in Nat \ {0} /\ MaxSid \in Nat

VARIABLES
    loop,        \* the dispatch loop: receiving, opening, tearing down, gone
    opening,     \* the target of the udp_open it waits for
    client,      \* client_addr: {} or the port it is locked to
    sessions,    \* UdpRelayState.sessions: target -> sid, 0 for none
    order,       \* UdpRelayState.order
    task,        \* sid -> where its udp_session_task is
    target,      \* sid -> the target it was opened for
    queue,       \* sid -> datagrams in its uplink channel
    nextSid,
    node,        \* sids open on the tunnel-node that an answer has named
    live         \* live_sids, taken at teardown

udVars == <<loop, opening, client, sessions, order, task, target, queue, nextSid, node,
            live>>

Sids == 1..MaxSid
NoSid == 0
Tracked == {sessions[t] : t \in Targets} \ {NoSid}
Active == {s \in Sids : task[s] \in {"wait", "call", "closing", "removing"}}

UdInit ==
    /\ loop = "recv" /\ opening = {} /\ client = {}
    /\ sessions = [t \in Targets |-> NoSid]
    /\ order = <<>>
    /\ task = [s \in Sids |-> "none"]
    /\ target \in [Sids -> {CHOOSE t \in Targets : TRUE}]
    /\ queue = [s \in Sids |-> 0]
    /\ nextSid = 1 /\ node = {} /\ live = {}

-----------------------------------------------------------------------------
(* The dispatch loop.  The first datagram that parses and is not blocked   *)
(* locks the association to its port, also when it is then too large.      *)

(* What parse_socks5_udp_packet makes of a datagram of the client's host.  *)
Datagrams == [port : Ports, target : Targets]
FromClient(port) == client \in {{}, {port}}

Oversize(port) ==
    /\ loop = "recv" /\ client = {}
    /\ client' = {port}
    /\ UNCHANGED <<loop, opening, sessions, order, task, target, queue, nextSid, node,
                   live>>

(* try_send to the session of the target: dropped when its queue is full.  *)
Queued(n) == IF n < UPLINK_QUEUE THEN n + 1 ELSE n

Uplink(port, t) ==
    /\ loop = "recv" /\ FromClient(port)
    /\ sessions[t] # NoSid
    /\ client' = {port}
    /\ queue' = [queue EXCEPT ![sessions[t]] = Queued(@)]
    /\ UNCHANGED <<loop, opening, sessions, order, task, target, nextSid, node, live>>

(* evict_until_under: sessions and order without the oldest entries.       *)
Excess == IF Cardinality(Tracked) < MAX_SESSIONS THEN 0
          ELSE Cardinality(Tracked) - MAX_SESSIONS + 1
Evicted == {order[i] : i \in 1..Excess}

Open(port, t) ==
    /\ loop = "recv" /\ FromClient(port)
    /\ sessions[t] = NoSid
    /\ nextSid \in Sids
    /\ client' = {port}
    /\ sessions' = [u \in Targets |-> IF u \in Evicted THEN NoSid ELSE sessions[u]]
    /\ order' = SubSeq(order, Excess + 1, Len(order))
    /\ loop' = "open" /\ opening' = {t}
    /\ UNCHANGED <<task, target, queue, nextSid, node, live>>

Opened(t) ==
    /\ loop = "open" /\ t \in opening
    /\ sessions' = [sessions EXCEPT ![t] = nextSid]
    /\ order' = Append(order, t)
    /\ task' = [task EXCEPT ![nextSid] = "wait"]
    /\ target' = [target EXCEPT ![nextSid] = t]
    /\ node' = node \cup {nextSid}
    /\ nextSid' = nextSid + 1
    /\ loop' = "recv" /\ opening' = {}
    /\ UNCHANGED <<client, queue, live>>

(* An error, an answer without a sid, or one that already says eof.        *)
OpenFailed ==
    /\ loop = "open"
    /\ loop' = "recv" /\ opening' = {}
    /\ UNCHANGED <<client, sessions, order, task, target, queue, nextSid, node, live>>

(* The control connection ends: live_sids and clear under one lock, then   *)
(* abort_all, then close_session for each sid of the snapshot.             *)
Teardown ==
    /\ loop = "recv"
    /\ live' = Tracked
    /\ sessions' = [t \in Targets |-> NoSid]
    /\ order' = <<>>
    /\ loop' = "abort"
    /\ UNCHANGED <<opening, client, task, target, queue, nextSid, node>>

AbortAll ==
    /\ loop = "abort"
    /\ task' = [s \in Sids |-> IF s \in Active THEN "aborted" ELSE task[s]]
    /\ queue' = [s \in Sids |-> 0]
    /\ loop' = "close"
    /\ UNCHANGED <<opening, client, sessions, order, target, nextSid, node, live>>

CloseLive ==
    /\ loop = "close"
    /\ node' = node \ live
    /\ loop' = "gone"
    /\ UNCHANGED <<opening, client, sessions, order, task, target, queue, nextSid, live>>

-----------------------------------------------------------------------------
(* udp_session_task.                                                       *)

GoTo(s, place) == task' = [task EXCEPT ![s] = place]

(* The biased select: what is queued, then the closed channel, then a poll.*)
TakeUplink(s) ==
    /\ task[s] = "wait" /\ queue[s] > 0
    /\ queue' = [queue EXCEPT ![s] = @ - 1]
    /\ GoTo(s, "call")
    /\ UNCHANGED <<loop, opening, client, sessions, order, target, nextSid, node, live>>

ChannelClosed(s) ==
    /\ task[s] = "wait" /\ queue[s] = 0 /\ s \notin Tracked
    /\ GoTo(s, "closing")
    /\ UNCHANGED <<loop, opening, client, sessions, order, target, queue, nextSid, node, live>>

PollEmpty(s) ==
    /\ task[s] = "wait" /\ queue[s] = 0 /\ s \in Tracked
    /\ GoTo(s, "call")
    /\ UNCHANGED <<loop, opening, client, sessions, order, target, queue, nextSid, node,
                   live>>

(* The answer of udp_data: packets or nothing.  The check at the loop's    *)
(* head comes right after it and ends a session that has been idle for     *)
(* UDP_SESSION_IDLE_TTL; how long that takes is left open.                 *)
IdleExpired == BOOLEAN
UdpAnswered(s) ==
    /\ task[s] = "call"
    /\ \E expired \in IdleExpired : GoTo(s, IF expired THEN "closing" ELSE "wait")
    /\ UNCHANGED <<loop, opening, client, sessions, order, target, queue, nextSid, node, live>>

AfterFailure == "closing"

CallFailed(s) ==
    /\ task[s] = "call"
    /\ GoTo(s, AfterFailure)
    /\ node' \in {node, node \ {s}}
    /\ UNCHANGED <<loop, opening, client, sessions, order, target, queue, nextSid, live>>

(* (Mutant: the task returns without taking its entry out.)                *)
AfterCloseOver == "over"
AfterClose == "removing"

CloseSession(s) ==
    /\ task[s] = "closing"
    /\ node' = node \ {s}
    /\ GoTo(s, AfterClose)
    /\ UNCHANGED <<loop, opening, client, sessions, order, target, queue, nextSid, live>>

(* UdpRelayState::remove, by target.                                       *)
RemoveEntry(s) ==
    /\ task[s] = "removing"
    /\ sessions' = [sessions EXCEPT ![target[s]] = NoSid]
    /\ order' = SelectSeq(order, LAMBDA t : t # target[s])
    /\ GoTo(s, "over")
    /\ queue' = [queue EXCEPT ![s] = 0]
    /\ UNCHANGED <<loop, opening, client, target, nextSid, node, live>>

UdpTaskStep(s) ==
    \/ TakeUplink(s) \/ ChannelClosed(s) \/ PollEmpty(s) \/ UdpAnswered(s) \/ CallFailed(s)
    \/ CloseSession(s) \/ RemoveEntry(s)

LoopStep == (\E t \in Targets : Opened(t)) \/ OpenFailed \/ AbortAll \/ CloseLive

UdNext ==
    \/ \E d \in Datagrams :
          Oversize(d.port) \/ Uplink(d.port, d.target) \/ Open(d.port, d.target)
    \/ Teardown \/ LoopStep
    \/ \E s \in Sids : UdpTaskStep(s)

(* Every task and the loop are polled; the tunnel calls they wait for end, *)
(* by the time limits of the tunnel client.                                *)
UdFairness == WF_udVars(LoopStep) /\ \A s \in Sids : WF_udVars(UdpTaskStep(s))

UdSpec == UdInit /\ [][UdNext]_udVars /\ UdFairness

-----------------------------------------------------------------------------
(* Every variable holds a value the program can give it, and the           *)
(* association never leaves the port it is locked to once it serves one.   *)
UdTypeOK ==
    /\ loop \in {"recv", "open", "abort", "close", "gone"}
    /\ loop = "open" <=> opening # {}
    /\ client \subseteq Ports /\ Cardinality(client) <= 1
    /\ sessions \in [Targets -> Sids \cup {NoSid}]
    /\ queue \in [Sids -> 0..UPLINK_QUEUE]
    /\ nextSid \in 1..(MaxSid + 1)
    /\ node \cup live \subseteq 1..(nextSid - 1)

(* The table and the eviction order name the same targets, each once, and  *)
(* never more than the cap: opening, eviction and the clean-up of tasks    *)
(* that end in any order keep them in step.                                *)
OrderInStep ==
    /\ {order[i] : i \in 1..Len(order)} = {t \in Targets : sessions[t] # NoSid}
    /\ Len(order) = Cardinality(Tracked)
    /\ Len(order) <= MAX_SESSIONS

(* An entry of the table always has a task that reads its channel: no      *)
(* datagram goes to a session nobody serves, so a target whose session     *)
(* ended is opened anew.                                                   *)
EntryIsServed ==
    \A t \in Targets : sessions[t] # NoSid =>
        task[sessions[t]] \in {"wait", "call", "closing", "removing"} /\ target[sessions[t]] = t

(* A tunnel-node session belongs to a task that will close it, or to the   *)
(* teardown's snapshot; a task the teardown aborted is in the snapshot     *)
(* unless its entry was gone by then.                                      *)
NodeSessionOwned ==
    \A s \in node : s \in Active \/ s \in live \/ task[s] = "aborted"

(* A session that was evicted, or whose table entry is gone, is closed on  *)
(* the tunnel-node in the end, unless the teardown aborts its task.        *)
NoneDangling == \A s \in node : s \in Tracked \/ task[s] = "aborted"
=============================================================================
