---------------------------- MODULE NodeSessions ----------------------------
(***************************************************************************)
(* The session maps of the tunnel node (main.rs) and who takes sessions    *)
(* out of them: UDP sessions with their packet queue, the single-op        *)
(* handlers of handle_tunnel, close, the end reported by a drain, and the  *)
(* cleanup task.  Every session has a reader task, which must not outlive  *)
(* it.  (The batches of a TCP session are FullTunnel.)                     *)
(***************************************************************************)
EXTENDS Naturals, Sequences, SequencesExt, FiniteSets

CONSTANTS
    NsRequests,
    MaxOpened,          \* bound: sessions opened
    MaxPackets,         \* bound: datagrams or chunks received by one session
    UDP_QUEUE_LIMIT,
    LONGPOLL,           \* the longest a request waits, in ticks
    IDLE_LIMIT          \* idle ticks after which the cleanup task takes a session

VARIABLES
    nsKind,       \* sid -> none, tcp, udp
    nsMap,        \* sids in sessions and udp_sessions
    nsReader,     \* sid -> none, run, ended, aborted, detached
    nsQueue,      \* sid -> packets (udp) or read_buf (tcp), as the numbers of what arrived
    nsEof, nsArrived,
    nsIdle,       \* sid -> ticks since last_active
    nsReq,        \* request -> [at, sid, age]
    nsOut,        \* what responses carried, in the order of the drains: <<sid, number>>
    nsReaped      \* sids the cleanup task took

nsVars == <<nsKind, nsMap, nsReader, nsQueue, nsEof, nsArrived, nsIdle, nsReq, nsOut, nsReaped>>

NsSids == 1..MaxOpened
NsDone == [at |-> "done", sid |-> 0, age |-> 0]
NsGo(q, at, s) == nsReq' = [nsReq EXCEPT ![q] = [at |-> at, sid |-> s, age |-> 0]]

NsInit ==
    /\ nsKind = [s \in NsSids |-> "none"] /\ nsMap = {} /\ nsReader = [s \in NsSids |-> "none"]
    /\ nsQueue = [s \in NsSids |-> <<>>] /\ nsEof = [s \in NsSids |-> FALSE]
    /\ nsArrived = [s \in NsSids |-> 0] /\ nsIdle = [s \in NsSids |-> 0]
    /\ nsReq = [q \in NsRequests |-> NsDone] /\ nsOut = <<>> /\ nsReaped = {}

-----------------------------------------------------------------------------
(* Requests. *)

\* udp_open, connect, connect_data: the socket and its reader exist before the map knows them.
OpenSession(q) ==
    /\ nsReq[q].at = "done"
    /\ \E s \in NsSids, k \in {"tcp", "udp"} :
          /\ nsKind[s] = "none" /\ \A t \in NsSids : nsKind[t] = "none" => s <= t
          /\ nsKind' = [nsKind EXCEPT ![s] = k] /\ nsReader' = [nsReader EXCEPT ![s] = "run"]
          /\ NsGo(q, "opening", s)
    /\ UNCHANGED <<nsMap, nsQueue, nsEof, nsArrived, nsIdle, nsOut, nsReaped>>

\* (Mutant: its handle is dropped, which detaches it.)
KeepReader(s) == UNCHANGED nsReader
AbortReader(s) == nsReader' = [nsReader EXCEPT ![s] = IF @ = "run" THEN "aborted" ELSE @]

\* The first payload cannot be sent: the reader is aborted and nobody hears of the session.
OpenFails(q) ==
    /\ nsReq[q].at = "opening"
    /\ AbortReader(nsReq[q].sid) /\ NsGo(q, "done", 0)
    /\ UNCHANGED <<nsKind, nsMap, nsQueue, nsEof, nsArrived, nsIdle, nsOut, nsReaped>>

\* The handler is dropped inside the write of the first payload: nobody aborts the reader.
OpenDropped(q) ==
    LET s == nsReq[q].sid IN
    /\ nsReq[q].at = "opening"
    /\ nsReader' = [nsReader EXCEPT ![s] = IF @ = "run" THEN "detached" ELSE @]
    /\ NsGo(q, "done", 0)
    /\ UNCHANGED <<nsKind, nsMap, nsQueue, nsEof, nsArrived, nsIdle, nsOut, nsReaped>>

OpenInserted(q) ==
    /\ nsReq[q].at = "opening"
    /\ nsMap' = nsMap \cup {nsReq[q].sid} /\ NsGo(q, "wait", nsReq[q].sid)
    /\ nsIdle' = [nsIdle EXCEPT ![nsReq[q].sid] = 0]
    /\ UNCHANGED <<nsKind, nsReader, nsQueue, nsEof, nsArrived, nsOut, nsReaped>>

Touched(s) == [nsIdle EXCEPT ![s] = 0]

\* udp_data of a batch, data of handle_tunnel: the session's Arc is taken out of the map, its
\* activity noted, the payload sent; an unknown sid is answered at once.
DataOp(q, s) ==
    /\ nsReq[q].at = "done" /\ nsKind[s] # "none"
    /\ IF s \in nsMap
       THEN nsIdle' = Touched(s) /\ NsGo(q, "wait", s)
       ELSE UNCHANGED <<nsIdle, nsReq>>
    /\ UNCHANGED <<nsKind, nsMap, nsReader, nsQueue, nsEof, nsArrived, nsOut, nsReaped>>

\* handle_data_single cannot write: the session leaves the map and its handle is dropped, which
\* detaches the reader.
SingleWriteFails(q) ==
    LET s == nsReq[q].sid IN
    /\ nsReq[q].at = "wait" /\ nsReq[q].age = 0 /\ nsKind[s] = "tcp" /\ s \in nsMap
    /\ nsMap' = nsMap \ {s}
    /\ nsReader' = [nsReader EXCEPT ![s] = IF @ = "run" THEN "detached" ELSE @]
    /\ NsGo(q, "done", 0)
    /\ UNCHANGED <<nsKind, nsQueue, nsEof, nsArrived, nsIdle, nsOut, nsReaped>>

Emptied(s) == <<>>

\* drain_udp_now, wait_and_drain: everything that is queued, and the end if it is known.
DrainSession(q) ==
    LET s == nsReq[q].sid IN
    /\ nsReq[q].at = "wait"
    /\ nsOut' = nsOut \o [i \in DOMAIN nsQueue[s] |-> <<s, nsQueue[s][i]>>]
    /\ nsQueue' = [nsQueue EXCEPT ![s] = Emptied(s)]
    /\ IF nsEof[s] THEN NsGo(q, "forget", s) ELSE NsGo(q, "done", 0)
    /\ UNCHANGED <<nsKind, nsMap, nsReader, nsEof, nsArrived, nsIdle, nsReaped>>

\* A session whose end was reported leaves the map.
ForgetEnded(q) ==
    /\ nsReq[q].at = "forget"
    /\ nsMap' = nsMap \ {nsReq[q].sid} /\ AbortReader(nsReq[q].sid) /\ NsGo(q, "done", 0)
    /\ UNCHANGED <<nsKind, nsQueue, nsEof, nsArrived, nsIdle, nsOut, nsReaped>>

HandleClose(s) ==
    /\ s \in nsMap
    /\ nsMap' = nsMap \ {s} /\ AbortReader(s)
    /\ UNCHANGED <<nsKind, nsQueue, nsEof, nsArrived, nsIdle, nsReq, nsOut, nsReaped>>

-----------------------------------------------------------------------------
(* The readers and the cleanup task. *)

RoomInQueue(s) ==
    IF nsKind[s] = "udp" /\ Len(nsQueue[s]) >= UDP_QUEUE_LIMIT THEN Tail(nsQueue[s]) ELSE nsQueue[s]

\* udp_reader_task drops the oldest of a full queue; a datagram counts as activity, bytes do not.
Receives(s) ==
    /\ nsReader[s] \in {"run", "detached"} /\ nsArrived[s] < MaxPackets
    /\ nsArrived' = [nsArrived EXCEPT ![s] = @ + 1]
    /\ nsQueue' = [nsQueue EXCEPT ![s] = Append(RoomInQueue(s), nsArrived[s] + 1)]
    /\ nsIdle' = IF nsKind[s] = "udp" THEN [nsIdle EXCEPT ![s] = 0] ELSE nsIdle
    /\ UNCHANGED <<nsKind, nsMap, nsReader, nsEof, nsReq, nsOut, nsReaped>>

UpstreamEnds(s) ==
    /\ nsReader[s] \in {"run", "detached"}
    /\ nsReader' = [nsReader EXCEPT ![s] = "ended"] /\ nsEof' = [nsEof EXCEPT ![s] = TRUE]
    /\ UNCHANGED <<nsKind, nsMap, nsQueue, nsArrived, nsIdle, nsReq, nsOut, nsReaped>>

\* cleanup_task, under the map's lock.
Cleanup ==
    LET stale == {s \in nsMap : nsIdle[s] > IDLE_LIMIT} IN
    /\ stale # {}
    /\ nsMap' = nsMap \ stale /\ nsReaped' = nsReaped \cup stale
    /\ nsReader' = [s \in NsSids |-> IF s \in stale /\ nsReader[s] = "run" THEN "aborted" ELSE nsReader[s]]
    /\ UNCHANGED <<nsKind, nsQueue, nsEof, nsArrived, nsIdle, nsReq, nsOut>>

\* Time passes; no request waits longer than its deadline.
NsTick ==
    /\ \A q \in NsRequests : nsReq[q].at # "done" => nsReq[q].age < LONGPOLL
    /\ \E s \in nsMap : nsIdle[s] <= IDLE_LIMIT
    /\ nsIdle' = [s \in NsSids |-> IF s \in nsMap /\ nsIdle[s] <= IDLE_LIMIT THEN nsIdle[s] + 1 ELSE nsIdle[s]]
    /\ nsReq' = [q \in NsRequests |-> IF nsReq[q].at = "done" THEN nsReq[q]
                                      ELSE [nsReq[q] EXCEPT !.age = @ + 1]]
    /\ UNCHANGED <<nsKind, nsMap, nsReader, nsQueue, nsEof, nsArrived, nsOut, nsReaped>>

NsNext ==
    \/ \E q \in NsRequests : \/ OpenSession(q) \/ OpenFails(q) \/ OpenDropped(q) \/ OpenInserted(q)
                             \/ SingleWriteFails(q) \/ DrainSession(q) \/ ForgetEnded(q)
                             \/ \E s \in NsSids : DataOp(q, s)
    \/ \E s \in NsSids : HandleClose(s) \/ Receives(s) \/ UpstreamEnds(s)
    \/ Cleanup \/ NsTick

NsSpec == NsInit /\ [][NsNext]_nsVars

-----------------------------------------------------------------------------
(* Properties. *)

\* Type invariant; the queue of a UDP session stays within its limit.
NsTypeOK ==
    \A s \in NsSids :
        /\ nsKind[s] = "udp" => Len(nsQueue[s]) <= UDP_QUEUE_LIMIT
        /\ nsReader[s] = "ended" <=> nsEof[s]
        /\ s \in nsMap => nsKind[s] # "none"

\* A datagram is answered to one request, in the order of arrival, whichever requests drain the
\* session at the same time; and what the queue keeps is always the most recent.
FreshestOnce ==
    /\ \A i, j \in DOMAIN nsOut : i < j /\ nsOut[i][1] = nsOut[j][1] => nsOut[i][2] < nsOut[j][2]
    /\ \A s \in NsSids : \A i \in DOMAIN nsQueue[s] :
          nsQueue[s][i] = nsArrived[s] - Len(nsQueue[s]) + i

\* Whoever takes a session out of its map ends its reader: none is left running for a session
\* nobody can reach, except after a failed write of the single-op handler and after a handler
\* dropped inside its first write (the detached ones).
ReaderOwned ==
    \A s \in NsSids : nsReader[s] = "run" =>
        s \in nsMap \/ \E q \in NsRequests : nsReq[q].at = "opening" /\ nsReq[q].sid = s

\* The cleanup task never takes a session a request is waiting on: a poll counts as activity, and
\* its wait is shorter than the idle limit.
WaitedForNotReaped ==
    \A q \in NsRequests : nsReq[q].at = "wait" => nsReq[q].sid \notin nsReaped
=============================================================================
