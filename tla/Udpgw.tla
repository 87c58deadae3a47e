-------------------------------- MODULE Udpgw --------------------------------
(***************************************************************************)
(* The udpgw server of the tunnel node (udpgw.rs): one session's frames    *)
(* come out of a byte stream, each goes to a UDP socket of its own pair of *)
(* connection id and destination, and a reader task per socket queues what *)
(* comes back for the one writer task.                                     *)
(*                                                                         *)
(* A frame is FRAME pieces of the stream; reads return any number of them. *)
(***************************************************************************)
EXTENDS Naturals, Sequences, SequencesExt, FiniteSets

CONSTANTS
    UgInputs,    \* what clients send: sequences of [kind, key]
    FRAME, READ_MAX,
    TX_CAP,      \* capacity of the mpsc channel to the writer
    MaxReplies   \* bound on the datagrams that come back

VARIABLES
    ugInput, ugRead, ugParsed, ugAt,
    ugHandled,   \* frames handle_frame was called with, in order
    ugSockets,   \* keys of the sockets map
    ugReaders,   \* keys of reader tasks that still run, with the number of sockets opened for them
    ugTx,        \* frames in the channel
    ugOut,       \* frames the client can read
    ugWriter,    \* run, gone
    ugPeer,      \* the other half of the duplex is there
    ugReplies    \* datagrams that came back so far

ugVars == <<ugInput, ugRead, ugParsed, ugAt, ugHandled, ugSockets, ugReaders, ugTx, ugOut, ugWriter,
            ugPeer, ugReplies>>

UgInit ==
    /\ ugInput \in UgInputs /\ ugRead = 0 /\ ugParsed = 0 /\ ugAt = "read"
    /\ ugHandled = <<>> /\ ugSockets = {} /\ ugReaders = <<>>
    /\ ugTx = <<>> /\ ugOut = <<>> /\ ugWriter = "run" /\ ugPeer = TRUE /\ ugReplies = 0

UgComplete == ugRead \div FRAME > ugParsed
UgFrame == ugInput[ugParsed + 1]
UgTasks == UNCHANGED <<ugSockets, ugReaders, ugTx, ugOut, ugWriter, ugPeer, ugReplies>>

UgReadSome ==
    /\ ugAt = "read" /\ ugPeer
    /\ \E n \in 1..READ_MAX : /\ ugRead + n <= FRAME * Len(ugInput)
                              /\ ugRead' = ugRead + n
    /\ ugAt' = "parse"
    /\ UNCHANGED <<ugInput, ugParsed, ugHandled>> /\ UgTasks

\* The stream has ended, or the task is aborted: the map of sockets is dropped with it, and with
\* it the AbortHandles, which leaves the reader tasks alone.
UgStops ==
    /\ ugAt # "over" /\ ~ugPeer
    /\ ugAt' = "over" /\ ugSockets' = {}
    /\ UNCHANGED <<ugInput, ugRead, ugParsed, ugHandled, ugReaders, ugTx, ugOut, ugWriter, ugPeer, ugReplies>>

\* The client closes the session, or the node reaps it.
UgPeerGone ==
    /\ ugPeer /\ ugPeer' = FALSE
    /\ UNCHANGED <<ugInput, ugRead, ugParsed, ugAt, ugHandled, ugSockets, ugReaders, ugTx, ugOut,
                   ugWriter, ugReplies>>

\* No complete frame, or one that cannot be parsed: it is skipped, and what follows it waits for
\* the next read.
PastFrame == ugParsed + 1

UgNoFrame ==
    /\ ugAt = "parse" /\ ugPeer
    /\ \/ ~UgComplete /\ UNCHANGED ugParsed
       \/ UgComplete /\ UgFrame.kind = "bad" /\ ugParsed' = PastFrame
    /\ ugAt' = "read"
    /\ UNCHANGED <<ugInput, ugRead, ugHandled>> /\ UgTasks

\* A full channel holds its sender up.
Queue(f) ==
    IF ugWriter = "gone" THEN UNCHANGED ugTx
    ELSE Len(ugTx) < TX_CAP /\ ugTx' = Append(ugTx, f)

\* What handle_frame answers itself: a keepalive, or an error.
Answers(f, ok) ==
    CASE f.kind = "keepalive" -> "keepalive"
      [] f.kind = "data" /\ ok -> "none"
      [] f.kind \in {"data", "blocked"} -> "err"
      [] OTHER -> "none"

\* get_or_create_socket.  (Mutant: a socket for every datagram.)
AlwaysNew(f) == TRUE
NeedsSocket(f) == f.key \notin ugSockets

\* handle_frame, with whether resolving, binding and sending succeed.
HandleFrame ==
    LET f == UgFrame IN
    /\ ugAt = "parse" /\ ugPeer /\ UgComplete /\ f.kind # "bad"
    /\ \E ok, bound \in BOOLEAN :
          /\ ok => bound
          /\ IF Answers(f, ok) = "none" THEN UNCHANGED ugTx
             ELSE Queue([kind |-> Answers(f, ok), key |-> f.key])
          /\ IF f.kind = "data" /\ bound /\ NeedsSocket(f)
             THEN /\ ugSockets' = ugSockets \cup {f.key}
                  /\ ugReaders' = Append(ugReaders, f.key)
             ELSE UNCHANGED <<ugSockets, ugReaders>>
    /\ ugHandled' = Append(ugHandled, ugParsed + 1)
    /\ ugParsed' = ugParsed + 1
    /\ UNCHANGED <<ugInput, ugRead, ugAt, ugOut, ugWriter, ugPeer, ugReplies>>

-----------------------------------------------------------------------------
(* The tasks. *)

\* A datagram comes back; the reader ends when its channel has no receiver any more.
ReaderReceives(i) ==
    /\ ugReplies < MaxReplies /\ ugReplies' = ugReplies + 1
    /\ Queue([kind |-> "data", key |-> ugReaders[i]])
    /\ ugReaders' = IF ugWriter = "gone" THEN RemoveAt(ugReaders, i) ELSE ugReaders
    /\ UNCHANGED <<ugInput, ugRead, ugParsed, ugAt, ugHandled, ugSockets, ugOut, ugWriter, ugPeer>>

WriterWrites ==
    /\ ugWriter = "run" /\ ugTx # <<>>
    /\ ugTx' = Tail(ugTx)
    /\ IF ugPeer THEN ugOut' = Append(ugOut, Head(ugTx)) /\ UNCHANGED ugWriter
       ELSE ugWriter' = "gone" /\ UNCHANGED ugOut
    /\ UNCHANGED <<ugInput, ugRead, ugParsed, ugAt, ugHandled, ugSockets, ugReaders, ugPeer, ugReplies>>

\* The last sender is gone: the session's, and those of the readers.
WriterEnds ==
    /\ ugWriter = "run" /\ ugTx = <<>> /\ ugAt = "over" /\ ugReaders = <<>>
    /\ ugWriter' = "gone"
    /\ UNCHANGED <<ugInput, ugRead, ugParsed, ugAt, ugHandled, ugSockets, ugReaders, ugTx, ugOut,
                   ugPeer, ugReplies>>

UgTask == UgStops \/ UgNoFrame \/ HandleFrame \/ WriterWrites \/ WriterEnds
UgNext ==
    \/ UgTask \/ UgReadSome \/ UgPeerGone
    \/ \E i \in DOMAIN ugReaders : ReaderReceives(i)

\* Tasks run; nobody has to send a datagram.
UgFairness == WF_ugVars(UgTask)

UgSpec == UgInit /\ [][UgNext]_ugVars /\ UgFairness

-----------------------------------------------------------------------------
(* Properties. *)

\* Type invariant; the channel to the writer stays within its capacity.
UgTypeOK ==
    /\ Len(ugTx) <= TX_CAP
    /\ ugParsed <= Len(ugInput) /\ ugRead <= FRAME * Len(ugInput)
    /\ ugWriter \in {"run", "gone"} /\ ugAt \in {"read", "parse", "over"}

\* Frames are handled in the order of the stream, each once, however reads cut them; only what
\* cannot be parsed is left out.
FramesInOrder ==
    LET good == SelectSeq([i \in 1..ugParsed |-> i], LAMBDA i : ugInput[i].kind # "bad") IN
    ugHandled = good

\* A connection id keeps one socket per destination while the session lasts: a second one would
\* change the source port calls rely on, and a socket without its reader would never answer.
StablePort ==
    /\ \A i, j \in DOMAIN ugReaders : ugReaders[i] = ugReaders[j] => i = j
    /\ ugPeer => ugSockets \subseteq ToSet(ugReaders)

\* Every keepalive that has been handled is answered while the client is there.
AllKeepalives ==
    \/ ~ugPeer
    \/ Len(SelectSeq(ugOut, LAMBDA f : f.kind = "keepalive")) =
          Len(SelectSeq(ugHandled, LAMBDA i : ugInput[i].kind = "keepalive"))

\* The contract of the udpgw server towards one client session.
UdpgwSound == UgTypeOK /\ FramesInOrder /\ StablePort
=============================================================================
