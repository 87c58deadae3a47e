----------------------------- MODULE FullTunnel -----------------------------
(***************************************************************************)
(* One TCP session of the Full Tunnel transport, from the local socket to  *)
(* the upstream socket: tunnel_loop (src/tunnel_client.rs) pipelines data  *)
(* ops, the mux packs them into batches, fire_batch sends every batch as   *)
(* one HTTP request through Apps Script and may retry it once, and         *)
(* handle_batch of the tunnel-node executes the ops: it orders the uploads *)
(* by wseq and drains the session's read buffer into the response.         *)
(*                                                                         *)
(* Batches travel independently: they overtake each other, a request or a  *)
(* response is lost, a handler is dropped when its connection closes, the  *)
(* node restarts.  A lost message and a handler dropped between two steps  *)
(* are those that never take another step: nothing here makes them.  The   *)
(* session is open when the model starts.  Bytes are abstracted to chunks: *)
(* one read of a socket is one chunk.                                      *)
(***************************************************************************)
EXTENDS Integers, Sequences, FiniteSetsExt

CONSTANTS
  MaxUp,             \* chunks the local client uploads
  MaxDown,           \* chunks the upstream server sends
  MaxOps,            \* bound on the ops the session sends
  Depth,             \* max_inflight
  Slack,             \* fast_path_slack: more reads once the node echoes seq
  MaxBatchOps,       \* MAX_BATCH_OPS
  MaxPendingWrites,  \* MAX_PENDING_WRITES_PER_SESSION
  DrainMax,          \* TCP_DRAIN_MAX_BYTES, in chunks
  Budget,            \* BATCH_RESPONSE_BUDGET, in chunks
  ReadBufCap,        \* READ_BUF_CAP, in chunks
  ReplayCapable,     \* deployment_supports_batch_replay
  Events,            \* what else may happen, see EventKinds
  MaxRetries,        \* bound on the batches that are retried
  MaxRestarts        \* bound on restarts of the tunnel-node

\* The local client closes or stops reading, the upstream closes, the replay
\* registry expires or evicts an entry, a handler is dropped inside a write.
EventKinds == {"client_eof", "client_gone", "upstream_eof", "forget", "cancel"}

ASSUME FullTunnelAssumption ==
  /\ MaxUp \in Nat /\ MaxDown \in Nat /\ MaxOps \in Nat
  /\ MaxRestarts \in Nat /\ MaxRetries \in Nat
  /\ Depth \in Nat \ {0} /\ Slack \in Nat /\ MaxBatchOps \in Nat \ {0}
  /\ MaxPendingWrites \in Nat \ {0} /\ DrainMax \in Nat \ {0}
  /\ Budget \in Nat \ {0} /\ ReadBufCap \in Nat \ {0}
  /\ ReplayCapable \in BOOLEAN /\ Events \subseteq EventKinds

VARIABLES
  (* tunnel_loop *)
  loop,                 \* "run", or how it ended: "eof", "closed"
  ops,                  \* every op sent; op number s is ops[s]
  next_data_write_seq,  \* the next wseq
  up_read,              \* chunks read from the local socket
  inflight,             \* ops whose reply has not been handled
  replies,              \* replies that reached the session, unhandled
  next_write_seq,       \* the op whose response is written next
  pending_writes,       \* responses held back until their turn
  eof_seen, client_closed,
  delivered,            \* chunks written to the local socket
  (* mux_loop, fire_batch and the network *)
  close_queued,         \* a close op waits in the mux channel
  fired,                \* ops handed to a batch
  batches,
  (* tunnel-node *)
  handlers,             \* handlers[b][a]: attempt a of batch b
  registry,             \* ReplayRegistry, by batch
  session,              \* "open" while the sid is in the sessions map
  expected,             \* SessionInner.next_write_seq
  pending,              \* SessionInner.pending_writes
  written,              \* chunks written to the upstream socket
  read_buf, eof,        \* SessionInner.read_buf, SessionInner.eof
  down_read,            \* chunks read from the upstream socket
  restarts,
  (* history *)
  drained_by,           \* the op for which a chunk left read_buf
  cut,                  \* uploads whose write was interrupted
  abandoned             \* an op ended without a drain after the end of stream

client == <<loop, ops, next_data_write_seq, up_read, inflight, replies,
            next_write_seq, pending_writes, eof_seen, client_closed, delivered>>
network == <<close_queued, fired, batches>>
uplink == <<expected, pending, written, cut>>
downlink == <<read_buf, eof, down_read, drained_by>>
node == <<handlers, registry, session, uplink, downlink, restarts>>
vars == <<client, network, node, abandoned>>

Poll == -1
Lesser(x, y) == IF x <= y THEN x ELSE y
Empty == [x \in {} |-> 0]

\* TunnelResponse; err is "node" for an error the node answers with, and
\* "batch" when the op got no response at all (ReplyOutcome::BatchErr).
Response(d, e, err) == [d |-> d, eof |-> e, err |-> err]
EmptyDrain == Response(<<>>, FALSE, "none")
EofResponse == Response(<<>>, TRUE, "none")
BatchErr == Response(<<>>, FALSE, "batch")

BatchOps(b) == batches[b].lo..batches[b].hi
\* batch_is_replay_safe, replay_fingerprint: only data ops.
ReplaySafe(b) == ~batches[b].close
NumOps(b) == batches[b].hi - batches[b].lo + 1

\* A request's handler: the positions of the ops in tcp_drains, the responses
\* so far, what is left of the response budget.
Idle == [st |-> "idle", drains |-> {}, out |-> <<>>, budget |-> Budget]
Sent == [Idle EXCEPT !.st = "net"]
Gone == [Idle EXCEPT !.st = "gone"]
\* A registry entry; forgot records that one was expired or evicted.
Absent == [st |-> "absent", body |-> <<>>, forgot |-> FALSE]

DataOp(w, c) == [wseq |-> w, chunk |-> c]
PollOp == DataOp(Poll, Poll)

-----------------------------------------------------------------------------
(* tunnel_loop: pending client data first, then one pre-filled poll.       *)

Init ==
  /\ \E first \in {<<PollOp>>} \cup (IF MaxUp = 0 THEN {} ELSE
                    {IF Depth > 1 THEN <<DataOp(0, 0), PollOp>> ELSE <<DataOp(0, 0)>>}) :
       /\ ops = first
       /\ inflight = 1..Len(first)
       /\ up_read = (IF first[1] = PollOp THEN 0 ELSE 1)
       /\ next_data_write_seq = up_read
  /\ loop = "run" /\ replies = Empty /\ next_write_seq = 1
  /\ pending_writes = Empty /\ eof_seen = FALSE /\ client_closed = FALSE
  /\ delivered = <<>>
  /\ close_queued = FALSE /\ fired = 0 /\ batches = <<>>
  /\ handlers = <<>> /\ registry = <<>> /\ session = "open"
  /\ expected = 0 /\ pending = Empty /\ written = <<>>
  /\ read_buf = <<>> /\ eof = FALSE /\ down_read = 0 /\ restarts = 0
  /\ drained_by = <<>> /\ cut = {} /\ abandoned = FALSE

\* The loop is past its checks "nothing in flight and we're done".
Selecting == loop = "run" /\ ~eof_seen /\ ~(client_closed /\ inflight = {})

Uploads == {s \in inflight : ops[s] # PollOp}

SendOp(op) ==
  /\ Len(ops) < MaxOps
  /\ ops' = Append(ops, op)
  /\ inflight' = inflight \cup {Len(ops) + 1}

\* send_empty_poll, from the refill timer or as a keepalive: never while an
\* upload is in flight.
SendPoll ==
  /\ Selecting
  /\ Cardinality(inflight) < Depth
  /\ Uploads = {}
  /\ SendOp(PollOp)
  /\ UNCHANGED <<loop, next_data_write_seq, up_read, replies, next_write_seq,
                 pending_writes, eof_seen, client_closed, delivered, network,
                 node, abandoned>>

\* The slack comes with the first reply, which shows that the node echoes seq.
CanRead ==
  /\ Selecting /\ ~client_closed
  /\ Cardinality(inflight) < Depth + (IF inflight = 1..Len(ops) THEN 0 ELSE Slack)

\* The read arm: a chunk goes out at once as a data op with the next wseq.
ReadClient ==
  /\ CanRead
  /\ up_read < MaxUp
  /\ SendOp(DataOp(next_data_write_seq, up_read))
  /\ next_data_write_seq' = next_data_write_seq + 1
  /\ up_read' = up_read + 1
  /\ UNCHANGED <<loop, replies, next_write_seq, pending_writes, eof_seen,
                 client_closed, delivered, network, node, abandoned>>

ReadClientEof ==
  /\ "client_eof" \in Events
  /\ CanRead
  /\ client_closed' = TRUE
  /\ UNCHANGED <<loop, ops, next_data_write_seq, up_read, inflight, replies,
                 next_write_seq, pending_writes, eof_seen, delivered, network,
                 node, abandoned>>

\* TunnelEnd: RemoteEof sends nothing, NeedsClose and an I/O error queue a
\* close op.  The replies still in flight are dropped with the loop.
EndLoop(how) ==
  /\ loop' = how
  /\ close_queued' = (how = "closed")
  /\ inflight' = {} /\ replies' = Empty /\ pending_writes' = Empty
  /\ UNCHANGED <<ops, next_data_write_seq, up_read, client_closed, fired, batches, node>>

LoopDone ==
  /\ loop = "run" /\ inflight = {} /\ (eof_seen \/ client_closed)
  /\ EndLoop(IF eof_seen THEN "eof" ELSE "closed")
  /\ UNCHANGED <<next_write_seq, eof_seen, delivered, abandoned>>

-----------------------------------------------------------------------------
(* Replies.  FuturesUnordered yields them in any order.                    *)

\* pending_writes with the reply of op s.
HeldWith(s) == [x \in DOMAIN pending_writes \cup {s} |->
                  IF x = s THEN replies[s] ELSE pending_writes[x]]

\* The response of the op whose turn it is, with the buffered ones that
\* follow it without a gap: op next_write_seq up to op last.
WriteRun(held, last) ==
  /\ next_write_seq..last \subseteq DOMAIN held
  /\ last + 1 \notin DOMAIN held
  /\ next_write_seq' = last + 1
  /\ pending_writes' = Restrict(held, DOMAIN held \ (next_write_seq..last))
  /\ LET data(s) == held[s].d
     IN  delivered' = delivered \o MapThenFoldSet(\o, <<>>, data, Min, next_write_seq..last)

TakeReply(s) ==
  /\ inflight' = inflight \ {s}
  /\ replies' = Restrict(replies, DOMAIN replies \ {s})
  /\ abandoned' = (abandoned \/ replies[s].err # "none")
  /\ UNCHANGED <<loop, ops, next_data_write_seq, up_read, client_closed,
                 network, node>>

\* ReplyOutcome::Ok without an error, in the select.
HandleReply(s) ==
  /\ Selecting /\ s \in DOMAIN replies /\ replies[s].err = "none"
  /\ TakeReply(s)
  /\ IF s = next_write_seq
     THEN \E last \in s..Len(ops) :
            /\ WriteRun(HeldWith(s), last)
            /\ eof_seen' = \E k \in s..last : HeldWith(s)[k].eof
     ELSE /\ pending_writes' = HeldWith(s)
          /\ UNCHANGED <<next_write_seq, delivered, eof_seen>>

\* BatchErr, Timeout, Dropped, or a response with an error.
HandleError(s) ==
  /\ Selecting /\ s \in DOMAIN replies /\ replies[s].err # "none"
  /\ EndLoop("closed")
  /\ UNCHANGED <<next_write_seq, eof_seen, delivered, abandoned>>

\* write_tunnel_response fails: the local client is gone.
LocalWriteFails(s) ==
  /\ "client_gone" \in Events
  /\ Selecting /\ s = next_write_seq /\ s \in DOMAIN replies
  /\ replies[s].err = "none" /\ replies[s].d # <<>>
  /\ EndLoop("closed")
  /\ UNCHANGED <<next_write_seq, eof_seen, delivered, abandoned>>

\* After an end of stream the remaining replies are awaited one by one; the
\* error and eof fields of a response are not looked at any more.
GraceReply(s) ==
  /\ loop = "run" /\ eof_seen /\ s \in DOMAIN replies
  /\ replies[s].err # "batch"
  /\ TakeReply(s)
  /\ IF s = next_write_seq
     THEN \E last \in s..Len(ops) : WriteRun(HeldWith(s), last)
     ELSE /\ pending_writes' = HeldWith(s)
          /\ UNCHANGED <<next_write_seq, delivered>>
  /\ UNCHANGED eof_seen

\* 500 ms without a reply, or the batch of one failed.
GraceOver ==
  /\ loop = "run" /\ eof_seen /\ inflight # {}
  /\ abandoned' = TRUE
  /\ EndLoop("eof")
  /\ UNCHANGED <<next_write_seq, eof_seen, delivered>>

-----------------------------------------------------------------------------
(* mux_loop and fire_batch.                                                *)

\* One HTTP request carries the next ops of the channel, in their order, and
\* the close op after the last of them.
FireBatch ==
  \E hi \in fired..Len(ops), close \in BOOLEAN :
    /\ hi - fired <= MaxBatchOps
    /\ close => close_queued /\ hi = Len(ops)
    /\ hi > fired \/ close
    /\ fired' = hi
    /\ close_queued' = (close_queued /\ ~close)
    /\ batches' = Append(batches, [lo |-> fired + 1, hi |-> hi, close |-> close,
                                   att |-> 1, open |-> TRUE])
    /\ handlers' = Append(handlers, <<Sent, Idle>>)
    /\ registry' = Append(registry, Absent)
    /\ UNCHANGED <<client, session, uplink, downlink, restarts, abandoned>>

\* Some op still waits for batch b: a reply nobody waits for changes nothing.
Awaited(b) == batches[b].open /\ BatchOps(b) \cap inflight # {}

\* The replies of batch b reach the ops that still wait for them.
Reply(b, r) ==
  /\ replies' = [s \in DOMAIN replies \cup (BatchOps(b) \cap inflight) |->
                   IF s \in DOMAIN replies THEN replies[s] ELSE r[s - batches[b].lo + 1]]
  /\ batches' = [batches EXCEPT ![b].open = FALSE]
  /\ UNCHANGED <<loop, ops, next_data_write_seq, up_read, inflight, next_write_seq,
                 pending_writes, eof_seen, client_closed, delivered, close_queued,
                 fired, registry, session, uplink, downlink, restarts, abandoned>>

\* The response of the current attempt arrives.
ReceiveResponse(b) ==
  LET a == batches[b].att IN
  /\ Awaited(b)
  /\ handlers[b][a].st = "resp"
  /\ handlers' = [handlers EXCEPT ![b][a] = Gone]
  /\ Reply(b, handlers[b][a].out)

\* A response that comes after the client stopped waiting is not read.
Unread(b, a) == IF handlers[b][a].st = "resp" THEN Gone ELSE handlers[b][a]

\* Timeout, I/O error or an unreadable response: the exact batch is sent once
\* more where the deployment can replay it.
RetryBatch(b) ==
  /\ batches[b].open /\ batches[b].att = 1
  /\ ReplaySafe(b) /\ ReplayCapable
  /\ Cardinality({c \in DOMAIN batches : batches[c].att = 2}) < MaxRetries
  /\ batches' = [batches EXCEPT ![b].att = 2]
  /\ handlers' = [handlers EXCEPT ![b] = <<Unread(b, 1), Sent>>]
  /\ UNCHANGED <<client, close_queued, fired, registry, session, uplink, downlink,
                 restarts, abandoned>>

\* (Mutant: the sessions of a failed batch are not told.)
FailBatchSilently(b) ==
  /\ Awaited(b)
  /\ batches' = [batches EXCEPT ![b].open = FALSE]
  /\ UNCHANGED <<client, close_queued, fired, node, abandoned>>

\* The retry failed too, the batch cannot be retried, or its failure is not an
\* ambiguous one.
FailBatch(b) ==
  /\ Awaited(b)
  /\ handlers' = [handlers EXCEPT ![b] = [a \in 1..2 |-> Unread(b, a)]]
  /\ Reply(b, [k \in 1..NumOps(b) |-> BatchErr])

-----------------------------------------------------------------------------
(* tunnel-node: handle_batch.                                              *)

\* What a handler step leaves alone unless it says otherwise.
Elsewhere == UNCHANGED <<client, network, restarts, abandoned>>

SetHandler(b, a, h) == handlers' = [handlers EXCEPT ![b][a] = h]
Respond(b, a, body) ==
  SetHandler(b, a, IF batches[b].open /\ batches[b].att = a
                   THEN [Idle EXCEPT !.st = "resp", !.out = body] ELSE Gone)

\* The registry has an entry for the batch.  (Mutant: it is never consulted.)
NotRegistered(b) == FALSE
Registered(b) == registry[b].st # "absent"

\* ReplayRegistry::claim: Owner, Wait or Hit.
Claim(b, a) ==
  /\ handlers[b][a].st = "net"
  /\ IF ReplaySafe(b) /\ Registered(b)
     THEN /\ IF registry[b].st = "pending"
             THEN SetHandler(b, a, [Idle EXCEPT !.st = "wait"])
             ELSE Respond(b, a, registry[b].body)
          /\ UNCHANGED registry
     ELSE /\ SetHandler(b, a, [Idle EXCEPT !.st = "exec"])
          /\ registry' = IF ReplaySafe(b) THEN [registry EXCEPT ![b].st = "pending"]
                                          ELSE registry
  /\ UNCHANGED <<session, uplink, downlink>> /\ Elsewhere

WaitDone(b, a) ==
  /\ handlers[b][a].st = "wait" /\ registry[b].st = "ready"
  /\ Respond(b, a, registry[b].body)
  /\ UNCHANGED <<registry, session, uplink, downlink>> /\ Elsewhere

\* REPLAY_TTL without a result: one error response for the whole batch, so
\* that every op but the first misses its response.
WaitGivesUp(b, a) ==
  /\ handlers[b][a].st = "wait"
  /\ Respond(b, a, [k \in 1..NumOps(b) |->
                      IF k = 1 THEN Response(<<>>, FALSE, "node") ELSE BatchErr])
  /\ UNCHANGED <<registry, session, uplink, downlink>> /\ Elsewhere

\* Phase 1 is at the op of the batch that follows those with a response.
AtOp(b, a) == handlers[b][a].st = "exec" /\ Len(handlers[b][a].out) < NumOps(b)

CurrentOp(b, a) == ops[batches[b].lo + Len(handlers[b][a].out)]

\* The op has its response already, or joins tcp_drains.
Answer(b, a, r) ==
  SetHandler(b, a, [handlers[b][a] EXCEPT !.out = Append(@, r)])
JoinDrains(b, a) ==
  SetHandler(b, a, [handlers[b][a] EXCEPT !.out = Append(@, EmptyDrain),
                                          !.drains = @ \cup {Len(handlers[b][a].out) + 1}])

\* The sid is not in the sessions map.
ExecUnknown(b, a) ==
  /\ AtOp(b, a) /\ session = "gone"
  /\ Answer(b, a, EofResponse)
  /\ UNCHANGED <<registry, session, uplink, downlink>> /\ Elsewhere

\* An empty poll, or an upload below the expected wseq.
ExecNoWrite(b, a) ==
  /\ AtOp(b, a) /\ session = "open"
  /\ CurrentOp(b, a).wseq < expected
  /\ JoinDrains(b, a)
  /\ UNCHANGED <<registry, session, uplink, downlink>> /\ Elsewhere

\* What is left in pending_writes after uploads first to last were taken out.
\* (Mutant: they stay.)
PendingKept(first, last) == pending
PendingWithout(first, last) == [k \in DOMAIN pending \ (first..last) |-> pending[k]]

\* write_all of the expected upload and of the buffered ones that follow it:
\* uploads wseq to next - 1, the last of which may be interrupted (cut).
WriteUploads(op, next, interrupted) ==
  LET w == op.wseq
      chunk(k) == IF k = w THEN op.chunk ELSE pending[k]
  IN
  /\ (w + 1)..(next - 1) \subseteq DOMAIN pending
  /\ written' = written \o [k \in 1..(next - w) |-> chunk(w + k - 1)]
  /\ pending' = PendingWithout(w, next - 1)
  /\ expected' = IF interrupted THEN next - 1 ELSE next
  /\ cut' = IF interrupted THEN cut \cup {next - 1} ELSE cut

\* (Mutant: the buffered uploads that follow are not flushed.)
ExecInOrderNoFlush(b, a) ==
  /\ AtOp(b, a) /\ session = "open"
  /\ CurrentOp(b, a).wseq = expected
  /\ WriteUploads(CurrentOp(b, a), expected + 1, FALSE)
  /\ JoinDrains(b, a)
  /\ UNCHANGED <<registry, session, downlink>> /\ Elsewhere

ExecInOrder(b, a) ==
  /\ AtOp(b, a) /\ session = "open"
  /\ CurrentOp(b, a).wseq = expected
  /\ \E next \in (expected + 1)..(MaxUp + 1) :
       /\ next \notin DOMAIN pending
       /\ WriteUploads(CurrentOp(b, a), next, FALSE)
  /\ JoinDrains(b, a)
  /\ UNCHANGED <<registry, session, downlink>> /\ Elsewhere

\* pending_writes with one more upload.  (Mutant: it is dropped.)
PendingDropped(op) == pending
PendingWith(op) ==
  [k \in DOMAIN pending \cup {op.wseq} |-> IF k = op.wseq THEN op.chunk ELSE pending[k]]

\* (Mutant: it is written as it arrives.)
ExecAheadAtOnce(b, a) ==
  /\ AtOp(b, a) /\ session = "open"
  /\ CurrentOp(b, a).wseq > expected
  /\ JoinDrains(b, a)
  /\ written' = Append(written, CurrentOp(b, a).chunk)
  /\ UNCHANGED <<registry, session, expected, pending, cut, downlink>> /\ Elsewhere

\* A wseq ahead of its turn is buffered; a full buffer closes the session.
\* MaxPendingWrites stands for both caps, on uploads and on their bytes.
ExecAhead(b, a) ==
  /\ AtOp(b, a) /\ session = "open"
  /\ CurrentOp(b, a).wseq > expected
  /\ IF Cardinality(DOMAIN pending) >= MaxPendingWrites
     THEN /\ Answer(b, a, Response(<<>>, FALSE, "node"))
          /\ session' = "gone"
          /\ UNCHANGED pending
     ELSE /\ JoinDrains(b, a)
          /\ pending' = PendingWith(CurrentOp(b, a))
          /\ UNCHANGED session
  /\ UNCHANGED <<registry, expected, written, cut, downlink>> /\ Elsewhere

\* The close op, then phase 2: the wait for data or its deadline, the settle.
EndPhase1(b, a) ==
  /\ handlers[b][a].st = "exec"
  /\ Len(handlers[b][a].out) = NumOps(b)
  /\ SetHandler(b, a, [handlers[b][a] EXCEPT !.st = "drain"])
  /\ session' = IF batches[b].close THEN "gone" ELSE session
  /\ UNCHANGED <<registry, uplink, downlink>> /\ Elsewhere

\* drain_now reports the end of stream only when it took all.  (Mutant: it
\* reports the reader's flag.)
RawEof(cap) == eof
DrainEof(cap) == eof /\ Len(read_buf) <= cap

\* What drain_now leaves behind.  (Mutant: it copies instead of taking.)
WholeBuf(n) == read_buf
BufTail(n) == SubSeq(read_buf, n + 1, Len(read_buf))

\* One round of the drain loop for the first op still to drain: drain_now, then
\* the conditions under which the loop ends; the batch-wide deadline may end it
\* after any round.
Drain(b, a) ==
  LET h == handlers[b][a]
      p == Min(h.drains)
      cap == Lesser(DrainMax, h.budget)
      n == Lesser(Len(read_buf), cap)
      ends == DrainEof(cap) /\ h.budget > 0
      drained == Response(h.out[p].d \o SubSeq(read_buf, 1, n), ends, "none")
      stop == n = 0 \/ ends \/ n >= DrainMax \/ n = h.budget
  IN
  /\ h.st = "drain" /\ h.drains # {}
  /\ \E done \in BOOLEAN :
       /\ stop => done
       /\ SetHandler(b, a, [h EXCEPT !.out = [@ EXCEPT ![p] = drained],
                                     !.budget = @ - n,
                                     !.drains = IF done THEN @ \ {p} ELSE @])
  /\ read_buf' = BufTail(n)
  /\ drained_by' = drained_by \o [k \in 1..n |-> batches[b].lo + p - 1]
  /\ UNCHANGED <<registry, session, uplink, eof, down_read>> /\ Elsewhere

\* A drain that reported the end of stream removes the session; then
\* ReplayRegistry::complete and the response.
Complete(b, a) ==
  LET h == handlers[b][a] IN
  /\ h.st = "drain" /\ h.drains = {}
  /\ Respond(b, a, h.out)
  /\ session' = IF \E k \in DOMAIN h.out : h.out[k].eof THEN "gone" ELSE session
  /\ registry' = IF ReplaySafe(b) THEN [registry EXCEPT ![b] = [@ EXCEPT !.st = "ready", !.body = h.out]]
                                  ELSE registry
  /\ UNCHANGED <<uplink, downlink>> /\ Elsewhere

\* The connection of a request closes and its handler is dropped inside
\* write_all: expected has not been advanced yet, and a buffered upload has been
\* taken out of pending_writes.
CancelInWrite(b, a) ==
  /\ "cancel" \in Events
  /\ AtOp(b, a) /\ session = "open"
  /\ CurrentOp(b, a).wseq = expected
  /\ \E next \in (expected + 1)..(MaxUp + 1) : WriteUploads(CurrentOp(b, a), next, TRUE)
  /\ SetHandler(b, a, Gone)
  /\ UNCHANGED <<registry, session, downlink>> /\ Elsewhere

\* ReplayRegistry::expire and evict, see ReplayRegistry.  That an entry is gone
\* makes a difference to a request that comes for it or waits for it.
Forget(b) ==
  /\ "forget" \in Events /\ registry[b].st # "absent"
  /\ \E a \in 1..2 : handlers[b][a].st \in {"net", "wait"}
  /\ registry' = [registry EXCEPT ![b] = [Absent EXCEPT !.forgot = TRUE]]
  /\ UNCHANGED <<handlers, session, uplink, downlink>> /\ Elsewhere

-----------------------------------------------------------------------------
(* tunnel-node: the session.                                               *)

\* reader_task: one read into read_buf, with room in it.
ReadUpstream ==
  /\ session = "open" /\ ~eof
  /\ Len(read_buf) < ReadBufCap
  /\ down_read < MaxDown
  /\ down_read' = down_read + 1
  /\ read_buf' = Append(read_buf, down_read + 1)
  /\ UNCHANGED <<handlers, registry, session, uplink, eof, drained_by>> /\ Elsewhere

ReadUpstreamEof ==
  /\ "upstream_eof" \in Events
  /\ session = "open" /\ ~eof
  /\ Len(read_buf) < ReadBufCap
  /\ eof' = TRUE
  /\ UNCHANGED <<handlers, registry, session, uplink, read_buf, down_read, drained_by>>
  /\ Elsewhere

\* cleanup_task: a session without an op for 300 s; a running tunnel_loop polls
\* far more often.
Reap ==
  /\ session = "open" /\ loop # "run"
  /\ \A b \in DOMAIN handlers, a \in 1..2 : handlers[b][a].st \notin {"exec", "drain"}
  /\ session' = "gone"
  /\ UNCHANGED <<handlers, registry, uplink, downlink>> /\ Elsewhere

\* The node keeps nothing across a restart.
Restart ==
  /\ restarts < MaxRestarts
  /\ restarts' = restarts + 1
  /\ session' = "gone"
  /\ registry' = [b \in DOMAIN registry |-> [Absent EXCEPT !.forgot = registry[b].forgot]]
  /\ handlers' = [b \in DOMAIN handlers |-> [a \in 1..2 |->
                    IF handlers[b][a].st \in {"exec", "wait", "drain"}
                    THEN Gone ELSE handlers[b][a]]]
  /\ read_buf' = <<>>
  /\ UNCHANGED <<client, network, uplink, eof, down_read, drained_by, abandoned>>

-----------------------------------------------------------------------------
ClientStep ==
  \/ SendPoll \/ ReadClient \/ ReadClientEof \/ LoopDone \/ GraceOver
  \/ \E s \in inflight :
       HandleReply(s) \/ HandleError(s) \/ LocalWriteFails(s) \/ GraceReply(s)

BatchStep ==
  \/ FireBatch
  \/ \E b \in DOMAIN batches : ReceiveResponse(b) \/ RetryBatch(b) \/ FailBatch(b)

HandlerStep(b, a) ==
  \/ Claim(b, a) \/ WaitDone(b, a) \/ WaitGivesUp(b, a)
  \/ ExecUnknown(b, a) \/ ExecNoWrite(b, a) \/ ExecInOrder(b, a) \/ ExecAhead(b, a)
  \/ EndPhase1(b, a) \/ Drain(b, a) \/ Complete(b, a)
  \/ CancelInWrite(b, a)

SessionStep ==
  \/ ReadUpstream \/ ReadUpstreamEof \/ Reap \/ Restart
  \/ \E b \in DOMAIN batches : Forget(b)

Next ==
  \/ ClientStep \/ BatchStep \/ SessionStep
  \/ \E b \in DOMAIN batches, a \in 1..2 : HandlerStep(b, a)

Spec == Init /\ [][Next]_vars

\* The client's side keeps running: the mux fires what is queued, every batch
\* is answered or times out, the loop handles the replies.  Nothing is assumed
\* of the network or of the node.
FairSpec ==
  /\ Spec
  /\ WF_vars(FireBatch)
  /\ WF_vars(\E b \in DOMAIN batches : ReceiveResponse(b) \/ RetryBatch(b) \/ FailBatch(b))
  /\ WF_vars(LoopDone \/ GraceOver \/
       \E s \in inflight : HandleReply(s) \/ HandleError(s) \/ GraceReply(s))

-----------------------------------------------------------------------------
(* Properties.                                                             *)

\* Every variable has its type; a batch is a range of ops.
TypeOK ==
  /\ loop \in {"run", "eof", "closed"}
  /\ ops \in Seq([wseq : Int, chunk : Int]) /\ Len(ops) <= MaxOps
  /\ next_data_write_seq \in Nat /\ up_read \in 0..MaxUp
  /\ inflight \subseteq 1..Len(ops) /\ DOMAIN replies \subseteq inflight
  /\ next_write_seq \in 1..(Len(ops) + 1)
  /\ DOMAIN pending_writes \subseteq (next_write_seq + 1)..Len(ops)
  /\ eof_seen \in BOOLEAN /\ client_closed \in BOOLEAN /\ abandoned \in BOOLEAN
  /\ fired \in 0..Len(ops) /\ close_queued \in BOOLEAN
  /\ Len(handlers) = Len(batches) /\ Len(registry) = Len(batches)
  /\ \A b \in DOMAIN batches : batches[b].lo >= 1 /\ batches[b].hi <= fired
  /\ session \in {"open", "gone"} /\ eof \in BOOLEAN /\ restarts \in 0..MaxRestarts
  /\ expected \in 0..MaxUp /\ DOMAIN pending \subseteq (expected + 1)..MaxUp
  /\ cut \subseteq 0..MaxUp
  /\ Len(read_buf) <= ReadBufCap /\ down_read \in 0..MaxDown

\* The upstream server gets the uploads in the order the local client wrote
\* them and without a gap, whatever order batches, retries and replays arrive
\* in; an upload comes twice only where its write was interrupted.
UplinkInOrder ==
  /\ written # <<>> => written[1] = 0
  /\ \A k \in 1..(Len(written) - 1) :
       \/ written[k + 1] = written[k] + 1
       \/ written[k + 1] = written[k] /\ written[k] \in cut

NothingForgotten == \A b \in DOMAIN registry : ~registry[b].forgot

\* The client never takes an upload for done that the node has lost, while the
\* registry still has the batches it answered.  Once the
\* response of its op is written it is upstream; while that response is held
\* back it is upstream, buffered, or its write was interrupted.
AckedUploadKept ==
  session = "open" /\ NothingForgotten =>
    \A s \in 1..Len(ops) : ops[s] # PollOp =>
      /\ s < next_write_seq => ops[s].wseq < expected
      /\ s \in DOMAIN pending_writes =>
           ops[s].wseq < expected \/ ops[s].wseq \in DOMAIN pending \cup cut

\* No downloaded chunk is written to the local socket twice, although a batch
\* is executed by one attempt and answered to both.
DownlinkOnce == \A j, k \in DOMAIN delivered : delivered[j] = delivered[k] => j = k

\* drain_now takes bytes off the session for one op.  Once the loop has written
\* the response of that op they are with the local client, or the loop knows
\* that the stream is over, or the registry had forgotten the batch: no other
\* silent gap.
NoSilentGap ==
  \A c \in DOMAIN drained_by :
    drained_by[c] < next_write_seq =>
      \/ c \in Range(delivered) \/ eof_seen
      \/ \E b \in DOMAIN batches : drained_by[c] \in BatchOps(b) /\ registry[b].forgot

\* tunnel_loop writes the responses strictly in op order; the local client
\* expects the bytes in the order the upstream server sent them.
DownlinkInOrder == \A k \in 1..(Len(delivered) - 1) : delivered[k] < delivered[k + 1]

\* A session that ends with the upstream's end of stream has delivered all the
\* upstream sent, unless the grace period ran out or an op got an error in it,
\* the node was restarted, or the registry forgot a batch before its retry.
EofComplete ==
  loop = "eof" /\ ~abandoned /\ restarts = 0 /\ NothingForgotten =>
    eof /\ Range(delivered) = 1..down_read

\* Every op is answered, fails or goes down with its session, whatever is lost
\* on the way: tunnel_loop never waits for ever.
OpsAnswered == \A s \in 1..MaxOps : s \in inflight ~> s \notin inflight

\* An upload is written upstream or the session ends; it is never left behind
\* in a session that goes on.
UploadArrivesOrEnds == \A w \in 0..(MaxUp - 1) : up_read > w ~> w < expected \/ loop # "run"

=============================================================================
