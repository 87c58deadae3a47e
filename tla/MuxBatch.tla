------------------------------ MODULE MuxBatch ------------------------------
(***************************************************************************)
(* mux_loop, BatchAccum and fire_batch of tunnel_client.rs: how the ops of *)
(* all sessions are coalesced into batches, and how a batch waits for its  *)
(* turn at a deployment.  FullTunnel looks at what batches do to one       *)
(* session; this module at the batches themselves: the two deadlines, the  *)
(* limits, the positions of the replies, the permits.                      *)
(*                                                                         *)
(* Time passes in ticks; an op carries its kind, its size and a number.    *)
(***************************************************************************)
EXTENDS Integers, SequencesExt

CONSTANTS
    MxKinds,                       \* op shapes [kind, bytes, hello] the sessions send
    MaxMsgs,                       \* bound: ops sent in a behaviour
    COALESCE_STEP, COALESCE_MAX, HANDSHAKE_MAX,
    MAX_BATCH_OPS, MAX_BATCH_PAYLOAD,
    CONCURRENCY, IDLE_CONCURRENCY

VARIABLES
    mxSent,      \* number of ops sent so far
    mxChannel,   \* the mpsc channel: ops in order
    mxOpen,      \* a sender of the channel is left
    mxAt,        \* recv, gather, assemble, stopped
    mxMsgs,      \* msgs of the current round
    mxAge,       \* time since batch_start
    mxSoft,      \* soft_deadline - now
    mxHard,      \* hard_deadline - batch_start
    mxPriority,
    mxAccum,     \* BatchAccum: [ops, replies: sequence of positions and whose they are, bytes]
    mxCloses,    \* close_sids
    mxBatches,   \* fired batches: [ops, replies, at: queued, held, done]
    mxQueue,     \* the batches waiting in the total semaphore's fair queue
    mxLate       \* longest time a round with a handshake op in it was held, after it had one

mxVars == <<mxSent, mxChannel, mxOpen, mxAt, mxMsgs, mxAge, mxSoft, mxHard, mxPriority, mxAccum,
            mxCloses, mxBatches, mxQueue, mxLate>>

NoAccum == [ops |-> <<>>, replies |-> <<>>, bytes |-> 0]
HandshakeMax == IF HANDSHAKE_MAX < COALESCE_MAX THEN HANDSHAKE_MAX ELSE COALESCE_MAX
EncodedLen(n) == ((n + 2) \div 3) * 4

MxInit ==
    /\ mxSent = 0 /\ mxChannel = <<>> /\ mxOpen = TRUE
    /\ mxAt = "recv" /\ mxMsgs = <<>> /\ mxAge = 0 /\ mxSoft = 0 /\ mxHard = 0 /\ mxPriority = FALSE
    /\ mxAccum = NoAccum /\ mxCloses = <<>>
    /\ mxBatches = <<>> /\ mxQueue = <<>> /\ mxLate = 0

\* A session, or a UDP task, sends an op (send_sync, send).
MuxSend ==
    /\ mxOpen /\ mxSent < MaxMsgs
    /\ \E k \in MxKinds : mxChannel' = Append(mxChannel, [id |-> mxSent + 1] @@ k)
    /\ mxSent' = mxSent + 1
    /\ UNCHANGED <<mxOpen, mxAt, mxMsgs, mxAge, mxSoft, mxHard, mxPriority, mxAccum, mxCloses,
                   mxBatches, mxQueue, mxLate>>

\* The last Arc<TunnelMux> is dropped (a mode switch, the end of the proxy).
MuxDropped ==
    /\ mxOpen /\ mxOpen' = FALSE
    /\ UNCHANGED <<mxSent, mxChannel, mxAt, mxMsgs, mxAge, mxSoft, mxHard, mxPriority, mxAccum,
                   mxCloses, mxBatches, mxQueue, mxLate>>

IsHandshakePriority(m) == m.kind \in {"connect", "connect_data"} \/ (m.kind = "data" /\ m.hello)

-----------------------------------------------------------------------------
(* Gathering a round. *)

\* The first op of a round anchors both deadlines.
RecvFirst ==
    /\ mxAt = "recv" /\ mxChannel # <<>>
    /\ mxMsgs' = <<Head(mxChannel)>> /\ mxChannel' = Tail(mxChannel)
    /\ mxPriority' = IsHandshakePriority(Head(mxChannel))
    /\ mxHard' = IF IsHandshakePriority(Head(mxChannel)) THEN HandshakeMax ELSE COALESCE_MAX
    /\ mxAge' = 0 /\ mxSoft' = COALESCE_STEP /\ mxAt' = "gather"
    /\ UNCHANGED <<mxSent, mxOpen, mxAccum, mxCloses, mxBatches, mxQueue, mxLate>>

RecvEnds ==
    /\ mxAt = "recv" /\ mxChannel = <<>> /\ ~mxOpen
    /\ mxAt' = "stopped"
    /\ UNCHANGED <<mxSent, mxChannel, mxOpen, mxMsgs, mxAge, mxSoft, mxHard, mxPriority, mxAccum,
                   mxCloses, mxBatches, mxQueue, mxLate>>

\* upgrade_handshake_deadline: sticky, and it can only shorten the wait.
UpgradeHandshakeDeadline(m) ==
    IF ~mxPriority /\ IsHandshakePriority(m)
    THEN mxPriority' = TRUE /\ mxHard' = IF mxHard < HandshakeMax THEN mxHard ELSE HandshakeMax
    ELSE UNCHANGED <<mxPriority, mxHard>>

\* Another op, taken without waiting or before the deadline; the soft deadline starts again.
Gather ==
    /\ mxAt = "gather" /\ mxChannel # <<>>
    /\ mxMsgs' = Append(mxMsgs, Head(mxChannel)) /\ mxChannel' = Tail(mxChannel)
    /\ UpgradeHandshakeDeadline(Head(mxChannel))
    /\ mxSoft' = COALESCE_STEP
    /\ UNCHANGED <<mxSent, mxOpen, mxAt, mxAge, mxAccum, mxCloses, mxBatches, mxQueue, mxLate>>

Due == mxSoft <= 0 \/ mxAge >= mxHard

\* The channel is closed and empty while the round still waits: the round is dropped with it.
GatherEnds ==
    /\ mxAt = "gather" /\ mxChannel = <<>> /\ ~mxOpen /\ ~Due
    /\ mxAt' = "stopped" /\ mxMsgs' = <<>>
    /\ UNCHANGED <<mxSent, mxChannel, mxOpen, mxAge, mxSoft, mxHard, mxPriority, mxAccum,
                   mxCloses, mxBatches, mxQueue, mxLate>>

\* Time passes for a waiting round that has nothing to take.
MuxTick ==
    /\ mxAt = "gather" /\ mxChannel = <<>> /\ ~Due
    /\ mxAge' = mxAge + 1 /\ mxSoft' = mxSoft - 1
    /\ mxLate' = IF mxPriority /\ mxAge + 1 > mxLate THEN mxAge + 1 ELSE mxLate
    /\ UNCHANGED <<mxSent, mxChannel, mxOpen, mxAt, mxMsgs, mxHard, mxPriority, mxAccum, mxCloses,
                   mxBatches, mxQueue>>

Deadline ==
    /\ mxAt = "gather" /\ mxChannel = <<>> /\ Due
    /\ mxAt' = "assemble"
    /\ UNCHANGED <<mxSent, mxChannel, mxOpen, mxMsgs, mxAge, mxSoft, mxHard, mxPriority, mxAccum,
                   mxCloses, mxBatches, mxQueue, mxLate>>

-----------------------------------------------------------------------------
(* Assembling batches out of it. *)

ShouldFire(a, bytes) ==
    /\ a.ops # <<>>
    /\ Len(a.ops) >= MAX_BATCH_OPS \/ a.bytes + bytes > MAX_BATCH_PAYLOAD

IsIdlePollBatch(ops) ==
    ops # <<>> /\ \A i \in DOMAIN ops : ops[i].kind \in {"data", "udp_data"} /\ ops[i].bytes = 0

\* fire_batch hands the batch to a task of its own; an active one joins the fair queue when the
\* task first runs, an idle one has to get an idle permit first.
Fire(a) == [ops |-> a.ops, replies |-> a.replies, at |-> "spawned"]

\* Where the op goes in its batch.  (Mutant: the position before the flush.)
StalePosition(a) == Len(mxAccum.ops) + 1
Position(a) == Len(a.ops) + 1

\* push_or_fire for one op of the round; closes are put aside.
Assemble ==
    LET m == Head(mxMsgs)
        b == EncodedLen(m.bytes)
        a == IF ShouldFire(mxAccum, b) THEN NoAccum ELSE mxAccum
    IN
    /\ mxAt = "assemble" /\ mxMsgs # <<>>
    /\ mxMsgs' = Tail(mxMsgs)
    /\ IF m.kind = "close"
       THEN mxCloses' = Append(mxCloses, m) /\ UNCHANGED <<mxAccum, mxBatches>>
       ELSE /\ mxBatches' = IF ShouldFire(mxAccum, b) THEN Append(mxBatches, Fire(mxAccum)) ELSE mxBatches
            /\ mxAccum' = [ops |-> Append(a.ops, m),
                           replies |-> Append(a.replies, [idx |-> Position(a), id |-> m.id]),
                           bytes |-> a.bytes + b]
            /\ UNCHANGED mxCloses
    /\ UNCHANGED <<mxSent, mxChannel, mxOpen, mxAt, mxAge, mxSoft, mxHard, mxPriority, mxQueue, mxLate>>

\* The closes ride at the end of the last batch.
WithCloses == mxAccum.ops \o mxCloses

FireLast ==
    /\ mxAt = "assemble" /\ mxMsgs = <<>>
    /\ mxBatches' = Append(mxBatches, Fire([mxAccum EXCEPT !.ops = WithCloses]))
    /\ mxAccum' = NoAccum /\ mxCloses' = <<>> /\ mxAt' = "recv"
    /\ UNCHANGED <<mxSent, mxChannel, mxOpen, mxMsgs, mxAge, mxSoft, mxHard, mxPriority, mxQueue, mxLate>>

-----------------------------------------------------------------------------
(* The permits of the deployment. *)

With(i, at) == mxBatches' = [mxBatches EXCEPT ![i].at = at]
Holding == {i \in DOMAIN mxBatches : mxBatches[i].at = "held"}
IdleHolding == {i \in DOMAIN mxBatches : mxBatches[i].at \in {"idle", "held"} /\ IsIdlePollBatch(mxBatches[i].ops)}
Loop == <<mxSent, mxChannel, mxOpen, mxAt, mxMsgs, mxAge, mxSoft, mxHard, mxPriority, mxAccum, mxCloses, mxLate>>

IdleRoom == Cardinality(IdleHolding) < IDLE_CONCURRENCY

\* The task's first step: an idle batch takes an idle permit, an active one queues for the total.
Admit(i) ==
    /\ mxBatches[i].at = "spawned"
    /\ IF IsIdlePollBatch(mxBatches[i].ops)
       THEN IdleRoom /\ With(i, "idle") /\ UNCHANGED mxQueue
       ELSE With(i, "queued") /\ mxQueue' = Append(mxQueue, i)
    /\ UNCHANGED Loop

\* A free permit goes to the head of the queue; an idle batch gets one only by finding it free
\* when it looks, which it does not while somebody queues.
Acquire(i) ==
    /\ Cardinality(Holding) < CONCURRENCY
    /\ \/ mxQueue # <<>> /\ i = Head(mxQueue) /\ mxQueue' = Tail(mxQueue)
       \/ mxQueue = <<>> /\ mxBatches[i].at = "idle" /\ UNCHANGED mxQueue
    /\ With(i, "held")
    /\ UNCHANGED Loop

\* The round trip ends with whatever result; the permits are dropped and every reply is sent.
BatchEnds(i) ==
    /\ mxBatches[i].at = "held"
    /\ With(i, "done")
    /\ UNCHANGED mxQueue /\ UNCHANGED Loop

MxLoopStep == RecvFirst \/ RecvEnds \/ Gather \/ GatherEnds \/ MuxTick \/ Deadline \/ Assemble \/ FireLast
BatchStep(i) == Admit(i) \/ Acquire(i) \/ BatchEnds(i)

MxNext ==
    \/ MuxSend \/ MuxDropped \/ MxLoopStep
    \/ \E i \in DOMAIN mxBatches : BatchStep(i)

\* The loop is a task of its own, tasks of batches run, and a round trip ends by its timeout.
MxFairness ==
    /\ WF_mxVars(MxLoopStep)
    /\ WF_mxVars(\E i \in DOMAIN mxBatches : BatchStep(i))

MxSpec == MxInit /\ [][MxNext]_mxVars /\ MxFairness

-----------------------------------------------------------------------------
(* Properties. *)

AllIds(s) == {s[i].id : i \in DOMAIN s}

\* Type invariant; idle batches alone never take every permit of the deployment.
MxTypeOK ==
    /\ Cardinality(Holding) <= CONCURRENCY
    /\ Cardinality(IdleHolding) <= IDLE_CONCURRENCY
    /\ \A i \in DOMAIN mxBatches : mxBatches[i].ops # <<>>
    /\ mxAge <= COALESCE_MAX

\* Every op that was taken from the channel is in one place, and batches hold them in the order in
\* which they were sent, closes last: none is lost or doubled by a flush in the middle of a round.
EveryOpOnce ==
    LET placed == FlattenSeq([i \in DOMAIN mxBatches |-> mxBatches[i].ops])
        all    == placed \o mxAccum.ops \o mxCloses \o mxMsgs \o mxChannel
        plain(s) == SelectSeq(s, LAMBDA m : m.kind # "close")
    IN  /\ mxAt # "stopped" => AllIds(all) = 1..mxSent /\ Len(all) = mxSent
        /\ LET p == plain(all) IN \A i, j \in DOMAIN p : i < j => p[i].id < p[j].id

\* The reply channel at a position is that of the op at this position of the batch, so that the
\* answer r[idx] of the node reaches the session that asked (BatchAccum after a flush).
RepliesAligned ==
    \A i \in DOMAIN mxBatches : \A k \in DOMAIN mxBatches[i].replies :
        LET r == mxBatches[i].replies[k] IN
        r.idx \in DOMAIN mxBatches[i].ops /\ mxBatches[i].ops[r.idx].id = r.id

\* A batch stays within both limits, except that one op that is too large travels alone.
BatchWithinLimits ==
    \A i \in DOMAIN mxBatches :
        LET ops == SelectSeq(mxBatches[i].ops, LAMBDA m : m.kind # "close") IN
        /\ Len(ops) <= MAX_BATCH_OPS
        /\ Len(ops) > 1 =>
              FoldSeq(LAMBDA m, sum : sum + EncodedLen(m.bytes), 0, ops) <= MAX_BATCH_PAYLOAD

\* A handshake never waits longer than its own limit once it is in a round, whatever arrives
\* after it and resets the soft deadline.
HandshakeNotHeld == mxLate <= HandshakeMax

\* A batch with something to deliver gets its turn, however many idle polls compete with it.
ActiveServed ==
    \A i \in DOMAIN mxBatches : IsIdlePollBatch(mxBatches[i].ops) \/ mxBatches[i].at = "done"

\* The contract of the mux: every op once and in order, answers to those who asked, within limits.
MuxSound == MxTypeOK /\ EveryOpOnce /\ RepliesAligned /\ BatchWithinLimits /\ HandshakeNotHeld
=============================================================================
