----------------------------- MODULE AckProofs ------------------------------
(***************************************************************************)
(* Proofs about FullTunnel: what the client takes for uploaded is not      *)
(* lost.  A response may claim an upload only if the node has it, wherever *)
(* that response is: with a handler, in the registry, on its way, held     *)
(* back by tunnel_loop.  The hard case is a write that is interrupted.     *)
(* Its uploads are lost if nobody sends them again, so the batch it        *)
(* belonged to must never be answered well: it is dead (no handler runs    *)
(* it, its registry entry stays pending), nothing good was said of its op, *)
(* and tunnel_loop, which writes in op order, never gets past that op.  A  *)
(* batch without a result is quiet in the same way, which is why two       *)
(* attempts never both execute it.  The steps of the node come first, then *)
(* those of a handler from its claim to its response, of the client and of *)
(* the network.                                                            *)
(***************************************************************************)
EXTENDS FullTunnelProofs

\* The hypothesis of AckedUploadKept.
Known == session = "open" /\ NothingForgotten

\* The node has taken charge of the upload of op s (true of every poll).
Kept(s) == ops[s].wseq < expected \/ ops[s].wseq \in DOMAIN pending \cup cut

\* A response that does not say more than is true of op s.
Fine(r, s) == (r.err = "none" => Kept(s)) /\ ~r.eof

OpAt(b, k) == batches[b].lo + k - 1

\* Nothing that left the handlers says that the k-th op of batch b was executed.
Quiet(b, k) ==
  /\ OpAt(b, k) \notin DOMAIN pending_writes /\ next_write_seq <= OpAt(b, k)
  /\ OpAt(b, k) \in DOMAIN replies => replies[OpAt(b, k)].err # "none"
  /\ \A a \in 1..2 : handlers[b][a].st = "resp" => handlers[b][a].out[k].err # "none"

Executing(b, a) == handlers[b][a].st \in {"exec", "drain"}

\* The batch has a result.
Settled(b) == IF ReplaySafe(b) THEN registry[b].st = "ready"
              ELSE handlers[b][1].st \in {"resp", "gone"}

\* The batch has no result and will not be executed any more.
Dead(b) ==
  /\ \A a \in 1..2 : ~Executing(b, a)
  /\ IF ReplaySafe(b) THEN registry[b].st = "pending"
     ELSE \A a \in 1..2 : handlers[b][a].st \notin {"net", "wait"}

\* What a handler of batch b has in its hands.
HandlerSound(b, h) ==
  /\ h.st = "resp" => \A k \in 1..NumOps(b) : Fine(h.out[k], OpAt(b, k))
  /\ h.st \in {"exec", "drain"} =>
       /\ \A k \in 1..Len(h.out) : h.out[k].err = "none" => Kept(OpAt(b, k))
       /\ \A p \in h.drains : p \in 1..Len(h.out) /\ h.out[p].err = "none"

BatchSound(b) ==
  /\ \A a \in 1..2 : Executing(b, a) /\ ReplaySafe(b) => registry[b].st = "pending"
  /\ ~(Executing(b, 1) /\ Executing(b, 2))
  /\ ~Settled(b) => \A k \in 1..NumOps(b) : Quiet(b, k)
  /\ registry[b].st = "ready" => \A k \in 1..NumOps(b) : Fine(registry[b].body[k], OpAt(b, k))
  /\ \A a \in 1..2 : HandlerSound(b, handlers[b][a])

ClientSound ==
  /\ ~eof_seen
  /\ \A s \in DOMAIN replies : Fine(replies[s], s)
  /\ \A s \in DOMAIN pending_writes : Kept(s) /\ ~pending_writes[s].eof
  /\ \A s \in 1..(next_write_seq - 1) : ops[s].wseq < expected

PendingAhead == \A k \in DOMAIN pending : k > expected

\* An interrupted write leaves an op behind that never gets a good response, and
\* so bounds what tunnel_loop writes.
CutIsDead ==
  cut # {} => \E b \in 1..Len(batches) : \E k \in 1..NumOps(b) :
    /\ Dead(b) /\ Quiet(b, k)
    /\ ops[OpAt(b, k)] # PollOp /\ ops[OpAt(b, k)].wseq <= expected

\* What holds as long as the session lives and nothing was forgotten.
KnownInv ==
  /\ \A b \in 1..Len(batches) : BatchSound(b)
  /\ ClientSound /\ PendingAhead /\ CutIsDead

AckInv == OpsNumbered /\ OpsPlaced /\ (Known => KnownInv)

-----------------------------------------------------------------------------
\* A step on which the node keeps charge of what it has.
Stays == \A s \in 1..Len(ops) : Kept(s) => Kept(s)'

\* An op of a batch is an op of the session.
LEMMA OpAtRange ==
  ASSUME NodeTypes, NEW b \in DOMAIN batches, NEW k \in 1..NumOps(b)
  PROVE  /\ OpAt(b, k) \in 1..fired /\ OpAt(b, k) \in 1..Len(ops) /\ OpAt(b, k) \in BatchOps(b)
         /\ ops[OpAt(b, k)].wseq \in Int /\ OpAt(b, k) - batches[b].lo + 1 = k
<1>1. /\ batches[b].lo \in Nat \ {0} /\ batches[b].hi \in Nat
      /\ NumOps(b) = batches[b].hi - batches[b].lo + 1 /\ batches[b].hi <= fired
  BY BatchTyped, Zenon
<1>2. /\ fired \in Nat /\ fired <= Len(ops) /\ ops \in Seq([wseq : Int, chunk : Int])
      /\ Len(ops) \in Nat
  BY DEF NodeTypes
<1> DEFINE lo == batches[b].lo
           hi == batches[b].hi
           n == NumOps(b)
<1>3. lo \in Nat \ {0} /\ hi \in Nat /\ n = hi - lo + 1 /\ hi <= fired /\ k \in 1..n
  BY <1>1, Zenon
<1> HIDE DEF lo, hi, n
<1>4. lo + k - 1 \in 1..fired /\ lo + k - 1 \in 1..Len(ops) /\ lo + k - 1 \in lo..hi
      /\ (lo + k - 1) - lo + 1 = k
  BY <1>2, <1>3
<1>5. /\ OpAt(b, k) \in 1..fired /\ OpAt(b, k) \in 1..Len(ops) /\ OpAt(b, k) \in BatchOps(b)
      /\ OpAt(b, k) - batches[b].lo + 1 = k
  BY <1>4, Zenon DEF OpAt, BatchOps, lo, hi
<1>6. ops[OpAt(b, k)] \in [wseq : Int, chunk : Int]
  BY <1>2, <1>5, ElementOfSeq, Zenon
<1> QED
  BY <1>5, <1>6, Zenon

\* What a handler that makes no step holds stays true.
LEMMA SoundStays ==
  ASSUME NodeTypes, OpsPlaced, Stays, NEW c \in DOMAIN batches, NEW e \in 1..2,
         HandlerSound(c, handlers[c][e]), handlers'[c][e] = handlers[c][e],
         NumOps(c)' = NumOps(c), batches'[c].lo = batches[c].lo
  PROVE  HandlerSound(c, handlers[c][e])'
<1> DEFINE h == handlers[c][e]
<1>1. /\ c \in 1..Len(batches) /\ h \in HandlerType /\ NumOps(c) \in Nat
      /\ h.out \in Seq(Responses) /\ Len(h.out) \in Nat
  BY SMTT(60), BatchTyped DEF HandlerType
<1>2. \A k : OpAt(c, k)' = OpAt(c, k)
  BY Zenon DEF OpAt
<1>3. \A k \in 1..NumOps(c) : Kept(OpAt(c, k)) => Kept(OpAt(c, k))'
  BY <1>2, OpAtRange, Zenon DEF Stays
<1>4. ASSUME h.st = "resp" PROVE \A k \in 1..NumOps(c) : Fine(h.out[k], OpAt(c, k))'
  BY <1>3, <1>4, Zenon DEF HandlerSound, Fine
<1>5. ASSUME h.st \in {"exec", "drain"}
      PROVE  \A k \in 1..Len(h.out) : h.out[k].err = "none" => Kept(OpAt(c, k))'
  <2>1. Len(h.out) <= NumOps(c)
    BY SMTT(60), <1>1, <1>5 DEF OpsPlaced
  <2>2. \A k \in 1..Len(h.out) : k \in 1..NumOps(c)
    BY <1>1, <2>1
  <2> QED
    BY <1>3, <1>5, <2>2, Zenon DEF HandlerSound
<1>6. h.st \in {"exec", "drain"} => \A p \in h.drains : p \in 1..Len(h.out) /\ h.out[p].err = "none"
  BY Zenon DEF HandlerSound
<1> QED
  BY <1>4, <1>5, <1>6, Zenon DEF HandlerSound

\* An op of which nothing was said stays one when no response is made of it.
LEMMA HandlerQuiet ==
  ASSUME NodeTypes, NEW b \in DOMAIN batches, NEW c \in DOMAIN batches, NEW a \in 1..2, NEW h,
         SetHandler(b, a, h), UNCHANGED <<client, network>>, NEW k \in 1..NumOps(c), Quiet(c, k),
         c = b /\ h.st = "resp" => h.out[k].err # "none"
  PROVE  Quiet(c, k)'
<1>1. /\ batches' = batches /\ replies' = replies
      /\ pending_writes' = pending_writes /\ next_write_seq' = next_write_seq
  BY Zenon DEF client, network
<1>2. OpAt(c, k)' = OpAt(c, k)
  BY <1>1, Zenon DEF OpAt
<1>3. \A e \in 1..2 : handlers'[c][e] = IF c = b /\ e = a THEN h ELSE handlers[c][e]
  BY SMTT(60), SetHandlerFrame, BatchTyped
<1>4. \A e \in 1..2 : handlers[c][e].st = "resp" => handlers[c][e].out[k].err # "none"
  BY Zenon DEF Quiet
<1>5. \A e \in 1..2 : handlers'[c][e].st = "resp" => handlers'[c][e].out[k].err # "none"
  BY <1>3, <1>4, Zenon
<1> QED
  BY <1>1, <1>2, <1>5, Zenon DEF Quiet

\* The ops have numbers.
LEMMA OpsTyped == ASSUME NodeTypes PROVE \A s \in 1..Len(ops) : ops[s].wseq \in Int
<1> TAKE s \in 1..Len(ops)
<1>1. ops \in Seq([wseq : Int, chunk : Int])
  BY Zenon DEF NodeTypes
<1>2. ops[s] \in [wseq : Int, chunk : Int]
  BY <1>1, ElementOfSeq, Zenon
<1> QED
  BY <1>2, Zenon

\* The client's side of the invariant, on a step of the node.
LEMMA ClientStays ==
  ASSUME NodeTypes, OpsPlaced, ClientSound, Stays, UNCHANGED client, expected \in Nat,
         expected' \in Nat, expected <= expected'
  PROVE  ClientSound'
<1>1. /\ ops' = ops /\ replies' = replies /\ eof_seen' = eof_seen
      /\ pending_writes' = pending_writes /\ next_write_seq' = next_write_seq
  BY Zenon DEF client
<1>2. /\ DOMAIN replies \subseteq 1..Len(ops) /\ DOMAIN pending_writes \subseteq 1..Len(ops)
      /\ \A s \in 1..(next_write_seq - 1) : s \in 1..Len(ops)
  BY SMTT(60) DEF OpsPlaced, NodeTypes
<1>3. \A s \in 1..Len(ops) : ops[s].wseq \in Int
  BY OpsTyped, Zenon
<1>4. \A s \in 1..(next_write_seq - 1) : ops[s].wseq < expected'
  <2> TAKE s \in 1..(next_write_seq - 1)
  <2>1. ops[s].wseq < expected /\ ops[s].wseq \in Int
    BY <1>2, <1>3, Zenon DEF ClientSound
  <2> QED
    BY <2>1
<1>5. \A s \in DOMAIN replies : Fine(replies[s], s)'
  BY <1>1, <1>2, Zenon DEF ClientSound, Fine, Stays
<1>6. \A s \in DOMAIN pending_writes : Kept(s)' /\ ~pending_writes[s].eof
  BY <1>1, <1>2, Zenon DEF ClientSound, Stays
<1> QED
  BY <1>1, <1>4, <1>5, <1>6, Zenon DEF ClientSound

\* The op an interrupted write left behind is still there.
LEMMA CutStays ==
  ASSUME NodeTypes, CutIsDead, cut' # {} => cut # {}, expected \in Nat, expected' \in Nat,
         expected <= expected', \A s \in 1..Len(ops) : ops'[s] = ops[s],
         Len(batches) \in Nat, Len(batches') \in Nat, Len(batches) <= Len(batches'),
         \A c \in 1..Len(batches) : NumOps(c)' = NumOps(c) /\ batches'[c].lo = batches[c].lo,
         \A c \in 1..Len(batches) : \A k \in 1..NumOps(c) :
           Dead(c) /\ Quiet(c, k) => Dead(c)' /\ Quiet(c, k)'
  PROVE  CutIsDead'
<1> SUFFICES ASSUME cut' # {}
             PROVE  \E b \in 1..Len(batches') : \E k \in 1..NumOps(b)' :
                      /\ Dead(b)' /\ Quiet(b, k)'
                      /\ ops'[OpAt(b, k)'] # PollOp /\ ops'[OpAt(b, k)'].wseq <= expected'
  BY Zenon DEF CutIsDead
<1>1. PICK b \in 1..Len(batches) : \E k \in 1..NumOps(b) :
        /\ Dead(b) /\ Quiet(b, k)
        /\ ops[OpAt(b, k)] # PollOp /\ ops[OpAt(b, k)].wseq <= expected
  BY Zenon DEF CutIsDead
<1>2. PICK k \in 1..NumOps(b) :
        /\ Dead(b) /\ Quiet(b, k)
        /\ ops[OpAt(b, k)] # PollOp /\ ops[OpAt(b, k)].wseq <= expected
  BY <1>1, Zenon
<1>3. b \in DOMAIN batches
  BY DEF NodeTypes
<1>4. OpAt(b, k) \in 1..Len(ops) /\ ops[OpAt(b, k)].wseq \in Int
  BY <1>3, OpAtRange, Zenon
<1>5. OpAt(b, k)' = OpAt(b, k) /\ NumOps(b)' = NumOps(b)
  BY Zenon DEF OpAt
<1>6. ops[OpAt(b, k)].wseq <= expected'
  BY SMTT(60), <1>2, <1>4
<1>7. ops'[OpAt(b, k)'] # PollOp /\ ops'[OpAt(b, k)'].wseq <= expected'
  BY <1>2, <1>4, <1>5, <1>6, Zenon
<1>8. Dead(b)' /\ Quiet(b, k)'
  BY <1>2, Zenon
<1>9. b \in 1..Len(batches') /\ k \in 1..NumOps(b)'
  BY SMTT(60), <1>5
<1> QED
  BY <1>7, <1>8, <1>9, Zenon

\* A batch of which nothing changes but that the node has taken charge of more.
LEMMA BatchStays ==
  ASSUME NodeTypes, OpsPlaced, Stays, NEW c \in DOMAIN batches, BatchSound(c),
         handlers'[c] = handlers[c], registry'[c] = registry[c],
         batches'[c].lo = batches[c].lo, batches'[c].hi = batches[c].hi,
         batches'[c].close = batches[c].close,
         \A k \in 1..NumOps(c) : Quiet(c, k) => Quiet(c, k)'
  PROVE  /\ BatchSound(c)'
         /\ \A k \in 1..NumOps(c) : Dead(c) /\ Quiet(c, k) => Dead(c)' /\ Quiet(c, k)'
<1>1. /\ NumOps(c)' = NumOps(c) /\ ReplaySafe(c)' = ReplaySafe(c)
      /\ \A k : OpAt(c, k)' = OpAt(c, k)
  BY Zenon DEF NumOps, ReplaySafe, OpAt
<1>2. Settled(c)' = Settled(c) /\ Dead(c)' = Dead(c) /\ \A a \in 1..2 : Executing(c, a)' = Executing(c, a)
  BY <1>1, Zenon DEF Settled, Dead, Executing
<1>3. \A a \in 1..2 : HandlerSound(c, handlers[c][a])'
  BY <1>1, SoundStays, Zenon DEF BatchSound
<1>4. \A k \in 1..NumOps(c) : Kept(OpAt(c, k)) => Kept(OpAt(c, k))'
  BY <1>1, OpAtRange, Zenon DEF Stays
<1>5. registry[c].st = "ready" => \A k \in 1..NumOps(c) : Fine(registry[c].body[k], OpAt(c, k))'
  BY <1>4, Zenon DEF BatchSound, Fine
<1> QED
  BY <1>1, <1>2, <1>3, <1>5 DEF BatchSound

\* A step of a handler that keeps its own batch sound and uncovers no dead op.
LEMMA HandlerAck ==
  ASSUME NodeTypes, OpsPlaced, KnownInv, Stays, NEW b \in DOMAIN batches, NEW a \in 1..2, NEW h,
         SetHandler(b, a, h), UNCHANGED <<client, network>>,
         expected \in Nat, expected' \in Nat, expected <= expected',
         \A c \in 1..Len(batches) : c # b => registry'[c] = registry[c],
         BatchSound(b)', PendingAhead',
         \/ CutIsDead'
         \/ cut' = cut /\ \A k \in 1..NumOps(b) : Dead(b) /\ Quiet(b, k) => Dead(b)' /\ Quiet(b, k)'
  PROVE  KnownInv'
<1>1. /\ batches' = batches /\ ops' = ops /\ Len(batches) \in Nat /\ DOMAIN batches = 1..Len(batches)
  BY SMTT(60) DEF client, network, NodeTypes
<1>2. \A c \in 1..Len(batches) : NumOps(c)' = NumOps(c)
  BY <1>1, Zenon DEF NumOps
<1>3. DOMAIN handlers = 1..Len(batches)
  BY DEF NodeTypes
<1>4. \A c \in 1..Len(batches) : c # b => handlers'[c] = handlers[c]
  BY <1>3, Zenon DEF SetHandler
<1>5. ASSUME NEW c \in 1..Len(batches), c # b
      PROVE  /\ BatchSound(c)'
             /\ \A k \in 1..NumOps(c) : Dead(c) /\ Quiet(c, k) => Dead(c)' /\ Quiet(c, k)'
  <2>1. \A k \in 1..NumOps(c) : Quiet(c, k) => Quiet(c, k)'
    BY <1>1, <1>5, HandlerQuiet, Zenon
  <2>2. BatchSound(c) /\ handlers'[c] = handlers[c] /\ registry'[c] = registry[c]
    BY <1>4, <1>5, Zenon DEF KnownInv
  <2> QED
    BY <1>1, <2>1, <2>2, BatchStays, Zenon
<1>6. \A c \in 1..Len(batches') : BatchSound(c)'
  BY <1>1, <1>5, Zenon
<1>7. ClientSound'
  BY ClientStays, Zenon DEF KnownInv
<1>8. CutIsDead'
  <2> SUFFICES ASSUME cut' = cut,
                      \A k \in 1..NumOps(b) : Dead(b) /\ Quiet(b, k) => Dead(b)' /\ Quiet(b, k)'
               PROVE  CutIsDead'
    BY Zenon
  <2>1. \A c \in 1..Len(batches) : \A k \in 1..NumOps(c) :
           Dead(c) /\ Quiet(c, k) => Dead(c)' /\ Quiet(c, k)'
    BY <1>5, Zenon
  <2>2. CutIsDead /\ Len(batches') \in Nat /\ Len(batches) <= Len(batches')
    BY <1>1 DEF KnownInv
  <2> QED
    BY <1>1, <1>2, <2>1, <2>2, CutStays, Zenon
<1> QED
  BY <1>6, <1>7, <1>8, Zenon DEF KnownInv

\* Nothing is forgotten in one step that is remembered in the next state.
LEMMA KnownBefore == NodeTypes /\ [Next]_vars /\ Known' => Known
<1> SUFFICES ASSUME NodeTypes, [Next]_vars, Known' PROVE Known
  BY Zenon
<1>1. session' = "open" /\ \A b \in DOMAIN registry' : ~registry'[b].forgot
  BY Zenon DEF Known, NothingForgotten
<1>2. DOMAIN registry = 1..Len(batches) /\ \A b \in DOMAIN registry : registry[b] \in EntryType
  BY DEF NodeTypes
<1>3. session = "open"
  <2> DEFINE P == session' = session \/ session' = "gone"
  <2>1. ClientStep => P
    BY Zenon DEF ClientStep, SendPoll, ReadClient, ReadClientEof, LoopDone, GraceOver, HandleReply,
       HandleError, LocalWriteFails, GraceReply, TakeReply, EndLoop, node
  <2>2. BatchStep => P
    BY Zenon DEF BatchStep, FireBatch, ReceiveResponse, RetryBatch, FailBatch, Reply
  <2>3. SessionStep => P
    BY Zenon DEF SessionStep, ReadUpstream, ReadUpstreamEof, Reap, Restart, Forget
  <2>4. ASSUME NEW b \in DOMAIN batches, NEW a \in 1..2, HandlerStep(b, a) PROVE P
    <3>1. CASE Claim(b, a) \/ WaitDone(b, a) \/ WaitGivesUp(b, a) \/ Drain(b, a)
      BY <3>1, Zenon DEF Claim, WaitDone, WaitGivesUp, Drain
    <3>2. CASE ExecUnknown(b, a) \/ ExecNoWrite(b, a) \/ ExecInOrder(b, a) \/ CancelInWrite(b, a)
      BY <3>2, Zenon DEF ExecUnknown, ExecNoWrite, ExecInOrder, CancelInWrite
    <3>3. CASE ExecAhead(b, a) \/ EndPhase1(b, a) \/ Complete(b, a)
      BY <3>3, Zenon DEF ExecAhead, EndPhase1, Complete
    <3> QED
      BY <2>4, <3>1, <3>2, <3>3, Zenon DEF HandlerStep
  <2>5. UNCHANGED vars => P
    BY Zenon DEF vars, node
  <2>6. P
    BY <2>1, <2>2, <2>3, <2>4, <2>5, Zenon DEF Next
  <2> QED
    BY <1>1, <2>6, Zenon
<1>4. ASSUME NEW b \in DOMAIN registry, UNCHANGED registry PROVE ~registry[b].forgot
  BY <1>1, <1>4, Zenon
<1>5. ASSUME NEW b \in DOMAIN registry PROVE ~registry[b].forgot
  <2>1. CASE ClientStep
    BY <1>4, <2>1, Zenon DEF ClientStep, SendPoll, ReadClient, ReadClientEof, LoopDone, GraceOver,
       HandleReply, HandleError, LocalWriteFails, GraceReply, TakeReply, EndLoop, node
  <2>2. CASE FireBatch
    <3>1. registry \in Seq(EntryType) /\ registry' = Append(registry, Absent)
      BY <2>2, Zenon DEF FireBatch, NodeTypes
    <3>2. b \in DOMAIN registry' /\ registry'[b] = registry[b]
      BY <3>1, ConstantsTyped, AppendProperties
    <3> QED
      BY <1>1, <3>2, Zenon
  <2>3. ASSUME NEW c \in DOMAIN batches, ReceiveResponse(c) \/ RetryBatch(c) \/ FailBatch(c)
        PROVE  ~registry[b].forgot
    BY <1>4, <2>3, Zenon DEF ReceiveResponse, RetryBatch, FailBatch, Reply
  <2>4. CASE ReadUpstream \/ ReadUpstreamEof \/ Reap
    BY <1>4, <2>4, Zenon DEF ReadUpstream, ReadUpstreamEof, Reap
  <2>5. CASE Restart
    BY <1>1, <2>5, Zenon DEF Restart
  <2>6. ASSUME NEW c \in DOMAIN batches, Forget(c) PROVE ~registry[b].forgot
    <3>1. c \in DOMAIN registry
      BY <1>2 DEF NodeTypes
    <3>2. [Absent EXCEPT !.forgot = TRUE].forgot
      BY Zenon DEF Absent
    <3>3. registry'[c].forgot /\ c \in DOMAIN registry'
      BY <2>6, <3>1, <3>2, Zenon DEF Forget
    <3> QED
      BY <1>1, <3>3, Zenon
  <2>7. ASSUME NEW c \in DOMAIN batches, NEW a \in 1..2, HandlerStep(c, a)
        PROVE  ~registry[b].forgot
    <3>1. CASE Claim(c, a)
      <4>1. registry' = registry \/ registry' = [registry EXCEPT ![c] = [registry[c] EXCEPT !.st = "pending"]]
        BY <3>1, Zenon DEF Claim
      <4>2. [registry[b] EXCEPT !.st = "pending"].forgot = registry[b].forgot
        BY <1>2, Zenon DEF EntryType
      <4>3. b \in DOMAIN registry' /\ registry'[b].forgot = registry[b].forgot
        BY <4>1, <4>2, Zenon
      <4> QED
        BY <1>1, <4>3, Zenon
    <3>2. CASE Complete(c, a)
      <4> DEFINE r(x) == [registry[x] EXCEPT !.st = "ready", !.body = handlers[c][a].out]
      <4>1. registry' = registry \/ registry' = [registry EXCEPT ![c] = r(c)]
        BY <3>2, Zenon DEF Complete
      <4>2. r(b).forgot = registry[b].forgot
        BY <1>2, Zenon DEF EntryType
      <4>3. b \in DOMAIN registry' /\ registry'[b].forgot = registry[b].forgot
        BY <4>1, <4>2, Zenon
      <4> QED
        BY <1>1, <4>3, Zenon
    <3>3. CASE ~(Claim(c, a) \/ Complete(c, a))
      BY <1>4, <2>7, <3>3, Zenon DEF HandlerStep, WaitDone, WaitGivesUp, ExecUnknown,
         ExecNoWrite, ExecInOrder, ExecAhead, EndPhase1, Drain, CancelInWrite
    <3> QED
      BY <3>1, <3>2, <3>3, Zenon
  <2>8. CASE UNCHANGED vars
    BY <1>4, <2>8, Zenon DEF vars, node
  <2> QED
    BY <2>1, <2>2, <2>3, <2>4, <2>5, <2>6, <2>7, <2>8, ZenonT(60) DEF Next, BatchStep, SessionStep
<1> QED
  BY <1>3, <1>5, Zenon DEF Known, NothingForgotten

\* A write of uploads keeps charge of all of them, and leaves behind only those
\* ahead of it.
LEMMA WriteKeeps ==
  ASSUME NodeTypes, PendingAhead, UNCHANGED ops, expected \in Nat,
         \A k \in DOMAIN pending : k \in Int,
         NEW op, op.wseq = expected, NEW next \in Int, expected < next,
         NEW interrupted \in BOOLEAN, WriteUploads(op, next, interrupted),
         ~interrupted => next \notin DOMAIN pending
  PROVE  /\ Stays /\ PendingAhead' /\ expected' \in Nat /\ expected <= expected'
<1>1. /\ (interrupted => expected' = next - 1 /\ cut' = cut \cup {next - 1})
      /\ (~interrupted => expected' = next /\ cut' = cut)
  BY Zenon DEF WriteUploads
<1>2. DOMAIN pending' = DOMAIN pending \ (expected..(next - 1))
  BY Zenon DEF WriteUploads, PendingWithout
<1>3. expected' \in Nat /\ expected <= expected'
  BY <1>1
<1>4. ASSUME NEW k \in DOMAIN pending' PROVE k > expected'
  <2>1. k \in DOMAIN pending /\ k \in Int /\ k > expected /\ ~(k \in expected..(next - 1))
    BY <1>2, Zenon DEF PendingAhead
  <2>2. k >= next
    BY <2>1
  <2>3. ~interrupted => k # next
    BY <2>1, Zenon
  <2> QED
    BY <1>1, <2>1, <2>2, <2>3
<1>5. ASSUME NEW s \in 1..Len(ops), Kept(s) PROVE Kept(s)'
  <2> DEFINE w == ops[s].wseq
  <2>1. w \in Int /\ ops'[s].wseq = w
    BY OpsTyped, Zenon
  <2>2. w < expected \/ w \in DOMAIN pending \/ w \in cut
    BY <1>5, Zenon DEF Kept
  <2>3. ASSUME w < expected' \/ w \in DOMAIN pending' \/ w \in cut' PROVE Kept(s)'
    BY <2>1, <2>3, Zenon DEF Kept
  <2> HIDE DEF w
  <2>4. CASE w < expected
    BY <1>3, <2>1, <2>3, <2>4
  <2>5. CASE w \in DOMAIN pending
    <3>1. CASE w \in expected..(next - 1)
      <4>1. w < next
        BY <2>1, <3>1
      <4>2. CASE interrupted
        <5>1. w < next - 1 \/ w = next - 1
          BY <2>1, <4>1
        <5> QED
          BY <1>1, <2>3, <4>2, <5>1, Zenon
      <4>3. CASE ~interrupted
        BY <1>1, <2>3, <4>1, <4>3, Zenon
      <4> QED
        BY <4>2, <4>3, Zenon
    <3>2. CASE ~(w \in expected..(next - 1))
      BY <1>2, <2>3, <2>5, <3>2, Zenon
    <3> QED
      BY <3>1, <3>2, Zenon
  <2>6. CASE w \in cut
    BY <1>1, <2>3, <2>6, Zenon
  <2> QED
    BY <2>2, <2>4, <2>5, <2>6, Zenon
<1> QED
  BY <1>3, <1>4, <1>5, Zenon DEF Stays, PendingAhead

\* A batch that cannot be replayed is in the hands of its first handler.
LEMMA SecondHandlerReplays ==
  ASSUME NodeTypes, OpsPlaced, NEW b \in DOMAIN batches, NEW a \in 1..2,
         handlers[b][a].st # "idle", ~ReplaySafe(b)
  PROVE  a = 1 /\ handlers[b][2].st = "idle"
<1>1. batches[b].close /\ b \in 1..Len(batches)
  BY BatchTyped, Zenon DEF ReplaySafe
<1> QED
  BY <1>1 DEF OpsPlaced

\* A request that did not get to execute its batch leaves with a response that was
\* there, with errors, or goes to wait.
LEMMA BystanderAck ==
  ASSUME NodeTypes, OpsPlaced, Stays, NEW b \in DOMAIN batches, NEW a \in 1..2, NEW h,
         BatchSound(b), SetHandler(b, a, h), UNCHANGED <<client, network, registry>>,
         handlers[b][a].st \in {"net", "wait"}, h.st \in {"wait", "resp", "gone"},
         h.st = "wait" => ReplaySafe(b),
         h.st = "resp" => \A k \in 1..NumOps(b) : Fine(h.out[k], OpAt(b, k)),
         h.st = "resp" => \/ ~ReplaySafe(b) \/ registry[b].st = "ready"
                          \/ \A k \in 1..NumOps(b) : h.out[k].err # "none"
  PROVE  /\ BatchSound(b)'
         /\ \A k \in 1..NumOps(b) : Dead(b) /\ Quiet(b, k) => Dead(b)' /\ Quiet(b, k)'
<1>1. /\ batches' = batches /\ registry' = registry /\ b \in 1..Len(batches)
      /\ NumOps(b)' = NumOps(b) /\ ReplaySafe(b)' = ReplaySafe(b)
      /\ \A k : OpAt(b, k)' = OpAt(b, k)
  BY BatchTyped, Zenon DEF network, NumOps, ReplaySafe, OpAt
<1>2. \A e \in 1..2 : handlers'[b][e] = IF e = a THEN h ELSE handlers[b][e]
  BY <1>1, SetHandlerFrame
<1>3. \A e \in 1..2 : Executing(b, e)' => Executing(b, e)
  BY <1>2, Zenon DEF Executing
<1>4. ASSUME ReplaySafe(b), registry[b].st # "ready", NEW k \in 1..NumOps(b), Quiet(b, k)
      PROVE  Quiet(b, k)'
  BY SMTT(60), <1>4, HandlerQuiet
<1>5. Settled(b) => Settled(b)'
  BY <1>1, <1>2 DEF Settled
<1>6. ASSUME ~ReplaySafe(b) PROVE Settled(b)' /\ ~Dead(b)
  <2>1. a = 1
    BY <1>6, SecondHandlerReplays, Zenon
  <2> QED
    BY <1>1, <1>2, <1>6, <2>1, Zenon DEF Settled, Dead
<1>7. ASSUME ReplaySafe(b), Dead(b) PROVE Dead(b)' /\ registry[b].st # "ready"
  BY <1>1, <1>3, <1>7, Zenon DEF Dead
<1>8. ~Settled(b)' => \A k \in 1..NumOps(b) : Quiet(b, k)'
  <2> SUFFICES ASSUME ~Settled(b)', NEW k \in 1..NumOps(b) PROVE Quiet(b, k)'
    BY Zenon
  <2>1. ReplaySafe(b) /\ ~Settled(b)
    BY <1>5, <1>6, Zenon
  <2>2. registry[b].st # "ready" /\ Quiet(b, k)
    BY <2>1, Zenon DEF Settled, BatchSound
  <2> QED
    BY <1>4, <2>1, <2>2, Zenon
<1>9. \A k \in 1..NumOps(b) : Kept(OpAt(b, k)) => Kept(OpAt(b, k))'
  BY <1>1, OpAtRange, Zenon DEF Stays
<1>10. registry'[b].st = "ready" => \A k \in 1..NumOps(b) : Fine(registry[b].body[k], OpAt(b, k))'
  BY <1>1, <1>9, Zenon DEF BatchSound, Fine
<1>11. ASSUME NEW e \in 1..2 PROVE HandlerSound(b, handlers[b][e])'
  <2>1. CASE e = a
    <3>1. handlers'[b][e] = h
      BY <1>2, <2>1, Zenon
    <3>2. h.st = "resp" => \A k \in 1..NumOps(b) : (h.out[k].err = "none" => Kept(OpAt(b, k))') /\ ~h.out[k].eof
      BY <1>9, Zenon DEF Fine
    <3> QED
      BY <1>1, <3>1, <3>2, Zenon DEF HandlerSound, Fine
  <2>2. CASE e # a
    <3>1. handlers'[b][e] = handlers[b][e] /\ batches'[b].lo = batches[b].lo
      BY <1>1, <1>2, <2>2, ZenonT(60)
    <3> QED
      BY <1>1, <3>1, SoundStays, Zenon DEF BatchSound
  <2> QED
    BY <2>1, <2>2, Zenon
<1>12. /\ \A e \in 1..2 : Executing(b, e)' /\ ReplaySafe(b) => registry[b].st = "pending"
       /\ ~(Executing(b, 1)' /\ Executing(b, 2)')
  BY <1>3 DEF BatchSound
<1>13. BatchSound(b)'
  BY <1>1, <1>8, <1>10, <1>11, <1>12, Zenon DEF BatchSound
<1> QED
  BY <1>4, <1>6, <1>7, <1>13, Zenon

\* The owner of a batch starts on it.
LEMMA OwnerAck ==
  ASSUME NodeTypes, OpsPlaced, Stays, NEW b \in DOMAIN batches, NEW a \in 1..2, NEW h,
         BatchSound(b), SetHandler(b, a, h), UNCHANGED <<client, network>>,
         handlers[b][a].st = "net", h.st = "exec", h.out = <<>>, h.drains = {},
         ReplaySafe(b) => registry[b].st = "absent" /\ registry'[b].st = "pending",
         ~ReplaySafe(b) => registry'[b] = registry[b]
  PROVE  /\ BatchSound(b)'
         /\ \A k \in 1..NumOps(b) : Dead(b) /\ Quiet(b, k) => Dead(b)' /\ Quiet(b, k)'
<1>1. /\ batches' = batches /\ b \in 1..Len(batches)
      /\ NumOps(b)' = NumOps(b) /\ ReplaySafe(b)' = ReplaySafe(b)
      /\ \A k : OpAt(b, k)' = OpAt(b, k)
  BY BatchTyped, Zenon DEF network, NumOps, ReplaySafe, OpAt
<1>2. \A e \in 1..2 : handlers'[b][e] = IF e = a THEN h ELSE handlers[b][e]
  BY <1>1, SetHandlerFrame
<1>3. ASSUME NEW e \in 1..2, e # a PROVE ~Executing(b, e) /\ ~Executing(b, e)'
  <2>1. ~Executing(b, e)
    <3>1. CASE ReplaySafe(b)
      BY <3>1, Zenon DEF BatchSound
    <3>2. CASE ~ReplaySafe(b)
      <4>1. a = 1 /\ handlers[b][2].st = "idle"
        BY <3>2, SecondHandlerReplays, Zenon
      <4> QED
        BY <1>3, <4>1 DEF Executing
    <3> QED
      BY <3>1, <3>2, Zenon
  <2> QED
    BY <1>2, <1>3, <2>1, Zenon DEF Executing
<1>4. ~Settled(b) /\ ~Dead(b)
  <2>1. CASE ReplaySafe(b)
    BY <2>1, Zenon DEF Settled, Dead
  <2>2. CASE ~ReplaySafe(b)
    <3>1. a = 1
      BY <2>2, SecondHandlerReplays, Zenon
    <3> QED
      BY <2>2, <3>1, Zenon DEF Settled, Dead
  <2> QED
    BY <2>1, <2>2, Zenon
<1>5. \A k \in 1..NumOps(b) : Quiet(b, k)'
  BY <1>4, HandlerQuiet, Zenon DEF BatchSound
<1>6. \A k \in 1..NumOps(b) : Kept(OpAt(b, k)) => Kept(OpAt(b, k))'
  BY <1>1, OpAtRange, Zenon DEF Stays
<1>7. registry'[b].st = "ready" => \A k \in 1..NumOps(b) : Fine(registry[b].body[k], OpAt(b, k))'
  BY <1>6, Zenon DEF BatchSound, Fine
<1>8. ASSUME NEW e \in 1..2 PROVE HandlerSound(b, handlers[b][e])'
  <2>1. CASE e = a
    <3>1. handlers'[b][e] = h /\ Len(h.out) = 0
      BY <1>2, <2>1, Zenon
    <3> QED
      BY <3>1 DEF HandlerSound
  <2>2. CASE e # a
    <3>1. handlers'[b][e] = handlers[b][e] /\ batches'[b].lo = batches[b].lo
      BY <1>1, <1>2, <2>2, ZenonT(60)
    <3> QED
      BY <1>1, <3>1, SoundStays, Zenon DEF BatchSound
  <2> QED
    BY <2>1, <2>2, ZenonT(60)
<1>9. /\ \A e \in 1..2 : Executing(b, e)' /\ ReplaySafe(b) => registry'[b].st = "pending"
      /\ ~(Executing(b, 1)' /\ Executing(b, 2)')
  <2>1. \A e \in 1..2 : Executing(b, e)' => e = a
    BY <1>3, Zenon
  <2> QED
    BY <2>1
<1>10. BatchSound(b)'
  BY <1>1, <1>5, <1>7, <1>8, <1>9, Zenon DEF BatchSound
<1> QED
  BY <1>4, <1>10, Zenon

\* What is true of a batch that a handler executes.
LEMMA ExecutingFacts ==
  ASSUME NodeTypes, OpsPlaced, NEW b \in DOMAIN batches, NEW a \in 1..2, BatchSound(b),
         Executing(b, a)
  PROVE  /\ ~Dead(b) /\ ~Settled(b)
         /\ \A k \in 1..NumOps(b) : Quiet(b, k)
         /\ ReplaySafe(b) => registry[b].st = "pending"
         /\ ~ReplaySafe(b) => a = 1 /\ handlers[b][2].st = "idle"
         /\ \A e \in 1..2 : e # a => ~Executing(b, e)
         /\ handlers[b][a].st \in {"exec", "drain"}
<1>1. handlers[b][a].st \in {"exec", "drain"}
  BY Zenon DEF Executing
<1>2. ReplaySafe(b) => registry[b].st = "pending"
  BY Zenon DEF BatchSound
<1>3. ~ReplaySafe(b) => a = 1 /\ handlers[b][2].st = "idle"
  BY <1>1, SecondHandlerReplays, Zenon
<1>4. ~Settled(b)
  BY <1>1, <1>2, <1>3, Zenon DEF Settled
<1>5. \A e \in 1..2 : e # a => ~Executing(b, e)
  BY DEF BatchSound
<1>6. ~Dead(b)
  BY Zenon DEF Dead
<1>7. \A k \in 1..NumOps(b) : Quiet(b, k)
  BY <1>4, Zenon DEF BatchSound
<1> QED
  BY <1>1, <1>2, <1>3, <1>4, <1>5, <1>6, <1>7, Zenon

\* The owner goes on.
LEMMA ExecutingAck ==
  ASSUME NodeTypes, OpsPlaced, Stays, NEW b \in DOMAIN batches, NEW a \in 1..2, NEW h,
         BatchSound(b), SetHandler(b, a, h), UNCHANGED <<client, network, registry>>,
         Executing(b, a), h.st \in {"exec", "drain"},
         \A k \in 1..Len(h.out) : h.out[k].err = "none" => Kept(OpAt(b, k))',
         \A p \in h.drains : p \in 1..Len(h.out) /\ h.out[p].err = "none"
  PROVE  BatchSound(b)' /\ ~Dead(b)
<1>1. /\ batches' = batches /\ registry' = registry /\ b \in 1..Len(batches)
      /\ NumOps(b)' = NumOps(b) /\ ReplaySafe(b)' = ReplaySafe(b)
      /\ \A k : OpAt(b, k)' = OpAt(b, k)
  BY BatchTyped, Zenon DEF network, NumOps, ReplaySafe, OpAt
<1>2. \A e \in 1..2 : handlers'[b][e] = IF e = a THEN h ELSE handlers[b][e]
  BY SMTT(60), <1>1, SetHandlerFrame
<1>3. /\ ~Dead(b) /\ ~Settled(b)
      /\ \A k \in 1..NumOps(b) : Quiet(b, k)
      /\ ReplaySafe(b) => registry[b].st = "pending"
      /\ \A e \in 1..2 : e # a => ~Executing(b, e)
  BY ExecutingFacts
<1>4. \A e \in 1..2 : Executing(b, e)' => e = a
  BY <1>2, <1>3, Zenon DEF Executing
<1>5. \A k \in 1..NumOps(b) : Quiet(b, k)'
  BY <1>3, HandlerQuiet, Zenon
<1>6. \A k \in 1..NumOps(b) : Kept(OpAt(b, k)) => Kept(OpAt(b, k))'
  BY <1>1, OpAtRange, Zenon DEF Stays
<1>7. registry'[b].st = "ready" => \A k \in 1..NumOps(b) : Fine(registry[b].body[k], OpAt(b, k))'
  BY <1>1, <1>6, Zenon DEF BatchSound, Fine
<1>8. ASSUME NEW e \in 1..2 PROVE HandlerSound(b, handlers[b][e])'
  <2>1. CASE e = a
    <3>1. handlers'[b][e] = h
      BY <1>2, <2>1, Zenon
    <3> QED
      BY <1>1, <3>1, Zenon DEF HandlerSound
  <2>2. CASE e # a
    <3>1. handlers'[b][e] = handlers[b][e] /\ batches'[b].lo = batches[b].lo
      BY <1>1, <1>2, <2>2, ZenonT(60)
    <3> QED
      BY <1>1, <3>1, SoundStays, Zenon DEF BatchSound
  <2> QED
    BY <2>1, <2>2, Zenon
<1>9. /\ \A e \in 1..2 : Executing(b, e)' /\ ReplaySafe(b) => registry'[b].st = "pending"
      /\ ~(Executing(b, 1)' /\ Executing(b, 2)')
  BY <1>1, <1>3, <1>4
<1>10. BatchSound(b)'
  BY <1>1, <1>5, <1>7, <1>8, <1>9, Zenon DEF BatchSound
<1> QED
  BY <1>3, <1>10, Zenon

\* The owner ends: with a result that says what is true of every op, or without one.
LEMMA OwnerEndsAck ==
  ASSUME NodeTypes, OpsPlaced, Stays, NEW b \in DOMAIN batches, NEW a \in 1..2, NEW h,
         BatchSound(b), SetHandler(b, a, h), UNCHANGED <<client, network>>,
         Executing(b, a), h.st \in {"resp", "gone"},
         h.st = "resp" => \A k \in 1..NumOps(b) : Fine(h.out[k], OpAt(b, k)),
         \/ registry'[b].st = "pending" /\ h.st = "gone"
         \/ ~ReplaySafe(b) /\ registry'[b] = registry[b]
         \/ /\ registry'[b].st = "ready"
            /\ \A k \in 1..NumOps(b) : Fine(registry'[b].body[k], OpAt(b, k))
  PROVE  BatchSound(b)'
<1>1. /\ batches' = batches /\ b \in 1..Len(batches)
      /\ NumOps(b)' = NumOps(b) /\ ReplaySafe(b)' = ReplaySafe(b)
      /\ \A k : OpAt(b, k)' = OpAt(b, k)
  BY BatchTyped, ZenonT(60) DEF network, NumOps, ReplaySafe, OpAt
<1>2. \A e \in 1..2 : handlers'[b][e] = IF e = a THEN h ELSE handlers[b][e]
  BY SMTT(60), <1>1, SetHandlerFrame
<1>3. /\ ~Settled(b) /\ \A k \in 1..NumOps(b) : Quiet(b, k)
      /\ ~ReplaySafe(b) => a = 1
      /\ \A e \in 1..2 : e # a => ~Executing(b, e)
  BY ExecutingFacts
<1>4. \A e \in 1..2 : ~Executing(b, e)'
  BY <1>2, <1>3, Zenon DEF Executing
<1>5. ~Settled(b)' => \A k \in 1..NumOps(b) : Quiet(b, k)'
  <2> SUFFICES ASSUME ~Settled(b)', NEW k \in 1..NumOps(b) PROVE Quiet(b, k)'
    BY Zenon
  <2>1. ReplaySafe(b)
    BY <1>1, <1>2, <1>3, Zenon DEF Settled
  <2>2. registry'[b].st # "ready"
    BY <1>1, <2>1, Zenon DEF Settled
  <2>3. h.st = "gone"
    BY <2>1, <2>2, Zenon
  <2> QED
    BY <1>3, <2>3, HandlerQuiet, Zenon
<1>6. \A k \in 1..NumOps(b) : Kept(OpAt(b, k)) => Kept(OpAt(b, k))'
  BY <1>1, OpAtRange, Zenon DEF Stays
<1>7. registry'[b].st = "ready" => \A k \in 1..NumOps(b) : Fine(registry[b].body[k], OpAt(b, k))'
  <2>1. registry'[b].st = "ready" => \A k \in 1..NumOps(b) : Fine(registry'[b].body[k], OpAt(b, k))
    BY Zenon DEF BatchSound
  <2> QED
    BY <1>1, <1>6, <2>1, Zenon DEF Fine
<1>8. ASSUME NEW e \in 1..2 PROVE HandlerSound(b, handlers[b][e])'
  <2>1. CASE e = a
    <3>1. handlers'[b][e] = h
      BY <1>2, <2>1, Zenon
    <3>2. h.st = "resp" => \A k \in 1..NumOps(b) : (h.out[k].err = "none" => Kept(OpAt(b, k))') /\ ~h.out[k].eof
      BY <1>6, Zenon DEF Fine
    <3> QED
      BY <1>1, <3>1, <3>2, Zenon DEF HandlerSound, Fine
  <2>2. CASE e # a
    <3>1. handlers'[b][e] = handlers[b][e] /\ batches'[b].lo = batches[b].lo
      BY <1>1, <1>2, <2>2, ZenonT(60)
    <3> QED
      BY <1>1, <3>1, SoundStays, Zenon DEF BatchSound
  <2> QED
    BY <2>1, <2>2, Zenon
<1>9. /\ \A e \in 1..2 : Executing(b, e)' /\ ReplaySafe(b) => registry'[b].st = "pending"
      /\ ~(Executing(b, 1)' /\ Executing(b, 2)')
  BY SMTT(60), <1>4
<1> QED
  BY <1>1, <1>5, <1>7, <1>8, <1>9, Zenon DEF BatchSound

-----------------------------------------------------------------------------
\* The first op to drain is one of those to drain.
LeastInside == \A n \in Nat : \A T \in SUBSET (1..n) : T # {} => Min(T) \in T

\* The node's writes change nothing on other steps.
LEMMA UplinkStays ==
  ASSUME KnownInv, UNCHANGED <<ops, uplink>>, expected \in Nat
  PROVE  Stays /\ PendingAhead' /\ expected' \in Nat /\ expected <= expected' /\ cut' = cut
<1>1. expected' = expected /\ pending' = pending /\ cut' = cut /\ ops' = ops
  BY Zenon DEF uplink
<1> QED
  BY <1>1 DEF KnownInv, Stays, Kept, PendingAhead

\* claim, and the ends of a wait.
LEMMA ClaimAck ==
  ASSUME NodeTypes, OpsPlaced, KnownInv, expected \in Nat, NEW b \in DOMAIN batches,
         NEW a \in 1..2, Claim(b, a) \/ WaitDone(b, a) \/ WaitGivesUp(b, a)
  PROVE  KnownInv'
<1> DEFINE h == handlers[b][a]
<1>1. /\ b \in 1..Len(batches) /\ h \in HandlerType /\ registry[b] \in EntryType
      /\ NumOps(b) \in Nat /\ DOMAIN registry = 1..Len(batches) /\ BatchSound(b)
  <2>1. DOMAIN registry = 1..Len(batches)
    BY DEF NodeTypes
  <2> QED
    BY <2>1, BatchTyped, Zenon DEF KnownInv
<1>2. UNCHANGED <<client, network, uplink>> /\ UNCHANGED ops
  BY Zenon DEF Claim, WaitDone, WaitGivesUp, Elsewhere, client
<1>3. Stays /\ PendingAhead' /\ expected' \in Nat /\ expected <= expected' /\ cut' = cut
  BY <1>2, UplinkStays, Zenon
<1>4. ASSUME NEW g, SetHandler(b, a, g), UNCHANGED registry, h.st \in {"net", "wait"},
             g.st \in {"wait", "resp", "gone"}, g.st = "wait" => ReplaySafe(b),
             g.st = "resp" => \A k \in 1..NumOps(b) : Fine(g.out[k], OpAt(b, k)),
             g.st = "resp" => \/ ~ReplaySafe(b) \/ registry[b].st = "ready"
                              \/ \A k \in 1..NumOps(b) : g.out[k].err # "none"
      PROVE  KnownInv'
  <2>1. /\ BatchSound(b)'
        /\ \A k \in 1..NumOps(b) : Dead(b) /\ Quiet(b, k) => Dead(b)' /\ Quiet(b, k)'
    BY <1>1, <1>2, <1>3, <1>4, BystanderAck, Zenon
  <2>2. \A c \in 1..Len(batches) : c # b => registry'[c] = registry[c]
    BY <1>4, Zenon
  <2> QED
    BY <1>2, <1>3, <1>4, <2>1, <2>2, HandlerAck, ZenonT(60)
<1>5. ASSUME Respond(b, a, registry[b].body), UNCHANGED registry, h.st \in {"net", "wait"},
             registry[b].st = "ready"
      PROVE  KnownInv'
  <2>1. PICK g : /\ SetHandler(b, a, g) /\ g.st \in {"resp", "gone"}
                 /\ g.st = "resp" => g.out = registry[b].body
    BY <1>5, RespondFrame, Zenon
  <2>2. \A k \in 1..NumOps(b) : Fine(registry[b].body[k], OpAt(b, k))
    BY <1>1, <1>5, Zenon DEF BatchSound
  <2>3. g.st = "resp" => \A k \in 1..NumOps(b) : Fine(g.out[k], OpAt(b, k))
    BY <2>1, <2>2, Zenon
  <2> QED
    BY <1>4, <1>5, <2>1, <2>3, Zenon
<1>6. CASE WaitDone(b, a)
  BY <1>5, <1>6, Zenon DEF WaitDone
<1>7. CASE WaitGivesUp(b, a)
  <2> DEFINE body == [k \in 1..NumOps(b) |->
                        IF k = 1 THEN Response(<<>>, FALSE, "node") ELSE BatchErr]
  <2>1. h.st = "wait" /\ Respond(b, a, body) /\ UNCHANGED registry
    BY <1>7, Zenon DEF WaitGivesUp
  <2>2. \A k \in 1..NumOps(b) : body[k].err # "none" /\ ~body[k].eof
    BY Zenon DEF Response, BatchErr
  <2> HIDE DEF body
  <2>3. PICK g : /\ SetHandler(b, a, g) /\ g.st \in {"resp", "gone"}
                 /\ g.st = "resp" => g.out = body
    BY <2>1, RespondFrame, Zenon
  <2>4. g.st = "resp" => \A k \in 1..NumOps(b) : Fine(g.out[k], OpAt(b, k)) /\ g.out[k].err # "none"
    BY <2>2, <2>3, Zenon DEF Fine
  <2> QED
    BY <1>4, <2>1, <2>3, <2>4, Zenon
<1>8. CASE Claim(b, a)
  <2>1. h.st = "net"
    BY <1>8, Zenon DEF Claim
  <2>2. CASE ReplaySafe(b) /\ Registered(b) /\ registry[b].st = "pending"
    <3>1. SetHandler(b, a, [Idle EXCEPT !.st = "wait"]) /\ UNCHANGED registry
      BY <1>8, <2>2, Zenon DEF Claim
    <3>2. [Idle EXCEPT !.st = "wait"].st = "wait"
      BY Zenon DEF Idle
    <3> QED
      BY <1>4, <2>1, <2>2, <3>1, <3>2, Zenon
  <2>3. CASE ReplaySafe(b) /\ Registered(b) /\ registry[b].st # "pending"
    <3>1. Respond(b, a, registry[b].body) /\ UNCHANGED registry
      BY <1>8, <2>3, Zenon DEF Claim
    <3>2. registry[b].st = "ready"
      BY <1>1, <2>3, Zenon DEF EntryType, Registered
    <3> QED
      BY <1>5, <2>1, <3>1, <3>2, Zenon
  <2>4. CASE ~(ReplaySafe(b) /\ Registered(b))
    <3> DEFINE new == [Idle EXCEPT !.st = "exec"]
    <3>1. SetHandler(b, a, new)
      BY <1>8, <2>4, Zenon DEF Claim
    <3>2. new.st = "exec" /\ new.out = <<>> /\ new.drains = {}
      BY Zenon DEF Idle
    <3> HIDE DEF new
    <3>3. registry' = IF ReplaySafe(b) THEN [registry EXCEPT ![b] = [registry[b] EXCEPT !.st = "pending"]]
                                       ELSE registry
      BY <1>8, <2>4, Zenon DEF Claim
    <3>4. [registry[b] EXCEPT !.st = "pending"].st = "pending"
      BY <1>1, Zenon DEF EntryType
    <3>5. ReplaySafe(b) => registry[b].st = "absent" /\ registry'[b].st = "pending"
      BY <1>1, <2>4, <3>3, <3>4, Zenon DEF Registered
    <3>6. ~ReplaySafe(b) => registry'[b] = registry[b]
      BY <3>3, Zenon
    <3>7. \A c \in 1..Len(batches) : c # b => registry'[c] = registry[c]
      BY <1>1, <3>3, Zenon
    <3>8. /\ BatchSound(b)'
          /\ \A k \in 1..NumOps(b) : Dead(b) /\ Quiet(b, k) => Dead(b)' /\ Quiet(b, k)'
      BY <1>1, <1>2, <1>3, <2>1, <3>1, <3>2, <3>5, <3>6, OwnerAck, ZenonT(60)
    <3> QED
      BY <1>2, <1>3, <3>1, <3>7, <3>8, HandlerAck, ZenonT(60)
  <2> QED
    BY <2>2, <2>3, <2>4, Zenon
<1> QED
  BY <1>6, <1>7, <1>8, Zenon

\* An op joins the drains once the node has taken charge of its upload.
LEMMA JoinAck ==
  ASSUME NodeTypes, OpsPlaced, KnownInv, Stays, NEW b \in DOMAIN batches, NEW a \in 1..2,
         AtOp(b, a), JoinDrains(b, a), UNCHANGED <<client, network, registry>>,
         expected \in Nat, expected' \in Nat, expected <= expected', PendingAhead', cut' = cut,
         NEW s, s = batches[b].lo + Len(handlers[b][a].out), Kept(s)'
  PROVE  KnownInv'
<1>0. PICK n : n = Len(handlers[b][a].out)
  BY Zenon
<1> DEFINE h == handlers[b][a]
           g == [h EXCEPT !.out = Append(h.out, EmptyDrain), !.drains = h.drains \cup {n + 1}]
<1>1. /\ b \in 1..Len(batches) /\ h \in HandlerType /\ BatchSound(b)
      /\ NumOps(b) \in Nat /\ batches[b].lo \in Nat
  BY BatchTyped, Zenon DEF KnownInv
<1>2. h.out \in Seq(Responses) /\ n \in Nat /\ h.st = "exec" /\ n < NumOps(b)
  BY SMTT(60), <1>0, <1>1 DEF HandlerType, AtOp
<1>3. g.st = "exec" /\ g.out = Append(h.out, EmptyDrain) /\ g.drains = h.drains \cup {n + 1}
  BY <1>1, <1>2, Zenon DEF HandlerType
<1>4. SetHandler(b, a, g)
  BY <1>0, ZenonT(60) DEF JoinDrains
<1> HIDE DEF g
<1>5. /\ Len(g.out) = n + 1 /\ g.out[n + 1] = EmptyDrain
      /\ \A k \in 1..n : g.out[k] = h.out[k]
  BY SMTT(60), <1>0, <1>2, <1>3, ConstantsTyped, AppendProperties
<1>6. EmptyDrain.err = "none"
  BY Zenon DEF EmptyDrain, Response
<1>7. OpAt(b, n + 1) = s
  BY <1>0, <1>1, <1>2 DEF OpAt
<1>8. HandlerSound(b, h) /\ Executing(b, a)
  BY <1>1, <1>2, Zenon DEF BatchSound, Executing
<1>9. ASSUME NEW k \in 1..n, h.out[k].err = "none" PROVE Kept(OpAt(b, k))'
  <2>1. Kept(OpAt(b, k)) /\ k \in 1..NumOps(b)
    BY SMTT(60), <1>0, <1>1, <1>2, <1>8, <1>9 DEF HandlerSound
  <2>2. OpAt(b, k) \in 1..Len(ops)
    BY <2>1, OpAtRange, Zenon
  <2>3. OpAt(b, k)' = OpAt(b, k)
    BY Zenon DEF OpAt, network
  <2> QED
    BY <2>1, <2>2, <2>3, ZenonT(60) DEF Stays
<1>10. Kept(OpAt(b, n + 1))'
  <2>1. OpAt(b, n + 1)' = s
    BY <1>7, Zenon DEF OpAt, network
  <2> QED
    BY <2>1, Zenon
<1>11. ASSUME NEW k \in 1..Len(g.out), g.out[k].err = "none" PROVE Kept(OpAt(b, k))'
  <2>1. k \in 1..n \/ k = n + 1
    BY SMTT(60), <1>2, <1>5
  <2>2. \A j \in 1..n : h.out[j].err = "none" => Kept(OpAt(b, j))'
    BY <1>9, Zenon
  <2> QED
    BY <1>5, <1>10, <1>11, <2>1, <2>2, ZenonT(60)
<1>12. ASSUME NEW p \in g.drains PROVE p \in 1..Len(g.out) /\ g.out[p].err = "none"
  <2>1. p \in h.drains \/ p = n + 1
    BY <1>3, Zenon
  <2>2. CASE p \in h.drains
    <3>1. p \in 1..n /\ h.out[p].err = "none"
      BY <1>0, <1>2, <1>8, <2>2, ZenonT(60) DEF HandlerSound
    <3>2. p \in 1..(n + 1) /\ g.out[p] = h.out[p]
      BY SMTT(60), <1>2, <1>5, <3>1
    <3> QED
      BY <1>5, <3>1, <3>2, Zenon
  <2>3. CASE p = n + 1
    BY SMTT(60), <1>2, <1>5, <1>6, <2>3
  <2> QED
    BY <2>1, <2>2, <2>3, Zenon
<1>13. BatchSound(b)' /\ ~Dead(b)
  BY <1>1, <1>3, <1>4, <1>8, <1>11, <1>12, ExecutingAck, ZenonT(60)
<1>14. \A c \in 1..Len(batches) : c # b => registry'[c] = registry[c]
  BY Zenon
<1> QED
  BY <1>4, <1>13, <1>14, HandlerAck, Zenon

\* Phase 1: an op below the expected wseq, at it, or ahead of it.
LEMMA ExecAck ==
  ASSUME NodeTypes, UplinkInv, OpsPlaced, KnownInv, Known, Known', NEW b \in DOMAIN batches,
         NEW a \in 1..2,
         ExecUnknown(b, a) \/ ExecNoWrite(b, a) \/ ExecInOrder(b, a) \/ ExecAhead(b, a)
  PROVE  KnownInv'
<1>0. PICK s : s = batches[b].lo + Len(handlers[b][a].out)
  BY Zenon
<1>1. /\ expected \in Nat /\ PendingAhead /\ \A k \in DOMAIN pending : k \in Int
  BY Zenon DEF UplinkInv, KnownInv
<1>2. AtOp(b, a) /\ UNCHANGED <<client, network, registry>> /\ UNCHANGED ops
  BY Zenon DEF ExecUnknown, ExecNoWrite, ExecInOrder, ExecAhead, Elsewhere, client
<1>3. CurrentOp(b, a) = ops[s] /\ CurrentOp(b, a).wseq \in Int
  BY <1>0, <1>2, CurrentOpNumbered, Zenon DEF CurrentOp
<1>4. session = "open" /\ session' = "open"
  BY Zenon DEF Known
<1>5. CASE ExecUnknown(b, a)
  BY <1>4, <1>5, Zenon DEF ExecUnknown
<1>6. CASE ExecNoWrite(b, a)
  <2>1. JoinDrains(b, a) /\ UNCHANGED uplink /\ ops[s].wseq < expected
    BY <1>3, <1>6, Zenon DEF ExecNoWrite
  <2>2. Stays /\ PendingAhead' /\ expected' \in Nat /\ expected <= expected' /\ cut' = cut
    BY <1>1, <1>2, <2>1, UplinkStays, Zenon
  <2>3. Kept(s)'
    BY <1>2, <2>1, Zenon DEF Kept, uplink
  <2> QED
    BY <1>0, <1>1, <1>2, <2>1, <2>2, <2>3, JoinAck, ZenonT(60)
<1>7. CASE ExecInOrder(b, a)
  <2>1. PICK next \in (expected + 1)..(MaxUp + 1) :
          /\ next \notin DOMAIN pending /\ WriteUploads(CurrentOp(b, a), next, FALSE)
    BY <1>7, Zenon DEF ExecInOrder
  <2>2. JoinDrains(b, a) /\ CurrentOp(b, a).wseq = expected
    BY <1>7, Zenon DEF ExecInOrder
  <2>3. next \in Int /\ expected < next
    BY <1>1, <2>1
  <2>4. Stays /\ PendingAhead' /\ expected' \in Nat /\ expected <= expected'
    BY <1>1, <1>2, <2>1, <2>2, <2>3, WriteKeeps, ZenonT(60)
  <2>5. expected' = next /\ cut' = cut
    BY <2>1, Zenon DEF WriteUploads
  <2>6. Kept(s)'
    BY <1>2, <1>3, <2>2, <2>3, <2>5, ZenonT(60) DEF Kept
  <2> QED
    BY <1>0, <1>1, <1>2, <2>2, <2>4, <2>5, <2>6, JoinAck, ZenonT(60)
<1>8. CASE ExecAhead(b, a)
  <2>1. /\ JoinDrains(b, a) /\ pending' = PendingWith(CurrentOp(b, a))
        /\ expected' = expected /\ cut' = cut /\ CurrentOp(b, a).wseq > expected
    BY <1>4, <1>8, Zenon DEF ExecAhead
  <2>2. DOMAIN pending' = DOMAIN pending \cup {ops[s].wseq}
    BY <1>3, <2>1, Zenon DEF PendingWith
  <2>3. Stays
    BY <1>2, <2>1, <2>2, Zenon DEF Stays, Kept
  <2>4. PendingAhead'
    BY <1>1, <1>3, <2>1, <2>2, Zenon DEF PendingAhead
  <2>5. Kept(s)'
    BY <1>2, <2>2, Zenon DEF Kept
  <2>6. expected' \in Nat /\ expected <= expected'
    BY <1>1, <2>1
  <2> QED
    BY <1>0, <1>1, <1>2, <2>1, <2>3, <2>4, <2>5, <2>6, JoinAck, ZenonT(60)
<1> QED
  BY <1>5, <1>6, <1>7, <1>8, Zenon

\* The end of phase 1 and the drains change no verdict.
LEMMA DrainAck ==
  ASSUME LeastInside, NodeTypes, OpsPlaced, KnownInv, expected \in Nat, NEW b \in DOMAIN batches,
         NEW a \in 1..2, EndPhase1(b, a) \/ Drain(b, a)
  PROVE  KnownInv'
<1> DEFINE h == handlers[b][a]
<1>1. /\ b \in 1..Len(batches) /\ h \in HandlerType /\ BatchSound(b) /\ NumOps(b) \in Nat
  BY BatchTyped, Zenon DEF KnownInv
<1>2. UNCHANGED <<client, network, registry, uplink>> /\ UNCHANGED ops
  BY Zenon DEF EndPhase1, Drain, Elsewhere, client
<1>3. Stays /\ PendingAhead' /\ expected' \in Nat /\ expected <= expected' /\ cut' = cut
  BY <1>2, UplinkStays, Zenon
<1>4. h.out \in Seq(Responses) /\ Len(h.out) \in Nat /\ h.st \in {"exec", "drain"}
  <2>1. h.out \in Seq(Responses) /\ Len(h.out) \in Nat
    BY <1>1 DEF HandlerType
  <2>2. h.st \in {"exec", "drain"}
    <3>1. EndPhase1(b, a) => h.st = "exec"
      BY Zenon DEF EndPhase1
    <3>2. Drain(b, a) => h.st = "drain"
      BY Zenon DEF Drain
    <3> QED
      BY <3>1, <3>2, Zenon
  <2> QED
    BY <2>1, <2>2, Zenon
<1>5. HandlerSound(b, h) /\ Executing(b, a)
  BY <1>1, <1>4, Zenon DEF BatchSound, Executing
<1>6. /\ \A k \in 1..Len(h.out) : h.out[k].err = "none" => Kept(OpAt(b, k))
      /\ \A p \in h.drains : p \in 1..Len(h.out) /\ h.out[p].err = "none"
  BY <1>4, <1>5, Zenon DEF HandlerSound
<1>7. \A k : Kept(OpAt(b, k))' = Kept(OpAt(b, k))
  BY <1>2, Zenon DEF Kept, OpAt, network, uplink
<1>8. ASSUME NEW g, SetHandler(b, a, g), g.st \in {"exec", "drain"},
             Len(g.out) = Len(h.out),
             \A k \in 1..Len(h.out) : g.out[k].err = h.out[k].err, g.drains \subseteq h.drains
      PROVE  KnownInv'
  <2>1. \A k \in 1..Len(g.out) : g.out[k].err = "none" => Kept(OpAt(b, k))'
    BY <1>6, <1>7, <1>8, Zenon
  <2>2. \A p \in g.drains : p \in 1..Len(g.out) /\ g.out[p].err = "none"
    BY <1>6, <1>8, Zenon
  <2>3. BatchSound(b)' /\ ~Dead(b)
    BY <1>1, <1>2, <1>3, <1>5, <1>8, <2>1, <2>2, ExecutingAck, ZenonT(60)
  <2>4. \A c \in 1..Len(batches) : c # b => registry'[c] = registry[c]
    BY <1>2, Zenon
  <2> QED
    BY <1>2, <1>3, <1>8, <2>3, <2>4, HandlerAck, ZenonT(60)
<1>9. CASE EndPhase1(b, a)
  <2> DEFINE g == [h EXCEPT !.st = "drain"]
  <2>1. SetHandler(b, a, g)
    BY <1>9, Zenon DEF EndPhase1
  <2>2. g.st = "drain" /\ g.out = h.out /\ g.drains = h.drains
    BY <1>1, Zenon DEF HandlerType
  <2> HIDE DEF g
  <2> QED
    BY <1>8, <2>1, <2>2, Zenon
<1>10. CASE Drain(b, a)
  <2>1. h.st = "drain" /\ h.drains # {}
    BY <1>10, Zenon DEF Drain
  <2>2. \E m, r, done, dr :
          /\ SetHandler(b, a, [h EXCEPT !.out = [h.out EXCEPT ![Min(h.drains)] = r],
                                        !.budget = m, !.drains = dr])
          /\ dr = (IF done THEN h.drains \ {Min(h.drains)} ELSE h.drains)
          /\ r.err = "none"
    <3>1. \A d, e : Response(d, e, "none").err = "none"
      BY Zenon DEF Response
    <3> QED
      BY <1>10, <3>1, ZenonT(60) DEF Drain
  <2>3. PICK m, r, done, dr :
          /\ SetHandler(b, a, [h EXCEPT !.out = [h.out EXCEPT ![Min(h.drains)] = r],
                                        !.budget = m, !.drains = dr])
          /\ dr = (IF done THEN h.drains \ {Min(h.drains)} ELSE h.drains)
          /\ r.err = "none"
    BY <2>2, Zenon
  <2> DEFINE p == Min(h.drains)
             g == [h EXCEPT !.out = [h.out EXCEPT ![p] = r], !.budget = m, !.drains = dr]
  <2>4. h.drains \subseteq 1..Len(h.out)
    BY <1>6, Zenon
  <2>5. p \in h.drains
    BY <1>4, <2>1, <2>4, Zenon DEF LeastInside
  <2>6. SetHandler(b, a, g) /\ dr \subseteq h.drains
    BY <2>3, Zenon
  <2> HIDE DEF p
  <2>7. g.st = "drain" /\ g.out = [h.out EXCEPT ![p] = r] /\ g.drains = dr
    BY <1>1, <2>1, ZenonT(60) DEF HandlerType
  <2> HIDE DEF g
  <2>8. Len(g.out) = Len(h.out) /\ \A k \in 1..Len(h.out) : g.out[k] = IF k = p THEN r ELSE h.out[k]
    BY <1>4, <2>7
  <2>9. h.out[p].err = "none" /\ r.err = "none"
    BY <1>6, <2>3, <2>5, Zenon
  <2>10. \A k \in 1..Len(h.out) : g.out[k].err = h.out[k].err
    BY <2>8, <2>9, Zenon
  <2> QED
    BY <1>8, <2>6, <2>7, <2>8, <2>10, ZenonT(60)
<1> QED
  BY <1>9, <1>10, Zenon

\* The batch has its result: no drain reported the end of stream, as the session is
\* still there.
LEMMA CompleteAck ==
  ASSUME NodeTypes, OpsPlaced, KnownInv, Known', expected \in Nat, NEW b \in DOMAIN batches,
         NEW a \in 1..2, Complete(b, a)
  PROVE  KnownInv'
<1> DEFINE h == handlers[b][a]
<1>1. /\ b \in 1..Len(batches) /\ h \in HandlerType /\ registry[b] \in EntryType
      /\ BatchSound(b) /\ DOMAIN registry = 1..Len(batches)
  BY SMTT(60), BatchTyped DEF NodeTypes, KnownInv
<1>2. UNCHANGED <<client, network, uplink>> /\ UNCHANGED ops /\ h.st = "drain" /\ Respond(b, a, h.out)
  BY Zenon DEF Complete, Elsewhere, client
<1>3. Stays /\ PendingAhead' /\ expected' \in Nat /\ expected <= expected' /\ cut' = cut
  BY <1>2, UplinkStays, Zenon
<1>4. h.out \in Seq(Responses) /\ Len(h.out) = NumOps(b)
  BY <1>1, <1>2, Zenon DEF HandlerType, OpsPlaced
<1>5. \A k \in DOMAIN h.out : ~h.out[k].eof
  BY ZenonT(60) DEF Complete, Known
<1>6. HandlerSound(b, h) /\ Executing(b, a) /\ DOMAIN h.out = 1..NumOps(b)
  BY SMTT(60), <1>1, <1>2, <1>4 DEF BatchSound, Executing
<1>7. \A k \in 1..NumOps(b) : Fine(h.out[k], OpAt(b, k))
  BY <1>2, <1>4, <1>5, <1>6, Zenon DEF HandlerSound, Fine
<1>8. PICK g : /\ SetHandler(b, a, g) /\ g.st \in {"resp", "gone"}
               /\ g.st = "resp" => g.out = h.out
  BY <1>2, RespondFrame, Zenon
<1>9. g.st = "resp" => \A k \in 1..NumOps(b) : Fine(g.out[k], OpAt(b, k))
  BY <1>7, <1>8, Zenon
<1> DEFINE r == [registry[b] EXCEPT !.st = "ready", !.body = h.out]
<1>10. registry' = IF ReplaySafe(b) THEN [registry EXCEPT ![b] = r] ELSE registry
  BY Zenon DEF Complete
<1>11. r.st = "ready" /\ r.body = h.out
  BY <1>1, Zenon DEF EntryType
<1> HIDE DEF r
<1>12. \/ ~ReplaySafe(b) /\ registry'[b] = registry[b]
       \/ registry'[b].st = "ready" /\ registry'[b].body = h.out
  BY <1>1, <1>10, <1>11, Zenon
<1>13. \A c \in 1..Len(batches) : c # b => registry'[c] = registry[c]
  BY <1>1, <1>10, Zenon
<1>14. \/ ~ReplaySafe(b) /\ registry'[b] = registry[b]
       \/ /\ registry'[b].st = "ready"
          /\ \A k \in 1..NumOps(b) : Fine(registry'[b].body[k], OpAt(b, k))
  BY <1>7, <1>12, Zenon
<1>15. BatchSound(b)'
  BY <1>1, <1>2, <1>3, <1>6, <1>8, <1>9, <1>14, OwnerEndsAck, ZenonT(60)
<1>16. ~Dead(b)
  BY <1>1, <1>6, ExecutingFacts, Zenon
<1> QED
  BY <1>2, <1>3, <1>8, <1>13, <1>15, <1>16, HandlerAck, ZenonT(60)

\* The owner is dropped inside a write: its batch has no result and gets none, and
\* the op it was at is the one whose upload was expected.
LEMMA CancelAck ==
  ASSUME NodeTypes, UplinkInv, OpsPlaced, KnownInv, NEW b \in DOMAIN batches,
         NEW a \in 1..2, CancelInWrite(b, a)
  PROVE  KnownInv'
<1> DEFINE h == handlers[b][a]
<1>0. PICK k : k = Len(h.out) + 1
  BY Zenon
<1>1. /\ b \in 1..Len(batches) /\ h \in HandlerType /\ registry[b] \in EntryType
      /\ BatchSound(b) /\ NumOps(b) \in Nat /\ batches[b].lo \in Nat
  BY BatchTyped, Zenon DEF KnownInv
<1>2. /\ UNCHANGED <<client, network, registry>> /\ UNCHANGED ops /\ h.st = "exec"
      /\ SetHandler(b, a, Gone) /\ AtOp(b, a) /\ CurrentOp(b, a).wseq = expected
  BY ZenonT(60) DEF CancelInWrite, Elsewhere, client, AtOp
<1>3. h.out \in Seq(Responses) /\ Len(h.out) \in Nat /\ Len(h.out) < NumOps(b)
  BY SMTT(60), <1>1, <1>2 DEF HandlerType, AtOp
<1>4. k \in 1..NumOps(b) /\ OpAt(b, k) = batches[b].lo + Len(h.out)
  BY SMTT(60), <1>0, <1>1, <1>3 DEF OpAt
<1>5. ops[OpAt(b, k)].wseq = expected
  BY <1>2, <1>4, Zenon DEF CurrentOp
<1>6. expected \in Nat /\ PendingAhead /\ \A j \in DOMAIN pending : j \in Int
  BY Zenon DEF UplinkInv, KnownInv
<1>7. PICK next \in (expected + 1)..(MaxUp + 1) : WriteUploads(CurrentOp(b, a), next, TRUE)
  BY Zenon DEF CancelInWrite
<1>8. next \in Int /\ expected < next
  BY <1>6, <1>7
<1>9. Stays /\ PendingAhead' /\ expected' \in Nat /\ expected <= expected'
  BY <1>2, <1>6, <1>7, <1>8, WriteKeeps, ZenonT(60)
<1>10. Executing(b, a) /\ Gone.st = "gone"
  BY <1>2, ZenonT(60) DEF Executing, Gone, Idle
<1>11. /\ \A j \in 1..NumOps(b) : Quiet(b, j)
       /\ ReplaySafe(b) => registry[b].st = "pending"
       /\ ~ReplaySafe(b) => a = 1 /\ handlers[b][2].st = "idle"
       /\ \A e \in 1..2 : e # a => ~Executing(b, e)
  BY SMTT(60), <1>1, <1>10, ExecutingFacts
<1>12. registry' = registry
  BY <1>2, Zenon
<1>13. BatchSound(b)'
  BY <1>1, <1>2, <1>9, <1>10, <1>11, <1>12, OwnerEndsAck, ZenonT(60)
<1>14. /\ NumOps(b)' = NumOps(b) /\ ReplaySafe(b)' = ReplaySafe(b)
       /\ OpAt(b, k)' = OpAt(b, k) /\ batches' = batches
  BY <1>2, ZenonT(60) DEF network, NumOps, ReplaySafe, OpAt
<1>15. \A e \in 1..2 : handlers'[b][e] = IF e = a THEN Gone ELSE handlers[b][e]
  BY SMTT(60), <1>1, <1>2, SetHandlerFrame
<1>16. Dead(b)'
  <2>1. \A e \in 1..2 : ~Executing(b, e)'
    BY <1>10, <1>11, <1>15, Zenon DEF Executing
  <2>2. ReplaySafe(b) => registry'[b].st = "pending"
    BY <1>11, <1>12, ZenonT(60)
  <2>3. ~ReplaySafe(b) => \A e \in 1..2 : handlers'[b][e].st \notin {"net", "wait"}
    BY SMTT(60), <1>10, <1>11, <1>15
  <2> QED
    BY <1>14, <2>1, <2>2, <2>3, Zenon DEF Dead
<1>17. Quiet(b, k)'
  BY <1>2, <1>4, <1>10, <1>11, HandlerQuiet, ZenonT(60)
<1>18. ops[OpAt(b, k)] # PollOp
  <2>1. PollOp.wseq = -1
    BY Zenon DEF PollOp, DataOp, Poll
  <2> QED
    BY SMTT(60), <1>5, <1>6, <2>1
<1>19. b \in 1..Len(batches') /\ k \in 1..NumOps(b)'
  BY <1>1, <1>4, <1>14, Zenon
<1>20. ops'[OpAt(b, k)'] # PollOp /\ ops'[OpAt(b, k)'].wseq <= expected'
  BY <1>2, <1>5, <1>6, <1>9, <1>14, <1>18, ZenonT(60)
<1>21. CutIsDead'
  BY <1>16, <1>17, <1>19, <1>20, Zenon DEF CutIsDead
<1>22. \A c \in 1..Len(batches) : c # b => registry'[c] = registry[c]
  BY <1>12, Zenon
<1> QED
  BY <1>2, <1>6, <1>9, <1>13, <1>21, <1>22, HandlerAck, ZenonT(60)

\* Every step of a handler.
LEMMA HandlerStepAck ==
  ASSUME LeastInside, NodeTypes, UplinkInv, OpsPlaced, KnownInv, Known, Known', NEW b \in DOMAIN batches,
         NEW a \in 1..2, HandlerStep(b, a)
  PROVE  KnownInv'
<1>1. expected \in Nat
  BY Zenon DEF UplinkInv
<1> QED
  BY <1>1, ClaimAck, ExecAck, DrainAck, CompleteAck, CancelAck, ZenonT(60) DEF HandlerStep

-----------------------------------------------------------------------------
\* A step of the client: nothing changes on the node.
LEMMA NodeSameAck ==
  ASSUME NodeTypes, OpsPlaced, KnownInv, expected \in Nat,
         UNCHANGED <<handlers, registry, batches, uplink>>,
         \A s \in 1..Len(ops) : ops'[s] = ops[s],
         \A c \in DOMAIN batches : \A k \in 1..NumOps(c) : Quiet(c, k) => Quiet(c, k)',
         ClientSound'
  PROVE  KnownInv'
<1>1. /\ expected' = expected /\ pending' = pending /\ cut' = cut
      /\ batches' = batches /\ handlers' = handlers /\ registry' = registry
  BY Zenon DEF uplink
<1>2. Stays
  BY <1>1, Zenon DEF Stays, Kept
<1>3. DOMAIN batches = 1..Len(batches) /\ Len(batches) \in Nat
  BY DEF NodeTypes
<1>4. ASSUME NEW c \in DOMAIN batches
      PROVE  /\ BatchSound(c)'
             /\ \A k \in 1..NumOps(c) : Dead(c) /\ Quiet(c, k) => Dead(c)' /\ Quiet(c, k)'
  BY <1>1, <1>2, <1>3, BatchStays, Zenon DEF KnownInv
<1>5. PendingAhead'
  BY <1>1, Zenon DEF KnownInv, PendingAhead
<1>6. \A c \in 1..Len(batches) : NumOps(c)' = NumOps(c) /\ batches'[c].lo = batches[c].lo
  BY <1>1, Zenon DEF NumOps
<1>7. CutIsDead /\ expected' \in Nat /\ expected <= expected' /\ Len(batches') \in Nat
      /\ Len(batches) <= Len(batches')
  BY <1>1, <1>3 DEF KnownInv
<1>8. CutIsDead'
  BY <1>1, <1>3, <1>4, <1>6, <1>7, CutStays, ZenonT(60)
<1> QED
  BY <1>1, <1>3, <1>4, <1>5, <1>8, ZenonT(60) DEF KnownInv

\* Ops in the queue and replies thrown away change nothing.
LEMMA ClientIdleAck ==
  ASSUME NodeTypes, OpsPlaced, KnownInv, expected \in Nat,
         UNCHANGED <<handlers, registry, batches, uplink, next_write_seq, eof_seen>>,
         \A s \in 1..Len(ops) : ops'[s] = ops[s],
         \/ UNCHANGED <<replies, pending_writes>>
         \/ replies' = Empty /\ pending_writes' = Empty
  PROVE  KnownInv'
<1>1. /\ expected' = expected /\ pending' = pending /\ cut' = cut
      /\ batches' = batches /\ handlers' = handlers
      /\ next_write_seq' = next_write_seq /\ eof_seen' = eof_seen
  BY Zenon DEF uplink
<1>2. DOMAIN Empty = {}
  BY Zenon DEF Empty
<1>3. /\ DOMAIN replies' \subseteq DOMAIN replies
      /\ \A s \in DOMAIN replies' : replies'[s] = replies[s]
      /\ DOMAIN pending_writes' \subseteq DOMAIN pending_writes
      /\ \A s \in DOMAIN pending_writes' : pending_writes'[s] = pending_writes[s]
  BY <1>2, Zenon
<1>4. \A c \in DOMAIN batches : \A k \in 1..NumOps(c) : Quiet(c, k) => Quiet(c, k)'
  BY <1>1, <1>3, ZenonT(60) DEF Quiet, OpAt
<1>5. /\ DOMAIN replies \subseteq 1..Len(ops) /\ DOMAIN pending_writes \subseteq 1..Len(ops)
      /\ \A s \in 1..(next_write_seq - 1) : s \in 1..Len(ops)
  BY DEF OpsPlaced, NodeTypes
<1>6. \A s \in 1..Len(ops) : Kept(s)' = Kept(s) /\ ops'[s] = ops[s]
  BY <1>1, Zenon DEF Kept
<1>7. /\ \A s \in DOMAIN replies' : Fine(replies[s], s)'
      /\ \A s \in DOMAIN pending_writes' : Kept(s)' /\ ~pending_writes'[s].eof
      /\ \A s \in 1..(next_write_seq - 1) : ops'[s].wseq < expected
  BY <1>3, <1>5, <1>6, ZenonT(60) DEF KnownInv, ClientSound, Fine
<1>8. ClientSound'
  BY SMTT(60), <1>1, <1>7 DEF KnownInv, ClientSound
<1> QED
  BY <1>4, <1>8, NodeSameAck, Zenon

\* A reply is taken: held back, or written together with those that follow it.
\* Where a write was interrupted the op left behind stops the run; where none was,
\* the first op of the run whose upload waits in pending would need an earlier one
\* that the node does not have.
LEMMA ReplyAck ==
  ASSUME NodeTypes, UplinkInv, OpsNumbered, OpsPlaced, KnownInv, NEW s, HandleReply(s)
  PROVE  KnownInv'
<1>1. /\ s \in DOMAIN replies /\ replies[s].err = "none" /\ TakeReply(s) /\ ~eof_seen
  BY Zenon DEF HandleReply, Selecting
<1>2. /\ ops' = ops /\ UNCHANGED <<handlers, registry, batches, uplink>>
      /\ DOMAIN replies' = DOMAIN replies \ {s}
      /\ \A x \in DOMAIN replies' : replies'[x] = replies[x]
  BY <1>1, TakeReplyFrame, Zenon DEF node, network
<1>3. expected' = expected /\ pending' = pending /\ cut' = cut /\ batches' = batches
      /\ handlers' = handlers /\ expected \in Nat
  BY <1>2, Zenon DEF uplink, UplinkInv
<1> DEFINE held == HeldWith(s)
<1>4. /\ DOMAIN held = DOMAIN pending_writes \cup {s} /\ held[s] = replies[s]
      /\ \A x \in DOMAIN pending_writes : x # s => held[x] = pending_writes[x]
  BY HeldDomain, Zenon
<1> HIDE DEF held
<1>5. \A x : Kept(x)' = Kept(x)
  BY <1>2, <1>3, Zenon DEF Kept
<1>6. \A x \in DOMAIN held : Kept(x) /\ ~held[x].eof
  <2>1. Kept(s) /\ ~replies[s].eof
    BY <1>1, Zenon DEF KnownInv, ClientSound, Fine
  <2>2. \A x \in DOMAIN pending_writes : Kept(x) /\ ~pending_writes[x].eof
    BY Zenon DEF KnownInv, ClientSound
  <2> QED
    BY <1>4, <2>1, <2>2, Zenon
<1>7. ASSUME NEW c \in DOMAIN batches, NEW k \in 1..NumOps(c), Quiet(c, k)
      PROVE  OpAt(c, k) \notin DOMAIN held
  BY <1>1, <1>4, <1>7, Zenon DEF Quiet
<1>8. \A x \in DOMAIN replies' : Fine(replies[x], x)'
  BY <1>2, <1>5, Zenon DEF KnownInv, ClientSound, Fine
<1>9. \A c, k : OpAt(c, k)' = OpAt(c, k)
  BY <1>3, Zenon DEF OpAt
<1>10. ASSUME NEW m \in Nat, next_write_seq' = m, DOMAIN pending_writes' \subseteq DOMAIN held,
              \A x \in DOMAIN pending_writes' : pending_writes'[x] = held[x], ~eof_seen',
              \A x \in 1..(m - 1) : ops[x].wseq < expected,
              \A c \in DOMAIN batches : \A k \in 1..NumOps(c) : Quiet(c, k) => m <= OpAt(c, k)
       PROVE  KnownInv'
  <2>1. \A c \in DOMAIN batches : \A k \in 1..NumOps(c) : Quiet(c, k) => Quiet(c, k)'
    BY ZenonT(60), <1>2, <1>3, <1>7, <1>9, <1>10 DEF Quiet
  <2>2. \A x \in DOMAIN pending_writes' : Kept(x)' /\ ~pending_writes'[x].eof
    BY <1>5, <1>6, <1>10, Zenon
  <2>3. ClientSound'
    BY <1>2, <1>3, <1>8, <1>10, <2>2, ZenonT(60) DEF ClientSound
  <2> QED
    BY <1>2, <1>3, <2>1, <2>3, NodeSameAck, ZenonT(60)
<1>11. /\ next_write_seq \in Nat /\ \A x \in 1..(next_write_seq - 1) : ops[x].wseq < expected
       /\ \A c \in DOMAIN batches : \A k \in 1..NumOps(c) : Quiet(c, k) => next_write_seq <= OpAt(c, k)
  BY DEF OpsPlaced, NodeTypes, KnownInv, ClientSound, Quiet
<1>12. CASE s # next_write_seq
  <2>1. pending_writes' = held /\ next_write_seq' = next_write_seq /\ eof_seen' = eof_seen
    BY <1>12, Zenon DEF HandleReply, held
  <2> QED
    BY <1>1, <1>10, <1>11, <2>1, ZenonT(60)
<1>13. CASE s = next_write_seq
  <2>1. PICK last \in s..Len(ops) : /\ WriteRun(held, last)
                                    /\ eof_seen' = \E k \in s..last : held[k].eof
    BY <1>13, Zenon DEF HandleReply, held
  <2>2. /\ next_write_seq' = last + 1 /\ next_write_seq..last \subseteq DOMAIN held
        /\ DOMAIN pending_writes' = DOMAIN held \ (next_write_seq..last)
        /\ \A x \in DOMAIN pending_writes' : pending_writes'[x] = held[x]
    BY <2>1, WriteRunFrame, ZenonT(60)
  <2>3. last \in Nat /\ last + 1 \in Nat /\ next_write_seq <= last /\ last <= Len(ops) /\ 1 <= next_write_seq
        /\ Len(ops) \in Nat
    BY SMTT(60), <1>11, <1>13, <2>1 DEF NodeTypes, OpsPlaced
  <2>4. ~eof_seen'
    BY <1>6, <1>13, <2>1, <2>2, ZenonT(60)
  <2>5. ASSUME NEW c \in DOMAIN batches, NEW k \in 1..NumOps(c), Quiet(c, k)
        PROVE  last + 1 <= OpAt(c, k)
    <3>1. OpAt(c, k) \notin DOMAIN held /\ next_write_seq <= OpAt(c, k)
      BY <1>7, <1>11, <2>5, ZenonT(60)
    <3>2. OpAt(c, k) \in Nat
      BY OpAtRange
    <3>3. ~(OpAt(c, k) \in next_write_seq..last)
      BY <2>2, <3>1, Zenon
    <3> QED
      BY SMTT(60), <1>11, <2>3, <3>1, <3>2, <3>3
  <2>6. ASSUME NEW x \in 1..last PROVE ops[x].wseq < expected
    <3>1. \A y \in 1..last : y \in 1..Len(ops) /\ ops[y].wseq \in Int /\ (y \in 1..(next_write_seq - 1) \/ y \in next_write_seq..last)
      BY SMTT(60), <1>11, <2>3, OpsTyped
    <3>2. CASE x \in 1..(next_write_seq - 1)
      BY <1>11, <3>2, Zenon
    <3>3. CASE x \in next_write_seq..last
      <4>1. Kept(x)
        BY <1>6, <2>2, <3>3, ZenonT(60)
      <4>2. CASE cut # {}
        <5>0. PICK c \in 1..Len(batches) : \E k \in 1..NumOps(c) :
                /\ Quiet(c, k) /\ ops[OpAt(c, k)] # PollOp /\ ops[OpAt(c, k)].wseq <= expected
          BY <4>2, Zenon DEF KnownInv, CutIsDead
        <5>1. PICK k \in 1..NumOps(c) :
                /\ Quiet(c, k) /\ ops[OpAt(c, k)] # PollOp /\ ops[OpAt(c, k)].wseq <= expected
          BY <5>0, ZenonT(60)
        <5>2. c \in DOMAIN batches
          BY DEF NodeTypes
        <5>3. OpAt(c, k) \in 1..Len(ops) /\ ops[OpAt(c, k)].wseq \in Int
          BY <5>2, OpAtRange, Zenon
        <5>4. last + 1 <= OpAt(c, k)
          BY <2>5, <5>1, <5>2, ZenonT(60)
        <5>5. x < OpAt(c, k) /\ x \in 1..Len(ops)
          BY SMTT(60), <2>3, <3>1, <5>3, <5>4
        <5>6. ops[x].wseq < ops[OpAt(c, k)].wseq
          BY <5>1, <5>3, <5>5, Zenon DEF OpsNumbered
        <5> QED
          BY SMTT(60), <1>3, <3>1, <5>1, <5>3, <5>6
      <4>3. CASE cut = {}
        <5> SUFFICES ASSUME ~(ops[x].wseq < expected) PROVE FALSE
          BY Zenon
        <5>1. ops[x].wseq \in DOMAIN pending
          BY <4>1, <4>3, Zenon DEF Kept
        <5>2. ops[x].wseq > expected /\ ops[x].wseq \in Int
          BY <3>1, <5>1, Zenon DEF KnownInv, PendingAhead
        <5>3. ops[x].wseq \in 0..(next_data_write_seq - 1) /\ next_data_write_seq \in Nat
          <6>1. PollOp.wseq = -1
            BY Zenon DEF PollOp, DataOp, Poll
          <6>2. ops[x] # PollOp
            BY SMTT(60), <1>3, <5>2, <6>1
          <6> QED
            BY <3>1, <6>2, Zenon DEF OpsNumbered, NodeTypes
        <5>4. expected \in 0..(next_data_write_seq - 1)
          BY SMTT(60), <1>3, <5>2, <5>3
        <5>5. PICK e \in 1..Len(ops) : ops[e].wseq = expected
          BY <5>4, Zenon DEF OpsNumbered
        <5>6. ~(x < e)
          <6>1. PollOp.wseq = -1
            BY Zenon DEF PollOp, DataOp, Poll
          <6>2. ops[e] # PollOp
            BY SMTT(60), <1>3, <5>5, <6>1
          <6>3. x < e => ops[x].wseq < ops[e].wseq
            BY <3>1, <6>2, ZenonT(60) DEF OpsNumbered
          <6> QED
            BY <1>3, <5>2, <5>5, <6>3, ZenonT(60)
        <5>7. e \in 1..last
          BY SMTT(60), <2>3, <5>5, <5>6
        <5>8. CASE e \in 1..(next_write_seq - 1)
          BY SMTT(60), <1>3, <1>11, <5>5, <5>8
        <5>9. CASE e \in next_write_seq..last
          <6>1. Kept(e)
            BY <1>6, <2>2, <5>9, ZenonT(60)
          <6>2. expected \in DOMAIN pending
            BY SMTT(60), <1>3, <4>3, <5>5, <6>1 DEF Kept
          <6> QED
            BY SMTT(60), <1>3, <6>2 DEF KnownInv, PendingAhead
        <5> QED
          BY <3>1, <5>7, <5>8, <5>9, ZenonT(60)
      <4> QED
        BY <4>2, <4>3, Zenon
    <3> QED
      BY <3>1, <3>2, <3>3, ZenonT(60)
  <2>7. \A x \in 1..((last + 1) - 1) : ops[x].wseq < expected
    BY SMTT(60), <2>3, <2>6
  <2> QED
    BY <1>10, <2>2, <2>3, <2>4, <2>5, <2>7, ZenonT(60)
<1> QED
  BY <1>12, <1>13, Zenon

\* A batch that was just fired has ops of which nothing was ever said.
LEMMA FireAck ==
  ASSUME NodeTypes, OpsPlaced, KnownInv, expected \in Nat, FireBatch
  PROVE  KnownInv'
<1> DEFINE N == Len(batches)
<1>1. /\ N \in Nat /\ Len(batches') = N + 1
      /\ \A b \in 1..N : /\ batches'[b] = batches[b] /\ handlers'[b] = handlers[b]
                         /\ registry'[b] = registry[b]
      /\ batches'[N + 1].lo = fired + 1 /\ batches'[N + 1].hi = fired'
      /\ handlers'[N + 1] = <<Sent, Idle>> /\ registry'[N + 1] = Absent
      /\ fired \in Nat /\ fired' \in Nat /\ UNCHANGED <<client, uplink>>
  BY FireFrame, Zenon
<1>2. /\ ops' = ops /\ replies' = replies
      /\ pending_writes' = pending_writes /\ next_write_seq' = next_write_seq
  BY <1>1, Zenon DEF client
<1>3. Stays /\ PendingAhead' /\ expected' \in Nat /\ expected <= expected' /\ cut' = cut
  BY <1>1, <1>2, UplinkStays, Zenon
<1>4. DOMAIN batches = 1..N
  BY DEF NodeTypes
<1>5. ASSUME NEW c \in 1..N
      PROVE  /\ BatchSound(c)'
             /\ \A k \in 1..NumOps(c) : Dead(c) /\ Quiet(c, k) => Dead(c)' /\ Quiet(c, k)'
             /\ NumOps(c)' = NumOps(c) /\ batches'[c].lo = batches[c].lo
  <2>1. batches'[c] = batches[c] /\ handlers'[c] = handlers[c] /\ registry'[c] = registry[c]
    BY <1>1, Zenon
  <2>2. \A k \in 1..NumOps(c) : Quiet(c, k) => Quiet(c, k)'
    BY <1>2, <2>1, Zenon DEF Quiet, OpAt
  <2>3. BatchSound(c)
    BY Zenon DEF KnownInv
  <2>4. NumOps(c)' = NumOps(c)
    BY <2>1, Zenon DEF NumOps
  <2> QED
    BY <1>3, <1>4, <2>1, <2>2, <2>3, <2>4, BatchStays, ZenonT(60)
<1> HIDE DEF N
<1>6. PICK M : M = N + 1
  BY ZenonT(60)
<1>7. BatchSound(M)'
  <2>1. handlers'[M][1].st = "net" /\ handlers'[M][2].st = "idle" /\ registry'[M].st = "absent"
    BY SMTT(60), <1>1, <1>6 DEF Sent, Idle, Absent
  <2>2. \A a \in 1..2 : handlers'[M][a].st \in {"net", "idle"}
    BY <2>1
  <2>3. \A a \in 1..2 : ~Executing(M, a)'
    BY <2>2, Zenon DEF Executing
  <2>4. \A a \in 1..2 : HandlerSound(M, handlers[M][a])'
    BY <2>2, Zenon DEF HandlerSound
  <2>5. ASSUME NEW k \in 1..NumOps(M)' PROVE Quiet(M, k)'
    <3>1. NumOps(M)' \in Int /\ k \in Nat /\ 1 <= k
      BY SMTT(60), <1>1, <1>6 DEF NumOps
    <3>2. OpAt(M, k)' = fired + k
      BY SMTT(60), <1>1, <1>6, <3>1 DEF OpAt
    <3>3. /\ DOMAIN replies \subseteq 1..fired /\ DOMAIN pending_writes \subseteq 1..fired
          /\ next_write_seq \in 1..(fired + 1)
      BY Zenon DEF OpsPlaced
    <3>4. fired + k \notin 1..fired /\ next_write_seq <= fired + k
      BY SMTT(60), <1>1, <3>1, <3>3
    <3> QED
      BY <1>2, <2>2, <3>2, <3>3, <3>4, ZenonT(60) DEF Quiet
  <2> QED
    BY SMTT(60), <2>1, <2>3, <2>4, <2>5 DEF BatchSound
<1>8. \A c \in 1..Len(batches') : BatchSound(c)'
  <2> TAKE c \in 1..Len(batches')
  <2>1. c \in 1..N \/ c = M
    BY SMTT(60), <1>1, <1>6
  <2> QED
    BY <1>5, <1>7, <2>1, Zenon
<1>9. ClientSound'
  BY <1>1, <1>3, ClientStays, Zenon DEF KnownInv
<1>10. CutIsDead'
  <2>1. CutIsDead /\ Len(batches') \in Nat /\ Len(batches) <= Len(batches') /\ Len(batches) \in Nat
    BY <1>1 DEF KnownInv, N
  <2>2. \A c \in 1..Len(batches) : /\ NumOps(c)' = NumOps(c) /\ batches'[c].lo = batches[c].lo
                                   /\ \A k \in 1..NumOps(c) : Dead(c) /\ Quiet(c, k) => Dead(c)' /\ Quiet(c, k)'
    BY <1>5, Zenon DEF N
  <2> QED
    BY <1>2, <1>3, <2>1, <2>2, CutStays, ZenonT(60)
<1> QED
  BY <1>3, <1>8, <1>9, <1>10, Zenon DEF KnownInv

\* The replies of a batch say no more than its response did.
LEMMA AnswerAck ==
  ASSUME NodeTypes, OpsPlaced, KnownInv, expected \in Nat, NEW b \in DOMAIN batches,
         ReceiveResponse(b) \/ RetryBatch(b) \/ FailBatch(b)
  PROVE  KnownInv'
<1>1. /\ Len(batches') = Len(batches)
      /\ \A c \in 1..Len(batches) :
              /\ batches'[c].lo = batches[c].lo /\ batches'[c].hi = batches[c].hi
              /\ batches'[c].close = batches[c].close
              /\ c # b => handlers'[c] = handlers[c]
      /\ RetryBatch(b) => ReplaySafe(b)
      /\ UNCHANGED <<ops, next_write_seq, pending_writes, eof_seen, registry, uplink>>
  BY AnswerFrame, Zenon
<1>2. \A a \in 1..2 : IF RetryBatch(b) /\ a = 2 THEN handlers'[b][a] = Sent
                      ELSE \/ handlers'[b][a] = handlers[b][a]
                           \/ handlers'[b][a] = Gone /\ handlers[b][a].st = "resp"
  BY AnswerFrame, Zenon
<1>3. Stays /\ PendingAhead' /\ expected' \in Nat /\ expected <= expected' /\ cut' = cut
  BY <1>1, UplinkStays, ZenonT(60)
<1>4. DOMAIN batches = 1..Len(batches) /\ Len(batches) \in Nat /\ b \in 1..Len(batches)
      /\ batches[b] \in BatchType /\ BatchSound(b)
  BY BatchTyped DEF NodeTypes, KnownInv
<1>5. Sent.st = "net" /\ Gone.st = "gone"
  BY Zenon DEF Sent, Gone, Idle
<1>6. \A c \in 1..Len(batches) : /\ NumOps(c)' = NumOps(c) /\ ReplaySafe(c)' = ReplaySafe(c)
                                 /\ \A k : OpAt(c, k)' = OpAt(c, k)
  BY <1>1, Zenon DEF NumOps, ReplaySafe, OpAt
<1>7. ASSUME NEW s \in DOMAIN replies'
      PROVE  \/ s \in DOMAIN replies /\ replies'[s] = replies[s]
             \/ \E k \in 1..NumOps(b) :
                  /\ s = OpAt(b, k) /\ Fine(replies'[s], s)
                  /\ Quiet(b, k) => replies'[s].err # "none"
  <2>1. CASE RetryBatch(b)
    BY <1>7, <2>1, Zenon DEF RetryBatch, client
  <2>2. ASSUME NEW r, Reply(b, r),
               \A k \in 1..NumOps(b) : /\ Fine(r[k], OpAt(b, k))
                                       /\ Quiet(b, k) => r[k].err # "none"
        PROVE  \/ s \in DOMAIN replies /\ replies'[s] = replies[s]
               \/ \E k \in 1..NumOps(b) :
                    /\ s = OpAt(b, k) /\ Fine(replies'[s], s)
                    /\ Quiet(b, k) => replies'[s].err # "none"
    <3>1. /\ s \in DOMAIN replies \cup (BatchOps(b) \cap inflight)
          /\ replies'[s] = IF s \in DOMAIN replies THEN replies[s] ELSE r[s - batches[b].lo + 1]
      BY <1>7, <2>2, Zenon DEF Reply
    <3>2. CASE s \notin DOMAIN replies
      <4> DEFINE k == s - batches[b].lo + 1
      <4>1. /\ batches[b].lo \in Nat \ {0} /\ batches[b].hi \in Nat
            /\ NumOps(b) = batches[b].hi - batches[b].lo + 1
        BY BatchTyped, Zenon
      <4>2. s \in batches[b].lo..batches[b].hi /\ replies'[s] = r[k]
        BY <3>1, <3>2, ZenonT(60) DEF BatchOps
      <4>3. k \in 1..NumOps(b) /\ s = OpAt(b, k)
        BY SMTT(60), <4>1, <4>2 DEF OpAt
      <4> HIDE DEF k
      <4> QED
        BY <2>2, <4>2, <4>3, Zenon
    <3> QED
      BY <3>1, <3>2, Zenon
  <2>3. CASE ReceiveResponse(b)
    <3> DEFINE a == batches[b].att
    <3>1. Reply(b, handlers[b][a].out) /\ handlers[b][a].st = "resp" /\ a \in 1..2
      BY <1>4, <2>3, Zenon DEF ReceiveResponse, BatchType
    <3> HIDE DEF a
    <3>2. \A k \in 1..NumOps(b) : /\ Fine(handlers[b][a].out[k], OpAt(b, k))
                                  /\ Quiet(b, k) => handlers[b][a].out[k].err # "none"
      BY <1>4, <3>1, Zenon DEF BatchSound, HandlerSound, Quiet
    <3> QED
      BY <2>2, <3>1, <3>2, Zenon
  <2>4. CASE FailBatch(b)
    <3> DEFINE r == [k \in 1..NumOps(b) |-> BatchErr]
    <3>1. Reply(b, r)
      BY <2>4, Zenon DEF FailBatch
    <3>2. \A k \in 1..NumOps(b) : r[k].err # "none" /\ ~r[k].eof
      BY Zenon DEF BatchErr, Response
    <3> HIDE DEF r
    <3> QED
      BY <2>2, <3>1, <3>2, Zenon DEF Fine
  <2> QED
    BY <2>1, <2>3, <2>4, Zenon
<1>8. \A s : Kept(s)' = Kept(s)
  BY <1>1, Zenon DEF Kept, uplink
<1>9. ClientSound'
  <2>1. \A s \in DOMAIN replies' : Fine(replies'[s], s)
    BY <1>7, Zenon DEF KnownInv, ClientSound
  <2>2. \A s \in DOMAIN replies' : Fine(replies[s], s)'
    BY <1>8, <2>1, Zenon DEF Fine
  <2>3. /\ \A s \in DOMAIN pending_writes : Kept(s)' /\ ~pending_writes[s].eof
        /\ \A s \in 1..(next_write_seq - 1) : ops[s].wseq < expected
        /\ ~eof_seen
    BY <1>8, Zenon DEF KnownInv, ClientSound
  <2>4. expected' = expected
    BY <1>1, Zenon DEF uplink
  <2> QED
    BY <1>1, <2>2, <2>3, <2>4, ZenonT(60) DEF ClientSound
<1>10. ASSUME NEW c \in 1..Len(batches), NEW k \in 1..NumOps(c), Quiet(c, k),
              OpAt(c, k) \in DOMAIN replies'
       PROVE  replies'[OpAt(c, k)].err # "none"
  <2>1. CASE OpAt(c, k) \in DOMAIN replies /\ replies'[OpAt(c, k)] = replies[OpAt(c, k)]
    BY <1>10, <2>1, Zenon DEF Quiet
  <2>2. ASSUME NEW j \in 1..NumOps(b), OpAt(c, k) = OpAt(b, j),
               Quiet(b, j) => replies'[OpAt(c, k)].err # "none"
        PROVE  replies'[OpAt(c, k)].err # "none"
    <3>1. /\ OpAt(c, k) \in BatchOps(c) /\ OpAt(b, j) \in BatchOps(b)
          /\ OpAt(c, k) - batches[c].lo + 1 = k /\ OpAt(b, j) - batches[b].lo + 1 = j
      BY <1>4, OpAtRange, Zenon
    <3>2. /\ batches[c].lo \in Nat /\ batches[c].hi \in Nat
          /\ batches[b].lo \in Nat /\ batches[b].hi \in Nat
      BY <1>4, BatchTyped, Zenon
    <3>3. c = b
      <4>1. ~(c < b)
        <5> SUFFICES ASSUME c < b PROVE FALSE
          BY Zenon
        <5>1. batches[c].hi < batches[b].lo
          BY <1>4, ZenonT(60) DEF OpsPlaced
        <5> QED
          BY SMTT(60), <2>2, <3>1, <3>2, <5>1 DEF BatchOps
      <4>2. ~(b < c)
        <5> SUFFICES ASSUME b < c PROVE FALSE
          BY Zenon
        <5>1. batches[b].hi < batches[c].lo
          BY <1>4, Zenon DEF OpsPlaced
        <5> QED
          BY SMTT(60), <2>2, <3>1, <3>2, <5>1 DEF BatchOps
      <4> QED
        BY SMTT(60), <1>4, <4>1, <4>2
    <3>4. j = k
      BY <2>2, <3>1, <3>3, Zenon
    <3> QED
      BY <1>10, <2>2, <3>3, <3>4, ZenonT(60)
  <2> QED
    BY <1>7, <1>10, <2>1, <2>2, ZenonT(60)
<1>11. ASSUME NEW c \in 1..Len(batches), NEW k \in 1..NumOps(c), Quiet(c, k) PROVE Quiet(c, k)'
  <2>1. \A a \in 1..2 : handlers'[c][a].st = "resp" => handlers'[c][a] = handlers[c][a]
    BY SMTT(60), <1>1, <1>2, <1>5
  <2>2. \A a \in 1..2 : handlers[c][a].st = "resp" => handlers[c][a].out[k].err # "none"
    BY <1>11, Zenon DEF Quiet
  <2>3. \A a \in 1..2 : handlers'[c][a].st = "resp" => handlers'[c][a].out[k].err # "none"
    BY <2>1, <2>2, Zenon
  <2>4. OpAt(c, k) \in DOMAIN replies' => replies'[OpAt(c, k)].err # "none"
    BY <1>10, <1>11, Zenon
  <2>5. OpAt(c, k) \notin DOMAIN pending_writes' /\ next_write_seq' <= OpAt(c, k)
    BY <1>1, <1>11, Zenon DEF Quiet
  <2>6. OpAt(c, k)' = OpAt(c, k)
    BY <1>6, Zenon
  <2> QED
    BY <2>3, <2>4, <2>5, <2>6, ZenonT(60) DEF Quiet
<1>12. ASSUME NEW c \in 1..Len(batches), c # b
       PROVE  /\ BatchSound(c)'
              /\ \A k \in 1..NumOps(c) : Dead(c) /\ Quiet(c, k) => Dead(c)' /\ Quiet(c, k)'
  <2>1. BatchSound(c) /\ handlers'[c] = handlers[c] /\ registry'[c] = registry[c]
    BY <1>1, <1>12, Zenon DEF KnownInv
  <2>2. \A k \in 1..NumOps(c) : Quiet(c, k) => Quiet(c, k)'
    BY <1>11, Zenon
  <2> QED
    BY <1>1, <1>3, <1>4, <2>1, <2>2, BatchStays, ZenonT(60)
<1>13. BatchSound(b)' /\ (Dead(b) => Dead(b)')
  <2>1. \A a \in 1..2 : Executing(b, a)' => Executing(b, a)
    BY <1>2, <1>5, Zenon DEF Executing
  <2>2. Settled(b) => Settled(b)'
    <3>1. handlers[b][1].st \in {"resp", "gone"} => handlers'[b][1].st \in {"resp", "gone"}
      BY <1>2, <1>5
    <3> QED
      BY <1>1, <1>4, <1>6, <3>1, ZenonT(60) DEF Settled
  <2>3. ~Settled(b)' => \A k \in 1..NumOps(b) : Quiet(b, k)'
    BY <1>4, <1>11, <2>2, Zenon DEF BatchSound
  <2>4. registry[b].st = "ready" => \A k \in 1..NumOps(b) : Fine(registry[b].body[k], OpAt(b, k))'
    BY <1>1, <1>4, <1>6, <1>8, Zenon DEF BatchSound, Fine
  <2>5. ASSUME NEW a \in 1..2 PROVE HandlerSound(b, handlers[b][a])'
    <3>1. CASE handlers'[b][a] = handlers[b][a]
      <4>1. batches'[b].lo = batches[b].lo /\ NumOps(b)' = NumOps(b)
        BY <1>1, <1>4, <1>6, Zenon
      <4> QED
        BY <1>3, <1>4, <3>1, <4>1, SoundStays, ZenonT(60) DEF BatchSound
    <3>2. CASE handlers'[b][a] = Gone \/ handlers'[b][a] = Sent
      BY <1>5, <3>2, Zenon DEF HandlerSound
    <3> QED
      BY <1>2, <3>1, <3>2, Zenon
  <2>6. /\ \A a \in 1..2 : Executing(b, a)' /\ ReplaySafe(b) => registry[b].st = "pending"
        /\ ~(Executing(b, 1)' /\ Executing(b, 2)')
    <3>1. \A a \in 1..2 : Executing(b, a) /\ ReplaySafe(b) => registry[b].st = "pending"
      BY <1>4, Zenon DEF BatchSound
    <3>2. ~(Executing(b, 1) /\ Executing(b, 2))
      BY <1>4, Zenon DEF BatchSound
    <3>3. (Executing(b, 1)' => Executing(b, 1)) /\ (Executing(b, 2)' => Executing(b, 2))
      BY <2>1
    <3> QED
      BY <2>1, <3>1, <3>2, <3>3, Zenon
  <2>7. NumOps(b)' = NumOps(b) /\ ReplaySafe(b)' = ReplaySafe(b) /\ registry' = registry
    BY <1>1, <1>4, <1>6, Zenon
  <2>8. BatchSound(b)'
    BY <2>3, <2>4, <2>5, <2>6, <2>7, ZenonT(60) DEF BatchSound
  <2>9. ASSUME Dead(b) PROVE Dead(b)'
    <3>1. \A a \in 1..2 : ~Executing(b, a)'
      BY <2>1, <2>9, Zenon DEF Dead
    <3>2. ReplaySafe(b) => registry'[b].st = "pending"
      BY <2>7, <2>9, Zenon DEF Dead
    <3>3. ~ReplaySafe(b) => \A a \in 1..2 : handlers'[b][a].st \notin {"net", "wait"}
      BY <1>1, <1>2, <1>5, <2>9, Zenon DEF Dead
    <3> QED
      BY <2>7, <3>1, <3>2, <3>3, ZenonT(60) DEF Dead
  <2> QED
    BY <2>8, <2>9, Zenon
<1>14. \A c \in 1..Len(batches') : BatchSound(c)'
  BY <1>1, <1>12, <1>13, Zenon
<1>15. CutIsDead'
  <2>1. CutIsDead /\ Len(batches') \in Nat /\ Len(batches) <= Len(batches')
    BY <1>1, <1>4 DEF KnownInv
  <2>2. \A c \in 1..Len(batches) : NumOps(c)' = NumOps(c) /\ batches'[c].lo = batches[c].lo
    BY <1>1, <1>6, Zenon
  <2>3. \A c \in 1..Len(batches) : \A k \in 1..NumOps(c) :
           Dead(c) /\ Quiet(c, k) => Dead(c)' /\ Quiet(c, k)'
    BY <1>11, <1>12, <1>13, Zenon
  <2>4. \A s \in 1..Len(ops) : ops'[s] = ops[s]
    BY <1>1, Zenon
  <2> QED
    BY <1>3, <1>4, <2>1, <2>2, <2>3, <2>4, CutStays, ZenonT(60)
<1> QED
  BY <1>3, <1>9, <1>14, <1>15, ZenonT(60) DEF KnownInv

\* Nothing is acknowledged at the start.
LEMMA AckInvInit == Init => AckInv
<1> SUFFICES ASSUME Init PROVE AckInv
  BY Zenon
<1>1. OpsNumbered /\ OpsPlaced
  BY OpsNumberedInit, OpsPlacedInit, Zenon
<1>2. /\ batches = <<>> /\ DOMAIN replies = {} /\ DOMAIN pending_writes = {} /\ DOMAIN pending = {}
      /\ next_write_seq = 1 /\ ~eof_seen /\ cut = {}
  BY ZenonT(60) DEF Init, Empty
<1>3. ClientSound /\ PendingAhead /\ CutIsDead
  BY SMTT(60), <1>2 DEF ClientSound, PendingAhead, CutIsDead
<1>4. \A b \in 1..Len(batches) : BatchSound(b)
  BY <1>2
<1> QED
  BY <1>1, <1>3, <1>4, Zenon DEF AckInv, KnownInv

\* Every step keeps it; a step that reaps the session, restarts the node or
\* forgets a batch ends what is claimed.
LEMMA AckInvNext == LeastInside /\ NodeTypes /\ UplinkInv /\ AckInv /\ [Next]_vars => AckInv'
<1> SUFFICES ASSUME LeastInside, NodeTypes, UplinkInv, AckInv, [Next]_vars PROVE AckInv'
  BY Zenon
<1>1. OpsNumbered /\ OpsPlaced /\ expected \in Nat
  BY Zenon DEF AckInv, UplinkInv
<1>2. OpsNumbered' /\ OpsPlaced'
  BY <1>1, OpsNumberedNext, OpsPlacedNext, Zenon
<1>3. ASSUME Known' PROVE KnownInv'
  <2>1. Known /\ KnownInv
    BY <1>3, KnownBefore, Zenon DEF AckInv, KnownInv
  <2>2. ASSUME NEW op, SendOp(op), UNCHANGED <<replies, next_write_seq, pending_writes, eof_seen,
                                               network, node>>
        PROVE  KnownInv'
    <3>1. ops \in Seq([wseq : Int, chunk : Int]) /\ ops' = Append(ops, op)
      BY <2>2, Zenon DEF NodeTypes, SendOp
    <3>2. \A s \in 1..Len(ops) : ops'[s] = ops[s]
      BY <3>1
    <3>3. UNCHANGED <<handlers, registry, batches, uplink, next_write_seq, eof_seen>>
      BY <2>2, Zenon DEF network, node
    <3> QED
      BY <1>1, <2>1, <2>2, <3>2, <3>3, ClientIdleAck, ZenonT(60)
  <2>3. ASSUME UNCHANGED <<client, batches, handlers, registry, uplink>> PROVE KnownInv'
    <3>1. /\ UNCHANGED <<handlers, registry, batches, uplink, next_write_seq, eof_seen>>
          /\ UNCHANGED <<replies, pending_writes>> /\ ops' = ops
      BY <2>3, Zenon DEF client
    <3> QED
      BY <1>1, <2>1, <3>1, ClientIdleAck, Zenon
  <2>4. ASSUME NEW how, EndLoop(how), UNCHANGED <<next_write_seq, eof_seen>> PROVE KnownInv'
    <3>1. /\ UNCHANGED <<handlers, registry, batches, uplink, next_write_seq, eof_seen>>
          /\ replies' = Empty /\ pending_writes' = Empty /\ ops' = ops
      BY <2>4, Zenon DEF EndLoop, node
    <3> QED
      BY <1>1, <2>1, <3>1, ClientIdleAck, Zenon
  <2>5. CASE ClientStep
    <3>1. CASE SendPoll \/ ReadClient
      BY <2>2, <3>1, ZenonT(60) DEF SendPoll, ReadClient
    <3>2. CASE ReadClientEof
      <4>1. /\ UNCHANGED <<handlers, registry, batches, uplink, next_write_seq, eof_seen>>
            /\ UNCHANGED <<replies, pending_writes>> /\ ops' = ops
        BY <3>2, Zenon DEF ReadClientEof, network, node
      <4> QED
        BY <1>1, <2>1, <4>1, ClientIdleAck, Zenon
    <3>3. CASE LoopDone \/ GraceOver
      BY <2>4, <3>3, Zenon DEF LoopDone, GraceOver
    <3>4. ASSUME NEW s \in inflight,
                 HandleReply(s) \/ HandleError(s) \/ LocalWriteFails(s) \/ GraceReply(s)
          PROVE  KnownInv'
      <4>1. CASE HandleReply(s)
        BY <1>1, <2>1, <4>1, ReplyAck, Zenon
      <4>2. CASE HandleError(s) \/ LocalWriteFails(s)
        BY <2>4, <4>2, Zenon DEF HandleError, LocalWriteFails
      <4>3. CASE GraceReply(s)
        <5>1. eof_seen
          BY <4>3, Zenon DEF GraceReply
        <5>2. ~eof_seen
          BY <2>1, Zenon DEF KnownInv, ClientSound
        <5> QED
          BY <5>1, <5>2, Zenon
      <4> QED
        BY <3>4, <4>1, <4>2, <4>3, Zenon
    <3> QED
      BY <2>5, <3>1, <3>2, <3>3, <3>4, ZenonT(60) DEF ClientStep
  <2>6. CASE BatchStep
    <3>1. CASE FireBatch
      BY <1>1, <2>1, <3>1, FireAck, Zenon
    <3>2. ASSUME NEW b \in DOMAIN batches, ReceiveResponse(b) \/ RetryBatch(b) \/ FailBatch(b)
          PROVE  KnownInv'
      BY <1>1, <2>1, <3>2, AnswerAck, ZenonT(60)
    <3> QED
      BY <2>6, <3>1, <3>2, Zenon DEF BatchStep
  <2>7. CASE SessionStep
    <3>1. CASE ReadUpstream \/ ReadUpstreamEof
      BY <2>3, <3>1, Zenon DEF ReadUpstream, ReadUpstreamEof, Elsewhere, network
    <3>2. CASE Reap \/ Restart
      BY <1>3, <3>2, Zenon DEF Reap, Restart, Known
    <3>3. ASSUME NEW b \in DOMAIN batches, Forget(b) PROVE FALSE
      <4>1. b \in DOMAIN registry
        BY DEF NodeTypes
      <4>2. [Absent EXCEPT !.forgot = TRUE].forgot
        BY Zenon DEF Absent
      <4>3. registry'[b].forgot /\ b \in DOMAIN registry'
        BY <3>3, <4>1, <4>2, Zenon DEF Forget
      <4> QED
        BY <1>3, <4>3, ZenonT(60) DEF Known, NothingForgotten
    <3> QED
      BY <2>7, <3>1, <3>2, <3>3, ZenonT(60) DEF SessionStep
  <2>8. ASSUME NEW b \in DOMAIN batches, NEW a \in 1..2, HandlerStep(b, a) PROVE KnownInv'
    BY <1>1, <1>3, <2>1, <2>8, HandlerStepAck, ZenonT(60)
  <2>9. CASE UNCHANGED vars
    BY <2>3, <2>9, Zenon DEF vars, client, network, node
  <2> QED
    BY <2>5, <2>6, <2>7, <2>8, <2>9, Zenon DEF Next
<1> QED
  BY <1>2, <1>3, Zenon DEF AckInv, KnownInv

-----------------------------------------------------------------------------
LOCAL INSTANCE WellFoundedInduction

\* The order of the naturals, as a relation.
Less == {p \in Nat \X Nat : p[1] < p[2]}

\* A set of naturals that is not empty has a least element.
LEMMA LeastElement ==
  ASSUME NEW T, T \subseteq Nat, T # {}
  PROVE  \E x \in T : \A y \in T : x <= y
<1>1. IsWellFoundedOn(Less, Nat)
  BY NatLessThanWellFounded, Zenon DEF OpToRel, Less
<1>2. PICK x \in T : \A y \in T : ~(<<y, x>> \in Less)
  BY <1>1, WFMin, Zenon
<1>3. \A y \in T : ~(y < x)
  BY <1>2, Zenon DEF Less
<1> QED
  BY SMTT(60), <1>3

\* The first op to drain is one of those to drain.
LEMMA MinInside ==
  ASSUME NEW n \in Nat, NEW T, T \subseteq 1..n, T # {} PROVE Min(T) \in T
<1>1. T \subseteq Nat
  OBVIOUS
<1>2. \E x \in T : \A y \in T : x <= y
  BY <1>1, LeastElement, ZenonT(60)
<1> QED
  BY <1>2, Zenon DEF Min

\* tunnel_loop's acknowledgements and the node's replay registry: for every
\* window, batch size, bound and choice of events, whatever is lost, retried,
\* replayed or cancelled on the way, a session that lives and whose batches the
\* registry still knows never answers for an upload it does not have.
THEOREM AckedUploadsKept == Spec => []AckedUploadKept
<1>0. LeastInside
  BY MinInside, Zenon DEF LeastInside
<1>1. Init => NodeTypes /\ UplinkInv /\ AckInv
  BY NodeTypesInit, UplinkInvInit, AckInvInit, ZenonT(60)
<1>2. NodeTypes /\ UplinkInv /\ AckInv /\ [Next]_vars => (NodeTypes /\ UplinkInv /\ AckInv)'
  BY <1>0, NodeTypesNext, UplinkInvNext, AckInvNext, ZenonT(60)
<1>3. NodeTypes /\ AckInv => AckedUploadKept
  <2> SUFFICES ASSUME NodeTypes, AckInv, Known, NEW s \in 1..Len(ops), ops[s] # PollOp
               PROVE  /\ s < next_write_seq => ops[s].wseq < expected
                      /\ s \in DOMAIN pending_writes => Kept(s)
    BY ZenonT(60) DEF AckedUploadKept, Known, Kept
  <2>1. ClientSound /\ next_write_seq \in 1..(fired + 1) /\ fired \in Nat
    <3>1. ClientSound /\ next_write_seq \in 1..(fired + 1)
      BY Zenon DEF AckInv, KnownInv, OpsPlaced
    <3> QED
      BY SMTT(60), <3>1 DEF NodeTypes
  <2>2. s < next_write_seq => s \in 1..(next_write_seq - 1)
    BY <2>1
  <2> QED
    BY <2>1, <2>2, ZenonT(60) DEF ClientSound
<1> QED
  BY <1>1, <1>2, <1>3, PTL DEF Spec

=============================================================================
