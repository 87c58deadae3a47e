-------------------------- MODULE FullTunnelProofs --------------------------
(***************************************************************************)
(* Proofs about FullTunnel: the uplink.  UplinkInOrder is not inductive:   *)
(* it needs that the ops carry the chunk their wseq numbers, that          *)
(* pending_writes holds them under that number, where the node's expected  *)
(* wseq stands against the last chunk written, and that a handler stays    *)
(* inside its batch.  What AckProofs needs of the ops and batches follows: *)
(* the uploads are numbered in the order of their ops, the batches take    *)
(* the ops in order, and every body has one response per op.               *)
(***************************************************************************)
EXTENDS FullTunnel, TLAPS

(* Facts about sequences.                                                  *)

\* The elements of a sequence.
LEMMA ElementOfSeq ==
  ASSUME NEW S, NEW seq \in Seq(S), NEW n \in 1..Len(seq) PROVE seq[n] \in S
OBVIOUS

\* The length of a sequence.
LEMMA LenInNat == ASSUME NEW S, NEW seq \in Seq(S) PROVE Len(seq) \in Nat
OBVIOUS

\* A sequence with one element replaced.
LEMMA ExceptSeq ==
  ASSUME NEW S, NEW seq \in Seq(S), NEW i \in 1..Len(seq), NEW e \in S
  PROVE  /\ [seq EXCEPT ![i] = e] \in Seq(S) /\ Len([seq EXCEPT ![i] = e]) = Len(seq)
         /\ \A j \in 1..Len(seq) : [seq EXCEPT ![i] = e][j] = IF j = i THEN e ELSE seq[j]
<1>1. DOMAIN seq = 1..Len(seq) /\ Len(seq) \in Nat
  OBVIOUS
<1>2. seq \in [1..Len(seq) -> S]
  BY <1>1
<1>3. [seq EXCEPT ![i] = e] \in [1..Len(seq) -> S]
  BY <1>2, Zenon
<1>4. \A n \in Nat : \A f \in [1..n -> S] : f \in Seq(S) /\ Len(f) = n
  OBVIOUS
<1> QED
  BY <1>1, <1>2, <1>3, <1>4, Zenon

\* Two sequences, one behind the other.
LEMMA ConcatProperties ==
  ASSUME NEW S, NEW s1 \in Seq(S), NEW s2 \in Seq(S)
  PROVE  /\ s1 \o s2 \in Seq(S) /\ Len(s1 \o s2) = Len(s1) + Len(s2)
         /\ \A i \in 1..(Len(s1) + Len(s2)) :
              (s1 \o s2)[i] = IF i <= Len(s1) THEN s1[i] ELSE s2[i - Len(s1)]
OBVIOUS

\* A part of a sequence.
LEMMA SubSeqProperties ==
  ASSUME NEW S, NEW s, NEW m \in Int, NEW n \in Int, \A i \in m..n : s[i] \in S
  PROVE  /\ SubSeq(s, m, n) \in Seq(S)
         /\ Len(SubSeq(s, m, n)) = IF m <= n THEN n - m + 1 ELSE 0
         /\ \A i \in 1..(n - m + 1) : SubSeq(s, m, n)[i] = s[m + i - 1]
OBVIOUS

\* A sequence with one element more.
LEMMA AppendProperties ==
  ASSUME NEW S, NEW seq \in Seq(S), NEW elt \in S
  PROVE  /\ Append(seq, elt) \in Seq(S) /\ Append(seq, elt) # <<>>
         /\ Len(Append(seq, elt)) = Len(seq) + 1
         /\ \A i \in 1..Len(seq) : Append(seq, elt)[i] = seq[i]
         /\ Append(seq, elt)[Len(seq) + 1] = elt
OBVIOUS

-----------------------------------------------------------------------------
(* The types the argument needs.                                           *)

Responses == [d : Seq(Int), eof : BOOLEAN, err : {"none", "node", "batch"}]
HandlerType == [st : {"idle", "net", "wait", "exec", "drain", "resp", "gone"},
                drains : SUBSET Int, out : Seq(Responses), budget : Nat]
BatchType == [lo : Nat \ {0}, hi : Nat, close : BOOLEAN, att : 1..2, open : BOOLEAN]
EntryType == [st : {"absent", "pending", "ready"}, body : Seq(Responses), forgot : BOOLEAN]

\* The types the argument needs.
NodeTypes ==
  /\ ops \in Seq([wseq : Int, chunk : Int])
  /\ batches \in Seq(BatchType)
  /\ fired \in Nat /\ fired <= Len(ops)
  /\ \A b \in 1..Len(batches) :
       batches[b].hi <= fired /\ batches[b].lo <= batches[b].hi + 1
  /\ handlers \in Seq([1..2 -> HandlerType]) /\ Len(handlers) = Len(batches)
  /\ registry \in Seq(EntryType) /\ Len(registry) = Len(batches)
  /\ read_buf \in Seq(Int) /\ down_read \in Nat
  /\ next_data_write_seq \in Nat /\ up_read \in Nat

-----------------------------------------------------------------------------

\* The records the node's handlers and its registry are made of.
LEMMA ConstantsTyped ==
  /\ EmptyDrain \in Responses /\ EofResponse \in Responses /\ BatchErr \in Responses
  /\ Response(<<>>, FALSE, "node") \in Responses
  /\ Idle \in HandlerType /\ Sent \in HandlerType /\ Gone \in HandlerType
  /\ [Idle EXCEPT !.st = "wait"] \in HandlerType
  /\ [Idle EXCEPT !.st = "exec"] \in HandlerType
  /\ \A f \in BOOLEAN : [Absent EXCEPT !.forgot = f] \in EntryType
  /\ Absent \in EntryType
<1>1. \A S : <<>> \in Seq(S)
  OBVIOUS
<1>2. /\ EmptyDrain \in Responses /\ EofResponse \in Responses /\ BatchErr \in Responses
      /\ Response(<<>>, FALSE, "node") \in Responses
  BY <1>1, Zenon DEF EmptyDrain, EofResponse, BatchErr, Response, Responses
<1>3. Idle \in HandlerType
  BY <1>1, FullTunnelAssumption, Zenon DEF FullTunnelAssumption, Idle, HandlerType
<1>4. /\ Sent \in HandlerType /\ Gone \in HandlerType
      /\ [Idle EXCEPT !.st = "wait"] \in HandlerType
      /\ [Idle EXCEPT !.st = "exec"] \in HandlerType
  BY <1>3, Zenon DEF Sent, Gone, HandlerType
<1>5. Absent \in EntryType /\ \A f \in BOOLEAN : [Absent EXCEPT !.forgot = f] \in EntryType
  BY <1>1, Zenon DEF Absent, EntryType
<1> QED
  BY <1>2, <1>3, <1>4, <1>5, Zenon

\* A function on 1..n is a sequence.
LEMMA FunctionIsSeq == ASSUME NEW S, NEW n \in Nat, NEW f \in [1..n -> S] PROVE f \in Seq(S)
OBVIOUS

\* The types hold initially.
LEMMA NodeTypesInit == Init => NodeTypes
<1> SUFFICES ASSUME Init PROVE NodeTypes
  BY Zenon
<1>1. ops \in Seq([wseq : Int, chunk : Int])
  <2> DEFINE Op == [wseq : Int, chunk : Int]
  <2>1. DataOp(0, 0) \in Op /\ PollOp \in Op
    BY DEF DataOp, PollOp, Poll
  <2>2. \A x, y \in Op : <<x>> \in Seq(Op) /\ <<x, y>> \in Seq(Op)
    OBVIOUS
  <2>3. ops \in {<<PollOp>>, <<DataOp(0, 0), PollOp>>, <<DataOp(0, 0)>>}
    BY Zenon DEF Init
  <2> QED
    BY <2>1, <2>2, <2>3, Zenon
<1>2. \A S : <<>> \in Seq(S)
  OBVIOUS
<1>3. /\ batches = <<>> /\ handlers = <<>> /\ registry = <<>> /\ read_buf = <<>> /\ fired = 0
      /\ down_read = 0 /\ up_read \in {0, 1} /\ next_data_write_seq = up_read
  BY Zenon DEF Init
<1>4. Len(ops) \in Nat
  BY <1>1
<1> QED
  BY <1>1, <1>2, <1>3, <1>4 DEF NodeTypes

\* A handler is replaced by a handler.
LEMMA SetHandlerTyped ==
  ASSUME NodeTypes, NEW b \in DOMAIN batches, NEW a \in 1..2, NEW h \in HandlerType,
         SetHandler(b, a, h)
  PROVE  handlers' \in Seq([1..2 -> HandlerType]) /\ Len(handlers') = Len(handlers)
<1>1. b \in 1..Len(handlers)
  BY DEF NodeTypes
<1>2. [handlers[b] EXCEPT ![a] = h] \in [1..2 -> HandlerType]
  BY <1>1 DEF NodeTypes
<1>3. handlers' = [handlers EXCEPT ![b] = [handlers[b] EXCEPT ![a] = h]]
  BY Zenon DEF SetHandler
<1> QED
  BY SMTT(60), <1>1, <1>2, <1>3, ExceptSeq DEF NodeTypes

\* A response is typed when its body is.
LEMMA RespondTyped ==
  ASSUME NodeTypes, NEW b \in DOMAIN batches, NEW a \in 1..2, NEW body \in Seq(Responses),
         Respond(b, a, body)
  PROVE  handlers' \in Seq([1..2 -> HandlerType]) /\ Len(handlers') = Len(handlers)
<1>1. [Idle EXCEPT !.st = "resp", !.out = body] \in HandlerType
  BY ConstantsTyped, Zenon DEF HandlerType
<1>2. CASE batches[b].open /\ batches[b].att = a
  <2>1. SetHandler(b, a, [Idle EXCEPT !.st = "resp", !.out = body])
    BY <1>2, Zenon DEF Respond
  <2> QED
    BY <1>1, <2>1, SetHandlerTyped, Zenon
<1>3. CASE ~(batches[b].open /\ batches[b].att = a)
  <2>1. SetHandler(b, a, Gone)
    BY <1>3, Zenon DEF Respond
  <2> QED
    BY <2>1, ConstantsTyped, SetHandlerTyped, Zenon
<1> QED
  BY <1>2, <1>3, Zenon

\* Every step of a handler preserves the types of the node.
LEMMA HandlerStepTyped ==
  ASSUME NodeTypes, NEW b \in DOMAIN batches, NEW a \in 1..2, HandlerStep(b, a)
  PROVE  NodeTypes'
<1> DEFINE h == handlers[b][a]
<1>1. b \in 1..Len(batches) /\ b \in 1..Len(handlers) /\ b \in 1..Len(registry)
  BY DEF NodeTypes
<1>2. h \in HandlerType /\ registry[b] \in EntryType /\ batches[b] \in BatchType
  BY <1>1 DEF NodeTypes
<1>3. NumOps(b) \in Nat
  <2>1. batches[b].lo \in Nat /\ batches[b].hi \in Nat
    BY <1>2 DEF BatchType
  <2>2. batches[b].lo <= batches[b].hi + 1
    BY <1>1, Zenon DEF NodeTypes
  <2> QED
    BY <2>1, <2>2 DEF NumOps
<1>4. /\ ops' = ops /\ batches' = batches /\ fired' = fired /\ down_read' = down_read
      /\ next_data_write_seq' = next_data_write_seq /\ up_read' = up_read
  BY Zenon DEF HandlerStep, Claim, WaitDone, WaitGivesUp, ExecUnknown, ExecNoWrite, ExecInOrder,
     ExecAhead, EndPhase1, Drain, Complete, CancelInWrite, Elsewhere, client, network,
     downlink
<1> DEFINE Handlers == handlers' \in Seq([1..2 -> HandlerType]) /\ Len(handlers') = Len(handlers)
           Entries == registry' \in Seq(EntryType) /\ Len(registry') = Len(registry)
<1>5. SUFFICES Handlers /\ Entries /\ read_buf' \in Seq(Int)
  BY <1>4, Zenon DEF NodeTypes
<1>6. ASSUME UNCHANGED <<registry, read_buf>>
      PROVE  Entries /\ read_buf' \in Seq(Int)
  BY <1>6, Zenon DEF NodeTypes
<1>7. registry[b].body \in Seq(Responses)
  BY <1>2, Zenon DEF EntryType
<1>8. ASSUME NEW r \in Responses, Answer(b, a, r) PROVE Handlers
  <2>1. [h EXCEPT !.out = Append(h.out, r)] \in HandlerType
    BY <1>2, AppendProperties, Zenon DEF HandlerType
  <2> QED
    BY <1>8, <2>1, SetHandlerTyped, Zenon DEF Answer
<1>9. ASSUME JoinDrains(b, a) PROVE Handlers
  <2>0. h.out \in Seq(Responses)
    BY <1>2 DEF HandlerType
  <2>1. Append(h.out, EmptyDrain) \in Seq(Responses) /\ Len(h.out) \in Nat
    BY <2>0, ConstantsTyped, AppendProperties, LenInNat, Zenon
  <2>2. [h EXCEPT !.out = Append(h.out, EmptyDrain), !.drains = h.drains \cup {Len(h.out) + 1}]
          \in HandlerType
    <3>1. h.drains \cup {Len(h.out) + 1} \in SUBSET Int
      BY <1>2, <2>1 DEF HandlerType
    <3> QED
      BY <1>2, <2>1, <3>1, Zenon DEF HandlerType
  <2> QED
    BY <1>9, <2>2, SetHandlerTyped, Zenon DEF JoinDrains
<1>a. ASSUME NEW e \in EntryType, registry' \in {registry, [registry EXCEPT ![b] = e]}
      PROVE  Entries
  <2>1. registry \in Seq(EntryType)
    BY Zenon DEF NodeTypes
  <2>2. [registry EXCEPT ![b] = e] \in Seq(EntryType)
        /\ Len([registry EXCEPT ![b] = e]) = Len(registry)
    BY <1>1, <2>1, ExceptSeq
  <2> QED
    BY <1>a, <2>1, <2>2, Zenon
<1>10. CASE Claim(b, a)
  <2>1. read_buf' \in Seq(Int)
    BY <1>10, Zenon DEF Claim, downlink, NodeTypes
  <2>2. CASE ReplaySafe(b) /\ Registered(b)
    <3>1. Entries
      BY <1>10, <2>2, Zenon DEF Claim, NodeTypes
    <3>2. Handlers
      BY <1>10, <2>2, <1>7, ConstantsTyped, SetHandlerTyped, RespondTyped, Zenon DEF Claim
    <3> QED
      BY <2>1, <3>1, <3>2, Zenon
  <2>3. CASE ~(ReplaySafe(b) /\ Registered(b))
    <3>1. Handlers
      BY <1>10, <2>3, ConstantsTyped, SetHandlerTyped, Zenon DEF Claim
    <3>2. [registry[b] EXCEPT !.st = "pending"] \in EntryType
      BY <1>2, Zenon DEF EntryType
    <3>3. registry' \in {registry, [registry EXCEPT ![b] = [registry[b] EXCEPT !.st = "pending"]]}
      BY <1>10, <2>3, Zenon DEF Claim
    <3>4. Entries
      BY <1>a, <3>2, <3>3, Zenon
    <3> QED
      BY <2>1, <3>1, <3>4, Zenon
  <2> QED
    BY <2>2, <2>3, Zenon
<1>11. CASE WaitDone(b, a)
  BY <1>11, <1>6, <1>7, RespondTyped, Zenon DEF WaitDone, downlink
<1>12. CASE WaitGivesUp(b, a)
  <2> DEFINE body == [k \in 1..NumOps(b) |->
                        IF k = 1 THEN Response(<<>>, FALSE, "node") ELSE BatchErr]
  <2>1. body \in [1..NumOps(b) -> Responses]
    BY ConstantsTyped, Zenon
  <2>2. body \in Seq(Responses)
    BY <1>3, <2>1, FunctionIsSeq, Zenon
  <2>3. Respond(b, a, body)
    BY <1>12, Zenon DEF WaitGivesUp
  <2> QED
    BY <1>12, <1>6, <2>2, <2>3, RespondTyped, Zenon DEF WaitGivesUp, downlink
<1>13. CASE ExecUnknown(b, a)
  BY <1>13, <1>6, <1>8, ConstantsTyped, Zenon DEF ExecUnknown, downlink
<1>14. CASE ExecNoWrite(b, a)
  BY <1>14, <1>6, <1>9, Zenon DEF ExecNoWrite, downlink
<1>15. CASE ExecInOrder(b, a)
  BY <1>15, <1>6, <1>9, Zenon DEF ExecInOrder, downlink
<1>16. CASE ExecAhead(b, a)
  BY <1>16, <1>6, <1>8, <1>9, ConstantsTyped, Zenon DEF ExecAhead, downlink
<1>17. CASE EndPhase1(b, a)
  <2>1. [h EXCEPT !.st = "drain"] \in HandlerType
    BY <1>2, Zenon DEF HandlerType
  <2> QED
    BY <1>17, <1>6, <2>1, SetHandlerTyped, Zenon DEF EndPhase1, downlink
<1>19. CASE Complete(b, a)
  <2>1. h.out \in Seq(Responses)
    BY <1>2, Zenon DEF HandlerType
  <2>2. Handlers /\ read_buf' \in Seq(Int)
    BY <1>19, <2>1, RespondTyped, Zenon DEF Complete, downlink, NodeTypes
  <2>3. [registry[b] EXCEPT !.st = "ready", !.body = h.out] \in EntryType
    BY <1>2, <2>1, Zenon DEF EntryType
  <2>4. registry' \in {registry, [registry EXCEPT ![b] =
                                   [registry[b] EXCEPT !.st = "ready", !.body = h.out]]}
    BY <1>19, Zenon DEF Complete
  <2>5. Entries
    BY <1>a, <2>3, <2>4, Zenon
  <2> QED
    BY <2>2, <2>5, Zenon
<1>20. CASE CancelInWrite(b, a)
  BY <1>20, <1>6, ConstantsTyped, SetHandlerTyped, Zenon DEF CancelInWrite, downlink
<1>18. CASE Drain(b, a)
  <2> DEFINE cap == Lesser(DrainMax, h.budget)
             n == Lesser(Len(read_buf), cap)
             ends == DrainEof(cap) /\ h.budget > 0
             p == Min(h.drains)
             head == SubSeq(read_buf, 1, n)
  <2>1. h.budget \in Nat /\ DrainMax \in Nat /\ read_buf \in Seq(Int) /\ Len(read_buf) \in Nat
    <3>1. h.budget \in Nat
      BY <1>2, Zenon DEF HandlerType
    <3>2. DrainMax \in Nat
      BY FullTunnelAssumption, Zenon DEF FullTunnelAssumption
    <3>3. read_buf \in Seq(Int)
      BY Zenon DEF NodeTypes
    <3> QED
      BY <3>1, <3>2, <3>3
  <2>2. n \in Nat /\ n <= Len(read_buf) /\ n <= h.budget
    BY <2>1 DEF Lesser
  <2>3. head \in Seq(Int) /\ SubSeq(read_buf, n + 1, Len(read_buf)) \in Seq(Int)
    BY SMTT(60), <2>1, <2>2, SubSeqProperties
  <2> HIDE DEF n, p, head, ends
  <2> DEFINE drained == Response(h.out[p].d \o head, ends, "none")
             out == [h.out EXCEPT ![p] = drained]
  <2>4. PICK done \in BOOLEAN :
          SetHandler(b, a, [h EXCEPT !.out = out, !.budget = h.budget - n,
                                     !.drains = IF done THEN h.drains \ {p} ELSE h.drains])
    BY <1>18, Zenon DEF Drain, n, p, head, ends
  <2>5. ends \in BOOLEAN
    BY Zenon DEF ends
  <2>6. out \in Seq(Responses)
    <3>1. h.out \in Seq(Responses)
      BY <1>2, Zenon DEF HandlerType
    <3>2. CASE p \in 1..Len(h.out)
      <4>1. h.out[p] \in Responses
        BY SMTT(60), <3>1, <3>2
      <4>2. h.out[p].d \o head \in Seq(Int)
        BY <4>1, <2>3 DEF Responses
      <4>3. drained \in Responses
        BY <4>2, <2>5, Zenon DEF Response, Responses
      <4> HIDE DEF drained
      <4> QED
        BY <3>1, <3>2, <4>3, ExceptSeq, Zenon
    <3>3. CASE p \notin 1..Len(h.out)
      <4> HIDE DEF drained
      <4>1. DOMAIN h.out = 1..Len(h.out) /\ h.out = [k \in 1..Len(h.out) |-> h.out[k]]
        BY <3>1
      <4>2. out = h.out
        BY <4>1, <3>3, Zenon
      <4> QED
        BY <3>1, <4>2, Zenon
    <3> QED
      BY <3>2, <3>3, Zenon
  <2> HIDE DEF out
  <2>7. [h EXCEPT !.out = out, !.budget = h.budget - n,
                  !.drains = IF done THEN h.drains \ {p} ELSE h.drains] \in HandlerType
    <3>1. h.budget - n \in Nat
      BY <2>1, <2>2
    <3>2. (IF done THEN h.drains \ {p} ELSE h.drains) \in SUBSET Int
      BY <1>2, Zenon DEF HandlerType
    <3> QED
      BY <1>2, <2>6, <3>1, <3>2, Zenon DEF HandlerType
  <2>8. Handlers
    BY <2>4, <2>7, SetHandlerTyped, Zenon
  <2>9. Entries /\ read_buf' \in Seq(Int)
    BY <1>18, <2>3, <1>a, Zenon DEF Drain, BufTail, NodeTypes, n
  <2> QED
    BY <2>8, <2>9, Zenon
<1> QED
  BY <1>10, <1>11, <1>12, <1>13, <1>14, <1>15, <1>16, <1>17, <1>18, <1>19, <1>20, Zenon DEF HandlerStep

\* fire_batch closes a batch or moves it to its second attempt.
LEMMA BatchUpdate ==
  ASSUME NEW r \in BatchType
  PROVE  /\ [r EXCEPT !.open = FALSE] \in BatchType /\ [r EXCEPT !.att = 2] \in BatchType
         /\ [r EXCEPT !.open = FALSE].lo = r.lo /\ [r EXCEPT !.open = FALSE].hi = r.hi
         /\ [r EXCEPT !.att = 2].lo = r.lo /\ [r EXCEPT !.att = 2].hi = r.hi
<1>1. [r EXCEPT !.open = FALSE] \in BatchType
  BY Zenon DEF BatchType
<1>2. [r EXCEPT !.att = 2] \in BatchType
  BY DEF BatchType
<1>3. [r EXCEPT !.open = FALSE].lo = r.lo /\ [r EXCEPT !.open = FALSE].hi = r.hi
  BY Zenon DEF BatchType
<1>4. [r EXCEPT !.att = 2].lo = r.lo /\ [r EXCEPT !.att = 2].hi = r.hi
  BY Zenon DEF BatchType
<1> QED
  BY <1>1, <1>2, <1>3, <1>4, Zenon

\* The variables the types speak of.
typed == <<ops, batches, fired, handlers, registry, read_buf, down_read,
           next_data_write_seq, up_read>>

\* Every step preserves the types.
LEMMA NodeTypesNext == NodeTypes /\ [Next]_vars => NodeTypes'
<1> SUFFICES ASSUME NodeTypes, [Next]_vars PROVE NodeTypes'
  BY Zenon
<1> DEFINE Op == [wseq : Int, chunk : Int]
<1>1. ASSUME UNCHANGED typed PROVE NodeTypes'
  BY <1>1, Zenon DEF typed, NodeTypes
<1>2. ASSUME NEW op \in Op, SendOp(op), UNCHANGED <<network, node>>,
             next_data_write_seq' \in Nat, up_read' \in Nat
      PROVE  NodeTypes'
  <2>1. ops \in Seq(Op) /\ ops' = Append(ops, op)
    BY <1>2, Zenon DEF NodeTypes, SendOp
  <2>2. ops' \in Seq(Op) /\ Len(ops') = Len(ops) + 1
    BY <2>1, AppendProperties, Zenon
  <2> QED
    BY <1>2, <2>1, <2>2 DEF NodeTypes, network, node, downlink
<1>3. CASE ClientStep
  <2>1. CASE SendPoll
    <3>1. PollOp \in Op
      BY DEF PollOp, DataOp, Poll
    <3> QED
      BY <2>1, <3>1, <1>2, Zenon DEF SendPoll, NodeTypes
  <2>2. CASE ReadClient
    <3>1. DataOp(next_data_write_seq, up_read) \in Op
      BY DEF DataOp, NodeTypes
    <3>2. next_data_write_seq' \in Nat /\ up_read' \in Nat
      BY <2>2 DEF ReadClient, NodeTypes
    <3> QED
      BY <2>2, <3>1, <3>2, <1>2, Zenon DEF ReadClient
  <2>3. CASE ReadClientEof \/ LoopDone \/ GraceOver
    BY <2>3, <1>1, Zenon DEF ReadClientEof, LoopDone, GraceOver, EndLoop, network, node, downlink, typed
  <2>4. ASSUME NEW s \in inflight,
               HandleReply(s) \/ HandleError(s) \/ LocalWriteFails(s) \/ GraceReply(s)
        PROVE  NodeTypes'
    BY <2>4, <1>1, Zenon DEF HandleReply, HandleError, LocalWriteFails, GraceReply, TakeReply, EndLoop,
       network, node, downlink, typed
  <2> QED
    BY <1>3, <2>1, <2>2, <2>3, <2>4, Zenon DEF ClientStep
<1>4. CASE FireBatch
  <2>1. PICK hi \in fired..Len(ops), close \in BOOLEAN :
          /\ fired' = hi
          /\ batches' = Append(batches, [lo |-> fired + 1, hi |-> hi, close |-> close,
                                         att |-> 1, open |-> TRUE])
          /\ handlers' = Append(handlers, <<Sent, Idle>>)
          /\ registry' = Append(registry, Absent)
          /\ UNCHANGED <<client, session, uplink, downlink, restarts, abandoned>>
    BY <1>4, Zenon DEF FireBatch
  <2> DEFINE new == [lo |-> fired + 1, hi |-> hi, close |-> close, att |-> 1, open |-> TRUE]
  <2>2. fired \in Nat /\ hi \in Nat /\ fired <= hi /\ hi <= Len(ops)
    BY <2>1 DEF NodeTypes
  <2>3. new \in BatchType /\ new.hi = hi /\ new.lo = fired + 1
    BY <2>2 DEF BatchType
  <2> HIDE DEF new
  <2>4. batches \in Seq(BatchType) /\ batches' = Append(batches, new)
    BY <2>1, Zenon DEF NodeTypes, new
  <2>5. /\ batches' \in Seq(BatchType) /\ Len(batches') = Len(batches) + 1
        /\ \A b \in 1..Len(batches) : batches'[b] = batches[b]
        /\ batches'[Len(batches) + 1] = new
    BY <2>3, <2>4, AppendProperties
  <2> DEFINE pair == <<Sent, Idle>>
             pairs == [1..2 -> HandlerType]
  <2>6. pair \in pairs
    BY ConstantsTyped
  <2>61. handlers \in Seq(pairs) /\ handlers' = Append(handlers, pair)
    BY <2>1, Zenon DEF NodeTypes
  <2> HIDE DEF pair, pairs
  <2>62. handlers' \in Seq(pairs) /\ Len(handlers') = Len(handlers) + 1
    BY <2>6, <2>61, AppendProperties, Zenon
  <2>7. handlers' \in Seq([1..2 -> HandlerType]) /\ Len(handlers') = Len(handlers) + 1
    BY <2>62, Zenon DEF pairs
  <2>8. registry' \in Seq(EntryType) /\ Len(registry') = Len(registry) + 1
    BY <2>1, ConstantsTyped, AppendProperties, Zenon DEF NodeTypes
  <2>9. \A b \in 1..Len(batches') : batches'[b].hi <= hi /\ batches'[b].lo <= batches'[b].hi + 1
    <3> SUFFICES ASSUME NEW b \in 1..Len(batches')
                 PROVE  batches'[b].hi <= hi /\ batches'[b].lo <= batches'[b].hi + 1
      BY Zenon
    <3>1. CASE b \in 1..Len(batches)
      <4>1. batches[b] \in BatchType
        BY <2>4, <3>1
      <4>2. batches[b].hi \in Nat
        BY <4>1, Zenon DEF BatchType
      <4>3. batches[b].hi <= fired /\ batches[b].lo <= batches[b].hi + 1
        BY <3>1, Zenon DEF NodeTypes
      <4>4. batches'[b] = batches[b]
        BY <2>5, <3>1, Zenon
      <4> QED
        BY <2>2, <4>2, <4>3, <4>4
    <3>2. CASE b = Len(batches) + 1
      BY <2>2, <2>3, <2>5, <3>2
    <3> QED
      BY <2>4, <2>5, <3>1, <3>2
  <2> QED
    BY <2>1, <2>2, <2>5, <2>7, <2>8, <2>9, Zenon DEF NodeTypes, client, downlink
<1>5. ASSUME NEW b \in DOMAIN batches, ReceiveResponse(b) \/ RetryBatch(b) \/ FailBatch(b)
      PROVE  NodeTypes'
  <2>1. b \in 1..Len(batches) /\ b \in 1..Len(handlers) /\ Len(batches) \in Nat
    BY DEF NodeTypes
  <2>2. /\ handlers[b] \in [1..2 -> HandlerType] /\ batches[b] \in BatchType
        /\ batches \in Seq(BatchType) /\ handlers \in Seq([1..2 -> HandlerType])
    BY <2>1 DEF NodeTypes
  <2>3. \A a \in 1..2 : Unread(b, a) \in HandlerType
    BY <2>2, ConstantsTyped, Zenon DEF Unread
  <2>4. \E f \in [1..2 -> HandlerType] : handlers' = [handlers EXCEPT ![b] = f]
    <3>1. CASE ReceiveResponse(b)
      <4>1. batches[b].att \in 1..2
        BY <2>2, Zenon DEF BatchType
      <4>2. [handlers[b] EXCEPT ![batches[b].att] = Gone] \in [1..2 -> HandlerType]
        BY <2>2, <4>1, ConstantsTyped, Zenon
      <4> QED
        BY <3>1, <4>2, Zenon DEF ReceiveResponse
    <3>2. CASE RetryBatch(b)
      <4>1. <<Unread(b, 1), Sent>> \in [1..2 -> HandlerType]
        BY <2>3, ConstantsTyped
      <4> QED
        BY <3>2, <4>1, Zenon DEF RetryBatch
    <3>3. CASE FailBatch(b)
      <4>1. [a \in 1..2 |-> Unread(b, a)] \in [1..2 -> HandlerType]
        BY <2>3, Zenon
      <4> QED
        BY <3>3, <4>1, Zenon DEF FailBatch
    <3> QED
      BY <1>5, <3>1, <3>2, <3>3, Zenon
  <2>5. handlers' \in Seq([1..2 -> HandlerType]) /\ Len(handlers') = Len(handlers)
    BY <2>1, <2>2, <2>4, ExceptSeq
  <2>6. \E r \in BatchType : /\ batches' = [batches EXCEPT ![b] = r]
                             /\ r.lo = batches[b].lo /\ r.hi = batches[b].hi
    <3>1. \/ batches' = [batches EXCEPT ![b] = [batches[b] EXCEPT !.open = FALSE]]
          \/ batches' = [batches EXCEPT ![b] = [batches[b] EXCEPT !.att = 2]]
      BY <1>5, Zenon DEF ReceiveResponse, RetryBatch, FailBatch, Reply
    <3> QED
      BY <2>2, <3>1, BatchUpdate, Zenon
  <2>7. /\ batches' \in Seq(BatchType) /\ Len(batches') = Len(batches)
        /\ \A c \in 1..Len(batches) : batches'[c].lo = batches[c].lo /\ batches'[c].hi = batches[c].hi
    BY <2>1, <2>2, <2>6, ExceptSeq
  <2>8. UNCHANGED <<ops, fired, registry, downlink, next_data_write_seq, up_read>>
    BY <1>5, Zenon DEF ReceiveResponse, RetryBatch, FailBatch, Reply, client
  <2> QED
    BY <2>5, <2>7, <2>8, Zenon DEF NodeTypes, downlink
<1>6. CASE SessionStep
  <2>1. CASE ReadUpstream
    <3>1. read_buf \in Seq(Int) /\ down_read + 1 \in Nat
      BY DEF NodeTypes
    <3>2. read_buf' \in Seq(Int) /\ down_read' \in Nat
      BY <2>1, <3>1, AppendProperties DEF ReadUpstream
    <3> QED
      BY <2>1, <3>2, Zenon DEF ReadUpstream, Elsewhere, client, network, NodeTypes
  <2>2. CASE ReadUpstreamEof \/ Reap
    BY <2>2, <1>1, Zenon DEF ReadUpstreamEof, Reap, Elsewhere, client, network, downlink, typed
  <2>3. CASE Restart
    <3>1. /\ Len(batches) \in Nat
          /\ DOMAIN handlers = 1..Len(batches) /\ DOMAIN registry = 1..Len(batches)
      BY DEF NodeTypes
    <3>a. \A b \in DOMAIN registry : registry[b].forgot \in BOOLEAN
      <4>1. \A b \in DOMAIN registry : registry[b] \in EntryType
        BY <3>1 DEF NodeTypes
      <4> QED
        BY <4>1, Zenon DEF EntryType
    <3>2. registry' \in [1..Len(batches) -> EntryType]
      BY <2>3, <3>1, <3>a, ConstantsTyped, Zenon DEF Restart
    <3>3. handlers' \in [1..Len(batches) -> [1..2 -> HandlerType]]
      BY <2>3, <3>1, ConstantsTyped DEF Restart, NodeTypes
    <3>4. registry' \in Seq(EntryType) /\ Len(registry') = Len(batches)
      BY <3>1, <3>2
    <3>5. handlers' \in Seq([1..2 -> HandlerType]) /\ Len(handlers') = Len(batches)
      BY <3>1, <3>3
    <3>6. read_buf' \in Seq(Int)
      BY <2>3 DEF Restart
    <3> QED
      BY <2>3, <3>4, <3>5, <3>6, Zenon DEF Restart, client, network, NodeTypes
  <2>4. ASSUME NEW b \in DOMAIN batches, Forget(b) PROVE NodeTypes'
    <3>1. b \in 1..Len(registry) /\ registry \in Seq(EntryType)
      BY DEF NodeTypes
    <3>a. [Absent EXCEPT !.forgot = TRUE] \in EntryType
      BY ConstantsTyped, Zenon
    <3>b. registry' = [registry EXCEPT ![b] = [Absent EXCEPT !.forgot = TRUE]]
      BY <2>4, Zenon DEF Forget
    <3>2. registry' \in Seq(EntryType) /\ Len(registry') = Len(registry)
      BY <3>a, <3>b, <3>1, ExceptSeq
    <3> QED
      BY <2>4, <3>2, Zenon DEF Forget, Elsewhere, client, network, downlink, NodeTypes
  <2> QED
    BY <1>6, <2>1, <2>2, <2>3, <2>4, Zenon DEF SessionStep
<1>7. CASE UNCHANGED vars
  BY <1>7, <1>1, Zenon DEF vars, client, network, node, downlink, typed
<1> QED
  BY <1>3, <1>4, <1>5, <1>6, <1>7, HandlerStepTyped, Zenon DEF Next, BatchStep

-----------------------------------------------------------------------------

\* What the node's expected wseq says about the last chunk written.
Frontier ==
  \/ written = <<>> /\ expected = 0
  \/ written # <<>> /\ written[Len(written)] = expected - 1
  \/ written # <<>> /\ written[Len(written)] = expected /\ expected \in cut

\* The inductive strengthening of UplinkInOrder.
UplinkInv ==
  /\ next_data_write_seq = up_read
  /\ \A s \in 1..Len(ops) : ops[s].chunk = ops[s].wseq
  /\ expected \in Nat
  /\ \A k \in DOMAIN pending : k \in Int /\ pending[k] = k
  /\ written \in Seq(Int)
  /\ Frontier
  /\ UplinkInOrder

\* The uplink invariant holds initially.
LEMMA UplinkInvInit == Init => UplinkInv
<1> SUFFICES ASSUME Init PROVE UplinkInv
  BY Zenon
<1>1. \A s \in 1..Len(ops) : ops[s].chunk = ops[s].wseq
  <2>1. DataOp(0, 0).chunk = DataOp(0, 0).wseq /\ PollOp.chunk = PollOp.wseq
    BY Zenon DEF DataOp, PollOp, Poll
  <2>2. ops \in {<<PollOp>>, <<DataOp(0, 0), PollOp>>, <<DataOp(0, 0)>>}
    BY Zenon DEF Init
  <2> QED
    BY <2>1, <2>2
<1>2. written = <<>> /\ expected = 0 /\ pending = Empty /\ next_data_write_seq = up_read
  BY Zenon DEF Init
<1> QED
  BY <1>1, <1>2 DEF UplinkInv, Frontier, UplinkInOrder, Empty

\* The heart of the argument: a write that starts at the expected wseq and runs
\* on through pending_writes continues the stream, interrupted or not.
LEMMA WriteContinues ==
  ASSUME UplinkInv, NEW op, op.wseq = expected, op.chunk = expected,
         NEW next \in Int, expected < next, NEW interrupted \in BOOLEAN,
         WriteUploads(op, next, interrupted)
  PROVE  /\ expected' \in Nat
         /\ \A k \in DOMAIN pending' : k \in Int /\ pending'[k] = k
         /\ written' \in Seq(Int) /\ Frontier' /\ UplinkInOrder'
<1> DEFINE n == next - expected
           new == [k \in 1..n |-> IF expected + k - 1 = expected THEN op.chunk
                                  ELSE pending[expected + k - 1]]
           L == Len(written)
<1>1. expected \in Nat /\ n \in Nat /\ n >= 1 /\ written \in Seq(Int) /\ L \in Nat
  BY DEF UplinkInv
<1>2. \A k \in 1..n : new[k] = expected + k - 1
  <2> SUFFICES ASSUME NEW k \in 1..n PROVE new[k] = expected + k - 1
    BY Zenon
  <2>1. CASE k = 1
    BY <1>1, <2>1
  <2>2. CASE k # 1
    <3>1. expected + k - 1 \in (expected + 1)..(next - 1)
      BY <1>1, <2>2
    <3>2. expected + k - 1 \in DOMAIN pending
      BY <3>1, Zenon DEF WriteUploads
    <3> QED
      BY <1>1, <2>2, <3>2, Zenon DEF UplinkInv
  <2> QED
    BY <2>1, <2>2, Zenon
<1>3. written' = written \o new
  BY Zenon DEF WriteUploads
<1>4. new \in Seq(Int) /\ Len(new) = n
  <2>1. DOMAIN new = 1..n /\ new = [k \in 1..n |-> new[k]]
    BY Zenon
  <2> HIDE DEF new, n
  <2>2. \A k \in 1..n : new[k] \in Int
    BY <1>1, <1>2
  <2>3. new \in [1..n -> Int]
    BY <2>1, <2>2, Zenon
  <2> QED
    BY <1>1, <2>3
<1> HIDE DEF new, n
<1>5. /\ written' \in Seq(Int) /\ Len(written') = L + n
      /\ \A k \in 1..L : written'[k] = written[k]
      /\ \A k \in (L + 1)..(L + n) : written'[k] = expected + (k - L) - 1
  <2>1. /\ written' \in Seq(Int) /\ Len(written') = L + n
        /\ \A k \in 1..(L + n) : written'[k] = IF k <= L THEN written[k] ELSE new[k - L]
    BY ZenonT(60), <1>1, <1>3, <1>4, ConcatProperties
  <2> HIDE DEF L
  <2>2. \A k \in 1..L : k \in 1..(L + n) /\ k <= L
    BY <1>1
  <2>3. ASSUME NEW k \in (L + 1)..(L + n) PROVE written'[k] = expected + (k - L) - 1
    <3>1. k - L \in 1..n /\ k \in 1..(L + n) /\ ~(k <= L)
      BY <1>1
    <3> QED
      BY <1>2, <2>1, <3>1, Zenon
  <2> QED
    BY <2>1, <2>2, <2>3, Zenon
<1>6. n = next - expected
  BY Zenon DEF n
<1>7. cut \subseteq cut' /\ (interrupted => next - 1 \in cut')
      /\ expected' = (IF interrupted THEN next - 1 ELSE next)
  BY Zenon DEF WriteUploads
<1>8. expected' \in Nat
  BY <1>1, <1>6, <1>7
<1>9. \A k \in DOMAIN pending' : k \in Int /\ pending'[k] = k
  BY Zenon DEF WriteUploads, PendingWithout, UplinkInv
<1>10. Frontier'
  <2>1. L + n \in (L + 1)..(L + n) /\ expected + ((L + n) - L) - 1 = next - 1
    BY <1>1, <1>6
  <2>2. written'[Len(written')] = next - 1
    BY <1>5, <2>1, Zenon
  <2>3. written' # <<>>
    BY <1>1, <1>5
  <2> QED
    BY <1>1, <1>7, <2>2, <2>3, Zenon DEF Frontier
<1>11. UplinkInOrder'
  <2>1. written' # <<>> => written'[1] = 0
    <3>1. CASE L = 0
      <4>1. expected = 0
        BY <1>1, <3>1 DEF UplinkInv, Frontier
      <4>2. 1 \in (L + 1)..(L + n)
        BY <1>1, <3>1
      <4> QED
        BY <1>1, <1>5, <3>1, <4>1, <4>2
    <3>2. CASE L # 0
      <4>1. 1 \in 1..L /\ written # <<>>
        BY <1>1, <3>2
      <4> QED
        BY <1>5, <4>1, Zenon DEF UplinkInv, UplinkInOrder
    <3> QED
      BY <3>1, <3>2, Zenon
  <2>2. ASSUME NEW k \in 1..(Len(written') - 1)
        PROVE  \/ written'[k + 1] = written'[k] + 1
               \/ written'[k + 1] = written'[k] /\ written'[k] \in cut'
    <3>1. CASE k \in 1..(L - 1)
      <4>1. written'[k] = written[k] /\ written'[k + 1] = written[k + 1]
        BY <1>1, <1>5, <3>1
      <4>2. \/ written[k + 1] = written[k] + 1
            \/ written[k + 1] = written[k] /\ written[k] \in cut
        BY <3>1, Zenon DEF UplinkInv, UplinkInOrder
      <4> QED
        BY <1>7, <4>1, <4>2, Zenon
    <3>2. CASE k = L
      <4>1. L \in 1..L /\ written # <<>>
        BY <1>1, <3>2
      <4>2. L + 1 \in (L + 1)..(L + n) /\ expected + ((L + 1) - L) - 1 = expected
        BY <1>1
      <4>3. written'[k] = written[L] /\ written'[k + 1] = expected
        BY <1>5, <3>2, <4>1, <4>2, Zenon
      <4>4. \/ written[L] = expected - 1
            \/ written[L] = expected /\ expected \in cut
        BY <4>1, Zenon DEF UplinkInv, Frontier
      <4> QED
        BY SMTT(60), <1>1, <1>7, <4>3, <4>4
    <3>3. CASE k > L
      <4>1. k \in (L + 1)..(L + n) /\ k + 1 \in (L + 1)..(L + n)
        BY SMTT(60), <1>1, <1>5, <2>2, <3>3
      <4>2. written'[k] = expected + (k - L) - 1 /\ written'[k + 1] = expected + (k + 1 - L) - 1
        BY <1>5, <4>1
      <4> QED
        BY <1>1, <4>1, <4>2
    <3> QED
      BY <1>1, <1>5, <2>2, <3>1, <3>2, <3>3
  <2> QED
    BY <2>1, <2>2, Zenon DEF UplinkInOrder
<1> QED
  BY <1>5, <1>8, <1>9, <1>10, <1>11, Zenon

\* The op a handler executes is an op of the session and carries the chunk its
\* wseq numbers.
LEMMA CurrentOpNumbered ==
  ASSUME NodeTypes, UplinkInv, NEW b \in DOMAIN batches, NEW a \in 1..2, AtOp(b, a)
  PROVE  CurrentOp(b, a).wseq \in Int /\ CurrentOp(b, a).chunk = CurrentOp(b, a).wseq
<1> DEFINE out == handlers[b][a].out
           s == batches[b].lo + Len(out)
<1>1. b \in 1..Len(batches) /\ b \in 1..Len(handlers)
  BY DEF NodeTypes
<1>2. batches[b] \in BatchType /\ handlers[b][a] \in HandlerType
  BY <1>1 DEF NodeTypes
<1>3. batches[b].lo \in Nat \ {0} /\ batches[b].hi \in Nat /\ Len(out) \in Nat
  BY <1>2 DEF BatchType, HandlerType
<1>4. batches[b].hi <= fired /\ fired \in Nat /\ fired <= Len(ops) /\ Len(ops) \in Nat
  BY <1>1 DEF NodeTypes
<1>5. Len(out) < batches[b].hi - batches[b].lo + 1
  BY Zenon DEF AtOp, NumOps
<1>6. s \in 1..Len(ops)
  <2> DEFINE lo == batches[b].lo
             hi == batches[b].hi
             n == Len(out)
             last == Len(ops)
  <2>1. lo \in Nat \ {0} /\ hi \in Nat /\ n \in Nat /\ last \in Nat
        /\ hi <= last /\ n < hi - lo + 1
    BY <1>3, <1>4, <1>5
  <2> HIDE DEF lo, hi, n, last
  <2>2. lo + n \in 1..last
    BY <2>1
  <2> QED
    BY <2>2, Zenon DEF lo, n, last
<1>7. ops \in Seq([wseq : Int, chunk : Int])
  BY Zenon DEF NodeTypes
<1>8. CurrentOp(b, a) = ops[s]
  BY Zenon DEF CurrentOp
<1> HIDE DEF s
<1>9. ops[s] \in [wseq : Int, chunk : Int]
  BY <1>6, <1>7, ElementOfSeq, Zenon
<1> QED
  BY <1>6, <1>8, <1>9, Zenon DEF UplinkInv

\* Every step preserves the uplink invariant.
LEMMA UplinkInvNext == NodeTypes /\ UplinkInv /\ [Next]_vars => UplinkInv'
<1> SUFFICES ASSUME NodeTypes, UplinkInv, [Next]_vars PROVE UplinkInv'
  BY Zenon
<1>1. ASSUME UNCHANGED <<next_data_write_seq, up_read, ops, uplink>> PROVE UplinkInv'
  BY <1>1, Zenon DEF UplinkInv, Frontier, UplinkInOrder, uplink
<1>2. ASSUME NEW op, SendOp(op), op.chunk = op.wseq, UNCHANGED uplink,
             next_data_write_seq' = up_read'
      PROVE  UplinkInv'
  <2>1. ops \in Seq([wseq : Int, chunk : Int]) /\ ops' = Append(ops, op)
    BY <1>2, Zenon DEF NodeTypes, SendOp
  <2>2. /\ Len(ops) \in Nat /\ Len(ops') = Len(ops) + 1 /\ ops'[Len(ops) + 1] = op
        /\ \A s \in 1..Len(ops) : ops'[s] = ops[s]
    BY <2>1
  <2>3. ASSUME NEW s \in 1..Len(ops') PROVE ops'[s].chunk = ops'[s].wseq
    <3>1. s \in 1..Len(ops) \/ s = Len(ops) + 1
      BY <2>2
    <3> QED
      BY <1>2, <2>2, <3>1, Zenon DEF UplinkInv
  <2> QED
    BY <1>2, <2>3, Zenon DEF UplinkInv, Frontier, UplinkInOrder, uplink
<1>3. CASE ClientStep
  <2>1. CASE SendPoll
    <3>1. PollOp.chunk = PollOp.wseq
      BY Zenon DEF PollOp, DataOp
    <3> QED
      BY <2>1, <3>1, <1>2, Zenon DEF SendPoll, node, UplinkInv
  <2>2. CASE ReadClient
    <3>1. DataOp(next_data_write_seq, up_read).chunk = DataOp(next_data_write_seq, up_read).wseq
      BY Zenon DEF DataOp, UplinkInv
    <3>2. next_data_write_seq' = up_read' /\ UNCHANGED uplink
          /\ SendOp(DataOp(next_data_write_seq, up_read))
      BY <2>2, Zenon DEF ReadClient, node, UplinkInv
    <3> QED
      BY <3>1, <3>2, <1>2, Zenon
  <2>3. CASE ReadClientEof \/ LoopDone \/ GraceOver
    BY <2>3, <1>1, Zenon DEF ReadClientEof, LoopDone, GraceOver, EndLoop, node
  <2>4. ASSUME NEW s \in inflight,
               HandleReply(s) \/ HandleError(s) \/ LocalWriteFails(s) \/ GraceReply(s)
        PROVE  UplinkInv'
    BY <2>4, <1>1, Zenon DEF HandleReply, HandleError, LocalWriteFails, GraceReply, TakeReply, EndLoop, node
  <2> QED
    BY <1>3, <2>1, <2>2, <2>3, <2>4, Zenon DEF ClientStep
<1>4. CASE BatchStep
  BY <1>4, <1>1, Zenon DEF BatchStep, FireBatch, ReceiveResponse, RetryBatch, FailBatch, Reply, client
<1>5. CASE SessionStep
  BY <1>5, <1>1, Zenon DEF SessionStep, ReadUpstream, ReadUpstreamEof, Reap, Restart, Forget, Elsewhere,
     client
<1>6. ASSUME NEW b \in DOMAIN batches, NEW a \in 1..2, HandlerStep(b, a) PROVE UplinkInv'
  <2> DEFINE op == CurrentOp(b, a)
  <2>1. UNCHANGED <<next_data_write_seq, up_read, ops>>
    BY <1>6, Zenon DEF HandlerStep, Claim, WaitDone, WaitGivesUp, ExecUnknown, ExecNoWrite, ExecInOrder,
       ExecAhead, EndPhase1, Drain, Complete, CancelInWrite, Elsewhere, client
  <2>2. CASE ExecInOrder(b, a)
    <3>1. PICK next \in (expected + 1)..(MaxUp + 1) : WriteUploads(op, next, FALSE)
      BY <2>2, Zenon DEF ExecInOrder
    <3>2. op.wseq = expected /\ op.chunk = expected
      BY <2>2, CurrentOpNumbered, Zenon DEF ExecInOrder
    <3>3. next \in Int /\ expected < next
      BY <3>1 DEF UplinkInv
    <3> QED
      BY <2>1, <3>1, <3>2, <3>3, WriteContinues, Zenon DEF UplinkInv
  <2>3. CASE CancelInWrite(b, a)
    <3>1. PICK next \in (expected + 1)..(MaxUp + 1) : WriteUploads(op, next, TRUE)
      BY <2>3, Zenon DEF CancelInWrite
    <3>2. op.wseq = expected /\ op.chunk = expected
      BY <2>3, CurrentOpNumbered, Zenon DEF CancelInWrite
    <3>3. next \in Int /\ expected < next
      BY <3>1 DEF UplinkInv
    <3> QED
      BY <2>1, <3>1, <3>2, <3>3, WriteContinues, Zenon DEF UplinkInv
  <2>4. CASE ExecAhead(b, a)
    <3>1. op.wseq \in Int /\ op.chunk = op.wseq
      BY <2>4, CurrentOpNumbered, Zenon DEF ExecAhead
    <3>2. \A k \in DOMAIN pending' : k \in Int /\ pending'[k] = k
      BY ZenonT(60), <2>4, <3>1 DEF ExecAhead, PendingWith, UplinkInv
    <3> QED
      BY <2>1, <2>4, <3>2, Zenon DEF ExecAhead, UplinkInv, Frontier, UplinkInOrder
  <2>5. CASE ~(ExecInOrder(b, a) \/ CancelInWrite(b, a) \/ ExecAhead(b, a))
    <3>1. UNCHANGED uplink
      BY <1>6, <2>5, Zenon DEF HandlerStep, Claim, WaitDone, WaitGivesUp, ExecUnknown, ExecNoWrite,
         EndPhase1, Drain, Complete
    <3> QED
      BY <2>1, <3>1, <1>1, Zenon
  <2> QED
    BY <2>2, <2>3, <2>4, <2>5, Zenon
<1>7. CASE UNCHANGED vars
  BY <1>7, <1>1, Zenon DEF vars, client, node
<1> QED
  BY <1>3, <1>4, <1>5, <1>6, <1>7, Zenon DEF Next

\* tunnel_loop's wseq numbering and the node's ordering of writes: for every
\* window, batch size, bound and choice of events, the upstream server gets the
\* uploads in order and without a gap.
THEOREM UplinkOrdered == Spec => []UplinkInOrder
<1>1. Init => NodeTypes /\ UplinkInv
  BY NodeTypesInit, UplinkInvInit, Zenon
<1>2. NodeTypes /\ UplinkInv /\ [Next]_vars => (NodeTypes /\ UplinkInv)'
  BY NodeTypesNext, UplinkInvNext, Zenon
<1>3. UplinkInv => UplinkInOrder
  BY Zenon DEF UplinkInv
<1> QED
  BY <1>1, <1>2, <1>3, PTL DEF Spec

-----------------------------------------------------------------------------
(* The ops and the batches that carry them.                                *)


\* Uploads are numbered from 0 in the order of their ops.
OpsNumbered ==
  /\ \A s \in 1..Len(ops) : ops[s] = PollOp \/ ops[s].wseq \in 0..(next_data_write_seq - 1)
  /\ \A w \in 0..(next_data_write_seq - 1) : \E s \in 1..Len(ops) : ops[s].wseq = w
  /\ \A s, t \in 1..Len(ops) : s < t /\ ops[t] # PollOp => ops[s].wseq < ops[t].wseq

\* Batches take the ops in order; only ops in a batch have replies; a batch that
\* cannot be replayed has one attempt; a body has one response per op.
OpsPlaced ==
  /\ \A b, c \in 1..Len(batches) : b < c => batches[b].hi < batches[c].lo
  /\ DOMAIN replies \subseteq 1..fired /\ DOMAIN pending_writes \subseteq 1..fired
  /\ next_write_seq \in 1..(fired + 1)
  /\ \A b \in 1..Len(batches) :
       /\ batches[b].att = 1 => handlers[b][2].st = "idle"
       /\ batches[b].close => batches[b].att = 1
       /\ registry[b].st = "ready" => Len(registry[b].body) = NumOps(b)
       /\ \A a \in 1..2 :
            /\ handlers[b][a].st \in {"drain", "resp"} => Len(handlers[b][a].out) = NumOps(b)
            /\ handlers[b][a].st = "exec" => Len(handlers[b][a].out) <= NumOps(b)

-----------------------------------------------------------------------------
\* The numbering of the uploads, kept by every op that is sent.
LEMMA OpsNumberedInit == Init => OpsNumbered
<1> SUFFICES ASSUME Init PROVE OpsNumbered
  BY Zenon
<1>1. \/ ops = <<PollOp>> /\ next_data_write_seq = 0
      \/ ops = <<DataOp(0, 0), PollOp>> /\ next_data_write_seq = 1
      \/ ops = <<DataOp(0, 0)>> /\ next_data_write_seq = 1
  <2>1. DataOp(0, 0) # PollOp
    BY DEF DataOp, PollOp, Poll
  <2>2. \/ ops = <<PollOp>> /\ ops[1] = PollOp
        \/ ops \in {<<DataOp(0, 0), PollOp>>, <<DataOp(0, 0)>>} /\ ops[1] = DataOp(0, 0)
    BY DEF Init
  <2>3. next_data_write_seq = IF ops[1] = PollOp THEN 0 ELSE 1
    BY Zenon DEF Init
  <2> QED
    BY <2>1, <2>2, <2>3, Zenon
<1>2. DataOp(0, 0).wseq = 0 /\ PollOp.wseq = -1
  BY Zenon DEF DataOp, PollOp, Poll
<1> HIDE DEF Init
<1>3. CASE ops = <<PollOp>> /\ next_data_write_seq = 0
  <2>1. Len(ops) = 1 /\ ops[1] = PollOp /\ 0..(next_data_write_seq - 1) = {}
    BY <1>3
  <2> QED
    BY <2>1 DEF OpsNumbered
<1>4. CASE ops = <<DataOp(0, 0), PollOp>> /\ next_data_write_seq = 1
  <2>1. Len(ops) = 2 /\ ops[1] = DataOp(0, 0) /\ ops[2] = PollOp
        /\ 0..(next_data_write_seq - 1) = {0}
    BY <1>4
  <2> QED
    BY <1>2, <2>1 DEF OpsNumbered
<1>5. CASE ops = <<DataOp(0, 0)>> /\ next_data_write_seq = 1
  <2>1. Len(ops) = 1 /\ ops[1] = DataOp(0, 0) /\ 0..(next_data_write_seq - 1) = {0}
    BY <1>5
  <2> QED
    BY <1>2, <2>1 DEF OpsNumbered
<1> QED
  BY <1>1, <1>3, <1>4, <1>5, Zenon

\* A data op takes the next number, a poll none.
LEMMA OpsNumberedNext == NodeTypes /\ OpsNumbered /\ [Next]_vars => OpsNumbered'
<1> SUFFICES ASSUME NodeTypes, OpsNumbered, [Next]_vars PROVE OpsNumbered'
  BY Zenon
<1> DEFINE n == next_data_write_seq
           L == Len(ops)
<1>1. CASE UNCHANGED <<ops, next_data_write_seq>>
  BY <1>1, Zenon DEF OpsNumbered
<1>2. n \in Nat /\ L \in Nat /\ ops \in Seq([wseq : Int, chunk : Int])
  BY DEF NodeTypes
<1>a. \A s \in 1..L : ops[s] \in [wseq : Int, chunk : Int]
  BY <1>2, ElementOfSeq, Zenon
<1>b. \A s \in 1..L : ops[s].wseq \in Int
  BY <1>a, Zenon
<1>c. PollOp.wseq = -1
  BY Zenon DEF PollOp, DataOp, Poll
<1>3. \A s \in 1..L : ops[s].wseq \in -1..(n - 1)
  <2> SUFFICES ASSUME NEW s \in 1..L PROVE ops[s].wseq \in -1..(n - 1)
    BY Zenon
  <2>1. ops[s] = PollOp \/ ops[s].wseq \in 0..(n - 1)
    BY Zenon DEF OpsNumbered
  <2> QED
    BY SMTT(60), <1>2, <1>b, <1>c, <2>1
<1>4. ASSUME NEW op, ops' = Append(ops, op)
      PROVE  /\ Len(ops') = L + 1 /\ ops'[L + 1] = op
             /\ \A s \in 1..L : ops'[s] = ops[s]
  BY <1>2, <1>4
<1>5. CASE SendPoll
  <2>1. ops' = Append(ops, PollOp) /\ n' = n
    BY <1>5, Zenon DEF SendPoll, SendOp
  <2>2. /\ Len(ops') = L + 1 /\ ops'[L + 1] = PollOp
        /\ \A s \in 1..L : ops'[s] = ops[s]
    BY <1>4, <2>1, Zenon
  <2>3. ASSUME NEW s \in 1..(L + 1) PROVE s \in 1..L \/ s = L + 1
    BY <1>2
  <2>4. \A s \in 1..Len(ops') : ops'[s] = PollOp \/ ops'[s].wseq \in 0..(n' - 1)
    BY <2>1, <2>2, <2>3, Zenon DEF OpsNumbered
  <2>5. \A w \in 0..(n' - 1) : \E s \in 1..Len(ops') : ops'[s].wseq = w
    <3> SUFFICES ASSUME NEW w \in 0..(n - 1) PROVE \E s \in 1..(L + 1) : ops'[s].wseq = w
      BY <2>1, <2>2, Zenon
    <3>1. PICK s \in 1..L : ops[s].wseq = w
      BY Zenon DEF OpsNumbered
    <3>2. s \in 1..(L + 1) /\ ops'[s].wseq = w
      BY SMTT(60), <1>2, <2>2, <3>1
    <3> QED
      BY <3>2, Zenon
  <2>6. ASSUME NEW s \in 1..Len(ops'), NEW t \in 1..Len(ops'), s < t, ops'[t] # PollOp
        PROVE  ops'[s].wseq < ops'[t].wseq
    <3>1. t \in 1..L
      BY <2>2, <2>3, <2>6, Zenon
    <3>2. s \in 1..L
      BY <1>2, <2>2, <2>6, <3>1
    <3> QED
      BY <2>2, <2>6, <3>1, <3>2, Zenon DEF OpsNumbered
  <2> QED
    BY <2>4, <2>5, <2>6, Zenon DEF OpsNumbered
<1>6. CASE ReadClient
  <2> DEFINE op == DataOp(n, up_read)
  <2>1. ops' = Append(ops, op) /\ n' = n + 1
    BY <1>6, Zenon DEF ReadClient, SendOp
  <2>a. op.wseq = n
    BY Zenon DEF DataOp
  <2> HIDE DEF op
  <2>2. /\ Len(ops') = L + 1 /\ ops'[L + 1].wseq = n
        /\ \A s \in 1..L : ops'[s] = ops[s]
    BY <1>4, <2>1, <2>a, Zenon
  <2>3. ASSUME NEW s \in 1..(L + 1) PROVE s \in 1..L \/ s = L + 1
    BY <1>2
  <2>4. ASSUME NEW s \in 1..Len(ops')
        PROVE  ops'[s] = PollOp \/ ops'[s].wseq \in 0..(n' - 1)
    <3>1. CASE s = L + 1
      BY <1>2, <2>1, <2>2, <3>1
    <3>2. CASE s \in 1..L
      <4>1. ops[s] = PollOp \/ ops[s].wseq \in 0..(n - 1)
        BY <3>2, Zenon DEF OpsNumbered
      <4>2. ops'[s] = ops[s] /\ 0..(n - 1) \subseteq 0..n
        BY SMTT(60), <1>2, <2>2, <3>2
      <4>3. n' - 1 = n
        BY <1>2, <2>1
      <4> QED
        BY <4>1, <4>2, <4>3, Zenon
    <3> QED
      BY <2>2, <2>3, <3>1, <3>2, Zenon
  <2>5. \A w \in 0..(n' - 1) : \E s \in 1..Len(ops') : ops'[s].wseq = w
    <3>a. n' - 1 = n
      BY <1>2, <2>1
    <3> SUFFICES ASSUME NEW w \in 0..n PROVE \E s \in 1..(L + 1) : ops'[s].wseq = w
      BY <2>2, <3>a, Zenon
    <3>1. CASE w = n
      BY <1>2, <2>2, <3>1
    <3>2. CASE w # n
      <4>1. w \in 0..(n - 1)
        BY <1>2, <3>2
      <4>2. PICK s \in 1..L : ops[s].wseq = w
        BY <4>1, Zenon DEF OpsNumbered
      <4>3. s \in 1..(L + 1) /\ ops'[s].wseq = w
        BY SMTT(60), <1>2, <2>2, <4>2
      <4> QED
        BY <4>3, Zenon
    <3> QED
      BY <3>1, <3>2, Zenon
  <2>6. ASSUME NEW s \in 1..Len(ops'), NEW t \in 1..Len(ops'), s < t, ops'[t] # PollOp
        PROVE  ops'[s].wseq < ops'[t].wseq
    <3>1. s \in 1..L
      BY <1>2, <2>2, <2>6
    <3>2. CASE t = L + 1
      <4>1. ops'[t].wseq = n /\ ops'[s] = ops[s] /\ ops[s].wseq \in -1..(n - 1)
        BY <1>3, <2>2, <3>1, <3>2, Zenon
      <4>2. \A x \in -1..(n - 1) : x < n
        BY <1>2
      <4> QED
        BY <4>1, <4>2, Zenon
    <3>3. CASE t \in 1..L
      BY <2>2, <2>6, <3>1, <3>3, Zenon DEF OpsNumbered
    <3> QED
      BY <2>2, <2>3, <3>2, <3>3, Zenon
  <2> QED
    BY <2>4, <2>5, <2>6, Zenon DEF OpsNumbered
<1>7. CASE ~(SendPoll \/ ReadClient)
  <2>1. UNCHANGED <<ops, next_data_write_seq>>
    <3>1. CASE ClientStep
      BY <1>7, <3>1, Zenon DEF ClientStep, ReadClientEof, LoopDone, GraceOver, HandleReply, HandleError,
         LocalWriteFails, GraceReply, TakeReply, EndLoop
    <3>2. CASE BatchStep
      BY <3>2, Zenon DEF BatchStep, FireBatch, ReceiveResponse, RetryBatch, FailBatch, Reply, client
    <3>3. CASE SessionStep
      BY <3>3, Zenon DEF SessionStep, ReadUpstream, ReadUpstreamEof, Reap, Restart, Forget, Elsewhere, client
    <3>4. ASSUME NEW b \in DOMAIN batches, NEW a \in 1..2, HandlerStep(b, a)
          PROVE  UNCHANGED <<ops, next_data_write_seq>>
      BY <3>4, Zenon DEF HandlerStep, Claim, WaitDone, WaitGivesUp, ExecUnknown, ExecNoWrite, ExecInOrder,
         ExecAhead, EndPhase1, Drain, Complete, CancelInWrite, Elsewhere, client
    <3>5. CASE UNCHANGED vars
      BY <3>5, Zenon DEF vars, client
    <3> QED
      BY <3>1, <3>2, <3>3, <3>4, <3>5, Zenon DEF Next
  <2> QED
    BY <1>1, <2>1, Zenon
<1> QED
  BY <1>5, <1>6, <1>7, Zenon

-----------------------------------------------------------------------------
\* What a step of one handler leaves alone.
LEMMA SetHandlerFrame ==
  ASSUME NodeTypes, NEW b \in DOMAIN batches, NEW a \in 1..2, NEW h, SetHandler(b, a, h)
  PROVE  \A c \in 1..Len(batches), e \in 1..2 :
           handlers'[c][e] = IF c = b /\ e = a THEN h ELSE handlers[c][e]
<1>1. b \in 1..Len(handlers) /\ Len(handlers) = Len(batches) /\ DOMAIN handlers = 1..Len(batches)
  BY DEF NodeTypes
<1>2. handlers' = [handlers EXCEPT ![b] = [handlers[b] EXCEPT ![a] = h]]
  BY Zenon DEF SetHandler
<1>3. \A c \in 1..Len(batches) : DOMAIN handlers[c] = 1..2
  BY <1>1 DEF NodeTypes
<1> QED
  BY <1>1, <1>2, <1>3, Zenon

\* A response is handed over, or dropped when nobody waits for it.
LEMMA RespondFrame ==
  ASSUME NEW b, NEW a, NEW body, Respond(b, a, body)
  PROVE  \E h : /\ SetHandler(b, a, h) /\ h.st \in {"resp", "gone"}
                /\ h.st = "resp" => h.out = body
<1>1. /\ [Idle EXCEPT !.st = "resp", !.out = body].st = "resp"
      /\ [Idle EXCEPT !.st = "resp", !.out = body].out = body
  BY Zenon DEF Idle
<1>2. Gone.st = "gone"
  BY Zenon DEF Gone, Idle
<1>3. \/ SetHandler(b, a, [Idle EXCEPT !.st = "resp", !.out = body])
      \/ SetHandler(b, a, Gone)
  BY Zenon DEF Respond
<1> QED
  BY <1>1, <1>2, <1>3, Zenon

\* A batch, its handlers and its entry are what NodeTypes says.
LEMMA BatchTyped ==
  ASSUME NodeTypes, NEW b \in DOMAIN batches
  PROVE  /\ b \in 1..Len(batches) /\ batches[b] \in BatchType /\ registry[b] \in EntryType
         /\ \A a \in 1..2 : handlers[b][a] \in HandlerType
         /\ NumOps(b) \in Nat /\ batches[b].lo \in Nat \ {0} /\ batches[b].hi \in Nat
         /\ NumOps(b) = batches[b].hi - batches[b].lo + 1 /\ batches[b].hi <= fired
<1>1. b \in 1..Len(batches) /\ b \in 1..Len(handlers) /\ b \in 1..Len(registry)
  BY DEF NodeTypes
<1>2. batches[b] \in BatchType /\ registry[b] \in EntryType
      /\ handlers[b] \in [1..2 -> HandlerType]
  BY <1>1, ElementOfSeq, Zenon DEF NodeTypes
<1>3. batches[b].lo \in Nat \ {0} /\ batches[b].hi \in Nat
  BY <1>2, Zenon DEF BatchType
<1>4. batches[b].hi <= fired /\ batches[b].lo <= batches[b].hi + 1
  BY <1>1, Zenon DEF NodeTypes
<1> QED
  BY SMTT(60), <1>1, <1>2, <1>3, <1>4 DEF NumOps

\* There is no batch and no reply at the start.
LEMMA OpsPlacedInit == Init => OpsPlaced
<1> SUFFICES ASSUME Init PROVE OpsPlaced
  BY Zenon
<1>1. batches = <<>> /\ replies = Empty /\ pending_writes = Empty /\ fired = 0 /\ next_write_seq = 1
  BY Zenon DEF Init
<1>2. DOMAIN replies = {} /\ DOMAIN pending_writes = {} /\ Len(batches) = 0
  BY <1>1, Zenon DEF Empty
<1> QED
  BY <1>1, <1>2 DEF OpsPlaced

\* A step of a handler that keeps the lengths of what it holds.
LEMMA OpsPlacedHandler ==
  ASSUME NodeTypes, OpsPlaced, NEW b \in DOMAIN batches, NEW a \in 1..2, NEW h,
         SetHandler(b, a, h), handlers[b][a].st # "idle", UNCHANGED <<client, network>>,
         h.st \in {"drain", "resp"} => Len(h.out) = NumOps(b),
         h.st = "exec" => Len(h.out) <= NumOps(b),
         \A c \in 1..Len(batches) :
           registry'[c].st = "ready" => Len(registry'[c].body) = NumOps(c)
  PROVE  OpsPlaced'
<1>1. /\ batches' = batches /\ fired' = fired /\ replies' = replies
      /\ pending_writes' = pending_writes /\ next_write_seq' = next_write_seq
  BY Zenon DEF client, network
<1>2. \A c \in 1..Len(batches), e \in 1..2 :
        handlers'[c][e] = IF c = b /\ e = a THEN h ELSE handlers[c][e]
  BY SetHandlerFrame
<1>3. \A c \in 1..Len(batches) : NumOps(c)' = NumOps(c)
  BY <1>1, Zenon DEF NumOps
<1>4. ASSUME NEW c \in 1..Len(batches)
      PROVE  /\ batches'[c].att = 1 => handlers'[c][2].st = "idle"
             /\ batches'[c].close => batches'[c].att = 1
             /\ registry'[c].st = "ready" => Len(registry'[c].body) = NumOps(c)'
             /\ \A e \in 1..2 :
                  /\ handlers'[c][e].st \in {"drain", "resp"} => Len(handlers'[c][e].out) = NumOps(c)'
                  /\ handlers'[c][e].st = "exec" => Len(handlers'[c][e].out) <= NumOps(c)'
  <2>1. /\ batches[c].att = 1 => handlers[c][2].st = "idle"
        /\ batches[c].close => batches[c].att = 1
        /\ \A e \in 1..2 :
             /\ handlers[c][e].st \in {"drain", "resp"} => Len(handlers[c][e].out) = NumOps(c)
             /\ handlers[c][e].st = "exec" => Len(handlers[c][e].out) <= NumOps(c)
    BY Zenon DEF OpsPlaced
  <2>2. batches'[c].att = 1 => handlers'[c][2].st = "idle"
    BY <1>1, <1>2, <2>1
  <2>3. ASSUME NEW e \in 1..2
        PROVE  /\ handlers'[c][e].st \in {"drain", "resp"} => Len(handlers'[c][e].out) = NumOps(c)'
               /\ handlers'[c][e].st = "exec" => Len(handlers'[c][e].out) <= NumOps(c)'
    <3>1. NumOps(c)' = NumOps(c)
      BY <1>3, Zenon
    <3>2. CASE c = b /\ e = a
      <4>1. handlers'[c][e] = h /\ NumOps(c) = NumOps(b)
        BY <1>2, <3>2, Zenon
      <4> QED
        BY <3>1, <4>1, Zenon
    <3>3. CASE ~(c = b /\ e = a)
      <4>1. handlers'[c][e] = handlers[c][e]
        BY <1>2, <3>3, Zenon
      <4> QED
        BY <2>1, <3>1, <4>1, Zenon
    <3> QED
      BY <3>2, <3>3, Zenon
  <2> QED
    BY <1>1, <1>3, <2>1, <2>2, <2>3, Zenon
<1> QED
  BY <1>1, <1>4, Zenon DEF OpsPlaced

\* The steps of a handler leave the batches and the client where they are.
LEMMA OpsPlacedHandlerStep ==
  ASSUME NodeTypes, OpsPlaced, NEW b \in DOMAIN batches, NEW a \in 1..2, HandlerStep(b, a)
  PROVE  OpsPlaced'
<1> DEFINE h == handlers[b][a]
<1>1. /\ b \in 1..Len(batches) /\ h \in HandlerType /\ NumOps(b) \in Nat
      /\ registry[b] \in EntryType
  BY BatchTyped, Zenon
<1>2. UNCHANGED <<client, network>>
  BY Zenon DEF HandlerStep, Claim, WaitDone, WaitGivesUp, ExecUnknown, ExecNoWrite, ExecInOrder,
     ExecAhead, EndPhase1, Drain, Complete, CancelInWrite, Elsewhere
<1>3. ASSUME UNCHANGED registry
      PROVE  \A c \in 1..Len(batches) :
               registry'[c].st = "ready" => Len(registry'[c].body) = NumOps(c)
  BY <1>3, Zenon DEF OpsPlaced
<1>4. h.out \in Seq(Responses) /\ Len(h.out) \in Nat
  BY <1>1 DEF HandlerType
<1>5. ASSUME NEW body, Respond(b, a, body), h.st # "idle", Len(body) = NumOps(b),
             \A c \in 1..Len(batches) :
               registry'[c].st = "ready" => Len(registry'[c].body) = NumOps(c)
      PROVE  OpsPlaced'
  <2>1. PICK g : /\ SetHandler(b, a, g) /\ g.st \in {"resp", "gone"}
                 /\ g.st = "resp" => g.out = body
    BY <1>5, RespondFrame, Zenon
  <2> QED
    BY <1>2, <1>5, <2>1, OpsPlacedHandler, Zenon
<1>6. CASE Claim(b, a)
  <2>1. h.st = "net"
    BY <1>6, Zenon DEF Claim
  <2>2. CASE ReplaySafe(b) /\ Registered(b) /\ registry[b].st = "pending"
    <3>1. SetHandler(b, a, [Idle EXCEPT !.st = "wait"]) /\ UNCHANGED registry
      BY <1>6, <2>2, Zenon DEF Claim
    <3>2. [Idle EXCEPT !.st = "wait"].st = "wait"
      BY Zenon DEF Idle
    <3> QED
      BY <1>2, <1>3, <2>1, <3>1, <3>2, OpsPlacedHandler, Zenon
  <2>3. CASE ReplaySafe(b) /\ Registered(b) /\ registry[b].st # "pending"
    <3>1. Respond(b, a, registry[b].body) /\ UNCHANGED registry
      BY <1>6, <2>3, Zenon DEF Claim
    <3>2. registry[b].st = "ready"
      BY <1>1, <2>3, Zenon DEF EntryType, Registered
    <3>3. Len(registry[b].body) = NumOps(b)
      BY <1>1, <3>2, Zenon DEF OpsPlaced
    <3> QED
      BY <1>3, <1>5, <2>1, <3>1, <3>3, Zenon
  <2>4. CASE ~(ReplaySafe(b) /\ Registered(b))
    <3> DEFINE new == [Idle EXCEPT !.st = "exec"]
    <3>1. SetHandler(b, a, new)
      BY <1>6, <2>4, Zenon DEF Claim
    <3>2. new.st = "exec" /\ Len(new.out) = 0
      BY Zenon DEF Idle
    <3>3. registry' \in {registry, [registry EXCEPT ![b] = [registry[b] EXCEPT !.st = "pending"]]}
      BY <1>6, <2>4, Zenon DEF Claim
    <3>4. [registry[b] EXCEPT !.st = "pending"].st = "pending"
      BY <1>1, Zenon DEF EntryType
    <3>5. DOMAIN registry = 1..Len(batches)
      BY DEF NodeTypes
    <3>6. \A c \in 1..Len(batches) :
               registry'[c].st = "ready" => Len(registry'[c].body) = NumOps(c)
      BY <3>3, <3>4, <3>5, Zenon DEF OpsPlaced
    <3> HIDE DEF new
    <3> QED
      BY <1>1, <1>2, <2>1, <3>1, <3>2, <3>6, OpsPlacedHandler
  <2> QED
    BY <2>2, <2>3, <2>4, Zenon
<1>7. CASE WaitDone(b, a)
  <2>1. Len(registry[b].body) = NumOps(b) /\ h.st = "wait"
    BY <1>1, <1>7, Zenon DEF WaitDone, OpsPlaced
  <2> QED
    BY <1>3, <1>5, <1>7, <2>1, Zenon DEF WaitDone
<1>8. CASE WaitGivesUp(b, a)
  <2> DEFINE body == [k \in 1..NumOps(b) |->
                        IF k = 1 THEN Response(<<>>, FALSE, "node") ELSE BatchErr]
  <2>1. Len(body) = NumOps(b)
    <3>1. body \in [1..NumOps(b) -> Responses]
      BY ConstantsTyped, Zenon
    <3> HIDE DEF body
    <3> QED
      BY <1>1, <3>1
  <2>2. Respond(b, a, body) /\ UNCHANGED registry /\ h.st = "wait"
    BY <1>8, Zenon DEF WaitGivesUp
  <2> HIDE DEF body
  <2> QED
    BY <1>3, <1>5, <2>1, <2>2, Zenon
<1>9. ASSUME NEW r \in Responses, NEW dr, AtOp(b, a), UNCHANGED registry,
             SetHandler(b, a, [h EXCEPT !.out = Append(h.out, r), !.drains = dr])
      PROVE  OpsPlaced'
  <2> DEFINE new == [h EXCEPT !.out = Append(h.out, r), !.drains = dr]
  <2>1. new.st = "exec" /\ new.out = Append(h.out, r) /\ Len(h.out) < NumOps(b) /\ h.st = "exec"
    BY <1>1, <1>9, Zenon DEF AtOp, HandlerType
  <2>2. Len(new.out) = Len(h.out) + 1
    BY SMTT(60), <1>4, <2>1
  <2>3. Len(new.out) <= NumOps(b)
    BY SMTT(60), <1>1, <1>4, <2>1, <2>2
  <2>4. SetHandler(b, a, new)
    BY <1>9, Zenon
  <2> HIDE DEF new
  <2> QED
    BY <1>2, <1>3, <1>9, <2>1, <2>3, <2>4, OpsPlacedHandler, Zenon
<1>10. ASSUME NEW r \in Responses, Answer(b, a, r), AtOp(b, a), UNCHANGED registry PROVE OpsPlaced'
  <2> DEFINE dr == h.drains
  <2>1. [h EXCEPT !.out = Append(h.out, r)] = [h EXCEPT !.out = Append(h.out, r), !.drains = dr]
    BY <1>1, Zenon DEF HandlerType
  <2> QED
    BY <1>9, <1>10, <2>1, Zenon DEF Answer
<1>11. ASSUME JoinDrains(b, a), AtOp(b, a), UNCHANGED registry PROVE OpsPlaced'
  BY <1>9, <1>11, ConstantsTyped, Zenon DEF JoinDrains
<1>12. CASE ExecUnknown(b, a) \/ ExecNoWrite(b, a) \/ ExecInOrder(b, a) \/ ExecAhead(b, a)
  BY <1>10, <1>11, <1>12, ConstantsTyped, Zenon DEF ExecUnknown, ExecNoWrite, ExecInOrder, ExecAhead
<1>13. CASE EndPhase1(b, a)
  <2> DEFINE new == [h EXCEPT !.st = "drain"]
  <2>1. new.st = "drain" /\ new.out = h.out
    BY <1>1, Zenon DEF HandlerType
  <2>2. SetHandler(b, a, new) /\ UNCHANGED registry /\ h.st = "exec" /\ Len(h.out) = NumOps(b)
    BY <1>13, Zenon DEF EndPhase1
  <2> HIDE DEF new
  <2> QED
    BY <1>2, <1>3, <2>1, <2>2, OpsPlacedHandler, Zenon
<1>14. CASE Drain(b, a)
  <2>1. PICK p, r, n, dr : SetHandler(b, a, [h EXCEPT !.out = [h.out EXCEPT ![p] = r],
                                                      !.budget = n, !.drains = dr])
    BY <1>14, ZenonT(60) DEF Drain
  <2> DEFINE new == [h EXCEPT !.out = [h.out EXCEPT ![p] = r], !.budget = n, !.drains = dr]
  <2>2. h.st = "drain" /\ UNCHANGED registry
    BY <1>14, Zenon DEF Drain
  <2>3. new.st = h.st /\ new.out = [h.out EXCEPT ![p] = r]
    BY <1>1, Zenon DEF HandlerType
  <2>4. Len([h.out EXCEPT ![p] = r]) = Len(h.out)
    BY <1>4
  <2>5. Len(h.out) = NumOps(b)
    BY <1>1, <2>2, Zenon DEF OpsPlaced
  <2> HIDE DEF new
  <2> QED
    BY <1>2, <1>3, <2>1, <2>2, <2>3, <2>4, <2>5, OpsPlacedHandler, Zenon DEF new
<1>15. CASE Complete(b, a)
  <2>1. h.st = "drain" /\ Respond(b, a, h.out)
        /\ registry' \in {registry, [registry EXCEPT ![b] =
                                      [registry[b] EXCEPT !.st = "ready", !.body = h.out]]}
    BY <1>15, Zenon DEF Complete
  <2>2. Len(h.out) = NumOps(b)
    BY <1>1, <2>1, Zenon DEF OpsPlaced
  <2>3. [registry[b] EXCEPT !.st = "ready", !.body = h.out].body = h.out
    BY <1>1, Zenon DEF EntryType
  <2>4. DOMAIN registry = 1..Len(batches)
    BY DEF NodeTypes
  <2>5. \A c \in 1..Len(batches) :
               registry'[c].st = "ready" => Len(registry'[c].body) = NumOps(c)
    BY <2>1, <2>2, <2>3, <2>4, Zenon DEF OpsPlaced
  <2> QED
    BY <1>5, <2>1, <2>2, <2>5, Zenon
<1>16. CASE CancelInWrite(b, a)
  <2>1. SetHandler(b, a, Gone) /\ UNCHANGED registry /\ h.st = "exec"
    BY <1>16, Zenon DEF CancelInWrite, AtOp
  <2>2. Gone.st = "gone"
    BY Zenon DEF Gone, Idle
  <2> QED
    BY <1>2, <1>3, <2>1, <2>2, OpsPlacedHandler, Zenon
<1> QED
  BY <1>6, <1>7, <1>8, <1>12, <1>13, <1>14, <1>15, <1>16, Zenon DEF HandlerStep

\* A new batch has the next ops, a first attempt under way and no registry entry.
LEMMA FireFrame ==
  ASSUME NodeTypes, FireBatch
  PROVE  /\ Len(batches) \in Nat /\ Len(batches') = Len(batches) + 1
         /\ \A b \in 1..Len(batches) : /\ batches'[b] = batches[b] /\ handlers'[b] = handlers[b]
                                       /\ registry'[b] = registry[b]
         /\ batches'[Len(batches) + 1].lo = fired + 1
         /\ batches'[Len(batches) + 1].hi = fired' /\ batches'[Len(batches) + 1].att = 1
         /\ handlers'[Len(batches) + 1] = <<Sent, Idle>> /\ registry'[Len(batches) + 1] = Absent
         /\ fired \in Nat /\ fired' \in Nat /\ fired <= fired'
         /\ UNCHANGED <<client, session, uplink, downlink>>
<1>1. PICK hi \in fired..Len(ops), close \in BOOLEAN :
        /\ fired' = hi
        /\ batches' = Append(batches, [lo |-> fired + 1, hi |-> hi, close |-> close,
                                       att |-> 1, open |-> TRUE])
        /\ handlers' = Append(handlers, <<Sent, Idle>>)
        /\ registry' = Append(registry, Absent)
        /\ UNCHANGED <<client, session, uplink, downlink>>
  BY Zenon DEF FireBatch
<1> DEFINE new == [lo |-> fired + 1, hi |-> hi, close |-> close, att |-> 1, open |-> TRUE]
           pair == <<Sent, Idle>>
           pairs == [1..2 -> HandlerType]
<1>2. fired \in Nat /\ hi \in Nat /\ fired <= hi
  BY <1>1 DEF NodeTypes
<1>3. new \in BatchType /\ new.hi = hi /\ new.lo = fired + 1 /\ new.att = 1
  BY <1>2 DEF BatchType
<1>4. pair \in pairs
  BY ConstantsTyped
<1>5. /\ batches \in Seq(BatchType) /\ handlers \in Seq(pairs) /\ registry \in Seq(EntryType)
      /\ Len(handlers) = Len(batches) /\ Len(registry) = Len(batches)
  BY Zenon DEF NodeTypes
<1>6. batches' = Append(batches, new) /\ handlers' = Append(handlers, pair)
  BY <1>1, Zenon
<1> HIDE DEF new, pair, pairs
<1>7. /\ Len(batches) \in Nat /\ Len(batches') = Len(batches) + 1
      /\ \A b \in 1..Len(batches) : batches'[b] = batches[b]
      /\ batches'[Len(batches) + 1] = new
  BY SMTT(60), <1>3, <1>5, <1>6, AppendProperties
<1>8. /\ \A b \in 1..Len(batches) : handlers'[b] = handlers[b]
      /\ handlers'[Len(batches) + 1] = pair
  BY <1>4, <1>5, <1>6, AppendProperties
<1>9. /\ \A b \in 1..Len(batches) : registry'[b] = registry[b]
      /\ registry'[Len(batches) + 1] = Absent
  BY <1>1, <1>5, ConstantsTyped, AppendProperties
<1>10. handlers'[Len(batches) + 1] = <<Sent, Idle>>
  BY <1>8, Zenon DEF pair
<1> QED
  BY <1>1, <1>2, <1>3, <1>7, <1>8, <1>9, <1>10, Zenon

\* A batch is answered, given up or sent again: its handlers go on, are no longer
\* heard, or, for the retry, start.
LEMMA AnswerFrame ==
  ASSUME NodeTypes, NEW b \in DOMAIN batches,
         ReceiveResponse(b) \/ RetryBatch(b) \/ FailBatch(b)
  PROVE  /\ Len(batches') = Len(batches)
         /\ \A c \in 1..Len(batches) :
              /\ batches'[c].lo = batches[c].lo /\ batches'[c].hi = batches[c].hi
              /\ batches'[c].close = batches[c].close
              /\ c # b => batches'[c].att = batches[c].att /\ handlers'[c] = handlers[c]
         /\ batches'[b].att = 1 => ~RetryBatch(b) /\ batches[b].att = 1
         /\ \A a \in 1..2 : IF RetryBatch(b) /\ a = 2 THEN handlers'[b][a] = Sent
                            ELSE \/ handlers'[b][a] = handlers[b][a]
                                 \/ handlers'[b][a] = Gone /\ handlers[b][a].st = "resp"
         /\ RetryBatch(b) => ReplaySafe(b) /\ batches[b].att = 1 /\ batches'[b].att = 2
         /\ ~RetryBatch(b) => batches'[b].att = batches[b].att
         /\ UNCHANGED <<ops, fired, next_write_seq, pending_writes, eof_seen, registry, session,
                        uplink>>
<1>1. /\ b \in 1..Len(batches) /\ batches[b] \in BatchType /\ batches \in Seq(BatchType)
      /\ DOMAIN batches = 1..Len(batches) /\ DOMAIN handlers = 1..Len(batches)
      /\ DOMAIN handlers[b] = 1..2
  BY SMTT(60), BatchTyped DEF NodeTypes
<1>2. ASSUME ReceiveResponse(b) \/ FailBatch(b) PROVE ~RetryBatch(b)
  <2>1. batches' = [batches EXCEPT ![b] = [batches[b] EXCEPT !.open = FALSE]]
    BY <1>2, Zenon DEF ReceiveResponse, FailBatch, Reply
  <2>2. batches'[b] = [batches[b] EXCEPT !.open = FALSE]
    BY <1>1, <2>1, Zenon
  <2>3. batches'[b].att = batches[b].att
    BY <1>1, <2>2, Zenon DEF BatchType
  <2> SUFFICES ASSUME RetryBatch(b) PROVE FALSE
    BY Zenon
  <2>4. batches'[b] = [batches[b] EXCEPT !.att = 2] /\ batches[b].att = 1
    BY <1>1, Zenon DEF RetryBatch
  <2>5. [batches[b] EXCEPT !.att = 2].att = 2
    BY <1>1, Zenon DEF BatchType
  <2> QED
    BY <2>3, <2>4, <2>5
<1>3. ASSUME NEW r, batches' = [batches EXCEPT ![b] = r], r.lo = batches[b].lo,
             r.hi = batches[b].hi, r.close = batches[b].close
      PROVE  /\ Len(batches') = Len(batches) /\ batches'[b] = r
             /\ \A c \in 1..Len(batches) :
                  /\ batches'[c].lo = batches[c].lo /\ batches'[c].hi = batches[c].hi
                  /\ batches'[c].close = batches[c].close
                  /\ c # b => batches'[c].att = batches[c].att
  BY <1>1, <1>3
<1>4. CASE ReceiveResponse(b) \/ FailBatch(b)
  <2> DEFINE r == [batches[b] EXCEPT !.open = FALSE]
  <2>1. batches' = [batches EXCEPT ![b] = r]
    BY <1>4, Zenon DEF ReceiveResponse, FailBatch, Reply
  <2>2. r.lo = batches[b].lo /\ r.hi = batches[b].hi /\ r.close = batches[b].close
        /\ r.att = batches[b].att
    BY <1>1, Zenon DEF BatchType
  <2>3. \A a \in 1..2 : \/ handlers'[b][a] = handlers[b][a]
                        \/ handlers'[b][a] = Gone /\ handlers[b][a].st = "resp"
    <3>1. CASE ReceiveResponse(b)
      BY <1>1, <3>1, Zenon DEF ReceiveResponse
    <3>2. CASE FailBatch(b)
      <4>1. handlers'[b] = [a \in 1..2 |-> Unread(b, a)]
        BY <1>1, <3>2, Zenon DEF FailBatch
      <4> QED
        BY <4>1, Zenon DEF Unread
    <3> QED
      BY <1>4, <3>1, <3>2, Zenon
  <2>4. \A c \in 1..Len(batches) : c # b => handlers'[c] = handlers[c]
    BY <1>1, <1>4, Zenon DEF ReceiveResponse, FailBatch
  <2>5. UNCHANGED <<ops, fired, next_write_seq, pending_writes, eof_seen, registry, session, uplink>>
    BY <1>4, Zenon DEF ReceiveResponse, FailBatch, Reply
  <2> HIDE DEF r
  <2>6. /\ Len(batches') = Len(batches) /\ batches'[b] = r
        /\ \A c \in 1..Len(batches) :
                  /\ batches'[c].lo = batches[c].lo /\ batches'[c].hi = batches[c].hi
                  /\ batches'[c].close = batches[c].close
                  /\ c # b => batches'[c].att = batches[c].att
    BY <1>3, <2>1, <2>2, Zenon
  <2>7. ~RetryBatch(b)
    BY <1>2, <1>4, ZenonT(60)
  <2> QED
    BY <2>2, <2>3, <2>4, <2>5, <2>6, <2>7, Zenon
<1>5. CASE RetryBatch(b)
  <2> DEFINE r == [batches[b] EXCEPT !.att = 2]
  <2>1. batches' = [batches EXCEPT ![b] = r] /\ batches[b].att = 1 /\ ReplaySafe(b)
    BY <1>5, Zenon DEF RetryBatch
  <2>2. r.lo = batches[b].lo /\ r.hi = batches[b].hi /\ r.close = batches[b].close /\ r.att = 2
    BY <1>1, Zenon DEF BatchType
  <2>3. handlers'[b] = <<Unread(b, 1), Sent>>
    BY <1>1, <1>5, Zenon DEF RetryBatch
  <2>4. /\ handlers'[b][2] = Sent
        /\ \/ handlers'[b][1] = handlers[b][1]
           \/ handlers'[b][1] = Gone /\ handlers[b][1].st = "resp"
    BY <2>3 DEF Unread
  <2>5. \A c \in 1..Len(batches) : c # b => handlers'[c] = handlers[c]
    BY <1>1, <1>5, Zenon DEF RetryBatch
  <2>6. UNCHANGED <<ops, fired, next_write_seq, pending_writes, eof_seen, registry, session, uplink>>
    BY <1>5, Zenon DEF RetryBatch, client
  <2> HIDE DEF r
  <2>7. /\ Len(batches') = Len(batches) /\ batches'[b] = r
        /\ \A c \in 1..Len(batches) :
                  /\ batches'[c].lo = batches[c].lo /\ batches'[c].hi = batches[c].hi
                  /\ batches'[c].close = batches[c].close
                  /\ c # b => batches'[c].att = batches[c].att
    BY <1>3, <2>1, <2>2, Zenon
  <2>8. \A a \in 1..2 : IF RetryBatch(b) /\ a = 2 THEN handlers'[b][a] = Sent
                            ELSE \/ handlers'[b][a] = handlers[b][a]
                                 \/ handlers'[b][a] = Gone /\ handlers[b][a].st = "resp"
    BY <1>5, <2>4
  <2> QED
    BY SMTT(60), <1>5, <2>1, <2>2, <2>5, <2>6, <2>7, <2>8
<1> QED
  BY <1>4, <1>5, ZenonT(60)

\* What a reply adds to the held responses, and what a run takes from them.
LEMMA HeldDomain ==
  ASSUME NEW s
  PROVE  /\ DOMAIN HeldWith(s) = DOMAIN pending_writes \cup {s}
         /\ HeldWith(s)[s] = replies[s]
         /\ \A x \in DOMAIN pending_writes : x # s => HeldWith(s)[x] = pending_writes[x]
BY Zenon DEF HeldWith

\* A run of responses takes those it writes out of pending_writes.
LEMMA WriteRunFrame ==
  ASSUME NEW held, NEW last, WriteRun(held, last)
  PROVE  /\ next_write_seq' = last + 1 /\ next_write_seq..last \subseteq DOMAIN held
         /\ DOMAIN pending_writes' = DOMAIN held \ (next_write_seq..last)
         /\ \A x \in DOMAIN pending_writes' : pending_writes'[x] = held[x]
BY Zenon DEF WriteRun, Restrict

\* A reply is taken once.
LEMMA TakeReplyFrame ==
  ASSUME NEW s, TakeReply(s)
  PROVE  /\ DOMAIN replies' = DOMAIN replies \ {s}
         /\ \A x \in DOMAIN replies' : replies'[x] = replies[x]
         /\ UNCHANGED <<ops, network, node>>
BY Zenon DEF TakeReply, Restrict

\* Every step keeps the ops in their places.
LEMMA OpsPlacedNext == NodeTypes /\ OpsPlaced /\ [Next]_vars => OpsPlaced'
<1> SUFFICES ASSUME NodeTypes, OpsPlaced, [Next]_vars PROVE OpsPlaced'
  BY Zenon
<1>1. ASSUME UNCHANGED <<fired, batches, handlers, registry>>,
             DOMAIN replies' \subseteq 1..fired, DOMAIN pending_writes' \subseteq 1..fired,
             next_write_seq' \in 1..(fired + 1)
      PROVE  OpsPlaced'
  BY <1>1, ZenonT(60) DEF OpsPlaced, NumOps
<1>2. /\ fired \in Nat /\ DOMAIN replies \subseteq 1..fired
      /\ DOMAIN pending_writes \subseteq 1..fired /\ next_write_seq \in 1..(fired + 1)
  BY Zenon DEF OpsPlaced, NodeTypes
<1>3. ASSUME EndLoop(loop'), UNCHANGED next_write_seq PROVE OpsPlaced'
  <2>1. DOMAIN replies' = {} /\ DOMAIN pending_writes' = {}
    BY <1>3, Zenon DEF EndLoop, Empty
  <2> QED
    BY <1>1, <1>2, <1>3, <2>1, Zenon DEF EndLoop, node
<1>4. ASSUME NEW s, s \in DOMAIN replies, TakeReply(s),
             \/ \E last \in s..Len(ops) : WriteRun(HeldWith(s), last)
             \/ pending_writes' = HeldWith(s) /\ UNCHANGED next_write_seq
      PROVE  OpsPlaced'
  <2>0. DOMAIN HeldWith(s) = DOMAIN pending_writes \cup {s}
    BY HeldDomain, Zenon
  <2>1. DOMAIN HeldWith(s) \subseteq 1..fired
    BY <1>2, <1>4, <2>0, Zenon
  <2>2. DOMAIN replies' \subseteq 1..fired /\ UNCHANGED <<fired, batches, handlers, registry>>
    BY <1>2, <1>4, TakeReplyFrame, Zenon DEF network, node
  <2>3. CASE pending_writes' = HeldWith(s) /\ UNCHANGED next_write_seq
    BY <1>1, <1>2, <2>1, <2>2, <2>3, Zenon
  <2>4. ASSUME NEW last \in s..Len(ops), WriteRun(HeldWith(s), last) PROVE OpsPlaced'
    <3>1. /\ next_write_seq' = last + 1 /\ next_write_seq..last \subseteq DOMAIN HeldWith(s)
          /\ DOMAIN pending_writes' = DOMAIN HeldWith(s) \ (next_write_seq..last)
      BY <2>4, WriteRunFrame, Zenon
    <3>2. s \in Nat /\ last \in Nat /\ 1 <= last
      BY SMTT(60), <1>2, <1>4, <2>4
    <3>3. last <= fired
      <4>1. CASE next_write_seq <= last
        <5>1. last \in next_write_seq..last
          BY <1>2, <3>2, <4>1
        <5> QED
          BY SMTT(60), <1>2, <2>1, <3>1, <5>1
      <4>2. CASE last < next_write_seq
        BY <1>2, <3>2, <4>2
      <4> QED
        BY SMTT(60), <1>2, <3>2, <4>1, <4>2
    <3> QED
      BY SMTT(60), <1>1, <1>2, <2>1, <2>2, <3>1, <3>2, <3>3
  <2> QED
    BY <1>4, <2>3, <2>4, Zenon
<1>5. CASE ClientStep
  <2>1. CASE SendPoll \/ ReadClient \/ ReadClientEof
    BY <1>1, <1>2, <2>1, Zenon DEF SendPoll, ReadClient, ReadClientEof, network, node
  <2>2. CASE LoopDone \/ GraceOver
    BY <1>3, <2>2, Zenon DEF LoopDone, GraceOver, EndLoop
  <2>3. ASSUME NEW s \in inflight, HandleError(s) \/ LocalWriteFails(s) PROVE OpsPlaced'
    BY <1>3, <2>3, Zenon DEF HandleError, LocalWriteFails, EndLoop
  <2>4. ASSUME NEW s \in inflight, HandleReply(s) PROVE OpsPlaced'
    <3>1. s \in DOMAIN replies /\ TakeReply(s)
      BY <2>4, Zenon DEF HandleReply
    <3>2. \/ \E last \in s..Len(ops) : WriteRun(HeldWith(s), last)
          \/ pending_writes' = HeldWith(s) /\ UNCHANGED next_write_seq
      BY <2>4, Zenon DEF HandleReply
    <3> QED
      BY <1>4, <3>1, <3>2, Zenon
  <2>5. ASSUME NEW s \in inflight, GraceReply(s) PROVE OpsPlaced'
    <3>1. s \in DOMAIN replies /\ TakeReply(s)
      BY <2>5, Zenon DEF GraceReply
    <3>2. \/ \E last \in s..Len(ops) : WriteRun(HeldWith(s), last)
          \/ pending_writes' = HeldWith(s) /\ UNCHANGED next_write_seq
      BY <2>5, Zenon DEF GraceReply
    <3> QED
      BY <1>4, <3>1, <3>2, Zenon
  <2> QED
    BY <1>5, <2>1, <2>2, <2>3, <2>4, <2>5, Zenon DEF ClientStep
<1>6. CASE FireBatch
  <2> DEFINE N == Len(batches)
  <2>1. /\ N \in Nat /\ Len(batches') = N + 1
        /\ \A b \in 1..N : /\ batches'[b] = batches[b] /\ handlers'[b] = handlers[b]
                           /\ registry'[b] = registry[b]
        /\ batches'[N + 1].lo = fired + 1 /\ batches'[N + 1].att = 1
        /\ handlers'[N + 1] = <<Sent, Idle>> /\ registry'[N + 1] = Absent
        /\ fired' \in Nat /\ fired <= fired' /\ UNCHANGED client
    BY <1>6, FireFrame, Zenon
  <2>2. \A b \in 1..N : batches[b].hi \in Nat /\ batches[b].hi <= fired
    <3>1. DOMAIN batches = 1..N
      BY SMTT(60) DEF NodeTypes
    <3> QED
      BY <3>1, BatchTyped, Zenon
  <2> HIDE DEF N
  <2>3. ASSUME NEW b \in 1..(N + 1), NEW c \in 1..(N + 1), b < c PROVE batches'[b].hi < batches'[c].lo
    <3>1. b \in 1..N
      BY <2>1, <2>3
    <3>2. CASE c \in 1..N
      BY <2>1, <2>3, <3>1, <3>2, ZenonT(60) DEF OpsPlaced, N
    <3>3. CASE c = N + 1
      BY <1>2, <2>1, <2>2, <3>1, <3>3
    <3> QED
      BY SMTT(60), <2>1, <3>2, <3>3
  <2>4. /\ DOMAIN replies' \subseteq 1..fired' /\ DOMAIN pending_writes' \subseteq 1..fired'
        /\ next_write_seq' \in 1..(fired' + 1)
    <3>1. replies' = replies /\ pending_writes' = pending_writes /\ next_write_seq' = next_write_seq
      BY <2>1, Zenon DEF client
    <3>2. fired \in Nat /\ fired' \in Nat /\ fired <= fired'
      BY <1>2, <2>1, Zenon
    <3>3. \A x \in 1..fired : x \in 1..fired'
      BY <3>2
    <3>4. \A m, n \in Nat : m <= n => \A x \in 1..(m + 1) : x \in 1..(n + 1)
      BY SMTT(60)
    <3> QED
      BY <1>2, <3>1, <3>2, <3>3, <3>4, Zenon
  <2>5. ASSUME NEW b \in 1..(N + 1)
        PROVE  /\ batches'[b].att = 1 => handlers'[b][2].st = "idle"
               /\ batches'[b].close => batches'[b].att = 1
               /\ registry'[b].st = "ready" => Len(registry'[b].body) = NumOps(b)'
               /\ \A a \in 1..2 :
                    /\ handlers'[b][a].st \in {"drain", "resp"}
                         => Len(handlers'[b][a].out) = NumOps(b)'
                    /\ handlers'[b][a].st = "exec" => Len(handlers'[b][a].out) <= NumOps(b)'
    <3>1. CASE b \in 1..N
      <4>1. /\ NumOps(b)' = NumOps(b) /\ batches'[b] = batches[b] /\ handlers'[b] = handlers[b]
            /\ registry'[b] = registry[b]
        BY <2>1, <3>1, ZenonT(60) DEF NumOps
      <4> QED
        BY <3>1, <4>1, Zenon DEF OpsPlaced, N
    <3>2. CASE b = N + 1
      <4>1. /\ <<Sent, Idle>>[1].st = "net" /\ <<Sent, Idle>>[2].st = "idle"
            /\ Absent.st = "absent"
        BY Zenon DEF Sent, Idle, Absent
      <4> QED
        BY <2>1, <3>2, <4>1
    <3> QED
      BY <2>1, <3>1, <3>2
  <2> QED
    BY <2>1, <2>3, <2>4, <2>5, Zenon DEF OpsPlaced
<1>7. ASSUME NEW b \in DOMAIN batches, ReceiveResponse(b) \/ RetryBatch(b) \/ FailBatch(b)
      PROVE  OpsPlaced'
  <2>0. b \in 1..Len(batches) /\ batches[b].lo \in Nat \ {0} /\ batches[b].hi \in Nat
        /\ batches[b].hi <= fired /\ batches[b].att \in 1..2
    BY BatchTyped, Zenon DEF BatchType
  <2>1. /\ Len(batches') = Len(batches)
        /\ \A c \in 1..Len(batches) :
              /\ batches'[c].lo = batches[c].lo /\ batches'[c].hi = batches[c].hi
              /\ batches'[c].close = batches[c].close
              /\ c # b => batches'[c].att = batches[c].att /\ handlers'[c] = handlers[c]
        /\ batches'[b].att = 1 => ~RetryBatch(b) /\ batches[b].att = 1
        /\ RetryBatch(b) => ReplaySafe(b) /\ batches[b].att = 1 /\ batches'[b].att = 2
        /\ ~RetryBatch(b) => batches'[b].att = batches[b].att
        /\ UNCHANGED <<fired, next_write_seq, pending_writes, registry>>
    BY <1>7, AnswerFrame, Zenon
  <2>2. \A a \in 1..2 : IF RetryBatch(b) /\ a = 2 THEN handlers'[b][a] = Sent
                        ELSE \/ handlers'[b][a] = handlers[b][a]
                             \/ handlers'[b][a] = Gone /\ handlers[b][a].st = "resp"
    BY <1>7, AnswerFrame, Zenon
  <2>3. \A c \in 1..Len(batches) : NumOps(c)' = NumOps(c)
    BY <2>1, Zenon DEF NumOps
  <2>4. Sent.st = "net" /\ Gone.st = "gone"
    BY Zenon DEF Sent, Gone, Idle
  <2>5. DOMAIN replies' \subseteq 1..fired
    <3>1. CASE RetryBatch(b)
      BY <1>2, <3>1, Zenon DEF RetryBatch, client
    <3>2. CASE ReceiveResponse(b) \/ FailBatch(b)
      <4>1. DOMAIN replies' = DOMAIN replies \cup (BatchOps(b) \cap inflight)
        BY <3>2, Zenon DEF ReceiveResponse, FailBatch, Reply
      <4>2. BatchOps(b) \subseteq 1..fired
        BY <1>2, <2>0 DEF BatchOps
      <4> QED
        BY <1>2, <4>1, <4>2, Zenon
    <3> QED
      BY <1>7, <3>1, <3>2, Zenon
  <2>6. ASSUME NEW c \in 1..Len(batches)
        PROVE  /\ batches'[c].att = 1 => handlers'[c][2].st = "idle"
               /\ batches'[c].close => batches'[c].att = 1
               /\ registry'[c].st = "ready" => Len(registry'[c].body) = NumOps(c)'
               /\ \A a \in 1..2 :
                    /\ handlers'[c][a].st \in {"drain", "resp"}
                         => Len(handlers'[c][a].out) = NumOps(c)'
                    /\ handlers'[c][a].st = "exec" => Len(handlers'[c][a].out) <= NumOps(c)'
    <3>1. CASE c # b
      <4>1. /\ batches'[c].att = batches[c].att /\ batches'[c].close = batches[c].close
            /\ handlers'[c] = handlers[c] /\ registry' = registry /\ NumOps(c)' = NumOps(c)
        BY <2>1, <2>3, <3>1, Zenon
      <4>2. /\ batches[c].att = 1 => handlers[c][2].st = "idle"
            /\ batches[c].close => batches[c].att = 1
            /\ registry[c].st = "ready" => Len(registry[c].body) = NumOps(c)
            /\ \A a \in 1..2 :
                 /\ handlers[c][a].st \in {"drain", "resp"} => Len(handlers[c][a].out) = NumOps(c)
                 /\ handlers[c][a].st = "exec" => Len(handlers[c][a].out) <= NumOps(c)
        BY Zenon DEF OpsPlaced
      <4> QED
        BY <4>1, <4>2, Zenon
    <3>2. CASE c = b
      <4>1. batches'[b].att = 1 => handlers'[b][2].st = "idle"
        <5> SUFFICES ASSUME batches'[b].att = 1 PROVE handlers'[b][2].st = "idle"
          BY Zenon
        <5>1. handlers[b][2].st = "idle" /\ ~RetryBatch(b)
          BY <2>0, <2>1, Zenon DEF OpsPlaced
        <5>2. handlers'[b][2] = handlers[b][2]
          BY <2>2, <5>1
        <5> QED
          BY <5>1, <5>2, Zenon
      <4>2. batches'[b].close => batches'[b].att = 1
        <5>1. batches[b].close => batches[b].att = 1
          BY <2>0, Zenon DEF OpsPlaced
        <5>2. RetryBatch(b) => ~batches[b].close
          BY <2>1, Zenon DEF ReplaySafe
        <5> QED
          BY <2>0, <2>1, <5>1, <5>2, Zenon
      <4>3. registry'[b].st = "ready" => Len(registry'[b].body) = NumOps(b)'
        BY <2>0, <2>1, <2>3 DEF OpsPlaced
      <4>4. ASSUME NEW a \in 1..2
            PROVE  /\ handlers'[b][a].st \in {"drain", "resp"}
                        => Len(handlers'[b][a].out) = NumOps(b)'
                   /\ handlers'[b][a].st = "exec" => Len(handlers'[b][a].out) <= NumOps(b)'
        <5>1. handlers'[b][a] = Sent \/ handlers'[b][a] = Gone \/ handlers'[b][a] = handlers[b][a]
          BY <2>2, Zenon
        <5> QED
          BY <2>0, <2>3, <2>4, <5>1, Zenon DEF OpsPlaced
      <4> QED
        BY <3>2, <4>1, <4>2, <4>3, <4>4, Zenon
    <3> QED
      BY <3>1, <3>2, ZenonT(60)
  <2> QED
    BY <1>2, <2>1, <2>5, <2>6, Zenon DEF OpsPlaced
<1>8. CASE SessionStep
  <2>1. CASE ReadUpstream \/ ReadUpstreamEof \/ Reap
    BY <1>1, <1>2, <2>1, Zenon DEF ReadUpstream, ReadUpstreamEof, Reap, Elsewhere, client, network
  <2>2. ASSUME UNCHANGED <<client, network>>,
               \A b \in 1..Len(batches) :
                 /\ registry'[b].st = "absent" \/ registry'[b] = registry[b]
                 /\ \A a \in 1..2 : \/ handlers'[b][a] = handlers[b][a]
                                    \/ handlers'[b][a].st = "gone" /\ handlers[b][a].st # "idle"
        PROVE  OpsPlaced'
    <3>1. /\ batches' = batches /\ fired' = fired /\ replies' = replies
          /\ pending_writes' = pending_writes /\ next_write_seq' = next_write_seq
      BY <2>2, Zenon DEF client, network
    <3>2. \A b \in 1..Len(batches) : NumOps(b)' = NumOps(b)
      BY <3>1, ZenonT(60) DEF NumOps
    <3>3. ASSUME NEW b \in 1..Len(batches)
          PROVE  /\ batches'[b].att = 1 => handlers'[b][2].st = "idle"
                 /\ batches'[b].close => batches'[b].att = 1
                 /\ registry'[b].st = "ready" => Len(registry'[b].body) = NumOps(b)'
                 /\ \A a \in 1..2 :
                      /\ handlers'[b][a].st \in {"drain", "resp"}
                           => Len(handlers'[b][a].out) = NumOps(b)'
                      /\ handlers'[b][a].st = "exec" => Len(handlers'[b][a].out) <= NumOps(b)'
      <4>1. /\ registry'[b].st = "absent" \/ registry'[b] = registry[b]
            /\ \A a \in 1..2 : \/ handlers'[b][a] = handlers[b][a]
                               \/ handlers'[b][a].st = "gone" /\ handlers[b][a].st # "idle"
        BY <2>2, Zenon
      <4>2. /\ batches[b].att = 1 => handlers[b][2].st = "idle"
            /\ batches[b].close => batches[b].att = 1
            /\ registry[b].st = "ready" => Len(registry[b].body) = NumOps(b)
            /\ \A a \in 1..2 :
                 /\ handlers[b][a].st \in {"drain", "resp"} => Len(handlers[b][a].out) = NumOps(b)
                 /\ handlers[b][a].st = "exec" => Len(handlers[b][a].out) <= NumOps(b)
        BY Zenon DEF OpsPlaced
      <4>3. batches'[b] = batches[b] /\ NumOps(b)' = NumOps(b)
        BY <3>1, <3>2, Zenon
      <4> QED
        BY SMTT(60), <4>1, <4>2, <4>3
    <3> QED
      BY <3>1, <3>3, Zenon DEF OpsPlaced
  <2>3. DOMAIN registry = 1..Len(batches) /\ DOMAIN handlers = 1..Len(batches)
    BY DEF NodeTypes
  <2>4. CASE Restart
    <3>1. \A f : [Absent EXCEPT !.forgot = f].st = "absent"
      BY Zenon DEF Absent
    <3>2. Gone.st = "gone"
      BY Zenon DEF Gone, Idle
    <3>3. \A b \in 1..Len(batches) : registry'[b].st = "absent"
      BY <2>3, <2>4, <3>1, Zenon DEF Restart
    <3>4. \A b \in 1..Len(batches), a \in 1..2 :
            \/ handlers'[b][a] = handlers[b][a]
            \/ handlers'[b][a].st = "gone" /\ handlers[b][a].st # "idle"
      BY <2>3, <2>4, <3>2, Zenon DEF Restart
    <3> QED
      BY <2>2, <2>4, <3>3, <3>4, Zenon DEF Restart
  <2>5. ASSUME NEW b \in DOMAIN batches, Forget(b) PROVE OpsPlaced'
    <3>1. [Absent EXCEPT !.forgot = TRUE].st = "absent"
      BY Zenon DEF Absent
    <3>2. \A c \in 1..Len(batches) : registry'[c].st = "absent" \/ registry'[c] = registry[c]
      BY <2>3, <2>5, <3>1, Zenon DEF Forget
    <3> QED
      BY <2>2, <2>5, <3>2, Zenon DEF Forget, Elsewhere
  <2> QED
    BY <1>8, <2>1, <2>4, <2>5, Zenon DEF SessionStep
<1>9. CASE UNCHANGED vars
  BY <1>1, <1>2, <1>9, Zenon DEF vars, client, network, node
<1> QED
  BY <1>5, <1>6, <1>7, <1>8, <1>9, OpsPlacedHandlerStep, Zenon DEF Next, BatchStep

=============================================================================
