--------------------------- MODULE ReplayRegistry ---------------------------
(***************************************************************************)
(* The batch replay registry of the tunnel-node (tunnel-node/src/main.rs). *)
(* Every replay-safe batch is identified by a fingerprint of its ops.  The *)
(* first request with a fingerprint executes the batch; a duplicate that   *)
(* arrives while it runs waits for its body on a watch channel; one that   *)
(* arrives later is answered from the cache.  Entries leave by age (expire *)
(* runs inside claim) and by size (evict runs inside complete).            *)
(*                                                                         *)
(* A request is one call of handle_batch.  Its watch channel is named by   *)
(* the request that owns it.                                               *)
(***************************************************************************)
EXTENDS Integers, Sequences, FiniteSets, FiniteSetsExt, Functions

CONSTANTS
  Fingerprints,  \* the keys of the registry
  Batches,       \* calls of handle_batch with a replay-safe batch
  BodySizes,     \* possible lengths of a response body
  REPLAY_TTL,    \* in clock ticks
  REPLAY_MAX_ENTRIES, REPLAY_MAX_BYTES,
  RrMaxTime,     \* bound on the clock
  NoReq          \* no request, no key

ASSUME RegistryAssumption ==
  /\ IsFiniteSet(Batches) /\ BodySizes \subseteq Nat /\ NoReq \notin Batches \cup Fingerprints
  /\ REPLAY_TTL \in Nat \ {0} /\ REPLAY_MAX_ENTRIES \in Nat \ {0} /\ REPLAY_MAX_BYTES \in Nat
  /\ RrMaxTime \in Nat

VARIABLES
  rrNow,         \* Instant::now()
  rrEntries,     \* entries : a partial function Fingerprints -> ReplayEntry
  rrOrder,       \* order : VecDeque of keys
  ready_bytes,
  rrReq,         \* the state of every request
  rrSent,        \* body sent on the watch channel owned by a request
  forgotten      \* history: how often a key's entry was expired or evicted

rrVars == <<rrNow, rrEntries, rrOrder, ready_bytes, rrReq, rrSent, forgotten>>

NoBody == -1

(***************************************************************************)
(* ReplayEntry: Pending { tx, created } or Ready { body, completed }.      *)
(***************************************************************************)
Pending(r) == [st |-> "pending", tx |-> r, at |-> rrNow, size |-> 0]
Ready(r, n) == [st |-> "ready", tx |-> r, at |-> rrNow, size |-> n]

IsPending(es, k) == k \in DOMAIN es /\ es[k].st = "pending"

\* claim's match on a Pending entry.  (Mutant: it is not looked for.)
ClaimNeverWaits(es, k) == FALSE
ClaimWaits(es, k) == IsPending(es, k)

IsReady(es, k) == k \in DOMAIN es /\ es[k].st = "ready"

\* The bytes of the Ready bodies: what ready_bytes accounts for.
ReadySum(es) ==
  MapThenSumSet(LAMBDA k : es[k].size, {k \in DOMAIN es : es[k].st = "ready"})

\* The test of expire for the key at the front of order.
Expired(es, k) == k \notin DOMAIN es \/ rrNow - es[k].at >= REPLAY_TTL

(***************************************************************************)
(* expire: pop keys off the front of order while they are expired, and     *)
(* remove their entries.                                                   *)
(***************************************************************************)
ExpiredPrefix ==
  Max({n \in 0..Len(rrOrder) : \A i \in 1..n : Expired(rrEntries, rrOrder[i])})

\* order after n keys were popped.
PopOrder(n) == SubSeq(rrOrder, n + 1, Len(rrOrder))

\* ready_bytes once only the entries es are left.
BytesAfter(es) == ready_bytes - (ReadySum(rrEntries) - ReadySum(es))

Expire ==
  LET n == ExpiredPrefix
      gone == {rrOrder[i] : i \in 1..n}
      es == Restrict(rrEntries, DOMAIN rrEntries \ gone)
  IN [es |-> es, rrOrder |-> PopOrder(n), bytes |-> BytesAfter(es), gone |-> gone]

OverLimit(es, bytes) ==
  Cardinality(DOMAIN es) > REPLAY_MAX_ENTRIES \/ bytes > REPLAY_MAX_BYTES

\* ready_bytes without the bodies of ks.
GivesBack(es, ks, bytes) == bytes - MapThenSumSet(LAMBDA k : es[k].size, ks)

(***************************************************************************)
(* evict: while the registry is over a limit, pop the front of order.  A   *)
(* Ready entry is removed; a Pending one is rotated to the back, and the   *)
(* loop gives up once only Pending keys are left.  n is the number of keys *)
(* popped; one more rotation finds out that only Pending ones are left if  *)
(* the last key popped was not.                                            *)
(***************************************************************************)
Evict(es, q, bytes) ==
  LET gone(n) == {k \in {q[i] : i \in 1..n} : IsReady(es, k)}
      left(n) == Restrict(es, DOMAIN es \ gone(n))
      over(n) == OverLimit(left(n), GivesBack(es, gone(n), bytes))
      givesUp(n) == n > 0 /\ \A i \in n..Len(q) : IsPending(es, q[i])
      n == Min({m \in 0..Len(q) : ~over(m) \/ givesUp(m) \/ m = Len(q)})
      rotated == SelectSeq(SubSeq(q, 1, n), LAMBDA k : IsPending(es, k))
      once == IF n = Len(q) /\ over(n) /\ ~givesUp(n) /\ rotated # <<>>
              THEN Append(Tail(rotated), Head(rotated)) ELSE rotated
  IN [es |-> left(n), bytes |-> GivesBack(es, gone(n), bytes),
      rrOrder |-> SubSeq(q, n + 1, Len(q)) \o once, gone |-> gone(n)]

Forget(ks) ==
  forgotten' = [k \in Fingerprints |-> forgotten[k] + (IF k \in ks THEN 1 ELSE 0)]

Extend(es, k, e) == [x \in DOMAIN es \cup {k} |-> IF x = k THEN e ELSE es[x]]

-----------------------------------------------------------------------------
RrInit ==
  /\ rrNow = 0
  /\ rrEntries = [k \in {} |-> Ready(NoReq, 0)]
  /\ rrOrder = <<>>
  /\ ready_bytes = 0
  /\ rrReq = [r \in Batches |-> [st |-> "new", key |-> NoReq, chan |-> NoReq,
                                since |-> 0, from |-> NoReq]]
  /\ rrSent = [r \in Batches |-> NoBody]
  /\ forgotten = [k \in Fingerprints |-> 0]

(***************************************************************************)
(* claim: expire, then Hit, Wait or Owner.                                 *)
(***************************************************************************)
Claim(r, k) ==
  LET x == Expire
      hit == IsReady(x.es, k)
      wait == ClaimWaits(x.es, k)
      owner == ~hit /\ ~wait
  IN /\ rrReq[r].st = "new"
     /\ rrNow + REPLAY_TTL <= RrMaxTime   \* the bounded clock can still age this claim
     /\ rrEntries' = IF owner THEN Extend(x.es, k, Pending(r)) ELSE x.es
     /\ rrOrder' = IF owner THEN Append(x.rrOrder, k) ELSE x.rrOrder
     /\ ready_bytes' = x.bytes
     /\ rrReq' = [rrReq EXCEPT ![r] =
          IF hit THEN [@ EXCEPT !.st = "answered", !.key = k, !.from = x.es[k].tx]
          ELSE IF wait THEN [@ EXCEPT !.st = "waiting", !.key = k,
                                      !.chan = x.es[k].tx, !.since = rrNow]
          ELSE [@ EXCEPT !.st = "owner", !.key = k, !.chan = r]]
     /\ Forget(x.gone)
     /\ UNCHANGED <<rrNow, rrSent>>

\* The key complete is called with.
OwnKey(r) == rrReq[r].key

(***************************************************************************)
(* complete, called by the owner when its response body is built: the      *)
(* entry becomes Ready, the body is sent to the waiters if the entry was   *)
(* still Pending, and evict runs.                                          *)
(***************************************************************************)
Complete(r, n) ==
  LET k == OwnKey(r)
      old == IF IsReady(rrEntries, k) THEN rrEntries[k].size ELSE 0
      e == Evict(Extend(rrEntries, k, Ready(r, n)), rrOrder, ready_bytes - old + n)
  IN /\ rrReq[r].st = "owner"
     /\ rrEntries' = e.es
     /\ rrOrder' = e.rrOrder
     /\ ready_bytes' = e.bytes
     /\ rrSent' = IF IsPending(rrEntries, k)
                THEN [rrSent EXCEPT ![rrEntries[k].tx] = n]
                ELSE rrSent
     /\ rrReq' = [rrReq EXCEPT ![r].st = "answered", ![r].from = r]
     /\ Forget(e.gone)
     /\ UNCHANGED rrNow

\* A waiter sees the body on its channel and returns it.
WaitDone(r) ==
  /\ rrReq[r].st = "waiting"
  /\ rrSent[rrReq[r].chan] # NoBody
  /\ rrReq' = [rrReq EXCEPT ![r].st = "answered", ![r].from = rrReq[r].chan]
  /\ UNCHANGED <<rrNow, rrEntries, rrOrder, ready_bytes, rrSent, forgotten>>

\* Some sender of the channel is alive: the entry's clone or the owner's own.
ChannelOpen(c) ==
  \/ \E k \in DOMAIN rrEntries : IsPending(rrEntries, k) /\ rrEntries[k].tx = c
  \/ rrReq[c].st = "owner"

\* A waiter gives up: REPLAY_TTL elapsed, or every sender is gone.
WaitGivesUp(r) ==
  /\ rrReq[r].st = "waiting"
  /\ rrSent[rrReq[r].chan] = NoBody
  /\ rrNow - rrReq[r].since >= REPLAY_TTL \/ ~ChannelOpen(rrReq[r].chan)
  /\ rrReq' = [rrReq EXCEPT ![r].st = "failed"]
  /\ UNCHANGED <<rrNow, rrEntries, rrOrder, ready_bytes, rrSent, forgotten>>

\* The connection of the request drops and its handler future with it.  The
\* entry keeps its own clone of the sender.
Cancel(r) ==
  /\ rrReq[r].st \in {"owner", "waiting"}
  /\ rrReq' = [rrReq EXCEPT ![r].st = "failed"]
  /\ UNCHANGED <<rrNow, rrEntries, rrOrder, ready_bytes, rrSent, forgotten>>

RrTick ==
  /\ rrNow < RrMaxTime
  /\ rrNow' = rrNow + 1
  /\ UNCHANGED <<rrEntries, rrOrder, ready_bytes, rrReq, rrSent, forgotten>>

WaitEnds(r) == WaitDone(r) \/ WaitGivesUp(r)

RrNext ==
  \/ \E r \in Batches, k \in Fingerprints : Claim(r, k)
  \/ \E r \in Batches, n \in BodySizes : Complete(r, n)
  \/ \E r \in Batches : WaitEnds(r) \/ Cancel(r)
  \/ RrTick

\* Time passes, and a waiter whose wait is over is polled again by the runtime.
RrFairness ==
  /\ WF_rrVars(RrTick)
  /\ WF_rrVars(\E r \in Batches : WaitEnds(r))

RrSpec == RrInit /\ [][RrNext]_rrVars /\ RrFairness

-----------------------------------------------------------------------------
\* The type of every variable.
RrTypeOK ==
  /\ rrNow \in 0..RrMaxTime
  /\ DOMAIN rrEntries \subseteq Fingerprints
  /\ \A k \in DOMAIN rrEntries :
       rrEntries[k] \in [st : {"pending", "ready"}, tx : Batches,
                      at : 0..RrMaxTime, size : BodySizes \cup {0}]
  /\ rrOrder \in Seq(Fingerprints)
  /\ ready_bytes \in Nat
  /\ rrReq \in [Batches -> [st : {"new", "owner", "waiting", "answered", "failed"},
                           key : Fingerprints \cup {NoReq}, chan : Batches \cup {NoReq},
                           since : 0..RrMaxTime, from : Batches \cup {NoReq}]]
  /\ rrSent \in [Batches -> BodySizes \cup {NoBody}]
  /\ forgotten \in [Fingerprints -> Nat]

\* ready_bytes is exactly the size of the Ready bodies: none of the
\* saturating subtractions of complete, expire and evict ever saturates.
BytesExact == ready_bytes = ReadySum(rrEntries)

\* order holds a key at most once and only keys that have an entry, so expire
\* and evict never meet their None arm.
OrderSound ==
  /\ \A i, j \in 1..Len(rrOrder) : rrOrder[i] = rrOrder[j] => i = j
  /\ \A i \in 1..Len(rrOrder) : rrOrder[i] \in DOMAIN rrEntries

\* The byte limit of evict: while the bodies exceed it, nothing evict could
\* still remove is left in order.
BytesLimited ==
  ready_bytes > REPLAY_MAX_BYTES => \A i \in 1..Len(rrOrder) : IsPending(rrEntries, rrOrder[i])

\* A batch is executed by one request only: a second execution of the same
\* batch needs its entry to have been expired or evicted in between.
ExecutedOnce ==
  \A k \in Fingerprints :
    Cardinality({r \in Batches : rrReq[r].key = k /\ rrReq[r].chan = r})
      <= 1 + forgotten[k]

\* A duplicate is answered only with the body of a request of the same batch
\* that executed it.
AnsweredBySameBatch ==
  \A r \in Batches : rrReq[r].st = "answered" =>
    /\ rrReq[r].from \in Batches
    /\ rrReq[rrReq[r].from].key = rrReq[r].key
    /\ rrReq[rrReq[r].from].chan = rrReq[r].from

\* Every duplicate that waits for the owner of its batch gets an answer, also
\* when the owner's handler was dropped.
NoneWaits == \A r \in Batches : rrReq[r].st # "waiting"

\* A batch that arrives twice is executed once and answered by its own.
ReplayedOnce == ExecutedOnce /\ AnsweredBySameBatch

\* The contract of the registry: its books are exact and within their limits,
\* and no batch is replayed.
ReplaySound == RrTypeOK /\ BytesExact /\ OrderSound /\ BytesLimited /\ ReplayedOnce
=============================================================================
