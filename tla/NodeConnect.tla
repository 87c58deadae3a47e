---------------------------- MODULE NodeConnect ----------------------------
(***************************************************************************)
(* How the tunnel-node opens upstream connections (tunnel-node/src/main.rs *)
(* PrewarmState, create_session, handle_connect): the DNS cache, the pool  *)
(* of pre-opened connections with its reservations, and the hot-host       *)
(* counters that trigger a prewarm.                                        *)
(*                                                                         *)
(* A job is one connect or connect_data op of a batch.  Opening its        *)
(* connection is one task; the prewarm it may spawn is another one, which  *)
(* outlives it.  A lock is held for one step.                              *)
(***************************************************************************)
EXTENDS Integers, Sequences, FiniteSets, SequencesExt, FiniteSetsExt

CONSTANTS
  Hosts,          \* destinations
  Jobs,           \* connect ops that run at the same time
  PoolTTL,        \* TCP_POOL_TTL, in ticks
  PerHostMax,     \* TCP_POOL_PER_HOST_MAX
  TotalMax,       \* TCP_POOL_TOTAL_MAX
  DnsTTL,         \* DNS_CACHE_TTL
  DnsMax,         \* DNS_CACHE_MAX_ENTRIES
  HotWindow,      \* HOT_HOST_WINDOW
  HotMin,         \* HOT_HOST_MIN_COUNT
  HotMaxKeys      \* HOT_HOSTS_MAX_KEYS

ASSUME NodeConnectAssumption ==
  /\ PoolTTL \in Nat \ {0} /\ PerHostMax \in Nat \ {0} /\ TotalMax \in Nat \ {0}
  /\ DnsTTL \in Nat \ {0} /\ DnsMax \in Nat \ {0}
  /\ HotWindow \in Nat /\ HotMin \in Nat \ {0} /\ HotMaxKeys \in Nat \ {0}

NcTasks == Jobs \X {"open", "warm"}

VARIABLES
  ncTask,         \* what a task does, for which host
  queue,          \* HostState.queue of a host: pooled connections, oldest first
  pending,        \* HostState.pending of a host
  total_actual, total_pending,
  dns,            \* DnsCache.entries: the age of a host's entry, counted from
                  \* the start of its lookup
  seen            \* HotHosts.seen: the ages of a host's recorded connects

ncPool == <<queue, pending, total_actual, total_pending>>
ncVars == <<ncTask, ncPool, dns, seen>>

\* age: ticks since the lookup of a task began.
NoTask(h) == [pc |-> "off", host |-> h, age |-> 0]
At(t, pc) == ncTask[t].pc = pc
NcGoto(t, pc) == ncTask' = [ncTask EXCEPT ![t].pc = pc]

NcUp(n, cap) == IF n < cap THEN n + 1 ELSE cap
\* An entry as old as DnsTTL is as good as none.
DnsFresh(d) == d < DnsTTL

NcInit ==
  /\ ncTask = [t \in NcTasks |-> NoTask(CHOOSE h \in Hosts : TRUE)]
  /\ queue = [h \in Hosts |-> <<>>] /\ pending = [h \in Hosts |-> 0]
  /\ total_actual = 0 /\ total_pending = 0
  /\ dns = [h \in {} |-> 0]
  /\ seen = [h \in {} |-> <<>>]

-----------------------------------------------------------------------------
(* TcpPool.                                                                *)

PoolFresh(c) == c.age < PoolTTL

\* try_take: stale connections are dropped off the front until a fresh one is
\* found; open_tcp tries again when that one has been closed by its peer.
TryTake(t) ==
  LET h == ncTask[t].host
      found == {i \in DOMAIN queue[h] : PoolFresh(queue[h][i])}
      n == IF found = {} THEN Len(queue[h]) ELSE Min(found)
  IN
  /\ At(t, "take")
  /\ queue' = [queue EXCEPT ![h] = SubSeq(@, n + 1, Len(@))]
  /\ total_actual' = total_actual - n
  /\ NcGoto(t, IF found = {} THEN "resolve" ELSE IF queue[h][n].alive THEN "have" ELSE "take")
  /\ UNCHANGED <<pending, total_pending, dns, seen>>

\* prune_stale, when the pool is full.
Pruned(full) ==
  IF full THEN [h \in Hosts |-> SelectSeq(queue[h], PoolFresh)] ELSE queue

\* The sum of a counter over the hosts.
Total(f) == MapThenSumSet(LAMBDA h : f[h], Hosts)

\* The test of a host's cap.
HostFull(q, h) == Len(q[h]) + pending[h] >= PerHostMax

TryReserve(t) ==
  LET h == ncTask[t].host
      full == total_actual + total_pending >= TotalMax
      q == Pruned(full)
      actual == total_actual - (Total([g \in Hosts |-> Len(queue[g]) - Len(q[g])]))
      ok == actual + total_pending < TotalMax /\ ~HostFull(q, h)
  IN
  /\ At(t, "reserve")
  /\ queue' = q /\ total_actual' = actual
  /\ pending' = IF ok THEN [pending EXCEPT ![h] = @ + 1] ELSE pending
  /\ total_pending' = IF ok THEN total_pending + 1 ELSE total_pending
  /\ NcGoto(t, IF ok THEN "resolve" ELSE "off")
  /\ UNCHANGED <<dns, seen>>

CommitReserve(t) ==
  LET h == ncTask[t].host IN
  /\ At(t, "commit")
  /\ queue' = [queue EXCEPT ![h] = Append(@, [age |-> 0, alive |-> TRUE])]
  /\ pending' = [pending EXCEPT ![h] = @ - 1]
  /\ total_pending' = total_pending - 1 /\ total_actual' = total_actual + 1
  /\ NcGoto(t, "off")
  /\ UNCHANGED <<dns, seen>>

CancelReserve(t) ==
  LET h == ncTask[t].host IN
  /\ At(t, "release")
  /\ pending' = [pending EXCEPT ![h] = @ - 1] /\ total_pending' = total_pending - 1
  /\ NcGoto(t, "off")
  /\ UNCHANGED <<queue, total_actual, dns, seen>>

-----------------------------------------------------------------------------
(* DnsCache and connect_fresh.                                             *)

Resolve(t) ==
  LET h == ncTask[t].host
      hit == h \in DOMAIN dns /\ DnsFresh(dns[h])
  IN
  /\ At(t, "resolve")
  /\ ncTask' = [ncTask EXCEPT ![t].pc = IF hit THEN "dial" ELSE "lookup", ![t].age = 0]
  /\ UNCHANGED <<ncPool, dns, seen>>

\* An entry too many: any other one goes.
DnsFull == Cardinality(DOMAIN dns) >= DnsMax

\* The lookup returns; the entry expires DnsTTL after the lookup began.
LookupDone(t) ==
  LET h == ncTask[t].host IN
  /\ At(t, "lookup")
  /\ \E kept \in (IF DnsFull THEN {DOMAIN dns \ {v} : v \in DOMAIN dns} ELSE {DOMAIN dns}) :
       dns' = [g \in kept \cup {h} |-> IF g = h THEN ncTask[t].age ELSE dns[g]]
  /\ ncTask' = [ncTask EXCEPT ![t].pc = "dial", ![t].age = 0]
  /\ UNCHANGED <<ncPool, seen>>

\* Where a prewarm goes on after it failed.  (Mutant: it just ends.)
JustEnds(t) == "off"
AfterFailure(t) == IF t[2] = "warm" THEN "release" ELSE "off"

\* The lookup failed, no address answers, or the timeout over both: the entry
\* is evicted.
ConnectFails(t) ==
  /\ At(t, "lookup") \/ At(t, "dial")
  /\ dns' = Restrict(dns, DOMAIN dns \ {ncTask[t].host})
  /\ ncTask' = [ncTask EXCEPT ![t].pc = AfterFailure(t), ![t].age = 0]
  /\ UNCHANGED <<ncPool, seen>>

Connected(t) ==
  /\ At(t, "dial")
  /\ NcGoto(t, IF t[2] = "warm" THEN "commit" ELSE "have")
  /\ UNCHANGED <<ncPool, dns, seen>>

-----------------------------------------------------------------------------
(* HotHosts.                                                               *)

InWindow(q) == SelectSeq(q, LAMBDA a : a <= HotWindow)

\* The recorded connects once a new key h has room: prune, then any victim.
RoomFor(h) ==
  LET live == {g \in DOMAIN seen : InWindow(seen[g]) # <<>>}
      pruned == [g \in live |-> InWindow(seen[g])]
  IN IF h \in DOMAIN seen \/ Cardinality(DOMAIN seen) < HotMaxKeys THEN {seen}
     ELSE IF Cardinality(live) < HotMaxKeys THEN {pruned}
     ELSE {Restrict(pruned, live \ {v}) : v \in live}

\* The queue of h with the connect recorded, at most HotMin long.
ConnectRecorded(q) ==
  LET w == InWindow(q)
      keep == IF Len(w) < HotMin THEN Len(w) ELSE HotMin - 1
  IN Append(SubSeq(w, Len(w) - keep + 1, Len(w)), 0)

RecordAndCheck(t) ==
  LET h == ncTask[t].host IN
  /\ At(t, "record")
  /\ \E s \in RoomFor(h) :
       LET q == ConnectRecorded(IF h \in DOMAIN s THEN s[h] ELSE <<>>) IN
       /\ seen' = [g \in DOMAIN s \cup {h} |-> IF g = h THEN q ELSE s[g]]
       /\ NcGoto(t, IF Len(q) >= HotMin THEN "reserve" ELSE "off")
  /\ UNCHANGED <<ncPool, dns>>

-----------------------------------------------------------------------------
(* handle_connect, handle_connect_data_phase1, create_session.             *)

\* The next op of the job; the slot of its prewarm must be free (a bound).
Connect(c, h) ==
  /\ At(<<c, "open">>, "off") /\ At(<<c, "warm">>, "off")
  /\ ncTask' = [ncTask EXCEPT ![<<c, "open">>] = [NoTask(h) EXCEPT !.pc = "take"]]
  /\ UNCHANGED <<ncPool, dns, seen>>

\* open_tcp returned a stream: maybe_prewarm is spawned.  What becomes of the
\* session is NodeSessions.
CreateSession(c) ==
  LET t == <<c, "open">> IN
  /\ At(t, "have")
  /\ ncTask' = [ncTask EXCEPT ![t].pc = "off",
                          ![<<c, "warm">>] = [NoTask(ncTask[t].host) EXCEPT !.pc = "record"]]
  /\ UNCHANGED <<ncPool, dns, seen>>

\* The handler of the batch is dropped at an await, and its JoinSet with it.
DropHandler(c) ==
  LET t == <<c, "open">> IN
  /\ ncTask[t].pc \in {"take", "resolve", "lookup", "dial"}
  /\ ncTask' = [ncTask EXCEPT ![t].pc = "off", ![t].age = 0]
  /\ UNCHANGED <<ncPool, dns, seen>>

PeerCloses(h, i) ==
  /\ queue[h][i].alive
  /\ queue' = [queue EXCEPT ![h][i].alive = FALSE]
  /\ UNCHANGED <<ncTask, pending, total_actual, total_pending, dns, seen>>

NcTick ==
  /\ queue' = [h \in Hosts |-> [i \in DOMAIN queue[h] |->
                 [queue[h][i] EXCEPT !.age = NcUp(@, PoolTTL)]]]
  /\ dns' = [h \in DOMAIN dns |-> NcUp(dns[h], DnsTTL)]
  /\ seen' = [h \in DOMAIN seen |-> [i \in DOMAIN seen[h] |-> NcUp(seen[h][i], HotWindow + 1)]]
  /\ ncTask' = [t \in NcTasks |-> IF At(t, "lookup") THEN [ncTask[t] EXCEPT !.age = NcUp(@, DnsTTL)]
                                                ELSE ncTask[t]]
  /\ UNCHANGED <<pending, total_actual, total_pending>>

NcRun(t) ==
  \/ TryTake(t) \/ TryReserve(t) \/ CommitReserve(t) \/ CancelReserve(t)
  \/ Resolve(t) \/ LookupDone(t) \/ ConnectFails(t) \/ Connected(t)
  \/ RecordAndCheck(t)

NcNext ==
  \/ \E t \in NcTasks : NcRun(t)
  \/ \E c \in Jobs :
       \/ \E h \in Hosts : Connect(c, h)
       \/ CreateSession(c) \/ DropHandler(c)
  \/ \E h \in Hosts : \E i \in DOMAIN queue[h] : PeerCloses(h, i)
  \/ NcTick

NcSpec == NcInit /\ [][NcNext]_ncVars

-----------------------------------------------------------------------------
\* The type of every variable.
NcTypeOK ==
  /\ ncTask \in [NcTasks -> [pc : {"off", "take", "resolve", "lookup", "dial", "have",
                               "record", "reserve", "commit", "release"},
                         host : Hosts, age : 0..DnsTTL]]
  /\ \A h \in Hosts : queue[h] \in Seq([age : 0..PoolTTL, alive : BOOLEAN])
  /\ pending \in [Hosts -> Nat] /\ total_actual \in Nat /\ total_pending \in Nat
  /\ DOMAIN dns \subseteq Hosts /\ \A h \in DOMAIN dns : dns[h] \in 0..DnsTTL
  /\ DOMAIN seen \subseteq Hosts
  /\ \A h \in DOMAIN seen : seen[h] \in Seq(0..(HotWindow + 1)) /\ Len(seen[h]) <= HotMin

\* The prewarms that hold a reservation for host h.
Holders(h) ==
  {t \in NcTasks : /\ t[2] = "warm" /\ ncTask[t].host = h
                 /\ ncTask[t].pc \in {"resolve", "lookup", "dial", "commit", "release"}}

\* The pool's counters agree with its queues and with the prewarms under way,
\* so that none of the saturating subtractions saturates: every reservation is
\* given back once, by commit or by cancel.
PoolCounted ==
  /\ total_actual = Total([h \in Hosts |-> Len(queue[h])])
  /\ total_pending = Total(pending)
  /\ \A h \in Hosts : pending[h] = Cardinality(Holders(h))

\* Pooled connections and prewarms under way together respect both caps.
PoolBounded ==
  /\ total_actual + total_pending <= TotalMax
  /\ \A h \in Hosts : Len(queue[h]) + pending[h] <= PerHostMax

\* The DNS cache and the hot-host map stay within their caps.
CachesBounded ==
  Cardinality(DOMAIN dns) <= DnsMax /\ Cardinality(DOMAIN seen) <= HotMaxKeys
=============================================================================
