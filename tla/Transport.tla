----------------------------- MODULE Transport -----------------------------
(***************************************************************************)
(* The connections of DomainFronter to the Google edge                     *)
(* (src/src/domain_fronter.rs): the pool of HTTP/1.1 sockets, the one      *)
(* shared HTTP/2 connection, the loops that keep the pool warm, and the    *)
(* heartbeat that swaps the front IP while all of them are at work.        *)
(*                                                                         *)
(* connect_host is the identity of the current Arc<String>: 0 at the       *)
(* start, one more with every swap; Arc::ptr_eq is equality.  A socket's   *)
(* age is counted in Age steps; an HTTP/2 connection is `old` once its TTL *)
(* has passed and `dead` once its driver task has ended.                   *)
(***************************************************************************)
EXTENDS Naturals, FiniteSets

CONSTANTS
    TrSetups,       \* configurations: [http1, refill]
    Tasks,          \* requests served at once
    POOL_MAX,
    POOL_TTL,       \* age at which a pooled socket expires
    POOL_MIN,
    MIN_REMAINING,  \* life a socket must have left to count in the refill
    WARM,           \* sockets warm() opens
    THRESHOLD,      \* heartbeat failures that start a rescan
    MaxSwaps,       \* bound on front IP swaps
    MaxGen          \* bound on HTTP/2 connections opened

ASSUME TransportAssumption ==
    /\ {POOL_MAX, POOL_MIN, MIN_REMAINING, WARM, THRESHOLD, MaxSwaps, MaxGen} \subseteq Nat
    /\ POOL_TTL \in Nat \ {0}

VARIABLES
    tr,            \* the configuration
    connect_host,
    pool,          \* set of [slot, host, age]
    h2_cell,       \* {} or {[gen, host, old]}
    dead,          \* generations whose driver task has ended
    h2_disabled,
    h2_backoff,    \* inside H2_OPEN_FAILURE_BACKOFF_SECS of a failed open
    h2_open_lock,  \* {} or the task that opens an HTTP/2 connection
    h2_generation,
    pc,            \* task -> where it is
    held,          \* task -> [gen, host, age] of what it uses or opens
    opener,        \* warm and refill: [pc, host, left]
    health         \* the heartbeat: [pc, fails]

trVars == <<tr, connect_host, pool, h2_cell, dead, h2_disabled, h2_backoff, h2_open_lock,
            h2_generation, pc, held, opener, health>>
h2Vars == <<h2_cell, dead, h2_disabled, h2_backoff, h2_open_lock, h2_generation>>

Slots == 1..POOL_MAX
Openers == {"warm", "refill"}
NoConn == [gen |-> 0, host |-> 0, age |-> 0]

(* What a cache read of the cell accepts.                                  *)
Usable(c) == ~c.old /\ c.gen \notin dead /\ c.host = connect_host

(* Push an entry opened against `host`, under the pool lock: dropped after *)
(* a swap, and when the pool is full.  (Mutant: pushed after a swap.)      *)
PushStale(host, age) ==
    IF Cardinality(pool) >= POOL_MAX THEN pool
    ELSE pool \union {[slot |-> CHOOSE s \in Slots : \A e \in pool : e.slot # s,
                       host |-> host, age |-> age]}

Push(host, age) ==
    IF host # connect_host \/ Cardinality(pool) >= POOL_MAX THEN pool
    ELSE pool \union
            {[slot |-> CHOOSE s \in Slots : \A e \in pool : e.slot # s,
              host |-> host, age |-> age]}

-----------------------------------------------------------------------------
TrInit ==
    /\ tr \in TrSetups
    /\ connect_host = 0
    /\ pool = {}
    /\ h2_cell = {} /\ dead = {} /\ h2_disabled = tr.http1
    /\ h2_backoff = FALSE /\ h2_open_lock = {} /\ h2_generation = 0
    /\ pc = [t \in Tasks |-> "idle"]
    /\ held = [t \in Tasks |-> NoConn]
    /\ opener = [o \in Openers |-> [pc |-> "rest", host |-> 0,
                                    left |-> IF o = "warm" /\ tr.refill THEN WARM ELSE 0]]
    /\ health = [pc |-> "watch", fails |-> 0]

Goto(t, p) == pc' = [pc EXCEPT ![t] = p]
Hold(t, conn) == held' = [held EXCEPT ![t] = conn]

(* A request starts; ensure_h2's first look at the cell.  A disabled h2    *)
(* goes to the pool at once.                                               *)
EnsureH2(t) ==
    /\ pc[t] = "idle"
    /\ \/ /\ h2_disabled
          /\ Goto(t, "h1get")
          /\ UNCHANGED held
       \/ /\ ~h2_disabled
          /\ \E c \in h2_cell :
               /\ Usable(c)
               /\ Hold(t, [gen |-> c.gen, host |-> c.host, age |-> 0])
          /\ Goto(t, "h2send")
       \/ /\ ~h2_disabled
          /\ \A c \in h2_cell : ~Usable(c)
          /\ Goto(t, "h2miss")
          /\ UNCHANGED held
    /\ UNCHANGED <<tr, connect_host, pool, h2_cell, dead, h2_disabled, h2_backoff,
                   h2_open_lock, h2_generation, opener, health>>

(* The backoff check and the try_lock on h2_open_lock; the loser uses h1.  *)
MustUseH1 == h2_backoff \/ h2_open_lock # {}

Arbitrate(t) ==
    /\ pc[t] = "h2miss"
    /\ IF MustUseH1
       THEN Goto(t, "h1get") /\ UNCHANGED h2_open_lock
       ELSE Goto(t, "h2check") /\ h2_open_lock' = {t}
    /\ UNCHANGED <<tr, connect_host, pool, h2_cell, dead, h2_disabled, h2_backoff,
                   h2_generation, held, opener, health>>

(* The second look at the cell, under the open lock; a miss starts the     *)
(* handshake against the host of this moment.                              *)
Recheck(t) ==
    /\ pc[t] = "h2check"
    /\ \/ /\ \E c \in h2_cell :
               /\ Usable(c)
               /\ Hold(t, [gen |-> c.gen, host |-> c.host, age |-> 0])
          /\ h2_open_lock' = {}
          /\ Goto(t, "h2send")
       \/ /\ \A c \in h2_cell : ~Usable(c)
          /\ Hold(t, [gen |-> 0, host |-> connect_host, age |-> 0])
          /\ Goto(t, "h2open")
          /\ UNCHANGED h2_open_lock
    /\ UNCHANGED <<tr, connect_host, pool, h2_cell, dead, h2_disabled, h2_backoff,
                   h2_generation, opener, health>>

(* The handshake succeeds: a new generation, cached unless a swap landed   *)
(* meanwhile, and used either way.                                         *)
OpenH2Ok(t) ==
    /\ pc[t] = "h2open"
    /\ h2_generation < MaxGen
    /\ h2_generation' = h2_generation + 1
    /\ h2_backoff' = FALSE
    /\ h2_cell' = IF held[t].host # connect_host THEN {}
                  ELSE {[gen |-> h2_generation + 1, host |-> held[t].host, old |-> FALSE]}
    /\ held' = [held EXCEPT ![t].gen = h2_generation + 1]
    /\ h2_open_lock' = {}
    /\ Goto(t, "h2send")
    /\ UNCHANGED <<tr, connect_host, pool, dead, h2_disabled, opener, health>>

(* The handshake fails or runs out of time: backoff; an ALPN refusal       *)
(* disables h2 for good.  Both clear the cell.                             *)
OpenH2Err(t, refused) ==
    /\ pc[t] = "h2open"
    /\ h2_disabled' = (h2_disabled \/ refused)
    /\ h2_backoff' = (h2_backoff \/ ~refused)
    /\ h2_cell' = {}
    /\ h2_open_lock' = {}
    /\ Goto(t, "h1get")
    /\ Hold(t, NoConn)
    /\ UNCHANGED <<tr, connect_host, pool, dead, h2_generation, opener, health>>

(* The round trip over h2 (h2_round_trip, run_h2_relay_with_send): done, or*)
(* refused by the edge (sticky disable), or failed (poison_h2_if_gen); a   *)
(* failure after the request was sent may also end the request.            *)
H2Done(t) ==
    /\ pc[t] = "h2send"
    /\ Goto(t, "idle") /\ Hold(t, NoConn)
    /\ UNCHANGED <<tr, connect_host, pool, h2_cell, dead, h2_disabled, h2_backoff,
                   h2_open_lock, h2_generation, opener, health>>

H2Refused(t) ==
    /\ pc[t] = "h2send"
    /\ h2_disabled' = TRUE
    /\ h2_cell' = {}
    /\ Goto(t, "h1get") /\ Hold(t, NoConn)
    /\ UNCHANGED <<tr, connect_host, pool, dead, h2_backoff, h2_open_lock,
                   h2_generation, opener, health>>

\* (Mutant: whatever connection is cached is dropped.)
PoisonH2(g) == {}
PoisonH2IfGen(g) == {c \in h2_cell : c.gen # g}

H2Failed(t, next) ==
    /\ pc[t] = "h2send"
    /\ h2_cell' = PoisonH2IfGen(held[t].gen)
    /\ Goto(t, next) /\ Hold(t, NoConn)
    /\ UNCHANGED <<tr, connect_host, pool, dead, h2_disabled, h2_backoff, h2_open_lock,
                   h2_generation, opener, health>>

(* acquire: drop expired and stale sockets, hand out the freshest, or open *)
(* one against the host of this moment.                                    *)
Kept == {e \in pool : e.age < POOL_TTL /\ e.host = connect_host}

Acquire(t) ==
    /\ pc[t] = "h1get"
    /\ \/ /\ \E e \in Kept :
               /\ \A f \in Kept : e.age <= f.age
               /\ pool' = Kept \ {e}
               /\ Hold(t, [gen |-> 0, host |-> e.host, age |-> e.age])
          /\ Goto(t, "h1use")
       \/ /\ Kept = {}
          /\ pool' = {}
          /\ Hold(t, [gen |-> 0, host |-> connect_host, age |-> 0])
          /\ Goto(t, "h1open")
    /\ UNCHANGED <<h2Vars, tr, connect_host, opener, health>>

(* The open ends.  A swap during it makes acquire open once more, against  *)
(* the new host; the second socket is used whatever happened meanwhile.    *)
H1Opened(t) ==
    /\ pc[t] \in {"h1open", "h1again"}
    /\ IF pc[t] = "h1open" /\ held[t].host # connect_host
       THEN Goto(t, "h1again") /\ Hold(t, [NoConn EXCEPT !.host = connect_host])
       ELSE Goto(t, "h1use") /\ UNCHANGED held
    /\ UNCHANGED <<h2Vars, tr, connect_host, pool, opener, health>>

H1OpenFailed(t) ==
    /\ pc[t] \in {"h1open", "h1again"}
    /\ Goto(t, "idle") /\ Hold(t, NoConn)
    /\ UNCHANGED <<h2Vars, tr, connect_host, pool, opener, health>>

(* The exchange over the socket ends: release puts a good one back, an     *)
(* error drops it.                                                         *)
H1Done(t, ok) ==
    /\ pc[t] = "h1use"
    /\ pool' = IF ok /\ held[t].age < POOL_TTL THEN Push(held[t].host, held[t].age) ELSE pool
    /\ Goto(t, "idle") /\ Hold(t, NoConn)
    /\ UNCHANGED <<h2Vars, tr, connect_host, opener, health>>

-----------------------------------------------------------------------------
(* warm and run_pool_refill open a socket and push it under the pool lock. *)
(* The refill first evicts what has expired and stops once POOL_MIN        *)
(* sockets with enough life left are pooled.                               *)
Healthy == {e \in pool : e.age + MIN_REMAINING < POOL_TTL}

OpenerStart(o) ==
    /\ tr.refill
    /\ opener[o].pc = "rest"
    /\ \/ /\ o = "warm" /\ opener[o].left > 0
          /\ opener' = [opener EXCEPT ![o].pc = "open", ![o].host = connect_host]
          /\ UNCHANGED pool
       \/ /\ o = "refill"
          /\ pool' = {e \in pool : e.age < POOL_TTL}
          /\ opener' = IF Cardinality(Healthy) >= POOL_MIN THEN opener
                       ELSE [opener EXCEPT ![o].pc = "open", ![o].host = connect_host]
    /\ UNCHANGED <<h2Vars, tr, connect_host, pc, held, health>>

(* warm's i-th socket is dated 8 s earlier than the one before it.         *)
OpenerEnd(o, ok) ==
    /\ opener[o].pc = "open"
    /\ LET left == IF o = "warm" THEN opener[o].left - 1 ELSE 0
           age == IF o = "warm" /\ opener[o].left < WARM THEN 1 ELSE 0
       IN /\ opener' = [opener EXCEPT ![o] = [pc |-> "rest", host |-> 0, left |-> left]]
          /\ pool' = IF ok THEN Push(opener[o].host, age) ELSE pool
    /\ UNCHANGED <<h2Vars, tr, connect_host, pc, held, health>>

(* run_ip_health: a probe, the count of failures in a row, and the rescan. *)
Heartbeat(ok) ==
    /\ health.pc = "watch"
    /\ health' = IF ok THEN [pc |-> "watch", fails |-> 0]
                 ELSE IF health.fails + 1 < THRESHOLD
                 THEN [pc |-> "watch", fails |-> health.fails + 1]
                 ELSE [pc |-> "rescan", fails |-> 0]
    /\ UNCHANGED <<h2Vars, tr, connect_host, pool, pc, held, opener>>

(* The rescan finds nothing else, or the swap starts: the new host is      *)
(* stored first, then the pool is cleared, then the cell.                  *)
Rescan(found) ==
    /\ health.pc = "rescan"
    /\ IF found /\ connect_host < MaxSwaps
       THEN connect_host' = connect_host + 1 /\ health' = [pc |-> "pool", fails |-> 0]
       ELSE UNCHANGED connect_host /\ health' = [pc |-> "watch", fails |-> 0]
    /\ UNCHANGED <<h2Vars, tr, pool, pc, held, opener>>

SwapPool ==
    /\ health.pc = "pool"
    /\ pool' = {}
    /\ health' = [health EXCEPT !.pc = "cell"]
    /\ UNCHANGED <<h2Vars, tr, connect_host, pc, held, opener>>

SwapCell ==
    /\ health.pc = "cell"
    /\ h2_cell' = {}
    /\ health' = [health EXCEPT !.pc = "watch"]
    /\ UNCHANGED <<tr, connect_host, pool, dead, h2_disabled, h2_backoff, h2_open_lock,
                   h2_generation, pc, held, opener>>

(* The driver of a connection ends: GOAWAY, a network error, or a PING     *)
(* without an answer (spawn_h2_driver_with_ping_liveness).                 *)
DriverEnds(g) ==
    /\ g \in 1..h2_generation \ dead
    /\ dead' = dead \union {g}
    /\ UNCHANGED <<tr, connect_host, pool, h2_cell, h2_disabled, h2_backoff, h2_open_lock,
                   h2_generation, pc, held, opener, health>>

(* Time passes: sockets age, the cell's TTL ends, the backoff ends.        *)
Age ==
    /\ tr.refill
    /\ pool' = {[e EXCEPT !.age = IF @ < POOL_TTL THEN @ + 1 ELSE @] : e \in pool}
    /\ held' = [t \in Tasks |->
                  IF pc[t] = "h1use" /\ held[t].age < POOL_TTL
                  THEN [held[t] EXCEPT !.age = @ + 1] ELSE held[t]]
    /\ UNCHANGED <<h2Vars, tr, connect_host, pc, opener, health>>

CellExpires ==
    /\ \E c \in h2_cell : ~c.old
    /\ h2_cell' = {[c EXCEPT !.old = TRUE] : c \in h2_cell}
    /\ UNCHANGED <<tr, connect_host, pool, dead, h2_disabled, h2_backoff, h2_open_lock,
                   h2_generation, pc, held, opener, health>>

BackoffEnds ==
    /\ h2_backoff
    /\ h2_backoff' = FALSE
    /\ UNCHANGED <<tr, connect_host, pool, h2_cell, dead, h2_disabled, h2_open_lock,
                   h2_generation, pc, held, opener, health>>

TaskStep(t) ==
    \/ Arbitrate(t) \/ Recheck(t)
    \/ OpenH2Ok(t) \/ \E refused \in BOOLEAN : OpenH2Err(t, refused)
    \/ H2Done(t) \/ H2Refused(t) \/ \E next \in {"h1get", "idle"} : H2Failed(t, next)
    \/ Acquire(t) \/ H1Opened(t) \/ H1OpenFailed(t)
    \/ \E ok \in BOOLEAN : H1Done(t, ok)

TrNext ==
    \/ \E t \in Tasks : EnsureH2(t) \/ TaskStep(t)
    \/ \E o \in Openers : OpenerStart(o) \/ \E ok \in BOOLEAN : OpenerEnd(o, ok)
    \/ \E ok \in BOOLEAN : Heartbeat(ok) \/ Rescan(ok)
    \/ SwapPool \/ SwapCell
    \/ \E g \in 1..MaxGen : DriverEnds(g)
    \/ Age \/ CellExpires \/ BackoffEnds

TrSpec == TrInit /\ [][TrNext]_trVars

-----------------------------------------------------------------------------
TrTypeOK ==
    /\ connect_host \in 0..MaxSwaps
    /\ pool \subseteq [slot : Slots, host : 0..MaxSwaps, age : 0..POOL_TTL]
    /\ \A e, f \in pool : e.slot = f.slot => e = f
    /\ h2_cell \subseteq [gen : 1..MaxGen, host : 0..MaxSwaps, old : BOOLEAN]
    /\ \A c, d \in h2_cell : c = d
    /\ dead \subseteq 1..h2_generation
    /\ pc \in [Tasks -> {"idle", "h2miss", "h2check", "h2open", "h2send",
                         "h1get", "h1open", "h1again", "h1use"}]

(* Once a swap is over, nothing cached leads to an IP it swapped out: not a*)
(* pooled socket and not the h2 cell, whatever was opening, in use or being*)
(* released while the swap ran.                                            *)
SwapLeavesNothingStale ==
    /\ health.pc \notin {"pool"} => \A e \in pool : e.host = connect_host
    /\ health.pc \notin {"pool", "cell"} => \A c \in h2_cell : c.host = connect_host

(* At most one task holds the open lock, and it is the one that opens.     *)
OneOpener ==
    /\ \A t, u \in Tasks : {pc[t], pc[u]} \subseteq {"h2check", "h2open"} => t = u
    /\ \A t \in Tasks : pc[t] \in {"h2check", "h2open"} <=> h2_open_lock = {t}

(* A connection that requests can still use is only taken out of the cell  *)
(* by the edge's refusal, by a swap of the front IP, or by a request that  *)
(* failed on that very connection: a late failure on an older one, or an   *)
(* open that fails, never takes a good one down.                           *)
GoodCellSurvives ==
    \A c \in h2_cell : Usable(c) /\ c \notin h2_cell' =>
      \/ h2_disabled'
      \/ health.pc = "cell"
      \/ [c EXCEPT !.old = TRUE] \in h2_cell'
      \/ \E t \in Tasks : pc[t] = "h2send" /\ held[t].gen = c.gen /\ pc'[t] # "h2send"

(* The contract of the connections to the edge: a swap of the front IP     *)
(* leaves nothing of the old one behind, and one task opens at a time.     *)
TransportSound == TrTypeOK /\ SwapLeavesNothingStale /\ OneOpener
=============================================================================
