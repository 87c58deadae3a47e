---------------------------- MODULE SafetyProofs ----------------------------
(***************************************************************************)
(* Proofs about two parts of MCSafety, each of its own module: the         *)
(* connections to the Google edge, and signing in to Drive.                *)
(***************************************************************************)
EXTENDS Transport, DriveSignIn, Integers, FiniteSetTheorems, TLAPS

-----------------------------------------------------------------------------
(* Transport.  That a swap of the front IP leaves nothing stale is         *)
(* inductive together with the types; that a good connection survives a    *)
(* late failure needs one fact more: while a task is in its handshake, and *)
(* holds h2_open_lock for it, the cell has no connection a request could   *)
(* use, because hosts are never swapped back.                              *)

\* The values of the fields.
Hosts == 0..MaxSwaps
Ages == 0..POOL_TTL
Opening == {"h2check", "h2open"}
TaskPlaces == {"idle", "h2miss", "h2check", "h2open", "h2send", "h1get", "h1open", "h1again",
               "h1use"}
Sockets == [slot : Slots, host : Hosts, age : Ages]

\* A pool of sockets in slots of their own.
Pooled(p) == p \subseteq Sockets /\ \A e, f \in p : e.slot = f.slot => e = f

\* The types of the cell, the pool and the tasks.
TrTypes ==
    /\ connect_host \in Hosts /\ h2_generation \in 0..MaxGen
    /\ Pooled(pool)
    /\ h2_cell \subseteq [gen : 1..MaxGen, host : Hosts, old : BOOLEAN]
    /\ \A c, d \in h2_cell : c = d
    /\ \A c \in h2_cell : c.host <= connect_host
    /\ dead \subseteq 1..h2_generation
    /\ pc \in [Tasks -> TaskPlaces]
    /\ held \in [Tasks -> [gen : 0..MaxGen, host : Hosts, age : Ages]]
    /\ opener \in [Openers -> [pc : {"rest", "open"}, host : Hosts, left : Int]]
    /\ health \in [pc : {"watch", "rescan", "pool", "cell"}, fails : Nat]
    /\ h2_open_lock \in SUBSET Tasks
    /\ \A t \in Tasks : pc[t] \in Opening <=> h2_open_lock = {t}

\* The open lock was taken because no cached connection was usable, and none
\* becomes usable while it is held.
NothingToTakeDown ==
    \A t \in Tasks : pc[t] = "h2open" => \A c \in h2_cell : ~Usable(c)

TrInv == TrTypes /\ SwapLeavesNothingStale /\ NothingToTakeDown

-----------------------------------------------------------------------------
\* A pool that is not full has a free slot for the CHOOSE of Push.
LEMMA FreeSlot ==
    ASSUME NEW p, Pooled(p), Cardinality(p) < POOL_MAX
    PROVE  \E s \in Slots : \A e \in p : e.slot # s
<1> DEFINE slot == [e \in p |-> e.slot]
<1>1. POOL_MAX \in Nat
  BY TransportAssumption, Zenon DEF TransportAssumption
<1>2. IsFiniteSet(Slots) /\ Cardinality(Slots) = POOL_MAX
  BY <1>1, FS_Interval DEF Slots
<1>3. slot \in Injection(p, Slots)
  BY Zenon DEF Pooled, Sockets, Injection, IsInjective
<1>4. slot \in Surjection(p, Slots) => Cardinality(p) = POOL_MAX
  BY <1>2, <1>3, FS_Injection, Zenon
<1>5. IsFiniteSet(p)
  BY <1>2, <1>3, FS_Injection, Zenon
<1>6. Cardinality(p) # POOL_MAX
  BY <1>1, <1>5, FS_CardinalityType
<1>7. slot \notin Surjection(p, Slots) /\ slot \in [p -> Slots]
  BY <1>3, <1>4, <1>6, Zenon DEF Injection
<1> QED
  BY <1>7, Zenon DEF Surjection

\* What Push leaves in the pool: sockets that were there, and one to the host
\* of this moment.
LEMMA PushTyped ==
    ASSUME Pooled(pool), NEW h \in Hosts, NEW a \in Ages
    PROVE  /\ Pooled(Push(h, a))
           /\ \A e \in Push(h, a) : e \in pool \/ e.host = connect_host
<1>1. CASE h # connect_host \/ Cardinality(pool) >= POOL_MAX
  <2>1. Push(h, a) = pool
    BY <1>1, Zenon DEF Push
  <2> QED
    BY <2>1, Zenon
<1>2. CASE ~(h # connect_host \/ Cardinality(pool) >= POOL_MAX)
  <2> DEFINE s == CHOOSE s \in Slots : \A e \in pool : e.slot # s
             new == [slot |-> s, host |-> h, age |-> a]
  <2>1. Push(h, a) = pool \cup {new}
    BY <1>2, Zenon DEF Push
  <2>2. Cardinality(pool) < POOL_MAX
    <3>1. POOL_MAX \in Nat
      BY TransportAssumption, Zenon DEF TransportAssumption
    <3>2. IsFiniteSet(Slots)
      BY <3>1, FS_Interval DEF Slots
    <3>3. [e \in pool |-> e.slot] \in Injection(pool, Slots)
      BY Zenon DEF Pooled, Sockets, Injection, IsInjective
    <3>4. Cardinality(pool) \in Nat
      BY <3>2, <3>3, FS_Injection, FS_CardinalityType, Zenon
    <3> QED
      BY <1>2, <3>1, <3>4
  <2>3. s \in Slots /\ \A e \in pool : e.slot # s
    BY <2>2, FreeSlot, Zenon
  <2> HIDE DEF s
  <2>4. new \in Sockets /\ new.slot = s /\ new.host = connect_host
    BY <1>2, <2>3, Zenon DEF Sockets
  <2> HIDE DEF new
  <2> QED
    BY <2>1, <2>3, <2>4, Zenon DEF Pooled
<1> QED
  BY <1>1, <1>2, Zenon

\* The initial states satisfy the invariant.
LEMMA TrInvInit == TrInit => TrInv
<1> SUFFICES ASSUME TrInit PROVE TrInv
  BY Zenon
<1>1. 0 \in Hosts /\ 0 \in Ages /\ 0 \in 0..MaxGen /\ WARM \in Int
  BY TransportAssumption DEF TransportAssumption, Hosts, Ages
<1>2. /\ connect_host \in Hosts /\ h2_generation \in 0..MaxGen /\ Pooled(pool)
      /\ h2_cell = {} /\ dead = {} /\ h2_open_lock = {}
  BY <1>1, Zenon DEF TrInit, Pooled
<1>3. /\ held \in [Tasks -> [gen : 0..MaxGen, host : Hosts, age : Ages]]
      /\ pc \in [Tasks -> TaskPlaces] /\ \A t \in Tasks : pc[t] = "idle"
      /\ health \in [pc : {"watch", "rescan", "pool", "cell"}, fails : Nat]
  BY <1>1, Zenon DEF TrInit, NoConn, TaskPlaces
<1>4. opener \in [Openers -> [pc : {"rest", "open"}, host : Hosts, left : Int]]
  BY <1>1 DEF TrInit
<1>5. TrTypes
  BY <1>2, <1>3, <1>4, Zenon DEF TrTypes, Opening
<1>6. SwapLeavesNothingStale /\ NothingToTakeDown
  BY <1>2, <1>3, Zenon DEF TrInit, SwapLeavesNothingStale, NothingToTakeDown
<1> QED
  BY <1>5, <1>6, Zenon DEF TrInv

\* A task goes somewhere.
LEMMA Moves ==
    ASSUME TrTypes, NEW t \in Tasks, NEW p \in TaskPlaces, Goto(t, p)
    PROVE  /\ pc' \in [Tasks -> TaskPlaces]
           /\ \A u \in Tasks : pc'[u] = IF u = t THEN p ELSE pc[u]
BY Zenon DEF TrTypes, Goto

\* A task holds a connection, or none.
LEMMA Holds ==
    ASSUME TrTypes, NEW t \in Tasks, NEW g \in 0..MaxGen, NEW h \in Hosts, NEW a \in Ages,
           Hold(t, [gen |-> g, host |-> h, age |-> a])
    PROVE  held' \in [Tasks -> [gen : 0..MaxGen, host : Hosts, age : Ages]]
BY Zenon DEF TrTypes, Hold

\* The ranges the records are made of.
LEMMA Bounds ==
    /\ 0 \in Hosts /\ 0 \in Ages /\ 1 \in Ages /\ 0 \in 0..MaxGen
    /\ Hosts \subseteq Nat /\ Ages \subseteq Nat
    /\ MaxGen \in Nat /\ MaxSwaps \in Nat /\ POOL_TTL \in Nat /\ POOL_MAX \in Nat
    /\ THRESHOLD \in Nat
BY TransportAssumption DEF TransportAssumption, Hosts, Ages

\* The steps of a request over HTTP/2.
H2Step(t) ==
    \/ EnsureH2(t) \/ Arbitrate(t) \/ Recheck(t) \/ OpenH2Ok(t)
    \/ \E refused \in BOOLEAN : OpenH2Err(t, refused)
    \/ H2Done(t) \/ H2Refused(t) \/ \E next \in {"h1get", "idle"} : H2Failed(t, next)

\* The open lock is with the task that opens.
LEMMA LockStep ==
    ASSUME TrTypes, NEW t \in Tasks, H2Step(t)
    PROVE  /\ pc' \in [Tasks -> TaskPlaces] /\ h2_open_lock' \in SUBSET Tasks
           /\ \A u \in Tasks : pc'[u] \in Opening <=> h2_open_lock' = {u}
<1> USE DEF TrTypes, Opening, TaskPlaces, Goto
<1>1. CASE EnsureH2(t)
  BY ZenonT(60), <1>1 DEF EnsureH2
<1>2. CASE Arbitrate(t)
  <2>1. CASE MustUseH1
    BY <1>2, <2>1, ZenonT(60) DEF Arbitrate
  <2>2. CASE ~MustUseH1
    <3>1. h2_open_lock = {} /\ h2_open_lock' = {t} /\ pc' = [pc EXCEPT ![t] = "h2check"]
      BY <1>2, <2>2, Zenon DEF Arbitrate, MustUseH1
    <3>2. \A u \in Tasks : pc[u] \notin Opening
      BY <3>1, Zenon
    <3> QED
      BY <3>1, <3>2, Zenon
  <2> QED
    BY <2>1, <2>2, Zenon
<1>3. CASE Recheck(t)
  <2>1. pc[t] \in Opening /\ h2_open_lock = {t}
    BY <1>3, Zenon DEF Recheck
  <2>2. \A u \in Tasks : u # t => pc[u] \notin Opening
    BY <2>1, ZenonT(60)
  <2>3. \/ h2_open_lock' = {} /\ pc' = [pc EXCEPT ![t] = "h2send"]
        \/ h2_open_lock' = h2_open_lock /\ pc' = [pc EXCEPT ![t] = "h2open"]
    BY <1>3, Zenon DEF Recheck
  <2> QED
    BY <2>1, <2>2, <2>3, Zenon
<1>4. CASE OpenH2Ok(t)
  BY <1>4, ZenonT(60) DEF OpenH2Ok
<1>5. CASE \E refused \in BOOLEAN : OpenH2Err(t, refused)
  <2>1. pc[t] \in Opening /\ h2_open_lock' = {} /\ pc' = [pc EXCEPT ![t] = "h1get"]
    BY <1>5, Zenon DEF OpenH2Err
  <2>2. \A u \in Tasks : u # t => pc[u] \notin Opening
    BY <2>1, Zenon
  <2> QED
    BY <2>1, <2>2
<1>6. CASE H2Done(t)
  BY <1>6, Zenon DEF H2Done
<1>7. CASE H2Refused(t)
  BY <1>7, Zenon DEF H2Refused
<1>8. CASE \E next \in {"h1get", "idle"} : H2Failed(t, next)
  BY <1>8 DEF H2Failed
<1> QED
  BY <1>1, <1>2, <1>3, <1>4, <1>5, <1>6, <1>7, <1>8, Zenon DEF H2Step

\* What an HTTP/2 step does to the cell: nothing, it takes connections out, or
\* it puts in the one just opened, to the host of this moment.
LEMMA CellStep ==
    ASSUME TrTypes, NEW t \in Tasks, H2Step(t)
    PROVE  /\ h2_cell' \subseteq h2_cell \/
              h2_cell' = {[gen |-> h2_generation + 1, host |-> connect_host, old |-> FALSE]}
           /\ h2_generation' \in {h2_generation, h2_generation + 1}
           /\ h2_generation' \in 0..MaxGen
           /\ ~(h2_cell' \subseteq h2_cell) => h2_generation' = h2_generation + 1
           /\ UNCHANGED <<connect_host, pool, dead, opener, health>>
<1> USE Bounds DEF TrTypes
<1>1. CASE OpenH2Ok(t)
  BY <1>1 DEF OpenH2Ok
<1>2. CASE H2Done(t) \/ EnsureH2(t) \/ Arbitrate(t) \/ Recheck(t)
  BY <1>2, Zenon DEF H2Done, EnsureH2, Arbitrate, Recheck
<1>3. CASE H2Refused(t) \/ (\E refused \in BOOLEAN : OpenH2Err(t, refused))
           \/ (\E next \in {"h1get", "idle"} : H2Failed(t, next))
  BY <1>3, Zenon DEF H2Refused, OpenH2Err, H2Failed, PoisonH2IfGen
<1> QED
  BY <1>1, <1>2, <1>3, Zenon DEF H2Step

\* What an HTTP/2 step leaves a task with.
LEMMA HeldStep ==
    ASSUME TrTypes, NEW t \in Tasks, H2Step(t)
    PROVE  held' \in [Tasks -> [gen : 0..MaxGen, host : Hosts, age : Ages]]
<1> USE Bounds
<1>1. ASSUME NEW c \in h2_cell, Hold(t, [gen |-> c.gen, host |-> c.host, age |-> 0])
      PROVE  held' \in [Tasks -> [gen : 0..MaxGen, host : Hosts, age : Ages]]
  <2>1. c.gen \in 0..MaxGen /\ c.host \in Hosts
    BY DEF TrTypes
  <2> QED
    BY <1>1, <2>1, Holds, Zenon
<1>2. ASSUME Hold(t, NoConn)
      PROVE  held' \in [Tasks -> [gen : 0..MaxGen, host : Hosts, age : Ages]]
  BY <1>2, Holds, Zenon DEF NoConn
<1>3. CASE EnsureH2(t)
  BY <1>3, <1>1, Zenon DEF EnsureH2, TrTypes
<1>4. CASE Recheck(t)
  <2>1. connect_host \in Hosts
    BY Zenon DEF TrTypes
  <2> QED
    BY <1>4, <1>1, <2>1, Holds, Zenon DEF Recheck
<1>5. CASE OpenH2Ok(t)
  <2>1. h2_generation + 1 \in 0..MaxGen
    BY <1>5 DEF OpenH2Ok, TrTypes
  <2>2. [held[t] EXCEPT !.gen = h2_generation + 1] \in [gen : 0..MaxGen, host : Hosts, age : Ages]
    BY <2>1 DEF TrTypes
  <2>3. held' = [held EXCEPT ![t] = [held[t] EXCEPT !.gen = h2_generation + 1]]
    BY <1>5, Zenon DEF OpenH2Ok
  <2> QED
    BY <2>2, <2>3, Zenon DEF TrTypes
<1>6. CASE Arbitrate(t)
  BY <1>6, Zenon DEF Arbitrate, TrTypes
<1>7. CASE \/ \E refused \in BOOLEAN : OpenH2Err(t, refused)
           \/ H2Done(t) \/ H2Refused(t) \/ \E next \in {"h1get", "idle"} : H2Failed(t, next)
  BY <1>7, <1>2, Zenon DEF OpenH2Err, H2Done, H2Refused, H2Failed
<1> QED
  BY <1>3, <1>4, <1>5, <1>6, <1>7, Zenon DEF H2Step

\* A step of a request over HTTP/2 preserves the invariant.
LEMMA H2StepInv ==
    ASSUME TrInv, NEW t \in Tasks, H2Step(t)
    PROVE  TrInv'
<1> DEFINE opened == [gen |-> h2_generation + 1, host |-> connect_host, old |-> FALSE]
<1>1. TrTypes
  BY Zenon DEF TrInv
<1>2. /\ h2_cell' \subseteq h2_cell \/ h2_cell' = {opened}
      /\ h2_generation' \in {h2_generation, h2_generation + 1}
      /\ h2_generation' \in 0..MaxGen
      /\ ~(h2_cell' \subseteq h2_cell) => h2_generation' = h2_generation + 1
      /\ UNCHANGED <<connect_host, pool, dead, opener, health>>
  BY <1>1, CellStep, Zenon
<1>3. ~(h2_cell' \subseteq h2_cell) => opened \in [gen : 1..MaxGen, host : Hosts, old : BOOLEAN]
  BY SMTT(60), <1>1, <1>2, Bounds DEF TrTypes
<1>4. opened.host = connect_host /\ connect_host <= connect_host
  BY <1>1, Bounds DEF TrTypes
<1> HIDE DEF opened
<1>5. TrTypes'
  <2>1. /\ h2_cell' \subseteq [gen : 1..MaxGen, host : Hosts, old : BOOLEAN]
        /\ \A c, d \in h2_cell' : c = d
        /\ \A c \in h2_cell' : c.host <= connect_host'
    BY <1>1, <1>2, <1>3, <1>4, Zenon DEF TrTypes
  <2>2. dead' \subseteq 1..h2_generation'
    BY <1>1, <1>2, Bounds DEF TrTypes
  <2>3. Pooled(pool)'
    BY <1>1, <1>2, Zenon DEF TrTypes, Pooled
  <2> QED
    BY <1>1, <1>2, <2>1, <2>2, <2>3, LockStep, HeldStep, Zenon DEF TrTypes
<1>6. SwapLeavesNothingStale'
  BY <1>2, <1>4, Zenon DEF TrInv, SwapLeavesNothingStale
<1>7. NothingToTakeDown'
  <2> SUFFICES ASSUME NEW u \in Tasks, pc'[u] = "h2open" PROVE \A c \in h2_cell' : ~Usable(c)'
    BY Zenon DEF NothingToTakeDown
  <2>1. CASE pc[u] = "h2open" /\ h2_cell' \subseteq h2_cell
    BY <1>2, <2>1, Zenon DEF TrInv, NothingToTakeDown, Usable
  <2>2. CASE Recheck(t)
    <3>1. h2_cell' = h2_cell /\ u = t => \A c \in h2_cell : ~Usable(c)
      BY <1>1, <2>2, Zenon DEF Recheck, TrTypes, Goto
    <3>2. h2_cell' = h2_cell
      BY <2>2, Zenon DEF Recheck
    <3>3. u # t => pc[u] = "h2open"
      BY <1>1, <2>2, Zenon DEF Recheck, TrTypes, Goto
    <3> QED
      BY <1>2, <2>1, <3>1, <3>2, <3>3, Zenon DEF Usable
  <2>3. CASE ~Recheck(t)
    <3>1. pc[u] = "h2open" /\ u # t
      BY <1>1, <2>3, Zenon DEF H2Step, EnsureH2, Arbitrate, OpenH2Ok, OpenH2Err, H2Done, H2Refused,
         H2Failed, TrTypes, Goto
    <3>2. pc[t] # "h2open"
      BY <1>1, <3>1, Zenon DEF TrTypes, Opening
    <3>3. h2_cell' \subseteq h2_cell
      BY <2>3, <3>2, Zenon DEF H2Step, EnsureH2, Arbitrate, OpenH2Ok, OpenH2Err, H2Done, H2Refused,
         H2Failed, PoisonH2IfGen
    <3> QED
      BY <2>1, <3>1, <3>3, Zenon
  <2> QED
    BY <2>2, <2>3, Zenon
<1> QED
  BY <1>5, <1>6, <1>7, Zenon DEF TrInv

\* The cell is safe in every step that leaves it and the tasks' handshakes alone.
LEMMA SameCell ==
    ASSUME TrInv, UNCHANGED <<h2_cell, dead, connect_host>>,
           \A u \in Tasks : pc'[u] = "h2open" => pc[u] = "h2open"
    PROVE  NothingToTakeDown'
BY Zenon DEF TrInv, NothingToTakeDown, Usable

\* A request over HTTP/1.1, and the loops that fill the pool, preserve the
\* invariant: what they leave in the pool was there, or leads to the host of
\* this moment.
LEMMA PoolStepInv ==
    ASSUME TrInv, Pooled(pool'), \A e \in pool' : (\E f \in pool : e.host = f.host) \/ e.host = connect_host,
           UNCHANGED <<h2Vars, connect_host>>, health'.pc = health.pc,
           health' \in [pc : {"watch", "rescan", "pool", "cell"}, fails : Nat],
           held' \in [Tasks -> [gen : 0..MaxGen, host : Hosts, age : Ages]],
           opener' \in [Openers -> [pc : {"rest", "open"}, host : Hosts, left : Int]],
           pc' \in [Tasks -> TaskPlaces],
           \A u \in Tasks : \/ pc'[u] = pc[u]
                            \/ pc[u] \notin Opening /\ pc'[u] \notin Opening
    PROVE  TrInv'
<1>1. TrTypes'
  BY Zenon DEF TrInv, TrTypes, h2Vars
<1>2. SwapLeavesNothingStale'
  BY Zenon DEF TrInv, SwapLeavesNothingStale, h2Vars
<1>3. NothingToTakeDown'
  BY SameCell, Zenon DEF h2Vars, Opening
<1> QED
  BY <1>1, <1>2, <1>3, Zenon DEF TrInv

\* The steps of a request over HTTP/1.1.
LEMMA H1StepInv ==
    ASSUME TrInv, NEW t \in Tasks,
           \/ Acquire(t) \/ H1Opened(t) \/ H1OpenFailed(t)
           \/ \E ok \in BOOLEAN : H1Done(t, ok)
    PROVE  TrInv'
<1> USE Bounds
<1>1. TrTypes /\ connect_host \in Hosts
  BY Zenon DEF TrInv, TrTypes
<1>2. /\ UNCHANGED <<h2Vars, connect_host>> /\ health' = health /\ opener' = opener
  BY Zenon DEF Acquire, H1Opened, H1OpenFailed, H1Done
<1>3. /\ health' \in [pc : {"watch", "rescan", "pool", "cell"}, fails : Nat]
      /\ opener' \in [Openers -> [pc : {"rest", "open"}, host : Hosts, left : Int]]
  BY <1>1, <1>2, Zenon DEF TrTypes
<1>4. /\ pc' \in [Tasks -> TaskPlaces]
      /\ \A u \in Tasks : pc'[u] = pc[u] \/ (pc[u] \notin Opening /\ pc'[u] \notin Opening)
  BY SMTT(60), <1>1 DEF Acquire, H1Opened, H1OpenFailed, H1Done, TrTypes, Goto, TaskPlaces, Opening
<1>5. held' \in [Tasks -> [gen : 0..MaxGen, host : Hosts, age : Ages]]
  <2>1. CASE Acquire(t)
    <3>1. CASE \E e \in Kept : Hold(t, [gen |-> 0, host |-> e.host, age |-> e.age])
      <4>1. PICK e \in Kept : Hold(t, [gen |-> 0, host |-> e.host, age |-> e.age])
        BY <3>1, Zenon
      <4>2. e.host \in Hosts /\ e.age \in Ages
        BY <1>1, Zenon DEF Kept, TrTypes, Pooled, Sockets
      <4> QED
        BY <1>1, <4>1, <4>2, Holds, Zenon
    <3>2. CASE Hold(t, [gen |-> 0, host |-> connect_host, age |-> 0])
      BY <1>1, <3>2, Holds, Zenon
    <3> QED
      BY <2>1, <3>1, <3>2, Zenon DEF Acquire
  <2>2. CASE held' = held
    BY <1>1, <2>2, Zenon DEF TrTypes
  <2>3. CASE Hold(t, NoConn)
    BY <1>1, <2>3, Holds, Zenon DEF NoConn
  <2>4. CASE Hold(t, [NoConn EXCEPT !.host = connect_host])
    <3>1. [NoConn EXCEPT !.host = connect_host] = [gen |-> 0, host |-> connect_host, age |-> 0]
      BY DEF NoConn
    <3> QED
      BY <1>1, <2>4, <3>1, Holds
  <2> QED
    BY <2>1, <2>2, <2>3, <2>4, Zenon DEF H1Opened, H1OpenFailed, H1Done
<1>6. Pooled(pool') /\ \A e \in pool' : (\E f \in pool : e.host = f.host) \/ e.host = connect_host
  <2>1. CASE pool' \subseteq pool
    BY <1>1, <2>1, Zenon DEF TrTypes, Pooled
  <2>2. CASE pool' = Push(held[t].host, held[t].age)
    <3>1. held[t].host \in Hosts /\ held[t].age \in Ages
      BY <1>1, Zenon DEF TrTypes
    <3> QED
      BY <1>1, <2>2, <3>1, PushTyped, Zenon DEF TrTypes
  <2> QED
    BY <2>1, <2>2, Zenon DEF Acquire, H1Opened, H1OpenFailed, H1Done, Kept
<1> QED
  BY <1>2, <1>3, <1>4, <1>5, <1>6, PoolStepInv, Zenon

\* The loops that fill the pool, and time that passes.
LEMMA LoopStepInv ==
    ASSUME TrInv,
           \/ \E o \in Openers : OpenerStart(o) \/ \E ok \in BOOLEAN : OpenerEnd(o, ok)
           \/ Age
    PROVE  TrInv'
<1> USE Bounds
<1>1. TrTypes /\ connect_host \in Hosts
  BY Zenon DEF TrInv, TrTypes
<1>2. UNCHANGED <<h2Vars, connect_host>> /\ health' = health /\ pc' = pc
  BY Zenon DEF OpenerStart, OpenerEnd, Age
<1>3. /\ health' \in [pc : {"watch", "rescan", "pool", "cell"}, fails : Nat]
      /\ pc' \in [Tasks -> TaskPlaces]
  BY <1>1, <1>2, Zenon DEF TrTypes
<1>4. CASE Age
  <2>1. opener' = opener
    BY <1>4, Zenon DEF Age
  <2>2. held' \in [Tasks -> [gen : 0..MaxGen, host : Hosts, age : Ages]]
    <3>1. \A t \in Tasks : /\ held[t] \in [gen : 0..MaxGen, host : Hosts, age : Ages]
                           /\ held[t].age < POOL_TTL => held[t].age + 1 \in Ages
      BY <1>1 DEF TrTypes, Ages
    <3> QED
      BY <1>4, <3>1, Zenon DEF Age
  <2> DEFINE older(e) == [e EXCEPT !.age = IF e.age < POOL_TTL THEN e.age + 1 ELSE e.age]
  <2>3. ASSUME NEW e \in pool
        PROVE  older(e) \in Sockets /\ older(e).slot = e.slot /\ older(e).host = e.host
    <3>1. e \in Sockets
      BY <1>1, Zenon DEF TrTypes, Pooled
    <3>2. e.age < POOL_TTL => e.age + 1 \in Ages
      BY <3>1 DEF Sockets, Ages
    <3> QED
      BY <3>1, <3>2, Zenon DEF Sockets
  <2>4. pool' = {older(e) : e \in pool}
    BY <1>4, Zenon DEF Age
  <2> HIDE DEF older
  <2>5. \A x, y \in pool' : x.slot = y.slot => x = y
    <3> SUFFICES ASSUME NEW x \in pool', NEW y \in pool', x.slot = y.slot PROVE x = y
      BY Zenon
    <3>1. PICK e \in pool, f \in pool : x = older(e) /\ y = older(f)
      BY <2>4, Zenon
    <3>2. e = f
      BY <1>1, <2>3, <3>1 DEF TrTypes, Pooled
    <3> QED
      BY <3>1, <3>2, Zenon
  <2>6. Pooled(pool')
    BY <2>3, <2>4, <2>5 DEF Pooled
  <2>7. \A e \in pool' : (\E f \in pool : e.host = f.host) \/ e.host = connect_host
    BY <2>3, <2>4, Zenon
  <2>8. opener' \in [Openers -> [pc : {"rest", "open"}, host : Hosts, left : Int]]
    BY <1>1, <2>1, Zenon DEF TrTypes
  <2> QED
    BY <1>2, <1>3, <2>2, <2>6, <2>7, <2>8, PoolStepInv, Zenon
<1>5. CASE \E o \in Openers : OpenerStart(o) \/ \E ok \in BOOLEAN : OpenerEnd(o, ok)
  <2>1. held' = held /\ held' \in [Tasks -> [gen : 0..MaxGen, host : Hosts, age : Ages]]
    BY <1>1, <1>5, Zenon DEF OpenerStart, OpenerEnd, TrTypes
  <2>2. PICK o \in Openers : OpenerStart(o) \/ \E ok \in BOOLEAN : OpenerEnd(o, ok)
    BY <1>5, Zenon
  <2>3. opener' \in [Openers -> [pc : {"rest", "open"}, host : Hosts, left : Int]]
    <3>1. CASE OpenerStart(o)
      <4>1. CASE opener' = opener
        BY <1>1, <4>1, Zenon DEF TrTypes
      <4>2. CASE opener' = [opener EXCEPT ![o].pc = "open", ![o].host = connect_host]
        <5>1. opener[o] \in [pc : {"rest", "open"}, host : Hosts, left : Int]
          BY <1>1, Zenon DEF TrTypes
        <5>2. [opener[o] EXCEPT !.pc = "open", !.host = connect_host]
                \in [pc : {"rest", "open"}, host : Hosts, left : Int]
          BY <1>1, <5>1, Zenon
        <5>3. opener' = [opener EXCEPT ![o] = [opener[o] EXCEPT !.pc = "open", !.host = connect_host]]
          BY <4>2, <1>1, Zenon DEF TrTypes
        <5> QED
          BY <1>1, <5>2, <5>3, Zenon DEF TrTypes
      <4> QED
        BY <3>1, <4>1, <4>2, Zenon DEF OpenerStart
    <3>2. CASE \E ok \in BOOLEAN : OpenerEnd(o, ok)
      <4> DEFINE left == IF o = "warm" THEN opener[o].left - 1 ELSE 0
      <4>1. left \in Int
        BY <1>1 DEF TrTypes
      <4>2. opener' = [opener EXCEPT ![o] = [pc |-> "rest", host |-> 0, left |-> left]]
        BY <3>2, Zenon DEF OpenerEnd
      <4> HIDE DEF left
      <4> QED
        BY <1>1, <4>1, <4>2, Zenon DEF TrTypes
    <3> QED
      BY <2>2, <3>1, <3>2, Zenon
  <2>4. Pooled(pool') /\ \A e \in pool' : (\E f \in pool : e.host = f.host) \/ e.host = connect_host
    <3>1. CASE pool' \subseteq pool
      BY <1>1, <3>1, Zenon DEF TrTypes, Pooled
    <3>2. CASE \E a \in Ages : pool' = Push(opener[o].host, a)
      <4>1. opener[o].host \in Hosts
        BY <1>1, Zenon DEF TrTypes
      <4>2. PICK a \in Ages : pool' = Push(opener[o].host, a)
        BY <3>2, Zenon
      <4>3. Pooled(pool)
        BY <1>1, Zenon DEF TrTypes
      <4>4. /\ Pooled(Push(opener[o].host, a))
            /\ \A e \in Push(opener[o].host, a) : e \in pool \/ e.host = connect_host
        BY <4>1, <4>3, PushTyped, Zenon
      <4> QED
        BY <4>2, <4>4, Zenon
    <3>3. CASE OpenerStart(o)
      BY <3>1, <3>3, Zenon DEF OpenerStart
    <3>4. CASE \E ok \in BOOLEAN : OpenerEnd(o, ok)
      <4> DEFINE age == IF o = "warm" /\ opener[o].left < WARM THEN 1 ELSE 0
      <4>1. age \in Ages
        BY Zenon
      <4>2. pool' = pool \/ pool' = Push(opener[o].host, age)
        BY <3>4, Zenon DEF OpenerEnd
      <4> HIDE DEF age
      <4>3. CASE pool' = pool
        BY <3>1, <4>3, Zenon
      <4>4. CASE pool' = Push(opener[o].host, age)
        BY <3>2, <4>1, <4>4, Zenon
      <4> QED
        BY <4>2, <4>3, <4>4, Zenon
    <3> QED
      BY <2>2, <3>3, <3>4, Zenon
  <2> QED
    BY <1>2, <1>3, <2>1, <2>3, <2>4, PoolStepInv, Zenon
<1> QED
  BY <1>4, <1>5, Zenon

\* The heartbeat and its swap preserve the invariant: the new host is stored
\* first, and until the pool and the cell have been cleared they may be stale.
LEMMA SwapStepInv ==
    ASSUME TrInv, (\E ok \in BOOLEAN : Heartbeat(ok) \/ Rescan(ok)) \/ SwapPool \/ SwapCell
    PROVE  TrInv'
<1> USE Bounds
<1>1. TrTypes /\ connect_host \in Hosts /\ health \in [pc : {"watch", "rescan", "pool", "cell"}, fails : Nat]
  BY Zenon DEF TrInv, TrTypes
<1>2. UNCHANGED <<dead, h2_open_lock, h2_generation, pc, held, opener>>
  BY Zenon DEF Heartbeat, Rescan, SwapPool, SwapCell, h2Vars
<1>3. health' \in [pc : {"watch", "rescan", "pool", "cell"}, fails : Nat]
  BY <1>1 DEF Heartbeat, Rescan, SwapPool, SwapCell
<1>4. /\ connect_host' \in Hosts /\ connect_host <= connect_host'
      /\ connect_host' # connect_host => health'.pc = "pool"
  BY <1>1 DEF Heartbeat, Rescan, SwapPool, SwapCell, Hosts
<1>5. /\ pool' \subseteq pool /\ h2_cell' \subseteq h2_cell
      /\ health.pc = "pool" /\ health'.pc # "pool" => pool' = {}
      /\ health.pc = "cell" /\ health'.pc # "cell" => h2_cell' = {}
      /\ health.pc = "pool" => health'.pc \in {"pool", "cell"}
  BY <1>1, Zenon DEF Heartbeat, Rescan, SwapPool, SwapCell, h2Vars
<1>6. TrTypes'
  <2>1. Pooled(pool)'
    BY <1>1, <1>5, Zenon DEF TrTypes, Pooled
  <2>2. /\ h2_cell' \subseteq [gen : 1..MaxGen, host : Hosts, old : BOOLEAN]
        /\ \A c, d \in h2_cell' : c = d
    BY <1>1, <1>5, Zenon DEF TrTypes
  <2>3. \A c \in h2_cell' : c.host <= connect_host'
    <3>1. \A c \in h2_cell' : c.host \in Nat /\ c.host <= connect_host
      BY <1>1, <1>5, Zenon DEF TrTypes
    <3> QED
      BY <1>1, <1>4, <3>1
  <2> QED
    BY <1>1, <1>2, <1>3, <1>4, <2>1, <2>2, <2>3, Zenon DEF TrTypes
<1>7. SwapLeavesNothingStale'
  BY <1>3, <1>4, <1>5, Zenon DEF TrInv, SwapLeavesNothingStale
<1>8. NothingToTakeDown'
  <2> SUFFICES ASSUME NEW u \in Tasks, pc'[u] = "h2open", NEW c \in h2_cell' PROVE ~Usable(c)'
    BY Zenon DEF NothingToTakeDown
  <2>1. c \in h2_cell /\ ~Usable(c)
    BY <1>2, <1>5, Zenon DEF TrInv, NothingToTakeDown
  <2>2. c.host \in Nat /\ c.host <= connect_host
    BY <1>1, <2>1, Zenon DEF TrTypes
  <2>3. connect_host' # connect_host => c.host # connect_host'
    BY <1>1, <1>4, <2>2
  <2> QED
    BY <1>2, <2>1, <2>3, Zenon DEF Usable
<1> QED
  BY <1>6, <1>7, <1>8, Zenon DEF TrInv

\* Every step preserves the invariant.
LEMMA TrInvNext == TrInv /\ [TrNext]_trVars => TrInv'
<1> SUFFICES ASSUME TrInv, [TrNext]_trVars PROVE TrInv'
  BY Zenon
<1>1. CASE \E t \in Tasks : EnsureH2(t) \/ TaskStep(t)
  BY <1>1, H2StepInv, H1StepInv, Zenon DEF TaskStep, H2Step
<1>2. CASE \/ \E o \in Openers : OpenerStart(o) \/ \E ok \in BOOLEAN : OpenerEnd(o, ok)
           \/ Age
  BY <1>2, LoopStepInv, Zenon
<1>3. CASE (\E ok \in BOOLEAN : Heartbeat(ok) \/ Rescan(ok)) \/ SwapPool \/ SwapCell
  BY <1>3, SwapStepInv, Zenon
<1>4. CASE \E g \in 1..MaxGen : DriverEnds(g)
  <2>1. dead \subseteq dead' /\ dead' \subseteq 1..h2_generation'
    BY <1>4, Zenon DEF DriverEnds, TrInv, TrTypes
  <2>2. TrTypes' /\ SwapLeavesNothingStale'
    BY <1>4, <2>1 DEF DriverEnds, TrInv, TrTypes, Pooled, SwapLeavesNothingStale
  <2>3. NothingToTakeDown'
    BY <1>4, <2>1, Zenon DEF DriverEnds, TrInv, NothingToTakeDown, Usable
  <2> QED
    BY <2>2, <2>3, Zenon DEF TrInv
<1>5. CASE CellExpires
  <2>1. UNCHANGED <<connect_host, pool, dead, h2_open_lock, h2_generation, pc, held, opener, health>>
    BY <1>5, Zenon DEF CellExpires
  <2>2. ASSUME NEW d \in h2_cell'
        PROVE  \E c \in h2_cell : /\ d = [c EXCEPT !.old = TRUE] /\ d.host = c.host /\ d.old
                                  /\ d \in [gen : 1..MaxGen, host : Hosts, old : BOOLEAN]
    <3>1. PICK c \in h2_cell : d = [c EXCEPT !.old = TRUE]
      BY <1>5, Zenon DEF CellExpires
    <3>2. c \in [gen : 1..MaxGen, host : Hosts, old : BOOLEAN]
      BY Zenon DEF TrInv, TrTypes
    <3>3. d \in [gen : 1..MaxGen, host : Hosts, old : BOOLEAN] /\ d.host = c.host
      BY <3>1, <3>2, Zenon
    <3>4. d.old = TRUE
      BY <3>1, <3>2, Zenon
    <3> QED
      BY <3>1, <3>3, <3>4, Zenon
  <2>3. TrTypes' /\ SwapLeavesNothingStale'
    BY <2>1, <2>2 DEF TrInv, TrTypes, Pooled, SwapLeavesNothingStale
  <2>4. NothingToTakeDown'
    BY <2>2, Zenon DEF NothingToTakeDown, Usable
  <2> QED
    BY <2>3, <2>4, Zenon DEF TrInv
<1>6. CASE BackoffEnds \/ UNCHANGED trVars
  <2>1. UNCHANGED <<connect_host, pool, h2_cell, dead, h2_open_lock, h2_generation, pc, held,
                    opener, health>>
    BY <1>6, Zenon DEF BackoffEnds, trVars
  <2> QED
    BY <2>1, Zenon DEF TrInv, TrTypes, Pooled, SwapLeavesNothingStale, NothingToTakeDown, Usable
<1> QED
  BY <1>1, <1>2, <1>3, <1>4, <1>5, <1>6, Zenon DEF TrNext

\* The contract of DomainFronter's connections: once a swap of the front IP is
\* over nothing cached leads to an IP it swapped out, whatever was opening, in
\* use or being released meanwhile, and one task opens HTTP/2 at a time - for
\* any number of requests, pool size, socket life and swaps.
THEOREM TransportAlwaysSound == TrSpec => []TransportSound
<1>1. TrInv => TransportSound
  <2> SUFFICES ASSUME TrInv PROVE TransportSound
    BY Zenon
  <2>1. TrTypeOK
    BY Zenon DEF TrInv, TrTypes, TrTypeOK, Pooled, Sockets, Hosts, Ages, TaskPlaces
  <2>2. OneOpener
    BY ZenonT(60) DEF TrInv, TrTypes, OneOpener, Opening
  <2> QED
    BY <2>1, <2>2, Zenon DEF TransportSound, TrInv
<1> QED
  BY <1>1, TrInvInit, TrInvNext, PTL DEF TrSpec

\* A connection that requests can still use leaves h2_cell only by the edge's
\* refusal, by a swap, or by a request that failed on that very connection
\* (poison_h2_if_gen): never by a late failure on an older one, and never by
\* an open that fails or succeeds (ensure_h2).
THEOREM GoodConnectionSurvives == TrSpec => [][GoodCellSurvives]_trVars
<1>1. TrInv /\ [TrNext]_trVars => [GoodCellSurvives]_trVars
  <2> SUFFICES ASSUME TrInv, TrNext, NEW c \in h2_cell, Usable(c), c \notin h2_cell'
               PROVE  \/ h2_disabled'
                      \/ health.pc = "cell"
                      \/ [c EXCEPT !.old = TRUE] \in h2_cell'
                      \/ \E t \in Tasks : pc[t] = "h2send" /\ held[t].gen = c.gen /\ pc'[t] # "h2send"
    BY Zenon DEF GoodCellSurvives
  <2>1. ASSUME NEW t \in Tasks, H2Step(t)
        PROVE  h2_disabled' \/ (pc[t] = "h2send" /\ held[t].gen = c.gen /\ pc'[t] # "h2send")
    <3>1. pc[t] # "h2open"
      BY Zenon DEF TrInv, NothingToTakeDown
    <3>2. CASE H2Refused(t)
      BY <3>2, Zenon DEF H2Refused
    <3>3. CASE \E next \in {"h1get", "idle"} : H2Failed(t, next)
      BY <3>3, Zenon DEF H2Failed, PoisonH2IfGen, Goto, TrInv, TrTypes
    <3> QED
      BY <2>1, <3>1, <3>2, <3>3, Zenon DEF H2Step, EnsureH2, Arbitrate, Recheck, OpenH2Ok, OpenH2Err, H2Done
  <2>2. CASE CellExpires
    BY <2>2, Zenon DEF CellExpires
  <2>3. CASE SwapCell
    BY <2>3, Zenon DEF SwapCell
  <2> QED
    BY <2>1, <2>2, <2>3, Zenon DEF TrNext, TaskStep, H2Step, Acquire, H1Opened, H1OpenFailed, H1Done,
       OpenerStart, OpenerEnd, Heartbeat, Rescan, SwapPool, DriverEnds, Age, BackoffEnds, h2Vars
<1> QED
  BY <1>1, TrInvInit, TrInvNext, PTL DEF TrSpec

-----------------------------------------------------------------------------
(* DriveSignIn, for any credentials and any number of sign-ins and saves.  *)
(* What config.json holds is decided long before it is written: a thread   *)
(* reads the file, edits the copy in memory, writes the temporary file and *)
(* renames it.  The invariants therefore follow a file content through all *)
(* the places it passes: the memory of a thread (dsOp), the temporary file *)
(* (dsTmp) and config.json (dsConfig).                                     *)

\* The values of the fields.
Pcs == {"idle", "polling", "refreshing", "open", "put", "rename"}
Ops == [pc : Pcs, arg : 0..MaxFlows, file : Files]
FlowRecs == [client : Clients, google : {"none", "waiting", "granted", "failed", "used"},
             pending : BOOLEAN]

(* The types, but for the size of the registry.                            *)
DsTypes ==
    /\ dsSide \in {"desktop", "android"} /\ dsConfig \in Files
    /\ dsTmp \subseteq Files /\ Cardinality(dsTmp) <= 1
    /\ dsFlow \in [Flows -> FlowRecs]
    /\ dsOp \in [Actors -> Ops]
    /\ dsFd \in [Actors -> {"none", "tmp", "config", "gone"}]
    /\ dsRevoked \subseteq Flows /\ dsEdits \in 0..MaxEdits /\ dsOverlap \in BOOLEAN

\* What is there at the start is well typed.
LEMMA FirstFileType == FirstFile \in Files /\ Idle \in Ops
<1>1. FirstClient \in Clients
  BY DriveSignInAssumption, Zenon DEF FirstClient
<1>2. FirstFile \in Files
  BY <1>1, DriveSignInAssumption DEF FirstFile, Files
<1> QED
  BY <1>2, DriveSignInAssumption DEF Idle, Ops, Pcs

(* What a read-modify-write that begins does to the types.                 *)
LEMMA EditTypes ==
    ASSUME DsTypes, NEW a \in Actors, NEW arg \in 0..MaxFlows, NEW file \in Files,
           Edit(a, arg, file)
    PROVE  dsOp' \in [Actors -> Ops] /\ dsOverlap' \in BOOLEAN
<1>1. CASE dsConfig.whole
  <2>1. dsOverlap' \in BOOLEAN
    BY <1>1, Zenon DEF Edit
  <2>2. [pc |-> "open", arg |-> arg, file |-> file] \in Ops
    BY Zenon DEF Ops, Pcs
  <2> QED
    BY <1>1, <2>1, <2>2, Zenon DEF Edit, DsTypes
<1>2. CASE ~dsConfig.whole
  BY <1>2, DriveSignInAssumption DEF Edit, StepTo, DsTypes, Ops, Pcs
<1> QED
  BY <1>1, <1>2, Zenon

\* A thread that moves on keeps the type of its record.
LEMMA StepToTypes ==
    ASSUME DsTypes, NEW a \in Actors, NEW place \in Pcs, NEW arg \in 0..MaxFlows,
           StepTo(a, place, arg)
    PROVE  /\ dsOp' \in [Actors -> Ops]
           /\ \A b \in Actors : dsOp'[b].file = dsOp[b].file
           /\ \A b \in Actors \ {a} : dsOp'[b] = dsOp[b]
           /\ dsOp'[a].pc = place /\ dsOp'[a].arg = arg
<1>1. \A b \in Actors : dsOp[b] \in Ops
  BY Zenon DEF DsTypes
<1> QED
  BY ZenonT(60), <1>1 DEF StepTo, DsTypes, Ops

\* Sets of at most one element, which the mutex and the registry are.
LEMMA SmallSets ==
    Cardinality({}) <= 1 /\ \A x : Cardinality({x}) <= 1
BY FS_EmptySet, FS_Singleton

(* The files the threads are about to write.                               *)
LEMMA EditedFiles ==
    ASSUME DsTypes
    PROVE  /\ \A c \in Clients :
                [dsConfig EXCEPT !.client = c,
                                 !.token = IF ShouldClear(dsConfig, c) THEN 0 ELSE @] \in Files
           /\ \A f \in Flows : /\ [dsConfig EXCEPT !.client = dsFlow[f].client, !.token = f] \in Files
                               /\ [dsConfig EXCEPT !.token = f] \in Files
           /\ \A file \in Files : Torn(file) \in Files /\ Cleared(file) \in Files
<1>1. \A f \in Flows : f \in 0..MaxFlows /\ dsFlow[f].client \in Clients
  BY DriveSignInAssumption DEF DsTypes, Flows, FlowRecs
<1>2. 0 \in 0..MaxFlows
  BY DriveSignInAssumption
<1> QED
  BY <1>1, <1>2, Zenon DEF DsTypes, Files, Torn, Cleared

\* The types at the start, and after every step.
LEMMA DsTypesInit == DsInit => DsTypes
<1> SUFFICES ASSUME DsInit PROVE DsTypes
  BY Zenon
<1>1. dsOverlap \in BOOLEAN
  BY Zenon DEF DsInit
<1>2. FirstClient \in Clients
  BY DriveSignInAssumption, Zenon DEF FirstClient
<1> QED
  BY <1>1, <1>2, FirstFileType, SmallSets, DriveSignInAssumption DEF DsInit, DsTypes, FlowRecs

(* A flow that changes keeps the type of the flows.                        *)
LEMMA FlowTypes ==
    ASSUME DsTypes, NEW f \in Flows, NEW c \in Clients, NEW b \in BOOLEAN,
           NEW g \in {"none", "waiting", "granted", "failed", "used"}
    PROVE  /\ [dsFlow EXCEPT ![f] = [client |-> c, google |-> g, pending |-> b]] \in [Flows -> FlowRecs]
           /\ [dsFlow EXCEPT ![f].google = g] \in [Flows -> FlowRecs]
           /\ [dsFlow EXCEPT ![f].pending = b] \in [Flows -> FlowRecs]
           /\ [dsFlow EXCEPT ![f].google = g, ![f].pending = b] \in [Flows -> FlowRecs]
BY ZenonT(60) DEF DsTypes, FlowRecs

\* A sign-in, a refresh and a save write only well-typed files.
LEMMA DsTypesStep == DsTypes /\ [DsNext]_dsVars => DsTypes'
<1> SUFFICES ASSUME DsTypes, [DsNext]_dsVars PROVE DsTypes'
  BY Zenon
<1>0. 0 \in 0..MaxFlows /\ \A f \in Flows : f \in 0..MaxFlows
  BY DriveSignInAssumption DEF Flows
<1>1. ASSUME NEW c \in Clients, Save(c) PROVE DsTypes'
  <2>1. dsEdits' \in 0..MaxEdits
    BY <1>1, DriveSignInAssumption DEF DsTypes, Save
  <2>2. dsOp' \in [Actors -> Ops] /\ dsOverlap' \in BOOLEAN
    BY <1>0, <1>1, EditTypes, EditedFiles, Zenon DEF Save, Actors
  <2> QED
    BY <1>1, <2>1, <2>2, Zenon DEF DsTypes, Save
<1>2. CASE SaveSection
  <2>1. dsEdits' \in 0..MaxEdits
    BY <1>2, DriveSignInAssumption DEF DsTypes, SaveSection
  <2>2. dsOp' \in [Actors -> Ops] /\ dsOverlap' \in BOOLEAN
    BY <1>0, <1>2, EditTypes, Zenon DEF SaveSection, Actors, DsTypes
  <2> QED
    BY <1>2, <2>1, <2>2, Zenon DEF DsTypes, SaveSection
<1>3. ASSUME NEW f \in Flows, NEW c \in Clients, Started(f, c) PROVE DsTypes'
  BY <1>3, FlowTypes, Zenon DEF DsTypes, Started
<1>4. ASSUME NEW f \in Flows, Granted(f) \/ Refused(f) PROVE DsTypes'
  <2>1. dsFlow' \in [Flows -> FlowRecs]
    BY <1>4 DEF DsTypes, Granted, Refused, Decided, FlowRecs
  <2> QED
    BY <1>4, <2>1, Zenon DEF DsTypes, Granted, Refused, Decided
<1>5. ASSUME NEW f \in Flows, Revoke(f) PROVE DsTypes'
  BY <1>5, Zenon DEF DsTypes, Revoke
<1>6. ASSUME NEW f \in Flows, Complete(f) \/ PollFlow(f) PROVE DsTypes'
  <2>1. dsFlow' \in [Flows -> FlowRecs]
    <3>1. dsFlow[f].client \in Clients
      BY DEF DsTypes, FlowRecs
    <3>2. CASE Complete(f)
      BY <3>1, <3>2, FlowTypes, Zenon DEF Complete
    <3>3. CASE PollFlow(f)
      BY <3>3, Zenon DEF DsTypes, PollFlow
    <3> QED
      BY <1>6, <3>2, <3>3, Zenon
  <2>2. dsOp' \in [Actors -> Ops]
    BY <1>0, <1>6, StepToTypes, Zenon DEF Complete, PollFlow, Begin, Actors, Pcs
  <2> QED
    BY <1>6, <2>1, <2>2, Zenon DEF DsTypes, Complete, PollFlow, Begin
<1>7. ASSUME NEW f \in Flows, CompletePending(f) \/ PollFlowPending(f) PROVE DsTypes'
  <2>1. dsFlow' \in [Flows -> FlowRecs]
    BY <1>7, ZenonT(60) DEF DsTypes, CompletePending, PollFlowPending, FlowRecs
  <2>2. dsOp' \in [Actors -> Ops]
    BY <1>0, <1>7, StepToTypes, Zenon DEF CompletePending, PollFlowPending, Actors, Pcs
  <2> QED
    BY <1>7, <2>1, <2>2, Zenon DEF DsTypes, CompletePending, PollFlowPending
<1>8. ASSUME NEW f \in Flows, NEW may \in BOOLEAN, NEW file \in Files, Ends(f, may, file)
      PROVE  DsTypes'
  <2>1. dsOp' \in [Actors -> Ops] /\ dsOverlap' \in BOOLEAN
    BY <1>0, <1>8, EditTypes, StepToTypes, Zenon DEF Ends, Actors, Pcs, DsTypes
  <2>2. dsFlow' \in [Flows -> FlowRecs]
    <3>1. dsFlow[f].client \in Clients
      BY DEF DsTypes, FlowRecs
    <3>2. PICK b \in BOOLEAN : dsFlow' = [dsFlow EXCEPT ![f].google = "used", ![f].pending = b]
      BY <1>8, Zenon DEF Ends
    <3>3. [dsFlow EXCEPT ![f].google = "used", ![f].pending = b] \in [Flows -> FlowRecs]
      BY <3>1, FlowTypes, Zenon
    <3> QED
      BY <3>2, <3>3, Zenon
  <2> QED
    BY <1>8, <2>1, <2>2, Zenon DEF DsTypes, Ends
<1>9. ASSUME NEW f \in Flows, CompleteEnds(f) \/ PollFlowEnds(f) PROVE DsTypes'
  <2>1. SameClient(f) \in BOOLEAN
    BY Zenon DEF SameClient
  <2> QED
    BY <1>8, <1>9, <2>1, EditedFiles, Zenon DEF CompleteEnds, PollFlowEnds
<1>10. ASSUME NEW f \in Flows, Cancel(f) PROVE DsTypes'
  BY <1>10, FlowTypes, DriveSignInAssumption, Zenon DEF DsTypes, Cancel
<1>11. ASSUME NEW side, Check(side) PROVE DsTypes'
  <2>1. dsConfig.token \in 0..MaxFlows
    BY Zenon DEF DsTypes, Files
  <2> QED
    BY <1>11, <2>1, StepToTypes, Zenon DEF DsTypes, Check, Actors, Pcs
<1>12. CASE CheckAnswered
  <2>1. dsOp' \in [Actors -> Ops] /\ dsOverlap' \in BOOLEAN
    BY <1>0, <1>12, EditTypes, EditedFiles, StepToTypes, Zenon DEF CheckAnswered, Actors, Pcs, DsTypes
  <2> QED
    BY <1>12, <2>1, Zenon DEF DsTypes, CheckAnswered
<1>13. ASSUME NEW a \in Actors, OpenFile(a) PROVE DsTypes'
  <2>1. dsOp[a].arg \in 0..MaxFlows /\ dsOp[a].file \in Files
    BY Zenon DEF DsTypes, Ops
  <2>2. dsOp' \in [Actors -> Ops]
    BY <1>13, <2>1, StepToTypes, Zenon DEF OpenFile, Pcs
  <2>3. dsTmp' \subseteq Files /\ Cardinality(dsTmp') <= 1
    BY <1>13, <2>1, EditedFiles, SmallSets, Zenon DEF OpenFile, OpenTmp
  <2> QED
    BY <1>13, <2>2, <2>3, Zenon DEF DsTypes, OpenFile, OpenTmp
<1>14. ASSUME NEW a \in Actors, WriteText(a) PROVE DsTypes'
  <2>1. dsOp[a].arg \in 0..MaxFlows /\ dsOp[a].file \in Files
    BY Zenon DEF DsTypes, Ops
  <2>2. dsOp' \in [Actors -> Ops]
    BY <1>14, <2>1, StepToTypes, Zenon DEF WriteText, Pcs
  <2>3. \A old : Written(old, dsOp[a].file) \subseteq Files
    BY <2>1, EditedFiles, Zenon DEF Written
  <2>4. dsTmp' \subseteq Files /\ Cardinality(dsTmp') <= 1 /\ dsConfig' \in Files
    BY <1>14, <2>3, SmallSets, Zenon DEF WriteText, DsTypes
  <2> QED
    BY <1>14, <2>2, <2>4, Zenon DEF DsTypes, WriteText
<1>15. ASSUME NEW a \in Actors, Rename(a) PROVE DsTypes'
  <2>1. dsOp' \in [Actors -> Ops]
    BY <1>15, FirstFileType, Zenon DEF Rename, DsTypes
  <2>2. dsFlow' \in [Flows -> FlowRecs]
    BY ZenonT(60), <1>15 DEF Rename, DsTypes, FlowRecs
  <2>3. dsTmp' \subseteq Files /\ Cardinality(dsTmp') <= 1 /\ dsConfig' \in Files
    BY <1>15, SmallSets, Zenon DEF Rename, DsTypes
  <2>4. dsFd' \in [Actors -> {"none", "tmp", "config", "gone"}]
    BY <1>15, Zenon DEF Rename, DsTypes, Follows
  <2> QED
    BY <1>15, <2>1, <2>2, <2>3, <2>4, Zenon DEF DsTypes, Rename
<1>16. CASE Killed
  <2>1. dsFlow' \in [Flows -> FlowRecs]
    BY <1>16, ZenonT(60) DEF Killed, DsTypes, FlowRecs
  <2> QED
    BY <1>16, <2>1, FirstFileType, Zenon DEF DsTypes, Killed
<1>17. CASE UNCHANGED dsVars
  BY <1>17, Zenon DEF DsTypes, dsVars
<1> QED
  BY <1>1, <1>2, <1>3, <1>4, <1>5, <1>6, <1>7, <1>9, <1>10, <1>11, <1>12, <1>13, <1>14, <1>15,
     <1>16, <1>17
 , Zenon DEF DsNext, Start, DeviceStart, TestConnection, DeviceTestConnection

-----------------------------------------------------------------------------
(* A token stays with the credentials it was minted for, in whatever place *)
(* the file content is; a flow that has minted one never changes its       *)
(* credentials again.                                                      *)
Owned(file) ==
    file.token # 0 => dsFlow[file.token].client = file.client /\ dsFlow[file.token].google = "used"
\* Wherever a file content is, its token is one Google gave to its client.
Belongs ==
    /\ Owned(dsConfig)
    /\ \A t \in dsTmp : Owned(t)
    /\ \A a \in Actors : Owned(dsOp[a].file)

(* What was owned stays owned by a step that keeps used flows as they are. *)
UsedKept ==
    \A f \in Flows : dsFlow[f].google = "used" =>
        dsFlow'[f].google = "used" /\ dsFlow'[f].client = dsFlow[f].client

\* Google takes no token back from the client it gave it to.
LEMMA OwnedKept ==
    ASSUME DsTypes, UsedKept, NEW file \in Files, Owned(file)
    PROVE  Owned(file)'
<1>1. CASE file.token = 0
  BY <1>1, Zenon DEF Owned
<1>2. CASE file.token # 0
  <2>1. file.token \in Flows
    BY <1>2, DriveSignInAssumption DEF Files, Flows
  <2> QED
    BY <1>2, <2>1, Zenon DEF Owned, UsedKept
<1> QED
  BY <1>1, <1>2, Zenon

(* The places as one set.                                                  *)
Held == {dsConfig} \cup dsTmp \cup {dsOp[a].file : a \in Actors}

\* A content that belongs may be written.
LEMMA BelongsIsHeld ==
    (Belongs <=> \A file \in Held : Owned(file)) /\ (DsTypes => Held \subseteq Files)
BY DEF Belongs, Held, DsTypes, Ops

(* A step that moves contents about and adds only owned ones keeps Belongs.*)
LEMMA MovedFiles ==
    ASSUME DsTypes, Belongs, UsedKept, \A file \in Held' : file \in Held \/ Owned(file)'
    PROVE  Belongs'
<1>1. \A file \in Held : Owned(file) /\ file \in Files
  BY BelongsIsHeld, Zenon
<1>2. \A file \in Held' : Owned(file)'
  <2> SUFFICES ASSUME NEW file \in Held' PROVE Owned(file)'
    BY Zenon
  <2> QED
    BY <1>1, OwnedKept, Zenon
<1>3. Owned(dsConfig)'
  BY <1>2, Zenon DEF Held, Owned
<1>4. (\A t \in dsTmp : Owned(t))'
  BY <1>2, Zenon DEF Held, Owned
<1>5. (\A a \in Actors : Owned(dsOp[a].file))'
  BY <1>2, Zenon DEF Held, Owned
<1> QED
  BY <1>3, <1>4, <1>5, Zenon DEF Belongs

(* Where the contents of the files are after a step of the threads.        *)
LEMMA HeldAfterEdit ==
    ASSUME DsTypes, NEW a \in Actors, NEW arg, NEW file, Edit(a, arg, file),
           UNCHANGED <<dsConfig, dsTmp>>
    PROVE  Held' \subseteq Held \cup {file}
<1>1. \A b \in Actors : dsOp[b] \in Ops
  BY Zenon DEF DsTypes
<1>2. \A b \in Actors : dsOp'[b].file = dsOp[b].file \/ dsOp'[b].file = file
  BY <1>1 DEF Edit, StepTo, DsTypes, Ops
<1> QED
  BY <1>2, Zenon DEF Held

\* A thread that holds a content that belongs still does after a step of its own.
LEMMA HeldAfterStep ==
    ASSUME DsTypes, NEW a \in Actors, NEW place, NEW arg, StepTo(a, place, arg)
    PROVE  {dsOp'[b].file : b \in Actors} \subseteq Held
<1>1. \A b \in Actors : dsOp[b] \in Ops
  BY Zenon DEF DsTypes
<1>2. \A b \in Actors : dsOp'[b].file = dsOp[b].file
  BY <1>1, Zenon DEF StepTo, DsTypes, Ops
<1> QED
  BY <1>2, Zenon DEF Held

\* No step mixes the token of one client with the credentials of another.
LEMMA BelongsStep == DsTypes /\ Belongs /\ [DsNext]_dsVars => Belongs'
<1> SUFFICES ASSUME DsTypes, Belongs, [DsNext]_dsVars PROVE Belongs'
  BY Zenon
<1>0. UNCHANGED dsFlow => UsedKept
  BY Zenon DEF UsedKept
<1>1. ASSUME NEW c \in Clients, Save(c) PROVE Belongs'
  <2> DEFINE new == [dsConfig EXCEPT !.client = c,
                                     !.token = IF ShouldClear(dsConfig, c) THEN 0 ELSE @]
  <2>1. new.client = c /\ new.token = IF ShouldClear(dsConfig, c) THEN 0 ELSE dsConfig.token
    BY Zenon DEF DsTypes, Files
  <2>2. Owned(new)'
    BY <1>1, <2>1, Zenon DEF Belongs, Owned, ShouldClear, Save
  <2>3. Held' \subseteq Held \cup {new}
    BY <1>1, HeldAfterEdit DEF Save, Actors
  <2> QED
    BY <1>0, <1>1, <2>2, <2>3, MovedFiles, Zenon DEF Save
<1>2. CASE SaveSection
  <2>1. Held' \subseteq Held \cup {dsConfig}
    BY <1>2, HeldAfterEdit, Zenon DEF SaveSection, Actors
  <2> QED
    BY <1>0, <1>2, <2>1, MovedFiles, Zenon DEF SaveSection, Held
<1>3. ASSUME NEW f \in Flows, NEW c \in Clients, Started(f, c) PROVE Belongs'
  <2>1. UsedKept
    BY <1>3, Zenon DEF UsedKept, Started, DsTypes
  <2>2. Held' = Held
    BY <1>3, Zenon DEF Held, Started
  <2> QED
    BY <2>1, <2>2, MovedFiles, Zenon
<1>4. ASSUME NEW f \in Flows, Granted(f) \/ Refused(f) PROVE Belongs'
  <2>1. UsedKept
    BY <1>4, Zenon DEF UsedKept, Granted, Refused, Decided, DsTypes, FlowRecs
  <2>2. Held' = Held
    BY <1>4, Zenon DEF Held, Granted, Refused, Decided
  <2> QED
    BY <2>1, <2>2, MovedFiles, Zenon
<1>5. ASSUME NEW f \in Flows, Revoke(f) PROVE Belongs'
  <2>2. Held' = Held
    BY <1>5, Zenon DEF Held, Revoke
  <2> QED
    BY <1>0, <1>5, <2>2, MovedFiles, Zenon DEF Revoke
<1>6. ASSUME NEW f \in Flows, Complete(f) \/ PollFlow(f) \/ CompletePending(f) \/ PollFlowPending(f)
      PROVE  Belongs'
  <2>1. UsedKept
    BY <1>6 DEF UsedKept, Complete, PollFlow, CompletePending, PollFlowPending, DsTypes, FlowRecs
  <2>2. /\ {dsOp'[b].file : b \in Actors} \subseteq Held
        /\ UNCHANGED <<dsConfig, dsTmp>>
    BY <1>6, HeldAfterStep, Zenon DEF Complete, PollFlow, CompletePending, PollFlowPending, Begin, Actors
  <2>3. Held' \subseteq Held
    BY <2>2, Zenon DEF Held
  <2> QED
    BY <2>1, <2>3, MovedFiles, Zenon
<1>7. ASSUME NEW f \in Flows, NEW may, NEW file, Ends(f, may, file),
             may => \A x : x = file => Owned(x)'
      PROVE  Belongs'
  <2>1. UsedKept
    BY <1>7 DEF UsedKept, Ends, DsTypes, FlowRecs
  <2>2. CASE dsFlow[f].google = "granted" /\ may
    <3>1. Held' \subseteq Held \cup {file}
      BY <1>7, <2>2, HeldAfterEdit, Zenon DEF Ends, Actors
    <3> QED
      BY <1>7, <2>1, <2>2, <3>1, MovedFiles, Zenon
  <2>3. CASE ~(dsFlow[f].google = "granted" /\ may)
    <3>1. {dsOp'[b].file : b \in Actors} \subseteq Held
      BY <1>7, <2>3, HeldAfterStep, Zenon DEF Ends, Actors
    <3>2. Held' \subseteq Held
      BY <1>7, <3>1, Zenon DEF Held, Ends
    <3> QED
      BY <2>1, <3>2, MovedFiles, Zenon
  <2> QED
    BY <2>2, <2>3, Zenon
<1>8. ASSUME NEW f \in Flows, CompleteEnds(f) PROVE Belongs'
  <2> DEFINE file == [dsConfig EXCEPT !.client = dsFlow[f].client, !.token = f]
  <2>1. file.token = f /\ file.client = dsFlow[f].client
    BY Zenon DEF DsTypes, Files
  <2>2. dsFlow'[f].google = "used" /\ dsFlow'[f].client = dsFlow[f].client
    BY <1>8 DEF CompleteEnds, Ends, DsTypes, FlowRecs
  <2>3. \A x : x = file => Owned(x)'
    BY <1>8, <2>1, <2>2, Zenon DEF Owned, CompleteEnds, Ends
  <2> QED
    BY <1>7, <1>8, <2>3, Zenon DEF CompleteEnds
<1>9. ASSUME NEW f \in Flows, PollFlowEnds(f) PROVE Belongs'
  <2> DEFINE file == [dsConfig EXCEPT !.token = f]
  <2>1. file.token = f /\ file.client = dsConfig.client
    BY Zenon DEF DsTypes, Files
  <2>2. dsFlow'[f].google = "used" /\ dsFlow'[f].client = dsFlow[f].client
    BY <1>9 DEF PollFlowEnds, Ends, DsTypes, FlowRecs
  <2>3. SameClient(f) => \A x : x = file => Owned(x)'
    BY <1>9, <2>1, <2>2, Zenon DEF Owned, PollFlowEnds, Ends, SameClient
  <2> QED
    BY <1>7, <1>9, <2>3, Zenon DEF PollFlowEnds
<1>10. ASSUME NEW f \in Flows, Cancel(f) PROVE Belongs'
  <2>1. UsedKept
    BY <1>10, Zenon DEF UsedKept, Cancel, DsTypes, FlowRecs
  <2>2. Held' = Held
    BY <1>10, Zenon DEF Held, Cancel
  <2> QED
    BY <2>1, <2>2, MovedFiles, Zenon
<1>11. ASSUME NEW side, Check(side) PROVE Belongs'
  <2>1. {dsOp'[b].file : b \in Actors} \subseteq Held
    BY <1>11, HeldAfterStep, Zenon DEF Check, Actors
  <2>2. Held' \subseteq Held
    BY <1>11, <2>1, Zenon DEF Held, Check
  <2> QED
    BY <1>0, <1>11, <2>2, MovedFiles, Zenon DEF Check
<1>12. CASE CheckAnswered
  <2>1. CASE FoundRevoked
    <3>1. Cleared(dsConfig).token = 0
      BY Zenon DEF Cleared, DsTypes, Files
    <3>2. Owned(Cleared(dsConfig))'
      BY <1>12, <3>1, Zenon DEF Owned, CheckAnswered, Cleared
    <3>3. Held' \subseteq Held \cup {Cleared(dsConfig)}
      BY <1>12, <2>1, HeldAfterEdit, Zenon DEF CheckAnswered, Actors
    <3>4. \A file \in Held' : file \in Held \/ Owned(file)'
      BY <1>12, <3>2, <3>3, Zenon DEF CheckAnswered, Cleared, Owned
    <3> QED
      BY <1>0, <1>12, <3>4, MovedFiles, Zenon DEF CheckAnswered
  <2>2. CASE ~FoundRevoked
    <3>1. {dsOp'[b].file : b \in Actors} \subseteq Held
      BY <1>12, <2>2, HeldAfterStep, Zenon DEF CheckAnswered, Actors
    <3>2. Held' \subseteq Held
      BY <1>12, <3>1, Zenon DEF Held, CheckAnswered
    <3> QED
      BY <1>0, <1>12, <3>2, MovedFiles, Zenon DEF CheckAnswered
  <2> QED
    BY <2>1, <2>2, Zenon
<1>13. ASSUME NEW a \in Actors, OpenFile(a) PROVE Belongs'
  <2>1. dsOp[a].file \in Held /\ dsOp[a].file \in Files
    BY Zenon DEF Held, DsTypes, Ops
  <2> DEFINE torn == Torn(dsOp[a].file)
  <2>2. torn.token = dsOp[a].file.token /\ torn.client = dsOp[a].file.client
    BY <2>1, Zenon DEF Torn, Files
  <2>3. \A file : file = torn => Owned(file)'
    BY <1>13, <2>1, <2>2, Zenon DEF Owned, Belongs, OpenFile
  <2>4. {dsOp'[b].file : b \in Actors} \subseteq Held
    BY <1>13, HeldAfterStep, Zenon DEF OpenFile
  <2>5. Held' \subseteq Held \cup {torn}
    BY <1>13, <2>4, Zenon DEF Held, OpenFile, OpenTmp
  <2> QED
    BY <1>0, <1>13, <2>3, <2>5, MovedFiles, Zenon DEF OpenFile
<1>14. ASSUME NEW a \in Actors, WriteText(a) PROVE Belongs'
  <2>1. dsOp[a].file \in Held /\ dsOp[a].file \in Files
    BY Zenon DEF Held, DsTypes, Ops
  <2> DEFINE torn == Torn(dsOp[a].file)
  <2>2. torn.token = dsOp[a].file.token /\ torn.client = dsOp[a].file.client
    BY <2>1, Zenon DEF Torn, Files
  <2>3. \A file : file = torn => Owned(file)'
    BY <1>14, <2>1, <2>2, Zenon DEF Owned, Belongs, WriteText
  <2>4. {dsOp'[b].file : b \in Actors} \subseteq Held
    BY <1>14, HeldAfterStep, Zenon DEF WriteText
  <2>5. /\ dsTmp' = dsTmp \/ dsTmp' = {dsOp[a].file} \/ dsTmp' = {torn}
        /\ dsConfig' \in {dsConfig, dsOp[a].file, torn}
    BY <1>14, Zenon DEF WriteText, Written
  <2>6. Held' \subseteq Held \cup {torn}
    BY <2>1, <2>4, <2>5, Zenon DEF Held
  <2> QED
    BY <1>0, <1>14, <2>3, <2>6, MovedFiles, ZenonT(60) DEF WriteText
<1>15. FirstFile.token = 0
  BY Zenon DEF FirstFile
<1>16. ASSUME NEW a \in Actors, Rename(a) PROVE Belongs'
  <2>1. UsedKept
    BY <1>16, ZenonT(60) DEF UsedKept, Rename, DsTypes, FlowRecs
  <2>2. dsTmp' \subseteq dsTmp /\ (dsConfig' = dsConfig \/ dsConfig' \in dsTmp)
    BY <1>16, Zenon DEF Rename
  <2>3. \A b \in Actors : dsOp'[b].file = dsOp[b].file \/ dsOp'[b].file = FirstFile
    BY <1>16, Zenon DEF Rename, DsTypes, Idle
  <2>4. Held' \subseteq Held \cup {FirstFile}
    BY <2>2, <2>3, Zenon DEF Held
  <2> QED
    BY <1>15, <2>1, <2>4, MovedFiles, Zenon DEF Owned
<1>17. CASE Killed
  <2>1. UsedKept
    BY <1>17, Zenon DEF UsedKept, Killed, DsTypes, FlowRecs
  <2>2. \A b \in Actors : dsOp'[b].file = FirstFile
    BY <1>17, Zenon DEF Killed, Idle
  <2>3. Held' \subseteq Held \cup {FirstFile}
    BY <1>17, <2>2, Zenon DEF Held, Killed
  <2> QED
    BY <1>15, <2>1, <2>3, MovedFiles, Zenon DEF Owned
<1>18. CASE UNCHANGED dsVars
  BY <1>18, Zenon DEF Belongs, Owned, dsVars
<1> QED
  BY <1>1, <1>2, <1>3, <1>4, <1>5, <1>6, <1>8, <1>9, <1>10, <1>11, <1>12, <1>13, <1>14, <1>16,
     <1>17, <1>18
 , ZenonT(60) DEF DsNext, Start, DeviceStart, TestConnection, DeviceTestConnection

-----------------------------------------------------------------------------
(* One writer at a time.  While no two threads have been between their     *)
(* read and their rename at once, the only writer owns the temporary file: *)
(* it is torn until its text is written and whole afterwards, it holds     *)
(* what the thread set out to write, and a token is about to be cleared    *)
(* only for a cause.                                                       *)
WholeFiles == \A a \in Actors : dsOp[a].file.whole

\* Two contents with the same sign-in.
Same(x, y) == x.client = y.client /\ x.token = y.token
\* Writing the content would sign the user out.
SignsOut(file) == file.token = 0 /\ dsConfig.token # 0 /\ file.client = dsConfig.client

\* At most one thread is between reading the file and renaming its copy over it.
OneWriter ==
    /\ \A a, b \in Actors : Writing(a) /\ Writing(b) => a = b
    /\ \A a \in Actors : dsFd[a] # "none" => dsFd[a] = "tmp" /\ dsOp[a].pc = "put"
    /\ \A a \in Actors : dsOp[a].pc = "put" => \A t \in dsTmp : ~t.whole
    /\ \A a \in Actors : dsOp[a].pc = "rename" => \A t \in dsTmp : t.whole /\ Same(t, dsOp[a].file)
    /\ \A a \in Actors : Writing(a) /\ SignsOut(dsOp[a].file) => dsRevoked # {}
    /\ dsConfig.whole

Alone == WholeFiles /\ (~dsOverlap => OneWriter)

(* A thread that starts to write while nobody else does.                   *)
LEMMA EditAlone ==
    ASSUME DsTypes, Alone, NEW a \in Actors, ~Writing(a), NEW arg, NEW file, file.whole,
           Edit(a, arg, file), SignsOut(file) => dsRevoked # {},
           UNCHANGED <<dsConfig, dsTmp, dsFd, dsRevoked>>
    PROVE  Alone'
<1>1. \A b \in Actors : dsOp[b] \in Ops
  BY Zenon DEF DsTypes
<1>2. CASE dsConfig.whole
  <2>1. /\ dsOp'[a] = [pc |-> "open", arg |-> arg, file |-> file]
        /\ \A b \in Actors \ {a} : dsOp'[b] = dsOp[b]
    BY <1>2, Zenon DEF Edit, DsTypes
  <2>2. WholeFiles'
    BY SMTT(60), <2>1 DEF Alone, WholeFiles
  <2>3. ASSUME ~dsOverlap' PROVE OneWriter'
    <3>1. ~dsOverlap /\ \A b \in Actors \ {a} : ~Writing(b)
      BY <1>2, <2>3, Zenon DEF Edit
    <3>2. OneWriter
      BY <3>1, Zenon DEF Alone
    <3>3. dsFd[a] = "none"
      BY <3>2, Zenon DEF OneWriter, Writing
    <3>4. \A b \in Actors : Writing(b)' => b = a
      BY <2>1, <3>1, Zenon DEF Writing
    <3> QED
      BY SMTT(60), <2>1, <3>1, <3>2, <3>3, <3>4 DEF OneWriter, Writing, SignsOut
  <2> QED
    BY <2>2, <2>3, Zenon DEF Alone
<1>3. CASE ~dsConfig.whole
  <2>1. dsOverlap /\ dsOverlap'
    BY <1>3, Zenon DEF Alone, OneWriter, Edit
  <2>2. WholeFiles'
    BY <1>1, <1>3 DEF Alone, WholeFiles, Edit, StepTo, DsTypes, Ops
  <2> QED
    BY <2>1, <2>2, Zenon DEF Alone
<1> QED
  BY <1>2, <1>3, Zenon

(* A thread that moves between two places outside of the writing.          *)
LEMMA StepAlone ==
    ASSUME DsTypes, Alone, NEW a \in Actors, ~Writing(a),
           NEW place \in {"idle", "polling", "refreshing"}, NEW arg, StepTo(a, place, arg), UNCHANGED <<dsConfig, dsTmp, dsFd, dsRevoked, dsOverlap>>
    PROVE  Alone'
<1>1. \A b \in Actors : dsOp[b] \in Ops
  BY Zenon DEF DsTypes
<1>2. /\ \A b \in Actors : dsOp'[b].file = dsOp[b].file
      /\ \A b \in Actors \ {a} : dsOp'[b] = dsOp[b]
      /\ dsOp'[a].pc = place
  BY <1>1, Zenon DEF StepTo, DsTypes, Ops
<1>3. WholeFiles'
  BY <1>2, ZenonT(60) DEF Alone, WholeFiles
<1>4. ASSUME OneWriter PROVE OneWriter'
  <2>1. dsFd[a] = "none"
    BY <1>4, ZenonT(60) DEF OneWriter, Writing
  <2> QED
    BY <1>2, <1>4, <2>1 DEF OneWriter, Writing, SignsOut
<1> QED
  BY <1>3, <1>4, Zenon DEF Alone

\* Nobody writes at the start.
LEMMA AloneInit == DsInit => Alone
<1> SUFFICES ASSUME DsInit PROVE Alone
  BY Zenon
<1>1. \A a \in Actors : dsOp[a].file = FirstFile /\ dsOp[a].pc = "idle" /\ dsFd[a] = "none"
  BY Zenon DEF DsInit, Idle
<1> QED
  BY <1>1 DEF DsInit, Alone, WholeFiles, OneWriter, Writing, FirstFile

\* Two threads that write overlap, and dsOverlap remembers it.
LEMMA AloneStep == DsTypes /\ Alone /\ [DsNext]_dsVars => Alone'
<1> SUFFICES ASSUME DsTypes, Alone, [DsNext]_dsVars PROVE Alone'
  BY Zenon
<1>0. \A b \in Actors : dsOp[b] \in Ops
  BY Zenon DEF DsTypes
<1>a. ASSUME UNCHANGED <<dsConfig, dsTmp, dsOp, dsFd, dsOverlap>>, dsRevoked \subseteq dsRevoked'
      PROVE  Alone'
  BY <1>a, ZenonT(60) DEF Alone, WholeFiles, OneWriter, Writing, SignsOut, Same
<1>1. ASSUME NEW c \in Clients, Save(c) PROVE Alone'
  <2> DEFINE new == [dsConfig EXCEPT !.client = c,
                                     !.token = IF ShouldClear(dsConfig, c) THEN 0 ELSE @]
  <2>1. /\ new.client = c /\ new.token = IF ShouldClear(dsConfig, c) THEN 0 ELSE dsConfig.token
        /\ new.whole = dsConfig.whole
    BY Zenon DEF DsTypes, Files
  <2>2. ~SignsOut(new)
    BY <2>1, Zenon DEF SignsOut, ShouldClear
  <2>3. "ui" \in Actors /\ ~Writing("ui")
    BY <1>1, Zenon DEF Save, Writing, Actors
  <2>4. CASE dsConfig.whole
    BY <1>1, <2>1, <2>2, <2>3, <2>4, EditAlone, ZenonT(60) DEF Save
  <2>5. CASE ~dsConfig.whole
    BY <1>1, <2>3, <2>5, StepAlone, Zenon DEF Save, Edit
  <2> QED
    BY <2>4, <2>5, Zenon
<1>2. CASE SaveSection
  <2>1. ~SignsOut(dsConfig)
    BY Zenon DEF SignsOut
  <2>2. "ui" \in Actors /\ ~Writing("ui")
    BY <1>2, Zenon DEF SaveSection, Writing, Actors
  <2>3. CASE dsConfig.whole
    BY <1>2, <2>1, <2>2, <2>3, EditAlone, Zenon DEF SaveSection
  <2>4. CASE ~dsConfig.whole
    BY <1>2, <2>2, <2>4, StepAlone, Zenon DEF SaveSection, Edit
  <2> QED
    BY <2>3, <2>4, Zenon
<1>3. ASSUME NEW f \in Flows, NEW c \in Clients, Started(f, c) PROVE Alone'
  BY <1>a, <1>3, Zenon DEF Started
<1>4. ASSUME NEW f \in Flows, Granted(f) \/ Refused(f) \/ Cancel(f) \/ Revoke(f) PROVE Alone'
  BY <1>a, <1>4, Zenon DEF Granted, Refused, Decided, Cancel, Revoke
<1>5. ASSUME NEW f \in Flows, Complete(f) \/ PollFlow(f) PROVE Alone'
  <2>1. "flow" \in Actors /\ ~Writing("flow")
    BY <1>5, Zenon DEF Complete, PollFlow, Begin, Writing, Actors
  <2> QED
    BY <1>5, <2>1, StepAlone, Zenon DEF Complete, PollFlow, Begin
<1>6. ASSUME NEW f \in Flows, CompletePending(f) \/ PollFlowPending(f) PROVE Alone'
  <2>1. "flow" \in Actors /\ ~Writing("flow")
    BY <1>6, Zenon DEF CompletePending, PollFlowPending, Polling, Writing, Actors
  <2> QED
    BY <1>6, <2>1, StepAlone, Zenon DEF CompletePending, PollFlowPending
<1>7. ASSUME NEW f \in Flows, NEW may, NEW file, Ends(f, may, file), dsOp["flow"].pc = "polling",
             file.whole = dsConfig.whole, file.token = f
      PROVE  Alone'
  <2>1. "flow" \in Actors /\ ~Writing("flow")
    BY <1>7, Zenon DEF Writing, Actors
  <2>2. ~SignsOut(file)
    BY <1>7 DEF SignsOut, Flows
  <2>3. CASE dsFlow[f].google = "granted" /\ may /\ dsConfig.whole
    BY <1>7, <2>1, <2>2, <2>3, EditAlone, Zenon DEF Ends
  <2>4. CASE ~(dsFlow[f].google = "granted" /\ may /\ dsConfig.whole)
    BY <1>7, <2>1, <2>4, StepAlone, Zenon DEF Ends, Edit
  <2> QED
    BY <2>3, <2>4, Zenon
<1>8. ASSUME NEW f \in Flows, CompleteEnds(f) PROVE Alone'
  <2> DEFINE file == [dsConfig EXCEPT !.client = dsFlow[f].client, !.token = f]
  <2>1. file.token = f /\ file.whole = dsConfig.whole
    BY Zenon DEF DsTypes, Files
  <2> QED
    BY <1>7, <1>8, <2>1, Zenon DEF CompleteEnds, Polling
<1>9. ASSUME NEW f \in Flows, PollFlowEnds(f) PROVE Alone'
  <2> DEFINE file == [dsConfig EXCEPT !.token = f]
  <2>1. file.token = f /\ file.whole = dsConfig.whole
    BY Zenon DEF DsTypes, Files
  <2> QED
    BY <1>7, <1>9, <2>1, Zenon DEF PollFlowEnds, Polling
<1>10. ASSUME NEW side, Check(side) PROVE Alone'
  <2>1. "check" \in Actors /\ ~Writing("check")
    BY <1>10, Zenon DEF Check, Writing, Actors
  <2> QED
    BY <1>10, <2>1, StepAlone, Zenon DEF Check
<1>11. CASE CheckAnswered
  <2>1. "check" \in Actors /\ ~Writing("check")
    BY <1>11, Zenon DEF CheckAnswered, Writing, Actors
  <2>2. CASE FoundRevoked /\ dsConfig.whole
    <3>1. Cleared(dsConfig).whole /\ dsRevoked # {}
      BY <2>2, Zenon DEF Cleared, FoundRevoked, DsTypes, Files
    <3> QED
      BY <1>11, <2>1, <2>2, <3>1, EditAlone, Zenon DEF CheckAnswered
  <2>3. CASE ~(FoundRevoked /\ dsConfig.whole)
    BY <1>11, <2>1, <2>3, StepAlone, Zenon DEF CheckAnswered, Edit
  <2> QED
    BY <2>2, <2>3, Zenon
<1>12. ASSUME NEW a \in Actors, OpenFile(a) \/ WriteText(a)
       PROVE  /\ WholeFiles'
              /\ \A b \in Actors : dsOp'[b].file = dsOp[b].file
              /\ \A b \in Actors \ {a} : dsOp'[b] = dsOp[b]
              /\ OpenFile(a) => dsOp'[a].pc = "put"
              /\ WriteText(a) => dsOp'[a].pc = "rename"
  <2>1. \A place, arg :
          StepTo(a, place, arg) => /\ \A b \in Actors : dsOp'[b].file = dsOp[b].file
                                   /\ \A b \in Actors \ {a} : dsOp'[b] = dsOp[b]
                                   /\ dsOp'[a].pc = place
    BY <1>0 DEF StepTo, DsTypes, Ops
  <2>2. /\ OpenFile(a) => StepTo(a, "put", dsOp[a].arg)
        /\ WriteText(a) => StepTo(a, "rename", dsOp[a].arg)
    BY Zenon DEF OpenFile, WriteText
  <2> QED
    BY <1>12, <2>1, <2>2, Zenon DEF Alone, WholeFiles
<1>13. ASSUME NEW a \in Actors, OpenFile(a) PROVE Alone'
  <2>1. ~Torn(dsOp[a].file).whole
    BY <1>0, Zenon DEF Torn, Ops, Files
  <2>2. ASSUME OneWriter PROVE OneWriter'
    <3>1. \A b \in Actors : Writing(b)' => b = a
      BY SMTT(60), <1>12, <1>13, <2>2 DEF OneWriter, Writing, OpenFile
    <3>2. \A b \in Actors \ {a} : dsFd'[b] = dsFd[b]
      BY <1>13, Zenon DEF OpenFile, OpenTmp, DsTypes
    <3>3. \A b \in Actors : dsFd'[b] # "none" => dsFd'[b] = "tmp" /\ dsOp'[b].pc = "put"
      <4>1. dsFd'[a] = "tmp"
        BY <1>13, Zenon DEF OpenFile, OpenTmp, DsTypes
      <4> QED
        BY SMTT(60), <1>12, <1>13, <2>2, <3>2, <4>1 DEF OneWriter
    <3>4. \A t \in dsTmp' : ~t.whole
      BY <1>13, <2>1, Zenon DEF OpenFile, OpenTmp
    <3>5. \A b \in Actors : dsOp'[b].pc # "rename"
      BY <1>12, <1>13, <3>1, Zenon DEF Writing
    <3>6. (\A b \in Actors : Writing(b) /\ SignsOut(dsOp[b].file) => dsRevoked # {})'
      <4>1. Writing(a) /\ (SignsOut(dsOp[a].file) => dsRevoked # {})
        BY <1>13, <2>2, Zenon DEF OneWriter, Writing, OpenFile
      <4>2. dsOp'[a].file = dsOp[a].file /\ UNCHANGED <<dsConfig, dsRevoked>>
        BY <1>12, <1>13, Zenon DEF OpenFile, OpenTmp
      <4> QED
        BY <3>1, <4>1, <4>2, Zenon DEF SignsOut
    <3>7. dsConfig'.whole
      BY <1>13, <2>2, Zenon DEF OneWriter, OpenFile, OpenTmp
    <3> QED
      BY <3>1, <3>3, <3>4, <3>5, <3>6, <3>7, ZenonT(60) DEF OneWriter
  <2> QED
    BY <1>12, <1>13, <2>2, Zenon DEF Alone, OpenFile
<1>14. ASSUME NEW a \in Actors, WriteText(a) PROVE Alone'
  <2>1. dsOp[a].file.whole
    BY Zenon DEF Alone, WholeFiles
  <2>2. ASSUME OneWriter PROVE OneWriter'
    <3>1. \A b \in Actors : Writing(b)' => b = a
      BY ZenonT(60), <1>12, <1>14, <2>2 DEF OneWriter, Writing, WriteText
    <3>2. (UNCHANGED dsConfig /\ dsTmp' = {dsOp[a].file}) \/ dsFd[a] = "none"
      BY <1>14, <2>2, Zenon DEF OneWriter, WriteText, Written
    <3>3. UNCHANGED dsConfig /\ dsTmp' = {dsOp[a].file}
      BY <1>14, <3>2, Zenon DEF WriteText
    <3>4. \A b \in Actors : dsFd'[b] = "none"
      BY <1>14, <2>2, Zenon DEF OneWriter, WriteText, DsTypes, Writing
    <3>5. \A b \in Actors : dsOp'[b].pc # "put"
      BY <1>12, <1>14, <3>1, Zenon DEF Writing
    <3>6. \A b \in Actors : dsOp'[b].pc = "rename" => \A t \in dsTmp' : t.whole /\ Same(t, dsOp'[b].file)
      BY <1>12, <1>14, <2>1, <3>1, <3>3, ZenonT(60) DEF Writing, Same
    <3>7. (\A b \in Actors : Writing(b) /\ SignsOut(dsOp[b].file) => dsRevoked # {})'
      <4>1. Writing(a) /\ (SignsOut(dsOp[a].file) => dsRevoked # {})
        BY <1>14, <2>2, Zenon DEF OneWriter, Writing, WriteText
      <4>2. dsOp'[a].file = dsOp[a].file /\ UNCHANGED <<dsConfig, dsRevoked>>
        BY <1>12, <1>14, <3>3, Zenon DEF WriteText
      <4> QED
        BY <3>1, <4>1, <4>2, Zenon DEF SignsOut
    <3> QED
      BY <2>2, <3>1, <3>3, <3>4, <3>5, <3>6, <3>7, ZenonT(60) DEF OneWriter, Same
  <2> QED
    BY <1>12, <1>14, <2>2, Zenon DEF Alone, WriteText
<1>15. ASSUME NEW a \in Actors, Rename(a) PROVE Alone'
  <2>1. dsOp'[a] = Idle /\ \A b \in Actors \ {a} : dsOp'[b] = dsOp[b]
    BY <1>15, ZenonT(60) DEF Rename, DsTypes
  <2>2. WholeFiles'
    BY <2>1 DEF Alone, WholeFiles, Idle, FirstFile
  <2>3. ASSUME OneWriter PROVE OneWriter'
    <3>1. \A b \in Actors : ~Writing(b)'
      BY SMTT(60), <1>15, <2>1, <2>3 DEF OneWriter, Writing, Rename, Idle
    <3>2. \A b \in Actors : dsFd[b] = "none"
      BY <1>15, <2>3, Zenon DEF OneWriter, Writing, Rename
    <3>3. \A b \in Actors : dsFd'[b] = "none"
      BY <1>15, <3>2, Zenon DEF Rename, Follows
    <3>4. dsConfig'.whole
      BY <1>15, <2>3, Zenon DEF OneWriter, Rename
    <3> QED
      BY <3>1, <3>3, <3>4, Zenon DEF OneWriter, Writing
  <2> QED
    BY <1>15, <2>2, <2>3, Zenon DEF Alone, Rename
<1>16. CASE Killed
  <2>1. \A b \in Actors : dsOp'[b] = Idle /\ dsFd'[b] = "none"
    BY <1>16, Zenon DEF Killed
  <2>2. WholeFiles' /\ \A b \in Actors : ~Writing(b)'
    BY <2>1 DEF WholeFiles, Idle, FirstFile, Writing
  <2> QED
    BY <1>16, <2>1, <2>2, Zenon DEF Alone, OneWriter, Killed, Writing
<1>17. CASE UNCHANGED dsVars
  BY <1>a, <1>17, Zenon DEF dsVars
<1> QED
  BY <1>1, <1>2, <1>3, <1>4, <1>5, <1>6, <1>8, <1>9, <1>10, <1>11, <1>13, <1>14, <1>15, <1>16, <1>17
 , ZenonT(60) DEF DsNext, Start, DeviceStart, TestConnection, DeviceTestConnection

-----------------------------------------------------------------------------
(* The registry of device flows: only driveOauthDeviceCodeStart adds to it.*)
Registry == dsSide = "android" => Cardinality(Pending) <= MAX_PENDING

\* The registry of sign-ins is finite.
LEMMA PendingFinite ==
    IsFiniteSet(Pending) /\ Cardinality(Pending) \in Nat
<1>1. IsFiniteSet(Flows)
  BY FS_Interval, DriveSignInAssumption DEF Flows
<1>2. IsFiniteSet(Pending)
  BY <1>1, FS_Subset, Zenon DEF Pending
<1> QED
  BY <1>2, FS_CardinalityType, Zenon

\* A sign-in that starts or ends leaves the registry within its limit.
LEMMA RegistryStep == DsTypes /\ Registry /\ [DsNext]_dsVars => Registry'
<1> SUFFICES ASSUME DsTypes, Registry, [DsNext]_dsVars PROVE Registry'
  BY Zenon
<1>0. dsSide' = dsSide
  BY ZenonT(60) DEF DsNext, dsVars, Save, SaveSection, Start, DeviceStart, Started, Granted, Refused, Decided,
         Revoke, Complete, CompletePending, CompleteEnds, PollFlow, PollFlowPending, PollFlowEnds,
         Begin, Ends, Cancel, TestConnection, DeviceTestConnection, Check, CheckAnswered, OpenFile,
         WriteText, Rename, Killed
<1> SUFFICES ASSUME dsSide = "android" PROVE Cardinality(Pending') <= MAX_PENDING
  BY <1>0, Zenon DEF Registry
<1>1. ASSUME Pending' \subseteq Pending PROVE Cardinality(Pending') <= MAX_PENDING
  <2>1. Pending' \in SUBSET Pending
    BY <1>1, Zenon
  <2>2. IsFiniteSet(Pending') /\ Cardinality(Pending') <= Cardinality(Pending)
    BY <2>1, PendingFinite, FS_Subset, Zenon
  <2>3. Cardinality(Pending') \in Nat
    BY <2>2, FS_CardinalityType, Zenon
  <2> QED
    BY SMTT(60), <2>2, <2>3, PendingFinite, DriveSignInAssumption DEF Registry
<1>2. ASSUME NEW f \in Flows, NEW c \in Clients, DeviceStart(f, c)
      PROVE  Cardinality(Pending') <= MAX_PENDING
  <2>1. Pending' \in SUBSET (Pending \cup {f})
    BY <1>2, Zenon DEF DeviceStart, Started, Pending, DsTypes
  <2>2. /\ IsFiniteSet(Pending \cup {f})
        /\ Cardinality(Pending \cup {f}) = IF f \in Pending THEN Cardinality(Pending)
                                           ELSE Cardinality(Pending) + 1
    BY PendingFinite, FS_AddElement, Zenon
  <2>3. IsFiniteSet(Pending') /\ Cardinality(Pending') <= Cardinality(Pending \cup {f})
    BY <2>1, <2>2, FS_Subset, Zenon
  <2>4. Cardinality(Pending') \in Nat
    BY <2>3, FS_CardinalityType, Zenon
  <2>5. Cardinality(Pending) < MAX_PENDING
    BY <1>2, PendingFinite, DriveSignInAssumption DEF DeviceStart, RegistryFull
  <2> QED
    BY SMTT(60), <2>2, <2>3, <2>4, <2>5, PendingFinite, DriveSignInAssumption
<1>3. CASE UNCHANGED dsFlow
  BY <1>1, <1>3, Zenon DEF Pending
<1>4. ASSUME NEW f \in Flows, Granted(f) \/ Refused(f) \/ Complete(f) \/ CompleteEnds(f)
                              \/ PollFlowEnds(f) \/ Cancel(f)
      PROVE  Pending' \subseteq Pending
  <2>1. \A g \in Flows : dsFlow'[g].pending => dsFlow[g].pending
    BY <1>4 DEF Granted, Refused, Decided, Complete, CompleteEnds, PollFlowEnds, Ends, Cancel,
                DsTypes, FlowRecs
  <2> QED
    BY <2>1, Zenon DEF Pending
<1>5. ASSUME NEW a \in Actors, Rename(a) PROVE Pending' \subseteq Pending
  <2>1. \A g \in Flows : dsFlow'[g].pending => dsFlow[g].pending
    BY <1>5, Zenon DEF Rename, DsTypes, FlowRecs
  <2> QED
    BY <2>1, Zenon DEF Pending
<1>6. CASE Killed
  <2>1. \A g \in Flows : ~dsFlow'[g].pending
    BY <1>6, Zenon DEF Killed, DsTypes, FlowRecs
  <2> QED
    BY <1>1, <2>1, Zenon DEF Pending
<1>7. CASE UNCHANGED dsVars
  BY <1>3, <1>7, Zenon DEF dsVars
<1> QED
  BY <1>1, <1>2, <1>3, <1>4, <1>5, <1>6, <1>7
 , ZenonT(60) DEF DsNext, Save, SaveSection, Start, Revoke, CompletePending, Polling, PollFlow,
      PollFlowPending, TestConnection, DeviceTestConnection, Check, CheckAnswered, OpenFile, WriteText

-----------------------------------------------------------------------------
(* The inductive invariant.                                                *)
DsInv == DsTypes /\ Belongs /\ Alone /\ Registry

\* So all of it holds throughout.
LEMMA DsInvHolds == DsSpec => []DsInv
<1>1. DsInit => DsInv
  <2> SUFFICES ASSUME DsInit PROVE DsInv
    BY Zenon
  <2>1. Belongs
    <3>1. \A a \in Actors : dsOp[a].file = FirstFile
      BY Zenon DEF DsInit, Idle
    <3> QED
      BY <3>1 DEF DsInit, Belongs, Owned, FirstFile
  <2>2. Registry
    <3>1. Pending = {}
      BY Zenon DEF DsInit, Pending
    <3> QED
      BY SMTT(60), <3>1, FS_EmptySet, DriveSignInAssumption DEF Registry
  <2> QED
    BY <2>1, <2>2, DsTypesInit, AloneInit, ZenonT(60) DEF DsInv
<1>2. DsInv /\ [DsNext]_dsVars => DsInv'
  BY DsTypesStep, BelongsStep, AloneStep, RegistryStep, Zenon DEF DsInv
<1> QED
  BY <1>1, <1>2, PTL DEF DsSpec

(* Whatever saves, sign-ins, connection tests and kills interleave, for    *)
(* any number of them: a saved refresh token belongs to the credentials    *)
(* saved beside it, config.json is unreadable only after two threads wrote *)
(* it at once, and Android holds at most MAX_PENDING_DEVICE_FLOWS flows    *)
(* (commands.rs, android_jni.rs, profiles.rs write_config_json_to).        *)
THEOREM SavedSignInSound == DsSpec => []SignInSound
<1>1. DsInv => SignInSound
  <2> SUFFICES ASSUME DsInv PROVE SignInSound
    BY Zenon
  <2>1. DsTypeOK
    BY Zenon DEF DsInv, DsTypes, DsTypeOK, Registry, Ops, Pcs, FlowRecs
  <2>2. TokenOfItsClient
    BY Zenon DEF DsInv, Belongs, Owned, TokenOfItsClient
  <2>3. TornOnlyByTwoWriters
    BY Zenon DEF DsInv, Alone, OneWriter, TornOnlyByTwoWriters
  <2> QED
    BY <2>1, <2>2, <2>3, Zenon DEF SignInSound
<1> QED
  BY <1>1, DsInvHolds, PTL

(* The token is only taken off the disk for a cause (write_config_json_to, *)
(* by whichever command): only the write to a moved file and the rename    *)
(* change config.json, and the rename installs what its thread decided.    *)
THEOREM SignOutCaused == DsSpec => [][SignOutHasCause]_dsVars
<1>1. DsInv /\ [DsNext]_dsVars => [SignOutHasCause]_dsVars
  <2> SUFFICES ASSUME DsInv, DsNext, ~dsOverlap PROVE SignOutHasCause
    BY Zenon DEF SignOutHasCause
  <2>1. OneWriter
    BY Zenon DEF DsInv, Alone
  <2>2. CASE UNCHANGED dsConfig
    BY <2>2, Zenon DEF SignOutHasCause
  <2>3. ASSUME NEW a \in Actors, WriteText(a) PROVE UNCHANGED dsConfig
    BY <2>1, <2>3, Zenon DEF OneWriter, WriteText
  <2>4. ASSUME NEW a \in Actors, Rename(a) PROVE SignOutHasCause
    <3>1. CASE dsTmp = {}
      BY <2>2, <2>4, <3>1, Zenon DEF Rename
    <3>2. CASE dsTmp # {}
      <4>1. Same(dsConfig', dsOp[a].file) /\ Writing(a)
        BY <2>1, <2>4, <3>2, Zenon DEF Rename, OneWriter, Writing
      <4> QED
        BY <2>1, <4>1, Zenon DEF OneWriter, SignsOut, Same, SignOutHasCause
    <3> QED
      BY <3>1, <3>2, Zenon
  <2> QED
    BY <2>2, <2>3, <2>4
   , ZenonT(60) DEF DsNext, Save, SaveSection, Start, DeviceStart, Started, Granted, Refused, Decided,
        Revoke, Complete, CompletePending, CompleteEnds, PollFlow, PollFlowPending, PollFlowEnds,
        Begin, Ends, Cancel, TestConnection, DeviceTestConnection, Check, CheckAnswered, OpenFile,
        OpenTmp, Killed
<1> QED
  BY <1>1, DsInvHolds, PTL DEF DsSpec

=============================================================================
