---------------------------- MODULE TunnelProofs ----------------------------
(***************************************************************************)
(* Proofs about PipelineDepth and ReplayRegistry.                          *)
(*                                                                         *)
(* The count of the elevation permits is not inductive by itself: an       *)
(* admission is a load and a compare-exchange, so the invariant says in    *)
(* addition what is true of a session between the two, and that a counter  *)
(* of 0 means that nobody holds a permit.                                  *)
(*                                                                         *)
(* That a batch is executed once is not inductive either: the bound on its *)
(* executions must be one tighter while the registry has no entry for it,  *)
(* and every entry, channel and cached body must lead back to a request    *)
(* that executed this batch.                                               *)
(***************************************************************************)
EXTENDS PipelineDepth, ReplayRegistry, FiniteSetTheorems, TLAPS

\* A part of a sequence.
LEMMA SubSeqProperties ==
  ASSUME NEW S, NEW s, NEW m \in Int, NEW n \in Int, \A i \in m..n : s[i] \in S
  PROVE  /\ SubSeq(s, m, n) \in Seq(S)
         /\ Len(SubSeq(s, m, n)) = IF m <= n THEN n - m + 1 ELSE 0
         /\ \A i \in 1..(n - m + 1) : SubSeq(s, m, n)[i] = s[m + i - 1]
OBVIOUS

\* A sequence with one element replaced.
LEMMA ExceptSeq ==
  ASSUME NEW S, NEW seq \in Seq(S), NEW i \in 1..Len(seq), NEW e \in S
  PROVE  /\ [seq EXCEPT ![i] = e] \in Seq(S) /\ Len([seq EXCEPT ![i] = e]) = Len(seq)
         /\ \A j \in 1..Len(seq) : [seq EXCEPT ![i] = e][j] = IF j = i THEN e ELSE seq[j]
<1>1. DOMAIN seq = 1..Len(seq) /\ Len(seq) \in Nat
  OBVIOUS
<1>2. seq \in [1..Len(seq) -> S]
  BY <1>1
<1>3. [seq EXCEPT ![i] = e] \in [1..Len(seq) -> S]
  BY <1>2, Zenon
<1>4. \A n \in Nat : \A f \in [1..n -> S] : f \in Seq(S) /\ Len(f) = n
  OBVIOUS
<1> QED
  BY <1>1, <1>2, <1>3, <1>4, Zenon


Entries == {"poll", "upload"} \cup Kinds
LoopType ==
  [pc : {"off", "run", "cas", "read"}, window : Seq(Entries),
   max_inflight : 0..INFLIGHT_ACTIVE, empties : 0..IdleStart, datas : 0..2,
   total : 0..Enough, is_elevated : BOOLEAN, refill : BOOLEAN,
   supports_seq : BOOLEAN, client_closed : BOOLEAN, eof_seen : BOOLEAN, cur : Nat]

\* A session is typed, deep only with a permit, inside the admission loop only
\* if it may go deeper and has no permit yet, and holds none before it starts.
Good(x) ==
  /\ x \in LoopType
  /\ x.max_inflight > INFLIGHT_OPTIMIST => x.is_elevated
  /\ x.pc = "cas" => /\ ~x.is_elevated
                     /\ INFLIGHT_OPTIMIST <= x.max_inflight /\ x.max_inflight < INFLIGHT_ACTIVE
  /\ x.pc = "off" => ~x.is_elevated

Elevated(f) == {s \in Sessions : f[s].is_elevated}

\* Every permit held is counted; where no write to a local client fails, the
\* count is exact.
Counted ==
  /\ elevated_sessions \in Nat /\ elevated_sessions <= MaxElevated
  /\ Cardinality(Elevated(st)) <= elevated_sessions
  /\ ~Client("gone") => elevated_sessions = Cardinality(Elevated(st))

Marks == age \in [Scripts -> 0..RecoverAfter] /\ all_legacy \in BOOLEAN /\ FlagNotStale

Permits ==
  /\ pdSetup \in PdSetups
  /\ st \in [Sessions -> LoopType] /\ \A s \in Sessions : Good(st[s])
  /\ Counted

PdInv == Permits /\ Marks

-----------------------------------------------------------------------------
\* Less-than on the naturals, as a relation.
Less == {p \in Nat \X Nat : p[1] < p[2]}

\* A set of naturals that is not empty has a least element.
LEMMA LeastElement ==
  ASSUME NEW T, T \subseteq Nat, T # {}
  PROVE  \E x \in T : \A y \in T : x <= y
<1>1. IsWellFoundedOn(Less, Nat)
  BY NatLessThanWellFounded, Zenon DEF OpToRel, Less
<1>2. PICK x \in T : \A y \in T : ~(<<y, x>> \in Less)
  BY <1>1, WFMin, Zenon
<1>3. \A y \in T : ~(y < x)
  BY <1>2, Zenon DEF Less
<1> QED
  BY <1>3

\* The ranges of the constants.
LEMMA Ranges ==
  /\ INFLIGHT_IDLE \in Nat /\ INFLIGHT_OPTIMIST \in Nat /\ INFLIGHT_ACTIVE \in Nat
  /\ 1 <= INFLIGHT_IDLE /\ INFLIGHT_IDLE < INFLIGHT_OPTIMIST
  /\ INFLIGHT_OPTIMIST <= INFLIGHT_ACTIVE
  /\ MaxElevated \in Nat /\ IdleStart \in Nat \ {0, 1} /\ Enough \in Nat \ {0}
BY PipelineAssumption, Zenon DEF PipelineAssumption

\* What the write loop takes off the window is a prefix of it.
LEMMA WrittenIsPrefix ==
  ASSUME NEW S, NEW w \in Seq(S)
  PROVE  /\ Written(w) \in Seq(S) /\ Unwritten(w) \in Seq(S)
         /\ \A i \in DOMAIN Written(w) : Written(w)[i] \in Kinds
<1> DEFINE P(n) == /\ \A i \in 1..n : w[i] \in Kinds
                   /\ n = Len(w) \/ w[n + 1] \notin Kinds
           T == {n \in 0..Len(w) : n = Len(w) \/ w[n + 1] \notin Kinds}
           k == CHOOSE n \in 0..Len(w) : P(n)
<1>1. Len(w) \in Nat
  OBVIOUS
<1>2. T \subseteq Nat /\ Len(w) \in T
  BY <1>1
<1>3. PICK m \in T : \A n \in T : m <= n
  BY <1>2, LeastElement, Zenon
<1>4. m \in 0..Len(w) /\ P(m)
  <2>1. ASSUME NEW i \in 1..m PROVE w[i] \in Kinds
    <3>1. i - 1 \in 0..Len(w) /\ ~(m <= i - 1)
      BY <1>1
    <3>2. i - 1 \notin T
      BY <1>3, <3>1, Zenon
    <3> QED
      BY <3>1, <3>2
  <2> QED
    BY <2>1, Zenon
<1>5. k \in 0..Len(w) /\ P(k)
  BY <1>4, Zenon
<1> HIDE DEF k
<1>6. Written(w) = SubSeq(w, 1, k)
  BY Zenon DEF Written, k
<1>7. /\ SubSeq(w, 1, k) \in Seq(S) /\ Len(SubSeq(w, 1, k)) = k
      /\ \A i \in 1..k : SubSeq(w, 1, k)[i] = w[i]
  BY <1>1, <1>5, SubSeqProperties
<1>8. SubSeq(w, k + 1, Len(w)) \in Seq(S)
  BY <1>1, <1>5, SubSeqProperties
<1> QED
  BY <1>5, <1>6, <1>7, <1>8 DEF Unwritten

\* The replies without data at the end of a run.
LEMMA TrailingRange ==
  ASSUME NEW S, NEW run \in Seq(S)
  PROVE  Trailing(run) \in 0..Len(run)
<1> DEFINE P(n) == /\ \A i \in (Len(run) - n + 1)..Len(run) : run[i] \notin HasData
                   /\ n = Len(run) \/ run[Len(run) - n] \in HasData
           T == {n \in 0..Len(run) : n = Len(run) \/ run[Len(run) - n] \in HasData}
<1>1. Len(run) \in Nat
  OBVIOUS
<1>2. T \subseteq Nat /\ Len(run) \in T
  BY <1>1
<1>3. PICK m \in T : \A n \in T : m <= n
  BY <1>2, LeastElement, Zenon
<1>4. m \in 0..Len(run) /\ P(m)
  <2>1. ASSUME NEW i \in (Len(run) - m + 1)..Len(run) PROVE run[i] \notin HasData
    <3>1. Len(run) - i \in 0..Len(run) /\ ~(m <= Len(run) - i) /\ Len(run) - (Len(run) - i) = i
      BY <1>1
    <3>2. Len(run) - i \notin T
      BY <1>3, <3>1, Zenon
    <3> QED
      BY <3>1, <3>2, Zenon
  <2> QED
    BY <2>1, Zenon
<1> QED
  BY <1>4, Zenon DEF Trailing

-----------------------------------------------------------------------------
\* A saturating sum stays within its cap.
LEMMA UpRange ==
  ASSUME NEW n \in Nat, NEW k \in Nat, NEW cap \in Nat
  PROVE  PdUp(n, k, cap) \in 0..cap
BY DEF PdUp

\* The counters of a run of replies touch neither the depth nor the permit.
LEMMA CountKeeps ==
  ASSUME NEW x \in LoopType, NEW run \in Seq(Entries)
  PROVE  /\ Count(x, run) \in LoopType
         /\ Count(x, run).pc = x.pc /\ Count(x, run).is_elevated = x.is_elevated
         /\ Count(x, run).max_inflight = x.max_inflight
<1> DEFINE n == Cardinality({i \in DOMAIN run : run[i] \in HasData})
           e == PdUp(IF n = 0 THEN x.empties ELSE 0, Trailing(run), IdleStart)
           d == PdUp(x.datas, n, 2)
           t == PdUp(x.total, n, Enough)
           o == x.eof_seen \/ \E i \in DOMAIN run : run[i] \in HasEof
<1>1. n \in Nat
  <2>1. DOMAIN run = 1..Len(run) /\ Len(run) \in Nat
    OBVIOUS
  <2>2. IsFiniteSet(1..Len(run))
    BY <2>1, FS_Interval
  <2>3. IsFiniteSet({i \in DOMAIN run : run[i] \in HasData})
    BY <2>1, <2>2, FS_Subset, Zenon
  <2> QED
    BY <2>3, FS_CardinalityType, Zenon
<1>2. Trailing(run) \in Nat
  BY TrailingRange
<1>3. x.empties \in Nat /\ x.datas \in Nat /\ x.total \in Nat /\ x.eof_seen \in BOOLEAN
  BY Ranges DEF LoopType
<1> HIDE DEF n
<1>4. e \in 0..IdleStart /\ d \in 0..2 /\ t \in 0..Enough
  BY <1>1, <1>2, <1>3, UpRange, Ranges, Zenon
<1>5. o \in BOOLEAN
  BY <1>3, Zenon
<1>6. Count(x, run) = [x EXCEPT !.empties = e, !.datas = d, !.total = t, !.eof_seen = o]
  BY Zenon DEF Count, n
<1> HIDE DEF e, d, t, o
<1> DEFINE y == [x EXCEPT !.empties = e, !.datas = d]
<1>7. y \in LoopType /\ y.pc = x.pc /\ y.is_elevated = x.is_elevated
                      /\ y.max_inflight = x.max_inflight
  BY <1>4, Zenon DEF LoopType
<1>8. Count(x, run) = [y EXCEPT !.total = t, !.eof_seen = o]
  BY <1>6, Zenon
<1> HIDE DEF y
<1> QED
  BY ZenonT(60), <1>4, <1>5, <1>7, <1>8 DEF LoopType

\* The refill timer touches neither the depth nor the permit.
LEMMA RearmKeeps ==
  ASSUME NEW x, Good(x), NEW legacy
  PROVE  /\ Good(Rearm(x, legacy))
         /\ Rearm(x, legacy).pc = x.pc /\ Rearm(x, legacy).is_elevated = x.is_elevated
<1>1. Rearm(x, legacy) \in {x, [x EXCEPT !.refill = TRUE]}
  BY Zenon DEF Rearm
<1> QED
  BY <1>1, Zenon DEF Good, LoopType

\* The depth rules keep a session good: they only give a permit back.
LEMMA DeepenKeeps ==
  ASSUME NEW x, Good(x), x.pc = "run"
  PROVE  /\ Good(Deepen(x)) /\ Deepen(x).pc = "run"
         /\ Deepen(x).is_elevated => x.is_elevated
<1>1. CASE Drops(x)
  <2>1. Deepen(x) = [x EXCEPT !.max_inflight = INFLIGHT_IDLE, !.is_elevated = FALSE]
    BY <1>1, Zenon DEF Deepen
  <2>2. INFLIGHT_IDLE \in 0..INFLIGHT_ACTIVE /\ ~(INFLIGHT_IDLE > INFLIGHT_OPTIMIST)
    BY Ranges
  <2> QED
    BY <2>1, <2>2, ZenonT(60) DEF Good, LoopType
<1>2. CASE ~Drops(x) /\ Rises(x)
  <2>1. Deepen(x) = [x EXCEPT !.max_inflight = INFLIGHT_OPTIMIST]
    BY <1>2, Zenon DEF Deepen
  <2>2. INFLIGHT_OPTIMIST \in 0..INFLIGHT_ACTIVE /\ ~(INFLIGHT_OPTIMIST > INFLIGHT_OPTIMIST)
    BY Ranges
  <2> QED
    BY <2>1, <2>2, Zenon DEF Good, LoopType
<1>3. CASE ~Drops(x) /\ ~Rises(x) /\ Ramps(x) /\ x.is_elevated
  <2>1. Deepen(x) = [x EXCEPT !.max_inflight = x.max_inflight + 1]
    BY <1>3, Zenon DEF Deepen
  <2>2. x.max_inflight + 1 \in 0..INFLIGHT_ACTIVE
    BY SMTT(60), <1>3, Ranges DEF Good, LoopType, Ramps
  <2> QED
    BY <1>3, <2>1, <2>2, Zenon DEF Good, LoopType
<1>4. CASE ~Drops(x) /\ ~Rises(x) /\ ~(Ramps(x) /\ x.is_elevated)
  BY <1>4, Zenon DEF Deepen
<1> QED
  BY <1>1, <1>2, <1>3, <1>4, Zenon

\* A new loop is good and has no permit.
LEMMA FreshGood == Good(FreshLoop) /\ ~FreshLoop.is_elevated /\ FreshLoop.pc = "off"
<1>1. << >> \in Seq(Entries)
  OBVIOUS
<1> QED
  BY <1>1, Ranges DEF Good, LoopType, FreshLoop

-----------------------------------------------------------------------------
\* A session that steps to a good state leaves the others as they are.
LEMMA SetKeepsGood ==
  ASSUME Permits, NEW s \in Sessions, NEW new, Good(new), Set(s, new)
  PROVE  /\ pdSetup' \in PdSetups /\ Sessions' = Sessions
         /\ st' \in [Sessions -> LoopType] /\ \A r \in Sessions : Good(st'[r])
         /\ st'[s] = new /\ \A r \in Sessions \ {s} : st'[r] = st[r]
         /\ Client("gone")' = Client("gone")
<1>1. pdSetup' = pdSetup /\ st' = [st EXCEPT ![s] = new]
  BY Zenon DEF Set
<1>2. Sessions' = Sessions /\ Client("gone")' = Client("gone")
  BY <1>1, Zenon DEF Sessions, Client
<1>3. st \in [Sessions -> LoopType] /\ new \in LoopType
  BY Zenon DEF Permits, Good
<1>4. st'[s] = new /\ st' \in [Sessions -> LoopType]
      /\ \A r \in Sessions \ {s} : st'[r] = st[r]
  BY <1>1, <1>3, Zenon
<1>5. \A r \in Sessions : Good(st'[r])
  BY <1>4, Zenon DEF Permits
<1> QED
  BY <1>1, <1>2, <1>4, <1>5, Zenon DEF Permits

\* The sessions of an instance are finitely many, and so are those with a permit.
LEMMA ElevatedFinite ==
  ASSUME pdSetup \in PdSetups
  PROVE  IsFiniteSet(Elevated(st)) /\ Cardinality(Elevated(st)) \in Nat
<1>1. IsFiniteSet(Sessions)
  BY PipelineAssumption, Zenon DEF PipelineAssumption, Sessions
<1>2. Elevated(st) \subseteq Sessions
  BY Zenon DEF Elevated
<1>3. IsFiniteSet(Elevated(st))
  BY <1>1, <1>2, FS_Subset, Zenon
<1> QED
  BY <1>3, FS_CardinalityType, Zenon

\* A step that gives a permit back, or takes and gives none.
LEMMA PermitKeptOrReturned ==
  ASSUME Permits, NEW s \in Sessions, NEW new, Good(new), Set(s, new),
         new.is_elevated => st[s].is_elevated,
         elevated_sessions' = elevated_sessions - Released(st[s], new)
  PROVE  Permits'
<1> DEFINE E == Elevated(st)
           F == Elevated(st)'
<1>1. /\ pdSetup' \in PdSetups /\ Sessions' = Sessions
      /\ st' \in [Sessions -> LoopType] /\ \A r \in Sessions : Good(st'[r])
      /\ st'[s] = new /\ \A r \in Sessions \ {s} : st'[r] = st[r]
      /\ Client("gone")' = Client("gone")
  BY SetKeepsGood, Zenon
<1>2. IsFiniteSet(E) /\ Cardinality(E) \in Nat
  BY ElevatedFinite, Zenon DEF Permits
<1>3. Counted'
  <2>1. CASE st[s].is_elevated /\ ~new.is_elevated
    <3>1. F = E \ {s} /\ s \in E
      BY <1>1, <2>1 DEF Elevated
    <3>2. Cardinality(F) = Cardinality(E) - 1 /\ Cardinality(F) \in Nat
      BY <1>2, <3>1, FS_RemoveElement, FS_CardinalityType, Zenon
    <3>3. elevated_sessions' = elevated_sessions - 1
      BY <2>1, Zenon DEF Released
    <3> HIDE DEF E, F
    <3>4. elevated_sessions \in Nat /\ elevated_sessions <= MaxElevated
          /\ Cardinality(E) <= elevated_sessions
          /\ (~Client("gone") => elevated_sessions = Cardinality(E))
      BY Zenon DEF Permits, Counted, E
    <3>5. /\ elevated_sessions' \in Nat /\ elevated_sessions' <= MaxElevated
          /\ Cardinality(F) <= elevated_sessions'
          /\ ~Client("gone")' => elevated_sessions' = Cardinality(F)
      BY SMTT(60), <1>1, <1>2, <3>2, <3>3, <3>4, Ranges
    <3> QED
      BY <3>5, Zenon DEF Counted, F
  <2>2. CASE ~(st[s].is_elevated /\ ~new.is_elevated)
    <3>1. F = E
      BY <1>1, <2>2 DEF Elevated
    <3>2. elevated_sessions' = elevated_sessions - 0
      BY <2>2, Zenon DEF Released
    <3>3. elevated_sessions' = elevated_sessions
      BY <3>2 DEF Permits, Counted
    <3> QED
      BY <1>1, <3>1, <3>3, Zenon DEF Permits, Counted
  <2> QED
    BY <2>1, <2>2, Zenon
<1> QED
  BY <1>1, <1>3, Zenon DEF Permits

\* A step that neither takes nor gives back a permit.
LEMMA PermitKept ==
  ASSUME Permits, NEW s \in Sessions, NEW new, Good(new), Set(s, new),
         new.is_elevated <=> st[s].is_elevated, elevated_sessions' = elevated_sessions
  PROVE  Permits'
<1>1. Released(st[s], new) = 0
  BY Zenon DEF Released
<1>2. elevated_sessions' = elevated_sessions - Released(st[s], new)
  BY <1>1 DEF Permits, Counted
<1> QED
  BY <1>2, PermitKeptOrReturned, Zenon

\* An admission: one more session with a permit, and the count one higher.
LEMMA PermitTaken ==
  ASSUME Permits, NEW s \in Sessions, NEW new, Good(new), Set(s, new),
         ~st[s].is_elevated, new.is_elevated, elevated_sessions < MaxElevated,
         elevated_sessions' = elevated_sessions + 1
  PROVE  Permits'
<1> DEFINE E == Elevated(st)
           F == Elevated(st)'
<1>1. /\ pdSetup' \in PdSetups /\ Sessions' = Sessions
      /\ st' \in [Sessions -> LoopType] /\ \A r \in Sessions : Good(st'[r])
      /\ st'[s] = new /\ \A r \in Sessions \ {s} : st'[r] = st[r]
      /\ Client("gone")' = Client("gone")
  BY SetKeepsGood, Zenon
<1>2. IsFiniteSet(E) /\ Cardinality(E) \in Nat
  BY ElevatedFinite, Zenon DEF Permits
<1>3. F = E \cup {s} /\ s \notin E
  BY <1>1 DEF Elevated
<1>4. Cardinality(F) = Cardinality(E) + 1
  BY <1>2, <1>3, FS_AddElement, Zenon
<1> HIDE DEF E, F
<1>5. elevated_sessions \in Nat /\ Cardinality(E) <= elevated_sessions
      /\ (~Client("gone") => elevated_sessions = Cardinality(E))
  BY Zenon DEF Permits, Counted, E
<1>6. /\ elevated_sessions' \in Nat /\ elevated_sessions' <= MaxElevated
      /\ Cardinality(F) <= elevated_sessions'
      /\ ~Client("gone")' => elevated_sessions' = Cardinality(F)
  BY SMTT(60), <1>1, <1>2, <1>4, <1>5, Ranges
<1>7. Counted'
  BY <1>6, Zenon DEF Counted, F
<1> QED
  BY <1>1, <1>7, Zenon DEF Permits

\* A session that ends without giving its permit back: the count only exceeds
\* the permits held.
LEMMA PermitLost ==
  ASSUME Permits, NEW s \in Sessions, Set(s, FreshLoop), Client("gone"),
         elevated_sessions' = elevated_sessions
  PROVE  Permits'
<1> DEFINE E == Elevated(st)
           F == Elevated(st)'
<1>1. /\ pdSetup' \in PdSetups /\ Sessions' = Sessions
      /\ st' \in [Sessions -> LoopType] /\ \A r \in Sessions : Good(st'[r])
      /\ st'[s] = FreshLoop /\ \A r \in Sessions \ {s} : st'[r] = st[r]
      /\ Client("gone")' = Client("gone")
  BY SetKeepsGood, FreshGood, Zenon
<1>2. IsFiniteSet(E) /\ Cardinality(E) \in Nat
  BY ElevatedFinite, Zenon DEF Permits
<1>3. F \subseteq E
  BY <1>1, FreshGood, Zenon DEF Elevated
<1>4. Cardinality(F) <= Cardinality(E) /\ Cardinality(F) \in Nat
  BY <1>2, <1>3, FS_Subset, FS_CardinalityType, Zenon
<1> HIDE DEF E, F
<1>5. elevated_sessions \in Nat /\ Cardinality(E) <= elevated_sessions
      /\ elevated_sessions <= MaxElevated
  BY Zenon DEF Permits, Counted, E
<1>6. elevated_sessions' \in Nat /\ elevated_sessions' <= MaxElevated
      /\ Cardinality(F) <= elevated_sessions'
  BY <1>2, <1>4, <1>5
<1>7. Counted'
  BY <1>1, <1>6, Zenon DEF Counted, F
<1> QED
  BY <1>1, <1>7, Zenon DEF Permits

-----------------------------------------------------------------------------
\* An op that is sent only makes the window longer.
LEMMA SendKeeps ==
  ASSUME NEW x, Good(x), NEW op \in Entries
  PROVE  /\ Good(Send(x, op))
         /\ Send(x, op).pc = x.pc /\ Send(x, op).is_elevated = x.is_elevated
         /\ Send(x, op).max_inflight = x.max_inflight
<1>1. x.window \in Seq(Entries)
  BY Zenon DEF Good, LoopType
<1>2. Append(x.window, op) \in Seq(Entries)
  BY <1>1
<1>3. Send(x, op) = [x EXCEPT !.window = Append(x.window, op)]
  BY Zenon DEF Send
<1> QED
  BY <1>2, <1>3, Zenon DEF Good, LoopType

\* A loop that ends gives its permit back.
LEMMA EndsInv ==
  ASSUME Permits, NEW s \in Sessions, Ends(s)
  PROVE  Permits'
BY FreshGood, PermitKeptOrReturned, Zenon DEF Ends

\* The steps of the loop that answer no reply: they move ops, timers and the
\* end flags, never a depth or a permit.
LEMMA LoopInv ==
  ASSUME Permits, NEW s \in Sessions,
         \/ \E w \in {<<"poll">>, <<"upload", "poll">>} : Start(s, w)
         \/ EndLoop(s) \/ Keepalive(s) \/ LegacyRead(s) \/ LegacyReadEof(s)
         \/ Refill(s) \/ ReadClient(s) \/ ReadClientEof(s)
  PROVE  Permits'
<1> USE DEF Permits
<1>a. Good(st[s]) /\ st[s].is_elevated \in BOOLEAN
  BY Zenon DEF Good, LoopType
<1>b. {"poll", "upload"} \subseteq Entries
  BY Zenon DEF Entries
<1>c. 0 \in 0..IdleStart
  BY Ranges
<1>1. ASSUME NEW w \in {<<"poll">>, <<"upload", "poll">>}, Start(s, w) PROVE Permits'
  <2> DEFINE new == [FreshLoop EXCEPT !.pc = "run", !.window = w,
                       !.max_inflight = INFLIGHT_OPTIMIST, !.refill = Len(w) < INFLIGHT_OPTIMIST]
  <2>1. w \in Seq(Entries) /\ Len(w) \in Nat
    <3>1. "poll" \in Entries /\ "upload" \in Entries
      BY <1>b, Zenon
    <3>2. <<"poll">> \in Seq(Entries) /\ <<"upload", "poll">> \in Seq(Entries)
      BY <3>1
    <3>3. w \in Seq(Entries)
      BY <3>2, Zenon
    <3> QED
      BY <3>3, Zenon
  <2>2. (Len(w) < INFLIGHT_OPTIMIST) \in BOOLEAN
    OBVIOUS
  <2>3. INFLIGHT_OPTIMIST \in 0..INFLIGHT_ACTIVE /\ ~(INFLIGHT_OPTIMIST > INFLIGHT_OPTIMIST)
    BY Ranges
  <2>4. Good(new) /\ ~new.is_elevated
    <3> DEFINE z == [FreshLoop EXCEPT !.pc = "run", !.window = w]
    <3>1. z \in LoopType /\ ~z.is_elevated /\ z.pc = "run"
      BY ZenonT(60), <2>1, FreshGood DEF Good, LoopType, FreshLoop
    <3>2. new = [z EXCEPT !.max_inflight = INFLIGHT_OPTIMIST, !.refill = Len(w) < INFLIGHT_OPTIMIST]
      BY Zenon
    <3> HIDE DEF z, new
    <3> QED
      BY ZenonT(60), <2>2, <2>3, <3>1, <3>2 DEF Good, LoopType
  <2>5. Set(s, new) /\ elevated_sessions' = elevated_sessions /\ st[s].pc = "off"
    BY <1>1, Zenon DEF Start
  <2> HIDE DEF new
  <2>6. ~st[s].is_elevated
    BY <1>a, <2>5, Zenon DEF Good
  <2> QED
    BY <1>a, <2>4, <2>5, <2>6, PermitKept, Zenon
<1>2. CASE EndLoop(s)
  BY <1>2, EndsInv, Zenon DEF EndLoop
<1>3. CASE Keepalive(s)
  <2>1. CASE LegacyGate(s)
    <3> DEFINE new == [st[s] EXCEPT !.pc = "read"]
    <3>1. Good(new) /\ new.is_elevated = st[s].is_elevated
      BY <1>a, Zenon DEF Good, LoopType
    <3>2. Set(s, new) /\ elevated_sessions' = elevated_sessions
      BY <1>3, <2>1, Zenon DEF Keepalive
    <3> QED
      BY <3>1, <3>2, PermitKept, Zenon
  <2>2. CASE ~LegacyGate(s)
    <3>1. Set(s, Send(st[s], "poll")) /\ elevated_sessions' = elevated_sessions
      BY <1>3, <2>2, Zenon DEF Keepalive
    <3>2. Good(Send(st[s], "poll")) /\ Send(st[s], "poll").is_elevated = st[s].is_elevated
      BY <1>a, <1>b, SendKeeps, Zenon
    <3> QED
      BY <3>1, <3>2, PermitKept, Zenon
  <2> QED
    BY <2>1, <2>2, Zenon
<1>4. CASE LegacyRead(s)
  <2> DEFINE x == [st[s] EXCEPT !.pc = "run", !.empties = 0]
  <2>1. Good(x) /\ x.is_elevated = st[s].is_elevated
    BY <1>a, <1>c, Zenon DEF Good, LoopType
  <2>2. Set(s, Send(x, "upload")) /\ elevated_sessions' = elevated_sessions
    BY <1>4, Zenon DEF LegacyRead
  <2> HIDE DEF x
  <2>3. Good(Send(x, "upload")) /\ Send(x, "upload").is_elevated = x.is_elevated
    BY <1>b, <2>1, SendKeeps, Zenon
  <2> QED
    BY <2>1, <2>2, <2>3, PermitKept, Zenon
<1>5. CASE LegacyReadEof(s)
  BY <1>5, EndsInv, Zenon DEF LegacyReadEof
<1>6. CASE Refill(s)
  <2> DEFINE x == [st[s] EXCEPT !.refill = FALSE]
             y == IF Uploads(x.window) = {} THEN Send(x, "poll") ELSE x
             more == Depth(y.window) < x.max_inflight /\ x.max_inflight # INFLIGHT_IDLE
             z == [y EXCEPT !.refill = more]
  <2>1. Good(x) /\ x.is_elevated = st[s].is_elevated
    BY <1>a, Zenon DEF Good, LoopType
  <2>2. \E new \in {x, z} : Set(s, new) /\ elevated_sessions' = elevated_sessions
    BY <1>6, Zenon DEF Refill
  <2>3. more \in BOOLEAN
    BY Zenon
  <2> HIDE DEF x, more
  <2>4. Good(y) /\ y.is_elevated = x.is_elevated
    BY <1>b, <2>1, SendKeeps, Zenon
  <2> HIDE DEF y
  <2>5. Good(z) /\ z.is_elevated = y.is_elevated
    BY <2>3, <2>4, Zenon DEF Good, LoopType
  <2> HIDE DEF z
  <2> QED
    BY <2>1, <2>2, <2>4, <2>5, PermitKept, Zenon
<1>7. CASE ReadClient(s)
  <2> DEFINE x == [st[s] EXCEPT !.empties = 0, !.refill = FALSE]
  <2>1. Good(x) /\ x.is_elevated = st[s].is_elevated
    BY <1>a, <1>c, Zenon DEF Good, LoopType
  <2>2. Set(s, Send(x, "upload")) /\ elevated_sessions' = elevated_sessions
    BY <1>7, Zenon DEF ReadClient
  <2> HIDE DEF x
  <2>3. Good(Send(x, "upload")) /\ Send(x, "upload").is_elevated = x.is_elevated
    BY <1>b, <2>1, SendKeeps, Zenon
  <2> QED
    BY <2>1, <2>2, <2>3, PermitKept, Zenon
<1>8. CASE ReadClientEof(s)
  <2> DEFINE new == [st[s] EXCEPT !.client_closed = TRUE]
  <2>1. Good(new) /\ new.is_elevated = st[s].is_elevated
    BY <1>a, Zenon DEF Good, LoopType
  <2>2. Set(s, new) /\ elevated_sessions' = elevated_sessions
    BY <1>8, Zenon DEF ReadClientEof
  <2> QED
    BY <2>1, <2>2, PermitKept, Zenon
<1> QED
  BY <1>1, <1>2, <1>3, <1>4, <1>5, <1>6, <1>7, <1>8, Zenon

-----------------------------------------------------------------------------
\* The parts of the reply arm: the locals once the reply is in the window, once
\* the replies that can be written were counted, and after the depth rules.
SeenReply(x, i, k, seq) ==
  [x EXCEPT !.supports_seq = @ \/ seq, !.max_inflight = IF seq THEN @ ELSE 1,
            !.window = Unwritten([x.window EXCEPT ![i] = k])]
CountedReply(x, i, k, seq) ==
  IF i = 1 THEN Count(SeenReply(x, i, k, seq), Written([x.window EXCEPT ![i] = k]))
           ELSE SeenReply(x, i, k, seq)
AfterReply(x, seq, cur, legacy) ==
  IF ~seq THEN Rearm(x, legacy)
  ELSE IF Ramps(x) /\ ~x.is_elevated THEN [x EXCEPT !.pc = "cas", !.cur = cur]
  ELSE Rearm(Deepen(x), legacy)

\* The counters are typed, and leave the permit alone.
LEMMA CountedReplyKeeps ==
  ASSUME NEW x, Good(x), x.pc = "run", NEW i \in DOMAIN x.window, NEW k \in Kinds,
         NEW seq \in BOOLEAN
  PROVE  /\ Good(CountedReply(x, i, k, seq)) /\ CountedReply(x, i, k, seq).pc = "run"
         /\ CountedReply(x, i, k, seq).is_elevated = x.is_elevated
<1> DEFINE w == [x.window EXCEPT ![i] = k]
           u == Unwritten(w)
           p == x.supports_seq \/ seq
           m == IF seq THEN x.max_inflight ELSE 1
           y == [x EXCEPT !.supports_seq = p, !.max_inflight = m]
           seen == SeenReply(x, i, k, seq)
           counted == CountedReply(x, i, k, seq)
<1>1. x \in LoopType
  BY Zenon DEF Good
<1>2. w \in Seq(Entries)
  <2>1. x.window \in Seq(Entries) /\ k \in Entries
    BY <1>1, Zenon DEF LoopType, Entries
  <2> QED
    BY <2>1, ExceptSeq
<1>3. u \in Seq(Entries) /\ Written(w) \in Seq(Entries)
  BY <1>2, WrittenIsPrefix, Zenon
<1>4. p \in BOOLEAN
  BY Zenon
<1>5. m \in 0..INFLIGHT_ACTIVE /\ (m > INFLIGHT_OPTIMIST => x.max_inflight > INFLIGHT_OPTIMIST)
  BY <1>1, Ranges DEF LoopType
<1>6. seen = [y EXCEPT !.window = u]
  BY Zenon DEF SeenReply
<1>7. counted = IF i = 1 THEN Count(seen, Written(w)) ELSE seen
  BY Zenon DEF CountedReply
<1> HIDE DEF p, m, u, seen
<1>8. y \in LoopType /\ y.pc = "run" /\ y.is_elevated = x.is_elevated /\ y.max_inflight = m
  BY <1>1, <1>4, <1>5, Zenon DEF LoopType
<1> HIDE DEF y, w, counted
<1>9. /\ seen \in LoopType /\ seen.pc = "run" /\ seen.is_elevated = x.is_elevated
      /\ seen.max_inflight = m
  BY <1>3, <1>6, <1>8, Zenon DEF LoopType
<1>10. /\ counted \in LoopType /\ counted.pc = "run"
       /\ counted.is_elevated = x.is_elevated /\ counted.max_inflight = m
  BY <1>3, <1>7, <1>9, CountKeeps, Zenon
<1>11. Good(counted)
  BY <1>5, <1>10, Zenon DEF Good
<1> QED
  BY <1>10, <1>11, Zenon DEF counted

\* A reply that does not end the loop: whatever the depth rules do with it, the
\* session stays good, and can only lose its permit.
LEMMA AfterReplyKeeps ==
  ASSUME NEW x, Good(x), x.pc = "run", NEW seq \in BOOLEAN, NEW cur \in Nat, NEW legacy
  PROVE  /\ Good(AfterReply(x, seq, cur, legacy))
         /\ AfterReply(x, seq, cur, legacy).pc \in {"run", "cas"}
         /\ AfterReply(x, seq, cur, legacy).is_elevated => x.is_elevated
<1> DEFINE new == AfterReply(x, seq, cur, legacy)
<1>1. CASE ~seq
  <2>1. new = Rearm(x, legacy)
    BY <1>1, Zenon DEF AfterReply
  <2> QED
    BY <2>1, RearmKeeps, Zenon
<1>2. CASE seq /\ Ramps(x) /\ ~x.is_elevated
  <2>1. new = [x EXCEPT !.pc = "cas", !.cur = cur]
    BY <1>2, Zenon DEF AfterReply
  <2>2. INFLIGHT_OPTIMIST <= x.max_inflight /\ x.max_inflight < INFLIGHT_ACTIVE
    BY <1>2, Zenon DEF Ramps
  <2> HIDE DEF new
  <2>3. new \in LoopType
    BY <2>1, Zenon DEF Good, LoopType
  <2>4. /\ new.pc = "cas" /\ new.is_elevated = x.is_elevated
        /\ new.max_inflight = x.max_inflight
    BY <2>1, Zenon DEF Good, LoopType
  <2>5. Good(new)
    BY <1>2, <2>2, <2>3, <2>4, Zenon DEF Good
  <2> QED
    BY <2>4, <2>5, Zenon DEF new
<1>3. CASE seq /\ ~(Ramps(x) /\ ~x.is_elevated)
  <2>1. new = Rearm(Deepen(x), legacy)
    BY <1>3, Zenon DEF AfterReply
  <2>2. Good(Deepen(x)) /\ Deepen(x).pc = "run" /\ (Deepen(x).is_elevated => x.is_elevated)
    BY DeepenKeeps, Zenon
  <2> QED
    BY <2>1, <2>2, RearmKeeps, ZenonT(60)
<1> QED
  BY <1>1, <1>2, <1>3, Zenon

\* What a reply does to the sessions: the loop ends, or goes on from a state
\* that AfterReplyKeeps describes; only a failed write to the client keeps the permit.
LEMMA ReplySteps ==
  ASSUME Permits, NEW s \in Sessions, NEW i \in InFlight(st[s].window),
         NEW k \in Kinds, NEW echo, NEW d, NEW broken \in {FALSE, Client("gone")},
         Reply(s, i, k, echo, d, broken)
  PROVE  \E new : /\ Good(new) /\ new.pc # "read" /\ Set(s, new)
                  /\ new.is_elevated => st[s].is_elevated
                  /\ \/ elevated_sessions' = elevated_sessions - Released(st[s], new)
                     \/ Client("gone") /\ new = FreshLoop /\ elevated_sessions' = elevated_sessions
<1> DEFINE seq == echo # "bare" /\ k \notin Failed
           w == [st[s].window EXCEPT ![i] = k]
           fastEmpty == echo = "seq_fast" /\ st[s].window[i] = "poll" /\ k \notin HasData
           mark == k # "lost" /\ (~seq \/ fastEmpty)
           a == IF mark THEN [age EXCEPT ![d] = 0] ELSE age
           flag == IF mark THEN FlagAfterMark(a) ELSE all_legacy
           legacy == flag /\ AllMarked(a)
           counted == CountedReply(st[s], i, k, seq)
           next == AfterReply(counted, seq, elevated_sessions, legacy)
<1>1. PICK new \in IF k \in Failed \/ broken THEN {FreshLoop} ELSE {next} :
        /\ Set(s, new)
        /\ elevated_sessions' = elevated_sessions - (IF broken THEN 0 ELSE Released(st[s], new))
  <2>1. PICK new \in IF k \in Failed \/ broken THEN {FreshLoop}
                     ELSE {AfterReply(x, seq, elevated_sessions, legacy) : x \in {counted}} :
          /\ Set(s, new)
          /\ elevated_sessions' = elevated_sessions - (IF broken THEN 0 ELSE Released(st[s], new))
    BY Zenon DEF Reply, AfterReply, CountedReply, SeenReply
  <2> HIDE DEF seq, legacy, counted
  <2>2. {AfterReply(x, seq, elevated_sessions, legacy) : x \in {counted}} = {next}
    BY Zenon
  <2> HIDE DEF next
  <2> QED
    BY <2>1, <2>2, Zenon
<1>2. st[s].pc = "run" /\ i \in DOMAIN st[s].window
  BY Zenon DEF Reply, Selecting, InFlight
<1>3. seq \in BOOLEAN
  BY Zenon
<1>4. Good(next) /\ next.pc \in {"run", "cas"} /\ (next.is_elevated => st[s].is_elevated)
  <2>1. Good(st[s]) /\ elevated_sessions \in Nat
    BY Zenon DEF Permits, Counted
  <2> HIDE DEF seq, legacy
  <2>2. Good(counted) /\ counted.pc = "run" /\ counted.is_elevated = st[s].is_elevated
    BY <1>2, <1>3, <2>1, CountedReplyKeeps, Zenon
  <2> HIDE DEF counted
  <2> QED
    BY <1>3, <2>1, <2>2, AfterReplyKeeps, Zenon
<1> HIDE DEF next, seq, w, fastEmpty, mark, a, flag, legacy, counted
<1>5. Good(new) /\ new.pc # "read" /\ (new.is_elevated => st[s].is_elevated)
  BY <1>1, <1>4, FreshGood, Zenon
<1>6. CASE ~broken
  BY <1>1, <1>5, <1>6, Zenon
<1>7. CASE broken
  <2>1. Client("gone") /\ new = FreshLoop
    BY <1>1, <1>7, Zenon
  <2>2. elevated_sessions' = elevated_sessions - 0
    BY <1>1, <1>7, Zenon
  <2>3. elevated_sessions' = elevated_sessions
    BY <2>2 DEF Permits, Counted
  <2> QED
    BY <1>1, <1>5, <2>1, <2>3, Zenon
<1> QED
  BY <1>6, <1>7, Zenon

-----------------------------------------------------------------------------
\* The admission loop: a session gets a permit only if the counter it compared
\* against is still the counter, and below max_elevated.
LEMMA AdmitInv ==
  ASSUME Permits, NEW s \in Sessions, AdmitElevated(s)
  PROVE  Permits'
<1> DEFINE x == st[s]
<1>1. /\ Good(x) /\ x \in LoopType /\ x.pc = "cas" /\ ~x.is_elevated
      /\ INFLIGHT_OPTIMIST <= x.max_inflight /\ x.max_inflight < INFLIGHT_ACTIVE
  BY Zenon DEF AdmitElevated, Permits, Good
<1>2. elevated_sessions \in Nat
  BY Zenon DEF Permits, Counted
<1>3. CASE Refused(s)
  <2> DEFINE y == [x EXCEPT !.pc = "run", !.cur = 0]
  <2>1. y \in LoopType /\ y.pc = "run" /\ y.is_elevated = x.is_elevated
        /\ y.max_inflight = x.max_inflight
    BY <1>1, Zenon DEF LoopType
  <2>2. Good(y)
    BY <1>1, <2>1, Zenon DEF Good
  <2>3. Set(s, Rearm(y, AllServersLegacy)) /\ elevated_sessions' = elevated_sessions
    BY <1>3, Zenon DEF Refused
  <2> HIDE DEF y
  <2>4. Good(Rearm(y, AllServersLegacy)) /\ Rearm(y, AllServersLegacy).is_elevated = y.is_elevated
    BY <2>2, RearmKeeps, Zenon
  <2> QED
    BY <2>1, <2>3, <2>4, PermitKept, Zenon
<1>4. CASE Admitted(s) /\ elevated_sessions = x.cur /\ x.cur < MaxElevated
  <2> DEFINE z == [x EXCEPT !.pc = "run", !.cur = 0]
             m == x.max_inflight + 1
             y == [z EXCEPT !.is_elevated = TRUE, !.max_inflight = m]
  <2>1. z \in LoopType /\ z.pc = "run"
    BY <1>1, Zenon DEF LoopType
  <2>2. m \in 0..INFLIGHT_ACTIVE
    BY SMTT(60), <1>1, Ranges DEF LoopType
  <2>3. Set(s, Rearm(y, AllServersLegacy)) /\ elevated_sessions' = elevated_sessions + 1
    BY <1>4, Zenon DEF Admitted
  <2> HIDE DEF z, m
  <2>4. y \in LoopType /\ y.pc = "run" /\ y.is_elevated
    BY <2>1, <2>2, Zenon DEF LoopType
  <2>5. Good(y)
    BY <2>4, Zenon DEF Good
  <2> HIDE DEF y
  <2>6. Good(Rearm(y, AllServersLegacy)) /\ Rearm(y, AllServersLegacy).is_elevated = y.is_elevated
    BY <2>5, RearmKeeps, Zenon
  <2> QED
    BY <1>1, <1>4, <2>3, <2>4, <2>6, PermitTaken, Zenon
<1>5. CASE Set(s, [x EXCEPT !.cur = elevated_sessions]) /\ UNCHANGED elevated_sessions
  <2> DEFINE y == [x EXCEPT !.cur = elevated_sessions]
  <2>1. y \in LoopType /\ y.pc = x.pc /\ y.is_elevated = x.is_elevated
        /\ y.max_inflight = x.max_inflight
    BY <1>1, <1>2, Zenon DEF LoopType
  <2>2. Good(y)
    BY <1>1, <2>1, Zenon DEF Good
  <2> HIDE DEF y
  <2> QED
    BY <1>5, <2>1, <2>2, PermitKept, Zenon DEF y
<1>6. x.cur \in Nat
  BY <1>1, Zenon DEF LoopType
<1>7. ~(x.cur >= MaxElevated) => x.cur < MaxElevated
  BY <1>6, Ranges
<1> QED
  BY <1>3, <1>4, <1>5, <1>7, Zenon DEF AdmitElevated, CompareExchange

\* Replies in the grace period are only written.
LEMMA GraceInv ==
  ASSUME Permits, NEW s \in Sessions, Grace(s)
  PROVE  Permits'
<1>1. CASE GraceOver(s)
  BY <1>1, EndsInv, Zenon DEF GraceOver
<1>2. ASSUME NEW i \in InFlight(st[s].window), NEW k \in pdSetup.replies, GraceReply(s, i, k)
      PROVE  Permits'
  <2> DEFINE w == [st[s].window EXCEPT ![i] = k]
             y == [st[s] EXCEPT !.window = Unwritten(w)]
  <2>1. Good(st[s]) /\ st[s] \in LoopType /\ st[s].window \in Seq(Entries)
    BY Zenon DEF Permits, Good, LoopType
  <2>2. i \in DOMAIN st[s].window /\ k \in Entries
    BY PipelineAssumption, Zenon DEF PipelineAssumption, InFlight, Permits, Entries
  <2>3. w \in Seq(Entries)
    BY <2>1, <2>2, ExceptSeq
  <2>4. Unwritten(w) \in Seq(Entries)
    BY <2>3, WrittenIsPrefix, Zenon
  <2>5. Set(s, y) /\ elevated_sessions' = elevated_sessions
    BY <1>2, Zenon DEF GraceReply
  <2> HIDE DEF w
  <2>6. Good(y) /\ y.is_elevated = st[s].is_elevated
    BY <2>1, <2>4, Zenon DEF Good, LoopType
  <2> QED
    BY <2>5, <2>6, PermitKept, Zenon
<1> QED
  BY <1>1, <1>2, Zenon DEF Grace

\* The replies of an instance are of the kinds the model knows.
LEMMA ReplyKinds ==
  ASSUME pdSetup \in PdSetups
  PROVE  pdSetup.replies \subseteq Kinds
BY PipelineAssumption, Zenon DEF PipelineAssumption

\* A reply, whatever it carries, keeps the permits counted.
LEMMA RepliesInv ==
  ASSUME Permits, NEW s \in Sessions, Replies(s)
  PROVE  Permits'
<1>1. PICK i \in InFlight(st[s].window), k \in pdSetup.replies, echo \in pdSetup.echoes,
           d \in Scripts, broken \in {FALSE, Client("gone")} : Reply(s, i, k, echo, d, broken)
  BY Zenon DEF Replies
<1>2. k \in Kinds
  BY ReplyKinds, Zenon DEF Permits
<1>3. PICK new : /\ Good(new) /\ Set(s, new) /\ (new.is_elevated => st[s].is_elevated)
                 /\ \/ elevated_sessions' = elevated_sessions - Released(st[s], new)
                    \/ Client("gone") /\ new = FreshLoop /\ elevated_sessions' = elevated_sessions
  BY <1>1, <1>2, ReplySteps, Zenon
<1> QED
  BY <1>3, PermitKeptOrReturned, PermitLost, Zenon

\* Every step keeps the sessions typed and their permits counted.
LEMMA PermitsInv ==
  ASSUME Permits, [PdNext]_pdVars
  PROVE  Permits'
<1>1. CASE UNCHANGED <<pdSetup, st, elevated_sessions>>
  BY <1>1, Zenon DEF Permits, Counted, Elevated, Sessions, Client
<1>2. CASE PdTick
  BY <1>1, <1>2, Zenon DEF PdTick
<1>3. CASE UNCHANGED pdVars
  BY <1>1, <1>3, Zenon DEF pdVars
<1> QED
  BY <1>2, <1>3, LoopInv, RepliesInv, AdmitInv, GraceInv, Zenon DEF PdNext

\* No step changes the instance.
LEMMA SetupKept ==
  ASSUME [PdNext]_pdVars
  PROVE  pdSetup' = pdSetup
<1>1. ASSUME NEW s \in Sessions,
             \/ \E w \in {<<"poll">>, <<"upload", "poll">>} : Start(s, w)
             \/ EndLoop(s) \/ Keepalive(s) \/ LegacyRead(s) \/ LegacyReadEof(s)
             \/ Refill(s) \/ ReadClient(s) \/ ReadClientEof(s)
      PROVE  pdSetup' = pdSetup
  BY <1>1, Zenon DEF Start, EndLoop, Ends, Keepalive, LegacyRead, LegacyReadEof, Refill,
                     ReadClient, ReadClientEof, Set
<1>2. ASSUME NEW s \in Sessions, AdmitElevated(s) \/ Grace(s) PROVE pdSetup' = pdSetup
  BY <1>2, Zenon DEF AdmitElevated, CompareExchange, Admitted, Refused, Grace, GraceReply,
                     GraceOver, Ends, Set
<1>3. ASSUME NEW s \in Sessions, Replies(s) PROVE pdSetup' = pdSetup
  <2>1. PICK i \in InFlight(st[s].window), k \in pdSetup.replies, echo \in pdSetup.echoes,
             d \in Scripts, broken \in {FALSE, Client("gone")} : Reply(s, i, k, echo, d, broken)
    BY <1>3, Zenon DEF Replies
  <2>2. \E new : Set(s, new)
    BY <2>1, Zenon DEF Reply
  <2> QED
    BY <2>2, Zenon DEF Set
<1>4. CASE PdTick \/ UNCHANGED pdVars
  BY <1>4, Zenon DEF PdTick, pdVars
<1> QED
  BY <1>1, <1>2, <1>3, <1>4, Zenon DEF PdNext

\* Every step keeps the marks typed and the legacy flag up to date: a mark sets
\* it from the new map, time only takes marks away.
LEMMA MarksInv ==
  ASSUME pdSetup \in PdSetups, Marks, [PdNext]_pdVars
  PROVE  Marks'
<1>a. RecoverAfter \in Nat \ {0}
  BY PipelineAssumption, Zenon DEF PipelineAssumption, RecoverAfter
<1>b. pdSetup' = pdSetup
  BY SetupKept, Zenon
<1>c. Scripts' = Scripts /\ RecoverAfter' = RecoverAfter
  BY <1>b, Zenon DEF Scripts, RecoverAfter
<1>1. CASE UNCHANGED <<age, all_legacy>>
  BY <1>c, <1>1, Zenon DEF Marks, FlagNotStale, AllMarked
<1>2. ASSUME NEW s \in Sessions, Replies(s) PROVE Marks'
  <2>1. PICK i \in InFlight(st[s].window), k \in pdSetup.replies, echo \in pdSetup.echoes,
             d \in Scripts, broken \in {FALSE, Client("gone")} : Reply(s, i, k, echo, d, broken)
    BY <1>2, Zenon DEF Replies
  <2> DEFINE b == [age EXCEPT ![d] = 0]
  <2>2. \/ UNCHANGED <<age, all_legacy>>
        \/ age' = b /\ all_legacy' = AllMarked(b)
    BY <2>1, Zenon DEF Reply, FlagAfterMark
  <2>3. ASSUME age' = b, all_legacy' = AllMarked(b) PROVE Marks'
    <3>1. age' \in [Scripts -> 0..RecoverAfter]
      BY <1>a, <2>3 DEF Marks
    <3>2. all_legacy' \in BOOLEAN
      BY <2>3, Zenon DEF AllMarked
    <3>3. AllMarked(age)' => all_legacy'
      BY <1>c, <2>3, Zenon DEF AllMarked
    <3> QED
      BY <1>c, <3>1, <3>2, <3>3, Zenon DEF Marks, FlagNotStale
  <2> QED
    BY <1>1, <2>2, <2>3, Zenon
<1>3. CASE PdTick
  <2>1. age' = [d \in Scripts |-> PdUp(age[d], 1, RecoverAfter)] /\ all_legacy' = all_legacy
    BY <1>3, Zenon DEF PdTick
  <2>2. \A d \in Scripts : age[d] \in 0..RecoverAfter
    BY Zenon DEF Marks
  <2>3. \A d \in Scripts : /\ age'[d] \in 0..RecoverAfter
                           /\ age'[d] < RecoverAfter => age[d] < RecoverAfter
    BY <1>a, <2>1, <2>2 DEF PdUp
  <2>4. age' \in [Scripts -> 0..RecoverAfter]
    BY <2>1, <2>3, Zenon
  <2>5. AllMarked(age)' => AllMarked(age)
    BY <1>c, <2>3, Zenon DEF AllMarked
  <2> QED
    BY <1>c, <2>1, <2>4, <2>5, Zenon DEF Marks, FlagNotStale
<1>4. CASE UNCHANGED pdVars
  BY <1>1, <1>4, Zenon DEF pdVars
<1>5. ASSUME NEW s \in Sessions,
             \/ \E w \in {<<"poll">>, <<"upload", "poll">>} : Start(s, w)
             \/ EndLoop(s) \/ Keepalive(s) \/ LegacyRead(s) \/ LegacyReadEof(s)
             \/ Refill(s) \/ ReadClient(s) \/ ReadClientEof(s) \/ AdmitElevated(s) \/ Grace(s)
      PROVE  UNCHANGED <<age, all_legacy>>
  BY <1>5, Zenon DEF Start, EndLoop, Keepalive, LegacyRead, LegacyReadEof, Refill, ReadClient,
              ReadClientEof, AdmitElevated, Grace, GraceReply, GraceOver
<1> QED
  BY <1>1, <1>2, <1>3, <1>4, <1>5, Zenon DEF PdNext

-----------------------------------------------------------------------------
\* The invariant holds before any session starts.
LEMMA PdInitInv == PdInit => PdInv
<1> SUFFICES ASSUME PdInit PROVE PdInv
  BY Zenon
<1>1. st = [s \in Sessions |-> FreshLoop] /\ elevated_sessions = 0 /\ pdSetup \in PdSetups
  BY Zenon DEF PdInit
<1>2. st \in [Sessions -> LoopType] /\ \A s \in Sessions : Good(st[s]) /\ ~st[s].is_elevated
  BY <1>1, FreshGood, Zenon DEF Good
<1>3. Elevated(st) = {}
  BY <1>2, Zenon DEF Elevated
<1>4. Counted
  BY SMTT(60), <1>1, <1>3, FS_EmptySet, Ranges DEF Counted
<1>5. RecoverAfter \in Nat \ {0} /\ Scripts # {}
  BY <1>1, PipelineAssumption, Zenon DEF PipelineAssumption, RecoverAfter, Scripts
<1>6. age = [d \in Scripts |-> RecoverAfter] /\ all_legacy = FALSE
  BY Zenon DEF PdInit
<1>7. ~AllMarked(age)
  BY <1>5, <1>6 DEF AllMarked
<1>8. age \in [Scripts -> 0..RecoverAfter]
  BY <1>5, <1>6
<1>9. Marks
  BY <1>6, <1>7, <1>8, Zenon DEF Marks, FlagNotStale
<1> QED
  BY <1>1, <1>2, <1>4, <1>9, Zenon DEF PdInv, Permits

\* The invariant always holds.
LEMMA PdInvAlways == PdSpec => []PdInv
<1>1. PdInv /\ [PdNext]_pdVars => PdInv'
  BY PermitsInv, MarksInv, Zenon DEF PdInv, Permits
<1> QED
  BY PdInitInv, <1>1, PTL DEF PdSpec

\* The invariant gives the contract, all of it where the count is exact.
LEMMA PdInvImplies ==
  ASSUME PdInv
  PROVE  /\ PdTypeOK /\ ElevatedWithinMax /\ DeepOnlyIfElevated /\ FlagNotStale
         /\ ~Client("gone") => DepthSound
<1>1. PdTypeOK
  BY Zenon DEF PdInv, Permits, Counted, Marks, PdTypeOK, LoopType, Entries
<1>2. ElevatedWithinMax /\ DeepOnlyIfElevated /\ FlagNotStale
  BY Zenon DEF PdInv, Permits, Counted, Marks, ElevatedWithinMax, DeepOnlyIfElevated, Good
<1>3. ~Client("gone") => ElevatedExact
  BY Zenon DEF PdInv, Permits, Counted, ElevatedExact, Elevated
<1> QED
  BY <1>1, <1>2, <1>3, Zenon DEF DepthSound

(***************************************************************************)
(* Where no write to a local client fails, for every number of sessions    *)
(* and deployments: elevated_sessions counts exactly the sessions that     *)
(* hold a permit, concurrent admissions never take it past max_elevated, a *)
(* session is deeper than INFLIGHT_OPTIMIST only with a permit, and        *)
(* all_servers_legacy never misses that every deployment is marked.        *)
(***************************************************************************)
THEOREM DepthAlwaysSound ==
  ASSUME \A u \in PdSetups : "gone" \notin u.client
  PROVE  PdSpec => []DepthSound
<1>1. PdInv => DepthSound
  BY PdInvImplies, Zenon DEF PdInv, Permits, Client
<1> QED
  BY <1>1, PdInvAlways, PTL

(***************************************************************************)
(* Whatever the local clients do, the permits in use never exceed          *)
(* max_elevated, and the depth and the legacy flag stay sound: the early   *)
(* return of tunnel_loop on a failed write, which keeps its permit         *)
(* counted, costs capacity and never admits too many.                      *)
(***************************************************************************)
THEOREM PermitsNeverExceeded ==
  PdSpec => [](/\ Cardinality({s \in Sessions : st[s].is_elevated}) <= elevated_sessions
               /\ PdTypeOK /\ ElevatedWithinMax /\ DeepOnlyIfElevated /\ FlagNotStale)
<1>1. PdInv => /\ Cardinality({s \in Sessions : st[s].is_elevated}) <= elevated_sessions
               /\ PdTypeOK /\ ElevatedWithinMax /\ DeepOnlyIfElevated /\ FlagNotStale
  BY PdInvImplies, Zenon DEF PdInv, Permits, Counted, Elevated
<1> QED
  BY <1>1, PdInvAlways, PTL

(***************************************************************************)
(* tunnel_loop stops polling and blocks on the local read only in a step   *)
(* in which every deployment has a legacy mark that has not expired.       *)
(***************************************************************************)
THEOREM QuietNeedsLegacy == PdSpec => QuietOnlyIfLegacy
<1> DEFINE Quiet == \A s \in Sessions : st[s].pc = "run" /\ st'[s].pc = "read" => AllMarked(age)
<1>1. ASSUME PdInv, [PdNext]_pdVars PROVE [Quiet]_pdVars
  <2>a. Permits /\ st \in [Sessions -> LoopType] /\ \A s \in Sessions : Good(st[s])
    BY <1>1, Zenon DEF PdInv, Permits
  <2>1. ASSUME NEW s \in Sessions, NEW new, Set(s, new), new.pc # "read" PROVE Quiet
    <3>1. \A r \in Sessions : st'[r] = IF r = s THEN new ELSE st[r]
      BY <2>a, <2>1, Zenon DEF Set
    <3> QED
      BY <2>1, <3>1, Zenon
  <2>2. ASSUME NEW s \in Sessions, Replies(s) PROVE Quiet
    <3>1. PICK i \in InFlight(st[s].window), k \in pdSetup.replies, echo \in pdSetup.echoes,
               d \in Scripts, broken \in {FALSE, Client("gone")} :
               Reply(s, i, k, echo, d, broken)
      BY <2>2, Zenon DEF Replies
    <3>2. k \in Kinds
      BY <2>a, ReplyKinds, Zenon DEF Permits
    <3>3. PICK new : Set(s, new) /\ new.pc # "read"
      BY <2>a, <3>1, <3>2, ReplySteps, Zenon
    <3> QED
      BY <2>1, <3>3, Zenon
  <2>3. ASSUME NEW s \in Sessions, Keepalive(s) PROVE Quiet
    <3>1. CASE LegacyGate(s)
      BY <3>1, Zenon DEF LegacyGate, AllServersLegacy
    <3>2. CASE ~LegacyGate(s)
      <4>1. Set(s, Send(st[s], "poll")) /\ st[s].pc = "run"
        BY <2>3, <3>2, Zenon DEF Keepalive, Silent
      <4>2. Send(st[s], "poll").pc = "run"
        BY <2>a, <4>1, SendKeeps, Zenon DEF Entries
      <4> QED
        BY <2>1, <4>1, <4>2, Zenon
    <3> QED
      BY <3>1, <3>2, Zenon
  <2>4. ASSUME NEW s \in Sessions, Ends(s) PROVE Quiet
    BY <2>1, <2>4, FreshGood, Zenon DEF Ends
  <2>5. ASSUME NEW s \in Sessions, \E w \in {<<"poll">>, <<"upload", "poll">>} : Start(s, w)
        PROVE  Quiet
    <3>1. PICK w : Set(s, [FreshLoop EXCEPT !.pc = "run", !.window = w,
             !.max_inflight = INFLIGHT_OPTIMIST, !.refill = Len(w) < INFLIGHT_OPTIMIST])
      BY <2>5, Zenon DEF Start
    <3>2. [FreshLoop EXCEPT !.pc = "run", !.window = w, !.max_inflight = INFLIGHT_OPTIMIST,
                            !.refill = Len(w) < INFLIGHT_OPTIMIST].pc = "run"
      BY Zenon DEF FreshLoop
    <3> QED
      BY <2>1, <3>1, <3>2, Zenon
  <2>6. ASSUME NEW s \in Sessions, ReadClient(s) PROVE Quiet
    <3> DEFINE x == [st[s] EXCEPT !.empties = 0, !.refill = FALSE]
    <3>1. Set(s, Send(x, "upload")) /\ st[s].pc = "run"
      BY <2>6, Zenon DEF ReadClient, CanRead, Selecting
    <3>2. Send(x, "upload").pc = "run"
      BY <2>a, <3>1, Zenon DEF Send, LoopType
    <3> QED
      BY <2>1, <3>1, <3>2, Zenon
  <2>7. ASSUME NEW s \in Sessions, Refill(s) PROVE Quiet
    <3> DEFINE x == [st[s] EXCEPT !.refill = FALSE]
               y == IF Uploads(x.window) = {} THEN Send(x, "poll") ELSE x
               more == Depth(y.window) < x.max_inflight /\ x.max_inflight # INFLIGHT_IDLE
    <3>1. Set(s, x) \/ Set(s, [y EXCEPT !.refill = more])
      BY <2>7, Zenon DEF Refill
    <3>2. x \in LoopType /\ x.pc = "run"
      BY ZenonT(60), <2>7, <2>a DEF Refill, Selecting, LoopType
    <3> HIDE DEF x, more
    <3>3. [y EXCEPT !.refill = more].pc = "run"
      BY <3>2, Zenon DEF Send, LoopType
    <3> HIDE DEF y
    <3> QED
      BY <2>1, <3>1, <3>2, <3>3, Zenon
  <2>8. ASSUME NEW s \in Sessions, ReadClientEof(s) PROVE Quiet
    <3>1. Set(s, [st[s] EXCEPT !.client_closed = TRUE]) /\ st[s].pc = "run"
      BY <2>8, Zenon DEF ReadClientEof, CanRead, Selecting
    <3>2. [st[s] EXCEPT !.client_closed = TRUE].pc = "run"
      BY <2>a, <3>1, Zenon DEF LoopType
    <3> QED
      BY <2>1, <3>1, <3>2, Zenon
  <2>9. ASSUME NEW s \in Sessions, AdmitElevated(s) \/ LegacyRead(s) PROVE Quiet
    <3>1. \E new : Set(s, new)
      BY <2>9, Zenon DEF AdmitElevated, CompareExchange, Admitted, Refused, LegacyRead
    <3>2. \A r \in Sessions \ {s} : st'[r] = st[r]
      BY <2>a, <3>1, Zenon DEF Set
    <3>3. st[s].pc \in {"cas", "read"}
      BY <2>9, Zenon DEF AdmitElevated, LegacyRead
    <3> QED
      BY <3>2, <3>3, Zenon
  <2>10. ASSUME NEW s \in Sessions, NEW i, NEW k, GraceReply(s, i, k) PROVE Quiet
    <3> DEFINE u == Unwritten([st[s].window EXCEPT ![i] = k])
    <3>1. Set(s, [st[s] EXCEPT !.window = u]) /\ st[s].pc = "run"
      BY <2>10, Zenon DEF GraceReply
    <3> HIDE DEF u
    <3>2. [st[s] EXCEPT !.window = u].pc = "run"
      BY <2>a, <3>1, Zenon DEF LoopType
    <3> QED
      BY <2>1, <3>1, <3>2, Zenon
  <2>11. CASE UNCHANGED st
    BY <2>11, Zenon
  <2>12. PdTick \/ UNCHANGED pdVars => UNCHANGED st
    BY Zenon DEF PdTick, pdVars
  <2>13. CASE PdNext
    BY <2>2, <2>3, <2>4, <2>5, <2>6, <2>7, <2>8, <2>9, <2>10, <2>11, <2>12, <2>13
      , ZenonT(60) DEF PdNext, EndLoop, LegacyReadEof, Grace, GraceOver
  <2> QED
    BY <1>1, <2>11, <2>12, <2>13, Zenon
<1> QED
  BY <1>1, PdInvAlways, PTL DEF PdSpec, QuietOnlyIfLegacy

-----------------------------------------------------------------------------
(***************************************************************************)
(* The replay registry.                                                    *)
(***************************************************************************)
\* Request c of req executed batch k: it is the owner of a watch channel.
Owned(req, c, k) == c \in Batches /\ req[c].key = k /\ req[c].chan = c

Calls ==
  [st : {"new", "owner", "waiting", "answered", "failed"},
   key : Fingerprints \cup {NoReq}, chan : Batches \cup {NoReq},
   since : 0..RrMaxTime, from : Batches \cup {NoReq}]

\* Whoever has an entry, a channel or a body of a batch has it from a request
\* that executed this batch.
Linked ==
  /\ \A k \in DOMAIN rrEntries : Owned(rrReq, rrEntries[k].tx, k)
  /\ \A r \in Batches :
       /\ rrReq[r].st = "new" => rrReq[r].chan = NoReq
       /\ rrReq[r].st = "owner" => rrReq[r].chan = r
       /\ rrReq[r].st = "waiting" => Owned(rrReq, rrReq[r].chan, rrReq[r].key)
       /\ rrReq[r].st = "answered" => Owned(rrReq, rrReq[r].from, rrReq[r].key)

\* The requests that executed batch k.
Executions(k) == {r \in Batches : rrReq[r].key = k /\ rrReq[r].chan = r}

\* Of the executions of a batch all but one were forgotten, and all if there is
\* no entry.
Budgeted ==
  \A k \in Fingerprints :
    /\ Cardinality(Executions(k)) <= forgotten[k] + 1
    /\ k \notin DOMAIN rrEntries => Cardinality(Executions(k)) <= forgotten[k]

\* Every entry is Pending or Ready.
Stored == \A k \in DOMAIN rrEntries : rrEntries[k].st \in {"pending", "ready"}

RrInv ==
  /\ rrNow \in 0..RrMaxTime /\ rrReq \in [Batches -> Calls] /\ forgotten \in [Fingerprints -> Nat]
  /\ Stored /\ Linked /\ Budgeted

\* What a step leaves of the executions: a request gets a channel once.
Lasting == \A c \in Batches : rrReq[c].chan = c => rrReq'[c].chan = c /\ rrReq'[c].key = rrReq[c].key

\* The entries that are left.
Left(es) == DOMAIN es \subseteq DOMAIN rrEntries /\ \A k \in DOMAIN es : es[k] = rrEntries[k]

\* expire removes entries and counts them as forgotten.
LEMMA ExpireLeaves ==
  /\ Left(Expire.es)
  /\ \A k \in DOMAIN rrEntries : k \in DOMAIN Expire.es \/ k \in Expire.gone
<1> DEFINE n == ExpiredPrefix
           gone == {rrOrder[i] : i \in 1..n}
           es == Restrict(rrEntries, DOMAIN rrEntries \ gone)
<1>1. Expire.es = es /\ Expire.gone = gone
  BY Zenon DEF Expire
<1> HIDE DEF gone
<1>2. es = [k \in DOMAIN rrEntries \ gone |-> rrEntries[k]]
  BY Zenon DEF Restrict
<1> QED
  BY <1>1, <1>2, Zenon DEF Left

\* So does evict, of the entries there are after complete.
LEMMA EvictLeaves ==
  ASSUME NEW es, NEW q, NEW bytes
  PROVE  LET e == Evict(es, q, bytes)
         IN /\ DOMAIN e.es \subseteq DOMAIN es /\ \A k \in DOMAIN e.es : e.es[k] = es[k]
            /\ \A k \in DOMAIN es : k \in DOMAIN e.es \/ k \in e.gone
<1>1. \E gone : Evict(es, q, bytes).es = Restrict(es, DOMAIN es \ gone) /\ Evict(es, q, bytes).gone = gone
  BY Zenon DEF Evict
<1>2. PICK gone : Evict(es, q, bytes).es = Restrict(es, DOMAIN es \ gone) /\ Evict(es, q, bytes).gone = gone
  BY <1>1, Zenon
<1>3. Evict(es, q, bytes).es = [k \in DOMAIN es \ gone |-> es[k]]
  BY <1>2, Zenon DEF Restrict
<1> QED
  BY <1>2, <1>3, Zenon

\* The counters of what was forgotten.
LEMMA ForgetCounts ==
  ASSUME NEW ks, forgotten \in [Fingerprints -> Nat], Forget(ks)
  PROVE  /\ forgotten' \in [Fingerprints -> Nat]
         /\ \A k \in Fingerprints : forgotten[k] \in Nat /\ forgotten'[k] \in Nat
         /\ \A k \in Fingerprints : forgotten'[k] >= forgotten[k] /\ (k \in ks => forgotten'[k] = forgotten[k] + 1)
<1>1. forgotten' = [k \in Fingerprints |-> forgotten[k] + (IF k \in ks THEN 1 ELSE 0)]
  BY Zenon DEF Forget
<1>2. \A k \in Fingerprints : forgotten[k] \in Nat
  BY Zenon
<1>3. \A k \in Fingerprints : forgotten'[k] = forgotten[k] + (IF k \in ks THEN 1 ELSE 0)
  BY <1>1, Zenon
<1>4. \A k \in Fingerprints : forgotten'[k] \in Nat
  BY <1>2, <1>3
<1> QED
  BY SMTT(60), <1>1, <1>2, <1>3, <1>4

\* The executions are counted.
LEMMA ExecutionsFinite ==
  ASSUME NEW k
  PROVE  /\ IsFiniteSet(Executions(k)) /\ Cardinality(Executions(k)) \in Nat
         /\ IsFiniteSet(Executions(k)') /\ Cardinality(Executions(k)') \in Nat
<1>1. Executions(k) \in SUBSET Batches /\ Executions(k)' \in SUBSET Batches
  BY Zenon DEF Executions
<1> QED
  BY <1>1, RegistryAssumption, FS_Subset, FS_CardinalityType, Zenon DEF RegistryAssumption

\* A step that executes no batch: no key leaves the registry without being
\* counted.
LEMMA NoExecution ==
  ASSUME RrInv, \A c \in Batches : rrReq'[c].chan = c <=> rrReq[c].chan = c, Lasting,
         NEW ks, Forget(ks), \A k \in Fingerprints : k \in DOMAIN rrEntries => k \in DOMAIN rrEntries' \/ k \in ks
  PROVE  Budgeted'
<1>1. SUFFICES ASSUME NEW k \in Fingerprints
               PROVE  /\ Cardinality(Executions(k)') <= forgotten'[k] + 1
                      /\ k \notin DOMAIN rrEntries' => Cardinality(Executions(k)') <= forgotten'[k]
  BY Zenon DEF Budgeted
<1>2. Executions(k)' = Executions(k)
  BY Zenon DEF Executions, Lasting
<1>3. /\ forgotten[k] \in Nat /\ forgotten'[k] \in Nat
      /\ forgotten'[k] >= forgotten[k] /\ (k \in ks => forgotten'[k] = forgotten[k] + 1)
  BY ForgetCounts, Zenon DEF RrInv
<1>4. /\ Cardinality(Executions(k)) <= forgotten[k] + 1
      /\ k \notin DOMAIN rrEntries => Cardinality(Executions(k)) <= forgotten[k]
  BY Zenon DEF RrInv, Budgeted
<1>5. Cardinality(Executions(k)) \in Nat
  BY ExecutionsFinite, Zenon
<1>6. Cardinality(Executions(k)) <= forgotten'[k] + 1
  BY SMTT(60), <1>3, <1>4, <1>5
<1>7. ASSUME k \notin DOMAIN rrEntries' PROVE Cardinality(Executions(k)) <= forgotten'[k]
  <2>1. k \notin DOMAIN rrEntries \/ k \in ks
    BY <1>7, Zenon
  <2> QED
    BY SMTT(60), <1>3, <1>4, <1>5, <2>1
<1> QED
  BY <1>2, <1>6, <1>7, Zenon

\* Claim as owner: the batch has no entry, so its executions were forgotten.
LEMMA OneExecution ==
  ASSUME RrInv, NEW r \in Batches, NEW key \in Fingerprints, rrReq[r].chan # r,
         \A c \in Batches : c # r => rrReq'[c] = rrReq[c],
         rrReq'[r].chan = r, rrReq'[r].key = key,
         NEW ks, Forget(ks), key \notin DOMAIN rrEntries \/ key \in ks, key \in DOMAIN rrEntries',
         \A k \in Fingerprints : k \in DOMAIN rrEntries => k \in DOMAIN rrEntries' \/ k \in ks
  PROVE  Budgeted'
<1>1. SUFFICES ASSUME NEW k \in Fingerprints
               PROVE  /\ Cardinality(Executions(k)') <= forgotten'[k] + 1
                      /\ k \notin DOMAIN rrEntries' => Cardinality(Executions(k)') <= forgotten'[k]
  BY Zenon DEF Budgeted
<1>2. Executions(k)' = IF k = key THEN Executions(k) \cup {r} ELSE Executions(k)
  BY Zenon DEF Executions
<1>3. /\ forgotten[k] \in Nat /\ forgotten'[k] \in Nat
      /\ forgotten'[k] >= forgotten[k] /\ (k \in ks => forgotten'[k] = forgotten[k] + 1)
  BY ForgetCounts, Zenon DEF RrInv
<1>4. /\ Cardinality(Executions(k)) <= forgotten[k] + 1
      /\ k \notin DOMAIN rrEntries => Cardinality(Executions(k)) <= forgotten[k]
  BY Zenon DEF RrInv, Budgeted
<1>5. IsFiniteSet(Executions(k)) /\ Cardinality(Executions(k)) \in Nat
  BY ExecutionsFinite, Zenon
<1>6. k \notin DOMAIN rrEntries \/ k \in ks => Cardinality(Executions(k)) <= forgotten'[k]
  BY SMTT(60), <1>3, <1>4, <1>5
<1>7. CASE k = key
  <2>1. Cardinality(Executions(k)) <= forgotten'[k]
    BY <1>6, <1>7, Zenon
  <2>2. Cardinality(Executions(k) \cup {r}) \in {Cardinality(Executions(k)), Cardinality(Executions(k)) + 1}
    BY <1>5, FS_AddElement, Zenon
  <2>3. Cardinality(Executions(k) \cup {r}) <= forgotten'[k] + 1
    BY SMTT(60), <1>3, <1>5, <2>1, <2>2
  <2> QED
    BY <1>2, <1>7, <2>3, Zenon
<1>8. CASE k # key
  <2>1. Cardinality(Executions(k)) <= forgotten'[k] + 1
    BY SMTT(60), <1>3, <1>4, <1>5
  <2>2. k \notin DOMAIN rrEntries' => k \notin DOMAIN rrEntries \/ k \in ks
    BY Zenon
  <2> QED
    BY <1>2, <1>6, <1>8, <2>1, <2>2, ZenonT(60)
<1> QED
  BY <1>7, <1>8, Zenon

\* A step of request r: the links of the others stay.
LEMMA LinkedStep ==
  ASSUME RrInv, NEW r \in Batches, Lasting, \A c \in Batches : c # r => rrReq'[c] = rrReq[c],
         \A k \in DOMAIN rrEntries' : Owned(rrReq', rrEntries'[k].tx, k),
         rrReq'[r].st # "new",
         rrReq'[r].st = "owner" => rrReq'[r].chan = r,
         rrReq'[r].st = "waiting" => Owned(rrReq', rrReq'[r].chan, rrReq'[r].key),
         rrReq'[r].st = "answered" => Owned(rrReq', rrReq'[r].from, rrReq'[r].key)
  PROVE  Linked'
<1>1. \A c, k : Owned(rrReq, c, k) => Owned(rrReq', c, k)
  BY Zenon DEF Lasting, Owned
<1>2. SUFFICES ASSUME NEW c \in Batches
               PROVE  /\ rrReq'[c].st = "new" => rrReq'[c].chan = NoReq
                      /\ rrReq'[c].st = "owner" => rrReq'[c].chan = c
                      /\ rrReq'[c].st = "waiting" => Owned(rrReq', rrReq'[c].chan, rrReq'[c].key)
                      /\ rrReq'[c].st = "answered" => Owned(rrReq', rrReq'[c].from, rrReq'[c].key)
  BY Zenon DEF Linked
<1>3. CASE c = r
  BY <1>3, Zenon
<1>4. CASE c # r
  <2>1. rrReq'[c] = rrReq[c]
    BY <1>4, Zenon
  <2>2. /\ rrReq[c].st = "new" => rrReq[c].chan = NoReq
        /\ rrReq[c].st = "owner" => rrReq[c].chan = c
        /\ rrReq[c].st = "waiting" => Owned(rrReq, rrReq[c].chan, rrReq[c].key)
        /\ rrReq[c].st = "answered" => Owned(rrReq, rrReq[c].from, rrReq[c].key)
    BY Zenon DEF RrInv, Linked
  <2>3. ASSUME rrReq[c].st = "waiting" PROVE Owned(rrReq', rrReq'[c].chan, rrReq'[c].key)
    BY <1>1, <2>1, <2>2, <2>3, Zenon
  <2>4. ASSUME rrReq[c].st = "answered" PROVE Owned(rrReq', rrReq'[c].from, rrReq'[c].key)
    BY <1>1, <2>1, <2>2, <2>4, Zenon
  <2> QED
    BY <2>1, <2>2, <2>3, <2>4, Zenon
<1> QED
  BY <1>3, <1>4, Zenon

\* claim, with what expire leaves.
LEMMA ClaimKeeps ==
  ASSUME RrInv, NEW r \in Batches, NEW k \in Fingerprints, Claim(r, k)
  PROVE  RrInv'
<1> DEFINE x == Expire
           hit == IsReady(x.es, k)
           wait == ClaimWaits(x.es, k)
<1>1. /\ rrReq[r].st = "new"
      /\ rrEntries' = IF ~hit /\ ~wait THEN Extend(x.es, k, Pending(r)) ELSE x.es
      /\ rrReq' = [rrReq EXCEPT ![r] =
           IF hit THEN [@ EXCEPT !.st = "answered", !.key = k, !.from = x.es[k].tx]
           ELSE IF wait THEN [@ EXCEPT !.st = "waiting", !.key = k,
                                       !.chan = x.es[k].tx, !.since = rrNow]
           ELSE [@ EXCEPT !.st = "owner", !.key = k, !.chan = r]]
      /\ Forget(x.gone) /\ rrNow' = rrNow
  BY Zenon DEF Claim
<1>2. /\ Left(x.es)
      /\ \A j \in DOMAIN rrEntries : j \in DOMAIN x.es \/ j \in x.gone
  BY ExpireLeaves, Zenon
<1>3. \A j \in DOMAIN x.es : Owned(rrReq, x.es[j].tx, j)
  BY <1>2, Zenon DEF RrInv, Linked, Left
<1>4. (hit => k \in DOMAIN x.es) /\ (wait => k \in DOMAIN x.es)
  BY Zenon DEF ClaimWaits, IsReady, IsPending
<1>5. \A j \in DOMAIN x.es : x.es[j].st \in {"pending", "ready"}
  BY <1>2, Zenon DEF RrInv, Stored, Left
<1>6. ~hit /\ ~wait => k \notin DOMAIN x.es
  BY <1>5, Zenon DEF ClaimWaits, IsReady, IsPending
<1>7. rrReq \in [Batches -> Calls] /\ rrNow \in 0..RrMaxTime
  BY Zenon DEF RrInv
<1>8. rrReq[r].chan = NoReq /\ NoReq # r
  BY <1>1, RegistryAssumption, Zenon DEF RrInv, Linked, RegistryAssumption
<1>9. \A c \in Batches : c # r => rrReq'[c] = rrReq[c]
  BY <1>1, <1>7, Zenon
<1>10. Lasting
  BY <1>8, <1>9, Zenon DEF Lasting
<1>11. \A c, j : Owned(rrReq, c, j) => Owned(rrReq', c, j)
  BY <1>10, Zenon DEF Lasting, Owned
<1> HIDE DEF x
<1>12. CASE hit
  <2>1. /\ rrReq' = [rrReq EXCEPT ![r] = [@ EXCEPT !.st = "answered", !.key = k, !.from = x.es[k].tx]]
        /\ rrEntries' = x.es
    BY <1>1, <1>12, Zenon
  <2>2. Owned(rrReq, x.es[k].tx, k) /\ x.es[k].tx \in Batches
    BY <1>3, <1>4, <1>12, Zenon DEF Owned
  <2>3. rrReq[r] \in Calls
    BY <1>7, Zenon
  <2>4. rrReq'[r] = [rrReq[r] EXCEPT !.st = "answered", !.key = k, !.from = x.es[k].tx]
    BY <1>7, <2>1, Zenon
  <2>5. /\ rrReq'[r] \in Calls /\ rrReq'[r].st = "answered" /\ rrReq'[r].key = k
        /\ rrReq'[r].from = x.es[k].tx /\ rrReq'[r].chan = rrReq[r].chan
    BY ZenonT(60), <2>2, <2>3, <2>4 DEF Calls
  <2>6. rrReq' \in [Batches -> Calls]
    BY <1>7, <2>1, <2>4, <2>5, Zenon
  <2>7. Owned(rrReq', rrReq'[r].from, rrReq'[r].key)
    BY <1>11, <2>2, <2>5, Zenon
  <2>8. \A j \in DOMAIN rrEntries' : Owned(rrReq', rrEntries'[j].tx, j)
    BY <1>3, <1>11, <2>1, ZenonT(60)
  <2>9. Linked'
    BY SMTT(60), <1>9, <1>10, <2>5, <2>7, <2>8, LinkedStep
  <2>10. Stored'
    BY <1>5, <2>1, Zenon DEF Stored
  <2>11. \A c \in Batches : rrReq'[c].chan = c <=> rrReq[c].chan = c
    BY <1>9, <2>5, Zenon
  <2>12. Budgeted'
    BY <1>1, <1>2, <1>10, <2>1, <2>11, NoExecution, ZenonT(60)
  <2> QED
    BY <1>1, <1>7, <2>6, <2>9, <2>10, <2>12, ForgetCounts, ZenonT(60) DEF RrInv
<1>13. CASE ~hit /\ wait
  <2>1. /\ rrReq' = [rrReq EXCEPT ![r] = [@ EXCEPT !.st = "waiting", !.key = k, !.chan = x.es[k].tx, !.since = rrNow]]
        /\ rrEntries' = x.es
    BY <1>1, <1>13, Zenon
  <2>2. Owned(rrReq, x.es[k].tx, k) /\ x.es[k].tx \in Batches /\ x.es[k].tx # r
    BY <1>3, <1>4, <1>8, <1>13, ZenonT(60) DEF Owned
  <2>3. rrReq[r] \in Calls
    BY <1>7, Zenon
  <2>4. rrReq'[r] = [rrReq[r] EXCEPT !.st = "waiting", !.key = k, !.chan = x.es[k].tx, !.since = rrNow]
    BY <1>7, <2>1, ZenonT(60)
  <2>5. /\ rrReq'[r] \in Calls /\ rrReq'[r].st = "waiting" /\ rrReq'[r].key = k
        /\ rrReq'[r].chan = x.es[k].tx
    BY ZenonT(60), <1>7, <2>2, <2>3, <2>4 DEF Calls
  <2>6. rrReq' \in [Batches -> Calls]
    BY <1>7, <2>1, <2>4, <2>5, Zenon
  <2>7. Owned(rrReq', rrReq'[r].chan, rrReq'[r].key)
    BY <1>11, <2>2, <2>5, Zenon
  <2>8. \A j \in DOMAIN rrEntries' : Owned(rrReq', rrEntries'[j].tx, j)
    BY <1>3, <1>11, <2>1, Zenon
  <2>9. Linked'
    BY SMTT(60), <1>9, <1>10, <2>5, <2>7, <2>8, LinkedStep
  <2>10. Stored'
    BY <1>5, <2>1, Zenon DEF Stored
  <2>11. \A c \in Batches : rrReq'[c].chan = c <=> rrReq[c].chan = c
    BY <1>8, <1>9, <2>2, <2>5, ZenonT(60)
  <2>12. Budgeted'
    BY <1>1, <1>2, <1>10, <2>1, <2>11, NoExecution, ZenonT(60)
  <2> QED
    BY <1>1, <1>7, <2>6, <2>9, <2>10, <2>12, ForgetCounts, Zenon DEF RrInv
<1>14. CASE ~hit /\ ~wait
  <2>1. /\ rrReq' = [rrReq EXCEPT ![r] = [@ EXCEPT !.st = "owner", !.key = k, !.chan = r]]
        /\ rrEntries' = Extend(x.es, k, Pending(r))
    BY <1>1, <1>14, Zenon
  <2>2. rrEntries' = [j \in DOMAIN x.es \cup {k} |-> IF j = k THEN Pending(r) ELSE x.es[j]]
    BY <2>1, Zenon DEF Extend
  <2>3. rrReq[r] \in Calls
    BY <1>7, Zenon
  <2>4. rrReq'[r] = [rrReq[r] EXCEPT !.st = "owner", !.key = k, !.chan = r]
    BY <1>7, <2>1, Zenon
  <2>5. /\ rrReq'[r] \in Calls /\ rrReq'[r].st = "owner" /\ rrReq'[r].key = k /\ rrReq'[r].chan = r
    BY ZenonT(60), <2>3, <2>4 DEF Calls
  <2>6. rrReq' \in [Batches -> Calls]
    BY <1>7, <2>1, <2>4, <2>5, Zenon
  <2>7. Pending(r).tx = r /\ Pending(r).st = "pending"
    BY DEF Pending
  <2>8. \A j \in DOMAIN rrEntries' : Owned(rrReq', rrEntries'[j].tx, j)
    <3>1. Owned(rrReq', r, k)
      BY <2>5, Zenon DEF Owned
    <3>2. TAKE j \in DOMAIN rrEntries'
    <3>3. CASE j = k
      BY <2>2, <2>7, <3>1, <3>3, ZenonT(60)
    <3>4. CASE j # k
      <4>1. j \in DOMAIN x.es /\ rrEntries'[j] = x.es[j]
        BY <2>2, <3>4, ZenonT(60)
      <4> QED
        BY <1>3, <1>11, <4>1, ZenonT(60)
    <3> QED
      BY <3>3, <3>4, Zenon
  <2>9. Linked'
    BY SMTT(60), <1>9, <1>10, <2>5, <2>8, LinkedStep
  <2>10. Stored'
    BY <1>5, <2>2, <2>7, Zenon DEF Stored
  <2>11. k \notin DOMAIN rrEntries \/ k \in x.gone
    BY <1>2, <1>6, <1>14, Zenon
  <2>12. k \in DOMAIN rrEntries' /\ \A j \in Fingerprints : j \in DOMAIN rrEntries => j \in DOMAIN rrEntries' \/ j \in x.gone
    BY <1>2, <2>2, Zenon
  <2>13. rrReq[r].chan # r
    BY <1>8, Zenon
  <2>14. Budgeted'
    BY <1>1, <1>9, <2>5, <2>11, <2>12, <2>13, OneExecution, ZenonT(60)
  <2> QED
    BY <1>1, <1>7, <2>6, <2>9, <2>10, <2>14, ForgetCounts, Zenon DEF RrInv
<1> QED
  BY <1>12, <1>13, <1>14, Zenon

\* complete: the owner puts its body in the registry; evict counts what it
\* removes.
LEMMA CompleteKeeps ==
  ASSUME RrInv, NEW r \in Batches, NEW n \in BodySizes, Complete(r, n)
  PROVE  RrInv'
<1> DEFINE k == OwnKey(r)
           old == IF IsReady(rrEntries, k) THEN rrEntries[k].size ELSE 0
           es == Extend(rrEntries, k, Ready(r, n))
           e == Evict(es, rrOrder, ready_bytes - old + n)
<1>1. /\ rrReq[r].st = "owner" /\ rrEntries' = e.es
      /\ rrReq' = [rrReq EXCEPT ![r].st = "answered", ![r].from = r]
      /\ Forget(e.gone) /\ rrNow' = rrNow
  BY Zenon DEF Complete
<1>2. /\ DOMAIN e.es \subseteq DOMAIN es /\ \A j \in DOMAIN e.es : e.es[j] = es[j]
      /\ \A j \in DOMAIN es : j \in DOMAIN e.es \/ j \in e.gone
  <2> HIDE DEF es
  <2>1. \A b : LET ev == Evict(es, rrOrder, b)
               IN /\ DOMAIN ev.es \subseteq DOMAIN es /\ \A j \in DOMAIN ev.es : ev.es[j] = es[j]
                  /\ \A j \in DOMAIN es : j \in DOMAIN ev.es \/ j \in ev.gone
    BY EvictLeaves, Zenon
  <2> QED
    BY <2>1, Zenon
<1> HIDE DEF e
<1>3. es = [j \in DOMAIN rrEntries \cup {k} |-> IF j = k THEN Ready(r, n) ELSE rrEntries[j]]
  BY Zenon DEF Extend
<1>4. Ready(r, n).tx = r /\ Ready(r, n).st = "ready"
  BY DEF Ready
<1>5. rrReq \in [Batches -> Calls] /\ rrNow \in 0..RrMaxTime /\ rrReq[r] \in Calls
  BY Zenon DEF RrInv
<1>6. Owned(rrReq, r, k)
  BY <1>1, Zenon DEF RrInv, Linked, Owned, OwnKey
<1>7. \A j \in DOMAIN es : Owned(rrReq, es[j].tx, j) /\ es[j].st \in {"pending", "ready"}
  <2>1. TAKE j \in DOMAIN es
  <2>2. CASE j = k
    BY <1>3, <1>4, <1>6, <2>2, Zenon
  <2>3. CASE j # k
    BY <1>3, <2>3, Zenon DEF RrInv, Linked, Stored
  <2> QED
    BY <2>2, <2>3, ZenonT(60)
<1>8. \A c \in Batches : c # r => rrReq'[c] = rrReq[c]
  BY <1>1, <1>5, Zenon
<1>9. rrReq'[r] = [rrReq[r] EXCEPT !.st = "answered", !.from = r]
  BY SMTT(60), <1>1, <1>5
<1>10. /\ rrReq'[r] \in Calls /\ rrReq'[r].st = "answered" /\ rrReq'[r].from = r
       /\ rrReq'[r].key = rrReq[r].key /\ rrReq'[r].chan = rrReq[r].chan
  BY ZenonT(60), <1>5, <1>9 DEF Calls
<1>11. rrReq' \in [Batches -> Calls]
  BY <1>1, <1>5, <1>8, <1>10
<1>12. Lasting /\ \A c \in Batches : rrReq'[c].chan = c <=> rrReq[c].chan = c
  BY <1>8, <1>10, Zenon DEF Lasting
<1>13. \A c, j : Owned(rrReq, c, j) => Owned(rrReq', c, j)
  BY <1>12, Zenon DEF Lasting, Owned
<1>14. \A j \in DOMAIN rrEntries' : Owned(rrReq', rrEntries'[j].tx, j)
  BY <1>1, <1>2, <1>7, <1>13, ZenonT(60)
<1>15. Owned(rrReq', rrReq'[r].from, rrReq'[r].key)
  BY <1>6, <1>10, <1>13, ZenonT(60) DEF OwnKey
<1>16. Linked'
  BY SMTT(60), <1>8, <1>10, <1>12, <1>14, <1>15, LinkedStep
<1>17. Stored'
  BY <1>1, <1>2, <1>7, ZenonT(60) DEF Stored
<1>18. \A j \in Fingerprints : j \in DOMAIN rrEntries => j \in DOMAIN rrEntries' \/ j \in e.gone
  BY <1>1, <1>2, <1>3, ZenonT(60)
<1>19. Budgeted'
  BY <1>1, <1>12, <1>18, NoExecution, ZenonT(60)
<1> QED
  BY <1>1, <1>5, <1>11, <1>16, <1>17, <1>19, ForgetCounts, ZenonT(60) DEF RrInv

\* A request that is over, as its wait or its connection ends.
LEMMA EndKeeps ==
  ASSUME RrInv, NEW r \in Batches, WaitEnds(r) \/ Cancel(r)
  PROVE  RrInv'
<1>1. /\ UNCHANGED <<rrNow, rrEntries, forgotten>>
      /\ \/ rrReq' = [rrReq EXCEPT ![r].st = "failed"]
         \/ /\ rrReq[r].st = "waiting"
            /\ rrReq' = [rrReq EXCEPT ![r].st = "answered", ![r].from = rrReq[r].chan]
  BY Zenon DEF WaitEnds, WaitDone, WaitGivesUp, Cancel
<1>2. rrReq \in [Batches -> Calls] /\ rrReq[r] \in Calls
  BY Zenon DEF RrInv
<1>3. rrReq[r].st = "waiting" => Owned(rrReq, rrReq[r].chan, rrReq[r].key) /\ rrReq[r].chan \in Batches
  BY Zenon DEF RrInv, Linked, Owned
<1>4. \A c \in Batches : c # r => rrReq'[c] = rrReq[c]
  BY <1>1, <1>2, Zenon
<1>5. /\ rrReq'[r] \in Calls /\ rrReq'[r].key = rrReq[r].key /\ rrReq'[r].chan = rrReq[r].chan
      /\ \/ rrReq'[r].st = "failed"
         \/ rrReq'[r].st = "answered" /\ rrReq[r].st = "waiting" /\ rrReq'[r].from = rrReq[r].chan
  BY SMTT(60), <1>1, <1>2, <1>3 DEF Calls
<1>6. rrReq' \in [Batches -> Calls]
  BY SMTT(60), <1>1, <1>2, <1>4, <1>5
<1>7. Lasting /\ \A c \in Batches : rrReq'[c].chan = c <=> rrReq[c].chan = c
  BY <1>4, <1>5, Zenon DEF Lasting
<1>8. \A c, j : Owned(rrReq, c, j) => Owned(rrReq', c, j)
  BY <1>7, Zenon DEF Lasting, Owned
<1>9. rrReq'[r].st = "answered" => Owned(rrReq', rrReq'[r].from, rrReq'[r].key)
  <2>1. SUFFICES ASSUME rrReq'[r].st = "answered" PROVE Owned(rrReq', rrReq'[r].from, rrReq'[r].key)
    BY Zenon
  <2>2. rrReq[r].st = "waiting" /\ rrReq'[r].from = rrReq[r].chan
    BY SMTT(60), <1>5, <2>1
  <2> QED
    BY <1>3, <1>5, <1>8, <2>2, ZenonT(60)
<1>10. \A j \in DOMAIN rrEntries' : Owned(rrReq', rrEntries'[j].tx, j)
  BY <1>1, <1>8, ZenonT(60) DEF RrInv, Linked
<1>11. rrReq'[r].st \notin {"new", "owner", "waiting"}
  BY SMTT(60), <1>5
<1>12. Linked'
  BY SMTT(60), <1>4, <1>7, <1>9, <1>10, <1>11, LinkedStep
<1>13. Stored'
  BY <1>1, Zenon DEF RrInv, Stored
<1>14. \A k : Executions(k)' = Executions(k)
  BY <1>7, Zenon DEF Executions, Lasting
<1>15. Budgeted'
  BY <1>1, <1>14, ZenonT(60) DEF RrInv, Budgeted
<1> QED
  BY <1>1, <1>6, <1>12, <1>13, <1>15, ZenonT(60) DEF RrInv

\* A batch is executed once for every time its entry was expired or evicted,
\* and once more: handle_batch runs a batch only when claim made it the owner.
\* And a duplicate is answered, from the cache or by the watch channel, only
\* with the body of a request that executed this batch.
THEOREM NeverReplayed == RrSpec => []ReplayedOnce
<1>1. RrInit => RrInv
  <2>1. SUFFICES ASSUME RrInit PROVE RrInv
    BY Zenon
  <2> DEFINE new == [st |-> "new", key |-> NoReq, chan |-> NoReq, since |-> 0, from |-> NoReq]
  <2>2. /\ rrReq = [r \in Batches |-> new] /\ DOMAIN rrEntries = {}
        /\ rrNow = 0 /\ forgotten = [k \in Fingerprints |-> 0]
    BY <2>1, Zenon DEF RrInit
  <2>3. rrNow \in 0..RrMaxTime
    BY SMTT(60), <2>2, RegistryAssumption DEF RegistryAssumption
  <2>4. new \in Calls /\ new.st = "new" /\ new.chan = NoReq
    BY SMTT(60), <2>2, <2>3 DEF Calls
  <2> HIDE DEF new
  <2>5. rrReq \in [Batches -> Calls] /\ \A r \in Batches : rrReq[r] = new
    BY <2>2, <2>4, Zenon
  <2>6. forgotten \in [Fingerprints -> Nat] /\ \A k \in Fingerprints : forgotten[k] = 0
    BY SMTT(60), <2>2
  <2>7. Linked /\ Stored
    BY SMTT(60), <2>2, <2>4, <2>5 DEF Linked, Stored
  <2>8. \A k : Executions(k) = {}
    BY <2>4, <2>5, RegistryAssumption, Zenon DEF Executions, RegistryAssumption
  <2>9. Cardinality({}) = 0
    BY FS_EmptySet, Zenon
  <2>10. Budgeted
    BY SMTT(60), <2>6, <2>8, <2>9 DEF Budgeted
  <2> QED
    BY <2>3, <2>5, <2>6, <2>7, <2>10, ZenonT(60) DEF RrInv
<1>2. RrInv /\ [RrNext]_rrVars => RrInv'
  <2>1. SUFFICES ASSUME RrInv, [RrNext]_rrVars PROVE RrInv'
    BY Zenon
  <2>2. ASSUME NEW r \in Batches, NEW k \in Fingerprints, Claim(r, k) PROVE RrInv'
    BY <2>1, <2>2, ClaimKeeps, Zenon
  <2>3. ASSUME NEW r \in Batches, NEW n \in BodySizes, Complete(r, n) PROVE RrInv'
    BY <2>1, <2>3, CompleteKeeps, Zenon
  <2>4. ASSUME NEW r \in Batches, WaitEnds(r) \/ Cancel(r) PROVE RrInv'
    BY <2>1, <2>4, EndKeeps, Zenon
  <2>5. ASSUME UNCHANGED <<rrEntries, rrReq, forgotten>>, rrNow' \in 0..RrMaxTime PROVE RrInv'
    <3>1. \A k : Executions(k)' = Executions(k)
      BY <2>5, Zenon DEF Executions
    <3> QED
      BY <2>1, <2>5, <3>1, Zenon DEF RrInv, Linked, Stored, Budgeted
  <2>6. CASE RrTick
    <3>1. rrNow' \in 0..RrMaxTime
      BY SMTT(60), <2>1, <2>6, RegistryAssumption DEF RrTick, RrInv, RegistryAssumption
    <3> QED
      BY <2>5, <2>6, <3>1, ZenonT(60) DEF RrTick
  <2>7. CASE UNCHANGED rrVars
    <3>1. rrNow' \in 0..RrMaxTime /\ UNCHANGED <<rrEntries, rrReq, forgotten>>
      BY <2>1, <2>7, Zenon DEF rrVars, RrInv
    <3> QED
      BY <2>5, <3>1, Zenon
  <2> QED
    BY <2>1, <2>2, <2>3, <2>4, <2>6, <2>7, ZenonT(60) DEF RrNext
<1>3. RrInv => ReplayedOnce
  <2>1. SUFFICES ASSUME RrInv PROVE ExecutedOnce /\ AnsweredBySameBatch
    BY Zenon DEF ReplayedOnce
  <2>2. AnsweredBySameBatch
    BY <2>1, Zenon DEF AnsweredBySameBatch, RrInv, Linked, Owned
  <2>3. ASSUME NEW k \in Fingerprints PROVE Cardinality(Executions(k)) <= 1 + forgotten[k]
    <3>1. Cardinality(Executions(k)) <= forgotten[k] + 1
      BY <2>1, <2>3, Zenon DEF RrInv, Budgeted
    <3>2. forgotten[k] \in Nat
      BY <2>1, <2>3, Zenon DEF RrInv
    <3> QED
      BY SMTT(60), <3>1, <3>2
  <2> QED
    BY <2>2, <2>3, Zenon DEF ExecutedOnce, Executions
<1> QED
  BY <1>1, <1>2, <1>3, PTL DEF RrSpec
=============================================================================
