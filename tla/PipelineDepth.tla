---------------------------- MODULE PipelineDepth ----------------------------
(***************************************************************************)
(* The adaptive poll pipeline of tunnel_loop (src/tunnel_client.rs): how   *)
(* many ops a session keeps in flight, when its refill timer is armed, the *)
(* elevation permits that sessions take from the shared TunnelMux, and the *)
(* detection of legacy deployments that makes idle sessions stop polling.  *)
(*                                                                         *)
(* window is the tail of a session's ops from next_write_seq on.  An entry *)
(* is an op in flight, or the reply of one that is held back until those   *)
(* before it were written.  Sessions that end are started again: a slot    *)
(* stands for one tunnel_loop after the other.                             *)
(***************************************************************************)
EXTENDS Integers, Sequences, FiniteSets

CONSTANTS
  PdSetups,        \* instances: their sessions and deployments, the replies
                   \* that occur, what the local client may do, bounds
  INFLIGHT_IDLE, INFLIGHT_OPTIMIST, INFLIGHT_ACTIVE,
  Slack,           \* the +4 of the fast path
  MaxElevated,     \* max_elevated
  IdleStart,       \* IDLE_REFILL_DELAY_START_EMPTY
  Enough           \* 32 KiB, in replies with data

\* A response with or without data, with the end of stream, with an error; no
\* response (ReplyOutcome::BatchErr, Timeout, Dropped).
Kinds == {"data", "none", "data_eof", "none_eof", "error", "lost"}
Failed == {"error", "lost"}
HasData == {"data", "data_eof"}
HasEof == {"data_eof", "none_eof"}

\* A reply that carries seq, one that does and returned fast, one without seq.
Echoes == {"seq", "seq_fast", "bare"}

ASSUME PipelineAssumption ==
  /\ {INFLIGHT_IDLE, INFLIGHT_OPTIMIST, INFLIGHT_ACTIVE} \subseteq Nat
  /\ 1 <= INFLIGHT_IDLE /\ INFLIGHT_IDLE < INFLIGHT_OPTIMIST
  /\ INFLIGHT_OPTIMIST <= INFLIGHT_ACTIVE
  /\ MaxElevated \in Nat /\ IdleStart \in Nat \ {0, 1} /\ Enough \in Nat \ {0}
  /\ \A u \in PdSetups :
       /\ IsFiniteSet(u.sessions) /\ u.scripts # {}
       /\ u.recover_after \in Nat \ {0} /\ u.window \in Nat \ {0}
       /\ u.replies \subseteq Kinds /\ u.echoes \subseteq Echoes
       /\ u.client \subseteq {"sends", "closes", "gone"}

VARIABLES
  pdSetup,            \* the instance
  st,                 \* the locals of tunnel_loop, per session
  elevated_sessions,
  age,                \* legacy_deployments: the age of a deployment's mark
  all_legacy

pdVars == <<pdSetup, st, elevated_sessions, age, all_legacy>>

Sessions == pdSetup.sessions
Scripts == pdSetup.scripts              \* the keys of legacy_deployments
RecoverAfter == pdSetup.recover_after   \* LEGACY_RECOVER_AFTER, in ticks
MaxWindow == pdSetup.window             \* bound on the length of window
Client(act) == act \in pdSetup.client

(***************************************************************************)
(* pc: "off", "run" (the select), "cas" (inside the admission loop, cur    *)
(* loaded), "read" (the blocking read of the legacy gate).  The counters   *)
(* saturate where no test tells larger values apart.                       *)
(***************************************************************************)
FreshLoop ==
  [pc |-> "off", window |-> <<>>, max_inflight |-> 0, empties |-> 0, datas |-> 0,
   total |-> 0, is_elevated |-> FALSE, refill |-> FALSE, supports_seq |-> FALSE,
   client_closed |-> FALSE, eof_seen |-> FALSE, cur |-> 0]

PdUp(n, k, cap) == IF n + k < cap THEN n + k ELSE cap

InFlight(w) == {i \in DOMAIN w : w[i] \in {"poll", "upload"}}
Uploads(w) == {i \in DOMAIN w : w[i] = "upload"}
Depth(w) == Cardinality(InFlight(w))

\* A mark of RecoverAfter ticks is expired; expired and absent are the same.
AllMarked(a) == \A d \in Scripts : a[d] < RecoverAfter

\* all_servers_legacy.  It also clears a flag whose marks have expired, which
\* no later call can tell: only a new mark makes the test true again.
AllServersLegacy == all_legacy /\ AllMarked(age)

\* should_suppress_empty_refill; buffered_upload is always None.
Suppress(x, legacy) ==
  /\ ~x.client_closed /\ x.max_inflight = INFLIGHT_IDLE
  /\ x.empties >= IdleStart /\ legacy

PdInit ==
  /\ pdSetup \in PdSetups
  /\ st = [s \in Sessions |-> FreshLoop]
  /\ elevated_sessions = 0
  /\ age = [d \in Scripts |-> RecoverAfter] /\ all_legacy = FALSE

Set(s, new) == UNCHANGED pdSetup /\ st' = [st EXCEPT ![s] = new]

\* An op is sent; MaxWindow bounds the replies held back behind a slow one.
Send(x, op) == [x EXCEPT !.window = Append(@, op)]
CanSend(s) == Len(st[s].window) < MaxWindow

-----------------------------------------------------------------------------
\* tunnel_loop up to its loop: pending client data, the pre-filled poll, the
\* refill timer for the slots still owed.
Start(s, w) ==
  /\ st[s].pc = "off"
  /\ w \in {<<"poll">>} \cup (IF Client("sends") THEN {<<"upload", "poll">>} ELSE {})
  /\ Set(s, [FreshLoop EXCEPT !.pc = "run", !.window = w, !.max_inflight = INFLIGHT_OPTIMIST,
                          !.refill = Len(w) < INFLIGHT_OPTIMIST])
  /\ UNCHANGED <<elevated_sessions, age, all_legacy>>

\* The permit of a session that drops or ends.
Released(x, new) == IF x.is_elevated /\ ~new.is_elevated THEN 1 ELSE 0

Ends(s) ==
  Set(s, FreshLoop) /\ elevated_sessions' = elevated_sessions - Released(st[s], FreshLoop)

EndLoop(s) ==
  /\ st[s].pc = "run" /\ InFlight(st[s].window) = {}
  /\ st[s].eof_seen \/ st[s].client_closed
  /\ Ends(s)
  /\ UNCHANGED <<age, all_legacy>>

\* Nothing in flight and no timer.  (Mutant: only a session that had a reply
\* with data counts.)
SilentIfBusy(s) ==
  /\ st[s].pc = "run" /\ InFlight(st[s].window) = {} /\ ~st[s].refill
  /\ ~st[s].eof_seen /\ ~st[s].client_closed /\ st[s].datas > 0
Silent(s) ==
  /\ st[s].pc = "run" /\ InFlight(st[s].window) = {} /\ ~st[s].refill
  /\ ~st[s].eof_seen /\ ~st[s].client_closed

\* (Mutant: the gate does not ask whether the deployments are legacy.)
EmptiesGate(s) == st[s].empties >= IdleStart
LegacyGate(s) == st[s].empties >= IdleStart /\ AllServersLegacy

\* A keepalive poll, or on legacy deployments a read that waits for the client.
Keepalive(s) ==
  /\ Silent(s)
  /\ IF LegacyGate(s) THEN Set(s, [st[s] EXCEPT !.pc = "read"])
                      ELSE CanSend(s) /\ Set(s, Send(st[s], "poll"))
  /\ UNCHANGED <<elevated_sessions, age, all_legacy>>

\* The blocking read returns data, or 0 and an error, which end the loop.
LegacyRead(s) ==
  /\ Client("sends") /\ st[s].pc = "read" /\ CanSend(s)
  /\ Set(s, Send([st[s] EXCEPT !.pc = "run", !.empties = 0], "upload"))
  /\ UNCHANGED <<elevated_sessions, age, all_legacy>>
LegacyReadEof(s) ==
  /\ Client("closes") /\ st[s].pc = "read"
  /\ Ends(s)
  /\ UNCHANGED <<age, all_legacy>>

\* The loop reaches its select.
Selecting(s) ==
  /\ st[s].pc = "run" /\ ~st[s].eof_seen /\ ~Silent(s)
  /\ ~(st[s].client_closed /\ InFlight(st[s].window) = {})

\* The refill arm.
Refill(s) ==
  LET x == [st[s] EXCEPT !.refill = FALSE]
      room == Depth(x.window) < x.max_inflight
      y == IF Uploads(x.window) = {} THEN Send(x, "poll") ELSE x
      more == Depth(y.window) < x.max_inflight /\ x.max_inflight # INFLIGHT_IDLE
  IN
  /\ Selecting(s) /\ st[s].refill /\ CanSend(s)
  /\ Set(s, IF room /\ ~Suppress(x, AllServersLegacy) THEN [y EXCEPT !.refill = more] ELSE x)
  /\ UNCHANGED <<elevated_sessions, age, all_legacy>>

CanRead(s) ==
  /\ Selecting(s) /\ ~st[s].client_closed
  /\ Depth(st[s].window) < st[s].max_inflight + (IF st[s].supports_seq THEN Slack ELSE 0)

ReadClient(s) ==
  /\ Client("sends") /\ CanRead(s) /\ CanSend(s)
  /\ Set(s, Send([st[s] EXCEPT !.empties = 0, !.refill = FALSE], "upload"))
  /\ UNCHANGED <<elevated_sessions, age, all_legacy>>
ReadClientEof(s) ==
  /\ Client("closes") /\ CanRead(s)
  /\ Set(s, [st[s] EXCEPT !.client_closed = TRUE])
  /\ UNCHANGED <<elevated_sessions, age, all_legacy>>

-----------------------------------------------------------------------------
(* The reply arm.                                                          *)

\* mark_server_no_longpoll: the flag is computed after the map was written.
FlagAfterMark(a) == AllMarked(a)

\* The replies that can be written: the first entries of the window, up to the
\* next op in flight.
Written(w) == SubSeq(w, 1, CHOOSE n \in 0..Len(w) :
                /\ \A i \in 1..n : w[i] \in Kinds
                /\ n = Len(w) \/ w[n + 1] \notin Kinds)
Unwritten(w) == SubSeq(w, Len(Written(w)) + 1, Len(w))

\* The counters after the replies of run were written in order.
Trailing(run) == CHOOSE n \in 0..Len(run) :
                   /\ \A i \in (Len(run) - n + 1)..Len(run) : run[i] \notin HasData
                   /\ n = Len(run) \/ run[Len(run) - n] \in HasData
Count(x, run) ==
  LET n == Cardinality({i \in DOMAIN run : run[i] \in HasData}) IN
  [x EXCEPT !.empties = PdUp(IF n = 0 THEN @ ELSE 0, Trailing(run), IdleStart),
            !.datas = PdUp(@, n, 2),
            !.total = PdUp(@, n, Enough),
            !.eof_seen = @ \/ \E i \in DOMAIN run : run[i] \in HasEof]

\* The depth rules for a session x, of which only the first that applies counts.
Drops(x) == x.empties >= 2 /\ x.max_inflight # INFLIGHT_IDLE
Rises(x) == ~Drops(x) /\ x.datas >= 1 /\ x.max_inflight < INFLIGHT_OPTIMIST
Ramps(x) == /\ ~Drops(x) /\ x.datas >= 2 /\ x.total >= Enough
            /\ INFLIGHT_OPTIMIST <= x.max_inflight /\ x.max_inflight < INFLIGHT_ACTIVE

Deepen(x) ==
  IF Drops(x) THEN [x EXCEPT !.max_inflight = INFLIGHT_IDLE, !.is_elevated = FALSE]
  ELSE IF Rises(x) THEN [x EXCEPT !.max_inflight = INFLIGHT_OPTIMIST]
  ELSE IF Ramps(x) /\ x.is_elevated THEN [x EXCEPT !.max_inflight = @ + 1]
  ELSE x

\* The end of the arm: the refill timer.
NeedsRefill(x) ==
  /\ ~x.eof_seen /\ ~x.refill
  /\ Depth(x.window) < x.max_inflight /\ Uploads(x.window) = {}
Rearm(x, legacy) ==
  IF NeedsRefill(x) /\ ~Suppress(x, legacy) THEN [x EXCEPT !.refill = TRUE] ELSE x

\* A reply of kind k from deployment d to the op at position i.  An error carries
\* no seq.  broken: the write of it to the local client fails, and tunnel_loop
\* returns from there.
Reply(s, i, k, echo, d, broken) ==
  LET seq == echo # "bare" /\ k \notin Failed
      w == [st[s].window EXCEPT ![i] = k]
      fastEmpty == echo = "seq_fast" /\ st[s].window[i] = "poll" /\ k \notin HasData
      mark == k # "lost" /\ (~seq \/ fastEmpty)
      a == IF mark THEN [age EXCEPT ![d] = 0] ELSE age
      flag == IF mark THEN FlagAfterMark(a) ELSE all_legacy
      seen == [st[s] EXCEPT !.supports_seq = @ \/ seq,
                            !.max_inflight = IF seq THEN @ ELSE 1,
                            !.window = Unwritten(w)]
      counted == IF i = 1 THEN Count(seen, Written(w)) ELSE seen
      after(x) == IF ~seq THEN Rearm(x, flag /\ AllMarked(a))
                  ELSE IF Ramps(x) /\ ~x.is_elevated
                       THEN [x EXCEPT !.pc = "cas", !.cur = elevated_sessions]
                  ELSE Rearm(Deepen(x), flag /\ AllMarked(a))
  IN
  /\ Selecting(s) /\ i \in InFlight(st[s].window)
  /\ broken => i = 1 /\ \E j \in DOMAIN Written(w) : w[j] \in HasData
  /\ \E new \in IF k \in Failed \/ broken THEN {FreshLoop} ELSE {after(x) : x \in {counted}} :
       /\ Set(s, new)
       /\ elevated_sessions' = elevated_sessions - (IF broken THEN 0 ELSE Released(st[s], new))
  /\ age' = a /\ all_legacy' = flag

\* The compare-exchange loop.  (Mutant: an unconditional increment.)
Admitted(s) ==
  /\ Set(s, Rearm([st[s] EXCEPT !.pc = "run", !.cur = 0, !.is_elevated = TRUE,
                                !.max_inflight = @ + 1], AllServersLegacy))
  /\ elevated_sessions' = elevated_sessions + 1
Refused(s) ==
  /\ Set(s, Rearm([st[s] EXCEPT !.pc = "run", !.cur = 0], AllServersLegacy))
  /\ UNCHANGED elevated_sessions
FetchAdd(s) == IF st[s].cur >= MaxElevated THEN Refused(s) ELSE Admitted(s)
CompareExchange(s) ==
  IF st[s].cur >= MaxElevated THEN Refused(s)
  ELSE IF elevated_sessions = st[s].cur THEN Admitted(s)
  ELSE Set(s, [st[s] EXCEPT !.cur = elevated_sessions]) /\ UNCHANGED elevated_sessions

AdmitElevated(s) ==
  /\ st[s].pc = "cas"
  /\ CompareExchange(s)
  /\ UNCHANGED <<age, all_legacy>>

\* After an end of stream replies are only written; 500 ms without one, or a
\* failed one, end the loop.
GraceReply(s, i, k) ==
  /\ st[s].pc = "run" /\ st[s].eof_seen /\ i \in InFlight(st[s].window) /\ k \notin Failed
  /\ Set(s, [st[s] EXCEPT !.window = Unwritten([@ EXCEPT ![i] = k])])
  /\ UNCHANGED <<elevated_sessions, age, all_legacy>>
GraceOver(s) ==
  /\ st[s].pc = "run" /\ st[s].eof_seen /\ InFlight(st[s].window) # {}
  /\ Ends(s)
  /\ UNCHANGED <<age, all_legacy>>

PdTick ==
  /\ \E d \in Scripts : age[d] < RecoverAfter
  /\ age' = [d \in Scripts |-> PdUp(age[d], 1, RecoverAfter)]
  /\ UNCHANGED <<pdSetup, st, elevated_sessions, all_legacy>>

Replies(s) ==
  \E i \in InFlight(st[s].window), k \in pdSetup.replies, echo \in pdSetup.echoes,
     d \in Scripts, broken \in {FALSE, Client("gone")} : Reply(s, i, k, echo, d, broken)

Grace(s) ==
  \/ \E i \in InFlight(st[s].window), k \in pdSetup.replies : GraceReply(s, i, k)
  \/ GraceOver(s)

PdNext ==
  \/ \E s \in Sessions :
       \/ \E w \in {<<"poll">>, <<"upload", "poll">>} : Start(s, w)
       \/ EndLoop(s) \/ Keepalive(s) \/ LegacyRead(s) \/ LegacyReadEof(s)
       \/ Refill(s) \/ ReadClient(s) \/ ReadClientEof(s)
       \/ Replies(s) \/ AdmitElevated(s) \/ Grace(s)
  \/ PdTick

\* The loop runs, its timers fire, every op is answered (see OpsAnswered of
\* FullTunnel).  Nothing is assumed of the local client.
LoopTurns(s) == EndLoop(s) \/ Keepalive(s) \/ Refill(s) \/ AdmitElevated(s) \/ Grace(s)
PdFairness ==
  /\ WF_pdVars(PdTick)
  /\ WF_pdVars(\E s \in Sessions : LoopTurns(s))
  /\ WF_pdVars(\E s \in Sessions : Replies(s))

PdSpec == PdInit /\ [][PdNext]_pdVars /\ PdFairness

-----------------------------------------------------------------------------
\* The type of every variable; a session is never deeper than INFLIGHT_ACTIVE.
PdTypeOK ==
  /\ st \in [Sessions ->
       [pc : {"off", "run", "cas", "read"}, window : Seq({"poll", "upload"} \cup Kinds),
        max_inflight : 0..INFLIGHT_ACTIVE, empties : 0..IdleStart, datas : 0..2,
        total : 0..Enough, is_elevated : BOOLEAN, refill : BOOLEAN,
        supports_seq : BOOLEAN, client_closed : BOOLEAN, eof_seen : BOOLEAN, cur : Nat]]
  /\ elevated_sessions \in Nat
  /\ age \in [Scripts -> 0..RecoverAfter] /\ all_legacy \in BOOLEAN

\* elevated_sessions counts the sessions that hold a permit, through every
\* drop, end and concurrent admission.
ElevatedExact ==
  elevated_sessions = Cardinality({s \in Sessions : st[s].is_elevated})

\* Concurrent admissions never overshoot max_elevated.
ElevatedWithinMax == elevated_sessions <= MaxElevated

\* A session is deeper than INFLIGHT_OPTIMIST only while it holds a permit.
DeepOnlyIfElevated ==
  \A s \in Sessions : st[s].max_inflight > INFLIGHT_OPTIMIST => st[s].is_elevated

\* The flag never misses that every deployment is marked, whatever order marks
\* and expiries come in.
FlagNotStale == AllMarked(age) => all_legacy

\* A session stops polling and waits for its client only if every deployment
\* has a mark that has not expired.
QuietOnlyIfLegacy ==
  [][\A s \in Sessions :
       st[s].pc = "run" /\ st'[s].pc = "read" => AllMarked(age)]_pdVars

\* A session always gets an op into flight again, or waits for its client in
\* the legacy gate: refill timer, keepalive and depth rules never leave it
\* without a poll.  (Of several sessions it says that this holds of one; the
\* instance that asks for it has one.)
SomePolls == \E s \in Sessions : InFlight(st[s].window) # {} \/ st[s].pc \in {"off", "read"}

\* The contract of the depth control: the permits are counted exactly and
\* within their limit, depth needs one, and the legacy flag is up to date.
DepthSound ==
  PdTypeOK /\ ElevatedExact /\ ElevatedWithinMax /\ DeepOnlyIfElevated /\ FlagNotStale
=============================================================================
