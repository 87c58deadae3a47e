---------------------------- MODULE Deployments ----------------------------
(***************************************************************************)
(* The rotation over Apps Script deployments (DomainFronter in             *)
(* src/src/domain_fronter.rs): which deployment the next request uses, and *)
(* the four records that steer the choice.                                 *)
(*                                                                         *)
(*   blacklist        cooldowns, with the flag that lets the probe loop    *)
(*                    clear one early                                      *)
(*   script_timeouts  the strikes a burst of batch timeouts adds up to     *)
(*   script_latency   the EWMA latency samples behind the slow set         *)
(*   probe            the probe pass in flight, one probe per deployment   *)
(*                                                                         *)
(* Time is kept as ages: a cooldown is the time left, a sample or a strike *)
(* its age, and Tick moves all of them at once; what is past its limit is  *)
(* equal to absent, as every reader prunes or filters it.  The deployments *)
(* are 1..setup.n, in the order of script_ids.                             *)
(***************************************************************************)
EXTENDS Naturals, Sequences, FiniteSets

CONSTANTS
    Setups,             \* the configurations explored: [n, kinds, flight, strikes]
    MaxN,               \* the largest number of deployments among Setups
    Cooldown,           \* BLACKLIST_COOLDOWN_SECS
    StrikeCooldown,     \* auto_blacklist_cooldown
    HardSlowCooldown,   \* LATENCY_HARD_SLOW_COOLDOWN_SECS
    StrikeWindow,       \* auto_blacklist_window
    Fresh,              \* LATENCY_FRESH_FOR_SECS
    Scores,             \* latency levels a batch can take, positive
    HardSlow,           \* the level that LATENCY_HARD_SLOW_BATCH_MS stands for
    MinMedian,          \* LATENCY_SKIP_MIN_MEDIAN_MS
    MinSampled,         \* LATENCY_MIN_DEPLOYMENTS
    Outcomes            \* the endings of a relay explored, of AllOutcomes

ASSUME DeploymentsAssumption ==
    /\ \A u \in Setups : u.n \in 1..MaxN /\ u.strikes >= 1
    /\ Scores \subseteq Nat \ {0}
    /\ Cooldown \in Nat \ {0} /\ StrikeCooldown \in Nat \ {0}
    /\ HardSlowCooldown \in Nat \ {0}

VARIABLES
    setup,            \* the configuration DomainFronter::new was given
    script_idx,       \* the round-robin index, modulo n
    blacklist,        \* deployment -> [ttl, probe]; ttl 0 is no entry
    script_timeouts,  \* deployment -> [count, age of the window's start]
    script_latency,   \* deployment -> [score, age]; score 0 is no sample
    probe,            \* deployment -> [st, same, saw]
    flying,           \* deployment -> requests sent and not yet answered
    picked,           \* what the last selection returned
    burst             \* history: ages of the timeouts since a success or a ban

depVars == <<setup, script_idx, blacklist, script_timeouts, script_latency,
             probe, flying, picked, burst>>

Ids == 1..MaxN
Scripts == 1..setup.n
Kind(k) == k \in setup.kinds

NoEntry == [ttl |-> 0, probe |-> FALSE]
NoSample == [score |-> 0, age |-> 0]
NoStrikes == [count |-> 0, age |-> 0]
NoProbe == [st |-> "idle", same |-> TRUE, saw |-> "none"]

(* How a relay round trip can end, as do_relay_once_with and               *)
(* classify_envelope_error tell the endings apart.                         *)
AllOutcomes ==
            {"ok",          \* HTTP 200 with a healthy envelope
             "transient",   \* an envelope error the classifier does not know
             "classified",  \* a quota, auth, deploy or admin error
             "http_block",  \* HTTP 429 or 403 with an unclassified body
             "http_other",  \* any other status with an unclassified body
             "open_timeout",\* the h1 open timed out: a Relay error as well
             "transport"}   \* Io, Tls, Json, BadResponse, NonRetryable

ASSUME OutcomesAssumption == Outcomes \subseteq AllOutcomes

MaxTtl == CHOOSE m \in {Cooldown, StrikeCooldown, HardSlowCooldown} :
              m >= Cooldown /\ m >= StrikeCooldown /\ m >= HardSlowCooldown

Blacklisted == {s \in Scripts : blacklist[s].ttl > 0}

(* should_blacklist, and the classify_envelope_error sites after           *)
(* parse_relay_json.                                                       *)
ShouldBlacklist(outcome) == outcome \in {"classified", "http_block"}

(* A Relay error whose text the classifier does not know counts as healthy,*)
(* whatever produced it.                                                   *)
ProbeIndicatesRecovery(outcome) ==
    outcome \in {"ok", "transient", "http_block", "http_other", "open_timeout"}

(* The samples the slow set may use, and their middle value                *)
(* values[len / 2] of the sorted list.                                     *)
\* (Mutant: a sample never goes stale.)
AllSamples == {s \in Scripts : script_latency[s].score > 0}
FreshSamples == {s \in Scripts : script_latency[s].score > 0 /\ script_latency[s].age < Fresh}

Median(S) ==
    CHOOSE v \in {script_latency[s].score : s \in S} :
        /\ Cardinality({s \in S : script_latency[s].score < v}) <= Cardinality(S) \div 2
        /\ Cardinality({s \in S : script_latency[s].score <= v}) > Cardinality(S) \div 2

SlowSet ==
    LET S == FreshSamples IN
    IF Cardinality(S) < MinSampled \/ Median(S) < MinMedian THEN {}
    ELSE {s \in S : script_latency[s].score > 2 * Median(S)}

(* The deployment k places after the round-robin index.                    *)
At(i) == (i % setup.n) + 1

(* The places of a full turn from index i whose deployment is in S, and    *)
(* the index after the scan has collected `want` of them or has finished   *)
(* its n places.                                                           *)
Places(i, S) == {k \in 0..(setup.n - 1) : At(i + k) \in S}
Taken(i, S, want) ==
    {k \in Places(i, S) : Cardinality({j \in Places(i, S) : j < k}) < want}

\* The round-robin index wraps.
Wrapped(i) == i % setup.n

After(i, S, want) ==
    IF want = 0 THEN i
    ELSE IF Cardinality(Taken(i, S, want)) < want THEN i
    ELSE Wrapped(i + 1 + CHOOSE k \in Taken(i, S, want) : \A j \in Taken(i, S, want) : j <= k)

\* What the second pass may take.
SecondPass(first) == (Scripts \ Blacklisted) \ first

(* The two passes of next_script_id and next_script_ids: first neither     *)
(* blacklisted nor slow, then only not blacklisted and not yet picked.     *)
Selection(want) ==
    LET good == Scripts \ (Blacklisted \union SlowSet)
        first == {At(script_idx + k) : k \in Taken(script_idx, good, want)}
        mid == After(script_idx, good, want)
        rest == SecondPass(first)
        more == want - Cardinality(first)
    IN  [ids |-> first \union {At(mid + k) : k \in Taken(mid, rest, more)},
         idx |-> After(mid, rest, more)]

(* Every write of an entry takes a new Instant, so a probe that captured   *)
(* the previous `until` no longer finds it.                                *)
BlacklistInner(s, cooldown, recoverable) ==
    /\ blacklist' = [blacklist EXCEPT ![s] = [ttl |-> cooldown, probe |-> recoverable]]
    /\ probe' = [probe EXCEPT ![s].same = @ /\ probe[s].st = "idle"]

-----------------------------------------------------------------------------
DepInit ==
    /\ setup \in Setups
    /\ script_idx = 0
    /\ blacklist = [s \in Ids |-> NoEntry]
    /\ script_timeouts = [s \in Ids |-> NoStrikes]
    /\ script_latency = [s \in Ids |-> NoSample]
    /\ probe = [s \in Ids |-> NoProbe]
    /\ flying = [s \in Ids |-> 0]
    /\ picked = {}
    /\ burst = [s \in Ids |-> <<>>]

(* The chosen deployments are used: at most one request each and           *)
(* setup.flight in all are explored.                                       *)
Use(ids) ==
    /\ \A s \in ids : flying[s] = 0
    /\ Cardinality(ids \union {s \in Scripts : flying[s] > 0}) <= setup.flight
    /\ picked' = ids
    /\ flying' = [s \in Ids |-> IF s \in ids THEN flying[s] + 1 ELSE flying[s]]
    /\ UNCHANGED <<setup, script_timeouts, script_latency, probe, burst>>

(* next_script_id: one deployment; when all are blacklisted, the one whose *)
(* cooldown ends soonest, whose entry is dropped.                          *)
NextScriptId ==
    \/ \E s \in Selection(1).ids :
          /\ Use({s})
          /\ script_idx' = Selection(1).idx
          /\ UNCHANGED blacklist
    \/ /\ Blacklisted = Scripts
       /\ \E s \in Scripts :
            /\ \A t \in Scripts : blacklist[s].ttl <= blacklist[t].ttl
            /\ Use({s})
            /\ blacklist' = [blacklist EXCEPT ![s] = NoEntry]
       /\ UNCHANGED script_idx

(* next_script_ids(want), the fan-out's choice; all blacklisted falls back *)
(* to the first deployment and leaves its entry.                           *)
NextScriptIds(want) ==
    /\ Kind("fanout")
    /\ Use(IF Selection(want).ids = {} THEN {1} ELSE Selection(want).ids)
    /\ script_idx' = Selection(want).idx
    /\ UNCHANGED blacklist

(* A relay request, or the status check of a tunnel response, comes back.  *)
RelayDone(s, outcome) ==
    /\ flying[s] > 0
    /\ flying' = [flying EXCEPT ![s] = @ - 1]
    /\ IF ShouldBlacklist(outcome) THEN BlacklistInner(s, Cooldown, TRUE)
       ELSE UNCHANGED <<blacklist, probe>>
    /\ UNCHANGED <<setup, script_idx, script_timeouts, script_latency, picked, burst>>

(* A tunnel batch succeeds after ms: record_batch_latency folds the sample *)
(* into the EWMA, which lands between the two, and cools the deployment    *)
(* down when it was hard-slow; record_batch_success clears the strikes.    *)
BatchDone(s, ms) ==
    /\ Kind("latency")
    /\ flying[s] > 0
    /\ flying' = [flying EXCEPT ![s] = @ - 1]
    /\ LET old == script_latency[s].score IN
       \E v \in Scores :
          /\ IF old = 0 THEN v = ms
             ELSE (old <= v /\ v <= ms) \/ (ms <= v /\ v <= old)
          /\ script_latency' = [script_latency EXCEPT ![s] = [score |-> v, age |-> 0]]
    /\ IF setup.n >= MinSampled /\ ms >= HardSlow
       THEN BlacklistInner(s, HardSlowCooldown, FALSE)
       ELSE UNCHANGED <<blacklist, probe>>
    /\ script_timeouts' = [script_timeouts EXCEPT ![s] = NoStrikes]
    /\ burst' = [burst EXCEPT ![s] = <<>>]
    /\ UNCHANGED <<setup, script_idx, picked>>

(* A batch times out: record_timeout_strike, which starts over when the    *)
(* window has passed.  (Mutant: it never does.)                            *)
WindowForever(s) == FALSE
WindowOver(s) == script_timeouts[s].age > StrikeWindow

Strike(s) ==
    IF script_timeouts[s].count = 0 \/ WindowOver(s) THEN [count |-> 1, age |-> 0]
    ELSE [script_timeouts[s] EXCEPT !.count = @ + 1]

BatchTimeout(s) ==
    /\ Kind("timeout")
    /\ flying[s] > 0
    /\ flying' = [flying EXCEPT ![s] = @ - 1]
    /\ IF Strike(s).count >= setup.strikes
       THEN /\ script_timeouts' = [script_timeouts EXCEPT ![s] = NoStrikes]
            /\ BlacklistInner(s, StrikeCooldown, FALSE)
            /\ burst' = [burst EXCEPT ![s] = <<>>]
       ELSE /\ script_timeouts' = [script_timeouts EXCEPT ![s] = Strike(s)]
            /\ burst' = [burst EXCEPT ![s] = Append(IF Len(@) < setup.strikes - 1 THEN @
                                                    ELSE Tail(@), 0)]
            /\ UNCHANGED <<blacklist, probe>>
    /\ UNCHANGED <<setup, script_idx, script_latency, picked>>

(* A batch of the strike configuration succeeds.                           *)
BatchSuccess(s) ==
    /\ Kind("timeout")
    /\ flying[s] > 0
    /\ flying' = [flying EXCEPT ![s] = @ - 1]
    /\ script_timeouts' = [script_timeouts EXCEPT ![s] = NoStrikes]
    /\ burst' = [burst EXCEPT ![s] = <<>>]
    /\ UNCHANGED <<setup, script_idx, blacklist, script_latency, probe, picked>>

(* probe_blacklisted_once: one probe for every entry the loop owns.  The   *)
(* pass before it has been joined.                                         *)
ProbePass ==
    /\ Kind("probe")
    /\ setup.n > 1
    /\ \A s \in Scripts : probe[s].st = "idle"
    /\ \E s \in Blacklisted : blacklist[s].probe
    /\ probe' = [s \in Ids |->
                    IF s \in Scripts /\ blacklist[s].ttl > 0 /\ blacklist[s].probe
                    THEN [st |-> "sent", same |-> TRUE, saw |-> "none"] ELSE NoProbe]
    /\ UNCHANGED <<setup, script_idx, blacklist, script_timeouts, script_latency,
                   flying, picked, burst>>

(* probe_one_sid: the HEAD comes back, with the blacklist effects every    *)
(* relay has.                                                              *)
ProbeAnswer(s, outcome) ==
    /\ probe[s].st = "sent"
    /\ IF ShouldBlacklist(outcome)
       THEN blacklist' = [blacklist EXCEPT ![s] = [ttl |-> Cooldown, probe |-> TRUE]]
       ELSE UNCHANGED blacklist
    /\ probe' = [probe EXCEPT ![s] =
                    IF ProbeIndicatesRecovery(outcome)
                    THEN [st |-> "recovered",
                          same |-> probe[s].same /\ ~ShouldBlacklist(outcome),
                          saw |-> outcome]
                    ELSE NoProbe]
    /\ UNCHANGED <<setup, script_idx, script_timeouts, script_latency, flying, picked, burst>>

(* apply_probe_recovery: compare the captured `until` and clear.           *)
StillCaptured(s) == blacklist[s].ttl > 0 /\ probe[s].same

ProbeApply(s) ==
    /\ probe[s].st = "recovered"
    /\ IF StillCaptured(s)
       THEN blacklist' = [blacklist EXCEPT ![s] = NoEntry]
       ELSE UNCHANGED blacklist
    /\ probe' = [probe EXCEPT ![s] = NoProbe]
    /\ UNCHANGED <<setup, script_idx, script_timeouts, script_latency, flying, picked, burst>>

Older(age, cap) == IF age < cap THEN age + 1 ELSE age

Tick ==
    /\ blacklist' = [s \in Ids |-> IF blacklist[s].ttl <= 1 THEN NoEntry
                                   ELSE [blacklist[s] EXCEPT !.ttl = @ - 1]]
    /\ script_timeouts' = [s \in Ids |->
            IF script_timeouts[s].count = 0 THEN NoStrikes
            ELSE [script_timeouts[s] EXCEPT !.age = Older(@, StrikeWindow + 1)]]
    /\ script_latency' = [s \in Ids |->
            IF script_latency[s].score = 0 THEN NoSample
            ELSE [script_latency[s] EXCEPT !.age = Older(@, Fresh)]]
    /\ burst' = [s \in Ids |-> [i \in DOMAIN burst[s] |-> Older(burst[s][i], StrikeWindow + 1)]]
    /\ UNCHANGED <<setup, script_idx, probe, flying, picked>>

Finish(s) ==
    \/ \E outcome \in Outcomes : Kind("relay") /\ RelayDone(s, outcome)
    \/ \E ms \in Scores : BatchDone(s, ms)
    \/ BatchTimeout(s)
    \/ BatchSuccess(s)

ProbeStep(s) ==
    \/ \E outcome \in Outcomes : ProbeAnswer(s, outcome)
    \/ ProbeApply(s)

Select == NextScriptId \/ \E want \in 2..setup.n : NextScriptIds(want)

Traffic == (\E s \in Scripts : Finish(s)) \/ Select

DepNext ==
    \/ Traffic
    \/ ProbePass
    \/ \E s \in Scripts : ProbeStep(s)
    \/ Tick

DepSpec == DepInit /\ [][DepNext]_depVars /\ WF_depVars(Traffic) /\ WF_depVars(Tick)

-----------------------------------------------------------------------------
DepTypeOK ==
    /\ setup \in Setups
    /\ script_idx \in 0..(setup.n - 1)
    /\ blacklist \in [Ids -> [ttl : 0..MaxTtl, probe : BOOLEAN]]
    /\ script_timeouts \in [Ids -> [count : 0..setup.strikes, age : 0..(StrikeWindow + 1)]]
    /\ script_latency \in [Ids -> [score : Scores \union {0}, age : 0..Fresh]]
    /\ probe \in [Ids -> [st : {"idle", "sent", "recovered"}, same : BOOLEAN,
                          saw : Outcomes \union {"none"}]]
    /\ flying \in [Ids -> 0..setup.flight]
    /\ picked \subseteq Ids

(* A selection never sends traffic to a deployment in cooldown while       *)
(* another one is free, and never to a slow one while a fast one is free   *)
(* (the two passes of next_script_id and next_script_ids, whatever the     *)
(* index, the expiries and the slow set are at that moment).               *)
SelectsBest ==
    flying' # flying /\ (\E s \in Ids : flying'[s] > flying[s]) =>
      /\ Scripts \ Blacklisted # {} => picked' \intersect Blacklisted = {}
      /\ picked' \intersect SlowSet # {} =>
             (Scripts \ (Blacklisted \union SlowSet)) \subseteq picked'

(* A strike entry is only written when the last `strikes` batches that     *)
(* timed out on this deployment did so inside one window with no success   *)
(* between them: strikes of unrelated incidents never add up.              *)
StrikesAreOneBurst ==
    \A s \in Scripts : Kind("timeout") /\ flying'[s] < flying[s]
                          /\ blacklist'[s] # blacklist[s] /\ ~blacklist'[s].probe
      => /\ Len(burst[s]) + 1 >= setup.strikes
         /\ \A i \in DOMAIN burst[s] : burst[s][i] <= StrikeWindow

(* The probe loop only removes the entry it captured: a cooldown written   *)
(* while the probe was in flight (another failure, a strike, a hard-slow   *)
(* batch) outlives the probe's good news, and so does every entry the loop *)
(* does not own.                                                           *)
ProbeKeepsNewerEntry ==
    \A s \in Ids : probe[s].st = "recovered" /\ probe'[s].st = "idle"
                   /\ blacklist[s].ttl > 0 /\ blacklist'[s].ttl = 0
      => blacklist[s].probe /\ ~ShouldBlacklist(probe[s].saw)

(* No deployment is banned for good: a slow sample goes stale, a cooldown  *)
(* ends, and the rotation comes back to it, unless the probe loop keeps    *)
(* finding it broken.  Stated for the last deployment: the rotation treats *)
(* them alike but for the fan-out's fallback, which favours the first.     *)
UsedAgain == setup.n \in picked \/ probe[setup.n].st # "idle"

=============================================================================
