------------------------------- MODULE Relay -------------------------------
(***************************************************************************)
(* One HTTP request through DomainFronter::relay (domain_fronter.rs): the  *)
(* exit-node short cut, the response cache and the coalescing of identical *)
(* requests, the fan-out or the sequential retry over Apps Script, and in  *)
(* each attempt the HTTP/2 leg with its fall back to HTTP/1.1.             *)
(*                                                                         *)
(* A request is [unsafe, key, exit, fan]: its method is one that           *)
(* is_method_safe_for_fanout rejects, its cache key or "none", whether     *)
(* exit_node_matches, and parallel_relay clamped to the deployments.  What *)
(* the origin answers is a number, one more for every fetch.               *)
(***************************************************************************)
EXTENDS Naturals

CONSTANTS
    Mixes,       \* the sets of requests: functions from their names to shapes
    Keys,        \* cache keys
    MaxFetch     \* bound on answers fetched from the origin

ASSUME RelayAssumption ==
    /\ MaxFetch \in Nat /\ "none" \notin Keys
    /\ \A m \in Mixes : \A r \in DOMAIN m :
          m[r].unsafe \in BOOLEAN /\ m[r].exit \in BOOLEAN /\ m[r].key \in Keys \union {"none"}

VARIABLES
    req,         \* request -> its shape
    stage,       \* request -> where relay() is
    attempt,     \* request -> do_relay_once calls made
    legs,        \* request -> leg -> state of one do_relay_once_with
    sends,       \* request -> times its payload was put on the wire
    maybe,       \* request -> an h2 leg failed after it may have been sent
    answer,      \* request -> [st, val]: what relay() returned
    inflight,    \* key -> {} or {the request that fetches it}
    cache,       \* key -> 0 or the cached answer
    fetched,     \* answers fetched so far
    owner        \* history: answer -> the key it was fetched for

rlVars == <<req, stage, attempt, legs, sends, maybe, answer, inflight, cache, fetched, owner>>

Reqs == DOMAIN req
NoAnswer == [st |-> "none", val |-> 0]
Error(code) == [st |-> code, val |-> 0]
Leg == 1..2

(* A leg is unused, about to try h2, about to try h1, or over.             *)
Running(r) == {l \in Leg : legs[r][l] \in {"h2", "h1"}}
Lost == {"retryable", "nonretryable"}

RlInit ==
    /\ req \in Mixes
    /\ stage = [r \in Reqs |-> "new"]
    /\ attempt = [r \in Reqs |-> 0]
    /\ legs = [r \in Reqs |-> [l \in Leg |-> "unused"]]
    /\ sends = [r \in Reqs |-> 0]
    /\ maybe = [r \in Reqs |-> FALSE]
    /\ answer = [r \in Reqs |-> NoAnswer]
    /\ inflight = [k \in Keys |-> {}]
    /\ cache = [k \in Keys |-> 0]
    /\ fetched = 0
    /\ owner = [v \in 1..MaxFetch |-> "none"]

(* relay() up to the first await: the exit node, or the cache.             *)
Start(r) ==
    /\ stage[r] = "new"
    /\ stage' = [stage EXCEPT ![r] = IF req[r].exit THEN "exit" ELSE "cache"]
    /\ legs' = IF req[r].exit THEN [legs EXCEPT ![r][1] = "h2"] ELSE legs
    /\ UNCHANGED <<req, attempt, sends, maybe, answer, inflight, cache, fetched, owner>>

Coalescible(r) == req[r].key # "none"

CacheHit(r) ==
    /\ stage[r] = "cache"
    /\ Coalescible(r) /\ cache[req[r].key] # 0
    /\ answer' = [answer EXCEPT ![r] = [st |-> "ok", val |-> cache[req[r].key]]]
    /\ stage' = [stage EXCEPT ![r] = "done"]
    /\ UNCHANGED <<req, attempt, legs, sends, maybe, inflight, cache, fetched, owner>>

CacheMiss(r) ==
    /\ stage[r] = "cache"
    /\ Coalescible(r) => cache[req[r].key] = 0
    /\ stage' = [stage EXCEPT ![r] = IF Coalescible(r) THEN "join" ELSE "fetch"]
    /\ UNCHANGED <<req, attempt, legs, sends, maybe, answer, inflight, cache, fetched, owner>>

(* Under the inflight lock: subscribe to the fetch that runs, or become it.*)
Join(r) ==
    /\ stage[r] = "join"
    /\ IF inflight[req[r].key] = {}
       THEN /\ inflight' = [inflight EXCEPT ![req[r].key] = {r}]
            /\ stage' = [stage EXCEPT ![r] = "fetch"]
       ELSE /\ stage' = [stage EXCEPT ![r] = "wait"]
            /\ UNCHANGED inflight
    /\ UNCHANGED <<req, attempt, legs, sends, maybe, answer, cache, fetched, owner>>

(* do_relay_with_retry: safe methods fan out, the others use one leg.      *)
FansOut(r) == req[r].fan >= 2 /\ ~req[r].unsafe

Dispatch(r) ==
    /\ stage[r] = "fetch"
    /\ stage' = [stage EXCEPT ![r] = "flying"]
    /\ attempt' = [attempt EXCEPT ![r] = 1]
    /\ legs' = [legs EXCEPT ![r] =
                  [l \in Leg |-> IF l = 1 \/ FansOut(r) THEN "h2" ELSE "unused"]]
    /\ UNCHANGED <<req, sends, maybe, answer, inflight, cache, fetched, owner>>

-----------------------------------------------------------------------------
(* One leg (do_relay_once_with; send_prebuilt_payload_through_relay for the*)
(* exit node).  The h2 part ends before anything was sent, or refused by   *)
(* the edge: on to h1.                                                     *)
H2NotSent(r, l) ==
    /\ legs[r][l] = "h2"
    /\ legs' = [legs EXCEPT ![r][l] = "h1"]
    /\ UNCHANGED <<req, stage, attempt, sends, maybe, answer, inflight, cache, fetched, owner>>

(* It fails after the request may have been processed: safe methods go on  *)
(* to h1, the others and the exit node's outer call give up for good.      *)
(* (Mutant: every request goes on.)                                        *)
AlwaysFallsBack(r) == TRUE
MayFallBack(r) == stage[r] = "flying" /\ ~req[r].unsafe

H2SentFailed(r, l) ==
    /\ legs[r][l] = "h2"
    /\ sends' = [sends EXCEPT ![r] = @ + 1]
    /\ maybe' = [maybe EXCEPT ![r] = TRUE]
    /\ legs' = [legs EXCEPT ![r][l] = IF MayFallBack(r) THEN "h1" ELSE "nonretryable"]
    /\ UNCHANGED <<req, stage, attempt, answer, inflight, cache, fetched, owner>>

(* An answer arrives over h2 or h1: the origin's, or an error status or    *)
(* envelope.                                                               *)
LegAnswered(r, l, ok) ==
    /\ legs[r][l] \in {"h2", "h1"}
    /\ sends' = [sends EXCEPT ![r] = @ + 1]
    /\ legs' = [legs EXCEPT ![r][l] = IF ok THEN "ok" ELSE "retryable"]
    /\ UNCHANGED <<req, stage, attempt, maybe, answer, inflight, cache, fetched, owner>>

(* The h1 part fails, before or after the request was written.             *)
H1Failed(r, l, sent) ==
    /\ legs[r][l] = "h1"
    /\ sends' = [sends EXCEPT ![r] = IF sent THEN @ + 1 ELSE @]
    /\ legs' = [legs EXCEPT ![r][l] = "retryable"]
    /\ UNCHANGED <<req, stage, attempt, maybe, answer, inflight, cache, fetched, owner>>

LegStep(r) ==
    \E l \in Leg :
       \/ H2NotSent(r, l)
       \/ H2SentFailed(r, l)
       \/ \E ok \in BOOLEAN : LegAnswered(r, l, ok)
       \/ \E sent \in BOOLEAN : H1Failed(r, l, sent)

-----------------------------------------------------------------------------
(* The exit-node leg is over: its answer goes back as it is; a failure     *)
(* after sending ends the request; any other one falls through.            *)
ExitDone(r) ==
    /\ stage[r] = "exit"
    /\ Running(r) = {}
    /\ legs' = [legs EXCEPT ![r] = [l \in Leg |-> "unused"]]
    /\ \/ /\ legs[r][1] = "ok" /\ fetched < MaxFetch
          /\ fetched' = fetched + 1
          /\ answer' = [answer EXCEPT ![r] = [st |-> "ok", val |-> fetched + 1]]
          /\ stage' = [stage EXCEPT ![r] = "done"]
       \/ /\ legs[r][1] = "nonretryable"
          /\ answer' = [answer EXCEPT ![r] = Error("502")]
          /\ stage' = [stage EXCEPT ![r] = "done"]
          /\ UNCHANGED fetched
       \/ /\ legs[r][1] = "retryable"
          /\ stage' = [stage EXCEPT ![r] = "cache"]
          /\ UNCHANGED <<answer, fetched>>
    /\ UNCHANGED <<req, attempt, sends, maybe, inflight, cache, owner>>

(* relay_uncoalesced's tail and relay()'s: the leader leaves the inflight  *)
(* map and its answer goes to every subscriber.  (Mutant: the entry stays.)*)
Subscribers(r) == {q \in Reqs : stage[q] = "wait" /\ Coalescible(r) /\ req[q].key = req[r].key}

LeftInflight(r) == inflight
Removed(r) == IF Coalescible(r) THEN [inflight EXCEPT ![req[r].key] = {}] ELSE inflight

Publish(r, a) ==
    /\ answer' = [q \in Reqs |-> IF q \in {r} \union Subscribers(r) THEN a ELSE answer[q]]
    /\ stage' = [q \in Reqs |-> IF q \in {r} \union Subscribers(r) THEN "done" ELSE stage[q]]
    /\ inflight' = Removed(r)

(* The first leg that succeeds wins (select_ok drops the others); a        *)
(* cacheable answer is stored before it is published.                      *)
Stored(r, v) == [cache EXCEPT ![req[r].key] = v]

Succeed(r, cacheable) ==
    /\ stage[r] = "flying"
    /\ \E l \in Leg : legs[r][l] = "ok"
    /\ fetched < MaxFetch
    /\ fetched' = fetched + 1
    /\ owner' = [owner EXCEPT ![fetched + 1] = req[r].key]
    /\ legs' = [legs EXCEPT ![r] = [l \in Leg |-> "unused"]]
    /\ cache' = IF cacheable /\ Coalescible(r) THEN Stored(r, fetched + 1) ELSE cache
    /\ Publish(r, [st |-> "ok", val |-> fetched + 1])
    /\ UNCHANGED <<req, attempt, sends, maybe>>

(* Every leg failed: one more attempt for a single leg whose error is      *)
(* retryable, else a 502.                                                  *)
Failed(r) ==
    /\ stage[r] = "flying"
    /\ Running(r) = {}
    /\ \A l \in Leg : legs[r][l] # "ok"

MayRetry(r) == attempt[r] = 1

Retry(r) ==
    /\ Failed(r)
    /\ legs[r][1] = "retryable" /\ legs[r][2] = "unused" /\ MayRetry(r)
    /\ attempt' = [attempt EXCEPT ![r] = @ + 1]
    /\ legs' = [legs EXCEPT ![r][1] = "h2"]
    /\ UNCHANGED <<req, stage, sends, maybe, answer, inflight, cache, fetched, owner>>

GiveUp(r) ==
    /\ Failed(r)
    /\ legs[r][1] = "nonretryable" \/ legs[r][2] # "unused" \/ attempt[r] = 2
    /\ legs' = [legs EXCEPT ![r] = [l \in Leg |-> "unused"]]
    /\ Publish(r, Error("502"))
    /\ UNCHANGED <<req, attempt, sends, maybe, cache, fetched, owner>>

(* REQUEST_TIMEOUT_SECS passes first.  What is on the wire stays there.    *)
TimeOut(r) ==
    /\ stage[r] = "flying"
    /\ legs' = [legs EXCEPT ![r] = [l \in Leg |-> "unused"]]
    /\ Publish(r, Error("504"))
    /\ UNCHANGED <<req, attempt, sends, maybe, cache, fetched, owner>>

(* A cached answer expires.                                                *)
Expire(k) ==
    /\ cache[k] # 0
    /\ cache' = [cache EXCEPT ![k] = 0]
    /\ UNCHANGED <<req, stage, attempt, legs, sends, maybe, answer, inflight, fetched, owner>>

ReqStep(r) ==
    \/ Start(r) \/ CacheHit(r) \/ CacheMiss(r) \/ Join(r) \/ Dispatch(r)
    \/ LegStep(r) \/ ExitDone(r)
    \/ \E cacheable \in BOOLEAN : Succeed(r, cacheable)
    \/ Retry(r) \/ GiveUp(r) \/ TimeOut(r)

RlNext == (\E r \in Reqs : ReqStep(r)) \/ (\E k \in Keys : Expire(k))

RlSpec == RlInit /\ [][RlNext]_rlVars

-----------------------------------------------------------------------------
RlTypeOK ==
    /\ stage \in [Reqs -> {"new", "exit", "cache", "join", "wait", "fetch", "flying", "done"}]
    /\ attempt \in [Reqs -> 0..2]
    /\ legs \in [Reqs -> [Leg -> {"unused", "h2", "h1", "ok"} \union Lost]]
    /\ sends \in [Reqs -> 0..5]
    /\ fetched \in 0..MaxFetch
    /\ cache \in [Keys -> 0..fetched]
    /\ \A k \in Keys : inflight[k] \subseteq Reqs /\ \A q, r \in inflight[k] : q = r

(* Once an unsafe request has failed after it may have been processed      *)
(* (RequestSent::Maybe), neither the h1 fall back, the retry, the fan-out  *)
(* nor the fall through from the exit node sends it again.                 *)
NoReplayAfterMaybe ==
    \A r \in Reqs : req[r].unsafe /\ maybe[r] => sends'[r] = sends[r]

(* An unsafe request is never in flight twice at the same moment.          *)
UnsafeNeverFansOut ==
    \A r \in Reqs : req[r].unsafe => \A l, m \in Running(r) : l = m

(* Every entry of the inflight map is a fetch that still runs, a running   *)
(* fetch of a coalescible request is the entry of its key, and a           *)
(* subscriber's key has an entry: nobody waits for a fetch that is over,   *)
(* and no key is fetched twice at once.                                    *)
InflightLive ==
    /\ \A k \in Keys : \A r \in inflight[k] :
          stage[r] \in {"fetch", "flying"} /\ req[r].key = k
    /\ \A r \in Reqs : stage[r] \in {"fetch", "flying"} /\ Coalescible(r)
                       => inflight[req[r].key] = {r}
    /\ \A r \in Reqs : stage[r] = "wait" => inflight[req[r].key] # {}

(* An answer shared through the cache or the coalescer was fetched for the *)
(* key of the request that gets it.                                        *)
SharedAnswerIsMine ==
    \A r \in Reqs : Coalescible(r) /\ ~req[r].exit /\ answer[r].st = "ok"
                    => owner[answer[r].val] = req[r].key

(* The contract of relaying: an unsafe request is in flight once, and a    *)
(* shared answer is one's own and comes from a fetch that runs.            *)
RelaySound == RlTypeOK /\ UnsafeNeverFansOut /\ InflightLive /\ SharedAnswerIsMine

(* Every request is answered: a subscriber of a fetch that fails or times  *)
(* out is as well.                                                         *)
AllAnswered == \A r \in Reqs : stage[r] = "done"

=============================================================================
