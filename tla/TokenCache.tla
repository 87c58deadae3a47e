---------------------------- MODULE TokenCache ----------------------------
(***************************************************************************)
(* The access token both ends of the Drive transport share among their     *)
(* workers: TokenCache::get of drive-relay (token.rs) and of the client    *)
(* (drive_client.rs), over refresh_access_token of drive_oauth.rs.  The    *)
(* mutex is held across the refresh; only the relay remembers that Google  *)
(* called the refresh token dead.                                          *)
(***************************************************************************)
EXTENDS Naturals, FiniteSets

CONSTANTS Workers, MaxCalls, MaxExpiries  \* callers of get(); bounds

ASSUME TokenCacheAssumption == MaxCalls \in Nat /\ MaxExpiries \in Nat

VARIABLES
    tkSide,     \* relay or client
    tkPc,       \* where each worker is in get()
    tkLock,     \* holder of the mutex, as a set
    tkCached,   \* None, a token with life left, or one near its expiry
    tkDead,     \* Google has revoked the refresh token
    tkLatch,    \* revoked: AtomicBool (relay)
    tkOwed,     \* history: calls that had passed the latch before it was set
    tkExpired,  \* history: times a cached token came near its expiry
    tkMinted,   \* history: access tokens obtained
    tkCalls

tkVars == <<tkSide, tkPc, tkLock, tkCached, tkDead, tkLatch, tkOwed, tkExpired, tkMinted, tkCalls>>

TkInit ==
    /\ tkSide \in {"relay", "client"}
    /\ tkPc = [w \in Workers |-> "idle"]
    /\ tkLock = {} /\ tkCached = "none" /\ tkDead = FALSE /\ tkLatch = FALSE
    /\ tkOwed = {} /\ tkExpired = 0 /\ tkMinted = 0 /\ tkCalls = 0

\* (Mutant: the latch is only read for the log.)
LatchForgotten == FALSE
Latched == tkSide = "relay" /\ tkLatch

\* get(): the latch is read, then the worker waits for the mutex; or the latched error is returned.
GetToken(w) ==
    /\ tkPc[w] = "idle" /\ tkCalls < MaxCalls
    /\ tkCalls' = tkCalls + 1
    /\ tkPc' = [tkPc EXCEPT ![w] = IF Latched THEN "idle" ELSE "wait"]
    /\ UNCHANGED <<tkSide, tkLock, tkCached, tkDead, tkLatch, tkOwed, tkExpired, tkMinted>>

\* (Mutant: what was cached when the call began is not looked at again under the mutex.)
AlwaysStale == TRUE
NeedsRefresh == tkCached # "fresh"

\* The mutex is taken; a token with more than 60 s left is returned at once.
Locked(w) ==
    /\ tkPc[w] = "wait" /\ tkLock = {}
    /\ IF NeedsRefresh
       THEN tkLock' = {w} /\ tkPc' = [tkPc EXCEPT ![w] = "refresh"]
       ELSE UNCHANGED tkLock /\ tkPc' = [tkPc EXCEPT ![w] = "idle"]
    /\ tkOwed' = tkOwed \ {w}
    /\ UNCHANGED <<tkSide, tkCached, tkDead, tkLatch, tkExpired, tkMinted, tkCalls>>

Return(w) == tkLock' = tkLock \ {w} /\ tkPc' = [tkPc EXCEPT ![w] = "idle"]

Refreshed(w) ==
    /\ tkPc[w] = "refresh" /\ ~tkDead
    /\ Return(w)
    /\ tkCached' = "fresh"
    /\ tkMinted' = tkMinted + 1
    /\ UNCHANGED <<tkSide, tkDead, tkLatch, tkOwed, tkExpired, tkCalls>>

\* is_refresh_token_revoked(): only the relay latches.  Those that wait for the mutex by now have
\* read the latch and will each present the dead token once more.
RefusedAsRevoked(w) ==
    /\ tkPc[w] = "refresh" /\ tkDead
    /\ Return(w)
    /\ tkLatch' = (tkSide = "relay")
    /\ tkOwed' = IF tkLatch THEN tkOwed ELSE {x \in Workers : tkPc[x] = "wait"}
    /\ UNCHANGED <<tkSide, tkCached, tkDead, tkExpired, tkMinted, tkCalls>>

\* A transport error, another status, a body that does not parse; or the worker's task is dropped.
RefreshFails(w) ==
    /\ tkPc[w] = "refresh"
    /\ Return(w)
    /\ UNCHANGED <<tkSide, tkCached, tkDead, tkLatch, tkOwed, tkExpired, tkMinted, tkCalls>>

\* is_near_expiry becomes true of the cached token.
NearExpiry ==
    /\ tkCached = "fresh" /\ tkExpired < MaxExpiries
    /\ tkCached' = "stale" /\ tkExpired' = tkExpired + 1
    /\ UNCHANGED <<tkSide, tkPc, tkLock, tkDead, tkLatch, tkOwed, tkMinted, tkCalls>>

Revoked ==
    /\ ~tkDead /\ tkDead' = TRUE
    /\ UNCHANGED <<tkSide, tkPc, tkLock, tkCached, tkLatch, tkOwed, tkExpired, tkMinted, tkCalls>>

\* A call under way goes on: tokio's mutex is fair and the request to Google has a deadline.
GetStep(w) == Locked(w) \/ Refreshed(w) \/ RefusedAsRevoked(w) \/ RefreshFails(w)

TkNext ==
    \/ \E w \in Workers : GetToken(w) \/ GetStep(w)
    \/ NearExpiry \/ Revoked

TkSpec == TkInit /\ [][TkNext]_tkVars

-----------------------------------------------------------------------------
(* The types; the mutex is held exactly by the worker that refreshes.      *)
TkTypeOK ==
    /\ tkSide \in {"relay", "client"}
    /\ tkPc \in [Workers -> {"idle", "wait", "refresh"}]
    /\ tkLock = {w \in Workers : tkPc[w] = "refresh"}
    /\ tkCached \in {"none", "fresh", "stale"}
    /\ tkDead \in BOOLEAN /\ tkLatch \in BOOLEAN
    /\ tkOwed \subseteq Workers
    /\ tkExpired \in 0..MaxExpiries /\ tkMinted \in 0..(MaxExpiries + 1) /\ tkCalls \in 0..MaxCalls

(* No call of get() is left waiting, for the mutex or for Google.          *)
GetReturned == \A w \in Workers : tkPc[w] = "idle"

(* However many workers call get() at once, a token is only fetched when   *)
(* none is cached or the last one came near its expiry ("the first call    *)
(* refreshes, the rest see the updated cache", token.rs).                  *)
OneRefreshPerExpiry == tkMinted <= tkExpired + 1

(* Once the relay has latched the revocation, Google only hears from calls *)
(* that were already waiting for the mutex, and from each at most once.    *)
DeadTokenOnlyFromWaiters ==
    \A w \in Workers : tkLatch /\ tkPc[w] # "refresh" /\ tkPc'[w] = "refresh"
     => w \in tkOwed /\ w \notin tkOwed'

(* The contract of the cache: one holder of the mutex, and no more tokens  *)
(* fetched than were needed.                                               *)
TokenSound == TkTypeOK /\ OneRefreshPerExpiry
=============================================================================
