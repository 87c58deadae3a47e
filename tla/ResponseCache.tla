--------------------------- MODULE ResponseCache ---------------------------
(***************************************************************************)
(* The response cache of cache.rs: a map of entries, their insertion order *)
(* and the running byte count, all under one mutex.  A response is         *)
(* [bytes, ttl]: its length and what parse_ttl returns, 0 for None.        *)
(***************************************************************************)
EXTENDS Integers, Sequences, FiniteSets, FiniteSetsExt

CONSTANTS
    CacheKeys,     \* keys of requests
    Responses,     \* [bytes, ttl] of the responses the relay fetches
    max_bytes,
    MAX_ENTRY_FRACTION

ASSUME CacheAssumption ==
    /\ max_bytes \in Nat /\ MAX_ENTRY_FRACTION \in Nat \ {0}
    /\ \A r \in Responses : r.bytes \in Nat /\ r.ttl \in Nat

VARIABLES
    entries,       \* key -> [bytes, left]: the entries (left: life left)
    order,         \* keys, oldest insertion first
    size           \* Inner::size

rcVars == <<entries, order, size>>

Without(f, ks) == [k \in DOMAIN f \ ks |-> f[k]]

\* The order without a key.
Dropped(q, key) == SelectSeq(q, LAMBDA k : k # key)

RcInit == entries = <<>> /\ order = <<>> /\ size = 0

(* get: a live entry is returned, an expired one is removed.               *)
Get(key) ==
    IF key \in DOMAIN entries => entries[key].left > 0
    THEN UNCHANGED rcVars
    ELSE /\ entries' = Without(entries, {key})
         /\ order' = Dropped(order, key)
         /\ size' = size - entries[key].bytes

(* put, called by relay_uncoalesced when parse_ttl gives a lifetime: the   *)
(* old entry of the key goes, then the oldest ones until the new one fits. *)
EvictedBytes(m, q, n) == MapThenSumSet(LAMBDA i : m[q[i]].bytes, 1..n)

Evictions(m, q, used, room) ==
    CHOOSE n \in 0..Len(q) :
       /\ n = Len(q) \/ used - EvictedBytes(m, q, n) + room <= max_bytes
       /\ \A j \in 0..(n - 1) : used - EvictedBytes(m, q, j) + room > max_bytes

NotCached(r) == r.bytes = 0 \/ r.bytes > max_bytes \div MAX_ENTRY_FRACTION

NothingReplaced(key) == 0
ReplacedBytes(key) == IF key \in DOMAIN entries THEN entries[key].bytes ELSE 0

Put(key, r) ==
    /\ r.ttl > 0
    /\ IF NotCached(r)
       THEN UNCHANGED <<entries, order, size>>
       ELSE LET old  == ReplacedBytes(key)
                m    == Without(entries, {key})
                q    == Dropped(order, key)
                n    == Evictions(m, q, size - old, r.bytes)
                kept == Without(m, {q[i] : i \in 1..n})
            IN /\ entries' = [k \in DOMAIN kept \union {key} |->
                                IF k = key THEN [bytes |-> r.bytes, left |-> r.ttl] ELSE kept[k]]
               /\ order' = Append(SubSeq(q, n + 1, Len(q)), key)
               /\ size' = size - old - EvictedBytes(m, q, n) + r.bytes

(* Time passes.                                                            *)
CacheAges ==
    /\ \E k \in DOMAIN entries : entries[k].left > 0
    /\ entries' = [k \in DOMAIN entries |->
                     [entries[k] EXCEPT !.left = IF @ > 0 THEN @ - 1 ELSE 0]]
    /\ UNCHANGED <<order, size>>

RcNext ==
    \/ \E key \in CacheKeys : Get(key)
    \/ \E key \in CacheKeys, r \in Responses : Put(key, r)
    \/ CacheAges

RcSpec == RcInit /\ [][RcNext]_rcVars

-----------------------------------------------------------------------------
RcTypeOK ==
    /\ DOMAIN entries \subseteq CacheKeys
    /\ order \in Seq(CacheKeys)
    /\ size \in Nat
    /\ \A k \in DOMAIN entries : entries[k].bytes \in 1..(max_bytes \div MAX_ENTRY_FRACTION)

(* The byte count is the sum over the entries, across replacement, expiry  *)
(* and eviction, and never exceeds max_bytes: neither saturating_sub ever  *)
(* hides an error.                                                         *)
BytesAccounted ==
    /\ size = MapThenSumSet(LAMBDA k : entries[k].bytes, DOMAIN entries)
    /\ size <= max_bytes

(* The insertion order lists every entry exactly once, so eviction always  *)
(* finds what it has to remove.                                            *)
OrderIsEntries ==
    /\ {order[i] : i \in 1..Len(order)} = DOMAIN entries
    /\ Len(order) = Cardinality(DOMAIN entries)
=============================================================================
