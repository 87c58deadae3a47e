---------------------------- MODULE LocalBypass -----------------------------
(***************************************************************************)
(* The local_bypass mode of direct_mode.rs: try_local_bypass_tunnel dials  *)
(* the real destination with the browser's ClientHello split by a profile, *)
(* remembers process-wide which profile won last, and keeps for every host *)
(* a breaker entry with one strike count per profile.                      *)
(*                                                                         *)
(* The network is the set of profiles that get a ServerHello out of each   *)
(* host; it changes at most MaxChanges times.  The strike and failure      *)
(* counters are only ever compared with their thresholds and stop there.   *)
(***************************************************************************)
EXTENDS Naturals, Sequences, FiniteSets, SequencesExt

CONSTANTS
    LbSetups,          \* [hosts, conns, changes]: what one behaviour exercises
    PROFILES,          \* the profile ids, in declaration order
    Passthrough,       \* the ids whose strategy is Passthrough
    DEFAULT_PROFILE,   \* DEFAULT_PROFILE_ID
    BREAKER_THRESHOLD, \* LOCAL_BYPASS_BREAKER_THRESHOLD
    BREAKER_COOLDOWN,  \* LOCAL_BYPASS_BREAKER_COOLDOWN
    MAX_ENTRIES,       \* LOCAL_BYPASS_BREAKER_MAX_ENTRIES
    STRIKE_THRESHOLD,  \* LOCAL_BYPASS_PROFILE_STRIKE_THRESHOLD
    PROFILE_FLOOR      \* LOCAL_BYPASS_PROFILE_FLOOR

VARIABLES
    lbSetup,
    lbWorks,     \* host -> profiles that get a ServerHello from it now
    lbChanges,   \* how often the network has changed
    lbLast,      \* LOCAL_BYPASS_LAST_WINNER: an index, 0 for the sentinel
    lbMap,       \* LOCAL_BYPASS_BREAKER_MAP
    lbConn       \* connection -> where its try_local_bypass_tunnel is

lbVars == <<lbSetup, lbWorks, lbChanges, lbLast, lbMap, lbConn>>

LbHosts == lbSetup.hosts
LbConns == 1..lbSetup.conns
Fragmenting == Range(PROFILES) \ Passthrough
NoProfile == "none"

\* LocalBypassBreakerEntry::new
LbNewEntry == [failures |-> 0, until |-> 0, fails |-> [p \in Fragmenting |-> 0]]
LbIdle == [pc |-> "idle", host |-> "none", allowed |-> {}, pref |-> NoProfile, winner |-> NoProfile]

LbInit ==
    /\ lbSetup \in LbSetups
    /\ lbWorks \in [lbSetup.hosts -> SUBSET Fragmenting]
    /\ lbChanges = 0
    /\ lbLast = 0
    /\ lbMap = <<>>
    /\ lbConn = [c \in 1..lbSetup.conns |-> LbIdle]

-----------------------------------------------------------------------------
(* The breaker map.  Every function below runs under its mutex.            *)

LbCapped(n, cap) == IF n < cap THEN n + 1 ELSE n
LbTripped(h) == h \in DOMAIN lbMap /\ lbMap[h].until > 0
LbOnly(map, keys) == [k \in keys |-> map[k]]

\* evict_if_at_cap: the entries whose cooldown is not running go first, then the one nearest expiry.
EvictIfAtCap(map, h) ==
    LET live == {k \in DOMAIN map : map[k].until > 0}
        oldest == CHOOSE k \in live : \A j \in live : map[k].until <= map[j].until
    IN IF Cardinality(DOMAIN map) < MAX_ENTRIES \/ h \in DOMAIN map THEN map
       ELSE IF Cardinality(live) >= MAX_ENTRIES THEN LbOnly(map, live \ {oldest})
       ELSE LbOnly(map, live)

\* The strikes and the host breaker of one entry after a dial.
LbOutcome(e, failed, winner) ==
    LET struck == [p \in Fragmenting |->
                     IF p = winner THEN 0
                     ELSE IF p \in failed THEN LbCapped(e.fails[p], STRIKE_THRESHOLD)
                     ELSE e.fails[p]]
        n == LbCapped(e.failures, BREAKER_THRESHOLD)
    IN IF winner # NoProfile THEN [failures |-> 0, until |-> 0, fails |-> struck]
       ELSE [failures |-> n, fails |-> struck,
             until |-> IF n >= BREAKER_THRESHOLD THEN BREAKER_COOLDOWN ELSE e.until]

\* local_bypass_note_dial_outcome, with the removal of an entry that holds nothing.
NoteDialOutcome(h, failed, winner) ==
    LET kept == EvictIfAtCap(lbMap, h)
        new == LbOutcome(IF h \in DOMAIN kept THEN kept[h] ELSE LbNewEntry, failed, winner)
    IN lbMap' = IF new = LbNewEntry THEN LbOnly(kept, DOMAIN kept \ {h})
                ELSE [k \in DOMAIN kept \cup {h} |-> IF k = h THEN new ELSE kept[k]]

\* available_profile_ids: the profiles not struck out, or all of them when too few are left.
AvailableProfiles(h) ==
    LET left == {p \in Fragmenting : h \in DOMAIN lbMap => lbMap[h].fails[p] < STRIKE_THRESHOLD}
    IN IF Cardinality(left) < PROFILE_FLOOR THEN Fragmenting ELSE left

\* local_bypass_preferred_profile, and what it falls back to when it is struck out for this host.
PreferredProfile(allowed) ==
    LET global == IF lbLast # 0 /\ PROFILES[lbLast] \in Fragmenting THEN PROFILES[lbLast]
                  ELSE DEFAULT_PROFILE
        first == CHOOSE i \in 1..Len(PROFILES) :
                     PROFILES[i] \in allowed /\ \A j \in 1..(i - 1) : PROFILES[j] \notin allowed
    IN IF global \in allowed THEN global
       ELSE IF DEFAULT_PROFILE \in allowed THEN DEFAULT_PROFILE ELSE PROFILES[first]

-----------------------------------------------------------------------------
(* One connection.  A socket whose first byte is not TLS is handed back    *)
(* untouched, and one whose ClientHello never completes is dropped: both   *)
(* leave everything here as it was.                                        *)

LbGo(c, rec) == lbConn' = [lbConn EXCEPT ![c] = rec]
LbUnchanged == UNCHANGED <<lbSetup, lbWorks, lbChanges>>

LbHello(c, h) ==
    /\ lbConn[c].pc = "idle"
    /\ LbGo(c, [LbIdle EXCEPT !.pc = "check", !.host = h])
    /\ UNCHANGED <<lbLast, lbMap>> /\ LbUnchanged

\* local_bypass_breaker_tripped: straight to the raw fallback while the host cools down.
LbCheck(c) ==
    /\ lbConn[c].pc = "check"
    /\ LbGo(c, [lbConn[c] EXCEPT !.pc = IF LbTripped(lbConn[c].host) THEN "raw" ELSE "pick"])
    /\ UNCHANGED <<lbLast, lbMap>> /\ LbUnchanged

LbPick(c) ==
    LET allowed == AvailableProfiles(lbConn[c].host) IN
    /\ lbConn[c].pc = "pick"
    /\ LbGo(c, [lbConn[c] EXCEPT !.pc = "fast", !.allowed = allowed,
                                 !.pref = PreferredProfile(allowed)])
    /\ UNCHANGED <<lbLast, lbMap>> /\ LbUnchanged

\* The fast path: one dial with the preferred profile.
LbFast(c) ==
    LET conn == lbConn[c]
        win == conn.pref \in lbWorks[conn.host] IN
    /\ conn.pc = "fast"
    /\ LbGo(c, [conn EXCEPT !.pc = IF win THEN "won" ELSE "race",
                            !.winner = IF win THEN conn.pref ELSE NoProfile])
    /\ UNCHANGED <<lbLast, lbMap>> /\ LbUnchanged

Racers(c) == lbConn[c].allowed \ {lbConn[c].pref}

\* The race: the first ServerHello wins and the other dials are cancelled.
LbRaceWon(c, p) ==
    /\ lbConn[c].pc = "race"
    /\ p \in Racers(c) \cap lbWorks[lbConn[c].host]
    /\ LbGo(c, [lbConn[c] EXCEPT !.pc = "won", !.winner = p])
    /\ UNCHANGED <<lbLast, lbMap>> /\ LbUnchanged

\* local_bypass_remember: only a fragmenting profile is kept.
LbRemember(c) ==
    LET p == lbConn[c].winner IN
    /\ lbConn[c].pc = "won"
    /\ lbLast' = IF p \in Fragmenting THEN CHOOSE i \in 1..Len(PROFILES) : PROFILES[i] = p
                 ELSE lbLast
    /\ LbGo(c, [lbConn[c] EXCEPT !.pc = "note"])
    /\ UNCHANGED lbMap /\ LbUnchanged

\* Only the profile of the failed fast path is struck: what became of the cancelled ones is unknown.
\* (Mutant: whoever did not win is struck.)
AllLosers(conn) == conn.allowed \ {conn.winner}
Blamed(conn) == {conn.pref} \ {conn.winner}

LbNoteWin(c) ==
    LET conn == lbConn[c] IN
    /\ conn.pc = "note"
    /\ NoteDialOutcome(conn.host, Blamed(conn), conn.winner)
    /\ LbGo(c, [conn EXCEPT !.pc = "spliced"])
    /\ UNCHANGED lbLast /\ LbUnchanged

\* Nobody won: every profile that ran is struck, the host breaker counts, and the buffered
\* ClientHello is replayed unfragmented on a fresh connection.
LbRaceLost(c) ==
    LET conn == lbConn[c] IN
    /\ conn.pc = "race"
    /\ Racers(c) \cap lbWorks[conn.host] = {}
    /\ NoteDialOutcome(conn.host, {conn.pref} \cup Racers(c), NoProfile)
    /\ LbGo(c, [conn EXCEPT !.pc = "raw"])
    /\ UNCHANGED lbLast /\ LbUnchanged

LbClose(c) ==
    /\ lbConn[c].pc \in {"spliced", "raw"}
    /\ LbGo(c, LbIdle)
    /\ UNCHANGED <<lbLast, lbMap>> /\ LbUnchanged

LbDialStep(c) ==
    \/ LbCheck(c) \/ LbPick(c) \/ LbFast(c)
    \/ \E p \in Fragmenting : LbRaceWon(c, p)
    \/ LbRemember(c) \/ LbNoteWin(c) \/ LbRaceLost(c) \/ LbClose(c)

LbTick ==
    /\ \E h \in DOMAIN lbMap : lbMap[h].until > 0
    /\ lbMap' = [h \in DOMAIN lbMap |->
                   [lbMap[h] EXCEPT !.until = IF @ = 0 THEN 0 ELSE @ - 1]]
    /\ UNCHANGED <<lbLast, lbConn>> /\ LbUnchanged

\* The censor's equipment starts or stops letting a profile through.
NetworkChanges(h) ==
    /\ lbChanges < lbSetup.changes
    /\ lbChanges' = lbChanges + 1
    /\ \E works \in SUBSET Fragmenting \ {lbWorks[h]} : lbWorks' = [lbWorks EXCEPT ![h] = works]
    /\ UNCHANGED <<lbSetup, lbLast, lbMap, lbConn>>

LbTraffic == \E c \in LbConns : LbDialStep(c) \/ \E h \in LbHosts : LbHello(c, h)
LbNext ==
    \/ LbTraffic
    \/ LbTick
    \/ \E h \in LbHosts : NetworkChanges(h)

\* Dials are timed, the clock runs, and applications go on opening connections.
LbFairness == WF_lbVars(LbTraffic) /\ WF_lbVars(LbTick)

LbSpec == LbInit /\ [][LbNext]_lbVars /\ LbFairness

-----------------------------------------------------------------------------
(* Properties. *)

\* Type invariant, with the cap on the map (LOCAL_BYPASS_BREAKER_MAX_ENTRIES).
LbTypeOK ==
    /\ DOMAIN lbMap \subseteq LbHosts /\ Cardinality(DOMAIN lbMap) <= MAX_ENTRIES
    /\ \A h \in DOMAIN lbMap : lbMap[h] # LbNewEntry /\ lbMap[h].until \in 0..BREAKER_COOLDOWN
    /\ lbLast \in 0..Len(PROFILES)
    /\ \A c \in LbConns : lbConn[c].pref \in Fragmenting \cup {NoProfile}

\* A host that answers some profile all along is never served unfragmented, and that profile is
\* never struck: losing a race to a faster profile, the strikes of connections that run at the same
\* time and the eviction of other hosts' entries do not count against it.
WorkingProfileKept ==
    lbChanges = 0 =>
        /\ \A c \in LbConns : lbConn[c].pc = "raw" => lbWorks[lbConn[c].host] = {}
        /\ \A h \in DOMAIN lbMap : \A p \in lbWorks[h] : lbMap[h].fails[p] = 0

\* What the network lets through after a change is found again, although it was struck out before:
\* the floor readmits it and the breaker lets a connection try once the cooldown is over.
Bypasses ==
    \/ \E h \in LbHosts : lbWorks[h] = {}
    \/ \E c \in LbConns : lbConn[c].pc = "spliced"
=============================================================================
