----------------------------- MODULE DirectMode -----------------------------
(***************************************************************************)
(* Direct mode for Google hosts (direct_mode.rs): try_tunnel dials a front *)
(* with a fragmentation profile, first the remembered pair alone and then  *)
(* every other pair at once; DirectModeCtx holds the circuit breaker, two  *)
(* relaxed atomics, and CandidateCache the remembered pair, mirrored to a  *)
(* file by blocking tasks that nothing orders.                             *)
(*                                                                         *)
(* A restart reads the file back, possibly under another list of fronts.   *)
(***************************************************************************)
EXTENDS Naturals, Sequences, FiniteSets, SequencesExt

CONSTANTS
    DmSetups,             \* [conns, lists, restarts]: connections at a time, the values
                          \* direct_mode.fronts takes, restarts
    DmProfiles,           \* ids of PROFILES
    DM_DEFAULT,           \* DEFAULT_PROFILE_ID
    DM_THRESHOLD,         \* CIRCUIT_BREAKER_THRESHOLD
    DM_COOLDOWN           \* CIRCUIT_BREAKER_COOLDOWN

VARIABLES
    dmSetup,
    dmFronts,     \* ctx.fronts
    dmCand,       \* CandidateCache.current: {} or one pair
    dmFile,       \* direct_candidate.txt: {}, one pair, or Unreadable
    dmWrites,     \* writes handed to spawn_blocking and not begun
    dmOpenFile,   \* writes that have truncated the file and not written it yet
    dmFailures,   \* consecutive_failures
    dmUntil,      \* breaker_until, as the time left
    dmConn,       \* connection -> where its try_tunnel is
    dmRestarts

dmVars == <<dmSetup, dmFronts, dmCand, dmFile, dmWrites, dmOpenFile, dmFailures, dmUntil, dmConn,
            dmRestarts>>

DmConns == 1..dmSetup.conns
FrontLists == dmSetup.lists
Pairs(fronts) == Range(fronts) \X DmProfiles
AllPairs == UNION {Pairs(f) : f \in FrontLists}
Unreadable == {<<"unreadable", "unreadable">>}
DmIdle == [pc |-> "idle", dials |-> {}, streak |-> 0]

DmInit ==
    /\ dmSetup \in DmSetups
    /\ dmFronts \in dmSetup.lists
    /\ dmFile \in {{}} \cup {{p} : p \in AllPairs}
    /\ dmCand = dmFile
    /\ dmWrites = {} /\ dmOpenFile = {}
    /\ dmFailures = 0 /\ dmUntil = 0
    /\ dmConn = [c \in DmConns |-> DmIdle]
    /\ dmRestarts = 0

-----------------------------------------------------------------------------
DmGo(c, pc) == dmConn' = [dmConn EXCEPT ![c].pc = pc]
CacheUnchanged == UNCHANGED <<dmSetup, dmFronts, dmCand, dmFile, dmWrites, dmOpenFile, dmRestarts>>
BreakerUnchanged == UNCHANGED <<dmFailures, dmUntil>>
BreakerTripped == dmUntil > 0

\* is_direct in the dispatcher: a Google host is taken while the breaker is closed.
DmAccept(c) ==
    /\ dmConn[c].pc = "idle" /\ ~BreakerTripped
    /\ DmGo(c, "entry")
    /\ CacheUnchanged /\ BreakerUnchanged

\* try_tunnel up to the ClientHello: a breaker that tripped meanwhile or a first byte that is not
\* TLS hands the socket back (Skip); a ClientHello that never completes drops it (Done).
DmEntry(c) ==
    /\ dmConn[c].pc = "entry"
    /\ IF BreakerTripped THEN DmGo(c, "skip") ELSE \E to \in {"skip", "hello"} : DmGo(c, to)
    /\ CacheUnchanged /\ BreakerUnchanged

\* (Mutant: the remembered pair is dialled whatever the configuration says.)
RememberedPair ==
    IF dmCand # {} THEN CHOOSE p \in dmCand : TRUE ELSE <<dmFronts[1], DM_DEFAULT>>

\* dial_with_validation, the fast path: the remembered pair when its front is still configured.
FastPair ==
    LET known == {p \in dmCand : p[1] \in Range(dmFronts)}
    IN IF known # {} THEN CHOOSE p \in known : TRUE ELSE <<dmFronts[1], DM_DEFAULT>>

DmHello(c) ==
    /\ dmConn[c].pc = "hello"
    /\ \/ DmGo(c, "done")
       \/ dmFronts = <<>> /\ DmGo(c, "failed")
       \/ /\ dmFronts # <<>>
          /\ dmConn' = [dmConn EXCEPT ![c] = [DmIdle EXCEPT !.pc = "fast", !.dials = {FastPair}]]
    /\ CacheUnchanged /\ BreakerUnchanged

\* One of the pairs being dialled gets a handshake record within its time.
DmValidated(c) ==
    /\ dmConn[c].pc \in {"fast", "race"}
    /\ \E p \in dmConn[c].dials :
          dmConn' = [dmConn EXCEPT ![c] = [DmIdle EXCEPT !.pc = "won", !.dials = {p}]]
    /\ CacheUnchanged /\ BreakerUnchanged

\* The fast path fails: every other pair is raced.
DmFastFailed(c) ==
    LET rest == Pairs(dmFronts) \ dmConn[c].dials IN
    /\ dmConn[c].pc = "fast"
    /\ dmConn' = [dmConn EXCEPT ![c] = [DmIdle EXCEPT !.pc = "race", !.dials = rest]]
    /\ CacheUnchanged /\ BreakerUnchanged

DmRaceFailed(c) ==
    /\ dmConn[c].pc = "race"
    /\ DmGo(c, "failed")
    /\ CacheUnchanged /\ BreakerUnchanged

\* note_success, one store at a time.
DmNoteSuccess1(c) ==
    /\ dmConn[c].pc = "won"
    /\ dmFailures' = 0 /\ DmGo(c, "won1")
    /\ CacheUnchanged /\ UNCHANGED dmUntil

DmNoteSuccess2(c) ==
    /\ dmConn[c].pc = "won1"
    /\ dmUntil' = 0 /\ DmGo(c, "won2")
    /\ CacheUnchanged /\ UNCHANGED dmFailures

\* CandidateCache::remember: nothing when the pair is the current one; the splice follows.
DmRemember(c) ==
    LET pair == dmConn[c].dials IN
    /\ dmConn[c].pc = "won2"
    /\ dmCand' = pair
    /\ dmWrites' = IF dmCand = pair THEN dmWrites ELSE dmWrites \cup pair
    /\ DmGo(c, "done")
    /\ BreakerUnchanged /\ UNCHANGED <<dmSetup, dmFronts, dmFile, dmOpenFile, dmRestarts>>

\* note_failure: fetch_add, then arm the breaker when the streak it saw is long enough; the
\* dispatcher gets the socket back behind the buffered ClientHello (SkipPrefaced).
DmNoteFailure1(c) ==
    LET n == IF dmFailures < DM_THRESHOLD THEN dmFailures + 1 ELSE dmFailures IN
    /\ dmConn[c].pc = "failed"
    /\ dmFailures' = n
    /\ dmConn' = [dmConn EXCEPT ![c] = [DmIdle EXCEPT !.pc = "failed1", !.streak = n]]
    /\ CacheUnchanged /\ UNCHANGED dmUntil

Armed == DM_COOLDOWN

DmNoteFailure2(c) ==
    /\ dmConn[c].pc = "failed1"
    /\ dmUntil' = IF dmConn[c].streak >= DM_THRESHOLD THEN Armed ELSE dmUntil
    /\ DmGo(c, "prefaced")
    /\ CacheUnchanged /\ UNCHANGED dmFailures

DmClose(c) ==
    /\ dmConn[c].pc \in {"skip", "done", "prefaced"}
    /\ dmConn' = [dmConn EXCEPT ![c] = DmIdle]
    /\ CacheUnchanged /\ BreakerUnchanged

DmConnStep(c) ==
    \/ DmEntry(c) \/ DmHello(c) \/ DmValidated(c) \/ DmFastFailed(c) \/ DmRaceFailed(c)
    \/ DmNoteSuccess1(c) \/ DmNoteSuccess2(c) \/ DmRemember(c)
    \/ DmNoteFailure1(c) \/ DmNoteFailure2(c) \/ DmClose(c)

\* std::fs::write truncates and then writes; two of them may overlap and leave a mix of both.
DmTruncate ==
    /\ \E w \in dmWrites :
          dmWrites' = dmWrites \ {w} /\ dmOpenFile' = dmOpenFile \cup {w}
    /\ dmFile' = {}
    /\ BreakerUnchanged /\ UNCHANGED <<dmSetup, dmFronts, dmCand, dmConn, dmRestarts>>

DmWrite ==
    /\ \E w \in dmOpenFile :
          /\ dmOpenFile' = dmOpenFile \ {w}
          /\ dmFile' \in {{w}} \cup (IF dmFile = {} THEN {} ELSE {Unreadable})
    /\ BreakerUnchanged /\ UNCHANGED <<dmSetup, dmFronts, dmCand, dmWrites, dmConn, dmRestarts>>

DmTick ==
    /\ dmUntil > 0 /\ dmUntil' = dmUntil - 1
    /\ CacheUnchanged /\ UNCHANGED <<dmFailures, dmConn>>

\* The process ends at any point and comes back, perhaps with other fronts (CandidateCache::new
\* reads the file; what does not parse is ignored).
DmRestart ==
    /\ dmRestarts < dmSetup.restarts /\ dmRestarts' = dmRestarts + 1
    /\ dmFronts' \in FrontLists
    /\ dmCand' = IF dmFile = Unreadable THEN {} ELSE dmFile
    /\ dmWrites' = {} /\ dmOpenFile' = {}
    /\ dmFailures' = 0 /\ dmUntil' = 0
    /\ dmConn' = [c \in DmConns |-> DmIdle]
    /\ UNCHANGED <<dmSetup, dmFile>>

DmNext ==
    \/ \E c \in DmConns : DmAccept(c) \/ DmConnStep(c)
    \/ DmTruncate \/ DmWrite \/ DmTick \/ DmRestart

\* Dials and reads are timed and the clock runs; browsers open connections when they like.
DmFairness == WF_dmVars(\E c \in DmConns : DmConnStep(c)) /\ WF_dmVars(DmTick)

DmSpec == DmInit /\ [][DmNext]_dmVars /\ DmFairness

-----------------------------------------------------------------------------
(* Properties. *)

\* Type invariant.
DmTypeOK ==
    /\ dmFronts \in FrontLists
    /\ dmCand \in {{}} \cup {{p} : p \in AllPairs}
    /\ dmFile \in {{}, Unreadable} \cup {{p} : p \in AllPairs}
    /\ dmFailures \in 0..DM_THRESHOLD /\ dmUntil \in 0..DM_COOLDOWN
    /\ \A c \in DmConns : dmConn[c].pc \in {"fast", "race"} => dmConn[c].dials \subseteq AllPairs

\* Whatever the candidate file holds, from another configuration, from a crash in the middle of a
\* write or from two writes at once, only fronts the user configured are dialled.
DialsConfiguredFronts ==
    \A c \in DmConns : \A p \in dmConn[c].dials : p[1] \in Range(dmFronts)

\* A tripped breaker opens again: the connections that were already past its check can re-arm it,
\* but no new ones get in, so the cooldown runs out.
BreakerAdmits == dmUntil = 0
=============================================================================
