------------------------------ MODULE MCSafety ------------------------------
(***************************************************************************)
(* Instances of the parts of which no progress is asked.  Of the client:   *)
(* the connections to the Google edge, the response cache, the routing of  *)
(* a connection, the ClientHello on its way out, the opening of a tunnel   *)
(* session, what the two ends of the tunnel find out about each other, and *)
(* signing in to Drive.  Of the tunnel-node: how it connects, its          *)
(* sessions, and the wait for their data.  They share no state: `part`     *)
(* chooses in Init which of them runs, the others keep one initial state,  *)
(* and one run explores the disjoint union of the state spaces.            *)
(*                                                                         *)
(* The bounds are the smallest at which each limit of the code is reached: *)
(* the node's pool holds two connections, one more than a host may have,   *)
(* each of its caches one destination of two, the response cache two of    *)
(* three larger responses, and the registry of sign-ins one flow of two.   *)
(***************************************************************************)
EXTENDS Transport, ResponseCache, Dispatch, HelloSplit, TunnelOpen, Negotiation,
        NodeConnect, NodeSessions, NodeWait, DriveSignIn

VARIABLE part

clientVars == <<trVars, rcVars, dpVars, hsVars, toVars, ngVars, dsVars>>
nodeVars == <<ncVars, nsVars, nwVars>>
safetyVars == <<part, clientVars, nodeVars>>

(* Two requests and one swap of the front IP: over HTTP/1.1 with the pool's*)
(* loops at work, and over HTTP/2, where the pool only takes the fallback. *)
MCTrSetups == {[http1 |-> TRUE, refill |-> TRUE], [http1 |-> FALSE, refill |-> FALSE]}

(* Responses of which one, two or none fit beside each other.              *)
MCResponses == [bytes : {1, 2, 4}, ttl : 0..2]

-----------------------------------------------------------------------------
(* Hosts of the Google edge, of YouTube (one of them on googleapis.com), a *)
(* sanctioned one, a DoH server and a foreign site.                        *)
yt == <<"youtube", "com">>
studio == <<"studio", "youtube", "com">>
apis == <<"googleapis", "com">>
yti == <<"youtubei", "googleapis", "com">>
goog == <<"google", "com">>
gem == <<"gemini", "google", "com">>
doh == <<"dns", "google", "com">>
site == <<"site", "org">>

MCSuffixes == {goog, yt, apis}
MCYoutube == {yt, yti}
MCDoh == {doh}
MCPatterns == {[host |-> yt, path |-> "x"]}

Defaults ==
    [mode |-> "apps_script", passthrough |-> {}, blockDoh |-> FALSE, bypassDoh |-> FALSE,
     group |-> {}, hosts |-> {}, direct |-> {}, youtube |-> FALSE, exitFull |-> FALSE,
     patterns |-> {}]
DirectLists == [google |-> {goog, yt, site}, sanctioned |-> {gem}]

(* All modes with the early routes, and the two modes with an edge with    *)
(* every mix of group, override, direct mode, toggles and patterns.        *)
MCConfigs ==
    {[Defaults EXCEPT !.mode = m, !.passthrough = p, !.blockDoh = b, !.bypassDoh = ~b,
                      !.direct = d] :
        m \in {"apps_script", "direct", "full", "drive", "local_bypass"}, b \in BOOLEAN,
        d \in {{}, {DirectLists}},
        p \in {{}, {[dot |-> FALSE, name |-> goog]}, {[dot |-> TRUE, name |-> goog]}}}
    \cup
    {[Defaults EXCEPT !.mode = m, !.group = g, !.hosts = h, !.direct = d, !.youtube = y,
                      !.exitFull = e, !.patterns = ps] :
        m \in {"apps_script", "direct"}, h \in {{}, {goog}, {site}}, d \in {{}, {DirectLists}},
        y \in BOOLEAN, e \in BOOLEAN,
        g \in {{}, {[domains |-> {yt}, forceIp |-> FALSE]}, {[domains |-> {goog}, forceIp |-> TRUE]}},
        ps \in {{}, {[host |-> studio, path |-> "x"]},
                {[host |-> site, path |-> "x"], [host |-> goog, path |-> "x"]}}}

MCBrowsing ==
    {[entry |-> "connect", host |-> h, port |-> 443, first |-> f, sni |-> h] :
        h \in {yt, studio, goog, gem, doh, site}, f \in {"tls", "silent"}}
    \cup {[entry |-> "socks", host |-> site, port |-> 80, first |-> f, sni |-> site] :
            f \in {"http", "other", "closed"}}
    \cup {[entry |-> "socks", host |-> <<"10">>, port |-> 443, first |-> "tls", sni |-> s] :
            s \in {yti, yt}}
    \cup {[entry |-> "connect", host |-> yt, port |-> 443, first |-> "http", sni |-> yt]}
    \cup {[entry |-> "plain", host |-> h, port |-> 80, first |-> "http", sni |-> h] :
            h \in {goog, site}}

MCCalls == [method : {"GET", "POST", "OPTIONS"}, path : {"x", "y"}]

-----------------------------------------------------------------------------
(* A ClientHello of one to three reads, with no name, a short one, one at  *)
(* the very end, and bytes of a second record behind it.                   *)
MCHellos ==
    {[record |-> r, extra |-> e, sni |-> s] : r \in {6, 9, 11}, e \in {0, 2}, s \in {{}, {5}, 4..5}}
    \cup {[record |-> 11, extra |-> 1, sni |-> s] : s \in {{8}, 6..8, 9..10}}

MCStrategies ==
    {[strategy |-> "passthrough", chunks |-> 1], [strategy |-> "equal", chunks |-> 3],
     [strategy |-> "equal", chunks |-> 20], [strategy |-> "sni", chunks |-> 3],
     [strategy |-> "sni_prefixed", chunks |-> 3]}

-----------------------------------------------------------------------------
(* A target that speaks TLS, cleartext, or lets the server begin; two      *)
(* targets, and two sessions of one, that share the negative cache.        *)
K(target, speaks) == [target |-> target, speaks |-> speaks]
MCToSetups ==
    {<<K("x", "tls")>>, <<K("x", "clear")>>, <<K("x", "server")>>,
     <<K("x", "clear"), K("y", "server")>>, <<K("x", "server"), K("x", "clear")>>}

(* Two batches that wait for one session, one of them for another as well. *)
MCNwPolls == <<{"s"}, {"s", "t"}>>

-----------------------------------------------------------------------------
(* The initial state a part keeps while another one runs.                  *)
IdleSetup == CHOOSE u \in TrSetups : TRUE
IdleHello == CHOOSE h \in Hellos : TRUE
IdleProfile == CHOOSE s \in Strategies : TRUE
IdleNode == [d \in NgScripts |-> 1]

SafetyInit ==
    /\ part \in {"transport", "cache", "dispatch", "hello", "open", "negotiation",
                 "signin", "connect", "sessions", "wait"}
    /\ TrInit /\ (part # "transport" => tr = IdleSetup)
    /\ RcInit
    /\ HsInit /\ (part # "hello" => hsHello = IdleHello /\ hsProfile = IdleProfile)
    /\ ToInit /\ (part # "open" => toSetup = <<K("x", "tls")>>)
    /\ NgInit /\ (part # "negotiation" => ngNode = IdleNode)
    /\ DsInit /\ (part # "signin" => dsSide = "desktop")
    /\ NcInit /\ NsInit /\ NwInit
    /\ DpInit /\ (part # "dispatch" => dpCfg = Defaults)

Only(p) == part = p /\ UNCHANGED part

ClientStep ==
    \/ Only("transport") /\ TrNext /\ UNCHANGED <<rcVars, dpVars, hsVars, toVars, ngVars, dsVars>>
    \/ Only("cache") /\ RcNext /\ UNCHANGED <<trVars, dpVars, hsVars, toVars, ngVars, dsVars>>
    \/ Only("dispatch") /\ DpNext /\ UNCHANGED <<trVars, rcVars, hsVars, toVars, ngVars, dsVars>>
    \/ Only("hello") /\ HsNext /\ UNCHANGED <<trVars, rcVars, dpVars, toVars, ngVars, dsVars>>
    \/ Only("open") /\ ToNext /\ UNCHANGED <<trVars, rcVars, dpVars, hsVars, ngVars, dsVars>>
    \/ Only("negotiation") /\ NgNext /\ UNCHANGED <<trVars, rcVars, dpVars, hsVars, toVars, dsVars>>
    \/ Only("signin") /\ DsNext /\ UNCHANGED <<trVars, rcVars, dpVars, hsVars, toVars, ngVars>>
NodeStep ==
    \/ Only("connect") /\ NcNext /\ UNCHANGED <<nsVars, nwVars>>
    \/ Only("sessions") /\ NsNext /\ UNCHANGED <<ncVars, nwVars>>
    \/ Only("wait") /\ NwNext /\ UNCHANGED <<ncVars, nsVars>>

SafetyNext ==
    \/ ClientStep /\ UNCHANGED nodeVars
    \/ NodeStep /\ UNCHANGED clientVars

SafetySpec == SafetyInit /\ [][SafetyNext]_safetyVars
-----------------------------------------------------------------------------
(* The contract of routing a connection: the cache's books are exact, a    *)
(* host goes where its kind and the user's choices send it, and its        *)
(* ClientHello arrives whole with the name cut.                            *)
RoutingSound ==
    /\ RcTypeOK /\ BytesAccounted /\ OrderIsEntries
    /\ DpTypeOK /\ EdgeServesHost /\ PatternsReachRelay /\ ExitNodeSeesAll /\ SanctionedRelayed
    /\ BlockDohHolds /\ UnsafeForwardedOnce
    /\ HsTypeOK /\ HelloArrivesWhole /\ NameIsSplit

(* The contract of opening a session: nothing is said twice, one server is *)
(* heard, what was opened is released, only the node's own answers condemn *)
(* a target, and what two versions found out about each other is true.     *)
OpeningSound ==
    /\ ToTypeOK /\ CleartextOnce /\ OneServerSpeaks /\ KnownSessionsReleased /\ OnlyTheNodeCondemns
    /\ NgTypeOK /\ AppliedOnce /\ CapabilitiesTrue

(* The contract of the tunnel-node: its pool and caches are counted and    *)
(* bounded, a datagram is delivered once, no reader is orphaned, no        *)
(* session in use is reaped and no wake-up is lost.                        *)
NodeSound ==
    /\ NcTypeOK /\ PoolCounted /\ PoolBounded /\ CachesBounded
    /\ NsTypeOK /\ FreshestOnce /\ ReaderOwned /\ WaitedForNotReaped
    /\ NwTypeOK /\ NoLostWakeup

(* What no step does: take a good connection down, end a long poll with    *)
(* nothing to deliver, or sign the user out without a cause.               *)
SafetySteps == [][GoodCellSurvives /\ HeldForData /\ SignOutHasCause]_safetyVars
=============================================================================
