------------------------------ MODULE Dispatch ------------------------------
(***************************************************************************)
(* Where a browser's connection goes (proxy_server.rs): the routing that   *)
(* is resolved from the configuration, dispatch_tunnel with the fallbacks  *)
(* that run one after the other on the same socket, plain HTTP requests,   *)
(* and the choice handle_mitm_request makes for every decrypted request.   *)
(*                                                                         *)
(* A host is the sequence of its labels, so a domain covers the hosts it   *)
(* is a suffix of; case, ports in names and trailing dots are normalised   *)
(* away by every matcher.  A path is the one prefix a pattern may name.    *)
(***************************************************************************)
EXTENDS Naturals, Sequences, FiniteSets, SequencesExt

CONSTANTS
    Configs,                \* the configurations explored, records as in DpInit
    Browsing,               \* the requests: [entry, host, port, first, sni]; entry is connect
                            \* or plain (HTTP proxy) or socks
    Calls,                  \* requests inside TLS: [method, path]
    SNI_REWRITE_SUFFIXES, YOUTUBE_RELAY_HOSTS, DEFAULT_DOH_HOSTS,
    DEFAULT_PATTERNS,       \* DEFAULT_RELAY_URL_PATTERNS: [host, path]
    CAMOUFLAGE_COOLDOWN     \* CAMOUFLAGE_BREAKER_COOLDOWN

VARIABLES
    dpCfg,      \* [mode, passthrough, blockDoh, bypassDoh, group, hosts, direct, youtube, exitFull,
                \*  patterns]; group and direct are sets of at most one record
    dpCool,     \* time left on the camouflage breaker of the fronting group
    dpReq,      \* the connection being dispatched
    dpAt,       \* the stage it is in
    dpSock,     \* fresh, prefaced (ClientHello buffered in front of it), or taken
    dpRoute,    \* who serves it, "none" so far
    dpSends     \* destinations the last decrypted request was sent to, in order

dpVars == <<dpCfg, dpCool, dpReq, dpAt, dpSock, dpRoute, dpSends>>

-----------------------------------------------------------------------------
(* The matchers and ResolvedRouting::from_config. *)

\* is_dot_anchored_match, domain_list_matches, host_in_force_mitm_list and their like.
Under(host, domains) == \E d \in domains : IsSuffix(d, host)

MatchesPassthrough(host) ==
    \E e \in dpCfg.passthrough : IF e.dot THEN IsSuffix(e.name, host) ELSE e.name = host

ExitFull == dpCfg.exitFull /\ dpCfg.mode = "apps_script"
YoutubeViaRelay == dpCfg.youtube \/ ExitFull

\* Patterns exist only where there is a relay; the ones YouTube's own toggle covers are dropped.
RelayUrlPatterns ==
    IF dpCfg.mode # "apps_script" THEN {}
    ELSE (IF YoutubeViaRelay THEN {} ELSE DEFAULT_PATTERNS)
         \cup {p \in dpCfg.patterns : ~(YoutubeViaRelay /\ Under(p.host, YOUTUBE_RELAY_HOSTS))}

\* Only hosts of the Google edge may be pulled out of the SNI rewrite.
ForceMitmHosts == {p.host : p \in {q \in RelayUrlPatterns : Under(q.host, SNI_REWRITE_SUFFIXES)}}

UrlMatchesPattern(host, path) ==
    \E p \in RelayUrlPatterns : IsSuffix(p.host, host) /\ p.path \in {"/", path}

MatchesSniRewrite(host) ==
    /\ ~(YoutubeViaRelay /\ Under(host, YOUTUBE_RELAY_HOSTS))
    /\ ~Under(host, ForceMitmHosts)
    /\ Under(host, SNI_REWRITE_SUFFIXES)

HostsOverride(host) == Under(host, dpCfg.hosts)

\* (Mutant: an override of the user's wins over a pattern.)
OverrideFirst(host, port) == port = 443 /\ (MatchesSniRewrite(host) \/ HostsOverride(host))
ShouldUseSniRewrite(host, port) ==
    /\ port = 443
    /\ ~Under(host, ForceMitmHosts)
    /\ MatchesSniRewrite(host) \/ HostsOverride(host)

\* is_google_domain and is_sanctioned of the direct-mode context.
IsGoogleDomain(host) ==
    \E d \in dpCfg.direct : ~Under(host, d.sanctioned) /\ Under(host, d.google)
IsSanctioned(host) == \E d \in dpCfg.direct : Under(host, d.sanctioned)

ShouldTakeDirectMode(host, port) ==
    /\ port = 443
    /\ ~Under(host, ForceMitmHosts)
    /\ ~(YoutubeViaRelay /\ Under(host, YOUTUBE_RELAY_HOSTS))
    /\ ~HostsOverride(host)
    /\ IsGoogleDomain(host)
    /\ MatchesSniRewrite(host)

DohHost(host) == Under(host, DEFAULT_DOH_HOSTS)

EarlyRoute(host, port) ==
    CASE MatchesPassthrough(host) -> "passthrough"
      [] dpCfg.blockDoh /\ port = 443 /\ DohHost(host) -> "blocked"
      [] dpCfg.mode = "local_bypass" -> "local_bypass"
      [] dpCfg.bypassDoh /\ port = 443 /\ DohHost(host) -> "bypass_doh"
      [] dpCfg.mode = "drive" -> "drive"
      [] dpCfg.mode = "full" -> "full"
      [] OTHER -> "continue"

MatchFrontingGroup(host) == {g \in dpCfg.group : Under(host, g.domains)}

DpInit ==
    /\ dpCfg \in Configs
    /\ dpCool = 0
    /\ dpReq \in {CHOOSE r \in Browsing : TRUE}
    /\ dpAt = "idle" /\ dpSock = "fresh" /\ dpRoute = "none" /\ dpSends = <<>>

-----------------------------------------------------------------------------
(* One connection at a time goes through the stages. *)

Stage(to) == dpAt' = to /\ UNCHANGED <<dpCfg, dpReq, dpSock, dpRoute, dpSends>>
Settle(route, sock) ==
    /\ dpAt' = "settled" /\ dpRoute' = route /\ dpSock' = sock
    /\ UNCHANGED <<dpCfg, dpReq, dpSends>>
Serve(route) ==
    /\ dpAt' = "serving" /\ dpRoute' = route /\ dpSock' = "taken"
    /\ UNCHANGED <<dpCfg, dpReq, dpSends>>

\* The client has said what it wants.  A target the tunnel node just called unreachable is refused
\* when there is a mux to know of it.
Arrives(r, at, route) ==
    /\ dpAt = "idle"
    /\ dpReq' = r /\ dpSock' = "fresh" /\ dpRoute' = route /\ dpSends' = <<>>
    /\ dpAt' = at
    /\ UNCHANGED <<dpCfg, dpCool>>

\* handle_http_client.
HttpClient(r) ==
    \/ r.entry = "connect" /\ Arrives(r, "early", "none")
    \/ r.entry = "connect" /\ dpCfg.mode = "full" /\ Arrives(r, "settled", "refused")
    \/ r.entry = "plain" /\ Arrives(r, "plain", "none")

\* handle_socks5_client, for CONNECT (UDP ASSOCIATE is the module UdpAssociate).
SocksClient(r) ==
    \/ r.entry = "socks" /\ Arrives(r, "early", "none")
    \/ r.entry = "socks" /\ dpCfg.mode = "full" /\ Arrives(r, "settled", "refused")

\* The early routes; local_bypass hands a socket that is not TLS to the raw passthrough.
EarlyTunnel ==
    LET route == EarlyRoute(dpReq.host, dpReq.port) IN
    /\ dpAt = "early"
    /\ route \in {"full", "drive"}
    /\ Settle(route, "taken")
    /\ UNCHANGED dpCool

Early ==
    LET route == EarlyRoute(dpReq.host, dpReq.port) IN
    /\ dpAt = "early"
    /\ route \notin {"full", "drive"}
    /\ CASE route = "continue" -> Stage("group")
         [] route = "local_bypass" ->
              Settle(IF dpReq.first = "tls" THEN "fragmented" ELSE "raw", "taken")
         [] OTHER -> Settle(route, "taken")
    /\ UNCHANGED dpCool

\* A pinned fronting group takes the connection; a force_ip group must first be resolved over DoH.
Group ==
    LET groups == IF dpReq.port = 443 THEN MatchFrontingGroup(dpReq.host) ELSE {} IN
    /\ dpAt = "group"
    /\ IF groups = {} THEN Stage("direct")
       ELSE IF \E g \in groups : ~g.forceIp THEN Settle("group", "taken")
       ELSE IF dpCool > 0 THEN Stage("direct")
       ELSE \E to \in {"direct", "camouflage"} : Stage(to)
    /\ UNCHANGED dpCool

\* do_camouflage_tunnel up to its dials: the breaker is read again, the ClientHello only peeked at.
CamouflageDial ==
    /\ dpAt = "camouflage"
    /\ \/ dpCool > 0 /\ Stage("direct") /\ UNCHANGED dpCool
       \/ dpCool = 0 /\ Stage("direct") /\ dpCool' = CAMOUFLAGE_COOLDOWN
       \/ dpCool = 0 /\ Stage("camouflage_cert") /\ dpCool' = 0

\* An upstream answered: the certificate may still fail, before the browser's handshake begins.
CamouflageCert ==
    /\ dpAt = "camouflage_cert"
    /\ \/ Stage("direct")
       \/ Settle("camouflage", "taken")
    /\ UNCHANGED dpCool

\* The direct-mode branch.  Its breaker may hold it back, it declines what is not TLS without
\* reading, and when no front answers the ClientHello it read goes to the SNI rewrite as a preface.
Direct ==
    LET h == dpReq.host
        p == dpReq.port IN
    /\ dpAt = "direct"
    /\ \/ Stage("sni")
       \/ /\ ShouldTakeDirectMode(h, p) /\ dpReq.first = "tls"
          /\ Settle("sni", "prefaced") \/ Settle("direct", "taken")
    /\ UNCHANGED dpCool

\* The SNI rewrite, unless the host is sanctioned and a relay exists.
KeptForRelay(host) == dpCfg.mode = "apps_script" /\ IsSanctioned(host)

SniRewrite ==
    /\ dpAt = "sni"
    /\ IF ~KeptForRelay(dpReq.host) /\ ShouldUseSniRewrite(dpReq.host, dpReq.port) THEN Settle("sni", "taken")
       ELSE IF dpCfg.mode = "direct" THEN Settle("raw", "taken")
       ELSE Stage("peek")
    /\ UNCHANGED dpCool

\* The relay, chosen by what the client sends first.
Peek ==
    /\ dpAt = "peek"
    /\ CASE dpReq.first = "tls" -> Serve("mitm")
         [] dpReq.first = "http" -> Serve("http")
         [] dpReq.first = "closed" -> Settle("dropped", "taken")
         [] OTHER -> Settle("raw", "taken")
    /\ UNCHANGED dpCool

\* A plain HTTP request to the proxy: drive mode asks the early routes, the modes with a fronter
\* relay it (or answer an OPTIONS), the others pass it on.
PlainHttpDrive ==
    /\ dpAt = "plain" /\ dpCfg.mode = "drive"
    /\ Settle(EarlyRoute(dpReq.host, dpReq.port), "taken")
    /\ UNCHANGED dpCool

PlainHttpRelay ==
    /\ dpAt = "plain" /\ dpCfg.mode \in {"apps_script", "full"}
    /\ Settle("relay", "taken")
    /\ UNCHANGED dpCool

PlainHttpPassthrough ==
    /\ dpAt = "plain" /\ dpCfg.mode \notin {"drive", "apps_script", "full"}
    /\ Settle("raw", "taken")
    /\ UNCHANGED dpCool

-----------------------------------------------------------------------------
(* handle_mitm_request, once for every request of a connection that is     *)
(* terminated here.  The host is the one the TLS handshake names.          *)

EffectiveHost == IF dpRoute = "mitm" THEN dpReq.sni ELSE dpReq.host

SafeToForward(call) == call.method \in {"GET", "HEAD"}

ExitTakesAll == ExitFull

ForwarderEligible(call) ==
    /\ dpReq.port = 443
    /\ SafeToForward(call)
    /\ ~ExitTakesAll
    /\ RelayUrlPatterns # {}
    /\ Under(EffectiveHost, ForceMitmHosts)
    /\ ~UrlMatchesPattern(EffectiveHost, call.path)

\* OPTIONS is answered here.  A forwarded request closes the connection; one that could not be
\* forwarded is relayed.
Request(call) ==
    LET sent(to) == dpSends' = [i \in DOMAIN to |-> [to |-> to[i], call |-> call]] IN
    /\ dpAt = "serving"
    /\ \/ call.method = "OPTIONS" /\ sent(<<>>) /\ dpAt' = dpAt
       \/ call.method # "OPTIONS" /\ ForwarderEligible(call)
          /\ sent(<<"forward">>) /\ dpAt' = "settled"
       \/ call.method # "OPTIONS" /\ ForwarderEligible(call)
          /\ sent(<<"forward", "relay">>) /\ dpAt' = dpAt
       \/ call.method # "OPTIONS" /\ ~ForwarderEligible(call)
          /\ sent(<<"relay">>) /\ dpAt' = dpAt
    /\ UNCHANGED <<dpCfg, dpCool, dpReq, dpSock, dpRoute>>

\* The client closes, or asked for it.
Close ==
    /\ dpAt \in {"serving", "settled"}
    /\ dpAt' = "idle"
    /\ UNCHANGED <<dpCfg, dpCool, dpReq, dpSock, dpRoute, dpSends>>

Cooled ==
    /\ dpCool > 0 /\ dpCool' = dpCool - 1
    /\ UNCHANGED <<dpCfg, dpReq, dpAt, dpSock, dpRoute, dpSends>>

DpNext ==
    \/ \E r \in Browsing : HttpClient(r) \/ SocksClient(r)
    \/ EarlyTunnel \/ Early \/ Group \/ CamouflageDial \/ CamouflageCert \/ Direct \/ SniRewrite \/ Peek
    \/ PlainHttpDrive \/ PlainHttpRelay \/ PlainHttpPassthrough \/ Close \/ Cooled
    \/ \E call \in Calls : Request(call)

DpSpec == DpInit /\ [][DpNext]_dpVars

-----------------------------------------------------------------------------
(* Properties. *)

DpDone == dpAt \in {"serving", "settled"}
\* What the user pinned by hand: these choices come before every other one.
Pinned(host) ==
    \/ MatchesPassthrough(host)
    \/ (dpCfg.blockDoh \/ dpCfg.bypassDoh) /\ DohHost(host)
    \/ MatchFrontingGroup(host) # {}
Forwarded == \E i \in DOMAIN dpSends : dpSends[i].to = "forward"

\* Type invariant: a stage only ever sees a socket nobody has read from, and what was read by
\* direct mode is handed on only together with its preface.
DpTypeOK ==
    /\ dpCool \in 0..CAMOUFLAGE_COOLDOWN
    /\ ~DpDone /\ dpAt # "idle" => dpSock = "fresh" /\ dpRoute = "none"
    /\ dpSock = "prefaced" => dpRoute = "sni" /\ ShouldUseSniRewrite(dpReq.host, 443)

\* The Google edge is only asked for hosts it serves or the user pointed there: no combination of
\* patterns, custom direct-mode domains and fallbacks sends it a foreign host (a wrong-origin reply
\* would count as success).
EdgeServesHost ==
    /\ dpRoute \in {"sni", "direct"} =>
          Under(dpReq.host, SNI_REWRITE_SUFFIXES) \/ HostsOverride(dpReq.host)
    /\ Forwarded => Under(EffectiveHost, SNI_REWRITE_SUFFIXES)

\* A host a pattern names is always decrypted, whatever path leads to the dispatch, and a request
\* the pattern matches reaches the relay and nobody else.
PatternsReachRelay ==
    /\ dpRoute \in {"sni", "direct"} => ~Under(dpReq.host, ForceMitmHosts)
    /\ \A i \in DOMAIN dpSends :
          UrlMatchesPattern(EffectiveHost, dpSends[i].call.path) => dpSends[i].to = "relay"

\* With the exit node in full mode everything that is decrypted goes through it, and YouTube is
\* decrypted unless the user pinned it elsewhere.
ExitNodeSeesAll ==
    ExitFull /\ DpDone =>
        /\ ~Forwarded
        /\ Under(dpReq.host, YOUTUBE_RELAY_HOSTS) /\ ~Pinned(dpReq.host)
              /\ ~HostsOverride(dpReq.host) => dpRoute \notin {"sni", "direct"}

\* A sanctioned host leaves through the relay: no fallback lets it out from the user's own address
\* while a relay exists, unless the user pinned it or the client speaks neither TLS nor HTTP.
SanctionedRelayed ==
    dpRoute \in {"sni", "direct", "raw"} /\ dpCfg.mode = "apps_script"
        /\ IsSanctioned(dpReq.host) /\ ~Pinned(dpReq.host)
    => dpRoute = "raw" /\ dpReq.first \notin {"tls", "http"}

\* A blocked DoH server is unreachable in every mode and through every fallback.
BlockDohHolds ==
    dpReq.entry # "plain" /\ DpDone /\ dpCfg.blockDoh /\ dpReq.port = 443 /\ DohHost(dpReq.host)
        /\ ~MatchesPassthrough(dpReq.host)
    => dpRoute \in {"blocked", "refused"}

\* A request that must not be repeated is handed to one destination only.
UnsafeForwardedOnce ==
    \A i \in DOMAIN dpSends : dpSends[i].call.method \notin {"GET", "HEAD"} => Len(dpSends) = 1

=============================================================================
