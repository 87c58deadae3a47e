------------------------------ MODULE MCProxy -------------------------------
(***************************************************************************)
(* The instances of the local proxy that TLC explores: a started proxy     *)
(* with its mode switches, one UDP association, the two direct modes, a    *)
(* client connection whose requests are read, the commands of the          *)
(* applications, and beside the proxy an update and the access token of    *)
(* Drive.  They share no state in the code, so `part` chooses in Init      *)
(* which of them runs, and the others keep their initial state.            *)
(***************************************************************************)
EXTENDS ModeSwitch, UdpAssociate, LocalBypass, DirectMode, HttpServe, AppLifecycle,
        UpdateApply, TokenCache

VARIABLE part

besideVars == <<upVars, tkVars>>
proxyVars == <<part, msVars, udVars, lbVars, dmVars, hvVars, alVars, besideVars>>

(* The starting mode and those of two switches, of two modes at a time.    *)
MCPlans ==
    UNION {[0..2 -> modes] : modes \in {{"full", "drive"}, {"apps_script", "drive"},
                                        {"full", "direct"}, {"direct"}}}
IdlePlan == [g \in 0..2 |-> "direct"]

(* One host whose network changes, two connections to one host, and two    *)
(* hosts that compete for the one entry of the breaker map.                *)
Censored(hosts, conns, changes) == [hosts |-> hosts, conns |-> conns, changes |-> changes]
MCLbSetups ==
    {Censored({"h"}, 1, 2), Censored({"h"}, 2, 0), Censored({"h", "i"}, 1, 0)}
IdleLb == Censored({"h"}, 1, 2)
MCProfiles == <<"p00", "p01", "p05", "p07">>

(* A front list that changes over a restart, two connections at a time,    *)
(* and no front at all.                                                    *)
Fronted(conns, lists, restarts) == [conns |-> conns, lists |-> lists, restarts |-> restarts]
MCDmSetups ==
    {Fronted(1, {<<"g">>, <<"s">>}, 1), Fronted(2, {<<"g">>}, 0), Fronted(1, {<<>>}, 0)}
IdleDm == Fronted(1, {<<>>}, 0)

(* Bodies with a length, in chunks and absent, at and over the cap, with   *)
(* and without Expect, and two heads that are refused.                     *)
Req(head, framing, body, expect, close) ==
    [head |-> head, framing |-> framing, body |-> body, expect |-> expect, close |-> close]
MCRequests ==
    {Req(1, "none", 0, FALSE, FALSE), Req(0, "length", 3, FALSE, FALSE),
     Req(1, "length", 2, TRUE, FALSE), Req(1, "chunked", 3, FALSE, FALSE),
     Req(0, "chunked", 2, TRUE, TRUE), Req(0, "chunked", 0, FALSE, FALSE),
     Req(4, "none", 0, FALSE, FALSE), Req(0, "length", 5, FALSE, FALSE),
     Req(0, "chunked", 5, FALSE, FALSE), Req(1, "both", 2, FALSE, FALSE),
     Req(0, "length", 0, TRUE, TRUE)}
MCVisits == {<<a, b>> : a, b \in MCRequests}
IdleVisit == <<Req(1, "none", 0, FALSE, FALSE), Req(1, "none", 0, FALSE, FALSE)>>

-----------------------------------------------------------------------------
ProxyInit ==
    /\ part \in {"mode", "udp", "bypass", "direct", "http", "app", "update", "token"}
    /\ MsInit /\ (part # "mode" => plan = IdlePlan)
    /\ UdInit
    /\ LbInit /\ (part # "bypass" => lbSetup = IdleLb /\ lbWorks["h"] = {})
    /\ DmInit /\ (part # "direct" => dmSetup = IdleDm)
    /\ HvInit /\ (part # "http" => hvVisit = IdleVisit)
    /\ AlInit /\ (part # "app" => alPlatform = "desktop")
    /\ UpInit /\ (part # "update" => upSetup = [platform |-> "file", key |-> TRUE])
    /\ TkInit /\ (part # "token" => tkSide = "relay")

Only(p) == part = p /\ UNCHANGED part
ButMode == UNCHANGED <<udVars, lbVars, dmVars, hvVars, alVars, besideVars>>
ButUdp == UNCHANGED <<msVars, lbVars, dmVars, hvVars, alVars, besideVars>>
ButBypass == UNCHANGED <<msVars, udVars, dmVars, hvVars, alVars, besideVars>>
ButDirect == UNCHANGED <<msVars, udVars, lbVars, hvVars, alVars, besideVars>>
ButHttp == UNCHANGED <<msVars, udVars, lbVars, dmVars, alVars, besideVars>>
ButApp == UNCHANGED <<msVars, udVars, lbVars, dmVars, hvVars, besideVars>>

ButBeside == UNCHANGED <<msVars, udVars, lbVars, dmVars, hvVars, alVars>>
ButToken == UNCHANGED upVars /\ ButBeside

ProxyNext ==
    \/ Only("mode") /\ MsNext /\ ButMode
    \/ Only("udp") /\ UdNext /\ ButUdp
    \/ Only("bypass") /\ LbNext /\ ButBypass
    \/ Only("direct") /\ DmNext /\ ButDirect
    \/ Only("http") /\ HvNext /\ ButHttp
    \/ Only("app") /\ AlNext /\ ButApp
    \/ Only("update") /\ UpNext /\ UNCHANGED tkVars /\ ButBeside
    \/ Only("token") /\ TkNext /\ ButToken

(* MsFairness, UdFairness, LbFairness, DmFairness, HvFairness and          *)
(* AlFairness together, and the calls of get(): Fair(k) is the k-th fair   *)
(* action of the part that runs.  An update may stop where it is.          *)
Fair(k) ==
    \/ Only("mode") /\ k = 1 /\ RunStep /\ ButMode
    \/ Only("mode") /\ k = 2 /\ (\E s \in Switches : Critical(s)) /\ ButMode
    \/ Only("udp") /\ k = 1 /\ LoopStep /\ ButUdp
    \/ Only("udp") /\ k - 1 \in Sids /\ UdpTaskStep(k - 1) /\ ButUdp
    \/ Only("bypass") /\ k = 1 /\ LbTraffic /\ ButBypass
    \/ Only("bypass") /\ k = 2 /\ LbTick /\ ButBypass
    \/ Only("direct") /\ k = 1 /\ (\E c \in DmConns : DmConnStep(c)) /\ ButDirect
    \/ Only("direct") /\ k = 2 /\ DmTick /\ ButDirect
    \/ Only("http") /\ k = 1 /\ ClientSends /\ ButHttp
    \/ Only("http") /\ k = 2 /\ ServerStep /\ ButHttp
    \/ Only("app") /\ k \in Callers /\ CallStep(k) /\ ButApp
    \/ Only("app") /\ k - 2 \in AlRuns /\ AlRunStep(k - 2) /\ ButApp
    \/ Only("token") /\ k = 1 /\ (\E w \in Workers : GetStep(w)) /\ ButToken

ProxySpec ==
    /\ ProxyInit /\ [][ProxyNext]_proxyVars
    /\ WF_proxyVars(Fair(1)) /\ WF_proxyVars(Fair(2)) /\ WF_proxyVars(Fair(3))
    /\ WF_proxyVars(Fair(4)) /\ WF_proxyVars(Fair(5))

-----------------------------------------------------------------------------
(* The contract of serving clients: UDP sessions are tracked and served, a *)
(* working bypass is kept, only configured fronts are dialled, each        *)
(* request gets its own body, and no proxy runs unseen.                    *)
ServingSound ==
    /\ UdTypeOK /\ OrderInStep /\ EntryIsServed /\ NodeSessionOwned
    /\ LbTypeOK /\ WorkingProfileKept
    /\ DmTypeOK /\ DialsConfiguredFronts
    /\ HvTypeOK /\ BodyExact
    /\ AlTypeOK /\ NoHiddenProxy /\ PortFreeAfterStop

(* What no step does: lose the running bundle to a failed update at        *)
(* start-up, or ask Google again with a token known to be revoked, but for *)
(* the calls that were waiting already.                                    *)
ProxySteps == [][LateApplyKeepsTarget /\ DeadTokenOnlyFromWaiters]_proxyVars

(* Stop ends run(), a dropped UDP session is closed on the tunnel-node, a  *)
(* bypass that exists is found again, the direct-mode breaker opens again, *)
(* a client that waits is answered, a proxy shown as stopped stops, and    *)
(* every call of get() returns.                                            *)
ProxyProgress ==
    []<>(\/ part = "mode" /\ StopHonoured
         \/ part = "udp" /\ NoneDangling
         \/ part = "bypass" /\ Bypasses
         \/ part = "direct" /\ BreakerAdmits
         \/ part = "http" /\ Answered
         \/ part = "app" /\ ShownTruly
         \/ part = "token" /\ GetReturned
         \/ part = "update")
=============================================================================
