------------------------------ MODULE MCTunnel ------------------------------
(***************************************************************************)
(* Instances of four parts of the full tunnel of which progress is asked:  *)
(* the poll pipeline of the client's sessions, the mux that batches their  *)
(* ops, the node's replay registry, and its udpgw server.  They share no   *)
(* state, so `part` chooses in Init which of them runs, and the others     *)
(* keep their initial state.                                               *)
(***************************************************************************)
EXTENDS PipelineDepth, MuxBatch, ReplayRegistry, Udpgw

VARIABLE part

tunnelVars == <<part, pdVars, mxVars, rrVars, ugVars>>

(* The depths of a session are one apart: idle 1, optimist 2, active 3 (in *)
(* the code 1, 3 and 6), so that every rule of the depth control applies.  *)
(* Two sessions race for one permit; one session polls two deployments.    *)
Elevating ==
    [sessions |-> {1, 2}, scripts |-> {"d"}, recover_after |-> 1, window |-> 3,
     replies |-> {"data", "none", "none_eof"}, echoes |-> {"seq"}, client |-> {}]
Polling ==
    [sessions |-> {1}, scripts |-> {"d", "e"}, recover_after |-> 2, window |-> 2,
     replies |-> {"data", "none", "error", "lost"}, echoes |-> Echoes,
     client |-> {"sends", "closes"}]
MCPdSetups == {Elevating, Polling}
AsksProgress == pdSetup.client # {}

(* A connect, a poll, a small upload with the handshake, one that leaves   *)
(* no room for another, a close.                                           *)
Kind(kind, bytes, hello) == [kind |-> kind, bytes |-> bytes, hello |-> hello]
MCMxKinds ==
    {Kind("connect", 0, FALSE), Kind("data", 0, FALSE), Kind("data", 3, TRUE),
     Kind("data", 6, FALSE), Kind("close", 0, FALSE)}

(* Frames with data for two destinations, keepalives, and those that are   *)
(* not answered by a destination.                                          *)
F(k, d) == [kind |-> k, key |-> d]
MCUgInputs ==
    {<<F("data", "a"), F("keepalive", "a"), F("data", "a")>>,
     <<F("bad", "a"), F("data", "a"), F("data", "b")>>,
     <<F("keepalive", "a"), F("blocked", "b"), F("empty", "b")>>}
IdleInput == <<F("bad", "a"), F("data", "a"), F("data", "b")>>

-----------------------------------------------------------------------------
TunnelInit ==
    /\ part \in {"pipeline", "mux", "replay", "udpgw"}
    /\ PdInit /\ (part # "pipeline" => AsksProgress)
    /\ MxInit
    /\ RrInit
    /\ UgInit /\ (part # "udpgw" => ugInput = IdleInput)

Only(p) == part = p /\ UNCHANGED part
ButPipeline == UNCHANGED <<mxVars, rrVars, ugVars>>
ButMux == UNCHANGED <<pdVars, rrVars, ugVars>>
ButReplay == UNCHANGED <<pdVars, mxVars, ugVars>>
ButUdpgw == UNCHANGED <<pdVars, mxVars, rrVars>>

TunnelNext ==
    \/ Only("pipeline") /\ PdNext /\ ButPipeline
    \/ Only("mux") /\ MxNext /\ ButMux
    \/ Only("replay") /\ RrNext /\ ButReplay
    \/ Only("udpgw") /\ UgNext /\ ButUdpgw

(* PdFairness, MxFairness, RrFairness and UgFairness together: Fair(k) is  *)
(* the k-th fair action of the part that runs.  Nothing is asked of the    *)
(* two sessions that race, so they need none.                              *)
Fair(k) ==
    \/ Only("pipeline") /\ AsksProgress /\ ButPipeline
       /\ \/ k = 1 /\ \E s \in Sessions : LoopTurns(s)
          \/ k = 2 /\ \E s \in Sessions : Replies(s)
          \/ k = 3 /\ PdTick
    \/ Only("mux") /\ k = 1 /\ MxLoopStep /\ ButMux
    \/ Only("mux") /\ k = 2 /\ (\E i \in DOMAIN mxBatches : BatchStep(i)) /\ ButMux
    \/ Only("replay") /\ k = 1 /\ RrTick /\ ButReplay
    \/ Only("replay") /\ k = 2 /\ (\E r \in Batches : WaitEnds(r)) /\ ButReplay
    \/ Only("udpgw") /\ k = 1 /\ UgTask /\ ButUdpgw

TunnelSpec ==
    /\ TunnelInit /\ [][TunnelNext]_tunnelVars
    /\ WF_tunnelVars(Fair(1)) /\ WF_tunnelVars(Fair(2)) /\ WF_tunnelVars(Fair(3))

-----------------------------------------------------------------------------
(* The contract of what carries many sessions over one channel, at either  *)
(* end of it: the mux of the client and the udpgw server of the node.      *)
ChannelsSound == MuxSound /\ UdpgwSound

(* A session gets another poll into flight, a batch with data gets its     *)
(* round trip, a duplicate that waits for the first execution of its batch *)
(* returns, and a keepalive of udpgw is answered.                          *)
TunnelProgress ==
    []<>(\/ part = "pipeline" /\ (AsksProgress => SomePolls)
         \/ part = "mux" /\ ActiveServed
         \/ part = "replay" /\ NoneWaits
         \/ part = "udpgw" /\ AllKeepalives)
=============================================================================
