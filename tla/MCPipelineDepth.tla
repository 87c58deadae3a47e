--------------------------- MODULE MCPipelineDepth ---------------------------
(* One session, whose local client may go away while a reply is written to  *)
(* it.  MCTunnel has the instances in which the client stays.               *)
EXTENDS PipelineDepth

Abandoned ==
    [sessions |-> {1}, scripts |-> {"d"}, recover_after |-> 1, window |-> 3,
     replies |-> {"data", "none"}, echoes |-> {"seq"}, client |-> {"gone"}]
MCAbandoned == {Abandoned}
=============================================================================
