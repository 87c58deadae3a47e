---------------------------- MODULE Negotiation ----------------------------
(***************************************************************************)
(* The capabilities a client and the tunnel nodes learn of each other      *)
(* through the zc field of a batch (tunnel_batch_request_to and            *)
(* finalize_batch_response in domain_fronter.rs, fire_batch in             *)
(* tunnel_client.rs, the head and the tail of handle_batch in tunnel-node):*)
(* whether ops may travel compressed (zops), and whether an ambiguous      *)
(* batch may be sent again.  Every deployment has its own node, of one of  *)
(* the versions in the field; an upgrade restarts it.                      *)
(***************************************************************************)
EXTENDS Naturals, Sequences

CONSTANTS
    NgScripts,       \* deployments
    NgBatches        \* batches, all of them replay safe (batch_is_replay_safe)

Versions == <<"old", "zstd", "replay">>

VARIABLES
    ngNode,          \* deployment -> index of its node's version
    ngRegistry,      \* deployment -> the replay registry: [batch, zstd] fingerprints
    zstd_enabled,
    ngCaps,          \* deployment -> script_tunnel_capabilities: a set of bits
    ngBatch,         \* batch -> [st, script, tries]
    ngWire,          \* requests and answers under way
    ngApplied        \* history: batch -> times its ops ran on the node's present incarnation

ngVars == <<ngNode, ngRegistry, zstd_enabled, ngCaps, ngBatch, ngWire, ngApplied>>

Has(d, what) ==
    \/ what = "zstd" /\ Versions[ngNode[d]] \in {"zstd", "replay"}
    \/ what = "replay" /\ Versions[ngNode[d]] = "replay"

NgInit ==
    /\ ngNode \in [NgScripts -> 1..Len(Versions)]
    /\ ngRegistry = [d \in NgScripts |-> {}]
    /\ zstd_enabled = FALSE
    /\ ngCaps = [d \in NgScripts |-> {}]
    /\ ngBatch = [b \in NgBatches |-> [st |-> "new", script |-> CHOOSE d \in NgScripts : TRUE,
                                       tries |-> 0]]
    /\ ngWire = {}
    /\ ngApplied = [b \in NgBatches |-> 0]

(* tunnel_batch_request_to: the ops go compressed once any deployment said *)
(* it can read them; zc always says that this client can.                  *)
Sent(b, d, try) ==
    ngWire' = ngWire \union {[kind |-> "ask", batch |-> b, script |-> d, try |-> try,
                              zops |-> zstd_enabled, zc |-> {"zstd", "replay"}]}

FireBatch(b, d) ==
    /\ ngBatch[b].st = "new"
    /\ ngBatch' = [ngBatch EXCEPT ![b] = [st |-> "sent", script |-> d, tries |-> 1]]
    /\ Sent(b, d, 1)
    /\ UNCHANGED <<ngNode, ngRegistry, zstd_enabled, ngCaps, ngApplied>>

(* handle_batch: a version that does not know zops sees no ops; the        *)
(* fingerprint holds the form the answer will have.  (Mutant: the form of  *)
(* the request.)                                                           *)
CompressedAsk(m) == m.zops
ClientZstd(m) == m.zops \/ "zstd" \in m.zc

Readable(m) == m.zops => Has(m.script, "zstd")

NodeHandles(m) ==
    LET d == m.script
        key == [batch |-> m.batch, zstd |-> ClientZstd(m)]
        runs == Readable(m) /\ ~(Has(d, "replay") /\ key \in ngRegistry[d])
        caps == {c \in {"zstd", "replay"} : Has(d, c)}
    IN /\ m.kind = "ask"
       /\ ngApplied' = [ngApplied EXCEPT ![m.batch] = IF runs THEN @ + 1 ELSE @]
       /\ ngRegistry' = [ngRegistry EXCEPT ![d] = IF Has(d, "replay") THEN @ \union {key} ELSE @]
       /\ ngWire' = (ngWire \ {m}) \union
            {[kind |-> "answer", batch |-> m.batch, script |-> d, try |-> m.try,
              full |-> Readable(m), zc |-> caps]}
       /\ UNCHANGED <<ngNode, zstd_enabled, ngCaps, ngBatch>>

(* finalize_batch_response and the replies: the answer's capabilities are  *)
(* kept, an answer without zc leaves them as they were; a result missing   *)
(* from r (or a zr that does not decode) is an error for its session.      *)
(* Nobody reads the answer of an attempt that was given up.                *)
Learn(d, caps) == IF caps = {} THEN ngCaps ELSE [ngCaps EXCEPT ![d] = caps]

Receive(m, decodes) ==
    /\ m.kind = "answer"
    /\ ngBatch[m.batch].st = "sent" /\ ngBatch[m.batch].tries = m.try
    /\ ngWire' = ngWire \ {m}
    /\ ngCaps' = Learn(m.script, m.zc)
    /\ zstd_enabled' = (zstd_enabled \/ "zstd" \in m.zc)
    /\ ngBatch' = [ngBatch EXCEPT ![m.batch].st = IF m.full /\ decodes THEN "ok" ELSE "missing"]
    /\ UNCHANGED <<ngNode, ngRegistry, ngApplied>>

(* The request or its answer is lost or late (ambiguous_batch_failure): the*)
(* exact batch goes once more to the same deployment if that one is known  *)
(* to recognise it.                                                        *)
FirstTry(b) == ngBatch[b].tries = 1

SupportsBatchReplay(d) == "replay" \in ngCaps[d]

Ambiguous(b) ==
    /\ ngBatch[b].st = "sent"
    /\ IF FirstTry(b) /\ SupportsBatchReplay(ngBatch[b].script)
       THEN /\ ngBatch' = [ngBatch EXCEPT ![b].tries = @ + 1]
            /\ Sent(b, ngBatch[b].script, ngBatch[b].tries + 1)
       ELSE /\ ngBatch' = [ngBatch EXCEPT ![b].st = "error"]
            /\ UNCHANGED ngWire
    /\ UNCHANGED <<ngNode, ngRegistry, zstd_enabled, ngCaps, ngApplied>>

WireLoses(m) ==
    /\ ngWire' = ngWire \ {m}
    /\ UNCHANGED <<ngNode, ngRegistry, zstd_enabled, ngCaps, ngBatch, ngApplied>>

(* A node is upgraded: it comes back without sessions and without registry.*)
NodeUpgraded(d) ==
    /\ ngNode[d] < Len(Versions)
    /\ ngNode' = [ngNode EXCEPT ![d] = @ + 1]
    /\ ngRegistry' = [ngRegistry EXCEPT ![d] = {}]
    /\ ngApplied' = [b \in NgBatches |-> IF ngBatch[b].script = d THEN 0 ELSE ngApplied[b]]
    /\ UNCHANGED <<zstd_enabled, ngCaps, ngBatch, ngWire>>

NgNext ==
    \/ \E b \in NgBatches, d \in NgScripts : FireBatch(b, d)
    \/ \E b \in NgBatches : Ambiguous(b)
    \/ \E m \in ngWire : NodeHandles(m) \/ (\E decodes \in BOOLEAN : Receive(m, decodes))
                         \/ WireLoses(m)
    \/ \E d \in NgScripts : NodeUpgraded(d)

NgSpec == NgInit /\ [][NgNext]_ngVars

-----------------------------------------------------------------------------
NgTypeOK ==
    /\ ngNode \in [NgScripts -> 1..Len(Versions)]
    /\ ngCaps \in [NgScripts -> SUBSET {"zstd", "replay"}]
    /\ \A b \in NgBatches :
          /\ ngBatch[b].st \in {"new", "sent", "ok", "missing", "error"}
          /\ ngBatch[b].tries \in 0..2

(* What the client believes a deployment's node can do, the node can do:   *)
(* answers of different deployments, of lost attempts and of versions that *)
(* say nothing never mix (nodes are upgraded, never downgraded).           *)
CapabilitiesTrue == \A d \in NgScripts : \A c \in ngCaps[d] : Has(d, c)

(* A batch that is sent again runs once: it only goes to a node that keeps *)
(* a registry, and the registry recognises it although compression may     *)
(* have been switched on between the two attempts.                         *)
AppliedOnce == \A b \in NgBatches : ngApplied[b] <= 1

=============================================================================
