--------------------------- MODULE ResponseBody ---------------------------
(***************************************************************************)
(* What becomes of a response body between the origin and the browser:     *)
(* the Accept-Encoding forwarded to the origin, the layers Apps Script or  *)
(* the exit node peels off, the JSON envelope and its unwrapping, and the  *)
(* decoding in parse_relay_json and parse_exit_node_response               *)
(* (domain_fronter.rs).  A body is the sequence of encodings still on it,  *)
(* outermost last, and its label the Content-Encoding that travels along.  *)
(***************************************************************************)
EXTENDS Naturals, Sequences, SequencesExt, FiniteSets

Encodings == {"gzip", "br", "zstd", "deflate"}
Layers == {<<>>} \cup {<<e>> : e \in Encodings} \cup (Encodings \X Encodings)

VARIABLES
    rbSetup,   \* the path, allow_brotli_zstd, the browser's Accept-Encoding, the deployment
    rbAsked,   \* encodings the origin is asked for
    rbBody, rbLabel,
    rbEnvelope, \* what surrounds the body: nested envelopes, or a page around the envelope
    rbPc

rbVars == <<rbSetup, rbAsked, rbBody, rbLabel, rbEnvelope, rbPc>>

RbSetups ==
    [path : {"relay", "exit"}, allow : BOOLEAN, accepts : {{}, {"gzip", "deflate"}, Encodings},
     wraps : BOOLEAN,     \* a relay layer from before the raw flag wraps the exit node's answer again
     decodes : BOOLEAN]   \* the body is valid and within MAX_DECOMPRESSED_BYTES

RbInit ==
    /\ rbSetup \in RbSetups
    /\ rbSetup.wraps => rbSetup.path = "exit"
    /\ rbAsked = {} /\ rbBody = <<>> /\ rbLabel = <<>> /\ rbEnvelope = <<>> /\ rbPc = "browser"

\* filter_forwarded_headers_with_brotli_zstd
Forwarded(accepts) == IF rbSetup.allow THEN accepts ELSE accepts \ {"br", "zstd"}

Forward(path) ==
    /\ rbPc = "browser" /\ rbSetup.path = path
    /\ rbAsked' = Forwarded(rbSetup.accepts)
    /\ rbPc' = "origin"
    /\ UNCHANGED <<rbSetup, rbBody, rbLabel, rbEnvelope>>

\* build_payload_json; build_exit_node_inner_payload, which goes inside such a payload.
AskRelay == Forward("relay")
AskExit == Forward("exit")

\* The origin encodes as asked, or as it likes; the label says how.
Respond ==
    /\ rbPc = "origin"
    /\ \E layers \in Layers : rbBody' = layers /\ rbLabel' = layers
    /\ rbPc' = "fetched"
    /\ UNCHANGED <<rbSetup, rbAsked, rbEnvelope>>

\* UrlFetchApp removes a single gzip and leaves the header; of a chain it may remove the outer one.
ScriptFetch ==
    /\ rbPc = "fetched" /\ rbSetup.path = "relay"
    /\ \/ rbBody = <<"gzip">> /\ rbBody' = <<>>
       \/ Len(rbBody) = 2 /\ Last(rbBody) = "gzip" /\ rbBody' \in {rbBody, Front(rbBody)}
       \/ rbBody # <<"gzip">> /\ (Len(rbBody) = 2 => Last(rbBody) # "gzip") /\ UNCHANGED rbBody
    /\ rbEnvelope' \in {<<"json">>, <<"json", "iframe">>, <<"json", "preamble">>, <<"html">>}
    /\ rbPc' = "answered"
    /\ UNCHANGED <<rbSetup, rbAsked, rbLabel>>

\* fetch() of the exit node decodes all but zstd, or leaves gzip; the header stays only on a gzip body.
Fetchable == {"gzip", "br", "deflate"}
ExitFetch ==
    /\ rbPc = "fetched" /\ rbSetup.path = "exit"
    /\ \E gz \in BOOLEAN :
         rbBody' = SelectSeq(rbBody, LAMBDA e : e \notin Fetchable \/ (gz /\ rbBody = <<"gzip">>))
    /\ rbLabel' = IF rbLabel = <<"gzip">> /\ rbBody' = <<"gzip">> THEN rbLabel ELSE <<>>
    /\ rbEnvelope' = IF rbSetup.wraps THEN <<"json", "json">> ELSE <<"json">>
    /\ rbPc' = "answered"
    /\ UNCHANGED <<rbSetup, rbAsked>>

-----------------------------------------------------------------------------
\* parse_relay_json finds the envelope itself, inside the goog.script iframe
\* (extract_apps_script_user_html), or behind a preamble.
Enveloped(env) == env[1] = "json"

UnwrapRelay ==
    /\ rbPc = "answered" /\ rbSetup.path = "relay"
    /\ rbPc' = IF Enveloped(rbEnvelope) THEN "unwrapped" ELSE "error"
    /\ UNCHANGED <<rbSetup, rbAsked, rbBody, rbLabel, rbEnvelope>>

\* looks_like_exit_node_envelope: a body that is an envelope again is refused.
OneEnvelope(env) == env # <<"json", "json">>

\* parse_exit_node_response up to the body.
UnwrapExit ==
    /\ rbPc = "answered" /\ rbSetup.path = "exit"
    /\ rbPc' = IF OneEnvelope(rbEnvelope) THEN "unwrapped" ELSE "error"
    /\ UNCHANGED <<rbSetup, rbAsked, rbBody, rbLabel, rbEnvelope>>

\* decode_gzip, decode_brotli, decode_zstd: they succeed on their own encoding, within the cap.
Decodable(e) == rbBody = <<e>> /\ rbSetup.decodes
\* The header names one encoding, in a string or an array.
Single == Len(rbLabel) = 1
Decode(tried) ==
    rbBody' = IF Single /\ rbLabel[1] \in tried /\ Decodable(rbLabel[1]) THEN <<>> ELSE rbBody
OptIn == IF rbSetup.allow THEN {"br", "zstd"} ELSE {}

\* (Mutant: what cannot be decoded loses its label, as it did when only gzip could come.)
StripAll == TRUE
\* The script has removed a single gzip, or the decoder just has removed what it can.
StripsRelay ==
    \/ rbLabel \in {<<>>, <<"gzip">>}
    \/ Single /\ rbLabel[1] \in OptIn /\ Decodable(rbLabel[1])
\* Without allow_brotli_zstd a label that is not gzip goes in any case.
StripsExit ==
    \/ rbLabel = <<>>
    \/ Single /\ rbLabel[1] \in {"gzip"} \cup OptIn /\ Decodable(rbLabel[1])
    \/ rbLabel # <<"gzip">> /\ ~rbSetup.allow

DeliverRelay ==
    /\ rbPc = "unwrapped" /\ rbSetup.path = "relay"
    /\ Decode(OptIn)
    /\ rbLabel' = IF StripsRelay THEN <<>> ELSE rbLabel
    /\ rbPc' = "delivered"
    /\ UNCHANGED <<rbSetup, rbAsked, rbEnvelope>>

DeliverExit ==
    /\ rbPc = "unwrapped" /\ rbSetup.path = "exit"
    /\ Decode({"gzip"} \cup OptIn)
    /\ rbLabel' = IF StripsExit THEN <<>> ELSE rbLabel
    /\ rbPc' = "delivered"
    /\ UNCHANGED <<rbSetup, rbAsked, rbEnvelope>>

RbNext ==
    \/ AskRelay \/ AskExit \/ Respond \/ ScriptFetch \/ ExitFetch
    \/ UnwrapRelay \/ UnwrapExit \/ DeliverRelay \/ DeliverExit

RbSpec == RbInit /\ [][RbNext]_rbVars

-----------------------------------------------------------------------------
(* The types; a body is only ever peeled, never encoded again.             *)
RbTypeOK ==
    /\ rbSetup \in RbSetups /\ rbAsked \subseteq Encodings
    /\ rbBody \in Layers /\ rbLabel \in Layers
    /\ rbEnvelope \in {<<>>, <<"html">>} \cup {<<"json">>} \cup ({"json"} \X {"json", "iframe", "preamble"})
    /\ rbPc \in {"browser", "origin", "fetched", "answered", "unwrapped", "delivered", "error"}
    /\ ~rbSetup.allow => rbAsked \cap {"br", "zstd"} = {}

(* The browser is told the truth about a body: one without                 *)
(* Content-Encoding is plain and one with a single encoding still has it   *)
(* ("Better an honest decode error than corrupted bytes silently           *)
(* delivered", parse_relay_json), whatever the origin, the script and the  *)
(* exit node did, with or without allow_brotli_zstd.  The exception is a   *)
(* zstd body from an exit node, which drops that header itself.            *)
DeliveredAsLabelled ==
    rbPc = "delivered" /\ Len(rbLabel) <= 1 =>
        \/ rbBody = rbLabel
        \/ rbSetup.path = "exit" /\ Contains(rbBody, "zstd")

(* The browser is never shown an envelope for a page: an answer wrapped    *)
(* twice, by a relay layer that ignores the raw flag, is an error          *)
(* (parse_exit_node_response).                                             *)
NoEnvelopeAsPage == rbPc = "delivered" => rbEnvelope \notin {<<"json", "json">>, <<"html">>}
=============================================================================
