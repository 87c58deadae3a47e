----------------------------- MODULE SabrStrip -----------------------------
(***************************************************************************)
(* strip_sabr_quality_tracks and its gate maybe_strip_sabr_body            *)
(* (domain_fronter.rs): a protobuf body is walked field by field, byte by  *)
(* byte, and all but the first of its top-level fields 3 are cut out when  *)
(* it also has a field 2.  A byte is the pair of its continuation bit and  *)
(* its value, written value + 128 as on the wire.                          *)
(***************************************************************************)
EXTENDS Naturals, Sequences, SequencesExt, FiniteSets

CONSTANTS
    SabrRequests, \* method, path and host of the requests
    SabrBytes,   \* the bytes bodies are made of
    MaxBody,     \* bound: length of a body
    MaxShift,    \* a varint of more bytes is given up (ten in the code)
    Fixed64, Fixed32  \* widths of the fixed fields (eight and four in the code)

VARIABLES sbRequest, sbBody
sbVars == <<sbRequest, sbBody>>

More(b) == b >= 128
Low(b) == b % 128

-----------------------------------------------------------------------------
\* A varint at position i: its value and the position behind it; next = 0 if it is cut off or too long.
RECURSIVE Varint(_, _, _, _)
Varint(body, i, scale, n) ==
    IF i > Len(body) \/ n = MaxShift THEN [value |-> 0, next |-> 0]
    ELSE IF More(body[i])
         THEN LET rest == Varint(body, i + 1, scale * 128, n + 1) IN
              [rest EXCEPT !.value = @ + Low(body[i]) * scale]
         ELSE [value |-> Low(body[i]) * scale, next |-> i + 1]

\* A skipped varint payload has no limit on its length.
VarintEnd(body, i) ==
    LET ends == {j \in i..Len(body) : ~More(body[j])} IN
    IF ends = {} THEN 0 ELSE 1 + (CHOOSE j \in ends : \A k \in ends : j <= k)

\* A payload that runs past the end makes the field malformed.
Whole(next, body) == IF next > Len(body) + 1 THEN 0 ELSE next

\* The position behind the payload of a field, 0 when it is malformed.
PayloadEnd(body, wire, i) ==
    CASE wire = 0 -> VarintEnd(body, i)
      [] wire = 1 -> Whole(i + Fixed64, body)
      [] wire = 2 -> LET len == Varint(body, i, 1, 0) IN
                     IF len.next = 0 THEN 0 ELSE Whole(len.next + len.value, body)
      [] wire = 5 -> Whole(i + Fixed32, body)
      [] OTHER -> 0

\* The top-level fields from position i on, up to the first malformed one.
RECURSIVE Fields(_, _)
Fields(body, i) ==
    IF i > Len(body) THEN <<>>
    ELSE LET tag == Varint(body, i, 1, 0)
             end == IF tag.next = 0 THEN 0 ELSE PayloadEnd(body, tag.value % 8, tag.next) IN
         IF end = 0 THEN <<>>
         ELSE <<[num |-> tag.value \div 8, from |-> i, to |-> end - 1]>> \o Fields(body, end)

TailFrom(body, fields) == IF fields = <<>> THEN 1 ELSE Last(fields).to + 1
Tail3(body, fields) == SubSeq(body, TailFrom(body, fields), Len(body))
Count(fields, num) == Cardinality({i \in DOMAIN fields : fields[i].num = num})

\* (Mutant: every field 3 is cut out.)
KeepNone(fields, i) == fields[i].num # 3
KeepFirst(fields, i) == fields[i].num = 3 => \A j \in 1..(i - 1) : fields[j].num # 3

MultiTrack(fields) == Count(fields, 2) > 0 /\ Count(fields, 3) >= 2

Strip(body) ==
    LET fields == Fields(body, 1)
        kept(i) == IF KeepFirst(fields, i) THEN SubSeq(body, fields[i].from, fields[i].to) ELSE <<>>
    IN IF MultiTrack(fields)
       THEN FlattenSeq([i \in DOMAIN fields |-> kept(i)]) \o Tail3(body, fields)
       ELSE body

\* maybe_strip_sabr_body, with sabr_strip on: a POST to /videoplayback on a YouTube host.
YoutubeHost(request) == request.youtube
Gate(request) == request.post /\ request.videoplayback /\ YoutubeHost(request)
Sent == IF Gate(sbRequest) THEN Strip(sbBody) ELSE sbBody

-----------------------------------------------------------------------------
SbInit ==
    /\ sbRequest \in SabrRequests
    /\ sbBody = <<>>

\* Every body up to the bound, one byte at a time.
OneMoreByte ==
    /\ Len(sbBody) < MaxBody
    /\ \E b \in SabrBytes : sbBody' = Append(sbBody, b)
    /\ UNCHANGED sbRequest

SbNext == OneMoreByte

SbSpec == SbInit /\ [][SbNext]_sbVars

-----------------------------------------------------------------------------
Others(body) ==
    LET fields == Fields(body, 1)
        rest == SelectSeq(fields, LAMBDA f : f.num # 3)
    IN [i \in DOMAIN rest |-> SubSeq(body, rest[i].from, rest[i].to)]
Tracks(body) ==
    LET fields == SelectSeq(Fields(body, 1), LAMBDA f : f.num = 3)
    IN [i \in DOMAIN fields |-> SubSeq(body, fields[i].from, fields[i].to)]

(* What the origin reads from the body it gets: the same other fields in   *)
(* the same order and the same malformed rest, whole; and of the quality   *)
(* tracks the first one exactly when a segment fetch asked for several,    *)
(* else all of them (strip_sabr_quality_tracks: a sole track, a            *)
(* session-init body or an unparsable tail is never touched).              *)
OnlySurplusTracksCut ==
    /\ Others(Sent) = Others(sbBody)
    /\ Tail3(Sent, Fields(Sent, 1)) = Tail3(sbBody, Fields(sbBody, 1))
    /\ Tracks(Sent) = IF Gate(sbRequest) /\ Count(Fields(sbBody, 1), 2) > 0 /\ Tracks(sbBody) # <<>>
                      THEN <<Tracks(sbBody)[1]>> ELSE Tracks(sbBody)
=============================================================================
