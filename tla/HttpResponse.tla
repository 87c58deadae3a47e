--------------------------- MODULE HttpResponse ---------------------------
(***************************************************************************)
(* Reading one HTTP/1.1 response from a pooled connection                  *)
(* (read_http_response_with_header_timeout, read_chunked, read_crlf_line   *)
(* of domain_fronter.rs): the peer's bytes come in pieces of any length,   *)
(* the peer may close or stall anywhere.  One token stands for a byte that *)
(* matters; the header block is its text "h" and the blank line "E".       *)
(***************************************************************************)
EXTENDS Naturals, Sequences, SequencesExt

CONSTANT ChunkLists   \* how the peer may cut its body; bodies of up to three bytes

BodyBytes == <<"cr", "lf", "a">>   \* a body may contain what the framing looks for
Digits == <<"1", "2", "3">>

VARIABLES
    hrPeer,     \* what the peer sends: framing, chunk sizes, and how the end of its chunks looks
    hrSent,     \* bytes of it that have been read from the socket
    hrBuf,      \* read, not yet interpreted
    hrBody,     \* the body so far
    hrSize,     \* size of the chunk being read
    hrPc

hrVars == <<hrPeer, hrSent, hrBuf, hrBody, hrSize, hrPc>>

Total(sizes) == FoldSeq(LAMBDA n, sum : n + sum, 0, sizes)
Payload == SubSeq(BodyBytes, 1, Total(hrPeer.chunks))

CRLF == <<"cr", "lf">>
Chunk(sizes, i) ==
    LET from == Total(SubSeq(sizes, 1, i - 1)) IN
    <<Digits[sizes[i]]>> \o CRLF \o SubSeq(BodyBytes, from + 1, from + sizes[i]) \o CRLF
\* The last chunk: plain, with a trailer, after a blank line, without a number; or a chunk
\* longer than it says.
Ends == [plain |-> <<"0">> \o CRLF \o CRLF,
         trailer |-> <<"0">> \o CRLF \o <<"t">> \o CRLF \o CRLF,
         blank |-> CRLF \o <<"0">> \o CRLF \o CRLF,
         nonumber |-> <<"t">> \o CRLF \o CRLF,
         long |-> <<"1">> \o CRLF \o <<"a", "a">> \o CRLF]
Malformed == {"nonumber", "long"}
Peers == {p \in [framing : {"length", "chunked", "none"}, chunks : ChunkLists, end : DOMAIN Ends] :
            p.framing # "chunked" => p.end = "plain"}
Chunked(peer) ==
    FlattenSeq([i \in 1..Len(peer.chunks) |-> Chunk(peer.chunks, i)]) \o Ends[peer.end]
\* The bytes of the response on the wire.
Wire == <<"h", "E">> \o (IF hrPeer.framing = "chunked" THEN Chunked(hrPeer) ELSE Payload)
Left == Len(Wire) - hrSent

HrInit ==
    /\ hrPeer \in Peers
    /\ hrSent = 0 /\ hrBuf = <<>> /\ hrBody = <<>> /\ hrSize = 0 /\ hrPc = "head"

-----------------------------------------------------------------------------
\* Where a CRLF starts in the buffer.
LineEnds(buf) == {i \in 1..(Len(buf) - 1) : buf[i] = "cr" /\ buf[i + 1] = "lf"}
FirstLine(buf) == CHOOSE i \in LineEnds(buf) : \A j \in LineEnds(buf) : i <= j

ChunkLen(size) == size + 2

\* The loops read from the socket only when the buffer does not hold what they look for.
Starved ==
    \/ hrPc = "head" /\ ~Contains(hrBuf, "E")
    \/ hrPc = "length" /\ Len(hrBody) < Total(hrPeer.chunks)
    \/ hrPc \in {"size", "trailer"} /\ LineEnds(hrBuf) = {}
    \/ hrPc = "data" /\ Len(hrBuf) < ChunkLen(hrSize)
    \/ hrPc = "close"

Piece(n) == SubSeq(Wire, hrSent + 1, hrSent + n)

\* A read returns n bytes; with a Content-Length it never asks for more than the body lacks.
Read(n) ==
    /\ Starved /\ n <= Left
    /\ hrPc = "length" => n <= Total(hrPeer.chunks) - Len(hrBody)
    /\ hrSent' = hrSent + n
    /\ IF hrPc \in {"length", "close"}
       THEN hrBody' = hrBody \o Piece(n) /\ UNCHANGED hrBuf
       ELSE hrBuf' = hrBuf \o Piece(n) /\ UNCHANGED hrBody
    /\ UNCHANGED <<hrPeer, hrSize, hrPc>>

\* A body without framing ends where the bytes end; anything else is cut off.
AtEof == IF hrPc = "close" THEN "ok" ELSE "error"

\* The peer closes, with or without close_notify, or is silent for the loop's 2 s, 10 s or 20 s.
EofOrTimeout ==
    /\ Starved
    /\ hrPc' = AtEof
    /\ UNCHANGED <<hrPeer, hrSent, hrBuf, hrBody, hrSize>>

BodyFrom(at) == at + 1

\* The header block is complete: the body starts with what came behind it.
Headers ==
    /\ hrPc = "head" /\ ~Starved
    /\ LET at == CHOOSE i \in 1..Len(hrBuf) : hrBuf[i] = "E"
           rest == SubSeq(hrBuf, BodyFrom(at), Len(hrBuf)) IN
       IF hrPeer.framing = "chunked"
       THEN hrBuf' = rest /\ hrPc' = "size" /\ UNCHANGED hrBody
       ELSE /\ hrBuf' = <<>> /\ hrBody' = rest
            /\ hrPc' = IF hrPeer.framing = "length" THEN "length" ELSE "close"
    /\ UNCHANGED <<hrPeer, hrSent, hrSize>>

LengthReached ==
    /\ hrPc = "length" /\ ~Starved
    /\ hrPc' = "ok"
    /\ UNCHANGED <<hrPeer, hrSent, hrBuf, hrBody, hrSize>>

AfterLine(buf) == SubSeq(buf, FirstLine(buf) + 2, Len(buf))
Line(buf) == SubSeq(buf, 1, FirstLine(buf) - 1)

\* (Mutant: the zero chunk ends the body; the trailer section is not read.)
DoneAtZero == "ok"
AfterZero == "trailer"

OnBlank == "size"

\* A chunk-size line: an empty one is skipped, one that is not a number is an error.
SizeLine ==
    /\ hrPc = "size" /\ ~Starved
    /\ hrBuf' = AfterLine(hrBuf)
    /\ LET line == Line(hrBuf) IN
       \/ line = <<>> /\ hrPc' = OnBlank /\ UNCHANGED hrSize
       \/ line = <<"0">> /\ hrPc' = AfterZero /\ UNCHANGED hrSize
       \/ \E n \in 1..3 : line = <<Digits[n]>> /\ hrSize' = n /\ hrPc' = "data"
       \/ /\ line \notin {<<>>, <<"0">>} \cup {<<Digits[n]>> : n \in 1..3}
          /\ hrPc' = "error" /\ UNCHANGED hrSize
    /\ UNCHANGED <<hrPeer, hrSent, hrBody>>

TrailerLine ==
    /\ hrPc = "trailer" /\ ~Starved
    /\ hrBuf' = AfterLine(hrBuf)
    /\ hrPc' = IF Line(hrBuf) = <<>> THEN "ok" ELSE "trailer"
    /\ UNCHANGED <<hrPeer, hrSent, hrBody, hrSize>>

ChunkData ==
    /\ hrPc = "data" /\ ~Starved
    /\ IF SubSeq(hrBuf, hrSize + 1, hrSize + 2) = CRLF
       THEN /\ hrBody' = hrBody \o SubSeq(hrBuf, 1, hrSize)
            /\ hrBuf' = SubSeq(hrBuf, hrSize + 3, Len(hrBuf))
            /\ hrPc' = "size"
       ELSE hrPc' = "error" /\ UNCHANGED <<hrBuf, hrBody>>
    /\ UNCHANGED <<hrPeer, hrSent, hrSize>>

HrNext ==
    \/ \E n \in 1..Left : Read(n)
    \/ EofOrTimeout \/ Headers \/ LengthReached \/ SizeLine \/ TrailerLine \/ ChunkData

HrSpec == HrInit /\ [][HrNext]_hrVars

-----------------------------------------------------------------------------
(* The types; and a read never takes more than the peer has sent.          *)
HrTypeOK ==
    /\ hrPeer \in Peers
    /\ hrSent \in 0..Len(Wire)
    /\ ToSet(hrBuf) \subseteq ToSet(Wire) /\ ToSet(hrBody) \subseteq ToSet(BodyBytes)
    /\ hrSize \in 0..3
    /\ hrPc \in {"head", "length", "size", "data", "trailer", "close", "ok", "error"}

(* However the bytes are cut into reads and whatever bytes the body holds, *)
(* a response with a length or with chunks is returned whole or not at     *)
(* all, and malformed chunks never are; only one without framing may be    *)
(* cut short, by a 2 s silence (read_http_response_with_header_timeout,    *)
(* read_chunked).                                                          *)
WholeOrError ==
    hrPc = "ok" =>
        /\ hrPeer.end \notin Malformed
        /\ IF hrPeer.framing = "none" THEN IsPrefix(hrBody, Payload) ELSE hrBody = Payload

(* A framed response leaves the connection exactly at its end: nothing of  *)
(* it is still to come and nothing read is thrown away, so that the next   *)
(* request on the pooled connection reads its own answer ("Keep-alive      *)
(* safe", read_http_response).                                             *)
EndsAtBoundary ==
    hrPc = "ok" /\ hrPeer.framing # "none" => Left = 0 /\ hrBuf = <<>>

(* A well-formed response that came whole is not refused: reading it fails *)
(* only while bytes are missing.                                           *)
NoFalseError == hrPc = "error" /\ hrPeer.end \notin Malformed => Left > 0
=============================================================================
