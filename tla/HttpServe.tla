----------------------------- MODULE HttpServe ------------------------------
(***************************************************************************)
(* How requests are read off a connection the proxy terminates             *)
(* (proxy_server.rs): read_http_head_io, parse_request_head, read_body     *)
(* with its chunked form, and the keep-alive loop of run_mitm_then_relay   *)
(* and relay_http_stream_raw around handle_mitm_request.                   *)
(*                                                                         *)
(* The stream is a sequence of marks, each a piece a read may end after: a *)
(* part of a head, the end of a head, a byte of a body, a chunk-size line, *)
(* the line end behind a chunk, a trailer line, the empty line.  A read    *)
(* returns any of what has arrived.                                        *)
(***************************************************************************)
EXTENDS Naturals, Sequences, FiniteSets, SequencesExt

CONSTANTS
    Visits,              \* sequences of requests one client makes on a connection
    MAX_HEADER, MAX_BODY, \* MAX_HEADER_BYTES, MAX_REQUEST_BODY_BYTES, in marks
    READ_SIZE            \* the most marks one read returns

VARIABLES
    hvVisit,    \* the requests: [head, framing, body, expect, close]
    hvNext,     \* the one the client sends next
    hvHeld,     \* marks the client holds back until 100 Continue
    hvWire,     \* sent and not yet read
    hvOpen,     \* the client has not closed its side
    hvPc,       \* head, plain, chunked, trailer, handle, closed
    hvBuf,      \* bytes read ahead: buf, or the leftover behind a head
    hvReq,      \* the head that was parsed (0 before that)
    hvBody,     \* body so far
    hvServed    \* what the handler was given, in order: [req, body]
hvVars == <<hvVisit, hvNext, hvHeld, hvWire, hvOpen, hvPc, hvBuf, hvReq, hvBody, hvServed>>

Mark(k, r, n) == [kind |-> k, req |-> r, n |-> n]
Repeat(m, n) == [i \in 1..n |-> m]
BodyBytes(r, from, n) == [i \in 1..n |-> Mark("byte", r, from + i)]

HeadMarks(r) == Repeat(Mark("part", r, 0), hvVisit[r].head) \o <<Mark("end", r, 0)>>
BodyMarks(r) ==
    LET n == hvVisit[r].body IN
    CASE hvVisit[r].framing = "length" -> BodyBytes(r, 0, n)
      [] hvVisit[r].framing = "chunked" ->
           (IF n = 0 THEN <<>>
            ELSE <<Mark("size", r, 1)>> \o BodyBytes(r, 0, 1) \o <<Mark("crlf", r, 0)>>)
           \o (IF n < 2 THEN <<>>
               ELSE <<Mark("size", r, n - 1)>> \o BodyBytes(r, 1, n - 1) \o <<Mark("crlf", r, 0)>>)
           \o <<Mark("size", r, 0), Mark("trailer", r, 0), Mark("blank", r, 0)>>
      [] OTHER -> <<>>

HvInit ==
    /\ hvVisit \in Visits
    /\ hvNext = 1 /\ hvHeld = <<>> /\ hvWire = <<>> /\ hvOpen = TRUE
    /\ hvPc = "head" /\ hvBuf = <<>> /\ hvReq = 0 /\ hvBody = <<>> /\ hvServed = <<>>

-----------------------------------------------------------------------------
(* The client: one request at a time, the body of an expecting one held    *)
(* back until it is asked for.                                             *)

ClientSends ==
    /\ hvOpen /\ hvNext <= Len(hvVisit) /\ Len(hvServed) = hvNext - 1
    /\ hvNext' = hvNext + 1
    /\ IF hvVisit[hvNext].expect
       THEN hvWire' = hvWire \o HeadMarks(hvNext) /\ hvHeld' = BodyMarks(hvNext)
       ELSE hvWire' = hvWire \o HeadMarks(hvNext) \o BodyMarks(hvNext) /\ hvHeld' = <<>>
    /\ UNCHANGED <<hvVisit, hvOpen, hvPc, hvBuf, hvReq, hvBody, hvServed>>

\* The client closes, cutting off any part of what it was sending.
ClientCloses ==
    /\ hvOpen /\ hvOpen' = FALSE /\ hvHeld' = <<>>
    /\ \E n \in 0..Len(hvWire) : hvWire' = SubSeq(hvWire, 1, n)
    /\ UNCHANGED <<hvVisit, hvNext, hvPc, hvBuf, hvReq, hvBody, hvServed>>

-----------------------------------------------------------------------------
(* The server. *)

\* One read: some of what has arrived, behind what is buffered.
Reads(n) == n \in 1..READ_SIZE /\ n <= Len(hvWire)
Got(n) == hvBuf \o SubSeq(hvWire, 1, n)
Rest(n) == SubSeq(hvWire, n + 1, Len(hvWire))

Shut ==
    /\ hvPc' = "closed" /\ hvWire' = <<>> /\ hvHeld' = <<>> /\ hvBuf' = <<>> /\ hvBody' = <<>>
    /\ UNCHANGED <<hvVisit, hvNext, hvOpen, hvReq, hvServed>>

\* End of input: quietly between requests, an error in the middle of one.
ReadEof ==
    /\ hvPc \in {"head", "plain", "chunked", "trailer"} /\ ~hvOpen /\ hvWire = <<>>
    /\ Shut

\* What is behind the head starts the body.
BodyStart(leftover, n) == SubSeq(leftover, 1, IF Len(leftover) < n THEN Len(leftover) ELSE n)

\* How read_body begins, by the framing the head declares.
BeginBody(r, leftover) ==
    LET n == hvVisit[r].body
        start == BodyStart(leftover, n)
    IN CASE hvVisit[r].framing = "length" /\ n <= MAX_BODY ->
              /\ hvBody' = start /\ hvBuf' = <<>>
              /\ hvPc' = IF Len(start) = n THEN "handle" ELSE "plain"
         [] hvVisit[r].framing = "chunked" ->
              hvBody' = <<>> /\ hvBuf' = leftover /\ hvPc' = "chunked"
         [] hvVisit[r].framing = "none" ->
              hvBody' = <<>> /\ hvBuf' = <<>> /\ hvPc' = "handle"
         [] OTHER -> FALSE

\* A head that names no valid method or no framing read_body takes (a bad Content-Length, both
\* framings, another coding), and a declared length over the cap, end the connection.
Refused(r) ==
    \/ hvVisit[r].framing \in {"invalid", "both"}
    \/ /\ hvVisit[r].framing = "length"
       /\ hvVisit[r].body > MAX_BODY

\* 100 Continue, when the head asks for it and announces a body.  (Mutant: only one with a length.)
ContinueForLength(r) == hvVisit[r].expect /\ hvVisit[r].framing = "length"
SendsContinue(r) == hvVisit[r].expect /\ hvVisit[r].framing # "none"

ReadHead ==
    /\ hvPc = "head"
    /\ \E n \in 1..Len(hvWire) : Reads(n) /\
         LET got == Got(n)
             ends == {i \in DOMAIN got : got[i].kind = "end"} IN
         IF ends = {} THEN
            IF Len(got) > MAX_HEADER THEN Shut
            ELSE /\ hvBuf' = got /\ hvWire' = Rest(n)
                 /\ UNCHANGED <<hvVisit, hvNext, hvHeld, hvOpen, hvPc, hvReq, hvBody, hvServed>>
         ELSE LET i == CHOOSE k \in ends : \A j \in ends : k <= j
                  r == got[i].req IN
              IF Refused(r) THEN Shut
              ELSE /\ BeginBody(r, SubSeq(got, i + 1, Len(got)))
                   /\ hvReq' = r
                   /\ IF SendsContinue(r)
                      THEN hvWire' = Rest(n) \o hvHeld /\ hvHeld' = <<>>
                      ELSE hvWire' = Rest(n) /\ hvHeld' = hvHeld
                   /\ UNCHANGED <<hvVisit, hvNext, hvOpen, hvServed>>

\* A body of known length: what a read returns beyond it is dropped.
ReadPlain ==
    LET need == hvVisit[hvReq].body - Len(hvBody) IN
    /\ hvPc = "plain"
    /\ \E n \in 1..Len(hvWire) :
          /\ Reads(n)
          /\ hvWire' = Rest(n)
          /\ hvBody' = hvBody \o SubSeq(hvWire, 1, IF n < need THEN n ELSE need)
          /\ hvPc' = IF n >= need THEN "handle" ELSE "plain"
    /\ UNCHANGED <<hvVisit, hvNext, hvHeld, hvOpen, hvBuf, hvReq, hvServed>>

ChunkFits(size) == Len(hvBody) + size <= MAX_BODY

\* A whole chunk behind its size line.  (Mutant: it is taken from where the line was.)
ChunkWithLine(size) == SubSeq(hvBuf, 1, size)
ChunkData(size) == SubSeq(hvBuf, 2, size + 1)

\* read_chunked_request_body over what is buffered: a size line, a chunk once it is whole with its
\* line end, or after the last chunk the trailers up to the empty line.
ChunkedStep ==
    LET line == hvBuf[1]
        size == line.n IN
    /\ hvBuf # <<>>
    /\ \/ /\ hvPc = "chunked" /\ line.kind = "size" /\ size = 0
          /\ hvPc' = "trailer" /\ hvBuf' = Tail(hvBuf) /\ UNCHANGED hvBody
       \/ /\ hvPc = "chunked" /\ line.kind = "size" /\ size > 0
          /\ ChunkFits(size) /\ Len(hvBuf) >= size + 2
          /\ hvBuf[size + 2].kind = "crlf"
          /\ hvBody' = hvBody \o ChunkData(size)
          /\ hvBuf' = SubSeq(hvBuf, size + 3, Len(hvBuf)) /\ UNCHANGED hvPc
       \/ /\ hvPc = "trailer" /\ line.kind = "trailer"
          /\ hvBuf' = Tail(hvBuf) /\ UNCHANGED <<hvPc, hvBody>>
       \/ /\ hvPc = "trailer" /\ line.kind = "blank"
          /\ hvPc' = "handle" /\ hvBuf' = <<>> /\ UNCHANGED hvBody
    /\ UNCHANGED <<hvVisit, hvNext, hvHeld, hvWire, hvOpen, hvReq, hvServed>>

\* More input, when the buffer holds no complete line or chunk.
ChunkedRead ==
    /\ hvPc \in {"chunked", "trailer"}
    /\ hvBuf # <<>> =>
          /\ hvBuf[1].kind = "size" /\ hvBuf[1].n > 0 /\ Len(hvBuf) < hvBuf[1].n + 2
          /\ ChunkFits(hvBuf[1].n)
    /\ \E n \in 1..Len(hvWire) : Reads(n) /\ hvBuf' = Got(n) /\ hvWire' = Rest(n)
    /\ UNCHANGED <<hvVisit, hvNext, hvHeld, hvOpen, hvPc, hvReq, hvBody, hvServed>>

\* A chunk that would exceed the cap: 413 and the end.
ChunkTooLarge ==
    /\ hvPc = "chunked" /\ hvBuf # <<>> /\ hvBuf[1].kind = "size"
    /\ ~ChunkFits(hvBuf[1].n)
    /\ Shut

\* The request is forwarded or relayed and answered; the loop reads the next one from scratch.
Handle ==
    /\ hvPc = "handle"
    /\ hvServed' = Append(hvServed, [req |-> hvReq, body |-> hvBody])
    /\ hvPc' = IF hvVisit[hvReq].close THEN "closed" ELSE "head"
    /\ hvBuf' = <<>> /\ hvBody' = <<>>
    /\ UNCHANGED <<hvVisit, hvNext, hvHeld, hvWire, hvOpen, hvReq>>

ServerStep ==
    ReadEof \/ ReadHead \/ ReadPlain \/ ChunkedStep \/ ChunkedRead \/ ChunkTooLarge \/ Handle

HvNext == ClientSends \/ ClientCloses \/ ServerStep

\* The client sends what it has to send; the server's task runs.
HvFairness == WF_hvVars(ClientSends) /\ WF_hvVars(ServerStep)

HvSpec == HvInit /\ [][HvNext]_hvVars /\ HvFairness

-----------------------------------------------------------------------------
(* Properties. *)

\* Type invariant: the body never grows past its cap and nothing is read ahead between requests.
HvTypeOK ==
    /\ Len(hvBody) <= MAX_BODY
    /\ Len(hvServed) < hvNext
    /\ hvPc = "handle" => hvBuf = <<>>

\* However the network cuts the stream into reads, each request reaches the handler once, in order,
\* and with exactly its own body.
BodyExact ==
    \A k \in DOMAIN hvServed :
        hvServed[k] = [req |-> k, body |-> BodyBytes(k, 0, IF hvVisit[k].framing = "none" THEN 0
                                                           ELSE hvVisit[k].body)]

\* A client that stays is answered or refused: no read waits for bytes that are already buffered or
\* that the client holds back for a 100 Continue nobody sends.
Answered == hvPc = "closed" \/ ~hvOpen \/ Len(hvServed) = Len(hvVisit)
=============================================================================
