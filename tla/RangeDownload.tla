--------------------------- MODULE RangeDownload ---------------------------
(***************************************************************************)
(* relay_parallel_range (domain_fronter.rs): a GET is probed with one      *)
(* range, the rest of the entity is planned lazily in chunks, fetched with *)
(* bounded concurrency and retries, and stitched or streamed in order.     *)
(*                                                                         *)
(* The entity is the bytes 0 .. total-1, each byte its own offset, so a    *)
(* body is a sequence of offsets.  An answer is abstracted to what the     *)
(* checks on it tell apart: "exact" passes extract_exact_range_body,       *)
(* "retryable" is malformed or a 5xx, "other" is anything else.            *)
(***************************************************************************)
EXTENDS Integers, Sequences

CONSTANTS
    Totals,          \* entity lengths the origin may advertise
    CHUNK,           \* RANGE_PARALLEL_CHUNK_BYTES
    MAX_PARALLEL,
    MAX_ATTEMPTS,    \* MAX_CHUNK_ATTEMPTS
    APPS_MAX,        \* APPS_SCRIPT_BODY_MAX_BYTES
    STITCH_MAX,      \* BUFFERED_STITCH_MAX_BYTES
    STREAM_MAX       \* MAX_STREAMED_RANGE_BYTES

ASSUME RangeAssumption ==
    /\ Totals \subseteq Nat \ {0}
    /\ CHUNK \in Nat \ {0} /\ MAX_PARALLEL \in Nat \ {0} /\ MAX_ATTEMPTS \in Nat \ {0}
    /\ APPS_MAX \in Nat /\ STITCH_MAX \in Nat /\ STREAM_MAX \in Nat

VARIABLES
    total,           \* what Content-Range advertises
    streaming,       \* streaming_allowed
    phase,           \* "probe", "fetch" or "done"
    mode,            \* RangeDispatch, once known
    start,           \* plan_remaining_ranges' cursor
    window,          \* the futures `buffered` holds, in range order
    full,            \* body bytes, stitched or already on the wire
    spoiled,         \* buffered mode: some chunk ended in an error
    result           \* how the caller was answered

rgVars == <<total, streaming, phase, mode, start, window, full, spoiled, result>>

Bytes(s, e) == [i \in 1..(e - s + 1) |-> s + i - 1]

Least(a, b) == IF a < b THEN a ELSE b

(* dispatch_range_response.                                                *)
Dispatched ==
    IF streaming /\ total > STREAM_MAX THEN "reject"
    ELSE IF streaming /\ total > APPS_MAX THEN "stream"
    ELSE IF ~streaming /\ total > STITCH_MAX THEN "single"
    ELSE "buffered"

RgInit ==
    /\ total \in Totals
    /\ streaming \in BOOLEAN
    /\ phase = "probe"
    /\ mode = "none"
    /\ start = 0
    /\ window = <<>>
    /\ full = <<>>
    /\ spoiled = FALSE
    /\ result = "none"

Answer(how) ==
    /\ phase' = "done"
    /\ result' = how

(* The probe's answer is not a 206, or is one validate_probe_range refuses.*)
ProbeUnusable(how) ==
    /\ phase = "probe"
    /\ how \in {"passthrough", "single"}
    /\ Answer(how)
    /\ UNCHANGED <<total, streaming, mode, start, window, full, spoiled>>

(* A 206 from 0 to end, at most the range asked for, with a matching body. *)
ProbeAnswered(end) ==
    /\ phase = "probe"
    /\ end <= CHUNK - 1 /\ end < total
    /\ full' = Bytes(0, end)
    /\ IF total <= CHUNK \/ end + 1 >= total
       THEN Answer("rewritten") /\ UNCHANGED <<mode, start>>
       ELSE /\ mode' = Dispatched
            /\ start' = end + 1
            /\ IF Dispatched \in {"reject", "single"} THEN Answer(Dispatched)
               ELSE phase' = "fetch" /\ UNCHANGED result
    /\ UNCHANGED <<total, streaming, window, spoiled>>

(* plan_remaining_ranges yields a range and `buffered` starts its future.  *)
(* (Mutant: the next range starts where this ends.)                        *)
SlotFree == Len(window) < MAX_PARALLEL

SameByte(e) == e
NextStart(e) == e + 1

Launch ==
    /\ phase = "fetch"
    /\ start < total
    /\ SlotFree
    /\ LET e == Least(start + CHUNK - 1, total - 1) IN
         /\ window' = Append(window, [s |-> start, e |-> e, tries |-> 0, st |-> "flying"])
         /\ start' = NextStart(e)
    /\ UNCHANGED <<total, streaming, phase, mode, full, spoiled, result>>

(* An attempt of the i-th future returns.                                  *)
ChunkAnswered(i, a) ==
    /\ phase = "fetch"
    /\ window[i].st = "flying"
    /\ window' = [window EXCEPT ![i] =
                    [s |-> @.s, e |-> @.e, tries |-> @.tries + 1,
                     st |-> IF a = "exact" THEN "ok"
                            ELSE IF a = "retryable" /\ @.tries + 1 < MAX_ATTEMPTS THEN "flying"
                            ELSE "err"]]
    /\ UNCHANGED <<total, streaming, phase, mode, start, full, spoiled, result>>

(* The oldest future is ready and is taken from the stream.                *)
TakeOk ==
    /\ phase = "fetch"
    /\ window # <<>> /\ window[1].st = "ok"
    /\ full' = full \o Bytes(window[1].s, window[1].e)
    /\ window' = Tail(window)
    /\ UNCHANGED <<total, streaming, phase, mode, start, spoiled, result>>

(* A failed chunk: collect() carries on and the stitching falls back later;*)
(* the streaming writer stops and drops the other futures.                 *)
TakeErr ==
    /\ phase = "fetch"
    /\ window # <<>> /\ window[1].st = "err"
    /\ IF mode = "stream"
       THEN Answer("truncated") /\ window' = <<>> /\ UNCHANGED spoiled
       ELSE spoiled' = TRUE /\ window' = Tail(window) /\ UNCHANGED <<phase, result>>
    /\ UNCHANGED <<total, streaming, mode, start, full>>

(* The client is gone: write_all fails in the middle of the stream.        *)
WriteFails ==
    /\ phase = "fetch" /\ mode = "stream"
    /\ Answer("truncated")
    /\ window' = <<>>
    /\ UNCHANGED <<total, streaming, mode, start, full, spoiled>>

(* The stream is exhausted.                                                *)
AllPlanned == start >= total

Unstitchable == mode = "buffered" /\ (spoiled \/ Len(full) # total)

Exhausted ==
    /\ phase = "fetch"
    /\ window = <<>> /\ AllPlanned
    /\ Answer(IF Unstitchable THEN "single" ELSE "full")
    /\ UNCHANGED <<total, streaming, mode, start, window, full, spoiled>>

RgStep ==
    \/ \E how \in {"passthrough", "single"} : ProbeUnusable(how)
    \/ \E end \in 0..(CHUNK - 1) : ProbeAnswered(end)
    \/ Launch
    \/ \E i \in 1..Len(window) : \E a \in {"exact", "retryable", "other"} : ChunkAnswered(i, a)
    \/ TakeOk
    \/ TakeErr
    \/ Exhausted

RgNext == RgStep \/ WriteFails

RgSpec == RgInit /\ [][RgNext]_rgVars /\ WF_rgVars(RgStep)

-----------------------------------------------------------------------------
RgTypeOK ==
    /\ phase \in {"probe", "fetch", "done"}
    /\ mode \in {"none", "reject", "single", "stream", "buffered"}
    /\ start \in 0..total
    /\ Len(window) <= MAX_PARALLEL
    /\ \A i \in 1..Len(window) :
          /\ window[i].tries \in 0..MAX_ATTEMPTS
          /\ window[i].st \in {"flying", "ok", "err"}
    /\ result \in {"none", "passthrough", "single", "rewritten", "reject", "full", "truncated"}

(* Whatever order the chunks complete in, and however often they are       *)
(* retried, the bytes sent or stitched are a prefix of the entity: no gap, *)
(* no overlap, no chunk out of place (unless the stitching was already     *)
(* given up).                                                              *)
StitchedInOrder == ~spoiled => \A i \in 1..Len(full) : full[i] = i - 1

(* A download reported complete carries every byte of the entity.          *)
CompleteIsWhole == result = "full" => ~spoiled /\ Len(full) = total

(* The wrapper that returns a Vec ignores the writer's error, so it must   *)
(* never be on a path that truncates.                                      *)
WrapperNeverTruncates == ~streaming => mode # "stream" /\ result # "truncated"

(* Every download ends here, complete or not.                              *)
DownloadOver == phase = "done"
=============================================================================
