----------------------------- MODULE HelloSplit -----------------------------
(***************************************************************************)
(* How direct_mode.rs takes the browser's ClientHello in and puts it on    *)
(* the wire: read_first_tls_record collects reads until the first TLS      *)
(* record is whole, compute_splits chooses the cut points of a profile,    *)
(* and fragmented_write sends the pieces.  A byte is its position.         *)
(***************************************************************************)
EXTENDS Naturals, Sequences, FiniteSets, FiniteSetsExt, SequencesExt

CONSTANTS
    Hellos,      \* [record, extra, sni]: length of the first record with its header, bytes the
                 \* client sent behind it, and the positions of the host name ({} for none)
    Strategies,  \* [strategy, chunks]: the profiles
    MAX_FIRST,   \* read_first_tls_record's limit
    READ         \* largest piece one read returns

VARIABLES
    hsHello, hsProfile,
    hsRead,      \* bytes in buf
    hsPc,        \* reading, splitting, writing, sent, failed
    hsSplits,    \* compute_splits
    hsSent       \* the pieces written so far, each a sequence of positions

hsVars == <<hsHello, hsProfile, hsRead, hsPc, hsSplits, hsSent>>

HsInit ==
    /\ hsHello \in Hellos /\ hsProfile \in Strategies
    /\ hsRead = 0 /\ hsPc = "reading" /\ hsSplits = <<>> /\ hsSent = <<>>

Available == hsHello.record + hsHello.extra
Positions(a, b) == [i \in 1..(b - a) |-> a + i]

\* read_first_tls_record: any number of bytes that have arrived, until the record is complete.
ReadSome ==
    /\ hsPc = "reading" /\ hsRead < Available
    /\ \E k \in 1..READ :
          /\ hsRead + k <= Available
          /\ hsRead' = hsRead + k
          /\ hsPc' = IF hsRead' < 5 THEN "reading"
                     ELSE IF hsRead' >= hsHello.record THEN "splitting"
                     ELSE IF hsRead' > MAX_FIRST THEN "failed" ELSE "reading"
    /\ UNCHANGED <<hsHello, hsProfile, hsSplits, hsSent>>

\* The client closes or stalls before its ClientHello is complete.
ReadFails ==
    /\ hsPc = "reading"
    /\ hsPc' = "failed"
    /\ UNCHANGED <<hsHello, hsProfile, hsRead, hsSplits, hsSent>>

Minus(a, b) == IF a < b THEN 0 ELSE a - b
SortedCuts(set) ==
    [i \in 1..Cardinality(set) |->
        CHOOSE p \in set : Cardinality({q \in set : q < p}) = i - 1]
Inside(set, n) == {p \in set : p > 0 /\ p < n}

EqualSplits(n, chunks) == Inside({(n * i) \div chunks : i \in 1..(chunks - 1)}, n)

\* (Mutant: the cut inside the name is missing.)
AroundName(start, end) == {1, 5, Minus(start, 8), Minus(start, 1), start + 7, end}
NameCuts(start, end) == {1, 5, Minus(start, 8), Minus(start, 1), start + 1, start + 7, end}

\* sni_splits over the range tls_sni_host_range finds; none when it finds no host name.
SniSplits(n, sni) ==
    IF sni = {} THEN {}
    ELSE LET start == Min(sni)
             end == Max(sni) + 1
         IN Inside(NameCuts(start, end), n)

\* The cut points compute_splits may return (random_splits chooses freely).
ComputeSplits(n, profile, sni) ==
    LET cuts == CASE profile.strategy = "equal" -> EqualSplits(n, profile.chunks)
                  [] profile.strategy = "sni" -> SniSplits(n, sni)
                  [] profile.strategy = "sni_prefixed" -> Inside({1, 5}, n) \cup SniSplits(n, sni)
                  [] OTHER -> {}
        random == kSubset(Min({Minus(profile.chunks, 1), Minus(n, 1)}), 1..Minus(n, 1))
    IN IF n < 2 \/ profile.strategy = "passthrough" THEN {{}}
       ELSE IF cuts = {} /\ profile.strategy # "equal" THEN random
       ELSE {cuts}

Split ==
    /\ hsPc = "splitting"
    /\ \E cuts \in ComputeSplits(hsRead, hsProfile, hsHello.sni) : hsSplits' = SortedCuts(cuts)
    /\ hsPc' = "writing"
    /\ UNCHANGED <<hsHello, hsProfile, hsRead, hsSent>>

\* fragmented_write: the piece up to the next cut point; after the last one, the rest.
PieceStart(i) == IF i = 1 THEN 0 ELSE hsSplits[i - 1]

WritePiece ==
    LET i == Len(hsSent) + 1
        prev == PieceStart(i) IN
    /\ hsPc = "writing"
    /\ IF i <= Len(hsSplits)
       THEN hsSent' = Append(hsSent, Positions(prev, hsSplits[i])) /\ hsPc' = hsPc
       ELSE hsSent' = Append(hsSent, Positions(prev, hsRead)) /\ hsPc' = "sent"
    /\ UNCHANGED <<hsHello, hsProfile, hsRead, hsSplits>>

WriteFails ==
    /\ hsPc = "writing" /\ hsPc' = "failed"
    /\ UNCHANGED <<hsHello, hsProfile, hsRead, hsSplits, hsSent>>

HsNext == ReadSome \/ ReadFails \/ Split \/ WritePiece \/ WriteFails

HsSpec == HsInit /\ [][HsNext]_hsVars

-----------------------------------------------------------------------------
(* Properties. *)

\* The upstream gets the ClientHello byte for byte, whatever the profile cut: the pieces are not
\* empty and together are the bytes read, which hold the whole first record.
HelloArrivesWhole ==
    /\ \A i \in DOMAIN hsSent : hsSent[i] # <<>>
    /\ hsPc = "sent" => /\ FlattenSeq(hsSent) = Positions(0, hsRead)
                        /\ hsRead >= hsHello.record

\* A profile that cuts by the host name never sends the name in one piece: it is split wherever
\* the ClientHello carries one of two bytes or more.
NameIsSplit ==
    hsPc = "sent" /\ hsProfile.strategy \in {"sni", "sni_prefixed"}
        /\ Cardinality(hsHello.sni) > 1
    => ~ \E i \in DOMAIN hsSent : {p + 1 : p \in hsHello.sni} \subseteq Range(hsSent[i])

\* Type invariant: the cut points are increasing and strictly inside the data.
HsTypeOK ==
    /\ hsRead \in 0..Available
    /\ \A i \in DOMAIN hsSplits : /\ hsSplits[i] \in 1..(hsRead - 1)
                                  /\ i > 1 => hsSplits[i - 1] < hsSplits[i]
=============================================================================
