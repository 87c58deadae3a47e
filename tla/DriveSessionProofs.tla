-------------------------- MODULE DriveSessionProofs --------------------------
(***************************************************************************)
(* Proofs about DriveSession for every number of frames, faults and        *)
(* drivers and every depth of the mailboxes.  IInv relates the pieces a    *)
(* session consists of: the frames the client sent (UpShape), the driver's *)
(* mailbox (RelayBox) and what the driver wrote (WrittenPlace); the frames *)
(* the driver sent (DownlinkPlace), the pump's mailbox (ClientBox) and     *)
(* what the pump gave to the local socket (ClientPlace).  Files may be     *)
(* lost, deletes may fail and the relay may restart at every point.        *)
(***************************************************************************)
EXTENDS DriveSession, TLAPS

\* The data frames the client sent.
Sent == DataIn(up)

\* The client's frames: Connect, the data, Eof when the socket's input ended, and
\* Close when the session did.
UpShape ==
  /\ Sent \in 0..MaxUp
  /\ cst = "new" => up = <<>> /\ open = 0
  /\ up = <<>> => open = 0 /\ ~readclosed /\ cst \in {"new", "ended"}
  /\ open <= Len(up)
  /\ up # <<>> =>
       /\ open >= 1 /\ Len(up) \in (Sent + 1)..(Sent + 3) /\ up[1] = "connect"
       /\ \A k \in 1..Len(up) : up[k] = "data" <=> k \in 2..(Sent + 1)
       /\ readclosed => Len(up) >= Sent + 2 /\ up[Sent + 2] = "eof"
       /\ ~readclosed => Len(up) <= Sent + 2
       /\ \A k \in 1..Len(up) : up[k] = "eof" => readclosed /\ k = Sent + 2
       /\ cst \in {"pump", "write"} /\ readclosed => Len(up) = Sent + 2
       /\ cst \in {"pump", "write"} /\ ~readclosed => Len(up) = Sent + 1

\* The frames the driver took out of its mailbox.
Taken == rwindow - Len(rbox)

\* The driver's mailbox holds the frames before the window.
RelayBox ==
  /\ sending # NoFrame => sending = rwindow
  /\ Taken \in 0..rwindow
  /\ \A k \in 1..Len(rbox) : rbox[k] = up[Taken + k]

\* What the driver wrote, and whether it closed the write side, follows from how
\* many frames it took.
WrittenPlace ==
  /\ ~peerwritable => readclosed /\ written = Sent
  /\ drv \in {"wait", "dial"} => written = 0 /\ peerwritable
  /\ drv = "wait" => Taken = 0
  /\ drv = "dial" => Taken = 1
  /\ drv = "pump" => Taken >= 1
  /\ drv = "pump" /\ peerwritable => written + 1 = Taken /\ Taken <= Sent + 1
  /\ drv = "write" => peerwritable /\ written + 2 = Taken /\ Taken <= Sent + 1

\* The driver's seq against what it read; an entry for every driver.
DownlinkPlace ==
  /\ drv # None => entry /\ driver >= 1
  /\ rseq <= read + 2
  /\ drv \in {"wait", "dial"} => rseq = 0 /\ read = 0 /\ ~tcpclosed
  /\ drv \in {"pump", "write"} /\ tcpclosed => rseq = read + 1
  /\ drv \in {"pump", "write"} /\ ~tcpclosed => rseq = read
  /\ driver = 0 => rseq = 0 /\ read = 0 /\ ~tcpclosed /\ cend # "closed"

\* A frame of the only driver: what it is follows from its seq.
FrameOk(f) ==
  /\ f.seq < rseq
  /\ f.kind = "data" <=> f.seq < read
  /\ f.kind = "eof" => tcpclosed /\ f.seq = read
  /\ f.kind = "close" => ~Alive
  /\ f.kind = "close" /\ tcpclosed => f.seq = read + 1
  /\ f.kind = "close" /\ ~tcpclosed => f.seq = read

\* The frames the pump took out of its mailbox.
Consumed == cwindow - Len(cbox)

\* The mailbox holds the frames before the window.
ClientBox ==
  /\ Consumed \in 0..cwindow
  /\ \A k \in 1..Len(cbox) : cbox[k].seq + 1 = Consumed + k
  /\ cst # "ended" => cend = None

\* What the pump gave to the socket follows from how many frames it took.
ClientPlace ==
  driver <= 1 =>
    /\ \A f \in downfiles : FrameOk(f)
    /\ \A k \in 1..Len(cbox) : FrameOk(cbox[k])
    /\ writable /\ cend # "closed" => Len(got) = Consumed /\ Consumed <= read
    /\ ~writable => tcpclosed /\ Len(got) = read
    /\ cend = "closed" => ~Alive /\ Len(got) = read
    /\ cend = "eofs" => ~writable

\* The inductive invariant.
IInv == TypeOK /\ UpShape /\ RelayBox /\ WrittenPlace /\ DownlinkPlace /\ ClientBox /\ ClientPlace

-----------------------------------------------------------------------------
(* Facts about sequences.                                                  *)

\* Two sequences, one behind the other.
LEMMA ConcatProperties ==
  ASSUME NEW S, NEW s1 \in Seq(S), NEW s2 \in Seq(S)
  PROVE  /\ s1 \o s2 \in Seq(S) /\ Len(s1 \o s2) = Len(s1) + Len(s2)
         /\ \A i \in 1..(Len(s1) + Len(s2)) :
              (s1 \o s2)[i] = IF i <= Len(s1) THEN s1[i] ELSE s2[i - Len(s1)]
OBVIOUS

\* A sequence with one element more.
LEMMA AppendProperties ==
  ASSUME NEW S, NEW seq \in Seq(S), NEW elt \in S
  PROVE  /\ Append(seq, elt) \in Seq(S) /\ Append(seq, elt) # <<>>
         /\ Len(Append(seq, elt)) = Len(seq) + 1
         /\ \A i \in 1..Len(seq) : Append(seq, elt)[i] = seq[i]
         /\ Append(seq, elt)[Len(seq) + 1] = elt
OBVIOUS

\* A sequence without its first element.
LEMMA TailProperties ==
  ASSUME NEW S, NEW seq \in Seq(S), seq # <<>>
  PROVE  /\ Tail(seq) \in Seq(S) /\ Len(Tail(seq)) = Len(seq) - 1 /\ Len(seq) >= 1
         /\ \A i \in 1..(Len(seq) - 1) : Tail(seq)[i] = seq[i + 1]
         /\ Head(seq) = seq[1] /\ Head(seq) \in S
OBVIOUS

\* The number of data frames of a session whose data frames follow Connect; the
\* last part of the module shows that it is so.
Counted ==
  \A seq \in Seq(Kinds), d \in Nat :
    /\ d = 0 \/ d + 1 <= Len(seq)
    /\ \A k \in 1..Len(seq) : seq[k] = "data" <=> k \in 2..(d + 1)
    => DataIn(seq) = d

\* How a set is counted.
Count(S) == LET CS[T \in SUBSET S] == IF T = {} THEN 0 ELSE 1 + CS[T \ {CHOOSE x : x \in T}] IN CS[S]

\* DataIn counts.
LEMMA DataCount == \A seq : DataIn(seq) = Count({k \in DOMAIN seq : seq[k] = "data"})
BY Zenon DEF DataIn, Cardinality, Count

\* Counted, for one sequence.
LEMMA DataCounted ==
  ASSUME Counted, NEW seq \in Seq(Kinds), NEW d \in Nat, d = 0 \/ d + 1 <= Len(seq),
         \A k \in 1..Len(seq) : seq[k] = "data" <=> k \in 2..(d + 1)
  PROVE  DataIn(seq) = d
BY Zenon DEF Counted

-----------------------------------------------------------------------------
(* The client's frames.                                                    *)

\* The constants are numbers.
LEMMA Constants == MaxUp \in Nat /\ MaxDown \in Nat /\ Depth \in Nat /\ MaxFaults \in Nat /\ MaxDrivers \in Nat
BY DriveSessionAssumption, Zenon

\* The types of the client's frames.
LEMMA UpTyped ==
  ASSUME TypeOK
  PROVE  up \in Seq(Kinds) /\ Len(up) \in Nat /\ open \in Nat /\ readclosed \in BOOLEAN
<1>1. up \in Seq(Kinds) /\ open \in 0..2 /\ readclosed \in BOOLEAN
  BY Zenon DEF TypeOK
<1> QED
  BY <1>1

\* The client's frames while the session is open.
LEMMA UpOpen ==
  ASSUME TypeOK, UpShape, cst \in {"pump", "write"}
  PROVE  /\ Sent \in Nat /\ MaxUp \in Nat /\ up # <<>> /\ Sent <= MaxUp
         /\ (readclosed => Len(up) = Sent + 2) /\ (~readclosed => Len(up) = Sent + 1)
         /\ Len(up) >= 1 /\ Len(up) >= Sent + 1
         /\ open >= 1 /\ open <= Len(up) /\ up[1] = "connect"
         /\ \A k \in 1..Len(up) : up[k] = "data" <=> k \in 2..(Sent + 1)
         /\ readclosed => up[Sent + 2] = "eof"
         /\ \A k \in 1..Len(up) : up[k] = "eof" => readclosed /\ k = Sent + 2
<1>1. up # <<>>
  BY Zenon DEF UpShape
<1>2. /\ Sent \in 0..MaxUp
      /\ (readclosed => Len(up) = Sent + 2) /\ (~readclosed => Len(up) = Sent + 1)
      /\ open >= 1 /\ open <= Len(up) /\ up[1] = "connect"
      /\ \A k \in 1..Len(up) : up[k] = "data" <=> k \in 2..(Sent + 1)
      /\ readclosed => up[Sent + 2] = "eof"
      /\ \A k \in 1..Len(up) : up[k] = "eof" => readclosed /\ k = Sent + 2
  BY <1>1, Zenon DEF UpShape
<1>3. Sent \in Nat /\ Sent <= MaxUp
  BY <1>2, Constants
<1>4. Len(up) >= 1 /\ Len(up) >= Sent + 1
  BY <1>2, <1>3
<1> QED
  BY <1>1, <1>2, <1>3, <1>4, Constants, Zenon

\* What a step of the client does to its frames: they stay, more follow, and
\* there is no data after Eof.
UpGrows ==
  /\ up' \in Seq(Kinds) /\ Len(up) <= Len(up')
  /\ \A k \in 1..Len(up) : up'[k] = up[k]
  /\ Sent <= Sent' /\ (readclosed => readclosed' /\ Sent' = Sent)

\* A frame of data follows the others.
LEMMA ShapeData ==
  ASSUME Counted, TypeOK, UpShape, cst = "pump", ~readclosed, Sent < MaxUp,
         up' = up \o <<"data">>, UNCHANGED <<cst, readclosed, open>>
  PROVE  UpShape' /\ UpGrows
<1>1. /\ up \in Seq(Kinds) /\ Len(up) \in Nat /\ open \in Nat
      /\ <<"data">> \in Seq(Kinds) /\ Len(<<"data">>) = 1
  BY UpTyped DEF Kinds
<1>2. /\ up' \in Seq(Kinds) /\ Len(up') = Len(up) + 1
      /\ \A i \in 1..(Len(up) + 1) : up'[i] = IF i <= Len(up) THEN up[i] ELSE "data"
  BY <1>1, ConcatProperties
<1>3. /\ Sent \in Nat /\ MaxUp \in Nat /\ up # <<>> /\ Len(up) = Sent + 1 /\ Len(up) >= 1
      /\ open >= 1 /\ open <= Len(up) /\ up[1] = "connect"
      /\ \A k \in 1..Len(up) : up[k] = "data" <=> k \in 2..(Sent + 1)
      /\ \A k \in 1..Len(up) : up[k] # "eof"
  BY UpOpen, Zenon
<1>4. \A k \in 1..Len(up') : up'[k] = "data" <=> k \in 2..(Sent + 2)
  BY <1>1, <1>2, <1>3
<1>5. Sent' = Sent + 1
  <2>1. DataIn(up') = Sent + 1
    <3>1. Sent + 1 \in Nat /\ Sent + 1 + 1 <= Len(up') /\ Sent + 1 + 1 = Sent + 2
      BY <1>2, <1>3
    <3> QED
      BY <1>2, <1>4, <3>1, DataCounted, Zenon
  <2> QED
    BY <2>1, Zenon DEF Sent
<1>6. \A k \in 1..Len(up') : up'[k] # "eof"
  BY <1>1, <1>2, <1>3
<1>7. up'[1] = "connect" /\ up' # <<>>
  BY <1>1, <1>2, <1>3
<1> HIDE DEF Sent
<1>8. UpShape'
  BY <1>1, <1>2, <1>3, <1>4, <1>5, <1>6, <1>7 DEF UpShape
<1> QED
  BY <1>1, <1>2, <1>3, <1>5, <1>8 DEF UpGrows

\* The frames that follow at the end of the socket's input or of the session.
Ending(tail) ==
  /\ up' = up \o tail
  /\ \/ tail = <<"close">> /\ (readclosed' <=> readclosed) /\ cst' = "ended"
     \/ tail = <<"eof">> /\ ~readclosed /\ readclosed' /\ cst' = "pump"
     \/ tail = <<"eof", "close">> /\ ~readclosed /\ readclosed' /\ cst' = "ended"

\* The uplink ends: a tail of eof and close is queued after the data.
LEMMA ShapeTail ==
  ASSUME Counted, TypeOK, UpShape, cst \in {"pump", "write"}, open' = open, NEW tail, Ending(tail)
  PROVE  UpShape' /\ UpGrows
<1>0. tail \in Seq(Kinds) /\ Len(tail) \in 1..2
  <2>1. CASE tail = <<"close">>
    BY <2>1 DEF Kinds
  <2>2. CASE tail = <<"eof">>
    BY <2>2 DEF Kinds
  <2>3. CASE tail = <<"eof", "close">>
    BY <2>3 DEF Kinds
  <2> QED
    BY <2>1, <2>2, <2>3, Zenon DEF Ending
<1>1. /\ up \in Seq(Kinds) /\ Len(up) \in Nat /\ tail \in Seq(Kinds) /\ Len(tail) \in 1..2
      /\ open \in Nat /\ readclosed \in BOOLEAN
  BY <1>0, UpTyped, Zenon
<1>2. /\ up' \in Seq(Kinds) /\ Len(up') = Len(up) + Len(tail)
      /\ \A i \in 1..(Len(up) + Len(tail)) : up'[i] = IF i <= Len(up) THEN up[i] ELSE tail[i - Len(up)]
  BY <1>1, ConcatProperties, Zenon DEF Ending
<1>3. /\ Sent \in Nat /\ MaxUp \in Nat /\ up # <<>> /\ Sent <= MaxUp
      /\ (readclosed => Len(up) = Sent + 2) /\ (~readclosed => Len(up) = Sent + 1)
      /\ Len(up) >= 1 /\ Len(up) >= Sent + 1
      /\ open >= 1 /\ open <= Len(up) /\ up[1] = "connect"
      /\ \A k \in 1..Len(up) : up[k] = "data" <=> k \in 2..(Sent + 1)
      /\ readclosed => up[Sent + 2] = "eof"
      /\ \A k \in 1..Len(up) : up[k] = "eof" => readclosed /\ k = Sent + 2
  BY UpOpen, Zenon
<1>4. /\ \A i \in 1..Len(tail) : tail[i] # "data"
      /\ \/ tail[1] = "close" /\ Len(tail) = 1 /\ (readclosed' <=> readclosed) /\ cst' = "ended"
         \/ /\ tail[1] = "eof" /\ ~readclosed /\ readclosed'
            /\ \/ Len(tail) = 1 /\ cst' = "pump"
               \/ Len(tail) = 2 /\ cst' = "ended" /\ tail[2] = "close"
  BY DEF Ending
<1>5. \A k \in 1..Len(up') : up'[k] = "data" <=> k \in 2..(Sent + 1)
  <2> SUFFICES ASSUME NEW k \in 1..(Len(up) + Len(tail))
               PROVE  up'[k] = "data" <=> k \in 2..(Sent + 1)
    BY <1>2
  <2>1. CASE k <= Len(up)
    BY <1>1, <1>2, <1>3, <2>1
  <2>2. CASE k > Len(up)
    <3>1. k - Len(up) \in 1..Len(tail) /\ k > Sent + 1
      BY <1>1, <1>3, <2>2
    <3>2. up'[k] = tail[k - Len(up)]
      BY <1>1, <1>2, <2>2
    <3> QED
      BY <1>4, <3>1, <3>2, <1>3
  <2> QED
    BY <1>1, <2>1, <2>2
<1>6. Sent' = Sent
  <2>1. DataIn(up') = Sent
    <3>1. Sent \in Nat /\ Sent + 1 <= Len(up')
      BY <1>1, <1>2, <1>3
    <3> QED
      BY <1>2, <1>5, <3>1, DataCounted, Zenon
  <2> QED
    BY <2>1, Zenon DEF Sent
<1> HIDE DEF Sent
<1>n. /\ Len(up) \in Nat /\ Len(tail) \in 1..2 /\ Len(up') = Len(up) + Len(tail) /\ Sent \in Nat
      /\ (readclosed => Len(up) = Sent + 2) /\ (~readclosed => Len(up) = Sent + 1)
  BY <1>1, <1>2, <1>3, Zenon
<1>7. \A k \in 1..Len(up) : up'[k] = up[k]
  BY <1>1, <1>2
<1>8. up'[Len(up) + 1] = tail[1] /\ (Len(tail) = 2 => up'[Len(up) + 2] = tail[2])
  BY SMTT(60), <1>1, <1>2
<1>9. readclosed' => Len(up') >= Sent + 2 /\ up'[Sent + 2] = "eof"
  <2>1. CASE readclosed
    BY <1>1, <1>2, <1>3, <1>7, <2>1
  <2>2. CASE ~readclosed
    <3>0. Len(up) = Sent + 1
      BY <1>3, <2>2, Zenon
    <3>1. Len(up) + 1 = Sent + 2 /\ Len(up') >= Len(up) + 1
      BY <1>n, <3>0
    <3>2. readclosed' => tail[1] = "eof"
      BY <1>4, <2>2, Zenon
    <3>3. Len(up') >= Sent + 2 /\ up'[Sent + 2] = tail[1]
      BY <1>8, <3>1
    <3> QED
      BY <3>2, <3>3, Zenon
  <2> QED
    BY <2>1, <2>2, Zenon
<1>10. \A k \in 1..Len(up') : up'[k] = "eof" => readclosed' /\ k = Sent + 2
  <2> SUFFICES ASSUME NEW k \in 1..(Len(up) + Len(tail)), up'[k] = "eof"
               PROVE  readclosed' /\ k = Sent + 2
    BY <1>2
  <2>1. CASE k <= Len(up)
    BY <1>1, <1>3, <1>4, <1>7, <2>1
  <2>2. CASE k = Len(up) + 1
    BY <1>1, <1>3, <1>4, <1>8, <2>2
  <2>3. CASE k = Len(up) + 2
    BY <1>1, <1>3, <1>4, <1>8, <2>3
  <2> QED
    <3>1. k <= Len(up) \/ k = Len(up) + 1 \/ k = Len(up) + 2
      <4>1. \A m \in Nat, n \in 1..2 : \A i \in 1..(m + n) : i <= m \/ i = m + 1 \/ i = m + 2
        OBVIOUS
      <4> QED
        BY <1>n, <4>1, Zenon
    <3> QED
      BY <3>1, <2>1, <2>2, <2>3, Zenon
<1>11. /\ Len(up') \in (Sent + 1)..(Sent + 3) /\ up' # <<>> /\ up'[1] = "connect" /\ open <= Len(up')
       /\ ~readclosed' => Len(up') <= Sent + 2
       /\ cst' \in {"pump", "write"} /\ readclosed' => Len(up') = Sent + 2
       /\ cst' \in {"pump", "write"} /\ ~readclosed' => Len(up') = Sent + 1
       /\ cst' # "new"
  <2>1. up'[1] = "connect" /\ up' # <<>>
    BY <1>1, <1>2, <1>3, <1>7
  <2>2. \/ (readclosed' <=> readclosed) /\ Len(tail) = 1 /\ cst' = "ended"
        \/ ~readclosed /\ readclosed' /\ Len(tail) = 1 /\ cst' = "pump"
        \/ ~readclosed /\ readclosed' /\ Len(tail) = 2 /\ cst' = "ended"
    BY <1>4, Zenon
  <2>3. CASE readclosed
    <3>0. readclosed' /\ Len(tail) = 1 /\ cst' = "ended" /\ Len(up) = Sent + 2
      BY <1>n, <2>2, <2>3, Zenon
    <3>1. Len(up') = Sent + 3
      BY <1>n, <3>0
    <3>2. Len(up') \in (Sent + 1)..(Sent + 3) /\ open <= Len(up')
      BY <1>n, <1>1, <1>3, <3>1
    <3> QED
      BY <2>1, <3>0, <3>2, Zenon
  <2>4. CASE ~readclosed
    <3>0. /\ Len(up) = Sent + 1
          /\ \/ ~readclosed' /\ Len(tail) = 1 /\ cst' = "ended"
             \/ readclosed' /\ Len(tail) = 1 /\ cst' = "pump"
             \/ readclosed' /\ Len(tail) = 2 /\ cst' = "ended"
      BY <1>n, <2>2, <2>4, Zenon
    <3>1. (Len(tail) = 1 => Len(up') = Sent + 2) /\ (Len(tail) = 2 => Len(up') = Sent + 3)
      <4>1. Len(up') = (Sent + 1) + Len(tail) /\ Sent \in Nat
        BY <1>n, <3>0, Zenon
      <4>2. (Sent + 1) + 1 = Sent + 2 /\ (Sent + 1) + 2 = Sent + 3
        BY <4>1
      <4> QED
        BY <4>1, <4>2, Zenon
    <3>2. \/ ~readclosed' /\ Len(up') = Sent + 2 /\ cst' = "ended"
          \/ readclosed' /\ Len(up') = Sent + 2 /\ cst' = "pump"
          \/ readclosed' /\ Len(up') = Sent + 3 /\ cst' = "ended"
      BY <3>0, <3>1, Zenon
    <3>3. Len(up') = Sent + 2 \/ Len(up') = Sent + 3
      BY <3>2, Zenon
    <3>4. /\ Len(up') \in (Sent + 1)..(Sent + 3) /\ open <= Len(up')
          /\ Len(up') = Sent + 2 => Len(up') <= Sent + 2
      BY <1>n, <1>1, <1>3, <3>3
    <3> QED
      BY <2>1, <3>2, <3>4, Zenon
  <2> QED
    BY <2>3, <2>4, Zenon
<1>12. UpShape'
  BY <1>3, <1>5, <1>6, <1>9, <1>10, <1>11 DEF UpShape
<1> QED
  BY <1>1, <1>2, <1>3, <1>4, <1>6, <1>7, <1>12 DEF UpGrows

\* The frames stay.
LEMMA ShapeSame ==
  ASSUME TypeOK, UpShape, UNCHANGED <<up, readclosed, open>>,
         cst' = cst \/ (cst \in {"pump", "write"} /\ cst' \in {"pump", "write", "ended"})
  PROVE  UpShape' /\ UpGrows
<1>1. Sent' = Sent
  BY Zenon DEF Sent
<1>2. Sent \in Nat /\ Len(up) \in Nat /\ up \in Seq(Kinds)
  <2>1. Sent \in 0..MaxUp
    BY Zenon DEF UpShape
  <2> QED
    BY <2>1, UpTyped, Constants
<1>3. UpGrows
  <2>1. Sent <= Sent /\ Len(up) <= Len(up)
    BY <1>2
  <2> QED
    BY <1>1, <1>2, <2>1, Zenon DEF UpGrows
<1>4. cst' = "new" => cst = "new"
  BY Zenon
<1>5. cst' \in {"pump", "write"} => cst \in {"pump", "write"}
  BY Zenon
<1>6. up = <<>> => cst' \in {"new", "ended"}
  BY <1>5, Zenon DEF UpShape
<1>7. UpShape'
  BY <1>1, <1>4, <1>5, <1>6, Zenon DEF UpShape
<1> QED
  BY <1>3, <1>7, Zenon

\* The session-open file: Connect and the bytes that are there.
LEMMA ShapeOpen ==
  ASSUME Counted, TypeOK, UpShape, Open PROVE UpShape' /\ UpGrows
<1>1. up = <<>> /\ open = 0 /\ ~readclosed /\ cst = "new" /\ (readclosed' <=> readclosed)
  BY Zenon DEF Open, UpShape
<1>2. CASE Ended("error") /\ KeepUp /\ UNCHANGED open
  <2>1. cst' = "ended" /\ UNCHANGED <<up, readclosed, open>>
    BY <1>2, Zenon DEF Ended, KeepUp, Open
  <2>2. Sent' = Sent /\ Sent \in 0..MaxUp /\ open <= Len(up)
    BY <2>1, Zenon DEF Sent, UpShape
  <2>3. UpShape'
    BY <1>1, <2>1, <2>2 DEF UpShape
  <2>4. UpGrows
    BY <1>1, <2>1, <2>2, UpTyped, Constants DEF UpGrows
  <2> QED
    BY <2>3, <2>4, Zenon
<1>3. ASSUME NEW preface \in 0..(IF MaxUp = 0 THEN 0 ELSE 1), cst' = "pump",
             open' = 1 + preface, up' = <<"connect">> \o [k \in 1..preface |-> "data"]
      PROVE  UpShape' /\ UpGrows
  <2>1. preface \in Nat /\ preface <= 1 /\ preface <= MaxUp
    BY Constants
  <2>2. /\ up' \in Seq(Kinds) /\ Len(up') = 1 + preface /\ up'[1] = "connect" /\ up' # <<>>
        /\ preface = 1 => up'[2] = "data"
    <3>1. [k \in 1..preface |-> "data"] \in Seq(Kinds) /\ Len([k \in 1..preface |-> "data"]) = preface
      BY <2>1 DEF Kinds
    <3>2. <<"connect">> \in Seq(Kinds) /\ Len(<<"connect">>) = 1
      BY DEF Kinds
    <3> QED
      BY <1>3, <2>1, <3>1, <3>2
  <2>3. \A k \in 1..Len(up') : (up'[k] = "data" <=> k \in 2..(preface + 1)) /\ up'[k] # "eof"
    BY <2>1, <2>2
  <2>4. Sent' = preface
    BY <2>1, <2>2, <2>3, DataCounted DEF Sent
  <2> HIDE DEF Sent
  <2>5. UpShape'
    BY <1>1, <1>3, <2>1, <2>2, <2>3, <2>4, Constants DEF UpShape
  <2>6. Sent = 0
    <3>1. DataIn(up) = 0
      <4>1. 0 \in Nat /\ \A k \in 1..Len(up) : up[k] = "data" <=> k \in 2..(0 + 1)
        BY <1>1
      <4> QED
        BY <4>1, UpTyped, DataCounted, Zenon
    <3> QED
      BY <3>1, Zenon DEF Sent
  <2>7. UpGrows
    BY <1>1, <2>1, <2>2, <2>4, <2>6 DEF UpGrows
  <2> QED
    BY <2>5, <2>7, Zenon
<1> QED
  BY <1>2, <1>3, Zenon DEF Open

\* Every step keeps the shape of the client's frames.
LEMMA UpNext ==
  ASSUME Counted, TypeOK, UpShape, [Next]_vars
  PROVE  UpShape' /\ UpGrows
<1>1. CASE Open
  BY <1>1, ShapeOpen, Zenon
<1>2. CASE ClientTake
  <2>1. cst = "pump" /\ UNCHANGED <<readclosed, open>>
    BY <1>2, Zenon DEF ClientTake
  <2>2. CASE KeepUp
    <3>1. cst' \in {"pump", "write", "ended"} /\ up' = up
      BY <1>2, <2>1, <2>2, Zenon DEF ClientTake, Ended, KeepUp
    <3> QED
      BY <2>1, <3>1, ShapeSame, Zenon
  <2>3. CASE Ended("eofs") /\ PushUp(<<"close">>)
    <3>1. Ending(<<"close">>)
      BY <2>1, <2>3, Zenon DEF Ending, Ended, PushUp
    <3> QED
      BY <2>1, <3>1, ShapeTail, Zenon
  <2> QED
    BY <1>2, <2>2, <2>3, Zenon DEF ClientTake
<1>3. CASE ClientWrite
  <2>1. cst = "write" /\ UNCHANGED <<readclosed, open>>
    BY <1>3, Zenon DEF ClientWrite
  <2>2. CASE cst' = "pump" /\ KeepUp
    <3>1. up' = up
      BY <2>2, Zenon DEF KeepUp
    <3> QED
      BY <2>1, <2>2, <3>1, ShapeSame, Zenon
  <2>3. CASE Ended("error") /\ PushUp(<<"close">>)
    <3>1. Ending(<<"close">>)
      BY <2>1, <2>3, Zenon DEF Ending, Ended, PushUp
    <3> QED
      BY <2>1, <3>1, ShapeTail, Zenon
  <2> QED
    BY <1>3, <2>2, <2>3, Zenon DEF ClientWrite
<1>4. CASE ClientRead
  <2>1. cst = "pump" /\ ~readclosed /\ open' = open
    BY <1>4, Zenon DEF ClientRead
  <2>2. CASE DataIn(up) < MaxUp /\ PushUp(<<"data">>) /\ UNCHANGED <<readclosed, cst, cend>>
    BY <2>1, <2>2, ShapeData, Zenon DEF PushUp, Sent
  <2>3. CASE /\ PushUp(AtEof(EndsAfterBoth)) /\ readclosed' = TRUE
             /\ IF EndsAfterBoth THEN Ended("eofs") ELSE UNCHANGED <<cst, cend>>
    <3>1. Ending(AtEof(EndsAfterBoth))
      BY <2>1, <2>3, Zenon DEF Ending, Ended, PushUp, AtEof
    <3> QED
      BY <2>1, <3>1, ShapeTail, Zenon
  <2>4. CASE PushUp(<<"close">>) /\ Ended("error") /\ UNCHANGED readclosed
    <3>1. Ending(<<"close">>)
      BY <2>1, <2>4, Zenon DEF Ending, Ended, PushUp
    <3> QED
      BY <2>1, <3>1, ShapeTail, Zenon
  <2> QED
    BY <1>4, <2>2, <2>3, <2>4, Zenon DEF ClientRead
<1>5. ASSUME UNCHANGED <<up, readclosed, open, cst>>
      PROVE  UpShape' /\ UpGrows
  <2>1. UNCHANGED <<up, readclosed, open>> /\ cst' = cst
    BY <1>5
  <2> QED
    BY <2>1, ShapeSame, Zenon
<1>6. CASE \/ Unregister \/ Bootstrap \/ StartSend \/ Send \/ SendFails \/ CursorPasses
           \/ DriverConnect \/ Dial \/ DriverTake \/ DriverWrite \/ DriverRead
           \/ IdleTimeout \/ Collect \/ Evict \/ Restart \/ UNCHANGED vars
  BY <1>5, <1>6, Zenon DEF Unregister, Bootstrap, StartSend, Send, SendFails, CursorPasses,
     DriverConnect, Dial, DriverTake, DriverWrite, DriverRead, IdleTimeout, Collect, Evict, Restart,
     vars, client
<1>7. CASE \/ \E f \in downfiles : ClientDeliver(f) \/ ClientDelete(f)
           \/ \E f \in upfiles : RelayDelete(f)
           \/ SomeUp \/ SomeDown
  BY <1>5, <1>7, Zenon DEF ClientDeliver, ClientDelete, RelayDelete, SomeUp, SomeDown, SweepUp, SweepDown, client
<1> QED
  BY <1>1, <1>2, <1>3, <1>4, <1>6, <1>7, Zenon DEF Next

-----------------------------------------------------------------------------
(* The driver's mailbox, and what it wrote.                                *)

\* The types of the relay's numbers and of the driver's mailbox.
LEMMA RelayTyped ==
  ASSUME TypeOK
  PROVE  /\ rbox \in Seq(Kinds) /\ Len(rbox) \in Nat /\ rwindow \in Nat /\ rwindow <= Len(up)
         /\ written \in Nat /\ read \in Nat /\ rseq \in Nat /\ driver \in Nat
         /\ peerwritable \in BOOLEAN /\ tcpclosed \in BOOLEAN
<1>1. /\ rbox \in Seq(Kinds) /\ rwindow \in 0..Len(up) /\ written \in 0..MaxUp /\ read \in 0..MaxDown
      /\ rseq \in 0..(MaxDown + 2) /\ driver \in 0..MaxDrivers
      /\ peerwritable \in BOOLEAN /\ tcpclosed \in BOOLEAN
  BY Zenon DEF TypeOK
<1>2. Len(rbox) \in Nat
  BY <1>1
<1>3. /\ rwindow \in Nat /\ rwindow <= Len(up) /\ written \in Nat /\ read \in Nat /\ rseq \in Nat
      /\ driver \in Nat
  BY <1>1, UpTyped, Constants
<1> QED
  BY <1>1, <1>2, <1>3, Zenon

\* The number of data frames.
LEMMA SentTyped == ASSUME UpShape PROVE Sent \in Nat /\ Sent <= MaxUp
<1>1. Sent \in 0..MaxUp
  BY Zenon DEF UpShape
<1> QED
  BY <1>1, Constants

\* The number of data frames after a step.
LEMMA SentTypedNext == ASSUME UpShape' PROVE Sent' \in Nat /\ Sent' <= MaxUp
<1>1. Sent' \in 0..MaxUp
  BY Zenon DEF UpShape
<1> QED
  BY <1>1, Constants

\* The steps that leave the mailbox and its window.
LEMMA BoxSame ==
  ASSUME TypeOK, RelayBox, UpGrows, UNCHANGED <<rwindow, rbox>>, sending' = sending \/ sending' = NoFrame
  PROVE  RelayBox' /\ Taken' = Taken
<1>1. Taken' = Taken
  BY Zenon DEF Taken
<1>2. \A k \in 1..Len(rbox) : Taken + k \in 1..Len(up)
  BY SMTT(60), RelayTyped, UpTyped DEF RelayBox, Taken
<1> QED
  BY <1>1, <1>2, Zenon DEF RelayBox, UpGrows

\* The steps that empty the mailbox.
LEMMA BoxEmpty ==
  ASSUME rwindow' \in Nat, rbox' = <<>>, sending' # NoFrame => sending' = rwindow'
  PROVE  RelayBox'
<1>1. Len(rbox') = 0
  OBVIOUS
<1>2. Taken' \in 0..rwindow'
  <2>1. Taken' = rwindow' - 0
    BY <1>1, Zenon DEF Taken
  <2>2. \A n \in Nat : n - 0 \in 0..n
    OBVIOUS
  <2> QED
    BY <2>1, <2>2, Zenon
<1>3. \A k \in 1..Len(rbox') : rbox'[k] = up'[Taken' + k]
  BY <1>1
<1> QED
  BY <1>2, <1>3, Zenon DEF RelayBox

\* A frame is taken out of the mailbox.
LEMMA BoxTaken ==
  ASSUME TypeOK, RelayBox, UNCHANGED <<rwindow, sending, up>>, rbox # <<>>, rbox' = Tail(rbox)
  PROVE  /\ RelayBox' /\ Taken' = Taken + 1 /\ Taken \in Nat /\ Taken < rwindow
         /\ Head(rbox) = up[Taken + 1]
<1>1. /\ Len(rbox') = Len(rbox) - 1 /\ Len(rbox) >= 1 /\ Head(rbox) = rbox[1]
      /\ \A i \in 1..(Len(rbox) - 1) : rbox'[i] = rbox[i + 1]
  BY RelayTyped, TailProperties, Zenon
<1>2. Taken' = Taken + 1 /\ Taken \in Nat /\ Taken < rwindow
  <2>1. Taken \in 0..rwindow
    BY Zenon DEF RelayBox
  <2> QED
    BY <1>1, <2>1, RelayTyped DEF Taken
<1>3. \A k \in 1..Len(rbox) : rbox[k] = up[Taken + k]
  BY Zenon DEF RelayBox
<1>4. Taken' \in 0..rwindow
  BY <1>2, RelayTyped
<1>5. \A k \in 1..Len(rbox') : rbox'[k] = up[Taken' + k]
  <2> HIDE DEF Taken
  <2> SUFFICES ASSUME NEW k \in 1..Len(rbox') PROVE rbox'[k] = up[Taken' + k]
    OBVIOUS
  <2>1. k \in 1..(Len(rbox) - 1) /\ k + 1 \in 1..Len(rbox) /\ Taken + (k + 1) = Taken' + k
    BY <1>1, <1>2, RelayTyped
  <2> QED
    BY <1>1, <1>3, <2>1
<1>6. rbox[1] = up[Taken + 1]
  BY <1>1, <1>3, RelayTyped
<1> QED
  BY <1>1, <1>2, <1>4, <1>5, <1>6, Zenon DEF RelayBox

\* A frame is put into the mailbox.
LEMMA BoxSent ==
  ASSUME TypeOK, RelayBox, Send PROVE RelayBox' /\ Taken' = Taken
<1>1. /\ sending = rwindow /\ rbox' = Append(rbox, up[rwindow + 1]) /\ rwindow' = rwindow + 1
      /\ up' = up /\ (sending' = sending + 1 \/ sending' = NoFrame)
  BY Zenon DEF Send, RelayBox, client
<1>2. sending \in NoFrame..(Len(up) - 1)
  BY Zenon DEF TypeOK
<1>3. rwindow + 1 \in 1..Len(up)
  BY <1>1, <1>2, RelayTyped, UpTyped
<1>4. up[rwindow + 1] \in Kinds
  BY <1>3, UpTyped
<1>5. /\ Len(rbox') = Len(rbox) + 1 /\ rbox'[Len(rbox) + 1] = up[rwindow + 1]
      /\ \A i \in 1..Len(rbox) : rbox'[i] = rbox[i]
  <2> DEFINE e == up[rwindow + 1]
  <2>1. e \in Kinds /\ rbox' = Append(rbox, e) /\ rbox \in Seq(Kinds)
    BY <1>1, <1>4, RelayTyped, Zenon
  <2> HIDE DEF e
  <2>2. /\ Len(rbox') = Len(rbox) + 1 /\ rbox'[Len(rbox) + 1] = e
        /\ \A i \in 1..Len(rbox) : rbox'[i] = rbox[i]
    BY <2>1, AppendProperties
  <2> QED
    BY <2>2, Zenon DEF e
<1>6. Taken' = Taken /\ Taken + (Len(rbox) + 1) = rwindow + 1
  BY SMTT(60), <1>1, <1>5, RelayTyped DEF Taken
<1>7. Taken \in 0..rwindow /\ \A k \in 1..Len(rbox) : rbox[k] = up[Taken + k]
  BY Zenon DEF RelayBox
<1>8. \A k \in 1..Len(rbox') : rbox'[k] = up[Taken + k]
  <2> SUFFICES ASSUME NEW k \in 1..Len(rbox') PROVE rbox'[k] = up[Taken + k]
    OBVIOUS
  <2>1. k \in 1..Len(rbox) \/ k = Len(rbox) + 1
    BY SMTT(60), <1>5, RelayTyped
  <2> QED
    BY <1>5, <1>6, <1>7, <2>1, Zenon
<1>9. Taken \in 0..(rwindow + 1)
  BY <1>7, RelayTyped
<1> QED
  BY <1>1, <1>6, <1>8, <1>9, Zenon DEF RelayBox

\* The steps on which the driver writes nothing and takes nothing, or ends.
LEMMA WrittenSame ==
  ASSUME TypeOK, UpShape, UpShape', WrittenPlace, UpGrows, UNCHANGED <<peerwritable, written>>,
         \/ drv' = drv /\ Taken' = Taken
         \/ drv' \in {None, "done"}
  PROVE  WrittenPlace'
<1>1. Sent \in Nat /\ Sent' \in Nat /\ Sent <= Sent' /\ (readclosed => readclosed' /\ Sent' = Sent)
  BY SentTyped, SentTypedNext, Zenon DEF UpGrows
<1>2. ~peerwritable => readclosed' /\ written = Sent'
  BY <1>1, Zenon DEF WrittenPlace
<1>3. CASE drv' = drv /\ Taken' = Taken
  <2>1. ASSUME drv \in {"pump", "write"}, peerwritable PROVE Taken <= Sent' + 1
    <3>1. Taken <= Sent + 1 /\ (written + 1 = Taken \/ written + 2 = Taken)
      BY <2>1, Zenon DEF WrittenPlace
    <3> QED
      BY SMTT(60), <1>1, <3>1, RelayTyped
  <2> QED
    BY <1>2, <1>3, <2>1, Zenon DEF WrittenPlace
<1>4. CASE drv' \in {None, "done"}
  <2>1. drv' \notin {"wait", "dial", "pump", "write"}
    BY <1>4, Zenon DEF None
  <2> QED
    BY <1>2, <2>1, Zenon DEF WrittenPlace
<1> QED
  BY <1>3, <1>4, Zenon

\* The driver takes a frame.
LEMMA TakePlace ==
  ASSUME TypeOK, UpShape, RelayBox, WrittenPlace, DriverTake
  PROVE  RelayBox' /\ WrittenPlace'
<1>1. /\ drv = "pump" /\ rbox # <<>> /\ rbox' = Tail(rbox)
      /\ UNCHANGED <<up, readclosed, rwindow, sending, written>>
  BY Zenon DEF DriverTake, client
<1>2. Sent' = Sent /\ Sent \in Nat
  BY <1>1, SentTyped, Zenon DEF Sent
<1>3. RelayBox' /\ Taken' = Taken + 1 /\ Taken \in Nat /\ Taken < rwindow /\ Head(rbox) = up[Taken + 1]
  BY <1>1, BoxTaken, Zenon
<1> HIDE DEF Taken, Sent
<1>4. Taken + 1 \in 1..Len(up) /\ up # <<>> /\ Taken >= 1
  <2>1. Taken >= 1
    BY <1>1, Zenon DEF WrittenPlace
  <2> QED
    BY <1>3, <2>1, RelayTyped, UpTyped
<1>5. /\ up[Taken + 1] = "data" => Taken + 1 \in 2..(Sent + 1)
      /\ up[Taken + 1] = "eof" => readclosed /\ Taken + 1 = Sent + 2
  BY <1>4, Zenon DEF UpShape
<1>6. /\ peerwritable => written + 1 = Taken
      /\ ~peerwritable => readclosed /\ written = Sent
  BY <1>1, Zenon DEF WrittenPlace
<1>7. CASE Head(rbox) = "data" /\ UNCHANGED peerwritable /\ drv' = IF peerwritable THEN "write" ELSE drv
  <2>1. Taken + 1 <= Sent + 1 /\ Taken + 1 >= 1
    BY <1>2, <1>3, <1>5, <1>7
  <2>2. peerwritable => written + 2 = Taken + 1
    BY SMTT(60), <1>3, <1>6, RelayTyped
  <2> QED
    BY <1>1, <1>2, <1>3, <1>6, <1>7, <2>1, <2>2, Zenon DEF WrittenPlace
<1>8. CASE Head(rbox) = "eof" /\ peerwritable' = FALSE /\ drv' \in {"pump", "done"}
  <2>1. readclosed /\ Taken + 1 = Sent + 2
    BY <1>3, <1>5, <1>8, Zenon
  <2>2. written = Sent /\ Taken + 1 >= 1
    BY SMTT(60), <1>2, <1>3, <1>6, <2>1, RelayTyped
  <2> QED
    BY <1>1, <1>2, <1>3, <1>8, <2>1, <2>2, Zenon DEF WrittenPlace
<1>9. CASE drv' = "done" /\ UNCHANGED peerwritable
  BY <1>1, <1>2, <1>3, <1>6, <1>9, Zenon DEF WrittenPlace
<1> QED
  BY <1>1, <1>7, <1>8, <1>9, Zenon DEF DriverTake

\* Every step keeps the mailbox and what the driver wrote in place.
LEMMA PlaceNext ==
  ASSUME TypeOK, UpShape, UpShape', UpGrows, RelayBox, WrittenPlace, [Next]_vars
  PROVE  RelayBox' /\ WrittenPlace'
<1>1. ASSUME UNCHANGED <<rwindow, rbox>>, UNCHANGED <<peerwritable, written>>,
             sending' = sending \/ sending' = NoFrame, drv' = drv \/ drv' \in {None, "done"}
      PROVE  RelayBox' /\ WrittenPlace'
  BY <1>1, BoxSame, WrittenSame, Zenon
<1>2. CASE Open \/ ClientTake \/ ClientWrite \/ ClientRead \/ Unregister \/ CursorPasses
           \/ IdleTimeout \/ Collect \/ UNCHANGED vars
  <2>1. UNCHANGED <<rwindow, rbox>> /\ UNCHANGED <<peerwritable, written>> /\ sending' = sending /\ drv' = drv
    BY <1>2, Zenon DEF Open, ClientTake, ClientWrite, ClientRead, Unregister, CursorPasses,
       IdleTimeout, Collect, vars, inbox, task
  <2> QED
    BY <1>1, <2>1, Zenon
<1>3. CASE \/ \E f \in downfiles : ClientDeliver(f) \/ ClientDelete(f)
           \/ \E f \in upfiles : RelayDelete(f)
           \/ SomeUp \/ SomeDown
  <2>1. UNCHANGED <<rwindow, rbox>> /\ UNCHANGED <<peerwritable, written>> /\ sending' = sending /\ drv' = drv
    BY <1>3, Zenon DEF ClientDeliver, ClientDelete, RelayDelete, SomeUp, SomeDown, SweepUp, SweepDown, inbox, task
  <2> QED
    BY <1>1, <2>1, Zenon
<1>4. CASE SendFails \/ DriverRead
  <2>1. UNCHANGED <<rwindow, rbox>> /\ UNCHANGED <<peerwritable, written>>
    BY <1>4, Zenon DEF SendFails, DriverRead, inbox, task
  <2>2. (sending' = sending \/ sending' = NoFrame) /\ (drv' = drv \/ drv' \in {None, "done"})
    BY <1>4, Zenon DEF SendFails, DriverRead, inbox, task
  <2> QED
    BY <1>1, <2>1, <2>2, Zenon
<1>5. CASE StartSend
  <2>1. UNCHANGED <<rwindow, rbox>> /\ UNCHANGED <<peerwritable, written>> /\ sending' = rwindow /\ drv' = drv
    BY <1>5, Zenon DEF StartSend, task
  <2>2. Taken' = Taken
    BY <2>1, Zenon DEF Taken
  <2>3. up' = up
    BY <1>5, Zenon DEF StartSend, client
  <2>4. RelayBox'
    BY <2>1, <2>2, <2>3, Zenon DEF RelayBox
  <2> QED
    BY <2>1, <2>2, <2>4, WrittenSame, Zenon
<1>6. CASE Send
  <2>1. UNCHANGED <<peerwritable, written>> /\ drv' = drv
    BY <1>6, Zenon DEF Send, task
  <2> QED
    BY <1>6, <2>1, BoxSent, WrittenSame, Zenon
<1>7. CASE Bootstrap
  <2>1. /\ sending' = NoFrame /\ rwindow' = 0 /\ rbox' = <<>> /\ drv' = "wait" /\ written' = 0
        /\ peerwritable' = TRUE
    BY <1>7, Zenon DEF Bootstrap
  <2>2. RelayBox'
    BY <2>1, BoxEmpty
  <2>3. Taken' = 0
    <3>1. Len(rbox') = 0
      BY <2>1
    <3>2. Taken' = 0 - 0
      BY <2>1, <3>1, Zenon DEF Taken
    <3> QED
      BY <3>2
  <2> QED
    BY <2>1, <2>2, <2>3, Zenon DEF WrittenPlace
<1>8. CASE DriverConnect
  <2>1. /\ drv = "wait" /\ drv' = "dial" /\ rbox # <<>> /\ rbox' = Tail(rbox)
        /\ UNCHANGED <<rwindow, sending, up>> /\ written' = written /\ peerwritable' = peerwritable
    BY <1>8, Zenon DEF DriverConnect, client
  <2>2. RelayBox' /\ Taken' = Taken + 1
    BY <2>1, BoxTaken, Zenon
  <2>3. Taken = 0 /\ written = 0 /\ peerwritable
    BY <2>1, Zenon DEF WrittenPlace
  <2>4. Taken' = 1
    BY <2>2, <2>3
  <2> QED
    BY <2>1, <2>2, <2>3, <2>4, Zenon DEF WrittenPlace
<1>9. CASE Dial
  <2>1. /\ drv = "dial" /\ drv' \in {"pump", "done"} /\ UNCHANGED <<rwindow, rbox>> /\ sending' = sending
        /\ UNCHANGED <<peerwritable, written>>
    BY <1>9, Zenon DEF Dial, inbox
  <2>2. RelayBox' /\ Taken' = Taken
    BY <2>1, BoxSame, Zenon
  <2>3. Taken = 1 /\ written = 0 /\ peerwritable
    BY <2>1, Zenon DEF WrittenPlace
  <2>4. 0 + 1 = 1 /\ 1 <= Sent' + 1 /\ 1 >= 1
    BY SentTypedNext
  <2> QED
    BY <2>1, <2>2, <2>3, <2>4, Zenon DEF WrittenPlace
<1>10. CASE DriverTake
  BY <1>10, TakePlace, Zenon
<1>11. CASE DriverWrite
  <2>1. /\ drv = "write" /\ UNCHANGED <<rwindow, rbox>> /\ sending' = sending /\ peerwritable' = peerwritable
        /\ up' = up /\ readclosed' = readclosed
    BY <1>11, Zenon DEF DriverWrite, inbox, client
  <2>2. RelayBox' /\ Taken' = Taken /\ Sent' = Sent
    BY <2>1, BoxSame, Zenon DEF Sent
  <2>3. peerwritable /\ written + 2 = Taken /\ Taken <= Sent + 1
    BY <2>1, Zenon DEF WrittenPlace
  <2>4. (written + 1) + 1 = Taken /\ Taken >= 1
    BY <2>3, RelayTyped
  <2>5. (drv' = "pump" /\ written' = written + 1) \/ (drv' = "done" /\ written' = written)
    BY <1>11, Zenon DEF DriverWrite, WriteFailed
  <2> QED
    BY <2>1, <2>2, <2>3, <2>4, <2>5, Zenon DEF WrittenPlace
<1>12. CASE Evict \/ Restart
  <2>1. /\ drv' = None /\ rbox' = <<>> /\ rwindow' = rwindow /\ UNCHANGED <<peerwritable, written>>
        /\ sending' = sending \/ sending' = NoFrame
    BY <1>12, Zenon DEF Evict, Restart, Abort
  <2>2. RelayBox'
    <3>1. sending' # NoFrame => sending' = rwindow'
      BY <2>1, Zenon DEF RelayBox
    <3> QED
      BY <2>1, <3>1, BoxEmpty, RelayTyped, Zenon
  <2> QED
    BY <2>1, <2>2, WrittenSame, Zenon
<1> QED
  BY <1>2, <1>3, <1>4, <1>5, <1>6, <1>7, <1>8, <1>9, <1>10, <1>11, <1>12, Zenon DEF Next

-----------------------------------------------------------------------------
(* The downlink.                                                           *)

\* The types of the client's mailbox and of what it gave to the socket.
LEMMA ClientTyped ==
  ASSUME TypeOK
  PROVE  /\ cbox \in Seq(DownFrame) /\ Len(cbox) \in Nat /\ cwindow \in Nat
         /\ got \in Seq(1..MaxDrivers) /\ Len(got) \in Nat /\ downfiles \subseteq DownFrame
         /\ writable \in BOOLEAN
<1>1. /\ cbox \in Seq(DownFrame) /\ cwindow \in 0..(MaxDown + 2) /\ got \in Seq(1..MaxDrivers)
      /\ downfiles \subseteq DownFrame /\ writable \in BOOLEAN
  BY Zenon DEF TypeOK
<1>2. Len(cbox) \in Nat /\ Len(got) \in Nat
  BY <1>1
<1>3. cwindow \in Nat
  BY <1>1, Constants
<1> QED
  BY <1>1, <1>2, <1>3, Zenon

\* The seq, the kind and the driver of a frame.
LEMMA FrameTyped ==
  ASSUME NEW f \in DownFrame
  PROVE  /\ f.seq \in Nat /\ f.seq <= MaxDown + 1 /\ f.kind \in {"data", "eof", "close"}
         /\ f.driver \in 1..MaxDrivers
<1>1. f.seq \in 0..(MaxDown + 1) /\ f.kind \in Kinds \ {"connect"} /\ f.driver \in 1..MaxDrivers
  BY DEF DownFrame
<1>2. f.seq \in Nat /\ f.seq <= MaxDown + 1
  BY <1>1, Constants
<1> QED
  BY <1>1, <1>2, Zenon DEF Kinds

\* The driver reads: the frames it pushed before are data.
Reading == drv = "pump" /\ ~tcpclosed /\ read <= read' /\ rseq <= rseq'

\* The driver reads nothing, and does not start.
NoRead == UNCHANGED <<read, tcpclosed>> /\ rseq <= rseq' /\ (Alive' => Alive)

\* A frame that was pushed stays what it is.
LEMMA FrameStays ==
  ASSUME TypeOK, DownlinkPlace, rseq' \in Nat, read' \in Nat, Reading \/ NoRead, NEW f \in DownFrame, FrameOk(f)
  PROVE  FrameOk(f)'
<1>1. f.seq \in Nat /\ read \in Nat /\ rseq \in Nat
  BY FrameTyped, RelayTyped, Zenon
<1>2. /\ f.seq < rseq /\ (f.kind = "data" <=> f.seq < read)
      /\ f.kind = "eof" => tcpclosed /\ f.seq = read
      /\ f.kind = "close" => ~Alive
      /\ f.kind = "close" /\ tcpclosed => f.seq = read + 1
      /\ f.kind = "close" /\ ~tcpclosed => f.seq = read
  BY Zenon DEF FrameOk
<1>3. CASE Reading
  <2>1. rseq = read /\ read <= read' /\ rseq <= rseq'
    BY <1>3, Zenon DEF Reading, DownlinkPlace
  <2>2. f.seq < read /\ f.seq < read' /\ f.seq < rseq'
    BY <1>1, <1>2, <2>1
  <2> QED
    BY <1>2, <2>2, Zenon DEF FrameOk
<1>4. CASE NoRead
  <2>1. read' = read /\ tcpclosed' = tcpclosed /\ rseq <= rseq' /\ (Alive' => Alive)
    BY <1>4, Zenon DEF NoRead
  <2>2. f.seq < rseq'
    BY <1>1, <1>2, <2>1
  <2> QED
    BY <1>2, <2>1, <2>2, Zenon DEF FrameOk
<1> QED
  BY <1>3, <1>4, Zenon

\* A step of the relay keeps what the client has, when the frames it pushes are
\* what their seqs say.
LEMMA ClientKept ==
  ASSUME TypeOK, DownlinkPlace, ClientPlace, rseq' \in Nat, read' \in Nat, Reading \/ NoRead, driver' = driver,
         UNCHANGED <<cbox, cwindow, writable, cend, got>>,
         driver <= 1 => \A f \in downfiles' : f \in downfiles \/ FrameOk(f)'
  PROVE  ClientPlace'
<1> SUFFICES ASSUME driver <= 1
             PROVE  /\ \A f \in downfiles' : FrameOk(f)'
                    /\ \A k \in 1..Len(cbox) : FrameOk(cbox[k])'
                    /\ writable /\ cend # "closed" => Len(got) = Consumed' /\ Consumed' <= read'
                    /\ ~writable => tcpclosed' /\ Len(got) = read'
                    /\ cend = "closed" => ~Alive' /\ Len(got) = read'
                    /\ cend = "eofs" => ~writable
  BY Zenon DEF ClientPlace, FrameOk
<1>1. /\ \A f \in downfiles : FrameOk(f)
      /\ \A k \in 1..Len(cbox) : FrameOk(cbox[k])
      /\ writable /\ cend # "closed" => Len(got) = Consumed /\ Consumed <= read
      /\ ~writable => tcpclosed /\ Len(got) = read
      /\ cend = "closed" => ~Alive /\ Len(got) = read
      /\ cend = "eofs" => ~writable
  BY Zenon DEF ClientPlace
<1>2. \A f \in downfiles' : FrameOk(f)'
  BY <1>1, ClientTyped, FrameStays, Zenon
<1>3. \A k \in 1..Len(cbox) : FrameOk(cbox[k])'
  <2>1. \A k \in 1..Len(cbox) : cbox[k] \in DownFrame
    BY ClientTyped
  <2> QED
    BY <1>1, <2>1, FrameStays, Zenon
<1>4. Consumed' = Consumed
  BY Zenon DEF Consumed
<1>5. CASE Reading
  <2>1. ~tcpclosed /\ Alive
    BY <1>5, Zenon DEF Reading, Alive
  <2>2. Consumed <= read => Consumed <= read'
    BY SMTT(60), <1>5, ClientTyped, RelayTyped DEF Reading, Consumed
  <2> QED
    BY <1>1, <1>2, <1>3, <1>4, <2>1, <2>2, Zenon
<1>6. CASE NoRead
  BY <1>1, <1>2, <1>3, <1>4, <1>6, Zenon DEF NoRead
<1> QED
  BY <1>5, <1>6, Zenon

\* The frames a step pushes, when all or all but one land.
LEMMA Landed ==
  ASSUME NEW new, Lands(downfiles, new)
  PROVE  \A f \in downfiles' : f \in downfiles \/ f \in new
BY Zenon DEF Lands

\* What the driver pushes, by kind.
Frame(seq, kind) == [seq |-> seq, kind |-> kind, driver |-> driver]

\* The fields of a frame.
LEMMA FrameFields ==
  ASSUME NEW seq, NEW kind PROVE Frame(seq, kind).seq = seq /\ Frame(seq, kind).kind = kind
BY Zenon DEF Frame

\* One frame is pushed.
LEMMA PushOne ==
  ASSUME TypeOK, NEW kind \in {"data", "eof", "close"}, PushDown(<<kind>>)
  PROVE  rseq' = rseq + 1 /\ \A f \in downfiles' : f \in downfiles \/ (f.seq = rseq /\ f.kind = kind)
<1>1. DOMAIN <<kind>> = {1} /\ Len(<<kind>>) = 1 /\ <<kind>>[1] = kind
  OBVIOUS
<1>2. rseq + 1 - 1 = rseq
  BY RelayTyped
<1>3. {[seq |-> rseq + k - 1, kind |-> <<kind>>[k], driver |-> driver] : k \in DOMAIN <<kind>>} = {Frame(rseq, kind)}
  BY <1>1, <1>2, Zenon DEF Frame
<1>4. rseq' = rseq + 1 /\ \A f \in downfiles' : f \in downfiles \/ f = Frame(rseq, kind)
  BY <1>1, <1>3, Landed, Zenon DEF PushDown
<1>5. Frame(rseq, kind).seq = rseq /\ Frame(rseq, kind).kind = kind
  BY FrameFields, Zenon
<1> QED
  BY <1>4, <1>5, Zenon

\* Eof and Close are pushed.
LEMMA PushTwo ==
  ASSUME TypeOK, PushDown(<<"eof", "close">>)
  PROVE  /\ rseq' = rseq + 2
         /\ \A f \in downfiles' : \/ f \in downfiles \/ (f.seq = rseq /\ f.kind = "eof")
                                 \/ (f.seq = rseq + 1 /\ f.kind = "close")
<1> DEFINE pair == <<"eof", "close">>
<1>1. DOMAIN pair = {1, 2} /\ Len(pair) = 2 /\ pair[1] = "eof" /\ pair[2] = "close"
  OBVIOUS
<1>2. rseq + 1 - 1 = rseq /\ rseq + 2 - 1 = rseq + 1
  BY RelayTyped
<1>3. PushDown(pair)
  OBVIOUS
<1> HIDE DEF pair
<1>4. {[seq |-> rseq + k - 1, kind |-> pair[k], driver |-> driver] : k \in DOMAIN pair}
        = {Frame(rseq, "eof"), Frame(rseq + 1, "close")}
  BY <1>1, <1>2, Zenon DEF Frame
<1>5. /\ rseq' = rseq + 2
      /\ \A f \in downfiles' : f \in downfiles \/ f = Frame(rseq, "eof") \/ f = Frame(rseq + 1, "close")
  BY <1>1, <1>3, <1>4, Landed, Zenon DEF PushDown
<1>6. /\ Frame(rseq, "eof").seq = rseq /\ Frame(rseq, "eof").kind = "eof"
      /\ Frame(rseq + 1, "close").seq = rseq + 1 /\ Frame(rseq + 1, "close").kind = "close"
  BY FrameFields, Zenon
<1> QED
  BY <1>5, <1>6, Zenon

\* A step of the relay that pushes nothing.
LEMMA QuietStep ==
  ASSUME TypeOK, DownlinkPlace, ClientPlace, UNCHANGED <<cbox, cwindow, writable, cend, got>>,
         UNCHANGED <<rseq, read, tcpclosed, driver>>, downfiles' \subseteq downfiles,
         \/ drv' = drv /\ entry' = entry
         \/ drv = "wait" /\ drv' = "dial" /\ entry' = entry
         \/ drv = "dial" /\ drv' = "pump" /\ entry' = entry
         \/ drv \in {"pump", "write"} /\ drv' \in {"pump", "write", "done"} /\ entry' = entry
         \/ drv' = None
  PROVE  DownlinkPlace' /\ ClientPlace'
<1>1. rseq' \in Nat /\ read' \in Nat /\ rseq <= rseq' /\ rseq' = rseq /\ read' = read /\ driver' = driver
  BY RelayTyped
<1>2. Alive' => Alive
  BY Zenon DEF Alive, None
<1>3. NoRead
  BY <1>1, <1>2, Zenon DEF NoRead
<1>4. ClientPlace'
  BY <1>1, <1>3, ClientKept, Zenon
<1>5. DownlinkPlace'
  BY <1>1, Zenon DEF DownlinkPlace, None
<1> QED
  BY <1>4, <1>5, Zenon

\* The driver ends and says so.
LEMMA CloseStep ==
  ASSUME TypeOK, DownlinkPlace, ClientPlace, UNCHANGED <<cbox, cwindow, writable, cend, got>>,
         UNCHANGED <<read, tcpclosed, driver, entry>>, drv \in {"dial", "pump"}, drv' = "done",
         drv = "dial" \/ tcpclosed, PushDown(<<"close">>)
  PROVE  DownlinkPlace' /\ ClientPlace'
<1>1. rseq' = rseq + 1 /\ \A f \in downfiles' : f \in downfiles \/ (f.seq = rseq /\ f.kind = "close")
  BY PushOne, Zenon
<1>2. (tcpclosed => rseq = read + 1) /\ (~tcpclosed => rseq = read) /\ driver >= 1 /\ entry
  BY Zenon DEF DownlinkPlace, None
<1>3. read \in Nat /\ rseq \in Nat /\ driver \in Nat
  BY RelayTyped, Zenon
<1>4. /\ rseq' \in Nat /\ read' \in Nat /\ rseq <= rseq' /\ driver # 0 /\ rseq < rseq'
      /\ rseq' <= read + 2 /\ ~(rseq < read)
  BY <1>1, <1>2, <1>3
<1>5. ~Alive'
  BY Zenon DEF Alive
<1>6. \A f : f.seq = rseq /\ f.kind = "close" => FrameOk(f)'
  BY <1>2, <1>4, <1>5, Zenon DEF FrameOk
<1>7. NoRead
  BY <1>4, <1>5, Zenon DEF NoRead
<1>8. ClientPlace'
  BY <1>1, <1>4, <1>6, <1>7, ClientKept, Zenon
<1>9. DownlinkPlace'
  BY <1>2, <1>4, Zenon DEF DownlinkPlace
<1> QED
  BY <1>8, <1>9, Zenon

\* A read from the destination.
LEMMA ReadStep ==
  ASSUME TypeOK, DownlinkPlace, ClientPlace, DriverRead
  PROVE  DownlinkPlace' /\ ClientPlace'
<1>1. /\ drv = "pump" /\ ~tcpclosed /\ UNCHANGED <<cbox, cwindow, writable, cend, got>>
      /\ driver' = driver /\ entry' = entry
  BY Zenon DEF DriverRead, client, table
<1>2. rseq = read /\ driver >= 1 /\ entry
  BY <1>1, Zenon DEF DownlinkPlace, None
<1>3. read \in Nat /\ rseq \in Nat /\ driver \in Nat
  BY RelayTyped, Zenon
<1>4. driver # 0
  BY <1>2, <1>3
<1>5. CASE read' = read + 1 /\ PushDown(<<"data">>) /\ UNCHANGED <<drv, tcpclosed>>
  <2>1. rseq' = rseq + 1 /\ \A f \in downfiles' : f \in downfiles \/ (f.seq = rseq /\ f.kind = "data")
    BY <1>5, PushOne, Zenon
  <2>2. /\ rseq' \in Nat /\ read' \in Nat /\ rseq <= rseq' /\ read <= read' /\ rseq' = read'
        /\ rseq < rseq' /\ rseq < read' /\ rseq' <= read' + 2
    BY <1>2, <1>3, <1>5, <2>1
  <2>3. Reading
    BY <1>1, <2>2, Zenon DEF Reading
  <2>4. \A f : f.seq = rseq /\ f.kind = "data" => FrameOk(f)'
    BY <2>2, Zenon DEF FrameOk
  <2>5. ClientPlace'
    BY <1>1, <2>1, <2>2, <2>3, <2>4, ClientKept, Zenon
  <2>6. DownlinkPlace'
    BY <1>1, <1>2, <1>4, <1>5, <2>2, Zenon DEF DownlinkPlace
  <2> QED
    BY <2>5, <2>6, Zenon
<1>6. CASE PushDown(<<"eof">>) /\ tcpclosed' = TRUE /\ UNCHANGED read /\ drv' = drv
  <2>1. rseq' = rseq + 1 /\ \A f \in downfiles' : f \in downfiles \/ (f.seq = rseq /\ f.kind = "eof")
    BY <1>6, PushOne, Zenon
  <2>2. /\ rseq' \in Nat /\ read' \in Nat /\ rseq <= rseq' /\ read <= read' /\ rseq' = read' + 1
        /\ rseq < rseq' /\ ~(rseq < read') /\ rseq = read' /\ rseq' <= read' + 2
    BY <1>2, <1>3, <1>6, <2>1
  <2>3. Reading
    BY <1>1, <2>2, Zenon DEF Reading
  <2>4. \A f : f.seq = rseq /\ f.kind = "eof" => FrameOk(f)'
    BY <1>6, <2>2, Zenon DEF FrameOk
  <2>5. ClientPlace'
    BY <1>1, <2>1, <2>2, <2>3, <2>4, ClientKept, Zenon
  <2>6. DownlinkPlace'
    BY <1>1, <1>2, <1>4, <1>6, <2>2, Zenon DEF DownlinkPlace
  <2> QED
    BY <2>5, <2>6, Zenon
<1>7. CASE PushDown(<<"eof", "close">>) /\ tcpclosed' = TRUE /\ UNCHANGED read /\ drv' = "done"
  <2>1. /\ rseq' = rseq + 2
        /\ \A f \in downfiles' : \/ f \in downfiles \/ (f.seq = rseq /\ f.kind = "eof")
                                \/ (f.seq = rseq + 1 /\ f.kind = "close")
    BY <1>7, PushTwo, Zenon
  <2>2. /\ rseq' \in Nat /\ read' \in Nat /\ rseq <= rseq' /\ read <= read' /\ rseq' <= read' + 2
        /\ rseq < rseq' /\ ~(rseq < read') /\ rseq = read' /\ rseq + 1 < rseq'
        /\ ~(rseq + 1 < read') /\ rseq + 1 = read' + 1
    BY <1>2, <1>3, <1>7, <2>1
  <2>3. Reading /\ ~Alive'
    BY <1>1, <1>7, <2>2, Zenon DEF Reading, Alive
  <2>4. /\ \A f : f.seq = rseq /\ f.kind = "eof" => FrameOk(f)'
        /\ \A f : f.seq = rseq + 1 /\ f.kind = "close" => FrameOk(f)'
    BY <1>7, <2>2, <2>3, Zenon DEF FrameOk
  <2>5. ClientPlace'
    BY <1>1, <2>1, <2>2, <2>3, <2>4, ClientKept, Zenon
  <2>6. DownlinkPlace'
    BY <1>1, <1>2, <1>4, <1>7, <2>2, Zenon DEF DownlinkPlace
  <2> QED
    BY <2>5, <2>6, Zenon
<1>8. CASE drv' = "done" /\ KeepDown /\ UNCHANGED <<read, tcpclosed>>
  <2>1. UNCHANGED <<rseq, read, tcpclosed, driver>> /\ downfiles' = downfiles
    BY <1>1, <1>8, Zenon DEF KeepDown
  <2>2. downfiles' \subseteq downfiles
    BY <2>1, Zenon
  <2> QED
    BY <1>1, <1>8, <2>1, <2>2, QuietStep, Zenon
<1> QED
  <2>1. CASE PushDown(AtEof(~peerwritable)) /\ tcpclosed' = TRUE /\ UNCHANGED <<read, idle>>
             /\ drv' = IF peerwritable THEN drv ELSE "done"
    <3>1. CASE peerwritable
      <4>1. AtEof(~peerwritable) = <<"eof">> /\ drv' = drv
        BY <2>1, <3>1, Zenon DEF AtEof
      <4>2. PICK kinds \in {<<"eof">>} : PushDown(kinds)
        <5>1. AtEof(~peerwritable) \in {<<"eof">>}
          BY <4>1, Zenon
        <5> QED
          BY <2>1, <5>1, Zenon DEF PushDown, Lands
      <4> QED
        BY <2>1, <4>1, <4>2, <1>6, Zenon
    <3>2. CASE ~peerwritable
      <4>1. AtEof(~peerwritable) = <<"eof", "close">> /\ drv' = "done"
        BY <2>1, <3>2, Zenon DEF AtEof
      <4>2. PICK kinds \in {<<"eof", "close">>} : PushDown(kinds)
        <5>1. AtEof(~peerwritable) \in {<<"eof", "close">>}
          BY <4>1, Zenon
        <5> QED
          BY <2>1, <5>1, Zenon DEF PushDown, Lands
      <4> QED
        BY <2>1, <4>1, <4>2, <1>7, Zenon
    <3> QED
      BY <3>1, <3>2, Zenon
  <2> QED
    BY <1>5, <1>8, <2>1, Zenon DEF DriverRead

\* A session starts: nothing of an earlier driver is there when it is the first.
LEMMA StartStep ==
  ASSUME TypeOK, DownlinkPlace, ClientPlace, Bootstrap
  PROVE  DownlinkPlace' /\ ClientPlace'
<1>1. /\ UNCHANGED <<cbox, cwindow, writable, cend, got>> /\ downfiles' = downfiles
      /\ driver' = driver + 1 /\ entry' = TRUE /\ drv' = "wait" /\ ~tcpclosed'
      /\ rseq' = 0 /\ read' = 0
  BY Zenon DEF Bootstrap, client
<1>2. driver \in Nat /\ driver' >= 1 /\ driver' # 0 /\ 0 <= 0 + 2 /\ (driver' <= 1 => driver = 0)
  BY <1>1, RelayTyped
<1>3. DownlinkPlace'
  BY <1>1, <1>2, Zenon DEF DownlinkPlace
<1>4. CASE driver' <= 1
  <2>1. driver = 0 /\ driver <= 1 /\ rseq = 0 /\ read = 0 /\ ~tcpclosed /\ cend # "closed"
    <3>1. driver = 0
      BY <1>2, <1>4, Zenon
    <3>2. driver <= 1
      BY <3>1
    <3> QED
      BY <3>1, <3>2, Zenon DEF DownlinkPlace
  <2>2. \A f \in DownFrame : ~FrameOk(f)
    <3> SUFFICES ASSUME NEW f \in DownFrame, FrameOk(f) PROVE FALSE
      BY Zenon
    <3>1. f.seq \in Nat /\ f.seq < 0
      BY <2>1, FrameTyped, Zenon DEF FrameOk
    <3> QED
      BY <3>1
  <2>3. downfiles = {} /\ \A k \in 1..Len(cbox) : FALSE
    <3>1. \A k \in 1..Len(cbox) : cbox[k] \in DownFrame
      BY ClientTyped
    <3> QED
      BY <2>1, <2>2, <3>1, ClientTyped, Zenon DEF ClientPlace
  <2>4. Consumed' = Consumed
    BY <1>1, Zenon DEF Consumed
  <2>5. writable /\ Len(got) = Consumed /\ Consumed <= 0 /\ cend # "eofs"
    BY <2>1, Zenon DEF ClientPlace
  <2> QED
    BY <1>1, <1>3, <2>1, <2>3, <2>4, <2>5, Zenon DEF ClientPlace
<1>5. CASE ~(driver' <= 1)
  BY <1>3, <1>5, Zenon DEF ClientPlace
<1> QED
  BY <1>4, <1>5, Zenon

\* The client takes a frame.
LEMMA ClientTakeStep ==
  ASSUME TypeOK, DownlinkPlace, ClientBox, ClientPlace, ClientTake
  PROVE  DownlinkPlace' /\ ClientBox' /\ ClientPlace'
<1>1. /\ cst = "pump" /\ cbox # <<>> /\ cbox' = Tail(cbox) /\ cwindow' = cwindow /\ downfiles' = downfiles
      /\ UNCHANGED <<drv, rseq, read, tcpclosed, driver, entry>>
  BY Zenon DEF ClientTake, task, table
<1>2. /\ Len(cbox') = Len(cbox) - 1 /\ Len(cbox) >= 1 /\ Head(cbox) = cbox[1] /\ Head(cbox) \in DownFrame
      /\ \A i \in 1..(Len(cbox) - 1) : cbox'[i] = cbox[i + 1]
  BY <1>1, ClientTyped, TailProperties, Zenon
<1>3. Consumed \in 0..cwindow /\ \A k \in 1..Len(cbox) : cbox[k].seq + 1 = Consumed + k
  BY Zenon DEF ClientBox
<1>4. Consumed' = Consumed + 1 /\ Consumed \in Nat /\ Consumed' \in 0..cwindow
  BY <1>1, <1>2, <1>3, ClientTyped DEF Consumed
<1> HIDE DEF Consumed
<1>5. \A k \in 1..(Len(cbox) - 1) : k + 1 \in 1..Len(cbox) /\ Consumed + (k + 1) = Consumed' + k
  BY <1>2, <1>4, ClientTyped
<1>6. ClientBox'
  <2>1. cst' # "ended" => cend' = None
    BY <1>1, Zenon DEF ClientBox, ClientTake, Ended
  <2>2. \A k \in 1..Len(cbox') : cbox'[k].seq + 1 = Consumed' + k
    BY <1>2, <1>3, <1>5, ZenonT(60)
  <2> QED
    BY <1>1, <1>4, <2>1, <2>2, Zenon DEF ClientBox
<1>7. Head(cbox).seq = Consumed
  <2>1. 1 \in 1..Len(cbox)
    BY <1>2, ClientTyped
  <2>2. Head(cbox).seq + 1 = Consumed + 1
    BY <1>2, <1>3, <2>1, Zenon
  <2>3. Head(cbox).seq \in Nat
    BY <1>2, FrameTyped, Zenon
  <2> QED
    BY <1>4, <2>2, <2>3
<1>8. ~(driver <= 1) \/ FrameOk(Head(cbox))
  <2>1. 1 \in 1..Len(cbox)
    BY <1>2, ClientTyped
  <2> QED
    BY <1>2, <2>1, Zenon DEF ClientPlace
<1>9. driver = 0 => cend' # "closed"
  <2> SUFFICES ASSUME driver = 0, cend' = "closed" PROVE FALSE
    BY Zenon
  <2>1. driver <= 1
    OBVIOUS
  <2>2. rseq = 0 /\ Head(cbox).seq < rseq
    BY <1>8, <2>1, Zenon DEF DownlinkPlace, FrameOk
  <2> QED
    BY <1>4, <1>7, <2>2
<1>10. DownlinkPlace'
  BY <1>1, <1>9, Zenon DEF DownlinkPlace
<1>11. ASSUME driver <= 1 PROVE ClientPlace'
  <2> DEFINE f == Head(cbox)
  <2>1. /\ \A g \in downfiles : FrameOk(g)
        /\ \A k \in 1..Len(cbox) : FrameOk(cbox[k])
        /\ writable /\ cend # "closed" => Len(got) = Consumed /\ Consumed <= read
        /\ ~writable => tcpclosed /\ Len(got) = read
        /\ cend = "closed" => ~Alive /\ Len(got) = read
        /\ cend = "eofs" => ~writable
    BY <1>11, Zenon DEF ClientPlace
  <2>2. \A g : FrameOk(g) => FrameOk(g)'
    BY <1>1, Zenon DEF FrameOk, Alive
  <2>3. \A k \in 1..Len(cbox') : FrameOk(cbox[k])'
    <3> SUFFICES ASSUME NEW k \in 1..Len(cbox') PROVE FrameOk(cbox[k])'
      BY Zenon
    <3>1. FrameOk(cbox[k + 1]) /\ cbox'[k] = cbox[k + 1]
      BY <1>2, <1>5, <2>1, Zenon
    <3> QED
      BY <1>1, <3>1, Zenon DEF FrameOk, Alive
  <2>4. \A g \in downfiles' : FrameOk(g)'
    BY <1>1, <2>1, <2>2, Zenon
  <2>5. /\ f.seq = Consumed /\ FrameOk(f) /\ (Alive' <=> Alive)
        /\ (f.kind = "data" <=> Consumed < read) /\ (f.kind = "eof" => tcpclosed /\ Consumed = read)
        /\ (f.kind = "close" => ~Alive) /\ (f.kind = "close" /\ tcpclosed => Consumed = read + 1)
        /\ (f.kind = "close" /\ ~tcpclosed => Consumed = read)
    BY <1>1, <1>7, <1>8, <1>11, Zenon DEF FrameOk, Alive
  <2>6. cend \notin {"closed", "eofs"}
    BY <1>1, Zenon DEF ClientBox, None
  <2> HIDE DEF f
  <2>7. driver' = driver /\ read' = read /\ tcpclosed' = tcpclosed
    BY <1>1, Zenon
  <2>8. CASE f.kind = "data" /\ writable /\ got' = Append(got, f.driver) /\ UNCHANGED <<cend, writable>>
    <3>1. f.driver \in 1..MaxDrivers
      BY <1>2, FrameTyped, Zenon DEF f
    <3>2. Len(got') = Len(got) + 1
      BY <2>8, <3>1, ClientTyped, AppendProperties, Zenon
    <3>3. Len(got) = Consumed /\ Consumed < read
      BY <2>1, <2>5, <2>6, <2>8, Zenon
    <3>4. Len(got') = Consumed' /\ Consumed' <= read
      BY <1>4, <3>2, <3>3, RelayTyped
    <3> QED
      BY <2>3, <2>4, <2>6, <2>7, <2>8, <3>4, Zenon DEF ClientPlace
  <2>9. CASE f.kind = "data" /\ ~writable /\ UNCHANGED got /\ UNCHANGED <<cend, writable>>
    BY <2>1, <2>3, <2>4, <2>6, <2>7, <2>9, Zenon DEF ClientPlace
  <2>10. CASE f.kind = "eof" /\ ~writable' /\ UNCHANGED got /\ (cend' = "eofs" \/ cend' = cend)
    <3>1. tcpclosed /\ Len(got) = read
      BY <2>1, <2>5, <2>6, <2>10, Zenon
    <3>2. cend' # "closed"
      BY <2>6, <2>10, Zenon
    <3> QED
      BY <2>3, <2>4, <2>7, <2>10, <3>1, <3>2, Zenon DEF ClientPlace
  <2>11. CASE f.kind = "close" /\ cend' = "closed" /\ UNCHANGED <<writable, got>>
    <3>1. Len(got) = read
      <4>1. CASE writable
        <5>1. Len(got) = Consumed /\ Consumed <= read
          BY <2>1, <2>6, <4>1, Zenon
        <5>2. Consumed = read + 1 \/ Consumed = read
          BY <2>5, <2>11, Zenon
        <5>3. Consumed = read
          BY <1>4, <5>1, <5>2, RelayTyped
        <5> QED
          BY <5>1, <5>3, Zenon
      <4>2. CASE ~writable
        BY <2>1, <4>2, Zenon
      <4> QED
        BY <4>1, <4>2, Zenon
    <3>2. ~Alive'
      BY <2>5, <2>11, Zenon
    <3> QED
      BY <2>1, <2>3, <2>4, <2>7, <2>11, <3>1, <3>2, Zenon DEF ClientPlace
  <2> QED
    <3>1. CASE /\ Head(cbox).kind = "data"
               /\ IF writable THEN cst' = "write" /\ got' = Append(got, Head(cbox).driver)
                              ELSE UNCHANGED <<cst, got>>
               /\ UNCHANGED <<cend, writable>>
      BY <2>8, <2>9, <3>1, Zenon DEF f
    <3>2. CASE /\ Head(cbox).kind = "eof" /\ writable' = FALSE /\ UNCHANGED got
               /\ IF readclosed THEN Ended("eofs") /\ PushUp(<<"close">>)
                                ELSE UNCHANGED <<cst, cend>> /\ KeepUp
      BY <2>10, <3>2, Zenon DEF f, Ended
    <3>3. CASE Head(cbox).kind = "close" /\ Ended("closed") /\ KeepUp /\ UNCHANGED <<writable, got>>
      BY <2>11, <3>3, Zenon DEF f, Ended
    <3> QED
      BY <3>1, <3>2, <3>3, Zenon DEF ClientTake
<1>12. CASE ~(driver <= 1)
  BY <1>1, <1>6, <1>10, <1>12, Zenon DEF ClientPlace
<1> QED
  BY <1>6, <1>10, <1>11, <1>12, Zenon

\* The client's poller delivers a frame.
LEMMA DeliverStep ==
  ASSUME TypeOK, DownlinkPlace, ClientBox, ClientPlace, NEW f \in downfiles, ClientDeliver(f)
  PROVE  DownlinkPlace' /\ ClientBox' /\ ClientPlace'
<1>1. /\ f.seq = cwindow /\ cbox' = Append(cbox, f) /\ cwindow' = cwindow + 1 /\ downfiles' \subseteq downfiles
      /\ UNCHANGED <<drv, rseq, read, tcpclosed, driver, entry>> /\ UNCHANGED <<cst, cend, writable, got>>
  BY Zenon DEF ClientDeliver, Deleted, task, table
<1>2. f \in DownFrame
  BY ClientTyped, Zenon
<1>3. /\ Len(cbox') = Len(cbox) + 1 /\ cbox'[Len(cbox) + 1] = f
      /\ \A i \in 1..Len(cbox) : cbox'[i] = cbox[i]
  <2>1. cbox \in Seq(DownFrame) /\ cbox' = Append(cbox, f)
    BY <1>1, ClientTyped, Zenon
  <2> QED
    BY <1>2, <2>1, AppendProperties
<1>4. Consumed \in 0..cwindow /\ \A k \in 1..Len(cbox) : cbox[k].seq + 1 = Consumed + k
  BY Zenon DEF ClientBox
<1>5. Consumed' = Consumed /\ f.seq + 1 = Consumed + (Len(cbox) + 1) /\ Consumed \in 0..(cwindow + 1)
  BY <1>1, <1>3, <1>4, ClientTyped DEF Consumed
<1>6. \A k \in 1..Len(cbox') : k \in 1..Len(cbox) \/ k = Len(cbox) + 1
  BY <1>3, ClientTyped
<1>7. ClientBox'
  <2>1. \A k \in 1..Len(cbox') : cbox'[k].seq + 1 = Consumed + k
    BY <1>3, <1>4, <1>5, <1>6, Zenon
  <2> QED
    BY <1>1, <1>5, <2>1, Zenon DEF ClientBox
<1>8. DownlinkPlace'
  BY <1>1, Zenon DEF DownlinkPlace
<1>9. CASE driver <= 1
  <2>1. /\ \A g \in downfiles : FrameOk(g)
        /\ \A k \in 1..Len(cbox) : FrameOk(cbox[k])
        /\ writable /\ cend # "closed" => Len(got) = Consumed /\ Consumed <= read
        /\ ~writable => tcpclosed /\ Len(got) = read
        /\ cend = "closed" => ~Alive /\ Len(got) = read
        /\ cend = "eofs" => ~writable
    BY <1>9, Zenon DEF ClientPlace
  <2>2. \A g \in downfiles' : FrameOk(g)'
    BY <1>1, <2>1, Zenon DEF FrameOk, Alive
  <2>3. \A k \in 1..Len(cbox') : FrameOk(cbox[k])'
    <3> SUFFICES ASSUME NEW k \in 1..Len(cbox') PROVE FrameOk(cbox[k])'
      BY Zenon
    <3>1. FrameOk(cbox'[k])
      BY <1>3, <1>6, <2>1, Zenon
    <3> QED
      BY <1>1, <3>1, Zenon DEF FrameOk, Alive
  <2>4. Alive' <=> Alive
    BY <1>1, Zenon DEF Alive
  <2> QED
    BY <1>1, <1>5, <1>7, <1>8, <2>1, <2>2, <2>3, <2>4, Zenon DEF ClientPlace
<1>10. CASE ~(driver <= 1)
  BY <1>1, <1>7, <1>8, <1>10, Zenon DEF ClientPlace
<1> QED
  BY <1>9, <1>10, Zenon

\* The steps of the client that leave its mailbox.
LEMMA ClientQuiet ==
  ASSUME TypeOK, DownlinkPlace, ClientBox, ClientPlace, downfiles' \subseteq downfiles,
         UNCHANGED <<drv, rseq, read, tcpclosed, driver, entry>>,
         UNCHANGED <<cwindow, cbox, got, writable>>, cst' # "ended" => cend' = None,
         \/ cend' = cend \/ (cend = None /\ cend' \in {None, "error"})
         \/ (cend = None /\ cend' = "eofs" /\ ~writable)
  PROVE  DownlinkPlace' /\ ClientBox' /\ ClientPlace'
<1>1. Consumed' = Consumed
  BY Zenon DEF Consumed
<1>2. ClientBox'
  BY <1>1, Zenon DEF ClientBox
<1>3. (cend' = "closed" => cend = "closed") /\ (cend' = "eofs" => cend = "eofs" \/ ~writable)
  BY Zenon DEF None
<1>4. DownlinkPlace'
  BY <1>3, Zenon DEF DownlinkPlace
<1>5. CASE driver <= 1
  <2>1. /\ \A g \in downfiles : FrameOk(g)
        /\ \A k \in 1..Len(cbox) : FrameOk(cbox[k])
        /\ writable /\ cend # "closed" => Len(got) = Consumed /\ Consumed <= read
        /\ ~writable => tcpclosed /\ Len(got) = read
        /\ cend = "closed" => ~Alive /\ Len(got) = read
        /\ cend = "eofs" => ~writable
    BY <1>5, Zenon DEF ClientPlace
  <2>2. \A g \in downfiles' : FrameOk(g)'
    BY <2>1, Zenon DEF FrameOk, Alive
  <2>3. \A k \in 1..Len(cbox') : FrameOk(cbox[k])'
    BY <2>1, Zenon DEF FrameOk, Alive
  <2>4. (Alive' <=> Alive) /\ (cend = "closed" => cend' = "closed")
    BY Zenon DEF Alive, None
  <2> QED
    BY <1>1, <1>2, <1>3, <1>4, <2>1, <2>2, <2>3, <2>4, Zenon DEF ClientPlace
<1>6. CASE ~(driver <= 1)
  BY <1>2, <1>4, <1>6, Zenon DEF ClientPlace
<1> QED
  BY <1>5, <1>6, Zenon

\* Every step keeps the downlink in place.
LEMMA DownNext ==
  ASSUME TypeOK, DownlinkPlace, ClientBox, ClientPlace, [Next]_vars
  PROVE  DownlinkPlace' /\ ClientBox' /\ ClientPlace'
<1>1. ASSUME UNCHANGED <<cst, cend, cwindow, cbox>> PROVE ClientBox'
  <2>1. Consumed' = Consumed
    BY <1>1, Zenon DEF Consumed
  <2> QED
    BY <1>1, <2>1, Zenon DEF ClientBox
<1>2. CASE Open \/ ClientWrite \/ ClientRead \/ Unregister \/ UNCHANGED vars
  <2>1. /\ downfiles' = downfiles /\ UNCHANGED <<drv, rseq, read, tcpclosed, driver, entry>>
        /\ UNCHANGED <<cwindow, cbox, got, writable>>
    BY <1>2, Zenon DEF Open, ClientWrite, ClientRead, Unregister, vars, client, task, table
  <2>2. CASE cst' = cst /\ cend' = cend
    BY <2>1, <2>2, ClientQuiet, Zenon DEF ClientBox
  <2>3. CASE cst # "ended" /\ cst' # "ended" /\ cend' = cend
    BY <2>1, <2>3, ClientQuiet, Zenon DEF ClientBox
  <2>4. CASE cst # "ended" /\ Ended("error")
    BY <2>1, <2>4, ClientQuiet, Zenon DEF ClientBox, Ended
  <2>5. CASE cst # "ended" /\ Ended("eofs") /\ ~writable
    BY <2>1, <2>5, ClientQuiet, Zenon DEF ClientBox, Ended
  <2>6. \/ cst' = cst /\ cend' = cend
        \/ cst # "ended" /\ cst' # "ended" /\ cend' = cend
        \/ cst # "ended" /\ Ended("error")
        \/ cst # "ended" /\ Ended("eofs") /\ ~writable
    BY <1>2, Zenon DEF Open, ClientWrite, ClientRead, Unregister, vars, client, EndsAfterBoth
  <2> QED
    BY <2>2, <2>3, <2>4, <2>5, <2>6, Zenon
<1>3. CASE ClientTake
  BY <1>3, ClientTakeStep, Zenon
<1>4. ASSUME NEW f \in downfiles, ClientDeliver(f) PROVE DownlinkPlace' /\ ClientBox' /\ ClientPlace'
  BY <1>4, DeliverStep, Zenon
<1>5. CASE \/ \E f \in downfiles : ClientDelete(f) \/ SweepDown(f)
           \/ \E f \in upfiles : RelayDelete(f) \/ SweepUp(f)
  <2>1. /\ downfiles' \subseteq downfiles /\ UNCHANGED <<drv, rseq, read, tcpclosed, driver, entry>>
        /\ UNCHANGED <<cwindow, cbox, got, writable>> /\ cst' = cst /\ cend' = cend
    BY <1>5, Zenon DEF ClientDelete, SweepDown, RelayDelete, SweepUp, client, task, table
  <2> QED
    BY <2>1, ClientQuiet, Zenon DEF ClientBox
<1>6. CASE StartSend \/ Send \/ SendFails \/ CursorPasses \/ IdleTimeout \/ Collect
  <2>1. /\ downfiles' \subseteq downfiles /\ UNCHANGED <<drv, rseq, read, tcpclosed, driver, entry>>
        /\ UNCHANGED <<cwindow, cbox, got, writable>> /\ cst' = cst /\ cend' = cend
    BY <1>6, Zenon DEF StartSend, Send, SendFails, CursorPasses, IdleTimeout, Collect, client, task, table
  <2> QED
    BY <2>1, ClientQuiet, Zenon DEF ClientBox
<1>7. CASE Bootstrap
  <2>1. UNCHANGED <<cst, cend, cwindow, cbox>>
    BY <1>7, Zenon DEF Bootstrap, client
  <2> QED
    BY <1>1, <1>7, <2>1, StartStep, Zenon
<1>8. CASE DriverConnect \/ Dial \/ DriverTake \/ DriverWrite \/ Evict \/ Restart
  <2>1. /\ UNCHANGED <<cst, cend, cwindow, cbox>> /\ UNCHANGED <<cbox, cwindow, writable, cend, got>>
        /\ UNCHANGED <<read, tcpclosed, driver>>
    BY <1>8, Zenon DEF DriverConnect, Dial, DriverTake, DriverWrite, Evict, Restart, client, table
  <2>0. ClientBox'
    BY <1>1, <2>1, Zenon
  <2>2. ASSUME \/ drv = "wait" /\ drv' = "dial" /\ entry' = entry
               \/ drv = "dial" /\ drv' = "pump" /\ entry' = entry
               \/ drv \in {"pump", "write"} /\ drv' \in {"pump", "write", "done"} /\ entry' = entry
               \/ drv' = None,
               UNCHANGED <<rseq, downfiles>>
        PROVE  DownlinkPlace' /\ ClientPlace'
    <3>1. UNCHANGED <<rseq, read, tcpclosed, driver>> /\ downfiles' \subseteq downfiles
      BY <2>1, <2>2, Zenon
    <3> QED
      BY <2>1, <2>2, <3>1, QuietStep, Zenon
  <2>3. CASE Evict \/ Restart
    BY <2>0, <2>2, <2>3, Zenon DEF Evict, Restart, Abort
  <2>4. CASE DriverConnect \/ DriverWrite
    BY <2>0, <2>2, <2>4, Zenon DEF DriverConnect, DriverWrite, WriteFailed, table
  <2>5. CASE Dial
    <3>1. drv = "dial" /\ entry' = entry
      BY <2>5, Zenon DEF Dial, table
    <3>2. CASE drv' = "pump" /\ KeepDown
      BY <2>0, <2>2, <3>1, <3>2, Zenon DEF KeepDown
    <3>3. CASE drv' = "done" /\ PushDown(<<"close">>)
      <4>1. UNCHANGED <<read, tcpclosed, driver, entry>>
        BY <2>1, <3>1, Zenon
      <4> QED
        BY <2>0, <2>1, <3>1, <3>3, <4>1, CloseStep, Zenon
    <3> QED
      BY <2>5, <3>2, <3>3, Zenon DEF Dial
  <2>6. CASE DriverTake
    <3>1. drv = "pump" /\ entry' = entry
      BY <2>6, Zenon DEF DriverTake, table
    <3>2. CASE KeepDown /\ drv' \in {"pump", "write", "done"}
      BY <2>0, <2>2, <3>1, <3>2, Zenon DEF KeepDown
    <3>3. CASE tcpclosed /\ drv' = "done" /\ PushDown(<<"close">>)
      <4>1. UNCHANGED <<read, tcpclosed, driver, entry>>
        BY <2>1, <3>1, Zenon
      <4> QED
        BY <2>0, <2>1, <3>1, <3>3, <4>1, CloseStep, Zenon
    <3>4. \/ KeepDown /\ drv' \in {"pump", "write", "done"}
          \/ tcpclosed /\ drv' = "done" /\ PushDown(<<"close">>)
      BY <2>6, <3>1, Zenon DEF DriverTake
    <3> QED
      BY <3>2, <3>3, <3>4, Zenon
  <2> QED
    BY <1>8, <2>3, <2>4, <2>5, <2>6, Zenon
<1>9. CASE DriverRead
  <2>1. UNCHANGED <<cst, cend, cwindow, cbox>>
    BY <1>9, Zenon DEF DriverRead, client
  <2> QED
    BY <1>1, <1>9, <2>1, ReadStep, Zenon
<1> QED
  BY <1>2, <1>3, <1>4, <1>5, <1>6, <1>7, <1>8, <1>9, Zenon DEF Next, SomeUp, SomeDown

-----------------------------------------------------------------------------
(* The types.                                                              *)

FlagTypes ==
  /\ cst \in {"new", "pump", "write", "ended"} /\ cend \in {None, "eofs", "closed", "error"}
  /\ {writable, readclosed, registered, entry, peerwritable, tcpclosed, recent, idle, doomed} \subseteq BOOLEAN
  /\ drv \in {None, "wait", "dial", "pump", "write", "done"}

FileTypes == upfiles \subseteq 0..(MaxUp + 2) /\ downfiles \subseteq DownFrame /\ faults \in 0..MaxFaults

UpTypes == up \in Seq(Kinds) /\ Len(up) <= MaxUp + 3 /\ open \in 0..2

BoxTypes ==
  /\ cwindow \in 0..(MaxDown + 2) /\ cbox \in Seq(DownFrame) /\ Len(cbox) <= Depth
  /\ got \in Seq(1..MaxDrivers)

TaskTypes ==
  /\ driver \in 0..MaxDrivers
  /\ rseq \in 0..(MaxDown + 2) /\ read \in 0..MaxDown /\ written \in 0..MaxUp

InboxTypes ==
  /\ rwindow \in 0..Len(up) /\ rbox \in Seq(Kinds) /\ Len(rbox) <= Depth
  /\ sending \in NoFrame..(Len(up) - 1)

\* The type invariant, by what changes together.
LEMMA TypeParts == TypeOK <=> FlagTypes /\ FileTypes /\ UpTypes /\ BoxTypes /\ TaskTypes /\ InboxTypes
BY Zenon DEF TypeOK, FlagTypes, FileTypes, UpTypes, BoxTypes, TaskTypes, InboxTypes

\* The control states and the flags.
LEMMA FlagsNext == ASSUME FlagTypes, [Next]_vars PROVE FlagTypes'
<1> USE DEF FlagTypes
<1>1. CASE Open \/ ClientTake \/ ClientWrite \/ ClientRead \/ Unregister
  BY <1>1, Zenon DEF Open, ClientTake, ClientWrite, ClientRead, Unregister, Ended, task, table
<1>2. CASE UNCHANGED vars
  BY <1>2, Zenon DEF vars, client, task, table
<1>3. CASE \/ \E f \in downfiles : ClientDeliver(f) \/ ClientDelete(f)
           \/ \E f \in upfiles : RelayDelete(f)
           \/ SomeUp \/ SomeDown
  BY <1>3, ZenonT(60) DEF ClientDeliver, ClientDelete, RelayDelete, SomeUp, SomeDown, SweepUp, SweepDown,
     client, task, table
<1>4. CASE Bootstrap \/ StartSend \/ Send \/ SendFails \/ CursorPasses
  BY <1>4, Zenon DEF Bootstrap, StartSend, Send, SendFails, CursorPasses, Bump, client, task, table
<1>5. CASE DriverConnect \/ Dial \/ DriverTake \/ DriverWrite \/ DriverRead
  BY <1>5, Zenon DEF DriverConnect, Dial, DriverTake, DriverWrite, DriverRead, WriteFailed, Bump, client, table
<1>6. CASE IdleTimeout \/ Collect \/ Evict \/ Restart
  BY <1>6, Zenon DEF IdleTimeout, Collect, Evict, Restart, Abort, client, task, table
<1> QED
  BY <1>1, <1>2, <1>3, <1>4, <1>5, <1>6, Zenon DEF Next

\* The client's frames.
LEMMA UpTypesNext ==
  ASSUME TypeOK, UpShape', UpGrows, [Next]_vars PROVE UpTypes'
<1>1. up' \in Seq(Kinds)
  BY Zenon DEF UpGrows
<1>2. Len(up') <= MaxUp + 3
  <2>1. CASE up' = <<>>
    BY <2>1, Constants
  <2>2. CASE up' # <<>>
    <3>1. Len(up') \in (Sent' + 1)..(Sent' + 3)
      BY <2>2, Zenon DEF UpShape
    <3> QED
      BY <3>1, SentTypedNext, Constants
  <2> QED
    BY <2>1, <2>2, Zenon
<1>3. open' \in 0..2
  <2>1. open \in 0..2
    BY Zenon DEF TypeOK
  <2>2. CASE Open
    <3>1. open' = open \/ \E preface \in 0..(IF MaxUp = 0 THEN 0 ELSE 1) : open' = 1 + preface
      BY <2>2, Zenon DEF Open
    <3> QED
      BY <2>1, <3>1
  <2>3. CASE ~Open
    <3>1. open' = open
      BY <2>3, Zenon DEF Next, ClientTake, ClientWrite, ClientRead, Unregister,
         ClientDeliver, ClientDelete, RelayDelete, SomeUp, SomeDown, SweepUp, SweepDown,
         Bootstrap, StartSend, Send, SendFails, CursorPasses,
         DriverConnect, Dial, DriverTake, DriverWrite, DriverRead, IdleTimeout, Collect, Evict, Restart, vars, client
    <3> QED
      BY <2>1, <3>1, Zenon
  <2> QED
    BY <2>2, <2>3, Zenon
<1> QED
  BY <1>1, <1>2, <1>3, Zenon DEF UpTypes

\* The client's mailbox.
LEMMA BoxTypesNext ==
  ASSUME TypeOK, [Next]_vars PROVE BoxTypes'
<1>0. BoxTypes
  BY TypeParts, Zenon
<1>1. ASSUME UNCHANGED <<cwindow, cbox, got>> PROVE BoxTypes'
  BY <1>0, <1>1, Zenon DEF BoxTypes
<1>2. CASE ClientTake
  <2>1. cbox # <<>> /\ cbox' = Tail(cbox) /\ cwindow' = cwindow
    BY <1>2, Zenon DEF ClientTake
  <2>2. /\ cbox' \in Seq(DownFrame) /\ Len(cbox') = Len(cbox) - 1 /\ Len(cbox) >= 1
        /\ Head(cbox) \in DownFrame
    BY <2>1, ClientTyped, TailProperties, Zenon
  <2>3. Len(cbox) <= Depth /\ cwindow \in 0..(MaxDown + 2) /\ got \in Seq(1..MaxDrivers)
    BY <1>0, Zenon DEF BoxTypes
  <2>4. Len(cbox') <= Depth
    BY <2>2, <2>3, ClientTyped, Constants
  <2>5. got' = got \/ got' = Append(got, Head(cbox).driver)
    BY <1>2, Zenon DEF ClientTake
  <2>6. Head(cbox).driver \in 1..MaxDrivers
    BY <2>2, FrameTyped, Zenon
  <2>7. Append(got, Head(cbox).driver) \in Seq(1..MaxDrivers)
    BY <2>3, <2>6, AppendProperties, Zenon
  <2> QED
    BY <2>1, <2>2, <2>3, <2>4, <2>5, <2>7, Zenon DEF BoxTypes
<1>3. ASSUME NEW f \in downfiles, ClientDeliver(f) PROVE BoxTypes'
  <2>1. f.seq = cwindow /\ Len(cbox) < Depth /\ cbox' = Append(cbox, f) /\ cwindow' = cwindow + 1 /\ got' = got
    BY <1>3, Zenon DEF ClientDeliver, HasRoom
  <2>2. f \in DownFrame
    BY ClientTyped, Zenon
  <2>3. f.seq <= MaxDown + 1
    BY <2>2, FrameTyped, Zenon
  <2>4. cwindow' \in 0..(MaxDown + 2)
    BY <2>1, <2>3, ClientTyped, Constants
  <2>5. cbox' \in Seq(DownFrame) /\ Len(cbox') = Len(cbox) + 1
    BY <2>1, <2>2, ClientTyped, AppendProperties, Zenon
  <2>6. Len(cbox') <= Depth
    BY <2>1, <2>5, ClientTyped, Constants
  <2> QED
    BY <1>0, <2>1, <2>4, <2>5, <2>6, Zenon DEF BoxTypes
<1>4. ASSUME ~ClientTake, ~(\E f \in downfiles : ClientDeliver(f)) PROVE BoxTypes'
  <2>1. UNCHANGED <<cwindow, cbox, got>>
    BY <1>4, Zenon DEF Next, Open, ClientWrite, ClientRead, Unregister,
       ClientDelete, RelayDelete, SomeUp, SomeDown, SweepUp, SweepDown,
       Bootstrap, StartSend, Send, SendFails, CursorPasses,
       DriverConnect, Dial, DriverTake, DriverWrite, DriverRead, IdleTimeout, Collect, Evict, Restart, vars, client
  <2> QED
    BY <1>1, <2>1, Zenon
<1> QED
  BY <1>2, <1>3, <1>4, Zenon

\* Losses, failed deletes and restarts are counted.
LEMMA FaultsNext ==
  ASSUME TypeOK, [Next]_vars PROVE faults' \in 0..MaxFaults
<1>1. faults \in 0..MaxFaults
  BY Zenon DEF TypeOK
<1>2. Fault => faults' \in 0..MaxFaults
  <2>1. Fault => faults < MaxFaults /\ faults' = faults + 1
    BY Zenon DEF Fault
  <2> QED
    BY <1>1, <2>1, Constants
<1>3. faults' = faults \/ Fault
  <2>1. CASE Open \/ ClientTake \/ ClientWrite \/ ClientRead \/ Unregister \/ UNCHANGED vars
    BY <2>1, Zenon DEF Open, ClientTake, ClientWrite, ClientRead, Unregister, KeepUp, PushUp, Lands, vars
  <2>2. CASE \/ \E f \in downfiles : ClientDeliver(f) \/ ClientDelete(f)
             \/ \E f \in upfiles : RelayDelete(f)
             \/ SomeUp \/ SomeDown
    BY <2>2, Zenon DEF ClientDeliver, ClientDelete, RelayDelete, SomeUp, SomeDown, SweepUp, SweepDown, Deleted
  <2>3. CASE Bootstrap \/ StartSend \/ Send \/ SendFails \/ CursorPasses
    BY <2>3, Zenon DEF Bootstrap, StartSend, Send, SendFails, CursorPasses, Deleted
  <2>4. CASE DriverConnect \/ Dial \/ DriverTake \/ DriverWrite \/ DriverRead
    BY <2>4, Zenon DEF DriverConnect, Dial, DriverTake, DriverWrite, DriverRead, KeepDown, PushDown, Lands
  <2>5. CASE IdleTimeout \/ Collect \/ Evict \/ Restart
    BY <2>5, Zenon DEF IdleTimeout, Collect, Evict, Restart
  <2> QED
    BY <2>1, <2>2, <2>3, <2>4, <2>5, Zenon DEF Next
<1> QED
  BY <1>1, <1>2, <1>3, Zenon

\* What the two sides push at once.
Pushes == {<<"data">>, <<"eof">>, <<"close">>, <<"eof", "close">>}

\* They are short sequences of kinds.
LEMMA PushesTyped ==
  ASSUME NEW kinds \in Pushes
  PROVE  /\ kinds \in Seq(Kinds) /\ Len(kinds) \in Nat /\ DOMAIN kinds = 1..Len(kinds)
         /\ \A k \in 1..Len(kinds) : kinds[k] \in Kinds \ {"connect"}
<1>1. <<"data">> \in Seq(Kinds \ {"connect"}) /\ <<"eof">> \in Seq(Kinds \ {"connect"})
  BY DEF Kinds
<1>2. <<"close">> \in Seq(Kinds \ {"connect"}) /\ <<"eof", "close">> \in Seq(Kinds \ {"connect"})
  BY DEF Kinds
<1>3. kinds \in Seq(Kinds \ {"connect"})
  BY <1>1, <1>2, Zenon DEF Pushes
<1> QED
  BY <1>3

\* The kinds at the end of the input.
LEMMA EofPushes == ASSUME NEW b \in BOOLEAN PROVE AtEof(b) = <<"eof">> \/ AtEof(b) = <<"eof", "close">>
BY Zenon DEF AtEof

\* The client's files that land.
LEMMA UpLanded ==
  ASSUME NEW new, Lands(upfiles, new)
  PROVE  \A f \in upfiles' : f \in upfiles \/ f \in new
BY Zenon DEF Lands

\* The client's files, when it pushes.
LEMMA UpPushed ==
  ASSUME TypeOK, UpTypes', NEW kinds \in Pushes, PushUp(kinds)
  PROVE  upfiles' \subseteq 0..(MaxUp + 2)
<1>1. kinds \in Seq(Kinds) /\ Len(kinds) \in Nat
  BY PushesTyped, Zenon
<1>2. up' = up \o kinds
  BY Zenon DEF PushUp
<1>3. Len(up') = Len(up) + Len(kinds)
  BY <1>1, <1>2, UpTyped, ConcatProperties, Zenon
<1>5. Len(up') <= MaxUp + 3
  BY Zenon DEF UpTypes
<1>6. \A f \in Len(up)..(Len(up) + Len(kinds) - 1) : f \in 0..(MaxUp + 2)
  BY SMTT(60), <1>1, <1>3, <1>5, UpTyped, Constants
<1>7. upfiles \subseteq 0..(MaxUp + 2)
  BY Zenon DEF TypeOK
<1>8. \A f \in upfiles' : f \in upfiles \/ f \in Len(up)..(Len(up) + Len(kinds) - 1)
  BY UpLanded, Zenon DEF PushUp
<1> QED
  BY <1>6, <1>7, <1>8, Zenon

\* The client's files.
LEMMA UpFilesNext ==
  ASSUME TypeOK, UpTypes', [Next]_vars PROVE upfiles' \subseteq 0..(MaxUp + 2)
<1>1. upfiles \subseteq 0..(MaxUp + 2)
  BY Zenon DEF TypeOK
<1>2. CASE \E kinds \in Pushes : PushUp(kinds)
  BY <1>2, UpPushed, Zenon
<1>3. CASE upfiles' \subseteq upfiles
  BY <1>1, <1>3, Zenon
<1>4. CASE Lands(upfiles, {0})
  <2>1. \A f \in upfiles' : f \in upfiles \/ f \in {0}
    BY <1>4, UpLanded, Zenon
  <2>2. {0} \subseteq 0..(MaxUp + 2)
    BY Constants
  <2> QED
    BY <1>1, <2>1, <2>2, Zenon
<1>5. CASE Open \/ ClientTake \/ ClientWrite \/ ClientRead \/ Unregister \/ UNCHANGED vars
  <2>1. CASE Open \/ Unregister \/ UNCHANGED vars
    BY <1>3, <1>4, <2>1, Zenon DEF Open, Unregister, KeepUp, vars
  <2>2. CASE ClientTake
    <3>1. upfiles' = upfiles \/ PushUp(<<"close">>)
      BY <2>2, Zenon DEF ClientTake, KeepUp
    <3> QED
      BY <1>2, <1>3, <3>1, Zenon DEF Pushes
  <2>3. CASE ClientWrite
    <3>1. upfiles' = upfiles \/ PushUp(<<"close">>)
      BY <2>3, Zenon DEF ClientWrite, KeepUp
    <3> QED
      BY <1>2, <1>3, <3>1, Zenon DEF Pushes
  <2>4. CASE ClientRead
    <3>1. PushUp(<<"data">>) \/ PushUp(<<"close">>) \/ PushUp(AtEof(EndsAfterBoth))
      BY <2>4, Zenon DEF ClientRead
    <3>2. AtEof(EndsAfterBoth) \in Pushes
      BY EofPushes, Zenon DEF EndsAfterBoth, Pushes
    <3>3. <<"data">> \in Pushes /\ <<"close">> \in Pushes
      BY Zenon DEF Pushes
    <3>4. CASE PushUp(<<"data">>)
      BY <3>3, <3>4, UpPushed, Zenon
    <3>5. CASE PushUp(<<"close">>)
      BY <3>3, <3>5, UpPushed, Zenon
    <3>6. CASE PushUp(AtEof(EndsAfterBoth))
      <4>1. PICK kinds \in Pushes : PushUp(kinds)
        BY <3>2, <3>6, Zenon DEF PushUp, Lands
      <4> QED
        BY <4>1, UpPushed, Zenon
    <3> QED
      BY <3>1, <3>4, <3>5, <3>6, Zenon
  <2> QED
    BY <1>5, <2>1, <2>2, <2>3, <2>4, Zenon
<1>6. CASE \/ \E f \in downfiles : ClientDeliver(f) \/ ClientDelete(f)
           \/ \E f \in upfiles : RelayDelete(f)
           \/ SomeUp \/ SomeDown
  BY <1>3, <1>6, Zenon DEF ClientDeliver, ClientDelete, RelayDelete, SomeUp, SomeDown, SweepUp, SweepDown
<1>7. CASE \/ Bootstrap \/ StartSend \/ Send \/ SendFails \/ CursorPasses
           \/ DriverConnect \/ Dial \/ DriverTake \/ DriverWrite \/ DriverRead
           \/ IdleTimeout \/ Collect \/ Evict \/ Restart
  BY <1>3, <1>7, Zenon DEF Bootstrap, StartSend, Send, SendFails, CursorPasses, Deleted,
     DriverConnect, Dial, DriverTake, DriverWrite, DriverRead, IdleTimeout, Collect, Evict, Restart
<1> QED
  BY <1>5, <1>6, <1>7, Zenon DEF Next

\* The driver's files, when it pushes.
LEMMA DownPushed ==
  ASSUME TypeOK, rseq' <= MaxDown + 2, driver >= 1, NEW kinds \in Pushes, PushDown(kinds)
  PROVE  downfiles' \subseteq DownFrame
<1>2. DOMAIN kinds = 1..Len(kinds) /\ Len(kinds) \in Nat /\ \A k \in 1..Len(kinds) : kinds[k] \in Kinds \ {"connect"}
  BY PushesTyped, Zenon
<1>3. rseq' = rseq + Len(kinds)
  BY Zenon DEF PushDown
<1>4. \A k \in 1..Len(kinds) : rseq + k - 1 \in 0..(MaxDown + 1)
  <2>1. Len(kinds) \in Nat /\ rseq \in Nat /\ MaxDown \in Nat
    BY <1>2, RelayTyped, Constants, Zenon
  <2>2. rseq + Len(kinds) <= MaxDown + 2
    BY <1>3, Zenon
  <2> QED
    BY <2>1, <2>2
<1>5. driver \in 0..MaxDrivers
  BY Zenon DEF TypeOK
<1>6. driver \in 1..MaxDrivers
  BY <1>5, Constants
<1>7. ASSUME NEW k \in DOMAIN kinds
      PROVE  [seq |-> rseq + k - 1, kind |-> kinds[k], driver |-> driver] \in DownFrame
  <2>1. rseq + k - 1 \in 0..(MaxDown + 1) /\ kinds[k] \in Kinds \ {"connect"}
    BY <1>2, <1>4, <1>7, Zenon
  <2> QED
    BY <1>6, <2>1, Zenon DEF DownFrame
<1> DEFINE new == {[seq |-> rseq + k - 1, kind |-> kinds[k], driver |-> driver] : k \in DOMAIN kinds}
<1>8. \A f \in new : f \in DownFrame
  BY <1>7, Zenon
<1>9. Lands(downfiles, new)
  BY Zenon DEF PushDown
<1> HIDE DEF new
<1>10. \A f \in downfiles' : f \in downfiles \/ f \in new
  BY <1>9, Landed, Zenon
<1> QED
  BY <1>8, <1>10, ClientTyped, Zenon

\* The driver's files, and its seq.
LEMMA DownFilesNext ==
  ASSUME TypeOK, DownlinkPlace, DownlinkPlace', read' \in 0..MaxDown, [Next]_vars
  PROVE  downfiles' \subseteq DownFrame /\ rseq' \in 0..(MaxDown + 2)
<1>1. downfiles \subseteq DownFrame /\ rseq \in 0..(MaxDown + 2)
  BY Zenon DEF TypeOK
<1>2. rseq' <= read' + 2
  BY Zenon DEF DownlinkPlace
<1>3. CASE drv # None /\ \E kinds \in Pushes : PushDown(kinds)
  <2>1. PICK kinds \in Pushes : PushDown(kinds)
    BY <1>3, Zenon
  <2>2. Len(kinds) \in Nat
    BY PushesTyped, Zenon
  <2>3. rseq' = rseq + Len(kinds)
    BY <2>1, Zenon DEF PushDown
  <2>4. rseq' \in Nat /\ rseq' <= MaxDown + 2
    BY SMTT(60), <1>2, <2>2, <2>3, RelayTyped, Constants
  <2>5. driver >= 1
    BY <1>3, Zenon DEF DownlinkPlace
  <2>6. downfiles' \subseteq DownFrame
    BY <2>1, <2>4, <2>5, DownPushed, Zenon
  <2> QED
    BY <2>4, <2>6, Constants
<1>4. CASE downfiles' \subseteq downfiles /\ (rseq' = rseq \/ rseq' = 0)
  <2>1. 0 \in 0..(MaxDown + 2)
    BY Constants
  <2> QED
    BY <1>1, <1>4, <2>1, Zenon
<1>5. CASE Open \/ ClientTake \/ ClientWrite \/ ClientRead \/ Unregister \/ UNCHANGED vars
  BY <1>4, <1>5, Zenon DEF Open, ClientTake, ClientWrite, ClientRead, Unregister, vars, task
<1>6. CASE \/ \E f \in downfiles : ClientDeliver(f) \/ ClientDelete(f)
           \/ \E f \in upfiles : RelayDelete(f)
           \/ SomeUp \/ SomeDown
  BY <1>4, <1>6, Zenon DEF ClientDeliver, ClientDelete, RelayDelete, SomeUp, SomeDown, SweepUp, SweepDown, task, Deleted
<1>7. CASE \/ Bootstrap \/ StartSend \/ Send \/ SendFails \/ CursorPasses
           \/ DriverConnect \/ DriverWrite \/ IdleTimeout \/ Collect \/ Evict \/ Restart
  BY <1>4, <1>7, Zenon DEF Bootstrap, StartSend, Send, SendFails, CursorPasses,
     DriverConnect, DriverWrite, IdleTimeout, Collect, Evict, Restart, task
<1>8. CASE Dial \/ DriverTake \/ DriverRead
  <2>1. \/ rseq' = rseq /\ downfiles' = downfiles
        \/ /\ drv \in {"dial", "pump"}
           /\ \/ PushDown(<<"data">>) \/ PushDown(<<"close">>) \/ PushDown(AtEof(~peerwritable))
    BY <1>8, Zenon DEF Dial, DriverTake, DriverRead, KeepDown
  <2>2. AtEof(~peerwritable) \in Pushes
    BY EofPushes, Zenon DEF Pushes
  <2>3. drv \in {"dial", "pump"} => drv # None
    BY DEF None
  <2>4. <<"data">> \in Pushes /\ <<"close">> \in Pushes
    BY Zenon DEF Pushes
  <2>5. CASE rseq' = rseq /\ downfiles' = downfiles
    BY <1>4, <2>5, Zenon
  <2>6. ASSUME drv \in {"dial", "pump"}, NEW kinds \in Pushes, PushDown(kinds)
        PROVE  downfiles' \subseteq DownFrame /\ rseq' \in 0..(MaxDown + 2)
    BY <1>3, <2>3, <2>6, Zenon
  <2>7. CASE drv \in {"dial", "pump"} /\ PushDown(<<"data">>)
    BY <2>4, <2>6, <2>7, Zenon
  <2>8. CASE drv \in {"dial", "pump"} /\ PushDown(<<"close">>)
    BY <2>4, <2>6, <2>8, Zenon
  <2>9. CASE drv \in {"dial", "pump"} /\ PushDown(AtEof(~peerwritable))
    <3>1. PICK kinds \in Pushes : PushDown(kinds)
      BY <2>2, <2>9, Zenon DEF PushDown, Lands
    <3> QED
      BY <2>6, <2>9, <3>1, Zenon
  <2> QED
    BY <2>1, <2>5, <2>7, <2>8, <2>9, Zenon
<1> QED
  BY <1>5, <1>6, <1>7, <1>8, Zenon DEF Next

\* The driver's counters.
LEMMA TaskTypesNext ==
  ASSUME TypeOK, WrittenPlace', UpShape', DownlinkPlace, DownlinkPlace', [Next]_vars
  PROVE  TaskTypes' /\ downfiles' \subseteq DownFrame
<1>1. /\ driver \in 0..MaxDrivers /\ read \in 0..MaxDown /\ written \in 0..MaxUp
  BY Zenon DEF TypeOK
<1>2. CASE UNCHANGED <<driver, read, written>>
  BY <1>1, <1>2, DownFilesNext, Zenon DEF TaskTypes
<1>3. CASE Bootstrap
  <2>1. driver < MaxDrivers /\ driver' = driver + 1 /\ read' = 0 /\ written' = 0
    BY <1>3, Zenon DEF Bootstrap
  <2>2. driver' \in 0..MaxDrivers /\ read' \in 0..MaxDown /\ written' \in 0..MaxUp
    BY <1>1, <2>1, Constants
  <2> QED
    BY <2>2, DownFilesNext, Zenon DEF TaskTypes
<1>4. CASE DriverWrite
  <2>1. driver' = driver /\ read' = read /\ (written' = written \/ (drv' = "pump" /\ written' = written + 1 /\ peerwritable' = peerwritable))
    BY <1>4, Zenon DEF DriverWrite, table
  <2>2. CASE drv' = "pump" /\ written' = written + 1
    <3>1. ~peerwritable' => written' = Sent'
      BY Zenon DEF WrittenPlace
    <3>2. peerwritable' => written' + 1 = Taken' /\ Taken' <= Sent' + 1
      BY <2>2, Zenon DEF WrittenPlace
    <3>3. written' \in Nat
      BY SMTT(60), <2>2, RelayTyped
    <3>4. peerwritable' => written' + 1 <= Sent' + 1
      BY <3>2, Zenon
    <3>5. written' <= MaxUp
      BY <3>1, <3>3, <3>4, SentTypedNext, Constants
    <3>6. written' \in 0..MaxUp
      BY <3>3, <3>5, Constants
    <3> QED
      BY <1>1, <2>1, <3>6, DownFilesNext, Zenon DEF TaskTypes
  <2>3. CASE written' = written
    BY <1>2, <2>1, <2>3, Zenon
  <2> QED
    BY <2>1, <2>2, <2>3, Zenon
<1>5. CASE DriverRead
  <2>1. driver' = driver /\ written' = written /\ (read' = read \/ (read < MaxDown /\ read' = read + 1))
    BY <1>5, Zenon DEF DriverRead, table
  <2>2. read' \in 0..MaxDown
    BY <1>1, <2>1, Constants
  <2> QED
    BY <1>1, <2>1, <2>2, DownFilesNext, Zenon DEF TaskTypes
<1>6. CASE Open \/ ClientTake \/ ClientWrite \/ ClientRead \/ Unregister \/ UNCHANGED vars
  BY <1>2, <1>6, Zenon DEF Open, ClientTake, ClientWrite, ClientRead, Unregister, vars, task, table
<1>7. CASE \/ \E f \in downfiles : ClientDeliver(f) \/ ClientDelete(f)
           \/ \E f \in upfiles : RelayDelete(f)
           \/ SomeUp \/ SomeDown
  BY <1>2, <1>7, Zenon DEF ClientDeliver, ClientDelete, RelayDelete, SomeUp, SomeDown, SweepUp, SweepDown, task, table
<1>8. CASE StartSend \/ Send \/ SendFails \/ CursorPasses \/ DriverConnect \/ Dial \/ DriverTake
  BY <1>2, <1>8, Zenon DEF StartSend, Send, SendFails, CursorPasses, DriverConnect, Dial, DriverTake, task, table
<1>9. CASE IdleTimeout \/ Collect \/ Evict \/ Restart
  BY <1>2, <1>9, Zenon DEF IdleTimeout, Collect, Evict, Restart, task, table
<1> QED
  BY <1>3, <1>4, <1>5, <1>6, <1>7, <1>8, <1>9, Zenon DEF Next

\* The driver's mailbox and the frame that is on its way to it.
LEMMA InboxTypesNext ==
  ASSUME TypeOK, UpShape, UpGrows, [Next]_vars
  PROVE  InboxTypes'
<1>0. /\ rwindow \in 0..Len(up) /\ rbox \in Seq(Kinds) /\ Len(rbox) <= Depth /\ sending \in NoFrame..(Len(up) - 1)
  BY Zenon DEF TypeOK
<1>1. Len(up) <= Len(up') /\ Len(up') \in Nat /\ Len(up) \in Nat /\ open <= Len(up) /\ open \in Nat
  <2>1. up' \in Seq(Kinds) /\ Len(up) <= Len(up') /\ open <= Len(up)
    BY Zenon DEF UpGrows, UpShape
  <2>2. Len(up') \in Nat
    BY <2>1
  <2> QED
    BY <2>1, <2>2, UpTyped, Zenon
<1>2. ASSUME NEW n, n \in 0..Len(up) PROVE n \in 0..Len(up')
  BY <1>1, <1>2
<1>3. ASSUME NEW n, n \in NoFrame..(Len(up) - 1) PROVE n \in NoFrame..(Len(up') - 1)
  BY <1>1, <1>3 DEF NoFrame
<1>4. NoFrame \in NoFrame..(Len(up) - 1) /\ 0 \in 0..Len(up) /\ <<>> \in Seq(Kinds) /\ Len(<<>>) <= Depth
  BY <1>1, Constants DEF NoFrame
<1>5. ASSUME rwindow' \in 0..Len(up), rbox' \in Seq(Kinds) /\ Len(rbox') <= Depth, sending' \in NoFrame..(Len(up) - 1)
      PROVE  InboxTypes'
  BY <1>2, <1>3, <1>5, Zenon DEF InboxTypes
<1>6. CASE rwindow' = rwindow /\ (rbox' = rbox \/ rbox' = <<>>) /\ (sending' = sending \/ sending' = NoFrame)
  BY <1>0, <1>4, <1>5, <1>6, Zenon
<1>7. CASE Bootstrap
  <2>1. rwindow' = 0 /\ rbox' = <<>> /\ sending' = sending
    BY <1>7, Zenon DEF Bootstrap
  <2> QED
    BY <1>0, <1>4, <1>5, <2>1, Zenon
<1>8. CASE StartSend
  <2>1. rwindow < Len(up) /\ sending' = rwindow /\ rwindow' = rwindow /\ rbox' = rbox
    BY <1>8, Zenon DEF StartSend
  <2>2. sending' \in NoFrame..(Len(up) - 1)
    BY <1>0, <1>1, <2>1 DEF NoFrame
  <2> QED
    BY <1>0, <1>5, <2>1, <2>2, Zenon
<1>9. CASE Send
  <2>1. /\ sending # NoFrame /\ Len(rbox) < Depth /\ rbox' = Append(rbox, up[sending + 1]) /\ rwindow' = sending + 1
        /\ \/ sending + 1 < open /\ sending' = sending + 1
           \/ sending' = NoFrame
    BY <1>9, Zenon DEF Send, HasRoom
  <2>2. sending + 1 \in 1..Len(up) /\ (sending + 1 < open => sending + 1 \in NoFrame..(Len(up) - 1))
    BY <1>0, <1>1, <2>1 DEF NoFrame
  <2>3. up[sending + 1] \in Kinds
    BY <2>2, UpTyped
  <2>4. rbox' \in Seq(Kinds) /\ Len(rbox') = Len(rbox) + 1
    BY <1>0, <2>1, <2>3, AppendProperties, Zenon
  <2>5. Len(rbox') <= Depth
    BY SMTT(60), <2>1, <2>4, RelayTyped, Constants
  <2>6. rwindow' \in 0..Len(up)
    BY <1>1, <2>1, <2>2
  <2> QED
    BY <1>4, <1>5, <2>1, <2>2, <2>4, <2>5, <2>6, Zenon
<1>10. CASE DriverConnect \/ DriverTake
  <2>1. rbox # <<>> /\ rbox' = Tail(rbox) /\ rwindow' = rwindow /\ sending' = sending
    BY <1>10, Zenon DEF DriverConnect, DriverTake
  <2>2. rbox' \in Seq(Kinds) /\ Len(rbox') = Len(rbox) - 1
    BY <1>0, <2>1, TailProperties, Zenon
  <2>3. Len(rbox') <= Depth
    BY <1>0, <2>2, RelayTyped, Constants
  <2> QED
    BY <1>0, <1>5, <2>1, <2>2, <2>3, Zenon
<1>11. CASE Open \/ ClientTake \/ ClientWrite \/ ClientRead \/ Unregister \/ UNCHANGED vars
  BY <1>6, <1>11, Zenon DEF Open, ClientTake, ClientWrite, ClientRead, Unregister, vars, inbox
<1>12. CASE \/ \E f \in downfiles : ClientDeliver(f) \/ ClientDelete(f)
            \/ \E f \in upfiles : RelayDelete(f)
            \/ SomeUp \/ SomeDown
  BY <1>6, <1>12, Zenon DEF ClientDeliver, ClientDelete, RelayDelete, SomeUp, SomeDown, SweepUp, SweepDown, inbox
<1>13. CASE SendFails \/ CursorPasses \/ Dial \/ DriverWrite \/ DriverRead
  BY <1>6, <1>13, Zenon DEF SendFails, CursorPasses, Dial, DriverWrite, DriverRead, inbox
<1>14. CASE IdleTimeout \/ Collect \/ Evict \/ Restart
  BY <1>6, <1>14, Zenon DEF IdleTimeout, Collect, Evict, Restart, Abort, inbox
<1> QED
  BY <1>7, <1>8, <1>9, <1>10, <1>11, <1>12, <1>13, <1>14, Zenon DEF Next

-----------------------------------------------------------------------------
(* The inductive invariant.                                                *)

\* A session that was not opened.
LEMMA IInvInit == ASSUME Counted, Init PROVE IInv
<1>1. /\ up = <<>> /\ cbox = <<>> /\ got = <<>> /\ rbox = <<>>
      /\ open = 0 /\ cwindow = 0 /\ driver = 0 /\ rseq = 0 /\ read = 0 /\ written = 0 /\ rwindow = 0
      /\ sending = NoFrame /\ faults = 0
  BY Zenon DEF Init
<1>2. Len(up) = 0 /\ Len(cbox) = 0 /\ Len(got) = 0 /\ Len(rbox) = 0
  BY <1>1
<1>3. Sent = 0
  <2>1. up \in Seq(Kinds) /\ 0 \in Nat /\ \A k \in 1..Len(up) : up[k] = "data" <=> k \in 2..(0 + 1)
    BY <1>1
  <2>2. DataIn(up) = 0
    BY <2>1, DataCounted, Zenon
  <2> QED
    BY <2>2, Zenon DEF Sent
<1>4. Taken = 0 /\ Consumed = 0
  <2>1. Taken = 0 - 0 /\ Consumed = 0 - 0
    BY <1>1, <1>2, Zenon DEF Taken, Consumed
  <2> QED
    BY <2>1
<1>5. TypeOK
  <2>1. FlagTypes
    BY Zenon DEF Init, FlagTypes
  <2>2. upfiles = {} /\ downfiles = {}
    BY Zenon DEF Init
  <2>3. faults \in 0..MaxFaults
    BY <1>1, Constants
  <2>4. FileTypes
    BY <2>2, <2>3, Zenon DEF FileTypes
  <2>5. UpTypes
    BY <1>1, <1>2, Constants DEF UpTypes
  <2>6. BoxTypes
    BY SMTT(60), <1>1, <1>2, Constants DEF BoxTypes
  <2>7. TaskTypes
    BY <1>1, Constants DEF TaskTypes
  <2>8. InboxTypes
    BY <1>1, <1>2, Constants DEF InboxTypes, NoFrame
  <2> QED
    BY <2>1, <2>4, <2>5, <2>6, <2>7, <2>8, TypeParts, Zenon
<1>6. UpShape
  <2>1. Sent \in 0..MaxUp /\ open <= Len(up)
    BY <1>1, <1>2, <1>3, Constants
  <2>2. cst = "new" /\ ~readclosed
    BY Zenon DEF Init
  <2> QED
    BY <1>1, <2>1, <2>2, Zenon DEF UpShape
<1>7. RelayBox
  <2>1. 0 \in 0..0 /\ 1..0 = {}
    OBVIOUS
  <2> QED
    BY <1>1, <1>2, <1>4, <2>1, Zenon DEF RelayBox
<1>8. WrittenPlace
  <2>1. peerwritable /\ drv = None
    BY Zenon DEF Init
  <2>2. drv \notin {"wait", "dial", "pump", "write"}
    BY <2>1 DEF None
  <2> QED
    BY <2>1, <2>2, Zenon DEF WrittenPlace
<1>9. DownlinkPlace
  <2>1. drv = None /\ cend = None /\ ~tcpclosed
    BY Zenon DEF Init
  <2>2. drv \notin {"wait", "dial", "pump", "write"} /\ cend # "closed" /\ rseq <= read + 2
    BY <1>1, <2>1 DEF None
  <2> QED
    BY <1>1, <2>1, <2>2, Zenon DEF DownlinkPlace
<1>10. 0 \in 0..0 /\ 1..0 = {} /\ 0 <= 0
  OBVIOUS
<1>11. ClientBox
  <2>1. cend = None
    BY Zenon DEF Init
  <2> QED
    BY <1>1, <1>2, <1>4, <1>10, <2>1, Zenon DEF ClientBox
<1>12. ClientPlace
  <2>1. cend = None /\ writable /\ downfiles = {}
    BY Zenon DEF Init
  <2>2. cend \notin {"eofs", "closed"}
    BY <2>1 DEF None
  <2> QED
    BY <1>1, <1>2, <1>4, <1>10, <2>1, <2>2, Zenon DEF ClientPlace
<1> QED
  BY <1>5, <1>6, <1>7, <1>8, <1>9, <1>11, <1>12, Zenon DEF IInv

\* Every step keeps the inductive invariant: of the client's pump, of the two
\* pollers, of the driver, of the reaper, and a restart of the relay.
LEMMA IInvNext == ASSUME Counted, IInv, [Next]_vars PROVE IInv'
<1>1. TypeOK /\ UpShape /\ RelayBox /\ WrittenPlace /\ DownlinkPlace /\ ClientBox /\ ClientPlace
  BY Zenon DEF IInv
<1>2. UpShape' /\ UpGrows
  BY <1>1, UpNext, Zenon
<1>3. RelayBox' /\ WrittenPlace'
  BY <1>1, <1>2, PlaceNext, Zenon
<1>4. DownlinkPlace' /\ ClientBox' /\ ClientPlace'
  BY <1>1, DownNext, Zenon
<1>5. TypeOK'
  <2>1. FlagTypes'
    BY <1>1, TypeParts, FlagsNext, Zenon
  <2>2. UpTypes'
    BY <1>1, <1>2, UpTypesNext, Zenon
  <2>3. BoxTypes'
    BY <1>1, BoxTypesNext, Zenon
  <2>4. TaskTypes' /\ downfiles' \subseteq DownFrame
    BY <1>1, <1>2, <1>3, <1>4, TaskTypesNext, Zenon
  <2>5. InboxTypes'
    BY <1>1, <1>2, InboxTypesNext, Zenon
  <2>6. FileTypes'
    BY <1>1, <2>2, <2>4, UpFilesNext, FaultsNext, Zenon DEF FileTypes
  <2> QED
    BY <2>1, <2>2, <2>3, <2>4, <2>5, <2>6, ZenonT(60)
       DEF TypeOK, FlagTypes, FileTypes, UpTypes, BoxTypes, TaskTypes, InboxTypes
<1> QED
  BY <1>2, <1>3, <1>4, <1>5, Zenon DEF IInv

-----------------------------------------------------------------------------
(* The theorems.                                                           *)

LOCAL INSTANCE FiniteSetTheorems

\* The data frames are an interval of the sequence.
LEMMA AllCounted == Counted
<1> SUFFICES ASSUME NEW seq \in Seq(Kinds), NEW d \in Nat, d = 0 \/ d + 1 <= Len(seq),
                    \A k \in 1..Len(seq) : seq[k] = "data" <=> k \in 2..(d + 1)
             PROVE  DataIn(seq) = d
  BY Zenon DEF Counted
<1>0. DOMAIN seq = 1..Len(seq) /\ Len(seq) \in Nat
  OBVIOUS
<1>1. {k \in DOMAIN seq : seq[k] = "data"} = 2..(d + 1)
  <2>1. \A k \in 2..(d + 1) : k \in 1..Len(seq)
    BY <1>0
  <2> QED
    BY SMTT(60), <1>0, <2>1
<1>2. Cardinality(2..(d + 1)) = IF 2 > d + 1 THEN 0 ELSE (d + 1) - 2 + 1
  BY SMTT(60), FS_Interval
<1>3. Cardinality(2..(d + 1)) = d
  BY <1>2
<1>4. Count(2..(d + 1)) = Cardinality(2..(d + 1))
  BY Zenon DEF Cardinality, Count
<1> QED
  BY <1>1, <1>3, <1>4, DataCount, ZenonT(60)

\* The inductive invariant holds in every reachable state.
THEOREM SessionInvariant == Spec => []IInv
<1>1. Init => IInv
  BY AllCounted, IInvInit, Zenon
<1>2. IInv /\ [Next]_vars => IInv'
  BY AllCounted, IInvNext, Zenon
<1> QED
  BY <1>1, <1>2, PTL DEF Spec

\* For every depth of the mailboxes and every number of frames, faults and
\* drivers: the types hold, no mailbox holds more than Depth frames, and a
\* session_driver that runs is in the relay's table, where the reaper finds it.
THEOREM SessionTracked == Spec => []SessionSound
<1>1. IInv => SessionSound
  <2>1. Alive => drv # None
    BY DEF Alive, None
  <2>2. IInv => TypeOK /\ (drv # None => entry)
    BY ZenonT(60) DEF IInv, DownlinkPlace
  <2> QED
    BY <2>1, <2>2, Zenon DEF SessionSound, DriverTracked
<1> QED
  BY <1>1, SessionInvariant, PTL

\* For every value of the constants: when the driver closes the destination's
\* write side, the local socket's input had ended and each of its frames was
\* written, whatever was lost, evicted or restarted before.
THEOREM EofAfterAll == Spec => []EofMeansAll
<1>1. IInv => EofMeansAll
  BY ZenonT(60) DEF IInv, WrittenPlace, EofMeansAll, Sent
<1> QED
  BY <1>1, SessionInvariant, PTL

\* For every value of the constants: a pump_session that ends with both Eofs or
\* with the relay's Close gave the local socket each frame the only driver read.
THEOREM EndedComplete == Spec => []ClosedComplete
<1>1. IInv => ClosedComplete
  BY Zenon DEF IInv, ClientPlace, ClosedComplete
<1> QED
  BY <1>1, SessionInvariant, PTL
=============================================================================
