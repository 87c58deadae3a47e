-------------------------- MODULE DriveStreamProofs --------------------------
(***************************************************************************)
(* Proofs about DriveStream for every number of frames, batch and mailbox  *)
(* size, lookback and clock: one direction of a Drive session implements   *)
(* an ordered stream, no file is removed before its frames were delivered, *)
(* and the cursor strands no file.                                         *)
(*                                                                         *)
(* The first two rest on IInv: files hold disjoint ranges, and a file the  *)
(* window has entered is the one being delivered.  The third needs times:  *)
(* a file that has to wait for an earlier one is safe because that one was *)
(* flushed before it (Tiled), so that as long as the earlier is on its way *)
(* the cursor is behind both (Reach).                                      *)
(***************************************************************************)
EXTENDS DriveStream, WellFoundedInduction, TLAPS

FileType == [st : {"none", "upload", "lost", "hidden", "visible", "gone"}, n : Nat, at : Int]

\* The types the arguments below use.
Types ==
  /\ pushed \in Nat /\ flushed \in Nat /\ window \in Nat
  /\ files \in [Seqs -> FileType]
  /\ clock \in Nat
  /\ listed \subseteq Seqs /\ prepared \subseteq Seqs /\ deletes \subseteq Seqs
  /\ gone \in BOOLEAN

\* Files hold disjoint ranges of the frames that were flushed, and the session
\* got exactly the frames below the window.
Ranges ==
  /\ pushed <= Frames /\ flushed <= pushed /\ window <= flushed
  /\ \A f \in Seqs : files[f].n > 0 => f + files[f].n <= flushed
  /\ \A f, g \in Seqs : f < g /\ files[f].n > 0 /\ files[g].n > 0 => f + files[f].n <= g
  /\ \A f \in deletes : f < window
  /\ received = [k \in 1..window |-> k - 1]

\* A file the window has entered is delivered as a whole, or is being delivered;
\* a delete is spawned only after that.
Whole ==
  ~gone =>
    /\ \A f \in Seqs :
         files[f].n > 0 /\ f < window =>
           f + files[f].n <= window \/ (cycle = "deliver" /\ First(f))
    /\ \A f \in deletes : f + files[f].n <= window

IInv == Types /\ Ranges /\ Whole /\ RemovedIfDelivered

\* The names of files are naturals.
LEMMA SeqsNat == ASSUME NEW f \in Seqs PROVE f \in Nat /\ f < Frames
BY DriveStreamAssumption DEF Seqs, DriveStreamAssumption

\* The invariant holds at the start.
LEMMA InitIInv == Init => IInv
<1> SUFFICES ASSUME Init PROVE IInv
  BY Zenon
<1>1. Types
  <2>1. [st |-> "none", n |-> 0, at |-> 0] \in FileType
    BY DEF FileType
  <2> QED
    BY <2>1, Zenon DEF Init, Types
<1>2. Ranges
  <2>1. received = [k \in 1..window |-> k - 1]
    BY DEF Init
  <2> QED
    BY <2>1, SeqsNat, DriveStreamAssumption DEF Init, Ranges, DriveStreamAssumption
<1>3. Whole
  BY SeqsNat DEF Init, Whole
<1>4. RemovedIfDelivered
  BY Zenon DEF Init, RemovedIfDelivered
<1> QED
  BY <1>1, <1>2, <1>3, <1>4, Zenon DEF IInv

\* What an action that leaves the frames, the files' ranges and the deliveries
\* alone has to show.
LEMMA Frame ==
  ASSUME IInv,
         pushed' = pushed, flushed' = flushed, window' = window, received' = received,
         files' \in [Seqs -> FileType], clock' \in Nat,
         \A f \in Seqs : files'[f].n = files[f].n,
         listed' \subseteq Seqs, prepared' \subseteq Seqs, deletes' \subseteq Seqs,
         \A f \in deletes' : f < window,
         gone' \in BOOLEAN, gone => gone',
         Whole', RemovedIfDelivered'
  PROVE  IInv'
<1>1. Types'
  BY Zenon DEF IInv, Types
<1>2. Ranges'
  BY Zenon DEF IInv, Ranges
<1> QED
  BY <1>1, <1>2, Zenon DEF IInv

\* A flush makes a file out of frames that are in none.
LEMMA FlushIInv ==
  ASSUME IInv, NEW upto \in Nat, flushed < upto, upto <= Frames, Flush(upto),
         pushed' \in Nat, upto <= pushed', pushed' <= Frames,
         UNCHANGED <<clock, poller, session, deletes>>
  PROVE  IInv'
<1> DEFINE file == [st |-> "upload", n |-> upto - flushed, at |-> clock]
<1>0. /\ flushed \in Seqs /\ flushed' = upto /\ upto - flushed \in Nat
      /\ files' = [files EXCEPT ![flushed] = file] /\ file \in FileType
  BY DriveStreamAssumption DEF IInv, Types, Flush, Seqs, FileType, DriveStreamAssumption
<1>1. Types'
  BY <1>0, Zenon DEF IInv, Types, session, poller
<1>2. /\ files'[flushed].n = upto - flushed /\ files'[flushed].st = "upload"
      /\ \A f \in Seqs \ {flushed} : files'[f] = files[f]
      /\ \A f \in Seqs : files[f] \in FileType
  BY <1>0, Zenon DEF IInv, Types
<1>3. \A f \in Seqs : f \in Nat /\ files[f].n \in Nat /\ files'[f].n \in Nat
  BY <1>0, <1>2, SeqsNat, Zenon DEF FileType
<1>n. \A f \in Seqs : files[f].n > 0 => f + files[f].n <= flushed
  BY Zenon DEF IInv, Ranges
<1>4. Ranges'
  <2>1. pushed' <= Frames /\ flushed' <= pushed' /\ window' <= flushed'
    BY <1>0 DEF IInv, Types, Ranges, session
  <2>2. \A f \in Seqs : files'[f].n > 0 => f + files'[f].n <= flushed'
    BY <1>0, <1>2, <1>3, <1>n DEF IInv, Types
  <2>3. \A f, g \in Seqs : f < g /\ files'[f].n > 0 /\ files'[g].n > 0 => f + files'[f].n <= g
    <3> SUFFICES ASSUME NEW f \in Seqs, NEW g \in Seqs, f < g, files'[f].n > 0, files'[g].n > 0
                 PROVE  f + files'[f].n <= g
      BY Zenon
    <3>1. CASE f = flushed
      BY <3>1, <1>2, <1>3, <1>n DEF IInv, Types
    <3>2. CASE f # flushed /\ g = flushed
      BY <3>2, <1>2, <1>3, <1>n, Zenon DEF IInv, Types
    <3>3. CASE f # flushed /\ g # flushed
      BY <3>3, <1>2, <1>3, Zenon DEF IInv, Ranges
    <3> QED
      BY <3>1, <3>2, <3>3, Zenon
  <2>4. received' = [k \in 1..window' |-> k - 1]
    BY Zenon DEF IInv, Ranges, session
  <2>5. \A f \in deletes' : f < window'
    BY Zenon DEF IInv, Ranges, session
  <2> QED
    BY <2>1, <2>2, <2>3, <2>4, <2>5, Zenon DEF Ranges
<1>5. Whole'
  <2>1. window <= flushed /\ window' = window /\ window \in Nat
    BY Zenon DEF IInv, Ranges, Types, session
  <2>2. \A f \in deletes : f \in Seqs /\ (~gone => f + files[f].n <= window)
    BY Zenon DEF IInv, Whole, Types
  <2>3. ASSUME ~gone PROVE \A f \in deletes : f + files'[f].n <= window
    <3> SUFFICES ASSUME NEW f \in deletes PROVE f + files'[f].n <= window
      BY Zenon
    <3>1. f \in Seqs /\ f + files[f].n <= window
      BY <2>2, <2>3, Zenon
    <3>2. f # flushed
      BY <2>1, <3>1, SeqsNat DEF IInv, Ranges, Types
    <3> QED
      BY <3>1, <3>2, <1>2, Zenon
  <2> QED
    BY <2>1, <2>3, <1>2, <1>3, <1>n DEF Whole, IInv, session, poller, First
<1>6. RemovedIfDelivered'
  BY <1>2, Zenon DEF RemovedIfDelivered, IInv, session
<1> QED
  BY <1>1, <1>4, <1>5, <1>6, Zenon DEF IInv

\* A change of the state of some files that are not removed.
LEMMA FileStateIInv ==
  ASSUME IInv, files' \in [Seqs -> FileType],
         \A f \in Seqs : files'[f].n = files[f].n /\ (files'[f].st = "gone" => files[f].st = "gone"),
         UNCHANGED <<sender, clock, poller, session, deletes>>
  PROVE  IInv'
<1>1. Whole'
  BY Zenon DEF IInv, Types, Whole, First, poller, session
<1>2. RemovedIfDelivered'
  BY Zenon DEF IInv, RemovedIfDelivered, session
<1> QED
  BY <1>1, <1>2, Frame, Zenon DEF IInv, Types, Ranges, sender, poller, session

\* A change of where the poller is, outside of a delivery.
LEMMA CycleIInv ==
  ASSUME IInv, cycle # "deliver" \/ prepared = {},
         listed' \subseteq Seqs, UNCHANGED <<prepared, sender, files, clock, session, deletes>>
  PROVE  IInv'
<1>1. Whole'
  BY Zenon DEF IInv, Types, Whole, First, session
<1>2. RemovedIfDelivered'
  BY Zenon DEF IInv, RemovedIfDelivered, session
<1> QED
  BY <1>1, <1>2, Frame, Zenon DEF IInv, Types, Ranges, sender, session

\* Removing files whose frames were delivered.
LEMMA RemovedProps ==
  ASSUME Types, NEW del \in SUBSET Seqs, files' = Removed(del)
  PROVE  /\ files' \in [Seqs -> FileType]
         /\ \A f \in Seqs : files'[f].n = files[f].n
         /\ \A f \in Seqs : f \notin del => files'[f] = files[f]
<1>1. \A f \in Seqs : files[f] \in FileType
  BY Zenon DEF Types
<1>2. \A f \in Seqs : [st |-> "gone", n |-> files[f].n, at |-> 0] \in FileType
  BY <1>1 DEF FileType
<1> QED
  BY <1>1, <1>2, Zenon DEF Removed

\* Looking at the listed files deletes only those below the window.
LEMMA FetchIInv == IInv /\ Fetch => IInv'
<1> SUFFICES ASSUME IInv, Fetch PROVE IInv'
  BY Zenon
<1> DEFINE old(u) == {f \in listed : f < window \/ u}
<1>0. PICK u \in {FALSE, gone} : /\ \E del \in SUBSET old(u) : files' = Removed(del)
                               /\ prepared' \subseteq listed \ old(u)
  BY Zenon DEF Fetch
<1>1. PICK del \in SUBSET old(u) : files' = Removed(del)
  BY <1>0, Zenon
<1>2. /\ cycle = "fetch" /\ cycle' = "deliver" /\ listed' = {}
      /\ prepared' \subseteq {f \in listed : ~(f < window)}
      /\ UNCHANGED <<sender, clock, cursor, call_start, session, deletes>>
  BY <1>0, Zenon DEF Fetch
<1>3. del \in SUBSET Seqs /\ prepared' \subseteq Seqs
  BY <1>1, <1>2, Zenon DEF IInv, Types
<1>4. /\ files' \in [Seqs -> FileType]
      /\ \A f \in Seqs : files'[f].n = files[f].n
      /\ \A f \in Seqs : f \notin del => files'[f] = files[f]
  BY <1>1, <1>3, RemovedProps, Zenon DEF IInv
<1>5. ASSUME ~gone PROVE \A f \in Seqs : files[f].n > 0 /\ f < window => f + files[f].n <= window
  BY <1>2, <1>5, Zenon DEF IInv, Whole
<1>6. Whole'
  BY <1>2, <1>4, <1>5, Zenon DEF IInv, Types, Whole, session
<1>7. RemovedIfDelivered'
  <2> SUFFICES ASSUME NEW f \in Seqs, files'[f].st = "gone", ~gone
               PROVE  f + files'[f].n <= window
    BY <1>2, Zenon DEF RemovedIfDelivered, session
  <2>0. f \in Nat /\ files[f].n \in Nat /\ window \in Nat
    BY SeqsNat, Zenon DEF IInv, Types, FileType
  <2>1. CASE f \in del
    <3>0. ~u
      BY <1>0, Zenon
    <3>1. f < window
      BY <2>1, <3>0, <1>1, Zenon
    <3> QED
      BY <2>0, <2>1, <3>1, <1>1, <1>4, <1>5
  <2>2. CASE f \notin del
    BY <2>2, <1>4, Zenon DEF IInv, RemovedIfDelivered
  <2> QED
    BY <2>1, <2>2, Zenon
<1> QED
  BY <1>2, <1>3, <1>4, <1>6, <1>7, Frame, Zenon DEF IInv, Types, Ranges, sender, session

\* A batch that is left is deleted only if the window has passed its start.
LEMMA BlockedIInv == ASSUME IInv, NEW f \in Seqs, Blocked(f) PROVE IInv'
<1>1. /\ cycle' = cycle /\ First(f) /\ (gone \/ f > window)
      /\ deletes' = deletes \cup DeletePartly(f) /\ prepared' = {}
      /\ UNCHANGED <<sender, files, clock, listed, session>>
  BY Zenon DEF Blocked
<1>2. /\ deletes' \subseteq Seqs /\ \A g \in deletes' : g < window
      /\ ~gone => deletes' = deletes
  BY <1>1, SeqsNat DEF DeletePartly, IInv, Types, Ranges
<1>3. ASSUME NEW g \in Seqs, ~gone, First(g), g < window PROVE FALSE
  BY <1>1, <1>3, SeqsNat DEF First, IInv, Types
<1>4. Whole'
  BY <1>1, <1>2, <1>3, Zenon DEF IInv, Types, Whole, session
<1>5. RemovedIfDelivered'
  BY <1>1, Zenon DEF IInv, RemovedIfDelivered, session
<1> QED
  BY <1>1, <1>2, <1>4, <1>5, Frame, Zenon DEF IInv, Types, sender, session

\* A detached delete removes a file that was delivered as a whole.
LEMMA DeleteIInv == ASSUME IInv, NEW f \in Seqs, DeleteFile(f) PROVE IInv'
<1>1. /\ f \in deletes /\ deletes' = deletes \ {f}
      /\ UNCHANGED <<sender, clock, poller, session>>
      /\ files' = Removed({f}) \/ files' = files
  BY Zenon DEF DeleteFile
<1>2. /\ files' \in [Seqs -> FileType]
      /\ \A g \in Seqs : files'[g].n = files[g].n
      /\ \A g \in Seqs : g # f => files'[g] = files[g]
  <2>1. CASE files' = Removed({f})
    <3>1. {f} \in SUBSET Seqs
      BY Zenon
    <3> QED
      BY <2>1, <3>1, RemovedProps, Zenon DEF IInv
  <2>2. CASE files' = files
    BY <2>2, Zenon DEF IInv, Types
  <2> QED
    BY <1>1, <2>1, <2>2, Zenon
<1>3. Whole'
  BY <1>1, <1>2, Zenon DEF IInv, Types, Whole, First, poller, session
<1>4. RemovedIfDelivered'
  BY <1>1, <1>2, Zenon DEF IInv, Whole, RemovedIfDelivered, session
<1> QED
  BY <1>1, <1>2, <1>3, <1>4, Frame, Zenon DEF IInv, Types, Ranges, sender, poller, session

\* The frame at the window is delivered; it is the next one the sender pushed.
LEMMA DeliverFrameIInv ==
  ASSUME IInv, NEW f \in Seqs, NEW s \in Seqs, DeliverFrame(f, s)
  PROVE  IInv' /\ s = window /\ window < pushed /\ received' = Append(received, window)
<1>0. /\ f \in Nat /\ s \in Nat /\ window \in Nat /\ flushed \in Nat /\ pushed \in Nat
  BY SeqsNat, Zenon DEF IInv, Types
<1>n. \A g \in Seqs : g \in Nat /\ files[g].n \in Nat
  BY SeqsNat, Zenon DEF IInv, Types, FileType
<1>1. /\ cycle = "deliver" /\ First(f) /\ ~gone /\ s = window
      /\ received' = Append(received, s) /\ window' = s + 1
      /\ pushed' = pushed /\ flushed' = flushed /\ files' = files /\ clock' = clock
      /\ cycle' = cycle /\ listed' = listed /\ gone' = gone
  BY Zenon DEF DeliverFrame, CheckNext, sender
<1>w. s = window /\ First(f) /\ ~gone
  BY <1>1, Zenon
<1>2. \/ s + 1 = f + files[f].n /\ prepared' = prepared \ {f} /\ deletes' = deletes \cup {f}
      \/ s + 1 # f + files[f].n /\ prepared' = prepared /\ deletes' = deletes
  BY Zenon DEF DeliverFrame
<1>3. /\ files[f].n > 0 /\ f <= s /\ s + 1 <= f + files[f].n
      /\ f + files[f].n <= flushed /\ flushed <= pushed
  <2>1. s \in f..(f + files[f].n - 1)
    BY Zenon DEF DeliverFrame
  <2>2. files[f].n > 0 /\ f <= s /\ s + 1 <= f + files[f].n
    BY <1>0, <1>n, <2>1
  <2> QED
    BY <2>2, Zenon DEF IInv, Ranges
<1>d. deletes' \subseteq deletes \cup {f} /\ prepared' \subseteq prepared
  BY <1>2, Zenon
<1>4. Types'
  BY <1>0, <1>1, <1>d DEF IInv, Types
<1>5. Ranges'
  <2>1. received' = [k \in 1..window' |-> k - 1]
    <3>1. received = [k \in 1..window |-> k - 1] /\ received' = Append(received, window)
      BY <1>1, Zenon DEF IInv, Ranges
    <3>2. Append([k \in 1..window |-> k - 1], window) = [k \in 1..(window + 1) |-> k - 1]
      BY <1>0
    <3> QED
      BY <3>1, <3>2, <1>1, Zenon
  <2>2. window' <= flushed
    BY <1>0, <1>n, <1>1, <1>3
  <2>3. \A g \in deletes' : g < window'
    <3>1. \A g \in deletes : g \in Nat /\ g < window
      BY <1>n, Zenon DEF IInv, Ranges, Types
    <3> QED
      BY <3>1, <1>0, <1>1, <1>3, <1>d
  <2> QED
    BY <2>1, <2>2, <2>3, <1>1, Zenon DEF IInv, Ranges
<1>6. Whole'
  <2>1. ASSUME NEW g \in Seqs, files[g].n > 0, g < s + 1, g # f
        PROVE  g + files[g].n <= s + 1
    <3>1. CASE g > f
      <4>1. f + files[f].n <= g
        BY <3>1, <2>1, <1>3, Zenon DEF IInv, Ranges
      <4>2. g \in Nat /\ files[f].n \in Nat
        BY <1>n, Zenon
      <4> QED
        BY <4>1, <4>2, <2>1, <1>0, <1>3
    <3>2. CASE g < f
      <4>0. g \in Nat /\ files[g].n \in Nat
        BY <1>n, Zenon
      <4>1. ~First(g)
        <5>1. g \in prepared => f <= g
          BY <1>w, Zenon DEF First
        <5> QED
          BY <3>2, <4>0, <1>0, <5>1 DEF First
      <4>2. g + files[g].n <= window
        <5>1. g < window
          BY <3>2, <4>0, <1>0, <1>w, <1>3
        <5> QED
          BY <4>1, <5>1, <2>1, <1>w, Zenon DEF IInv, Whole
      <4> QED
        BY <4>2, <4>0, <1>0, <1>w
    <3>3. g < f \/ g > f
      <4>1. g \in Nat /\ f \in Nat /\ g # f
        BY <2>1, <1>n, Zenon
      <4> QED
        BY <4>1
    <3> QED
      BY <3>1, <3>2, <3>3, Zenon
  <2>2. \A g \in deletes : g \in Seqs /\ g + files[g].n <= s
    BY <1>1, Zenon DEF IInv, Whole, Types
  <2>3. \A g \in deletes' : g + files[g].n <= s + 1
    <3> SUFFICES ASSUME NEW g \in deletes' PROVE g + files[g].n <= s + 1
      BY Zenon
    <3>1. CASE g \in deletes
      <4>1. g \in Seqs /\ g + files[g].n <= s
        BY <3>1, <2>2, Zenon
      <4>2. g \in Nat /\ files[g].n \in Nat
        BY <4>1, <1>n, Zenon
      <4> QED
        BY <4>1, <4>2, <1>0
    <3>2. CASE g \notin deletes
      <4>1. g = f /\ s + 1 = f + files[f].n
        BY <3>2, <1>2, Zenon
      <4>2. s + 1 \in Int
        BY <1>0
      <4> QED
        BY <4>1, <4>2
    <3> QED
      BY <3>1, <3>2, Zenon
  <2>4. f + files[f].n <= s + 1 \/ (First(f))'
    <3>1. CASE s + 1 = f + files[f].n
      <4>1. s + 1 \in Int
        BY <1>0
      <4> QED
        BY <3>1, <4>1
    <3>2. CASE s + 1 # f + files[f].n
      BY <3>2, <1>1, <1>2, Zenon DEF First
    <3> QED
      BY <3>1, <3>2, Zenon
  <2>5. \A g \in Seqs : files[g].n > 0 /\ g < s + 1 =>
                        g + files[g].n <= s + 1 \/ (cycle = "deliver" /\ (First(g))')
    BY <2>1, <2>4, <1>1, Zenon
  <2> QED
    BY <2>3, <2>5, <1>1, Zenon DEF Whole, First
<1>7. RemovedIfDelivered'
  <2> SUFFICES ASSUME NEW g \in Seqs, files[g].st = "gone" PROVE g + files[g].n <= s + 1
    BY <1>1, Zenon DEF RemovedIfDelivered
  <2>1. g + files[g].n <= window
    BY <1>1, Zenon DEF IInv, RemovedIfDelivered
  <2>2. g \in Nat /\ files[g].n \in Nat
    BY <1>n, Zenon
  <2> QED
    BY <2>1, <2>2, <1>0, <1>1
<1>8. window < pushed
  BY SMTT(60), <1>0, <1>n, <1>1, <1>3
<1> QED
  BY <1>1, <1>4, <1>5, <1>6, <1>7, <1>8, Zenon DEF IInv

\* Every step keeps the invariant.
LEMMA NextIInv == IInv /\ [Next]_vars => IInv'
<1> SUFFICES ASSUME IInv, [Next]_vars PROVE IInv'
  BY Zenon
<1>t. /\ pushed \in Nat /\ flushed \in Nat /\ clock \in Nat /\ flushed <= pushed
      /\ \A f \in Seqs : files[f] \in FileType
      /\ Frames \in Nat /\ MaxClock \in Nat
  BY DriveStreamAssumption, Zenon DEF IInv, Types, Ranges, DriveStreamAssumption
<1>1. CASE Push
  <2>1. CASE Flush(pushed + 1)
    <3>1. /\ pushed' = pushed + 1 /\ pushed + 1 <= Frames
          /\ UNCHANGED <<clock, poller, session, deletes>>
      BY <1>1, <1>t DEF Push
    <3> QED
      BY <2>1, <3>1, <1>t, FlushIInv
  <2>2. CASE UNCHANGED <<flushed, files>>
    <3>1. /\ pushed' = pushed + 1 /\ pushed + 1 <= Frames
          /\ UNCHANGED <<clock, poller, session, deletes>>
      BY <1>1, <1>t DEF Push
    <3>2. Types' /\ Ranges'
      BY <2>2, <3>1, <1>t DEF IInv, Types, Ranges, poller, session
    <3>3. Whole' /\ RemovedIfDelivered'
      BY <2>2, <3>1, Zenon DEF IInv, Whole, First, RemovedIfDelivered, poller, session
    <3> QED
      BY <3>2, <3>3, Zenon DEF IInv
  <2> QED
    BY <1>1, <2>1, <2>2, Zenon DEF Push
<1>2. CASE FlushTimer
  <2>1. /\ flushed < pushed /\ Flush(pushed) /\ pushed' = pushed /\ pushed <= Frames
        /\ UNCHANGED <<clock, poller, session, deletes>>
    BY <1>2, Zenon DEF FlushTimer, Armed, IInv, Ranges
  <2> QED
    BY <2>1, <1>t, FlushIInv
<1>3. CASE Tick
  <2>1. clock' = clock + 1 /\ UNCHANGED <<sender, files, poller, session, deletes>>
    BY <1>3, Zenon DEF Tick
  <2>2. Types' /\ Ranges' /\ Whole' /\ RemovedIfDelivered'
    BY <2>1, <1>t DEF IInv, Types, Ranges, Whole, First, RemovedIfDelivered, sender, poller, session
  <2> QED
    BY <2>2, Zenon DEF IInv
<1>4. ASSUME NEW f \in Seqs, UploadLands(f) \/ UploadFails(f) \/ BecomesVisible(f) PROVE IInv'
  <2>1. PICK r \in FileType : /\ files' = [files EXCEPT ![f] = r]
                              /\ r.n = files[f].n /\ r.st # "gone"
    <3>1. files[f].n \in Nat /\ files[f].at \in Int
      BY <1>t, Zenon DEF FileType
    <3>2. CASE UploadLands(f)
      <4>1. files' = [files EXCEPT ![f] = [st |-> "hidden", n |-> files[f].n, at |-> clock]]
        BY <3>2, <1>t, Zenon DEF UploadLands, IInv, Types
      <4>2. [st |-> "hidden", n |-> files[f].n, at |-> clock] \in FileType
        BY <3>1, <1>t DEF FileType
      <4> QED
        BY <4>1, <4>2, Zenon
    <3>3. CASE UploadFails(f)
      <4>1. files' = [files EXCEPT ![f] = [st |-> "lost", n |-> files[f].n, at |-> 0]]
        BY <3>3, <1>t, Zenon DEF UploadFails, IInv, Types
      <4>2. [st |-> "lost", n |-> files[f].n, at |-> 0] \in FileType
        BY <3>1 DEF FileType
      <4> QED
        BY <4>1, <4>2, Zenon
    <3>4. CASE BecomesVisible(f)
      <4>1. files' = [files EXCEPT ![f] = [st |-> "visible", n |-> files[f].n, at |-> files[f].at]]
        BY <3>4, <1>t, Zenon DEF BecomesVisible, IInv, Types
      <4>2. [st |-> "visible", n |-> files[f].n, at |-> files[f].at] \in FileType
        BY <3>1, Zenon DEF FileType
      <4> QED
        BY <4>1, <4>2, Zenon
    <3> QED
      BY <1>4, <3>2, <3>3, <3>4, Zenon
  <2>2. UNCHANGED <<sender, clock, poller, session, deletes>>
    BY <1>4, Zenon DEF UploadLands, UploadFails, BecomesVisible
  <2>3. /\ files' \in [Seqs -> FileType]
        /\ \A g \in Seqs : files'[g].n = files[g].n /\ (files'[g].st = "gone" => files[g].st = "gone")
    BY <2>1, Zenon DEF IInv, Types
  <2> QED
    BY <2>2, <2>3, FileStateIInv, Zenon
<1>5. ASSUME NEW f \in Seqs, DeleteFile(f) PROVE IInv'
  BY <1>5, DeleteIInv, Zenon
<1>6. CASE StartCycle
  BY <1>6, CycleIInv, Zenon DEF StartCycle, IInv, Types
<1>7. CASE List
  <2>1. /\ cycle = "list" /\ listed' \subseteq Seqs
        /\ UNCHANGED <<prepared, sender, files, clock, session, deletes>>
    BY <1>7, Zenon DEF List
  <2> QED
    BY <2>1, CycleIInv, Zenon
<1>8. CASE ListFails
  BY <1>8, CycleIInv, Zenon DEF ListFails, IInv, Types
<1>9. CASE EndCycle
  BY <1>9, CycleIInv, Zenon DEF EndCycle, IInv, Types
<1>10. CASE Fetch
  BY <1>10, FetchIInv, Zenon
<1>11. CASE Deliver
  BY <1>11, BlockedIInv, DeliverFrameIInv, Zenon DEF Deliver
<1>12. CASE Take
  <2>1. UNCHANGED <<sender, files, clock, poller, window, received, gone, deletes>>
    BY <1>12, Zenon DEF Take
  <2>2. Types' /\ Ranges' /\ Whole' /\ RemovedIfDelivered'
    BY <2>1, Zenon DEF IInv, Types, Ranges, Whole, First, RemovedIfDelivered, sender, poller
  <2> QED
    BY <2>2, Zenon DEF IInv
<1>13. CASE Exit
  <2>1. gone' = TRUE /\ UNCHANGED <<sender, files, clock, poller, window, received, deletes>>
    BY <1>13, Zenon DEF Exit
  <2>2. Types' /\ Ranges' /\ Whole' /\ RemovedIfDelivered'
    BY <2>1, Zenon DEF IInv, Types, Ranges, Whole, RemovedIfDelivered, sender, poller
  <2> QED
    BY <2>2, Zenon DEF IInv
<1>14. CASE UNCHANGED vars
  <2>1. UNCHANGED <<sender, files, clock, poller, session, deletes>>
    BY <1>14, Zenon DEF vars
  <2>2. Types' /\ Ranges' /\ Whole' /\ RemovedIfDelivered'
    BY <2>1, Zenon DEF IInv, Types, Ranges, Whole, First, RemovedIfDelivered, sender, poller, session
  <2> QED
    BY <2>2, Zenon DEF IInv
<1> QED
  BY <1>1, <1>2, <1>3, <1>4, <1>5, <1>6, <1>7, <1>8, <1>9, <1>10, <1>11, <1>12, <1>13, <1>14
    , Zenon DEF Next, Poll

\* A file leaves the folder only after its frames were handed to the session,
\* for any bounds and any failures of uploads, listings, downloads and deletes.
THEOREM RemovalSafe == Spec => []RemovedIfDelivered
<1>1. Init => IInv
  BY InitIInv, Zenon
<1>2. IInv /\ [Next]_vars => IInv'
  BY NextIInv, Zenon
<1>3. IInv => RemovedIfDelivered
  BY Zenon DEF IInv
<1> QED
  BY <1>1, <1>2, <1>3, PTL DEF Spec

\* The frames sent, as a sequence.
LEMMA SentType == pushed \in Nat => Len(Sent) = pushed /\ \A k \in 1..pushed : Sent[k] = k - 1
BY DEF Sent

\* A step of the direction is a step of the ordered stream or changes neither
\* end of it.
LEMMA StreamStep ==
  ASSUME IInv, [Next]_vars
  PROVE  [Stream!Send \/ Stream!Receive]_<<Sent, received>>
<1>t. pushed \in Nat /\ window \in Nat /\ received = [k \in 1..window |-> k - 1]
  BY Zenon DEF IInv, Types, Ranges
<1>1. CASE Push
  <2>1. pushed' = pushed + 1 /\ received' = received /\ pushed \in Seqs
    BY <1>1, <1>t, DriveStreamAssumption DEF Push, session, Seqs, DriveStreamAssumption
  <2>2. Sent' = [k \in 1..(pushed + 1) |-> k - 1]
    BY <2>1, Zenon DEF Sent
  <2>3. Append([k \in 1..pushed |-> k - 1], pushed) = [k \in 1..(pushed + 1) |-> k - 1]
    BY <1>t
  <2>4. Sent' = Append(Sent, pushed)
    BY <2>2, <2>3, Zenon DEF Sent
  <2> QED
    BY <2>1, <2>4, Zenon DEF Stream!Send
<1>2. ASSUME NEW f \in Seqs, NEW s \in Seqs, DeliverFrame(f, s) PROVE Stream!Receive
  <2>1. window < pushed /\ received' = Append(received, window)
    BY <1>2, DeliverFrameIInv, Zenon
  <2>2. pushed' = pushed
    BY <1>2, Zenon DEF DeliverFrame, sender
  <2>3. Sent' = Sent
    BY <2>2, Zenon DEF Sent
  <2>4. Len(received) = window
    BY <1>t
  <2>5. Sent[window + 1] = window /\ Len(Sent) = pushed
    BY <1>t, <2>1, SentType
  <2> QED
    BY <2>1, <2>3, <2>4, <2>5, Zenon DEF Stream!Receive
<1>3. ASSUME pushed' = pushed, received' = received PROVE UNCHANGED <<Sent, received>>
  BY <1>3, Zenon DEF Sent
<1>4. CASE ~Push /\ ~(\E f, s \in Seqs : DeliverFrame(f, s))
  <2>1. pushed' = pushed /\ received' = received
    BY <1>4, Zenon DEF Next, vars, Poll, Deliver, FlushTimer, Flush, Tick, UploadLands, UploadFails, BecomesVisible,
                DeleteFile, StartCycle, List, Fetch, Blocked, EndCycle, ListFails, Take, Exit,
                sender, session
  <2> QED
    BY <2>1, <1>3, Zenon
<1> QED
  BY <1>1, <1>2, <1>4, Zenon

\* One direction of a Drive session implements the ordered stream: the session
\* gets the frames in the order they were pushed, each one once.
THEOREM ImplementsStream == Spec => InOrderOnce
<1>1. Init => IInv /\ Stream!Init
  <2>1. Init => Stream!Init
    BY DEF Init, Stream!Init, Sent
  <2> QED
    BY <2>1, InitIInv, Zenon
<1>2. IInv /\ [Next]_vars => IInv' /\ [Stream!Send \/ Stream!Receive]_<<Sent, received>>
  BY NextIInv, StreamStep, Zenon
<1> QED
  BY <1>1, <1>2, PTL DEF Spec, InOrderOnce, Stream!Spec

-----------------------------------------------------------------------------
\* The order of the naturals, as a relation.
Less == {p \in Nat \X Nat : p[1] < p[2]}

\* A bounded set of times has a greatest one: the CHOOSE of advance_modified_cursor
\* is defined.
LEMMA GreatestElement ==
  ASSUME NEW n \in Nat, NEW T, T \subseteq 0..n, T # {}
  PROVE  \E x \in T : \A y \in T : y <= x
<1> DEFINE R == {n - t : t \in T}
<1>1. IsWellFoundedOn(Less, Nat)
  BY NatLessThanWellFounded, Zenon DEF OpToRel, Less
<1>2. R \subseteq Nat /\ R # {}
  <2>1. PICK t \in T : TRUE
    BY Zenon
  <2>2. n - t \in R
    BY <2>1, Zenon
  <2>3. ASSUME NEW r \in R PROVE r \in Nat
    <3>1. PICK u \in T : r = n - u
      BY Zenon
    <3>2. u \in 0..n
      BY Zenon
    <3> QED
      BY <3>1, <3>2
  <2> QED
    BY <2>2, <2>3, Zenon
<1>3. PICK x \in R : \A y \in R : ~(<<y, x>> \in Less)
  BY <1>1, <1>2, WFMin, Zenon
<1>4. PICK t \in T : x = n - t
  BY Zenon
<1>5. ASSUME NEW s \in T PROVE s <= t
  <2>1. n - s \in R /\ n - s \in Nat /\ x \in Nat
    BY <1>2, Zenon
  <2>2. ~(n - s < x)
    BY <2>1, <1>3, Zenon DEF Less
  <2> QED
    BY <2>2, <1>4
<1> QED
  BY <1>5, Zenon

-----------------------------------------------------------------------------
(* Types, times and phases.                                                *)

\* Uploads and the listing delay end in time, no time is ahead of the clock, and
\* the cursor trails the clock by the lookback.
Timed ==
  /\ clock <= MaxClock /\ call_start \in 0..clock
  /\ cursor \in None..clock /\ (cursor <= 0 \/ cursor + Lookback <= clock)
  /\ \A f \in Seqs :
       /\ files[f].at \in 0..clock
       /\ files[f].st = "upload" => clock <= files[f].at + UploadMax
       /\ files[f].st = "hidden" => clock <= files[f].at + VisibleMax

\* The sizes: of what is pending, of a file, of the mailbox.
Counted ==
  /\ pushed < flushed + MaxBatch
  /\ \A f \in Seqs : files[f].n <= MaxBatch
  /\ taken \in 0..window /\ window - taken <= MailboxDepth
  /\ faults \in 0..MaxFaults

\* What the poller holds where.
Phases ==
  /\ cycle \in {"sleep", "list", "fetch", "deliver"}
  /\ cycle # "fetch" => listed = {}
  /\ cycle # "deliver" => prepared = {}

\* advance_modified_cursor leaves the cursor or moves it to the lookback behind a
\* time that has passed.
LEMMA AdvanceBound ==
  ASSUME Timed, clock \in Nat, NEW found, found \subseteq Seqs, Advance(found)
  PROVE  /\ cursor' \in None..clock
         /\ cursor' = cursor \/ cursor' <= 0 \/ cursor' + Lookback <= clock
<1> DEFINE times == {files[f].at : f \in found} \cup {call_start}
           m == CHOOSE x \in times : \A t \in times : t <= x
<1>1. times \subseteq 0..clock /\ times # {}
  BY Zenon DEF Timed
<1>2. m \in 0..clock
  <2>1. \E x \in times : \A t \in times : t <= x
    BY <1>1, GreatestElement, Zenon
  <2>2. m \in times
    BY <2>1, Zenon
  <2> QED
    BY <1>1, <2>2, Zenon
<1>3. Proposed(found) = m - Lookback
  BY Zenon DEF Proposed
<1> HIDE DEF m
<1>4. Lookback \in Nat /\ cursor \in None..clock
  BY DriveStreamAssumption, Zenon DEF DriveStreamAssumption, Timed
<1> QED
  BY <1>2, <1>3, <1>4 DEF Advance, None

\* What a step does to the files, seen from one file.
Same(f) == files'[f] = files[f]
Began(f) ==
  /\ f = flushed /\ flushed + files'[f].n = flushed'
  /\ files'[f].st = "upload" /\ files'[f].n \in Nat \ {0} /\ files'[f].at = clock
Landed(f) ==
  /\ files[f].st = "upload" /\ files'[f].st = "hidden"
  /\ files'[f].n = files[f].n /\ files'[f].at = clock
Failed(f) ==
  /\ files[f].st = "upload" /\ files'[f].st = "lost" /\ faults' > 0
  /\ files'[f].n = files[f].n /\ files'[f].at = 0
Appeared(f) ==
  /\ files[f].st = "hidden" /\ files'[f].st = "visible"
  /\ files'[f].n = files[f].n /\ files'[f].at = files[f].at
Deleted(f) == files'[f].st = "gone" /\ files'[f].n = files[f].n /\ files'[f].at = 0
Changes(f) == Same(f) \/ Began(f) \/ Landed(f) \/ Failed(f) \/ Appeared(f) \/ Deleted(f)

\* Removed marks files and keeps their size.
LEMMA RemovedChanges ==
  ASSUME IInv, NEW T, files' = Removed(T)
  PROVE  \A f \in Seqs : Same(f) \/ (f \in T /\ Deleted(f))
BY Zenon DEF Removed, Same, Deleted

\* A flush changes the file it begins.
LEMMA FlushChanges ==
  ASSUME IInv, NEW upto \in Nat, Flush(upto), flushed < upto, upto <= pushed', upto <= Frames
  PROVE  flushed \in Seqs /\ Began(flushed) /\ \A f \in Seqs : Same(f) \/ Began(f)
<1>1. flushed \in Seqs
  BY DriveStreamAssumption DEF IInv, Types, Seqs, DriveStreamAssumption
<1>2. \A f \in Seqs : f # flushed => Same(f)
  BY Zenon DEF IInv, Types, Flush, Same
<1>3. files'[flushed] = [st |-> "upload", n |-> upto - flushed, at |-> clock] /\ flushed' = upto
  BY <1>1, Zenon DEF IInv, Types, Flush
<1>4. Began(flushed)
  <2>1. upto - flushed \in Nat \ {0} /\ flushed + (upto - flushed) = upto
    BY DEF IInv, Types
  <2> QED
    BY <1>3, <2>1 DEF Began
<1> QED
  BY <1>1, <1>2, <1>4, Zenon

\* Every step changes each file in one of these ways, and on no tick.
LEMMA FileChanges ==
  ASSUME IInv, Counted, [Next]_vars
  PROVE  /\ \A f \in Seqs : Changes(f)
         /\ clock' = clock \/ (Tick /\ files' = files)
<1>t. /\ pushed \in Nat /\ flushed \in Nat /\ pushed <= Frames /\ flushed <= pushed /\ faults \in Nat
      /\ Frames \in Nat /\ files \in [Seqs -> FileType]
  BY DriveStreamAssumption DEF IInv, Types, Ranges, Counted, DriveStreamAssumption
<1>1. CASE Push
  <2>0. pushed < Frames /\ pushed' = pushed + 1 /\ clock' = clock
    BY <1>1, Zenon DEF Push
  <2>1. CASE Flush(pushed + 1)
    <3>1. \A f \in Seqs : Same(f) \/ Began(f)
      BY <2>0, <2>1, <1>t, FlushChanges
    <3> QED
      BY <2>0, <3>1, Zenon DEF Changes
  <2>2. CASE UNCHANGED <<flushed, files>>
    BY <2>0, <2>2, Zenon DEF Changes, Same
  <2> QED
    BY <1>1, <2>1, <2>2, Zenon DEF Push
<1>2. CASE FlushTimer
  <2>1. Flush(pushed) /\ flushed < pushed /\ pushed' = pushed /\ clock' = clock
    BY <1>2, Zenon DEF FlushTimer, Armed
  <2>2. \A f \in Seqs : Same(f) \/ Began(f)
    BY <2>1, <1>t, FlushChanges
  <2> QED
    BY <2>1, <2>2, Zenon DEF Changes
<1>3. ASSUME NEW f \in Seqs, UploadLands(f) \/ UploadFails(f) \/ BecomesVisible(f)
      PROVE  clock' = clock /\ \A g \in Seqs : Changes(g)
  <2>1. clock' = clock /\ \A g \in Seqs \ {f} : Same(g)
    BY <1>3, <1>t, Zenon DEF UploadLands, UploadFails, BecomesVisible, Same
  <2>2. CASE UploadLands(f)
    <3>1. files'[f] = [st |-> "hidden", n |-> files[f].n, at |-> clock] /\ files[f].st = "upload"
      BY <2>2, <1>t, Zenon DEF UploadLands
    <3>2. Landed(f)
      BY <3>1 DEF Landed
    <3> QED
      BY <2>1, <3>2, Zenon DEF Changes
  <2>3. CASE UploadFails(f)
    <3>1. files'[f] = [st |-> "lost", n |-> files[f].n, at |-> 0] /\ files[f].st = "upload"
      BY <2>3, <1>t, Zenon DEF UploadFails
    <3>2. faults' > 0
      BY <2>3, <1>t DEF UploadFails, Fails
    <3>3. Failed(f)
      BY <3>1, <3>2 DEF Failed
    <3> QED
      BY <2>1, <3>3, Zenon DEF Changes
  <2>4. CASE BecomesVisible(f)
    <3>1. /\ files'[f] = [st |-> "visible", n |-> files[f].n, at |-> files[f].at]
          /\ files[f].st = "hidden"
      BY <2>4, <1>t, Zenon DEF BecomesVisible
    <3>2. Appeared(f)
      BY <3>1 DEF Appeared
    <3> QED
      BY <2>1, <3>2, Zenon DEF Changes
  <2> QED
    BY <1>3, <2>2, <2>3, <2>4, Zenon
<1>4. ASSUME NEW f \in Seqs, DeleteFile(f)
      PROVE  clock' = clock /\ \A g \in Seqs : Changes(g)
  <2>1. clock' = clock /\ (files' = Removed({f}) \/ files' = files)
    BY <1>4, Zenon DEF DeleteFile
  <2> QED
    BY <2>1, RemovedChanges, Zenon DEF Changes, Same
<1>5. CASE Fetch
  <2>1. PICK T : files' = Removed(T)
    BY <1>5, Zenon DEF Fetch
  <2>2. clock' = clock
    BY <1>5, Zenon DEF Fetch
  <2> QED
    BY <2>1, <2>2, RemovedChanges, Zenon DEF Changes
<1>6. CASE Tick
  BY <1>6, Zenon DEF Tick, Changes, Same
<1>7. CASE StartCycle \/ List \/ ListFails \/ EndCycle \/ Take \/ Exit
  BY <1>7, Zenon DEF StartCycle, List, ListFails, EndCycle, Take, Exit, Changes, Same
<1>8. CASE Deliver
  BY <1>8, Zenon DEF Deliver, Blocked, DeliverFrame, Changes, Same
<1>9. CASE UNCHANGED vars
  BY <1>9, Zenon DEF vars, Changes, Same
<1> QED
  BY <1>1, <1>2, <1>3, <1>4, <1>5, <1>6, <1>7, <1>8, <1>9, Zenon DEF Next, Poll

\* The times are kept by every step.
LEMMA TimedNext == IInv /\ Timed /\ Counted /\ [Next]_vars => Timed'
<1> SUFFICES ASSUME IInv, Timed, Counted, [Next]_vars PROVE Timed'
  BY Zenon
<1>t. /\ clock \in Nat /\ MaxClock \in Nat /\ Lookback \in Nat /\ UploadMax \in Nat
      /\ VisibleMax \in Nat /\ \A f \in Seqs : files[f].at \in 0..clock
  BY DriveStreamAssumption, Zenon DEF IInv, Types, Timed, DriveStreamAssumption
<1>1. CASE Tick
  <2>1. /\ clock' = clock + 1 /\ clock < MaxClock /\ files' = files
        /\ cursor' = cursor /\ call_start' = call_start
    BY <1>1, Zenon DEF Tick, poller
  <2>2. \A f \in Seqs : /\ files[f].st = "upload" => clock < files[f].at + UploadMax
                        /\ files[f].st = "hidden" => clock < files[f].at + VisibleMax
    BY <1>1, Zenon DEF Tick
  <2> QED
    BY <2>1, <2>2, <1>t DEF Timed, None
<1>2. CASE clock' = clock
  <2>1. ASSUME NEW f \in Seqs
        PROVE  /\ files'[f].at \in 0..clock
               /\ files'[f].st = "upload" => clock <= files'[f].at + UploadMax
               /\ files'[f].st = "hidden" => clock <= files'[f].at + VisibleMax
    <3>1. Changes(f)
      BY FileChanges, Zenon
    <3> QED
      BY <3>1, <1>t DEF Changes, Same, Began, Landed, Failed, Appeared, Deleted, Timed
  <2>2. /\ cursor' \in None..clock /\ call_start' \in 0..clock
        /\ cursor' <= 0 \/ cursor' + Lookback <= clock
    <3>1. /\ cursor \in None..clock /\ call_start \in 0..clock
          /\ cursor <= 0 \/ cursor + Lookback <= clock
      BY Zenon DEF Timed
    <3>2. CASE cursor' = cursor /\ call_start' \in {call_start, 0, clock}
      BY <3>1, <3>2, <1>t
    <3>3. CASE List
      <4>1. PICK found : found \subseteq Seqs /\ Advance(found) /\ call_start' = 0
        BY <3>3, Zenon DEF List
      <4> QED
        BY <4>1, <3>1, <1>t, AdvanceBound
    <3>4. CASE ListFails
      <4>1. call_start' = 0 /\ (Advance({}) \/ cursor' = cursor)
        BY <3>4, Zenon DEF ListFails
      <4>2. {} \subseteq Seqs
        BY Zenon
      <4> QED
        BY <4>1, <4>2, <3>1, <1>t, AdvanceBound
    <3>5. CASE StartCycle \/ Fetch \/ EndCycle \/ Deliver
      BY <3>5, <3>2, Zenon DEF StartCycle, Fetch, EndCycle, Deliver, Blocked, DeliverFrame
    <3>6. CASE UNCHANGED poller
      BY <3>6, <3>2, Zenon DEF poller
    <3>7. CASE Push \/ FlushTimer \/ Tick \/ Take \/ Exit \/ UNCHANGED vars
      BY <3>7, <3>6, Zenon DEF Push, FlushTimer, Tick, Take, Exit, vars
    <3>8. ASSUME NEW f \in Seqs, UploadLands(f) \/ UploadFails(f) \/ BecomesVisible(f) \/ DeleteFile(f)
          PROVE  UNCHANGED poller
      BY <3>8, Zenon DEF UploadLands, UploadFails, BecomesVisible, DeleteFile
    <3> QED
      BY <3>3, <3>4, <3>5, <3>6, <3>7, <3>8, Zenon DEF Next, Poll
  <2>3. clock <= MaxClock
    BY Zenon DEF Timed
  <2> QED
    BY <2>1, <2>2, <2>3, <1>2, Zenon DEF Timed
<1> QED
  BY <1>1, <1>2, FileChanges, Zenon

\* The sizes are kept by every step.
LEMMA CountedNext == IInv /\ Counted /\ [Next]_vars => Counted'
<1> SUFFICES ASSUME IInv, Counted, [Next]_vars PROVE Counted'
  BY Zenon
<1>t. /\ pushed \in Nat /\ flushed \in Nat /\ window \in Nat /\ taken \in 0..window /\ faults \in 0..MaxFaults
      /\ flushed <= pushed /\ pushed < flushed + MaxBatch /\ window - taken <= MailboxDepth
      /\ MaxBatch \in Nat \ {0} /\ MailboxDepth \in Nat \ {0} /\ MaxFaults \in Nat
      /\ received = [k \in 1..window |-> k - 1]
  BY DriveStreamAssumption, Zenon DEF IInv, Types, Ranges, Counted, DriveStreamAssumption
<1>l. Len(received) = window
  <2>1. received \in Seq(Int)
    BY <1>t
  <2> QED
    BY <1>t, <2>1
<1>1. pushed' < flushed' + MaxBatch /\ flushed' <= flushed + MaxBatch
  <2>1. CASE Push
    BY <2>1, <1>t DEF Push, Flush
  <2>2. CASE FlushTimer
    BY <2>2, <1>t DEF FlushTimer, Flush
  <2>3. CASE UNCHANGED sender
    BY <2>3, <1>t DEF sender
  <2>4. ASSUME NEW f \in Seqs, UploadLands(f) \/ UploadFails(f) \/ BecomesVisible(f) \/ DeleteFile(f)
        PROVE  UNCHANGED sender
    BY <2>4, Zenon DEF UploadLands, UploadFails, BecomesVisible, DeleteFile
  <2>5. CASE Tick \/ StartCycle \/ List \/ ListFails \/ Fetch \/ EndCycle
    BY <2>3, <2>5, Zenon DEF Tick, StartCycle, List, ListFails, Fetch, EndCycle
  <2>6. CASE Deliver \/ Take \/ Exit \/ UNCHANGED vars
    BY <2>3, <2>6, Zenon DEF Deliver, Blocked, DeliverFrame, Take, Exit, vars
  <2> QED
    BY <2>1, <2>2, <2>3, <2>4, <2>5, <2>6, Zenon DEF Next, Poll
<1>2. \A f \in Seqs : files'[f].n <= MaxBatch
  <2> SUFFICES ASSUME NEW f \in Seqs PROVE files'[f].n <= MaxBatch
    BY Zenon
  <2>1. Changes(f) /\ files[f].n <= MaxBatch
    BY FileChanges, Zenon DEF Counted
  <2>2. CASE Began(f)
    <3>1. flushed' \in Nat
      <4>1. IInv'
        BY NextIInv, Zenon
      <4> QED
        BY <4>1, Zenon DEF IInv, Types
    <3>2. PICK n \in Nat \ {0} : n = files'[f].n /\ flushed + n = flushed'
      BY <2>2, Zenon DEF Began
    <3>3. n <= MaxBatch
      BY SMTT(60), <3>1, <3>2, <1>1, <1>t
    <3> QED
      BY <3>2, <3>3, Zenon
  <2> QED
    BY <2>1, <2>2, Zenon DEF Changes, Same, Landed, Failed, Appeared, Deleted
<1>3. taken' \in 0..window' /\ window' - taken' <= MailboxDepth
  <2>1. ASSUME NEW f \in Seqs, NEW s \in Seqs, DeliverFrame(f, s)
        PROVE  window' = window + 1 /\ taken' = taken /\ window - taken < MailboxDepth
    BY <2>1, <1>l, Zenon DEF DeliverFrame, CheckNext, MailboxHasRoom
  <2>2. ASSUME NEW f \in Seqs, Blocked(f) PROVE UNCHANGED <<window, taken>>
    BY <2>2, Zenon DEF Blocked, session
  <2>3. CASE Deliver
    BY <2>1, <2>2, <2>3, <1>t DEF Deliver
  <2>4. CASE Take
    BY <2>4, <1>t, <1>l DEF Take
  <2>5. CASE UNCHANGED <<window, taken>>
    BY <2>5, <1>t, Zenon
  <2>6. ASSUME NEW f \in Seqs, UploadLands(f) \/ UploadFails(f) \/ BecomesVisible(f) \/ DeleteFile(f)
        PROVE  UNCHANGED <<window, taken>>
    BY <2>6, Zenon DEF UploadLands, UploadFails, BecomesVisible, DeleteFile, session
  <2>7. CASE Tick \/ StartCycle \/ List \/ ListFails \/ Fetch \/ EndCycle
    BY <2>5, <2>7, Zenon DEF Tick, StartCycle, List, ListFails, Fetch, EndCycle, session
  <2>8. CASE Push \/ FlushTimer \/ Exit \/ UNCHANGED vars
    BY <2>5, <2>8, Zenon DEF Push, FlushTimer, Exit, vars, session
  <2> QED
    BY <2>3, <2>4, <2>6, <2>5, <2>7, <2>8, Zenon DEF Next, Poll
<1>4. faults' \in 0..MaxFaults
  <2>1. ASSUME NEW k, Fails(k) PROVE faults' \in 0..MaxFaults
    BY <2>1, <1>t DEF Fails
  <2>2. CASE faults' = faults
    BY <2>2, <1>t, Zenon
  <2>3. ASSUME NEW f \in Seqs, UploadLands(f) \/ UploadFails(f) \/ BecomesVisible(f) \/ DeleteFile(f)
        PROVE  faults' \in 0..MaxFaults
    BY <2>1, <2>2, <2>3, Zenon DEF UploadLands, UploadFails, BecomesVisible, DeleteFile
  <2>4. CASE Tick \/ StartCycle \/ List \/ ListFails \/ Fetch \/ EndCycle
    BY <2>1, <2>2, <2>4, Zenon DEF Tick, StartCycle, List, ListFails, Fetch, EndCycle
  <2>5. CASE Push \/ FlushTimer \/ Exit \/ Take \/ Deliver \/ UNCHANGED vars
    BY <2>2, <2>5, Zenon DEF Push, FlushTimer, Exit, Take, Deliver, Blocked, DeliverFrame, vars
  <2> QED
    BY <2>3, <2>4, <2>5, Zenon DEF Next, Poll
<1> QED
  BY <1>1, <1>2, <1>3, <1>4, Zenon DEF Counted

\* The phases are kept by every step.
LEMMA PhasesNext == Phases /\ [Next]_vars => Phases'
<1> SUFFICES ASSUME Phases, [Next]_vars PROVE Phases'
  BY Zenon
<1>1. CASE UNCHANGED <<cycle, listed, prepared>>
  BY <1>1, Zenon DEF Phases
<1>2. CASE StartCycle \/ ListFails \/ EndCycle
  BY <1>2, Zenon DEF StartCycle, ListFails, EndCycle, Phases
<1>3. CASE List
  BY <1>3, Zenon DEF List, Phases
<1>4. CASE Fetch
  BY <1>4, Zenon DEF Fetch, Phases
<1>5. CASE Deliver
  BY <1>5, Zenon DEF Deliver, Blocked, DeliverFrame, Phases
<1>6. ASSUME NEW f \in Seqs, UploadLands(f) \/ UploadFails(f) \/ BecomesVisible(f) \/ DeleteFile(f)
      PROVE  UNCHANGED <<cycle, listed, prepared>>
  BY <1>6, Zenon DEF UploadLands, UploadFails, BecomesVisible, DeleteFile, poller
<1>7. CASE Push \/ FlushTimer \/ Tick \/ Take \/ Exit \/ UNCHANGED vars
  BY <1>1, <1>7, Zenon DEF Push, FlushTimer, Tick, Take, Exit, vars, poller
<1> QED
  BY <1>1, <1>2, <1>3, <1>4, <1>5, <1>6, <1>7, Zenon DEF Next, Poll

\* The invariant behind the types of all variables.
TInv == IInv /\ Timed /\ Counted /\ Phases

\* It holds at the start and is kept.
LEMMA TInvAlways == Spec => []TInv
<1>1. Init => TInv
  <2> SUFFICES ASSUME Init PROVE TInv
    BY Zenon
  <2>1. \A f \in Seqs : files[f].st = "none" /\ files[f].n = 0 /\ files[f].at = 0
    BY Zenon DEF Init
  <2>2. Timed
    BY <2>1, DriveStreamAssumption DEF Init, Timed, None, DriveStreamAssumption
  <2>3. Counted /\ Phases
    BY <2>1, DriveStreamAssumption DEF Init, Counted, Phases, DriveStreamAssumption
  <2> QED
    BY <2>2, <2>3, InitIInv, Zenon DEF TInv
<1>2. TInv /\ [Next]_vars => TInv'
  BY NextIInv, TimedNext, CountedNext, PhasesNext, Zenon DEF TInv
<1> QED
  BY <1>1, <1>2, PTL DEF Spec

\* The types of all variables, for any bounds: a batch never exceeds its limit, the
\* mailbox never more than its depth, and no time is ahead of the clock.
THEOREM StreamTyped == Spec => []TypeOK
<1>1. TInv => TypeOK
  <2> SUFFICES ASSUME TInv PROVE TypeOK
    BY Zenon
  <2>t. /\ pushed \in Nat /\ flushed \in Nat /\ window \in Nat /\ clock \in Nat /\ MaxClock \in Nat
        /\ Frames \in Nat /\ MaxBatch \in Nat /\ files \in [Seqs -> FileType]
        /\ received = [k \in 1..window |-> k - 1] /\ window <= flushed /\ flushed <= pushed
        /\ pushed <= Frames /\ clock <= MaxClock
    BY DriveStreamAssumption, Zenon DEF TInv, IInv, Types, Ranges, Timed, DriveStreamAssumption
  <2>1. received \in Seq(Seqs) /\ Len(received) = window
    <3>1. \A k \in 1..window : k - 1 \in Seqs
      BY <2>t DEF Seqs
    <3>2. received \in [1..window -> Seqs]
      BY <3>1, <2>t, Zenon
    <3> QED
      BY <3>2, <2>t
  <2>2. files \in [Seqs -> [st : {"none", "upload", "lost", "hidden", "visible", "gone"},
                            n : 0..MaxBatch, at : 0..MaxClock]]
    <3> SUFFICES ASSUME NEW f \in Seqs
                 PROVE  files[f] \in [st : {"none", "upload", "lost", "hidden", "visible", "gone"},
                                      n : 0..MaxBatch, at : 0..MaxClock]
      BY <2>t, Zenon
    <3>1. files[f] \in FileType
      BY <2>t, Zenon
    <3>2. files[f].n \in 0..MaxBatch /\ files[f].at \in 0..MaxClock
      BY <3>1, <2>t DEF TInv, Counted, Timed, FileType
    <3> QED
      BY <3>1, <3>2, Zenon DEF FileType
  <2>3. cursor \in None..MaxClock /\ call_start \in 0..clock /\ clock \in 0..MaxClock
    BY <2>t DEF TInv, Timed, None
  <2>4. /\ taken \in 0..Len(received) /\ Len(received) - taken <= MailboxDepth
        /\ faults \in 0..MaxFaults
    BY <2>1, Zenon DEF TInv, Counted
  <2>5. listed \subseteq Seqs /\ prepared \subseteq Seqs /\ deletes \subseteq Seqs /\ gone \in BOOLEAN
    BY Zenon DEF TInv, IInv, Types
  <2>6. cycle \in {"sleep", "list", "fetch", "deliver"}
    BY Zenon DEF TInv, Phases
  <2>7. pushed \in 0..Frames /\ flushed \in 0..pushed /\ window \in 0..Frames
    BY <2>t
  <2> QED
    BY <2>1, <2>2, <2>3, <2>4, <2>5, <2>6, <2>7, Zenon DEF TypeOK
<1> QED
  BY <1>1, TInvAlways, PTL

-----------------------------------------------------------------------------
(* The cursor leaves nothing behind.                                       *)

\* The states of a file whose frames may still be delivered.
Ahead == {"upload", "hidden", "visible"}

\* The files lie side by side, and an earlier one was flushed no later: what is
\* still being uploaded began before, what is not yet listed landed at most the
\* length of an upload after a later one.
Tiled ==
  /\ \A f \in Seqs : /\ files[f].st = "none" => files[f].n = 0
                     /\ files[f].st \in Ahead => files[f].n > 0
  /\ \A f \in Seqs : files[f].n > 0 =>
       f + files[f].n = flushed \/ (f + files[f].n \in Seqs /\ files[f + files[f].n].n > 0)
  /\ \A f, g \in Seqs : f < g /\ files[g].st \in Ahead =>
       /\ files[f].st = "upload" => files[f].at <= files[g].at
       /\ files[f].st = "hidden" => files[f].at <= files[g].at + UploadMax

\* The window stands at the start of a file or inside one.
AtFile == window = flushed \/ (window \in Seqs /\ files[window].n > 0)
Inside == \E f \in Seqs : f < window /\ window < f + files[f].n

\* From a file g on that the poller does not hold, the cursor is behind every file.
Covered(g, f) ==
  window <= g /\ g <= f /\ files[g].st \in Ahead /\ files[f].st \in Ahead =>
    g \in listed \/ g \in prepared \/ cursor <= files[f].at

\* While nothing failed: no frame is lost, and the poller or a later listing has
\* every file from the window on.
Reach ==
  faults = 0 /\ ~gone =>
    /\ AtFile \/ Inside
    /\ \A f \in Seqs : files[f].st # "lost"
    /\ \A f, g \in Seqs : Covered(g, f)

\* What Tiled rests on, of one file.
LEMMA Facts ==
  ASSUME TInv, NEW f \in Seqs
  PROVE  /\ f \in Nat /\ f < Frames /\ files[f] \in FileType /\ files[f].n \in Nat
         /\ files[f].at \in 0..clock
         /\ files[f].n > 0 => f + files[f].n <= flushed
         /\ f >= flushed => files[f].n = 0
<1>1. f \in Nat /\ f < Frames /\ files[f] \in FileType /\ files[f].at \in 0..clock /\ flushed \in Nat
  BY SeqsNat, Zenon DEF TInv, IInv, Types, Timed
<1>2. files[f].n \in Nat
  BY <1>1, Zenon DEF FileType
<1>3. files[f].n > 0 => f + files[f].n <= flushed
  BY Zenon DEF TInv, IInv, Ranges
<1> QED
  BY <1>1, <1>2, <1>3

\* flushed moves only where a file begins.
LEMMA FlushedMoves ==
  ASSUME TInv, [Next]_vars
  PROVE  flushed' = flushed \/ (flushed \in Seqs /\ Began(flushed))
<1>t. /\ pushed \in Nat /\ flushed \in Nat /\ pushed <= Frames /\ flushed <= pushed
  BY Zenon DEF TInv, IInv, Types, Ranges
<1>f. /\ Frames \in Nat /\ IInv
  BY DriveStreamAssumption, Zenon DEF DriveStreamAssumption, TInv
<1>0. ASSUME NEW upto \in Nat, Flush(upto), flushed < upto, upto <= pushed', upto <= Frames
      PROVE  flushed \in Seqs /\ Began(flushed)
  BY <1>0, <1>f, FlushChanges, Zenon
<1>1. CASE Push
  <2>1. pushed' = pushed + 1 /\ pushed < Frames /\ (Flush(pushed + 1) \/ flushed' = flushed)
    BY <1>1, Zenon DEF Push
  <2> QED
    BY <2>1, <1>0, <1>t, <1>f
<1>2. CASE FlushTimer
  <2>1. pushed' = pushed /\ flushed < pushed /\ Flush(pushed)
    BY <1>2, Zenon DEF FlushTimer, Armed
  <2> QED
    BY <2>1, <1>0, <1>t, <1>f
<1>3. CASE UNCHANGED sender
  BY <1>3, Zenon DEF sender
<1>4. ASSUME NEW f \in Seqs, UploadLands(f) \/ UploadFails(f) \/ BecomesVisible(f) \/ DeleteFile(f)
      PROVE  UNCHANGED sender
  BY <1>4, Zenon DEF UploadLands, UploadFails, BecomesVisible, DeleteFile
<1>5. CASE Tick \/ StartCycle \/ List \/ ListFails \/ Fetch \/ EndCycle
  BY <1>3, <1>5, Zenon DEF Tick, StartCycle, List, ListFails, Fetch, EndCycle
<1>6. CASE Deliver \/ Take \/ Exit \/ UNCHANGED vars
  BY <1>3, <1>6, Zenon DEF Deliver, Blocked, DeliverFrame, Take, Exit, vars
<1> QED
  BY <1>1, <1>2, <1>3, <1>4, <1>5, <1>6, Zenon DEF Next, Poll

\* A file that begins was none; every other keeps its size.
LEMMA SizeKept ==
  ASSUME TInv, Tiled, [Next]_vars, NEW f \in Seqs
  PROVE  /\ Began(f) => files[f].n = 0 /\ files'[f].n > 0
         /\ ~Began(f) => files'[f].n = files[f].n
         /\ files'[f].st = "none" => files'[f].n = 0
         /\ files'[f].st \in Ahead => files'[f].n > 0
<1>1. Changes(f)
  BY FileChanges, Zenon DEF TInv
<1>2. /\ files[f].n \in Nat /\ (f >= flushed => files[f].n = 0) /\ flushed \in Nat /\ flushed' \in Nat
      /\ files[f].st = "none" => files[f].n = 0
      /\ files[f].st \in Ahead => files[f].n > 0
  BY Facts, NextIInv, Zenon DEF TInv, IInv, Types, Tiled
<1>3. Began(f) => files[f].n = 0 /\ files'[f].n > 0
  BY <1>2 DEF Began
<1>4. ~Began(f) => files'[f].n = files[f].n
  BY <1>1, Zenon DEF Changes, Same, Landed, Failed, Appeared, Deleted
<1>5. /\ files'[f].st = "none" => files'[f].n = 0
      /\ files'[f].st \in Ahead => files'[f].n > 0
  BY <1>1, <1>2, <1>3, Zenon DEF Changes, Same, Began, Landed, Failed, Appeared, Deleted, Ahead
<1> QED
  BY <1>3, <1>4, <1>5, Zenon

\* The layout of the files is kept by every step.
LEMMA TiledNext == TInv /\ Tiled /\ [Next]_vars => Tiled'
<1> SUFFICES ASSUME TInv, Tiled, [Next]_vars PROVE Tiled'
  BY Zenon
<1>1. \A f \in Seqs : /\ files'[f].st = "none" => files'[f].n = 0
                      /\ files'[f].st \in Ahead => files'[f].n > 0
  BY SizeKept, Zenon
<1>2. ASSUME NEW f \in Seqs, files'[f].n > 0
      PROVE  f + files'[f].n = flushed' \/ (f + files'[f].n \in Seqs /\ files'[f + files'[f].n].n > 0)
  <2>1. CASE Began(f)
    BY <2>1, Zenon DEF Began
  <2>2. CASE ~Began(f)
    <3> DEFINE g == f + files[f].n
    <3>1. files'[f].n = files[f].n /\ (g = flushed \/ (g \in Seqs /\ files[g].n > 0))
      BY <1>2, <2>2, SizeKept, Zenon DEF Tiled
    <3>2. CASE g \in Seqs /\ files[g].n > 0
      <4>1. files'[g].n > 0
        BY <3>2, SizeKept, Zenon
      <4> QED
        BY <3>1, <3>2, <4>1, Zenon
    <3>3. CASE g = flushed
      <4>1. CASE flushed' = flushed
        BY <3>1, <3>3, <4>1, Zenon
      <4>2. CASE flushed \in Seqs /\ Began(flushed)
        <5>1. files'[flushed].n > 0
          BY <4>2, SizeKept, Zenon
        <5> QED
          BY <3>1, <3>3, <4>2, <5>1, Zenon
      <4> QED
        BY <4>1, <4>2, FlushedMoves, Zenon
    <3> QED
      BY <3>1, <3>2, <3>3, Zenon
  <2> QED
    BY <2>1, <2>2, Zenon
<1>3. ASSUME NEW f \in Seqs, NEW g \in Seqs, f < g, files'[g].st \in Ahead
      PROVE  /\ files'[f].st = "upload" => files'[f].at <= files'[g].at
             /\ files'[f].st = "hidden" => files'[f].at <= files'[g].at + UploadMax
  <2>0. Changes(f) /\ Changes(g)
    BY FileChanges, Zenon DEF TInv
  <2>1. /\ files[f].at \in 0..clock /\ files[g].at \in 0..clock /\ clock \in Nat /\ UploadMax \in Nat
        /\ f \in Nat /\ g \in Nat /\ files[g].n \in Nat /\ files[f].n \in Nat /\ flushed \in Nat
    BY Facts, DriveStreamAssumption, Zenon DEF DriveStreamAssumption, TInv, IInv, Types
  <2>2. /\ files[f].st = "upload" => clock <= files[f].at + UploadMax
        /\ files[f].at <= clock /\ files[g].at <= clock
    BY <2>1 DEF TInv, Timed
  <2>3. files[g].st \in Ahead =>
          /\ files[f].st = "upload" => files[f].at <= files[g].at
          /\ files[f].st = "hidden" => files[f].at <= files[g].at + UploadMax
    BY <1>3, Zenon DEF Tiled
  <2>4. CASE Began(f)
    \* Nothing is flushed behind the file that begins.
    <3>1. ~Began(g) /\ files[g].n = 0
      BY <1>3, <2>1, <2>4, Facts DEF Began
    <3>2. files'[g].n = 0
      BY <3>1, SizeKept, Zenon
    <3> QED
      BY SMTT(60), <1>3, <3>2, SizeKept
  <2>5. CASE Began(g) \/ Landed(g)
    <3>1. files'[g].at = clock
      BY <2>5, Zenon DEF Began, Landed
    <3>2. ~Began(f) => files'[f].at <= clock
      BY SMTT(60), <2>0, <2>1 DEF Changes, Same, Landed, Failed, Appeared, Deleted
    <3>3. files'[f].at \in Nat
      BY <2>0, <2>1 DEF Changes, Same, Began, Landed, Failed, Appeared, Deleted
    <3> QED
      BY <2>1, <2>4, <3>1, <3>2, <3>3
  <2>6. CASE Same(g) \/ Appeared(g)
    <3>1. files[g].st \in Ahead /\ files'[g].at = files[g].at
      BY <1>3, <2>6, Zenon DEF Same, Appeared, Ahead
    <3>2. CASE Landed(f)
      BY <2>1, <2>2, <2>3, <3>1, <3>2 DEF Landed
    <3> QED
      BY <2>0, <2>3, <2>4, <3>1, <3>2, Zenon DEF Changes, Same, Failed, Appeared, Deleted
  <2> QED
    BY <1>3, <2>0, <2>5, <2>6, Zenon DEF Changes, Failed, Deleted, Ahead
<1> QED
  BY <1>1, <1>2, <1>3, Zenon DEF Tiled

\* What Reach says holds after a step that moves no window, cursor or poller, where
\* the files change as they may.
LEMMA FilesReach ==
  ASSUME TInv, Tiled, Reach, [Next]_vars, TInv', Tiled',
         UNCHANGED <<window, cursor>>, gone => gone', faults <= faults',
         \A f \in Seqs : window <= f /\ (f \in listed \/ f \in prepared) => f \in listed' \/ f \in prepared'
  PROVE  Reach'
<1> SUFFICES ASSUME faults' = 0, ~gone'
             PROVE  (/\ AtFile \/ Inside
                     /\ \A f \in Seqs : files[f].st # "lost"
                     /\ \A f, g \in Seqs : Covered(g, f))'
  BY ZenonT(60) DEF Reach
<1>0. /\ AtFile \/ Inside
      /\ \A f \in Seqs : files[f].st # "lost"
      /\ \A f, g \in Seqs : Covered(g, f)
  BY DEF Reach, TInv, Counted
<1>1. (AtFile \/ Inside)'
  <2>1. CASE Inside
    <3>1. PICK f \in Seqs : f < window /\ window < f + files[f].n
      BY <2>1, Zenon DEF Inside
    <3>2. files'[f].n = files[f].n
      <4>1. files[f].n # 0
        BY <3>1, Facts DEF TInv, IInv, Types
      <4> QED
        BY <4>1, SizeKept, Zenon
    <3> QED
      BY <3>1, <3>2, Zenon DEF Inside
  <2>2. CASE window \in Seqs /\ files[window].n > 0
    <3>1. files'[window].n > 0
      BY <2>2, SizeKept, Zenon
    <3> QED
      BY <2>2, <3>1, Zenon DEF AtFile
  <2>3. CASE window = flushed
    <3>1. CASE flushed \in Seqs /\ Began(flushed)
      <4>1. files'[flushed].n > 0
        BY <3>1, SizeKept, Zenon
      <4> QED
        BY <2>3, <3>1, <4>1, Zenon DEF AtFile
    <3> QED
      BY <2>3, <3>1, FlushedMoves, Zenon DEF AtFile
  <2> QED
    BY <1>0, <2>1, <2>2, <2>3, Zenon DEF AtFile
<1>2. \A f \in Seqs : files'[f].st # "lost"
  <2> SUFFICES ASSUME NEW f \in Seqs PROVE files'[f].st # "lost"
    BY Zenon
  <2>1. Changes(f) /\ files[f].st # "lost"
    BY <1>0, FileChanges, Zenon DEF TInv
  <2> QED
    BY <2>1 DEF Changes, Same, Began, Landed, Failed, Appeared, Deleted
<1>3. ASSUME NEW f \in Seqs, NEW g \in Seqs, window <= g, g <= f,
             files'[g].st \in Ahead, files'[f].st \in Ahead, g \notin listed', g \notin prepared'
      PROVE  cursor <= files'[f].at
  <2>0. Changes(f) /\ Changes(g)
    BY FileChanges, Zenon DEF TInv
  <2>1. /\ cursor \in None..clock /\ clock \in Nat /\ cursor <= clock /\ f \in Nat /\ g \in Nat /\ flushed \in Nat
    BY SeqsNat DEF TInv, Timed, IInv, Types
  <2>2. CASE Began(f) \/ Landed(f)
    BY <2>1, <2>2, Zenon DEF Began, Landed
  <2>3. CASE Same(f) \/ Appeared(f)
    <3>1. files[f].st \in Ahead /\ files'[f].at = files[f].at
      BY <1>3, <2>3, ZenonT(60) DEF Same, Appeared, Ahead
    <3>2. CASE Began(g)
      \* There is no file behind the one that begins.
      <4>1. f = g \/ files[f].n = 0
        BY <1>3, <3>2, <2>1, Facts, Zenon DEF Began
      <4>2. files[g].n = 0
        BY <3>2, SizeKept, Zenon
      <4> QED
        BY <3>1, <4>1, <4>2 DEF Tiled
    <3>3. CASE ~Began(g)
      <4>1. files[g].st \in Ahead
        BY <1>3, <2>0, <3>3, Zenon DEF Changes, Same, Landed, Failed, Appeared, Deleted, Ahead
      <4>2. g \notin listed /\ g \notin prepared
        BY <1>3, Zenon
      <4>3. Covered(g, f)
        BY <1>0, Zenon
      <4> QED
        BY <1>3, <3>1, <4>1, <4>2, <4>3, Zenon DEF Covered
    <3> QED
      BY <3>2, <3>3, Zenon
  <2> QED
    BY <1>3, <2>0, <2>2, <2>3, Zenon DEF Changes, Failed, Deleted, Ahead
<1>4. \A f, g \in Seqs : Covered(g, f)'
  BY <1>3, Zenon DEF Covered
<1> QED
  BY <1>1, <1>2, <1>4, Zenon

\* Where the file at the window is not held by the poller, the cursor is behind
\* every file from the window on: this is what a batch that has to wait relies on.
LEMMA WindowCovers ==
  ASSUME TInv, Tiled, Reach, faults = 0, ~gone, AtFile, window \notin listed, window \notin prepared,
         NEW f \in Seqs, window <= f, files[f].st \in Ahead
  PROVE  cursor <= files[f].at
<1>1. window \in Nat /\ files[f].n > 0 /\ f < flushed
  BY Facts DEF TInv, IInv, Types, Tiled
<1>2. window \in Seqs /\ files[window].n > 0
  BY <1>1, SeqsNat DEF AtFile, TInv, IInv, Types
<1>3. files[window].st \notin {"none", "lost", "gone"}
  <2>1. files[window].st # "gone"
    <3>1. files[window].st = "gone" => window + files[window].n <= window
      BY <1>2, Zenon DEF TInv, IInv, RemovedIfDelivered
    <3> QED
      BY <1>1, <1>2, <3>1, Facts
  <2>2. files[window].st # "none"
    BY <1>2 DEF Tiled
  <2> QED
    BY <1>2, <2>1, <2>2, Zenon DEF Reach
<1>4. files[window].st \in Ahead
  <2>1. files[window] \in FileType
    BY <1>2, Facts, Zenon
  <2> QED
    BY <1>3, <2>1, Zenon DEF FileType, Ahead
<1>5. Covered(window, f)
  BY <1>2, Zenon DEF Reach
<1> QED
  BY SMTT(60), <1>1, <1>4, <1>5 DEF Covered

\* The lookback covers an upload and the delay of a listing.
LEMMA LookbackEnough ==
  ASSUME UploadMax + VisibleMax <= Lookback,
         NEW c \in Int, NEW t \in Nat, NEW a \in Nat, NEW b \in Nat, c + Lookback <= t,
         \/ t <= a + UploadMax /\ a <= b
         \/ t <= a + VisibleMax /\ a <= b + UploadMax
  PROVE  c <= b
<1>1. Lookback \in Nat /\ UploadMax \in Nat /\ VisibleMax \in Nat
  BY DriveStreamAssumption, Zenon DEF DriveStreamAssumption
<1> QED
  BY <1>1

\* A listing: what it does not find is on its way, and was flushed or has landed
\* within the lookback.
LEMMA ListReach ==
  ASSUME UploadMax + VisibleMax <= Lookback, TInv, Tiled, Reach, List
  PROVE  Reach'
<1> DEFINE found == {f \in Seqs : files[f].st = "visible" /\ ModifiedSince(f)}
<1>t. /\ clock \in Nat /\ Lookback \in Nat /\ UploadMax \in Nat /\ VisibleMax \in Nat
      /\ cursor \in None..clock
  BY DriveStreamAssumption, Zenon DEF DriveStreamAssumption, TInv, IInv, Types, Timed
<1>0. /\ listed' = found /\ Advance(found) /\ listed = {} /\ prepared = {} /\ prepared' = {}
      /\ UNCHANGED <<sender, files, clock, session, deletes, faults>>
  BY Zenon DEF List, TInv, Phases
<1>1. cursor' = cursor \/ cursor' <= 0 \/ cursor' + Lookback <= clock
  BY <1>0, <1>t, AdvanceBound, Zenon DEF TInv
<1>2. cursor' \in None..clock
  BY <1>0, <1>t, AdvanceBound, Zenon DEF TInv
<1> SUFFICES ASSUME faults = 0, ~gone PROVE (\A f, g \in Seqs : Covered(g, f))'
  BY <1>0, Zenon DEF Reach, AtFile, Inside, session, sender
<1>3. ASSUME NEW f \in Seqs, NEW g \in Seqs, window <= g, g <= f,
             files[g].st \in Ahead, files[f].st \in Ahead, g \notin found
      PROVE  cursor' <= files[f].at
  <2>1. Covered(g, f) /\ Covered(g, g)
    BY Zenon DEF Reach
  <2>2. /\ files[f].at \in 0..clock /\ files[g].at \in 0..clock /\ f \in Nat /\ g \in Nat
    BY Facts, Zenon
  <2>3. cursor <= files[f].at /\ cursor <= files[g].at
    BY SMTT(60), <1>0, <1>3, <2>1, <2>2 DEF Covered
  <2>4. CASE cursor' = cursor \/ cursor' <= 0
    BY SMTT(60), <2>2, <2>3, <2>4, <1>2, <1>t DEF None
  <2>5. cursor' \in Int /\ clock \in Nat /\ files[f].at \in Nat /\ files[g].at \in Nat
    BY <2>2, <1>2, <1>t DEF None
  <2>6. CASE cursor' + Lookback <= clock
    <3>1. files[g].st \in {"upload", "hidden"}
      BY <1>3, <2>3, Zenon DEF ModifiedSince, Ahead
    <3>2. CASE files[g].st = "upload"
      <4>1. clock <= files[g].at + UploadMax /\ files[g].at <= files[f].at
        <5>1. f # g => g < f
          BY <1>3, <2>2
        <5> QED
          BY SMTT(60), <1>3, <2>2, <3>2, <5>1 DEF TInv, Timed, Tiled
      <4> QED
        BY <4>1, <2>5, <2>6, LookbackEnough, ZenonT(60)
    <3>3. CASE files[g].st = "hidden"
      <4>1. clock <= files[g].at + VisibleMax /\ files[g].at <= files[f].at + UploadMax
        <5>1. f # g => g < f
          BY <1>3, <2>2
        <5>2. clock <= files[g].at + VisibleMax
          BY <3>3, Zenon DEF TInv, Timed
        <5>3. CASE f = g
          BY <5>2, <5>3, <2>2, <1>t
        <5>4. CASE g < f
          BY <5>2, <5>4, <1>3, <3>3, Zenon DEF Tiled
        <5> QED
          BY <5>1, <5>3, <5>4, Zenon
      <4> QED
        BY <4>1, <2>5, <2>6, LookbackEnough, Zenon
    <3> QED
      BY <3>1, <3>2, <3>3, Zenon
  <2> QED
    BY <1>1, <2>4, <2>6, Zenon
<1>4. window' = window /\ files' = files
  BY <1>0, Zenon DEF session
<1> QED
  BY <1>0, <1>3, <1>4, Zenon DEF Covered

\* The listed files are looked at: either all from the window on are downloaded, or
\* the one at the window is missing, and the others are listed again.
LEMMA FetchReach ==
  ASSUME TInv, Tiled, Reach, Fetch, TInv', Tiled'
  PROVE  Reach'
<1> SUFFICES ASSUME faults' = 0, ~gone' PROVE Reach'
  BY Zenon DEF Reach
<1>n. [Next]_vars
  BY Zenon DEF Next, Poll
<1>0. /\ cycle = "fetch" /\ listed' = {} /\ UNCHANGED <<sender, clock, cursor, session>>
      /\ window' = window /\ gone' = gone /\ faults \in Nat
  BY DEF Fetch, session, TInv, Counted
<1>1. /\ faults = 0 /\ ~gone
      /\ prepared' = IF window \in listed THEN {f \in listed : ~(f < window)} ELSE {}
  <2>1. PICK unregistered \in {FALSE, gone} :
          LET old == {f \in listed : f < window \/ unregistered}
              rest == listed \ old
              wanted == IF window \in rest THEN rest ELSE {}
          IN  \/ prepared' = wanted /\ UNCHANGED faults
              \/ Fails("download")
    BY Zenon DEF Fetch
  <2>2. ~Fails("download")
    BY <1>0 DEF Fails
  <2>3. ~gone /\ ~unregistered
    <3>1. gone' = gone
      BY <1>0, Zenon
    <3>2. ~gone
      BY <3>1, Zenon
    <3>3. unregistered = FALSE \/ unregistered = gone
      BY Zenon
    <3> QED
      BY <3>2, <3>3
  <2>4. window \in Nat /\ ~(window < window)
    BY DEF TInv, IInv, Types
  <2> QED
    BY <2>1, <2>2, <2>3, <2>4, Zenon
<1>2. CASE window \in listed
  <2>1. \A f \in Seqs : window <= f /\ (f \in listed \/ f \in prepared) => f \in listed' \/ f \in prepared'
    <3>1. prepared = {} /\ window \in Nat
      BY <1>0, Zenon DEF TInv, Phases, IInv, Types
    <3>2. \A f \in Seqs : window <= f => ~(f < window)
      BY <3>1, SeqsNat
    <3> QED
      BY <1>1, <1>2, <3>1, <3>2, Zenon
  <2> QED
    BY <1>n, <1>0, <1>1, <2>1, FilesReach
<1>3. CASE window \notin listed
  <2>1. prepared = {} /\ AtFile
    <3>1. prepared = {} /\ cycle # "deliver"
      BY <1>0, Zenon DEF TInv, Phases
    <3>2. ASSUME NEW f \in Seqs, f < window, window < f + files[f].n PROVE FALSE
      <4>1. f + files[f].n <= window
        <5>1. files[f].n > 0
          BY <3>2, Facts DEF TInv, IInv, Types
        <5> QED
          BY <1>1, <3>1, <3>2, <5>1, Zenon DEF TInv, IInv, Whole
      <4> QED
        BY <3>2, <4>1, Facts DEF TInv, IInv, Types
    <3> QED
      BY <1>1, <3>1, <3>2, Zenon DEF Reach, Inside
  <2>2. ASSUME NEW f \in Seqs, window <= f, files'[f].st \in Ahead PROVE cursor <= files'[f].at
    <3>1. PICK T : files' = Removed(T)
      BY Zenon DEF Fetch
    <3>2. Same(f) \/ Deleted(f)
      BY <3>1, RemovedChanges, Zenon DEF TInv
    <3>3. files'[f] = files[f]
      BY <2>2, <3>2, Zenon DEF Same, Deleted, Ahead
    <3> QED
      BY <1>1, <1>3, <2>1, <2>2, <3>3, WindowCovers, Zenon
  <2>3. window \in Nat /\ \A f \in Seqs : f \in Nat
    BY SeqsNat, Zenon DEF TInv, IInv, Types
  <2>4. \A f, g \in Seqs : Covered(g, f)'
    BY <1>0, <2>2, <2>3 DEF Covered
  <2>5. \A f \in Seqs : files'[f].st # "lost"
    <3>1. PICK T : files' = Removed(T)
      BY Zenon DEF Fetch
    <3>2. \A f \in Seqs : Same(f) \/ Deleted(f)
      BY <3>1, RemovedChanges, Zenon DEF TInv
    <3> QED
      BY <1>1, <3>2, Zenon DEF Reach, Same, Deleted
  <2>6. AtFile'
    <3>1. window \in Seqs => (files[window].n > 0 => files'[window].n > 0)
      BY <1>n, SizeKept, Zenon
    <3> QED
      BY <1>0, <2>1, <3>1, Zenon DEF AtFile, sender
  <2> QED
    BY <2>4, <2>5, <2>6, Zenon DEF Reach
<1> QED
  BY <1>2, <1>3, Zenon

\* A frame is delivered: the window moves inside the file, or to the next.
LEMMA DeliverFrameReach ==
  ASSUME TInv, Tiled, Reach, NEW f \in Seqs, NEW s \in Seqs, DeliverFrame(f, s), TInv', Tiled'
  PROVE  Reach'
<1> SUFFICES ASSUME faults' = 0, ~gone' PROVE Reach'
  BY Zenon DEF Reach
<1>0. /\ window' = window + 1 /\ window = s /\ f <= s /\ s <= f + files[f].n - 1
      /\ UNCHANGED <<sender, files, cursor, listed, gone, faults>>
      /\ IF s + 1 = f + files[f].n THEN prepared' = prepared \ {f} ELSE prepared' = prepared
  BY SeqsNat, Facts DEF DeliverFrame, CheckNext
<1>t. /\ f \in Nat /\ s \in Nat /\ window \in Nat /\ files[f].n \in Nat /\ faults = 0 /\ ~gone
  BY <1>0, Facts, SeqsNat, Zenon DEF TInv, IInv, Types
<1>w. /\ window' = window + 1 /\ window = s /\ f <= s /\ s <= f + files[f].n - 1
      /\ files' = files /\ flushed' = flushed
  BY <1>0, Zenon DEF sender
<1>1. (AtFile \/ Inside)'
  <2>1. CASE s + 1 = f + files[f].n
    <3>1. f + files[f].n = flushed \/ (f + files[f].n \in Seqs /\ files[f + files[f].n].n > 0)
      BY <1>0, <1>t DEF Tiled
    <3>2. window' = f + files[f].n /\ files' = files /\ flushed' = flushed
      BY <1>w, <1>t, <2>1, Zenon
    <3> QED
      BY <3>1, <3>2, ZenonT(60) DEF AtFile
  <2>2. CASE s + 1 # f + files[f].n
    <3>1. f < window + 1 /\ window + 1 < f + files[f].n
      BY SMTT(60), <1>w, <1>t, <2>2
    <3> QED
      BY <1>w, <3>1, Zenon DEF Inside
  <2> QED
    BY <2>1, <2>2, Zenon
<1>2. ASSUME NEW h \in Seqs, NEW g \in Seqs, window + 1 <= g, g <= h,
             files[g].st \in Ahead, files[h].st \in Ahead, g \notin listed, g \notin prepared'
      PROVE  cursor <= files[h].at
  <2>1. g \in Nat /\ h \in Nat /\ files[g].n > 0
    BY <1>2, SeqsNat, Zenon DEF Tiled
  <2>2. g # f
    BY <1>w, <1>2, <1>t, <2>1
  <2>3. g \notin prepared
    BY <1>0, <1>2, <2>2, Zenon
  <2>4. Covered(g, h)
    BY <1>t, Zenon DEF Reach
  <2> QED
    BY <1>2, <1>t, <2>1, <2>3, <2>4 DEF Covered
<1>3. \A h, g \in Seqs : Covered(g, h)'
  BY <1>0, <1>2, Zenon DEF Covered
<1>4. \A h \in Seqs : files'[h].st # "lost"
  BY <1>0, <1>t, Zenon DEF Reach
<1> QED
  BY <1>1, <1>3, <1>4, Zenon DEF Reach

\* A batch past the expected frame is left: the file at the window is missing, and
\* all from there on are listed again.
LEMMA BlockedReach ==
  ASSUME TInv, Tiled, Reach, NEW f \in Seqs, Blocked(f), TInv', Tiled'
  PROVE  Reach'
<1> SUFFICES ASSUME faults' = 0, ~gone' PROVE Reach'
  BY Zenon DEF Reach
<1>0. /\ First(f) /\ f > window /\ ~gone /\ faults = 0 /\ prepared' = {} /\ listed = {}
      /\ UNCHANGED <<sender, files, cursor, listed, window, gone, faults>>
  BY Zenon DEF Blocked, session, TInv, Phases
<1>t. f \in Nat /\ window \in Nat /\ prepared \subseteq Seqs /\ \A g \in Seqs : g \in Nat
  BY SeqsNat, Zenon DEF TInv, IInv, Types
<1>1. window \notin prepared
  BY <1>0, <1>t DEF First
<1>2. AtFile
  <2>1. ASSUME NEW g \in Seqs, g < window, window < g + files[g].n PROVE FALSE
    <3>1. files[g].n > 0 /\ ~(g + files[g].n <= window)
      BY <2>1, <1>t, Facts
    <3>2. First(g)
      BY <1>0, <2>1, <3>1, Zenon DEF TInv, IInv, Whole
    <3> QED
      BY SMTT(60), <1>0, <1>t, <2>1, <3>2 DEF First
  <2> QED
    BY <1>0, <2>1, Zenon DEF Reach, Inside
<1>3. \A h \in Seqs : window <= h /\ files[h].st \in Ahead => cursor <= files[h].at
  BY <1>0, <1>1, <1>2, WindowCovers, Zenon
<1>4. ASSUME NEW h \in Seqs, NEW g \in Seqs, window <= g, g <= h, files[h].st \in Ahead
      PROVE  cursor <= files[h].at
  <2>1. window <= h
    BY <1>4, <1>t
  <2> QED
    BY <1>3, <1>4, <2>1, Zenon
<1>5. \A h, g \in Seqs : Covered(g, h)'
  BY <1>0, <1>4, Zenon DEF Covered
<1> QED
  BY <1>0, <1>2, <1>5, Zenon DEF Reach, AtFile, sender

\* What the poller or a later listing has is kept by every step.
LEMMA ReachNext ==
  ASSUME UploadMax + VisibleMax <= Lookback, TInv, Tiled, Reach, [Next]_vars, TInv', Tiled'
  PROVE  Reach'
<1>f. faults \in Nat /\ gone \in BOOLEAN
  BY DEF TInv, IInv, Types, Counted
<1>1. CASE UNCHANGED <<window, cursor, listed, prepared, gone>> /\ faults <= faults'
  BY <1>1, FilesReach, Zenon
<1>2. ASSUME NEW f \in Seqs, UploadLands(f) \/ UploadFails(f) \/ BecomesVisible(f) \/ DeleteFile(f)
      PROVE  Reach'
  <2>1. UNCHANGED <<window, cursor, listed, prepared, gone>>
    BY <1>2, Zenon DEF UploadLands, UploadFails, BecomesVisible, DeleteFile, poller, session
  <2>2. faults <= faults'
    BY <1>2, <1>f DEF UploadLands, UploadFails, BecomesVisible, DeleteFile, Fails
  <2> QED
    BY <2>1, <2>2, <1>1, Zenon
<1>3. CASE Push \/ FlushTimer \/ Tick \/ Take \/ UNCHANGED vars
  <2>1. UNCHANGED <<window, cursor, listed, prepared, gone, faults>>
    BY <1>3, Zenon DEF Push, FlushTimer, Tick, Take, vars, poller, session
  <2> QED
    BY <2>1, <1>1, <1>f
<1>4. CASE StartCycle \/ EndCycle
  <2>1. UNCHANGED <<window, cursor, listed, prepared, gone, faults>>
    BY <1>4, Zenon DEF StartCycle, EndCycle, session
  <2> QED
    BY <2>1, <1>1, <1>f
<1>5. CASE Exit
  BY <1>5, Zenon DEF Exit, Reach
<1>6. CASE ListFails
  <2>1. faults' # 0
    BY <1>6, <1>f DEF ListFails, Fails
  <2> QED
    BY <2>1, Zenon DEF Reach
<1>7. CASE List
  BY <1>7, ListReach, Zenon
<1>8. CASE Fetch
  BY <1>8, FetchReach, Zenon
<1>9. CASE Deliver
  BY <1>9, DeliverFrameReach, BlockedReach, Zenon DEF Deliver
<1> QED
  BY <1>2, <1>3, <1>4, <1>5, <1>6, <1>7, <1>8, <1>9, ZenonT(60) DEF Next, Poll

\* If uploads end and files become visible within the lookback, then as long as no
\* listing, download or upload failed the cursor never passes a file whose frames
\* are still to be delivered, for any number of frames and any batch and mailbox
\* size, however uploads overtake each other.
THEOREM NothingStranded == Spec => []NotStranded
<1> DEFINE RInv == TInv /\ Tiled /\ (UploadMax + VisibleMax <= Lookback => Reach)
<1>1. Init => Tiled /\ Reach
  <2> SUFFICES ASSUME Init PROVE Tiled /\ Reach
    BY Zenon
  <2>1. \A f \in Seqs : files[f].st = "none" /\ files[f].n = 0 /\ files[f].at = 0
    BY Zenon DEF Init
  <2>2. window = flushed
    BY Zenon DEF Init
  <2> QED
    BY <2>1, <2>2 DEF Tiled, Reach, AtFile, Covered, Ahead
<1>2. RInv /\ [Next]_vars /\ TInv' => RInv'
  BY TiledNext, ReachNext, Zenon
<1>3. RInv => NotStranded
  <2> SUFFICES ASSUME TInv, Tiled, Reach, faults = 0, ~gone, NEW f \in Seqs,
                      files[f].st \in {"hidden", "visible"}, f >= window
               PROVE  ModifiedSince(f) \/ f \in listed \/ f \in prepared
    BY Zenon DEF NotStranded
  <2>1. Covered(f, f) /\ f \in Nat /\ window \in Nat
    BY SeqsNat, Zenon DEF Reach, TInv, IInv, Types
  <2>2. cursor \in Int /\ files[f].at \in Nat
    BY Facts DEF TInv, Timed, None
  <2> QED
    BY <2>1, <2>2 DEF Covered, Ahead, ModifiedSince
<1>4. Spec => []TInv
  BY TInvAlways, Zenon
<1> QED
  BY <1>1, <1>2, <1>3, <1>4, PTL DEF Spec
=============================================================================
