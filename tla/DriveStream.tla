----------------------------- MODULE DriveStream -----------------------------
(***************************************************************************)
(* One direction of one Drive session: frames go into batches, batches     *)
(* into files of a Drive folder, and the poller of the other side lists    *)
(* the folder and hands the frames to its session (src/src/drive_client.rs *)
(* and drive-relay/src/{session,poll}.rs; the two sides are mirror images).*)
(*                                                                         *)
(* A file is named by the seq of its first frame.  Its upload is a         *)
(* detached task; files land and become visible in any order.  The poller  *)
(* lists only the files modified since its cursor, which trails the clock  *)
(* by Lookback.  Frames are numbered by their seq; their bytes do not      *)
(* matter.                                                                 *)
(***************************************************************************)
EXTENDS Integers, Sequences, FiniteSets

CONSTANTS
  Frames,              \* bound on the frames sent
  MaxBatch,            \* frames that force a flush
  MailboxDepth,        \* SESSION_MAILBOX_DEPTH
  Lookback,            \* MODIFIED_CURSOR_LOOKBACK_SECS, in ticks
  UploadMax,           \* ticks an upload takes at most
  VisibleMax,          \* ticks until a file is listed at most
  MaxClock,            \* bound on the clock
  AdvanceOnListError,  \* the relay moves its cursor when a listing fails,
                       \* the client does not
  Faults,              \* what may fail, see FaultKinds
  MaxFaults            \* bound on failures of uploads, listings and downloads

FaultKinds == {"upload", "list", "download", "delete", "receiver"}

ASSUME DriveStreamAssumption ==
  /\ Frames \in Nat /\ MaxBatch \in Nat \ {0} /\ MailboxDepth \in Nat \ {0}
  /\ Lookback \in Nat /\ UploadMax \in Nat /\ VisibleMax \in Nat /\ MaxClock \in Nat
  /\ AdvanceOnListError \in BOOLEAN /\ Faults \subseteq FaultKinds /\ MaxFaults \in Nat

VARIABLES
  pushed,      \* frames pushed; frame k has seq k - 1
  flushed,     \* the first seq that is still in pending
  files,       \* every file, by the seq of its first frame
  clock,
  cursor,      \* modified_cursor; None before the first listing
  cycle,       \* where the poller is
  call_start,  \* the clock when the listing was called; 0 outside of it
  listed,      \* the files of the listing
  prepared,    \* the downloaded batches still to deliver
  window,      \* the next seq of the ReplayWindow: last_seen + 1
  received,    \* the frames handed to the session, in order
  taken,       \* how many of them the session took out of its mailbox
  gone,        \* the session exited and dropped its mailbox
  deletes,     \* detached deletes that have not run yet
  faults       \* failures so far

sender == <<pushed, flushed>>
poller == <<cursor, cycle, call_start, listed, prepared>>
session == <<window, received, taken, gone>>
vars == <<sender, files, clock, poller, session, deletes, faults>>

None == -1
Seqs == 0..(Frames - 1)
Fails(kind) == kind \in Faults /\ faults < MaxFaults /\ faults' = faults + 1

Init ==
  /\ pushed = 0 /\ flushed = 0
  /\ files = [f \in Seqs |-> [st |-> "none", n |-> 0, at |-> 0]]
  /\ clock = 0 /\ cursor = None /\ cycle = "sleep" /\ call_start = 0
  /\ listed = {} /\ prepared = {}
  /\ window = 0 /\ received = <<>> /\ taken = 0 /\ gone = FALSE
  /\ deletes = {} /\ faults = 0

-----------------------------------------------------------------------------
(* The sender: push_c2r_frame and push_r2c_frame, the coalesce timer, the  *)
(* detached upload.                                                        *)

\* flush_c2r_batch, flush_r2c_batch: frames flushed to upto - 1 become a file.
Flush(upto) ==
  /\ flushed' = upto
  /\ files' = [files EXCEPT ![flushed] = [st |-> "upload", n |-> upto - flushed, at |-> clock]]

\* A control frame flushes at once, as does a full batch.
Push ==
  /\ pushed < Frames
  /\ pushed' = pushed + 1
  /\ \/ Flush(pushed + 1)
     \/ pushed + 1 - flushed < MaxBatch /\ UNCHANGED <<flushed, files>>
  /\ UNCHANGED <<clock, poller, session, deletes, faults>>

\* flush_deadline is set.  (Mutant: only for a full batch.)
ArmedIfFull == pushed - flushed >= MaxBatch
Armed == flushed < pushed

FlushTimer ==
  /\ Armed
  /\ Flush(pushed)
  /\ UNCHANGED <<pushed, clock, poller, session, deletes, faults>>

\* The file is on Drive, with its modifiedTime.
UploadLands(f) ==
  /\ files[f].st = "upload"
  /\ files' = [files EXCEPT ![f] = [st |-> "hidden", n |-> @.n, at |-> clock]]
  /\ UNCHANGED <<sender, clock, poller, session, deletes, faults>>

\* The upload fails: it is logged, nobody is told.
UploadFails(f) ==
  /\ files[f].st = "upload" /\ Fails("upload")
  /\ files' = [files EXCEPT ![f] = [st |-> "lost", n |-> @.n, at |-> 0]]
  /\ UNCHANGED <<sender, clock, poller, session, deletes>>

\* files.list includes the file from now on.
BecomesVisible(f) ==
  /\ files[f].st = "hidden"
  /\ files' = [files EXCEPT ![f] = [st |-> "visible", n |-> @.n, at |-> @.at]]
  /\ UNCHANGED <<sender, clock, poller, session, deletes, faults>>

Tick ==
  /\ clock < MaxClock
  /\ \A f \in Seqs : /\ files[f].st = "upload" => clock < files[f].at + UploadMax
                     /\ files[f].st = "hidden" => clock < files[f].at + VisibleMax
  /\ clock' = clock + 1
  /\ UNCHANGED <<sender, files, poller, session, deletes, faults>>

-----------------------------------------------------------------------------
(* The poller: run_one_cycle.                                              *)

StartCycle ==
  /\ cycle = "sleep"
  /\ cycle' = "list" /\ call_start' = clock
  /\ UNCHANGED <<sender, files, clock, cursor, listed, prepared, session, deletes, faults>>

\* list_files_in_folder_since: modifiedTime >= cursor.
ModifiedSince(f) == cursor = None \/ files[f].at >= cursor

\* The time the cursor is set to after a listing: the newest modifiedTime, if it
\* is after the call, or the time of the call, less the lookback.  (Mutant:
\* without the lookback.)
ProposedExact(found) ==
  LET times == {files[f].at : f \in found} \cup {call_start} IN
  CHOOSE m \in times : \A t \in times : t <= m
Proposed(found) ==
  LET times == {files[f].at : f \in found} \cup {call_start} IN
  (CHOOSE m \in times : \A t \in times : t <= m) - Lookback

\* advance_modified_cursor: never backwards; a time before the start of the
\* clock is its start.
Advance(found) ==
  cursor' = IF cursor # None /\ cursor >= Proposed(found) THEN cursor
            ELSE IF Proposed(found) < 0 THEN 0 ELSE Proposed(found)

List ==
  LET found == {f \in Seqs : files[f].st = "visible" /\ ModifiedSince(f)} IN
  /\ cycle = "list"
  /\ listed' = found
  /\ Advance(found)
  /\ call_start' = 0
  /\ cycle' = IF found = {} THEN "sleep" ELSE "fetch"
  /\ UNCHANGED <<sender, files, clock, prepared, session, deletes, faults>>

ListFails ==
  /\ cycle = "list" /\ Fails("list")
  /\ call_start' = 0
  /\ cycle' = "sleep"
  /\ IF AdvanceOnListError THEN Advance({}) ELSE UNCHANGED cursor
  /\ UNCHANGED <<sender, files, clock, listed, prepared, session, deletes>>

Removed(gonefiles) ==
  [f \in Seqs |-> IF f \in gonefiles THEN [st |-> "gone", n |-> files[f].n, at |-> 0] ELSE files[f]]

\* process_r2c_group, process_frame_group: files below the window are deleted,
\* and all files when the session left the table; unless the file with the
\* expected seq is there, the others are left for a later cycle; else all are
\* downloaded, at the same time, and each may fail.
Fetch ==
  \E unregistered \in {FALSE, gone} :
  LET old == {f \in listed : f < window \/ unregistered}
      rest == listed \ old
      wanted == IF window \in rest THEN rest ELSE {}
  IN
  /\ cycle = "fetch"
  /\ \E del \in SUBSET old :
       /\ "delete" \notin Faults => del = old
       /\ files' = Removed(del)
  /\ \/ prepared' = wanted /\ UNCHANGED faults
     \/ Fails("download") /\ \E ok \in SUBSET wanted : ok # wanted /\ prepared' = ok
  /\ cycle' = "deliver" /\ listed' = {}
  /\ UNCHANGED <<sender, clock, cursor, call_start, session, deletes>>

\* The batch delivered next: prepared is sorted by seq.
First(f) == f \in prepared /\ \A g \in prepared : f <= g

\* ReplayWindow::check_next.  (Mutant: check, which accepts any later seq.)
CheckAny(s) == s >= window
CheckNext(s) == s = window

\* (Mutant: one frame more than its depth fits into the mailbox.)
MailboxTakesOneMore == Len(received) - taken <= MailboxDepth
MailboxHasRoom == Len(received) - taken < MailboxDepth

\* deliver_prepared_r2c_batch, deliver_prepared_frame_batch, a frame: send
\* waits for room in the mailbox, then the window is committed; after the last
\* frame the delete is spawned.
DeliverFrame(f, s) ==
  /\ cycle = "deliver" /\ First(f) /\ ~gone
  /\ s \in f..(f + files[f].n - 1) /\ CheckNext(s)
  /\ MailboxHasRoom
  /\ received' = Append(received, s)
  /\ window' = s + 1
  /\ IF s + 1 = f + files[f].n
       THEN prepared' = prepared \ {f} /\ deletes' = deletes \cup {f}
       ELSE UNCHANGED <<prepared, deletes>>
  /\ UNCHANGED <<sender, files, clock, cursor, cycle, call_start, listed, taken, gone, faults>>

\* What is deleted of a batch that is not delivered.  (Mutant: the batch.)
DeleteBlocked(f) == {f}
DeletePartly(f) == IF f < window THEN {f} ELSE {}

\* The first frame is past the expected one, or the session is gone: the batch
\* is left, unless a part of it was delivered.
Blocked(f) ==
  /\ cycle = "deliver" /\ First(f)
  /\ gone \/ f > window
  /\ deletes' = deletes \cup DeletePartly(f)
  /\ prepared' = {}
  /\ UNCHANGED <<sender, files, clock, cursor, cycle, call_start, listed, session, faults>>

EndCycle ==
  /\ cycle = "deliver" /\ prepared = {}
  /\ cycle' = "sleep"
  /\ UNCHANGED <<sender, files, clock, cursor, call_start, listed, prepared, session, deletes, faults>>

\* delete_r2c_file_detached, delete_c2r_file_detached: failures are logged.
DeleteFile(f) ==
  /\ f \in deletes
  /\ deletes' = deletes \ {f}
  /\ \/ files' = Removed({f})
     \/ "delete" \in Faults /\ UNCHANGED files
  /\ UNCHANGED <<sender, clock, poller, session, faults>>

-----------------------------------------------------------------------------
(* The receiving session.                                                  *)

Take ==
  /\ ~gone /\ taken < Len(received)
  /\ taken' = taken + 1
  /\ UNCHANGED <<sender, files, clock, poller, window, received, gone, deletes, faults>>

Exit ==
  /\ "receiver" \in Faults /\ ~gone
  /\ gone' = TRUE
  /\ UNCHANGED <<sender, files, clock, poller, window, received, taken, deletes, faults>>

Deliver == \E f \in Seqs : Blocked(f) \/ \E s \in Seqs : DeliverFrame(f, s)
Poll == StartCycle \/ List \/ Fetch \/ Deliver \/ EndCycle

Next ==
  \/ Push \/ FlushTimer \/ Tick
  \/ \E f \in Seqs : UploadLands(f) \/ UploadFails(f) \/ BecomesVisible(f) \/ DeleteFile(f)
  \/ Poll \/ ListFails
  \/ Take \/ Exit

Spec == Init /\ [][Next]_vars

\* The timer fires, uploads end and files become visible, the poller runs, a
\* session that is there reads its mailbox.
FairSpec ==
  /\ Spec
  /\ WF_vars(FlushTimer) /\ WF_vars(Take) /\ WF_vars(Poll)
  /\ \A f \in Seqs : WF_vars(UploadLands(f) \/ UploadFails(f)) /\ WF_vars(BecomesVisible(f))

-----------------------------------------------------------------------------
\* The type of every variable.
TypeOK ==
  /\ pushed \in 0..Frames /\ flushed \in 0..pushed
  /\ files \in [Seqs -> [st : {"none", "upload", "lost", "hidden", "visible", "gone"},
                         n : 0..MaxBatch, at : 0..MaxClock]]
  /\ clock \in 0..MaxClock /\ cursor \in None..MaxClock
  /\ cycle \in {"sleep", "list", "fetch", "deliver"} /\ call_start \in 0..clock
  /\ listed \subseteq Seqs /\ prepared \subseteq Seqs /\ deletes \subseteq Seqs
  /\ window \in 0..Frames /\ received \in Seq(Seqs) /\ taken \in 0..Len(received)
  /\ Len(received) - taken <= MailboxDepth
  /\ gone \in BOOLEAN /\ faults \in 0..MaxFaults

\* The frames the sender pushed, and the promise of the direction: the session
\* gets the frames in order, each one once, however uploads, listings and
\* deletes are reordered or fail.
Sent == [k \in 1..pushed |-> k - 1]
Stream == INSTANCE OrderedStream WITH Frame <- Seqs, sent <- Sent
InOrderOnce == Stream!Spec

\* A file leaves the folder only after all its frames were handed to the
\* session, unless the session is gone.
RemovedIfDelivered ==
  \A f \in Seqs : files[f].st = "gone" => f + files[f].n <= window \/ gone

\* The cursor never leaves an undelivered file behind: what is on Drive will be
\* listed again, or is in the cycle that runs now.  Uploads end and files become
\* visible within the lookback, and no listing or download failed.
NotStranded ==
  UploadMax + VisibleMax <= Lookback /\ faults = 0 /\ ~gone =>
    \A f \in Seqs :
      files[f].st \in {"hidden", "visible"} /\ f >= window =>
        ModifiedSince(f) \/ f \in listed \/ f \in prepared

\* flush_c2r_batch and the lookback: a file that lands before an earlier one is
\* processed in a later cycle, however late that one lands.
OutOfOrderSafe ==
  ~gone =>
    \A f \in Seqs :
      files[f].st \in {"hidden", "visible"} /\ f >= window =>
        ModifiedSince(f) \/ f \in listed \/ f \in prepared

\* Every frame pushed reaches the session, which may be gone by then, if no
\* failure intervenes: again and again, nothing pushed is still on its way.
FramesArrive == []<>(taken = pushed \/ gone \/ faults > 0)
=============================================================================
