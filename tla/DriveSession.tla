----------------------------- MODULE DriveSession -----------------------------
(***************************************************************************)
(* One Drive session from its opening to the removal of its last file: the *)
(* client's pump (drive_client.rs), the relay's table, driver and poller   *)
(* (drive-relay/src/{poll,session,state}.rs) and its reaper (orphan_gc.rs).*)
(*                                                                         *)
(* Each direction is the ordered stream of DriveStream, so that a frame is *)
(* a file of its own, except the frames of the session-open file c2r_0,    *)
(* and the next frame is on Drive or not; an upload may be lost.  What     *)
(* DriveStream leaves out is here: the frames' kinds and the half-close,   *)
(* and a relay whose sessions end, are evicted, or are forgotten in a      *)
(* restart and started again from a c2r_0 that is still on Drive.          *)
(***************************************************************************)
EXTENDS Integers, Sequences, FiniteSets

CONSTANTS
  MaxUp,        \* data frames the client reads from its socket
  MaxDown,      \* data frames a driver reads from its destination
  Depth,        \* SESSION_MAILBOX_DEPTH
  MaxFaults,    \* uploads and deletes that fail, restarts of the relay
  MaxDrivers    \* drivers started for the session

ASSUME DriveSessionAssumption ==
  {MaxUp, MaxDown, Depth, MaxFaults, MaxDrivers} \subseteq Nat

VARIABLES
  cst,        \* the pump: new, pump, write (in write_all), ended
  cend,       \* why it ended
  writable,   \* local_writable
  readclosed, \* local_read_closed
  registered, \* the session is in the client's table
  up,         \* the c2r frames, by seq; their kinds
  open,       \* how many of them c2r_0 holds
  cwindow,    \* the next r2c seq
  cbox,       \* the pump's mailbox
  got,        \* the drivers whose data frames went to the local socket
  upfiles,    \* c2r files on Drive, by their first seq
  downfiles,  \* r2c files on Drive
  entry,      \* the session is in the relay's table
  drv,        \* its driver: none, wait (for Connect), dial, pump, write, done
  driver,     \* drivers started so far: the number of the current one
  peerwritable, tcpclosed,  \* peer_writable, tcp_read_closed
  rseq,       \* next_r2c_seq
  read,       \* data frames the driver read
  written,    \* data frames it wrote
  rwindow, rbox,  \* the next c2r seq; the driver's mailbox
  sending,    \* the frame the poller waits to put there
  recent,     \* c2r_0 is after the poller's cursor
  idle,       \* last_seen is older than the idle timeout
  doomed,     \* the reaper has decided to evict the session
  faults

client == <<cst, cend, writable, readclosed, registered, up, open, cwindow, cbox, got>>
task == <<drv, peerwritable, tcpclosed, rseq, read, written>>
inbox == <<rwindow, rbox, sending>>
table == <<entry, driver, recent, doomed>>
vars == <<client, upfiles, downfiles, task, inbox, table, idle, faults>>

None == "none"
NoFrame == -1
Alive == drv \in {"wait", "dial", "pump", "write"}
Ended(why) == cst' = "ended" /\ cend' = why

Init ==
  /\ cst = "new" /\ cend = None /\ writable = TRUE /\ readclosed = FALSE /\ registered = TRUE
  /\ up = <<>> /\ open = 0 /\ cwindow = 0 /\ cbox = <<>> /\ got = <<>>
  /\ upfiles = {} /\ downfiles = {}
  /\ entry = FALSE /\ drv = None /\ driver = 0 /\ peerwritable = TRUE /\ tcpclosed = FALSE
  /\ rseq = 0 /\ read = 0 /\ written = 0
  /\ rwindow = 0 /\ rbox = <<>> /\ sending = NoFrame
  /\ recent = TRUE /\ idle = FALSE /\ doomed = FALSE /\ faults = 0

-----------------------------------------------------------------------------
(* The client: tunnel_connection, pump_session and the poller's delivery.   *)

Fault == faults < MaxFaults /\ faults' = faults + 1

\* Uploads are detached: these files land, or one of them is lost.
Lands(files, new) ==
  \/ files' = files \cup new /\ UNCHANGED faults
  \/ Fault /\ \E f \in new : files' = files \cup (new \ {f})

\* So are the deletes of delivered files; one that fails leaves the file.
Deleted(files, f) ==
  \/ files' = files \ {f} /\ UNCHANGED faults
  \/ Fault /\ UNCHANGED files

\* mpsc::Sender::send.  (Mutant: a mailbox that holds one frame more.)
HasRoomForMore(box) == Len(box) <= Depth
HasRoom(box) == Len(box) < Depth

PushUp(kinds) ==
  /\ up' = up \o kinds
  /\ Lands(upfiles, Len(up) .. (Len(up) + Len(kinds) - 1))

KeepUp == UNCHANGED <<up, upfiles, faults>>

\* The session is opened by a file with Connect and the bytes that are there.
Open ==
  /\ cst = "new"
  /\ \/ Ended("error") /\ KeepUp /\ UNCHANGED open
     \/ /\ cst' = "pump" /\ UNCHANGED cend
        /\ \E preface \in 0..(IF MaxUp = 0 THEN 0 ELSE 1) :
             open' = 1 + preface /\ up' = <<"connect">> \o [k \in 1..preface |-> "data"]
        /\ Lands(upfiles, {0})
  /\ UNCHANGED <<writable, readclosed, registered, cwindow, cbox, got, downfiles, task, inbox, table, idle>>

\* A frame is taken out of the mailbox.  Data goes to the socket, or nowhere
\* after Eof; Eof closes the socket's write side, and ends the session with
\* Close when its read side was closed before.
ClientTake ==
  /\ cst = "pump" /\ cbox # <<>>
  /\ cbox' = Tail(cbox)
  /\ \/ /\ Head(cbox).kind = "data" /\ KeepUp
        /\ IF writable THEN cst' = "write" /\ got' = Append(got, Head(cbox).driver)
                       ELSE UNCHANGED <<cst, got>>
        /\ UNCHANGED <<cend, writable>>
     \/ /\ Head(cbox).kind = "eof" /\ writable' = FALSE /\ UNCHANGED got
        /\ IF readclosed THEN Ended("eofs") /\ PushUp(<<"close">>)
                         ELSE UNCHANGED <<cst, cend>> /\ KeepUp
     \/ Head(cbox).kind = "close" /\ Ended("closed") /\ KeepUp /\ UNCHANGED <<writable, got>>
  /\ UNCHANGED <<readclosed, registered, open, cwindow, downfiles, task, inbox, table, idle>>

ClientWrite ==
  /\ cst = "write"
  /\ \/ cst' = "pump" /\ UNCHANGED cend /\ KeepUp
     \/ Ended("error") /\ PushUp(<<"close">>)
  /\ UNCHANGED <<writable, readclosed, registered, open, cwindow, cbox, got, downfiles, task, inbox, table, idle>>

DataIn(kinds) == Cardinality({k \in DOMAIN kinds : kinds[k] = "data"})

\* The frames a read of end-of-file makes.
AtEof(other_closed) == IF other_closed THEN <<"eof", "close">> ELSE <<"eof">>

\* At the end of the local socket's input the session goes on until the relay's
\* Eof is there too.  (Mutant: it ends.)
EndsAtEof == TRUE
EndsAfterBoth == ~writable

\* The select! is biased: the socket is read when the mailbox is empty.
ClientRead ==
  /\ cst = "pump" /\ cbox = <<>> /\ ~readclosed
  /\ \/ DataIn(up) < MaxUp /\ PushUp(<<"data">>) /\ UNCHANGED <<readclosed, cst, cend>>
     \/ /\ PushUp(AtEof(EndsAfterBoth)) /\ readclosed' = TRUE
        /\ IF EndsAfterBoth THEN Ended("eofs") ELSE UNCHANGED <<cst, cend>>
     \/ PushUp(<<"close">>) /\ Ended("error") /\ UNCHANGED readclosed
  /\ UNCHANGED <<writable, registered, open, cwindow, cbox, got, downfiles, task, inbox, table, idle>>

\* SessionGuard::drop, in a task of its own.
Unregister ==
  /\ cst = "ended" /\ registered /\ registered' = FALSE
  /\ UNCHANGED <<cst, cend, writable, readclosed, up, open, cwindow, cbox, got,
                 upfiles, downfiles, task, inbox, table, faults, idle>>

\* The client's poller: the next frame goes to the mailbox of a pump that is
\* there; its file is deleted, unless that fails.
ClientDeliver(f) ==
  /\ registered /\ cst \in {"pump", "write"} /\ f.seq = cwindow /\ HasRoom(cbox)
  /\ cbox' = Append(cbox, f) /\ cwindow' = cwindow + 1
  /\ Deleted(downfiles, f)
  /\ UNCHANGED <<cst, cend, writable, readclosed, registered, up, open, got, upfiles, task, inbox, table, idle>>

\* A file below the window, or of a session that is not in the table any more.
ClientDelete(f) ==
  /\ f.seq < cwindow \/ ~registered
  /\ downfiles' = downfiles \ {f}
  /\ UNCHANGED <<client, upfiles, task, inbox, table, faults, idle>>
-----------------------------------------------------------------------------
(* The relay's poller.                                                      *)

\* last_seen is set to now.
Bump == idle' = FALSE

FileOf(seq) == IF seq < open THEN 0 ELSE seq

\* try_bootstrap_session_from_c2r_0, spawn_session: a session that is not in the
\* table starts when c2r_0 is listed.
Bootstrap ==
  /\ ~entry /\ sending = NoFrame /\ 0 \in upfiles /\ recent /\ driver < MaxDrivers
  /\ entry' = TRUE /\ driver' = driver + 1 /\ Bump
  /\ drv' = "wait" /\ peerwritable' = TRUE /\ tcpclosed' = FALSE
  /\ rseq' = 0 /\ read' = 0 /\ written' = 0
  /\ rwindow' = 0 /\ rbox' = <<>>
  /\ UNCHANGED <<client, upfiles, downfiles, sending, recent, doomed, faults>>

\* process_frame_group: the next frame is on Drive.
StartSend ==
  /\ entry /\ sending = NoFrame /\ rwindow < Len(up) /\ FileOf(rwindow) \in upfiles
  /\ sending' = rwindow /\ Bump
  /\ UNCHANGED <<client, upfiles, downfiles, task, rwindow, rbox, table, faults>>

\* deliver_prepared_frame_batch: there is room in the mailbox.  The next frame
\* of the file follows, or the file is deleted.
Send ==
  /\ sending # NoFrame /\ Alive /\ HasRoom(rbox)
  /\ rbox' = Append(rbox, up[sending + 1]) /\ rwindow' = sending + 1
  /\ IF sending + 1 < open
       THEN sending' = sending + 1 /\ Bump /\ UNCHANGED <<upfiles, faults>>
       ELSE sending' = NoFrame /\ UNCHANGED idle /\ Deleted(upfiles, FileOf(sending))
  /\ UNCHANGED <<client, downfiles, task, table>>

\* The driver is gone, so the send fails; a file that was delivered in part is
\* deleted.
SendFails ==
  /\ sending # NoFrame /\ ~Alive
  /\ sending' = NoFrame
  /\ IF FileOf(sending) < sending THEN Deleted(upfiles, FileOf(sending))
                                  ELSE UNCHANGED <<upfiles, faults>>
  /\ UNCHANGED <<client, downfiles, task, rwindow, rbox, table, idle>>

\* A file below the window is deleted.
RelayDelete(f) ==
  /\ entry /\ sending = NoFrame /\ f < rwindow
  /\ upfiles' = upfiles \ {f}
  /\ UNCHANGED <<client, downfiles, task, inbox, table, faults, idle>>

\* The cursor passes the time of c2r_0; this matters when it could start a
\* session.
CursorPasses ==
  /\ recent /\ 0 \in upfiles /\ ~entry /\ recent' = FALSE
  /\ UNCHANGED <<client, upfiles, downfiles, task, inbox, entry, driver, doomed, faults, idle>>

-----------------------------------------------------------------------------
(* The relay's driver: session_driver.                                      *)

PushDown(kinds) ==
  /\ rseq' = rseq + Len(kinds)
  /\ Lands(downfiles, {[seq |-> rseq + k - 1, kind |-> kinds[k], driver |-> driver] : k \in DOMAIN kinds})

KeepDown == UNCHANGED <<rseq, downfiles, faults>>

\* The first frame is Connect.
DriverConnect ==
  /\ drv = "wait" /\ rbox # <<>> /\ rbox' = Tail(rbox)
  /\ drv' = "dial" /\ Bump
  /\ UNCHANGED <<client, upfiles, downfiles, peerwritable, tcpclosed, rseq, read, written,
                 rwindow, sending, table, faults>>

\* The destination is refused or does not answer: Error, which the client takes
\* as Close.
Dial ==
  /\ drv = "dial"
  /\ \/ drv' = "pump" /\ KeepDown
     \/ drv' = "done" /\ PushDown(<<"close">>)
  /\ UNCHANGED <<client, upfiles, peerwritable, tcpclosed, read, written, inbox, table, idle>>

DriverTake ==
  /\ drv = "pump" /\ rbox # <<>> /\ rbox' = Tail(rbox)
  /\ \/ /\ Head(rbox) = "data" /\ Bump /\ KeepDown /\ UNCHANGED peerwritable
        /\ drv' = IF peerwritable THEN "write" ELSE drv
     \/ /\ Head(rbox) = "eof" /\ Bump /\ peerwritable' = FALSE
        /\ IF tcpclosed THEN drv' = "done" /\ PushDown(<<"close">>)
                        ELSE UNCHANGED drv /\ KeepDown
     \/ Head(rbox) = "close" /\ drv' = "done" /\ KeepDown /\ UNCHANGED <<peerwritable, idle>>
  /\ UNCHANGED <<client, upfiles, tcpclosed, read, written, rwindow, sending, table>>

\* write_all; when it fails the driver ends, and says nothing to the client.
\* (Mutant: it goes on with the next frame.)
SkipsFrame == "pump"
WriteFailed == "done"

DriverWrite ==
  /\ drv = "write"
  /\ \/ drv' = "pump" /\ written' = written + 1
     \/ drv' = WriteFailed /\ UNCHANGED written
  /\ UNCHANGED <<client, upfiles, downfiles, peerwritable, tcpclosed, rseq, read, inbox, table, faults, idle>>

DriverRead ==
  /\ drv = "pump" /\ rbox = <<>> /\ ~tcpclosed
  /\ \/ read < MaxDown /\ read' = read + 1 /\ PushDown(<<"data">>) /\ Bump /\ UNCHANGED <<drv, tcpclosed>>
     \/ /\ PushDown(AtEof(~peerwritable)) /\ tcpclosed' = TRUE /\ UNCHANGED <<read, idle>>
        /\ drv' = IF peerwritable THEN drv ELSE "done"
     \/ drv' = "done" /\ KeepDown /\ UNCHANGED <<read, tcpclosed, idle>>
  /\ UNCHANGED <<client, upfiles, peerwritable, written, inbox, table>>

-----------------------------------------------------------------------------
(* The reaper: run_one_sweep, and a restart of the relay.                   *)

IdleTimeout ==
  /\ Alive /\ ~idle /\ idle' = TRUE
  /\ UNCHANGED <<client, upfiles, downfiles, task, inbox, table, faults>>

\* Under the read lock the reaper collects the sessions that ended or are idle.
\* (Mutant: only those that ended.)
EvictsEnded == drv = "done"
Evicts == drv = "done" \/ idle

Collect ==
  /\ entry /\ ~doomed /\ Evicts /\ doomed' = TRUE
  /\ UNCHANGED <<client, upfiles, downfiles, task, inbox, entry, driver, recent, faults, idle>>

\* A driver that is aborted.  (Mutant: it goes on without an entry.)
RunsOn == UNCHANGED <<drv, rbox>>
Abort == drv' = None /\ rbox' = <<>>

\* Under the write lock it removes them and aborts their drivers.
Evict ==
  /\ doomed /\ doomed' = FALSE /\ entry' = FALSE /\ idle' = FALSE /\ Abort
  /\ UNCHANGED <<client, upfiles, downfiles, peerwritable, tcpclosed, rseq, read, written,
                 rwindow, sending, driver, recent, faults>>

\* The kinds of files that are swept.  (Mutant: those of one side.)
SweptOfClient == {"h", "c2r"}
Swept == {"h", "c2r", "r2c"}

\* Files are deleted when they are five idle timeouts old: the side that takes
\* them has ended long before.
SweepUp(f) ==
  /\ "c2r" \in Swept /\ ~Alive /\ ~(f = 0 /\ recent)
  /\ upfiles' = upfiles \ {f}
  /\ UNCHANGED <<client, downfiles, task, inbox, table, faults, idle>>

SweepDown(f) ==
  /\ "r2c" \in Swept /\ cst = "ended"
  /\ downfiles' = downfiles \ {f}
  /\ UNCHANGED <<client, upfiles, task, inbox, table, faults, idle>>

\* The new process has no sessions and no cursor.
Restart ==
  /\ Fault
  /\ entry' = FALSE /\ drv' = None /\ rbox' = <<>> /\ sending' = NoFrame
  /\ idle' = FALSE /\ doomed' = FALSE /\ recent' = TRUE
  /\ UNCHANGED <<client, upfiles, downfiles, peerwritable, tcpclosed, rseq, read, written,
                 rwindow, driver>>

-----------------------------------------------------------------------------
SomeUp == \E f \in upfiles : SweepUp(f)
SomeDown == \E f \in downfiles : SweepDown(f)

Next ==
  \/ Open \/ ClientTake \/ ClientWrite \/ ClientRead \/ Unregister
  \/ \E f \in downfiles : ClientDeliver(f) \/ ClientDelete(f)
  \/ Bootstrap \/ StartSend \/ Send \/ SendFails \/ CursorPasses
  \/ \E f \in upfiles : RelayDelete(f)
  \/ DriverConnect \/ Dial \/ DriverTake \/ DriverWrite \/ DriverRead
  \/ IdleTimeout \/ Collect \/ Evict \/ SomeUp \/ SomeDown \/ Restart

Spec == Init /\ [][Next]_vars

\* The relay's tasks run and time passes.  Nothing is assumed of the sockets: a
\* destination may never answer the dial, read, or write.
PollerRuns == StartSend \/ Send \/ SendFails
DriverRuns == DriverConnect \/ DriverTake
ReaperRuns == Collect \/ Evict \/ SomeUp \/ SomeDown
TimePasses == CursorPasses \/ IdleTimeout

FairSpec ==
  /\ Spec
  /\ WF_vars(PollerRuns) /\ WF_vars(DriverRuns) /\ WF_vars(ReaperRuns) /\ WF_vars(TimePasses)

-----------------------------------------------------------------------------
Kinds == {"connect", "data", "eof", "close"}
DownFrame == [seq : 0..(MaxDown + 1), kind : Kinds \ {"connect"}, driver : 1..MaxDrivers]

\* The type of every variable; the mailboxes hold at most Depth frames.
TypeOK ==
  /\ cst \in {"new", "pump", "write", "ended"} /\ cend \in {None, "eofs", "closed", "error"}
  /\ {writable, readclosed, registered, entry, peerwritable, tcpclosed, recent, idle, doomed} \subseteq BOOLEAN
  /\ up \in Seq(Kinds) /\ Len(up) <= MaxUp + 3 /\ open \in 0..2
  /\ upfiles \subseteq 0..(MaxUp + 2) /\ downfiles \subseteq DownFrame
  /\ cwindow \in 0..(MaxDown + 2) /\ cbox \in Seq(DownFrame) /\ Len(cbox) <= Depth
  /\ got \in Seq(1..MaxDrivers)
  /\ drv \in {None, "wait", "dial", "pump", "write", "done"} /\ driver \in 0..MaxDrivers
  /\ rseq \in 0..(MaxDown + 2) /\ read \in 0..MaxDown /\ written \in 0..MaxUp
  /\ rwindow \in 0..Len(up) /\ rbox \in Seq(Kinds) /\ Len(rbox) <= Depth
  /\ sending \in NoFrame..(Len(up) - 1)
  /\ faults \in 0..MaxFaults

\* A driver that runs is in the table, where the reaper finds it: spawn_session
\* and the eviction change the table and the task under one lock.
DriverTracked == Alive => entry

\* The contract of the relay's table of sessions.
SessionSound == TypeOK /\ DriverTracked

\* The destination sees end-of-file only after every byte the local socket sent,
\* whatever was lost, evicted or restarted.
EofMeansAll == ~peerwritable => readclosed /\ written = DataIn(up)

\* A session that ends with both Eofs or with the relay's Close has given the
\* local socket all that the driver read, as long as there was one driver.
ClosedComplete == cend \in {"eofs", "closed"} /\ driver <= 1 => Len(got) = read

\* A delivery that waits for a full mailbox ends, also when the destination
\* never reads, so that the poll cycle of all sessions goes on.
CycleEnds == []<>(sending = NoFrame)

\* When the client's side is over, which is final, the relay's side ends too and
\* the folder has no file of the session any more, then and for ever, also after
\* lost uploads and restarts.
FolderCleaned == <>[](cst = "ended" => ~entry /\ upfiles = {} /\ downfiles = {})
=============================================================================
