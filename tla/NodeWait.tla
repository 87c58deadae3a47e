------------------------------ MODULE NodeWait ------------------------------
(***************************************************************************)
(* How a batch of the tunnel node waits for its sessions: the watchers of  *)
(* wait_for_any_drainable and wait_for_any_udp_drainable over              *)
(* tokio::sync::Notify, the shortcut for what is there already, the        *)
(* deadline, and cancellation when the caller goes away.  Batches of       *)
(* several requests wait on the same session at the same time.             *)
(*                                                                         *)
(* Notify keeps one permit when nobody waits; it wakes one waiter, and a   *)
(* waiter dropped between its wake-up and its next step passes it on.      *)
(***************************************************************************)
EXTENDS Naturals, Sequences, SequencesExt, FiniteSets

CONSTANTS
    NwPolls,      \* batch -> the sessions it drains
    MaxChunks     \* bound on what upstreams send

VARIABLES
    nwData,       \* session -> bytes or packets are buffered
    nwEof,        \* session -> its reader has ended
    nwTold,       \* session -> the reader has notified what it stored
    nwPermit,     \* session -> Notify's stored permit
    nwQueue,      \* session -> batches whose watcher waits, in the order they came
    nwWatch,      \* <<batch, session>> -> none, poll, wait, woken, gone
    nwBatch,      \* batch -> idle, spawned, select, drain, done, cancelled
    nwSignal,     \* batch -> a watcher has sent on its channel
    nwHeard,      \* batch -> what ended its wait: none, ready, watcher, deadline
    nwSent        \* what upstreams sent so far

nwVars == <<nwData, nwEof, nwTold, nwPermit, nwQueue, nwWatch, nwBatch, nwSignal, nwHeard, nwSent>>

NwBatches == DOMAIN NwPolls
NwSessions == UNION {NwPolls[b] : b \in NwBatches}
Pair == NwBatches \X NwSessions
NwDrainable(s) == nwEof[s] \/ nwData[s]

NwInit ==
    /\ nwData = [s \in NwSessions |-> FALSE] /\ nwEof = [s \in NwSessions |-> FALSE]
    /\ nwTold = [s \in NwSessions |-> TRUE] /\ nwPermit = [s \in NwSessions |-> FALSE]
    /\ nwQueue = [s \in NwSessions |-> <<>>] /\ nwWatch = [p \in Pair |-> "none"]
    /\ nwBatch = [b \in NwBatches |-> "idle"] /\ nwSignal = [b \in NwBatches |-> FALSE]
    /\ nwHeard = [b \in NwBatches |-> "none"] /\ nwSent = 0

-----------------------------------------------------------------------------
(* reader_task, udp_reader_task. *)

\* The reader appends and lets go of the lock, or marks the end...
ReaderStores(s) ==
    /\ nwTold[s] /\ ~nwEof[s] /\ nwSent < MaxChunks
    /\ nwSent' = nwSent + 1 /\ nwTold' = [nwTold EXCEPT ![s] = FALSE]
    /\ \/ nwData' = [nwData EXCEPT ![s] = TRUE] /\ UNCHANGED nwEof
       \/ nwEof' = [nwEof EXCEPT ![s] = TRUE] /\ UNCHANGED nwData
    /\ UNCHANGED <<nwPermit, nwQueue, nwWatch, nwBatch, nwSignal, nwHeard>>

\* ... then notifies: the first waiter, or the permit.
\* (Mutant: notify_waiters, which stores nothing.)
NotifyWaiting(s) ==
    IF nwQueue[s] = <<>> THEN UNCHANGED <<nwPermit, nwQueue, nwWatch>>
    ELSE /\ nwWatch' = [nwWatch EXCEPT ![<<Head(nwQueue[s]), s>>] = "woken"]
         /\ nwQueue' = [nwQueue EXCEPT ![s] = Tail(@)] /\ UNCHANGED nwPermit
NotifyOne(s) ==
    IF nwQueue[s] = <<>>
    THEN nwPermit' = [nwPermit EXCEPT ![s] = TRUE] /\ UNCHANGED <<nwQueue, nwWatch>>
    ELSE /\ nwWatch' = [nwWatch EXCEPT ![<<Head(nwQueue[s]), s>>] = "woken"]
         /\ nwQueue' = [nwQueue EXCEPT ![s] = Tail(@)] /\ UNCHANGED nwPermit

ReaderNotifies(s) ==
    /\ ~nwTold[s] /\ nwTold' = [nwTold EXCEPT ![s] = TRUE]
    /\ NotifyOne(s)
    /\ UNCHANGED <<nwData, nwEof, nwBatch, nwSignal, nwHeard, nwSent>>

-----------------------------------------------------------------------------
(* The watchers. *)

\* notified().await: a stored permit is taken, else the watcher queues.
WatcherPolls(b, s) ==
    /\ nwWatch[<<b, s>>] = "poll"
    /\ IF nwPermit[s]
       THEN nwPermit' = [nwPermit EXCEPT ![s] = FALSE] /\ nwWatch' = [nwWatch EXCEPT ![<<b, s>>] = "woken"]
            /\ UNCHANGED nwQueue
       ELSE nwQueue' = [nwQueue EXCEPT ![s] = Append(@, b)] /\ nwWatch' = [nwWatch EXCEPT ![<<b, s>>] = "wait"]
            /\ UNCHANGED nwPermit
    /\ UNCHANGED <<nwData, nwEof, nwTold, nwBatch, nwSignal, nwHeard, nwSent>>

\* Woken: a session with nothing to drain is a stale permit, the watcher goes back to waiting.
\* (Mutant: every wake-up is passed to the batch.)
AnyWakeup(s) == TRUE
WorthWaking(s) == NwDrainable(s)

WatcherChecks(b, s) ==
    /\ nwWatch[<<b, s>>] = "woken"
    /\ IF WorthWaking(s)
       THEN nwSignal' = [nwSignal EXCEPT ![b] = TRUE] /\ nwWatch' = [nwWatch EXCEPT ![<<b, s>>] = "gone"]
       ELSE nwWatch' = [nwWatch EXCEPT ![<<b, s>>] = "poll"] /\ UNCHANGED nwSignal
    /\ UNCHANGED <<nwData, nwEof, nwTold, nwPermit, nwQueue, nwBatch, nwHeard, nwSent>>

-----------------------------------------------------------------------------
(* The batch. *)

WaitBegins(b) ==
    /\ nwBatch[b] = "idle" /\ nwBatch' = [nwBatch EXCEPT ![b] = "spawned"]
    /\ nwWatch' = [p \in Pair |-> IF p[1] = b /\ p[2] \in NwPolls[b] THEN "poll" ELSE nwWatch[p]]
    /\ UNCHANGED <<nwData, nwEof, nwTold, nwPermit, nwQueue, nwSignal, nwHeard, nwSent>>

Dequeued(b, s) == SelectSeq(nwQueue[s], LAMBDA c : c # b)

\* AbortOnDrop for every watcher of b: it leaves the queues; one that was woken and has not run
\* yet passes its wake-up on.
Aborted(b) ==
    LET mine == {s \in NwPolls[b] : nwWatch[<<b, s>>] \in {"poll", "wait", "woken"}}
        lost == {s \in mine : nwWatch[<<b, s>>] = "woken"}
        left(s) == Dequeued(b, s)
        heir(s) == Head(left(s))
    IN
    /\ nwQueue' = [s \in NwSessions |-> IF s \in lost /\ left(s) # <<>> THEN Tail(left(s)) ELSE left(s)]
    /\ nwPermit' = [s \in NwSessions |-> nwPermit[s] \/ (s \in lost /\ left(s) = <<>>)]
    /\ nwWatch' = [p \in Pair |->
           IF p[1] = b THEN (IF p[2] \in mine THEN "gone" ELSE nwWatch[p])
           ELSE IF p[2] \in lost /\ left(p[2]) # <<>> /\ heir(p[2]) = p[1] THEN "woken"
           ELSE nwWatch[p]]

\* Something is there already; otherwise the select begins.
ReadyCheck(b) ==
    /\ nwBatch[b] = "spawned"
    /\ IF \E s \in NwPolls[b] : NwDrainable(s)
       THEN /\ nwBatch' = [nwBatch EXCEPT ![b] = "drain"]
            /\ nwHeard' = [nwHeard EXCEPT ![b] = "ready"] /\ Aborted(b)
       ELSE /\ nwBatch' = [nwBatch EXCEPT ![b] = "select"]
            /\ UNCHANGED <<nwHeard, nwQueue, nwPermit, nwWatch>>
    /\ UNCHANGED <<nwData, nwEof, nwTold, nwSignal, nwSent>>

WaitEnds(b, why) ==
    /\ nwBatch[b] = "select" /\ nwBatch' = [nwBatch EXCEPT ![b] = "drain"]
    /\ nwHeard' = [nwHeard EXCEPT ![b] = why] /\ Aborted(b)
    /\ UNCHANGED <<nwData, nwEof, nwTold, nwSignal, nwSent>>

Signalled(b) == nwSignal[b] /\ WaitEnds(b, "watcher")
WaitDeadline(b) == WaitEnds(b, "deadline")

\* The request is dropped by its caller in the middle of the wait.
WaitCancelled(b) ==
    /\ nwBatch[b] \in {"spawned", "select"} /\ nwBatch' = [nwBatch EXCEPT ![b] = "cancelled"]
    /\ Aborted(b)
    /\ UNCHANGED <<nwData, nwEof, nwTold, nwSignal, nwHeard, nwSent>>

\* drain_now, drain_udp_now of everything the batch polls; the client polls again afterwards.
DrainAll(b) ==
    /\ nwBatch[b] = "drain"
    /\ nwData' = [s \in NwSessions |-> IF s \in NwPolls[b] THEN FALSE ELSE nwData[s]]
    /\ nwBatch' = [nwBatch EXCEPT ![b] = "idle"]
    /\ nwSignal' = [nwSignal EXCEPT ![b] = FALSE] /\ nwHeard' = [nwHeard EXCEPT ![b] = "none"]
    /\ nwWatch' = [p \in Pair |-> IF p[1] = b THEN "none" ELSE nwWatch[p]]
    /\ UNCHANGED <<nwEof, nwTold, nwPermit, nwQueue, nwSent>>

NwTask ==
    \/ \E s \in NwSessions : ReaderNotifies(s)
    \/ \E b \in NwBatches : \/ ReadyCheck(b) \/ Signalled(b) \/ DrainAll(b)
                            \/ \E s \in NwSessions : WatcherPolls(b, s) \/ WatcherChecks(b, s)
NwNext ==
    \/ NwTask
    \/ \E s \in NwSessions : ReaderStores(s)
    \/ \E b \in NwBatches : WaitBegins(b) \/ WaitDeadline(b) \/ WaitCancelled(b)

NwSpec == NwInit /\ [][NwNext]_nwVars

-----------------------------------------------------------------------------
(* Properties. *)

\* Type invariant: a watcher is in its session's queue exactly while it waits.
NwTypeOK ==
    \A b \in NwBatches, s \in NwSessions :
        (b \in ToSet(nwQueue[s])) <=> (nwWatch[<<b, s>>] = "wait")

\* No wake-up is lost: a batch never sleeps in front of buffered bytes that nobody is on the way
\* to, unless their reader is just about to notify.  Either a permit is stored, a watcher of the
\* session is awake, or a batch that polls it has been signalled and drains it (which it will not
\* if its caller goes away just then: the others wait for their deadline).
NoLostWakeup ==
    \A b \in NwBatches : \A s \in NwPolls[b] :
        nwBatch[b] = "select" /\ nwData[s] /\ nwTold[s] =>
            \/ nwPermit[s] \/ nwSignal[b]
            \/ \E c \in NwBatches : /\ s \in NwPolls[c]
                                    /\ \/ nwWatch[<<c, s>>] \in {"poll", "woken"}
                                       \/ nwBatch[c] = "drain" \/ nwSignal[c]

\* A long poll is held until its deadline unless something is there: a permit that an earlier
\* batch left behind does not end it.  Somebody else may have drained it since.
HeldForData ==
    \A b \in NwBatches : nwSignal'[b] /\ ~nwSignal[b] => \E s \in NwPolls[b] : NwDrainable(s)
=============================================================================
