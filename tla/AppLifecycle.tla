---------------------------- MODULE AppLifecycle ----------------------------
(***************************************************************************)
(* Starting and stopping the proxy from the applications: the desktop's    *)
(* start_proxy and stop_proxy over AppState::inner (commands.rs, state.rs) *)
(* and Android's startProxy and stopProxy over the slot map                *)
(* (android_jni.rs).  Commands run concurrently with each other and with   *)
(* the tasks they spawn; every run binds the same port.                    *)
(*                                                                         *)
(* A run is told to stop when its oneshot sender sends or is dropped.      *)
(***************************************************************************)
EXTENDS Naturals, FiniteSets

CONSTANTS
    Platforms,   \* which of "desktop", "android" a behaviour may be
    Callers,     \* commands in progress at a time
    MaxRuns      \* bound on the runs of one behaviour

VARIABLES
    alPlatform,
    alRun,       \* run -> none, binding, serving, ended (its future is over), over
    alTold,      \* runs whose shutdown_rx has resolved
    alCall,      \* caller -> [at, run]
    alRunning,   \* inner.running
    alTx,        \* the run inner.shutdown_tx stops, 0 for None
    alState,     \* the run inner.running_state belongs to, 0 for None
    alSlots      \* Android: the handles in the slot map

alVars == <<alPlatform, alRun, alTold, alCall, alRunning, alTx, alState, alSlots>>

AlRuns == 1..MaxRuns
AlIdle == [at |-> "idle", run |-> 0]
AlAlive(r) == alRun[r] \in {"binding", "serving"}
AlFresh == CHOOSE r \in AlRuns : alRun[r] = "none" /\ \A q \in AlRuns : alRun[q] = "none" => r <= q
AlCanSpawn == \E r \in AlRuns : alRun[r] = "none"
AlGo(c, at, r) == alCall' = [alCall EXCEPT ![c] = [at |-> at, run |-> r]]
InnerUnchanged == UNCHANGED <<alRunning, alTx, alState>>

AlInit ==
    /\ alPlatform \in Platforms
    /\ alRun = [r \in AlRuns |-> "none"] /\ alTold = {}
    /\ alCall = [c \in Callers |-> AlIdle]
    /\ alRunning = FALSE /\ alTx = 0 /\ alState = 0
    /\ alSlots = {}

-----------------------------------------------------------------------------
(* Desktop. *)

\* start_proxy refuses a second start.
StartCheck(c) ==
    /\ alPlatform = "desktop" /\ alCall[c].at = "idle" /\ ~alRunning
    /\ AlGo(c, "build", 0)
    /\ InnerUnchanged /\ UNCHANGED <<alPlatform, alRun, alTold, alSlots>>

\* The configuration, the CA and the server are built, or one of them fails; the run is spawned.
StartSpawn(c) ==
    /\ alCall[c].at = "build"
    /\ \/ AlGo(c, "idle", 0) /\ UNCHANGED alRun
       \/ /\ AlCanSpawn
          /\ alRun' = [alRun EXCEPT ![AlFresh] = "binding"]
          /\ AlGo(c, "publish", AlFresh)
    /\ InnerUnchanged /\ UNCHANGED <<alPlatform, alTold, alSlots>>

\* A oneshot sender that is dropped or sent resolves the receiver of its run.  (Mutant: a sender
\* that is merely replaced does not.)
Forgotten(tx) == {}
Dropped(tx) == {tx} \ {0}

\* start_proxy records the run; a sender that was still in its place is dropped.
StartPublish(c) ==
    LET r == alCall[c].run IN
    /\ alCall[c].at = "publish"
    /\ alRunning' = TRUE /\ alTx' = r /\ alState' = r
    /\ alTold' = alTold \cup Dropped(alTx)
    /\ AlGo(c, "idle", 0)
    /\ UNCHANGED <<alPlatform, alRun, alSlots>>

\* stop_proxy, under the lock from beginning to end.
StopProxy ==
    /\ alPlatform = "desktop" /\ alRunning
    /\ alTold' = alTold \cup Dropped(alTx)
    /\ alTx' = 0 /\ alRunning' = FALSE /\ alState' = 0
    /\ UNCHANGED <<alPlatform, alRun, alCall, alSlots>>

\* What the spawned task does after run returns, whoever's state that is by now.
ExitHandler(r) ==
    /\ alPlatform = "desktop" /\ alRun[r] = "ended"
    /\ alRun' = [alRun EXCEPT ![r] = "over"]
    /\ alRunning' = FALSE /\ alState' = 0 /\ alTx' = 0
    /\ alTold' = alTold \cup Dropped(alTx)
    /\ UNCHANGED <<alPlatform, alCall, alSlots>>

-----------------------------------------------------------------------------
(* ProxyServer::run, as far as its caller sees it. *)

\* The port is free or the run ends with an error.
BindPort(r) ==
    /\ alRun[r] = "binding"
    /\ alRun' = [alRun EXCEPT ![r] = IF \E q \in AlRuns : alRun[q] = "serving" THEN "ended"
                                     ELSE "serving"]
    /\ InnerUnchanged /\ UNCHANGED <<alPlatform, alTold, alCall, alSlots>>

RunEnds(r) ==
    /\ alRun[r] = "serving" /\ r \in alTold
    /\ alRun' = [alRun EXCEPT ![r] = "ended"]
    /\ InnerUnchanged /\ UNCHANGED <<alPlatform, alTold, alCall, alSlots>>

\* Both listeners' accept loops fail or panic.
RunCrashes(r) ==
    /\ alRun[r] = "serving" /\ r \notin alTold
    /\ alRun' = [alRun EXCEPT ![r] = "ended"]
    /\ InnerUnchanged /\ UNCHANGED <<alPlatform, alTold, alCall, alSlots>>

-----------------------------------------------------------------------------
(* Android. *)

\* startProxy spawns on a runtime of its own, then takes a handle and enters it in the map.
JniSpawn(c) ==
    /\ alPlatform = "android" /\ alCall[c].at = "idle" /\ AlCanSpawn
    /\ alRun' = [alRun EXCEPT ![AlFresh] = "binding"]
    /\ AlGo(c, "insert", AlFresh)
    /\ InnerUnchanged /\ UNCHANGED <<alPlatform, alTold, alSlots>>

JniInsert(c) ==
    /\ alCall[c].at = "insert"
    /\ alSlots' = alSlots \cup {alCall[c].run}
    /\ AlGo(c, "idle", 0)
    /\ InnerUnchanged /\ UNCHANGED <<alPlatform, alRun, alTold>>

\* stopProxy takes the entry out, tells the run and lets go of the map.
JniStop(c, r) ==
    /\ alPlatform = "android" /\ alCall[c].at = "idle" /\ r \in alSlots
    /\ alSlots' = alSlots \ {r} /\ alTold' = alTold \cup {r}
    /\ AlGo(c, "shutdown", r)
    /\ InnerUnchanged /\ UNCHANGED <<alPlatform, alRun>>

\* shutdown_timeout: whatever is left of the runtime is gone when it returns.
ShutdownTimeout(r) == "over"

JniShutdown(c) ==
    LET r == alCall[c].run IN
    /\ alCall[c].at = "shutdown"
    /\ alRun' = [alRun EXCEPT ![r] = ShutdownTimeout(r)]
    /\ AlGo(c, "idle", 0)
    /\ InnerUnchanged /\ UNCHANGED <<alPlatform, alTold, alSlots>>

AlRunStep(r) == ExitHandler(r) \/ BindPort(r) \/ RunEnds(r)
CallStep(c) == StartSpawn(c) \/ StartPublish(c) \/ JniInsert(c) \/ JniShutdown(c)
User ==
    \/ \E c \in Callers : StartCheck(c) \/ JniSpawn(c) \/ \E r \in AlRuns : JniStop(c, r)
    \/ StopProxy

AlNext ==
    \/ User
    \/ \E c \in Callers : CallStep(c)
    \/ \E r \in AlRuns : AlRunStep(r) \/ RunCrashes(r)

\* Commands and tasks run to their end; nobody has to press a button.
AlFairness ==
    /\ \A c \in Callers : WF_alVars(CallStep(c))
    /\ \A r \in AlRuns : WF_alVars(AlRunStep(r))

AlSpec == AlInit /\ [][AlNext]_alVars /\ AlFairness

-----------------------------------------------------------------------------
(* Properties. *)

\* Type invariant: the fields of Inner change together, and one run at most holds the port.
AlTypeOK ==
    /\ alRunning <=> alTx # 0
    /\ alTx = alState
    /\ Cardinality({r \in AlRuns : alRun[r] = "serving"}) <= 1
    /\ alSlots \subseteq AlRuns

\* No proxy keeps serving where nobody can stop it: one that has not been told to stop is the one
\* stop_proxy would tell (or stopProxy would find), or its start is still in progress.
NoHiddenProxy ==
    \A r \in AlRuns : AlAlive(r) /\ r \notin alTold =>
        \/ alRunning /\ alTx = r
        \/ r \in alSlots
        \/ \E c \in Callers : alCall[c].run = r /\ alCall[c].at \in {"publish", "insert"}

\* Once the application shows the proxy as stopped for good, nothing serves any more.
ShownTruly == alRunning \/ alSlots # {} \/ \A r \in AlRuns : ~AlAlive(r)

\* When stopProxy has returned, the port is free for the next startProxy.
PortFreeAfterStop ==
    \A r \in AlRuns : alPlatform = "android" /\ alRun[r] = "serving" =>
        r \in alSlots \/ \E c \in Callers : alCall[c].run = r

=============================================================================
