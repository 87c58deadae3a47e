----------------------------- MODULE ModeSwitch -----------------------------
(***************************************************************************)
(* The life of one started proxy, RuntimeState of proxy_server.rs: run()   *)
(* with its start-up and its clean-up, live mode switches that race it,    *)
(* and the accept loops that take one snapshot of the ModeBundle for each  *)
(* connection.                                                             *)
(*                                                                         *)
(* A configuration is a generation: 0 is the one RuntimeState::new was     *)
(* given, switch s brings generation s.  Everything built from a           *)
(* configuration carries its generation, so that a part of one             *)
(* configuration beside a part of another can be seen.                     *)
(***************************************************************************)
EXTENDS Naturals, FiniteSets

CONSTANTS
    Plans,       \* generation -> mode, for the initial one and every switch
    NoGen        \* nothing built, or a free lock

ASSUME ModeSwitchAssumption == \A p \in Plans : 0 \in DOMAIN p /\ NoGen \notin DOMAIN p

VARIABLES
    plan,        \* the configurations of this behaviour
    bundle,      \* ModeBundle: [gen, mode, fronter, mux, drive]
    config,      \* RuntimeState.config
    coalesce,    \* the generation of coalesce_step_ms / coalesce_max_ms
    tasks,       \* mode_tasks: the generation its handles belong to
    alive,       \* background task sets that run and are not aborted
    lock,        \* switch_lock
    serial,      \* switch_serial_lock
    stopped,
    shutdown,    \* the shutdown signal is sent
    runner,      \* where run() is
    candidate,   \* startup_drive_mux: [st, gen]
    accepting,   \* the accept tasks run
    switch,      \* switch -> where switch_mode is
    accepted     \* the last snapshot an accept loop took

msVars == <<plan, bundle, config, coalesce, tasks, alive, lock, serial, stopped, shutdown,
            runner, candidate, accepting, switch, accepted>>

Gens == DOMAIN plan
Switches == Gens \ {0}

(* Mode::uses_apps_script_relay.                                           *)
UsesRelay(mode) == mode \in {"apps_script", "full"}

(* build_mode_state: what a configuration is resolved to, before any mux.  *)
Built(g) == [gen |-> g, mode |-> plan[g],
             fronter |-> IF UsesRelay(plan[g]) THEN g ELSE NoGen,
             mux |-> NoGen, drive |-> NoGen]

NoCandidate == [st |-> "none", gen |-> NoGen]

MsInit ==
    /\ plan \in Plans
    /\ bundle = Built(0)
    /\ config = 0 /\ coalesce = 0
    /\ tasks = NoGen /\ alive = {}
    /\ lock = NoGen /\ serial = NoGen
    /\ stopped = FALSE /\ shutdown = FALSE
    /\ runner = "bind" /\ candidate = NoCandidate
    /\ accepting = FALSE
    /\ switch = [s \in Switches |-> "idle"]
    /\ accepted = {}

(* ModeTasks::abort_all and spawn_mode_tasks, on the value of alive.       *)
Aborted(running) == running \ {tasks}
Spawned(running, g) == Aborted(running) \cup {g}

-----------------------------------------------------------------------------
(* run() and run_inner().                                                  *)

Bind ==
    /\ runner = "bind"
    /\ runner' \in {"look", "cleanup"}
    /\ UNCHANGED <<plan, bundle, config, coalesce, tasks, alive, lock, serial, stopped,
                   shutdown, candidate, accepting, switch, accepted>>

(* Before the lock: does the starting mode need a DriveMux?                *)
StartsEarly == bundle.mode = "drive" /\ bundle.drive = NoGen

LookForDrive ==
    /\ runner = "look"
    /\ runner' = IF StartsEarly THEN "load" ELSE "install"
    /\ UNCHANGED <<plan, bundle, config, coalesce, tasks, alive, lock, serial, stopped,
                   shutdown, candidate, accepting, switch, accepted>>

LoadConfig ==
    /\ runner = "load"
    /\ runner' = "dial"
    /\ candidate' = [st |-> "dialing", gen |-> config]
    /\ UNCHANGED <<plan, bundle, config, coalesce, tasks, alive, lock, serial, stopped,
                   shutdown, accepting, switch, accepted>>

(* DriveMux::start returns: its OAuth refresh succeeded or did not.        *)
StartupDrive ==
    /\ runner = "dial"
    /\ runner' = "install"
    /\ \E st \in {"ok", "err"} : candidate' = [candidate EXCEPT !.st = st]
    /\ UNCHANGED <<plan, bundle, config, coalesce, tasks, alive, lock, serial, stopped,
                   shutdown, accepting, switch, accepted>>

(* The bundle after the locked block of run_inner has put the muxes in.    *)
NeedsDrive(b) == b.mode = "drive" /\ b.drive = NoGen
WithMuxes(b) ==
    [b EXCEPT !.mux = IF b.mode = "full" /\ b.mux = NoGen /\ b.fronter # NoGen
                      THEN coalesce ELSE @,
              !.drive = IF NeedsDrive(b) THEN candidate.gen ELSE @]

(* The locked block: it holds switch_lock from its first line to its last. *)
Install ==
    /\ runner = "install"
    /\ lock = NoGen
    /\ IF NeedsDrive(bundle) /\ candidate.st # "ok"
       THEN /\ runner' = IF candidate.st = "err" THEN "cleanup" ELSE "drive_missing"
            /\ UNCHANGED <<bundle, tasks, alive, accepting>>
       ELSE /\ bundle' = WithMuxes(bundle)
            /\ IF bundle.fronter # NoGen /\ tasks = NoGen
               THEN /\ tasks' = bundle.fronter
                    /\ alive' = Spawned(alive, bundle.fronter)
               ELSE UNCHANGED <<tasks, alive>>
            /\ runner' = "serving"
            /\ accepting' = TRUE
    /\ candidate' = NoCandidate
    /\ UNCHANGED <<plan, config, coalesce, lock, serial, stopped, shutdown, switch, accepted>>

(* The select: the shutdown signal, or an accept loop that panicked.       *)
Unserve ==
    /\ runner = "serving"
    /\ runner' = "cleanup"
    /\ UNCHANGED <<plan, bundle, config, coalesce, tasks, alive, lock, serial, stopped,
                   shutdown, candidate, accepting, switch, accepted>>

ShutdownSeen == shutdown /\ Unserve
AcceptLoopPanics == ~shutdown /\ Unserve

(* The epilog, under switch_lock.                                          *)
Cleanup ==
    /\ runner \in {"cleanup", "drive_missing"}
    /\ lock = NoGen
    /\ stopped' = TRUE
    /\ alive' = Aborted(alive)
    /\ tasks' = NoGen
    /\ bundle' = [bundle EXCEPT !.mux = NoGen, !.drive = NoGen]
    /\ runner' = "returned"
    /\ UNCHANGED <<plan, config, coalesce, lock, serial, shutdown, candidate, accepting,
                   switch, accepted>>

Stop ==
    /\ ~shutdown
    /\ shutdown' = TRUE
    /\ UNCHANGED <<plan, bundle, config, coalesce, tasks, alive, lock, serial, stopped,
                   runner, candidate, accepting, switch, accepted>>

-----------------------------------------------------------------------------
(* The accept loops.  abort() takes effect when the task next yields: one  *)
(* connection more may be taken after it.                                  *)
LoopRuns == accepting

Accept ==
    /\ LoopRuns
    /\ accepted' = {bundle}
    /\ UNCHANGED <<plan, bundle, config, coalesce, tasks, alive, lock, serial, stopped,
                   shutdown, runner, candidate, accepting, switch>>

AcceptEnds ==
    /\ accepting /\ runner \in {"cleanup", "returned"}
    /\ accepting' = FALSE
    /\ UNCHANGED <<plan, bundle, config, coalesce, tasks, alive, lock, serial, stopped,
                   shutdown, runner, candidate, switch, accepted>>

-----------------------------------------------------------------------------
(* switch_mode.                                                            *)

Goto(s, place) == switch' = [switch EXCEPT ![s] = place]
Leave(s, place) == Goto(s, place) /\ serial' = NoGen

Call(s) ==
    /\ switch[s] = "idle" /\ serial = NoGen
    /\ serial' = s
    /\ Goto(s, "check")
    /\ UNCHANGED <<plan, bundle, config, coalesce, tasks, alive, lock, stopped, shutdown,
                   runner, candidate, accepting, accepted>>

EarlyCheck(s) ==
    /\ switch[s] = "check" /\ lock = NoGen
    /\ \/ stopped /\ Leave(s, "refused")
       \/ ~stopped /\ Goto(s, "build") /\ UNCHANGED serial
    /\ UNCHANGED <<plan, bundle, config, coalesce, tasks, alive, lock, stopped, shutdown,
                   runner, candidate, accepting, accepted>>

(* build_mode_state, and for Drive the start of DriveMux: either may fail. *)
Build(s) ==
    /\ switch[s] = "build"
    /\ \/ Leave(s, "failed")
       \/ Goto(s, "swap") /\ UNCHANGED serial
    /\ UNCHANGED <<plan, bundle, config, coalesce, tasks, alive, lock, stopped, shutdown,
                   runner, candidate, accepting, accepted>>

(* (Mutant: what was checked before the build is not checked again.)       *)
CheckedOnce == TRUE
StillUp == ~stopped

LateCheck(s) ==
    /\ switch[s] = "swap" /\ lock = NoGen
    /\ \/ ~StillUp /\ Leave(s, "refused") /\ UNCHANGED lock
       \/ StillUp /\ lock' = s /\ Goto(s, "abort") /\ UNCHANGED serial
    /\ UNCHANGED <<plan, bundle, config, coalesce, tasks, alive, stopped, shutdown,
                   runner, candidate, accepting, accepted>>

NewKnobs(s) == s

AbortTasks(s) ==
    /\ switch[s] = "abort"
    /\ coalesce' = NewKnobs(s)
    /\ alive' = Aborted(alive)
    /\ tasks' = NoGen
    /\ Goto(s, "store")
    /\ UNCHANGED <<plan, bundle, config, lock, serial, stopped, shutdown, runner, candidate,
                   accepting, accepted>>

StoreBundle(s) ==
    /\ switch[s] = "store"
    /\ bundle' = [Built(s) EXCEPT !.mux = IF plan[s] = "full" THEN s ELSE NoGen,
                                  !.drive = IF plan[s] = "drive" THEN s ELSE NoGen]
    /\ Goto(s, "spawn")
    /\ UNCHANGED <<plan, config, coalesce, tasks, alive, lock, serial, stopped, shutdown,
                   runner, candidate, accepting, accepted>>

StoreConfigAndSpawn(s) ==
    /\ switch[s] = "spawn"
    /\ config' = s
    /\ IF UsesRelay(plan[s])
       THEN tasks' = s /\ alive' = Spawned(alive, s)
       ELSE UNCHANGED <<tasks, alive>>
    /\ lock' = NoGen
    /\ Leave(s, "switched")
    /\ UNCHANGED <<plan, bundle, coalesce, stopped, shutdown, runner, candidate, accepting,
                   accepted>>

-----------------------------------------------------------------------------
Critical(s) == AbortTasks(s) \/ StoreBundle(s) \/ StoreConfigAndSpawn(s)
SwitchStep(s) == Call(s) \/ EarlyCheck(s) \/ Build(s) \/ LateCheck(s) \/ Critical(s)
RunStep ==
    \/ Bind \/ LookForDrive \/ LoadConfig \/ StartupDrive \/ Install
    \/ ShutdownSeen \/ Cleanup

MsNext ==
    \/ RunStep \/ AcceptLoopPanics \/ Stop \/ Accept \/ AcceptEnds
    \/ \E s \in Switches : SwitchStep(s)

(* run() is polled until it is over, and a switch that holds the lock      *)
(* waits for nothing outside the process.  A switch that builds waits for  *)
(* the network: nothing says when it goes on.                              *)
MsFairness == WF_msVars(RunStep) /\ WF_msVars(\E s \in Switches : Critical(s))

MsSpec == MsInit /\ [][MsNext]_msVars /\ MsFairness

-----------------------------------------------------------------------------
Places == {"bind", "look", "load", "dial", "install", "serving", "cleanup", "drive_missing",
           "returned"}

(* Every variable holds a value the program can give it, and a lock is     *)
(* held by a switch that is in the part of the code it guards.             *)
MsTypeOK ==
    /\ bundle.gen \in Gens /\ bundle.mode = plan[bundle.gen]
    /\ {bundle.fronter, bundle.mux, bundle.drive, tasks} \subseteq Gens \cup {NoGen}
    /\ config \in Gens /\ coalesce \in Gens /\ alive \subseteq Gens
    /\ stopped \in BOOLEAN /\ shutdown \in BOOLEAN /\ accepting \in BOOLEAN
    /\ runner \in Places
    /\ \A s \in Switches : lock = s <=> switch[s] \in {"abort", "store", "spawn"}
    /\ \A s \in Switches :
          serial = s <=> switch[s] \notin {"idle", "refused", "failed", "switched"}

(* What the bundle needs for its mode, and of one configuration.           *)
Usable(b) ==
    /\ b.fronter = IF UsesRelay(b.mode) THEN b.gen ELSE NoGen
    /\ b.mux = IF b.mode = "full" THEN b.gen ELSE NoGen
    /\ b.drive = IF b.mode = "drive" THEN b.gen ELSE NoGen

(* While the proxy serves and no switch is half done, the mode, the        *)
(* fronter, the tunnel and Drive muxes, the coalesce knobs, the saved      *)
(* configuration and the background tasks are all of one configuration,    *)
(* however start-up and switches interleaved.                              *)
OneConfiguration ==
    runner = "serving" /\ lock = NoGen =>
        /\ Usable(bundle)
        /\ config = bundle.gen /\ coalesce = bundle.gen
        /\ tasks = bundle.fronter
        /\ alive = {tasks} \ {NoGen}

(* A connection accepted before the clean-up has the fronter and the mux   *)
(* its mode needs, so dispatch_tunnel's arms for a missing one stay dead.  *)
AcceptedUsable == ~stopped => \A b \in accepted : Usable(b)

(* Once run() has returned no background task runs and the bundle keeps no *)
(* mux alive, and no switch that was under way brings one back.            *)
QuietAfterStop ==
    runner = "returned" => alive = {} /\ bundle.mux = NoGen /\ bundle.drive = NoGen

(* run_inner's "drive mux missing after startup race" cannot happen: when  *)
(* the locked block wants a Drive mux, one was tried for that bundle.      *)
DriveNeverMissing == runner # "drive_missing"

(* Stop always ends run(), also when a switch hangs in the network: this   *)
(* holds again and again, and neither side of it is ever undone.           *)
StopHonoured == shutdown => runner = "returned"

(* The contract of a started proxy that can be switched and stopped.       *)
SwitchSound == MsTypeOK /\ OneConfiguration /\ AcceptedUsable /\ QuietAfterStop /\ DriveNeverMissing
=============================================================================
