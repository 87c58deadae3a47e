---------------------------- MODULE ProxyProofs -----------------------------
(***************************************************************************)
(* Proofs about four parts of the running proxy, each of its own module:   *)
(* the mode switch of a started proxy, the update that replaces the        *)
(* executable, the access token of Drive, and the relay of a request       *)
(* through Apps Script.  They share no state.                              *)
(***************************************************************************)
EXTENDS ModeSwitch, UpdateApply, TokenCache, Relay, TLAPS

-----------------------------------------------------------------------------
(* ModeSwitch.  The contract of a started proxy is not inductive: a switch *)
(* is several steps under switch_lock, and what the start-up looked up     *)
(* before it took the lock may be stale by then.  The strengthening says   *)
(* for every place of a switch which parts are already of the new          *)
(* configuration, and that a bundle which still needs its Drive mux is the *)
(* one the start-up has looked at.                                         *)

\* The places of a switch, those inside switch_lock after the swap, and those
\* outside it.
SwitchPlaces == {"idle", "check", "build", "swap", "abort", "store", "spawn", "refused",
                 "failed", "switched"}
Inside == {"abort", "store", "spawn"}
Out == {"idle", "refused", "failed", "switched"}
MaybeGen == Gens \cup {NoGen}

\* The types, with who holds the two locks.
MsTypes ==
    /\ plan \in Plans
    /\ bundle \in [gen : Gens, mode : {plan[g] : g \in Gens}, fronter : MaybeGen,
                   mux : MaybeGen, drive : MaybeGen]
    /\ bundle.mode = plan[bundle.gen]
    /\ bundle.fronter = IF UsesRelay(bundle.mode) THEN bundle.gen ELSE NoGen
    /\ config \in Gens /\ coalesce \in Gens /\ tasks \in MaybeGen
    /\ stopped \in BOOLEAN /\ shutdown \in BOOLEAN /\ accepting \in BOOLEAN
    /\ runner \in Places
    /\ candidate \in [st : {"none", "dialing", "ok", "err"}, gen : MaybeGen]
    /\ switch \in [Switches -> SwitchPlaces]
    /\ lock \in Switches \cup {NoGen} /\ serial \in Switches \cup {NoGen}
    /\ \A s \in Switches : lock = s <=> switch[s] \in Inside
    /\ \A s \in Switches : serial = s <=> switch[s] \notin Out

\* The background tasks that run are those of mode_tasks.
OneTaskSet == alive = {tasks} \ {NoGen}

\* What is of which configuration, outside and inside the locked part of a
\* switch.
InStep ==
    /\ lock = NoGen => config = bundle.gen /\ coalesce = bundle.gen
    /\ lock = NoGen => tasks \in {NoGen, bundle.fronter}
    /\ \A s \in Switches :
          /\ switch[s] \in {"abort", "store"} => config = bundle.gen
          /\ switch[s] \in {"store", "spawn"} => coalesce = s /\ tasks = NoGen
          /\ switch[s] = "spawn" => bundle.gen = s /\ Usable(bundle)

\* Before the clean-up a bundle lacks its muxes only at the start, with the
\* configuration the proxy was made with; from the locked block on none does.
MuxesPut ==
    /\ stopped <=> runner = "returned"
    /\ runner # "drive_missing"
    /\ ~stopped => Usable(bundle) \/ bundle = Built(0)
    /\ accepting /\ ~stopped => Usable(bundle)
    /\ runner = "serving" => accepting
    /\ runner = "serving" /\ lock = NoGen => tasks = bundle.fronter
    /\ stopped => lock = NoGen /\ tasks = NoGen /\ bundle.mux = NoGen /\ bundle.drive = NoGen
    /\ \A b \in accepted : ~stopped => Usable(b)

\* A bundle that still needs its Drive mux is the one run_inner has looked at.
LookedAt ==
    NeedsDrive(bundle) /\ ~stopped =>
        /\ config = bundle.gen
        /\ runner = "dial" => candidate.gen = bundle.gen
        /\ runner = "install" => candidate.st \in {"ok", "err"} /\ candidate.gen = bundle.gen
        /\ runner # "serving"

MsInv == MsTypes /\ OneTaskSet /\ InStep /\ MuxesPut /\ LookedAt

-----------------------------------------------------------------------------
\* The plan has a first generation, and no generation is NoGen.
LEMMA GensOf == MsTypes => 0 \in Gens /\ NoGen \notin Gens
BY ModeSwitchAssumption, Zenon DEF MsTypes, Gens

\* The initial states satisfy the invariant.
LEMMA MsInvInit == MsInit => MsInv
<1> SUFFICES ASSUME MsInit PROVE MsInv
  BY Zenon
<1>1. plan \in Plans /\ 0 \in Gens /\ NoGen \notin Gens
  BY ModeSwitchAssumption, Zenon DEF MsInit, Gens
<1>2. MsTypes
  BY <1>1, Zenon DEF MsInit, MsTypes, Built, MaybeGen, NoCandidate, Switches, Places, SwitchPlaces,
     Inside, Out
<1>3. OneTaskSet /\ InStep
  BY <1>1, Zenon DEF MsInit, OneTaskSet, InStep, Built
<1>4. MuxesPut /\ LookedAt
  BY <1>1, Zenon DEF MsInit, MuxesPut, LookedAt, Built
<1> QED
  BY <1>2, <1>3, <1>4, Zenon DEF MsInv

\* The sets of generations do not change.
LEMMA SameGens ==
    ASSUME plan' = plan
    PROVE  /\ Gens' = Gens /\ Switches' = Switches /\ MaybeGen' = MaybeGen
           /\ Built(0)' = Built(0)
BY Zenon DEF Gens, Switches, MaybeGen, Built

\* Every step leaves the plan alone.
LEMMA SamePlan == [MsNext]_msVars => plan' = plan
BY Zenon DEF MsNext, RunStep, Bind, LookForDrive, LoadConfig, StartupDrive, Install, ShutdownSeen,
   Unserve, Cleanup, AcceptLoopPanics, Stop, Accept, AcceptEnds, SwitchStep, Call, EarlyCheck,
   Build, LateCheck, Critical, AbortTasks, StoreBundle, StoreConfigAndSpawn, msVars

\* The steps of run() and of the accept loops preserve the types.
LEMMA RunTypes ==
    ASSUME MsTypes, RunStep \/ AcceptLoopPanics \/ Stop \/ Accept \/ AcceptEnds
    PROVE  MsTypes'
<1>1. plan' = plan
  BY SamePlan, Zenon DEF MsNext
<1>2. Gens' = Gens /\ Switches' = Switches /\ MaybeGen' = MaybeGen
  BY <1>1, SameGens, Zenon
<1>3. /\ switch' = switch /\ lock' = lock /\ serial' = serial
      /\ config' = config /\ coalesce' = coalesce
  BY Zenon DEF RunStep, Bind, LookForDrive, LoadConfig, StartupDrive, Install, ShutdownSeen,
     Unserve, Cleanup, AcceptLoopPanics, Stop, Accept, AcceptEnds
<1>4. /\ runner' \in Places
      /\ stopped' \in BOOLEAN /\ shutdown' \in BOOLEAN /\ accepting' \in BOOLEAN
  BY ZenonT(60) DEF RunStep, Bind, LookForDrive, LoadConfig, StartupDrive, Install, ShutdownSeen,
     Unserve, Cleanup, AcceptLoopPanics, Stop, Accept, AcceptEnds, MsTypes, Places
<1>5. candidate' \in [st : {"none", "dialing", "ok", "err"}, gen : MaybeGen]
  <2>1. \/ candidate' = candidate
        \/ candidate' = NoCandidate
        \/ candidate' = [st |-> "dialing", gen |-> config]
        \/ \E st \in {"ok", "err"} : candidate' = [candidate EXCEPT !.st = st]
    BY Zenon DEF RunStep, Bind, LookForDrive, LoadConfig, StartupDrive, Install, ShutdownSeen,
       Unserve, Cleanup, AcceptLoopPanics, Stop, Accept, AcceptEnds
  <2>2. config \in MaybeGen /\ NoGen \in MaybeGen
    BY Zenon DEF MsTypes, MaybeGen
  <2>3. candidate \in [st : {"none", "dialing", "ok", "err"}, gen : MaybeGen]
    BY Zenon DEF MsTypes
  <2> QED
    BY <2>1, <2>2, <2>3, SMTT(60) DEF NoCandidate
<1>6. tasks' \in MaybeGen
  BY Zenon DEF RunStep, Bind, LookForDrive, LoadConfig, StartupDrive, Install, ShutdownSeen,
     Unserve, Cleanup, AcceptLoopPanics, Stop, Accept, AcceptEnds, MsTypes, MaybeGen
<1>7. /\ bundle' \in [gen : Gens, mode : {plan[g] : g \in Gens}, fronter : MaybeGen,
                     mux : MaybeGen, drive : MaybeGen]
      /\ bundle'.mode = plan[bundle'.gen]
      /\ bundle'.fronter = IF UsesRelay(bundle'.mode) THEN bundle'.gen ELSE NoGen
  <2>1. CASE bundle' = bundle
    BY <2>1, Zenon DEF MsTypes
  <2>2. CASE bundle' = WithMuxes(bundle)
    BY <2>2, Zenon DEF MsTypes, WithMuxes, MaybeGen
  <2>3. CASE bundle' = [bundle EXCEPT !.mux = NoGen, !.drive = NoGen]
    BY <2>3, Zenon DEF MsTypes, MaybeGen
  <2> QED
    BY <2>1, <2>2, <2>3, Zenon DEF RunStep, Bind, LookForDrive, LoadConfig, StartupDrive, Install,
       ShutdownSeen, Unserve, Cleanup, AcceptLoopPanics, Stop, Accept, AcceptEnds
<1> QED
  BY <1>1, <1>2, <1>3, <1>4, <1>5, <1>6, <1>7, Zenon DEF MsTypes

\* The steps of a switch preserve the types.
LEMMA SwitchTypes ==
    ASSUME MsTypes, NEW s \in Switches, SwitchStep(s)
    PROVE  MsTypes'
<1>1. plan' = plan
  BY SamePlan, Zenon DEF MsNext
<1>2. Gens' = Gens /\ Switches' = Switches /\ MaybeGen' = MaybeGen
  BY <1>1, SameGens, Zenon
<1>3. /\ stopped' = stopped /\ shutdown' = shutdown /\ accepting' = accepting
      /\ runner' = runner /\ candidate' = candidate
  BY Zenon DEF SwitchStep, Call, EarlyCheck, Build, LateCheck, Critical, AbortTasks, StoreBundle,
     StoreConfigAndSpawn
<1>4. s \in Gens /\ NoGen \notin Gens
  BY GensOf, Zenon DEF Switches
<1>5. config' \in Gens /\ coalesce' \in Gens /\ tasks' \in MaybeGen
  BY <1>4, Zenon DEF MsTypes, SwitchStep, Call, EarlyCheck, Build, LateCheck, Critical, AbortTasks,
     StoreBundle, StoreConfigAndSpawn, NewKnobs, MaybeGen
<1>6. /\ bundle' \in [gen : Gens, mode : {plan[g] : g \in Gens}, fronter : MaybeGen,
                     mux : MaybeGen, drive : MaybeGen]
      /\ bundle'.mode = plan[bundle'.gen]
      /\ bundle'.fronter = IF UsesRelay(bundle'.mode) THEN bundle'.gen ELSE NoGen
  <2>1. CASE bundle' = bundle
    BY <2>1, Zenon DEF MsTypes
  <2>2. CASE StoreBundle(s)
    BY <2>2, <1>4, Zenon DEF StoreBundle, Built, MaybeGen
  <2> QED
    BY <2>1, <2>2, Zenon DEF SwitchStep, Call, EarlyCheck, Build, LateCheck, Critical, AbortTasks,
       StoreConfigAndSpawn
<1>7. /\ switch' \in [Switches -> SwitchPlaces]
      /\ lock' \in Switches \cup {NoGen} /\ serial' \in Switches \cup {NoGen}
      /\ \A t \in Switches : lock' = t <=> switch'[t] \in Inside
      /\ \A t \in Switches : serial' = t <=> switch'[t] \notin Out
  <2> USE <1>4 DEF MsTypes, Goto, Leave, SwitchPlaces, Inside, Out, Switches
  <2>1. CASE Call(s)
    BY <2>1, Zenon DEF Call
  <2>2. CASE EarlyCheck(s)
    BY <2>2 DEF EarlyCheck
  <2>3. CASE Build(s)
    BY <2>3 DEF Build
  <2>4. CASE LateCheck(s)
    BY <2>4 DEF LateCheck
  <2>5. CASE AbortTasks(s)
    BY <2>5, Zenon DEF AbortTasks
  <2>6. CASE StoreBundle(s)
    BY <2>6, Zenon DEF StoreBundle
  <2>7. CASE StoreConfigAndSpawn(s)
    BY <2>7 DEF StoreConfigAndSpawn
  <2> QED
    BY <2>1, <2>2, <2>3, <2>4, <2>5, <2>6, <2>7, Zenon DEF SwitchStep, Critical
<1> QED
  BY <1>1, <1>2, <1>3, <1>5, <1>6, <1>7 DEF MsTypes
\* Every step keeps the background tasks those of mode_tasks.
LEMMA OneTaskSetStep == MsTypes /\ OneTaskSet /\ MsNext => OneTaskSet'
<1> SUFFICES ASSUME MsTypes, OneTaskSet, MsNext PROVE OneTaskSet'
  BY Zenon
<1>1. NoGen \notin Gens
  BY GensOf, Zenon
<1>2. \/ UNCHANGED <<tasks, alive>>
      \/ tasks' = NoGen /\ alive' = Aborted(alive)
      \/ \E g \in Gens : tasks' = g /\ alive' = Spawned(alive, g)
  <2>1. CASE RunStep \/ AcceptLoopPanics \/ Stop \/ Accept \/ AcceptEnds
    BY <2>1, Zenon DEF MsTypes, MaybeGen, RunStep, Bind, LookForDrive, LoadConfig, StartupDrive, Install,
       ShutdownSeen, Unserve, Cleanup, AcceptLoopPanics, Stop, Accept, AcceptEnds
  <2>2. CASE \E s \in Switches : SwitchStep(s)
    BY <2>2, Zenon DEF Switches, SwitchStep, Call, EarlyCheck, Build, LateCheck, Critical, AbortTasks,
       StoreBundle, StoreConfigAndSpawn
  <2> QED
    BY <2>1, <2>2, Zenon DEF MsNext
<1> QED
  BY <1>1, <1>2, Zenon DEF OneTaskSet, Aborted, Spawned

\* The steps of run() and of the accept loops preserve the rest.
LEMMA RunKeeps ==
    ASSUME MsInv, RunStep \/ AcceptLoopPanics \/ Stop \/ Accept \/ AcceptEnds
    PROVE  InStep' /\ MuxesPut' /\ LookedAt'
<1>1. plan' = plan
  BY SamePlan, Zenon DEF MsNext
<1>2. Switches' = Switches /\ Built(0)' = Built(0)
  BY <1>1, SameGens, Zenon
<1> USE <1>1, <1>2 DEF MsInv, InStep, MuxesPut, LookedAt
<1>3. CASE Bind
  BY <1>3, Zenon DEF Bind, NeedsDrive
<1>4. CASE LookForDrive
  BY <1>4, Zenon DEF LookForDrive, NeedsDrive, StartsEarly
<1>5. CASE LoadConfig
  BY <1>5, Zenon DEF LoadConfig, NeedsDrive
<1>6. CASE StartupDrive
  BY <1>6, Zenon DEF StartupDrive, NeedsDrive, MsTypes
<1>7. CASE Install
  <2>1. lock' = NoGen /\ lock = NoGen /\ ~stopped /\ stopped' = stopped /\ switch' = switch
    BY <1>7, Zenon DEF Install, MsTypes
  <2>2. \A t \in Switches : switch[t] \notin Inside
    BY <2>1, GensOf, ZenonT(60) DEF MsTypes, Switches
  <2>3. CASE NeedsDrive(bundle) /\ candidate.st # "ok"
    BY <1>7, <2>1, <2>2, <2>3 DEF Install, NeedsDrive
  <2>4. CASE ~(NeedsDrive(bundle) /\ candidate.st # "ok")
    <3>1. /\ bundle' = WithMuxes(bundle) /\ runner' = "serving" /\ accepting'
          /\ config' = config /\ coalesce' = coalesce /\ accepted' = accepted
          /\ tasks' = IF bundle.fronter # NoGen /\ tasks = NoGen THEN bundle.fronter ELSE tasks
      BY <1>7, <2>4, Zenon DEF Install
    <3>2. /\ bundle'.gen = bundle.gen /\ bundle'.mode = bundle.mode
          /\ bundle'.fronter = bundle.fronter
          /\ bundle'.mux = IF bundle.mode = "full" /\ bundle.mux = NoGen /\ bundle.fronter # NoGen
                           THEN coalesce ELSE bundle.mux
          /\ bundle'.drive = IF NeedsDrive(bundle) THEN candidate.gen ELSE bundle.drive
      BY <3>1, Zenon DEF WithMuxes, MsTypes
    <3>3. coalesce = bundle.gen /\ bundle.gen # NoGen
      BY <2>1, GensOf, Zenon DEF MsTypes
    <3>4. NeedsDrive(bundle) => candidate.gen = bundle.gen
      BY <1>7, <2>1, Zenon DEF Install
    <3>5. \/ Usable(bundle)
          \/ bundle.mux = NoGen /\ bundle.drive = NoGen
      BY <2>1 DEF Built
    <3>6. Usable(bundle')
      BY <3>2, <3>3, <3>4, <3>5, Zenon DEF Usable, NeedsDrive, MsTypes, UsesRelay
    <3>7. ~NeedsDrive(bundle')
      BY <3>2, <3>3, <3>6, Zenon DEF Usable, NeedsDrive
    <3>8. InStep'
      BY <2>1, <2>2, <3>1, <3>2, ZenonT(60) DEF Inside
    <3>9. MuxesPut'
      BY <1>7, <2>1, <3>1, <3>2, <3>6 DEF Install
    <3> QED
      BY <3>7, <3>8, <3>9, Zenon
  <2> QED
    BY <2>3, <2>4, Zenon
<1>8. CASE Unserve
  BY <1>8, Zenon DEF Unserve, NeedsDrive
<1>9. CASE Cleanup
  <2>1. lock' = NoGen /\ lock = NoGen /\ stopped' /\ runner' = "returned" /\ switch' = switch
    BY <1>9, Zenon DEF Cleanup
  <2>2. \A t \in Switches : switch[t] \notin Inside
    BY <2>1, GensOf, Zenon DEF MsTypes, Switches
  <2>3. bundle'.gen = bundle.gen /\ bundle'.mux = NoGen /\ bundle'.drive = NoGen
    BY <1>9, Zenon DEF Cleanup, MsTypes
  <2>4. tasks' = NoGen /\ config' = config /\ coalesce' = coalesce
    BY <1>9, Zenon DEF Cleanup
  <2> QED
    BY <2>1, <2>2, <2>3, <2>4, Zenon DEF Inside
<1>10. CASE Stop
  BY <1>10, Zenon DEF Stop, NeedsDrive
<1>11. CASE Accept
  BY <1>11, Zenon DEF Accept, LoopRuns, NeedsDrive
<1>12. CASE AcceptEnds
  BY <1>12, Zenon DEF AcceptEnds, NeedsDrive
<1> QED
  BY <1>3, <1>4, <1>5, <1>6, <1>7, <1>8, <1>9, <1>10, <1>11, <1>12
 , Zenon DEF RunStep, ShutdownSeen, AcceptLoopPanics

\* The steps of a switch preserve the rest.
LEMMA SwitchKeeps ==
    ASSUME MsInv, NEW s \in Switches, SwitchStep(s)
    PROVE  InStep' /\ MuxesPut' /\ LookedAt'
<1>1. plan' = plan
  BY SamePlan, Zenon DEF MsNext
<1>2. Switches' = Switches /\ Built(0)' = Built(0)
  BY <1>1, SameGens, Zenon
<1>3. s \in Gens /\ NoGen \notin Gens
  BY GensOf, Zenon DEF Switches, MsInv
<1> USE <1>1, <1>2, <1>3 DEF MsInv, InStep, MuxesPut, LookedAt, Goto, Leave
<1>12. ASSUME NEW t \in Switches, switch[s] \in Inside, switch[t] \in Inside PROVE t = s
  BY <1>12 DEF MsTypes
<1>13. switch[s] \in Inside => lock = s /\ s # NoGen /\ ~stopped
  BY Zenon DEF MsTypes
<1>4. CASE Call(s)
  BY <1>4, ZenonT(60) DEF Call, NeedsDrive, MsTypes
<1>5. CASE EarlyCheck(s)
  BY SMTT(60), <1>5 DEF EarlyCheck, NeedsDrive, MsTypes
<1>6. CASE Build(s)
  BY SMTT(60), <1>6 DEF Build, NeedsDrive, MsTypes
<1>7. CASE LateCheck(s)
  BY <1>7 DEF LateCheck, NeedsDrive, MsTypes, StillUp
<1>8. CASE AbortTasks(s)
  <2>1. /\ switch[s] = "abort" /\ switch' = [switch EXCEPT ![s] = "store"]
        /\ coalesce' = s /\ tasks' = NoGen
        /\ UNCHANGED <<bundle, config, lock, stopped, runner, candidate, accepting, accepted>>
    BY <1>8, Zenon DEF AbortTasks, NewKnobs
  <2>2. lock' = s /\ s # NoGen /\ \A t \in Switches : switch[t] \in Inside => t = s
    BY <2>1, <1>12, <1>13, Zenon DEF Inside
  <2>3. \A t \in Switches : switch'[t] = IF t = s THEN "store" ELSE switch[t]
    BY <2>1, Zenon DEF MsTypes
  <2>4. InStep'
    BY <2>1, <2>2, <2>3 DEF Inside
  <2>5. MuxesPut' /\ LookedAt'
    BY <2>1, <2>2, <1>13, Zenon DEF Inside, NeedsDrive
  <2> QED
    BY <2>4, <2>5, Zenon
<1>9. CASE StoreBundle(s)
  <2>1. /\ switch[s] = "store" /\ switch' = [switch EXCEPT ![s] = "spawn"]
        /\ UNCHANGED <<coalesce, tasks, config, lock, stopped, runner, candidate, accepting, accepted>>
    BY <1>9, Zenon DEF StoreBundle
  <2>2. lock' = s /\ s # NoGen /\ ~stopped /\ \A t \in Switches : switch[t] \in Inside => t = s
    BY <2>1, <1>12, <1>13, Zenon DEF Inside
  <2>3. \A t \in Switches : switch'[t] = IF t = s THEN "spawn" ELSE switch[t]
    BY <2>1, Zenon DEF MsTypes
  <2>4. bundle'.gen = s /\ Usable(bundle')
    BY <1>9, Zenon DEF StoreBundle, Built, Usable, UsesRelay
  <2>5. InStep'
    BY <2>1, <2>2, <2>3, <2>4 DEF Inside
  <2>6. MuxesPut'
    BY <2>1, <2>2, <2>4, Zenon
  <2>7. ~NeedsDrive(bundle')
    BY <2>2, <2>4, Zenon DEF NeedsDrive, Usable
  <2> QED
    BY <2>5, <2>6, <2>7, Zenon
<1>10. CASE StoreConfigAndSpawn(s)
  <2>1. /\ switch[s] = "spawn" /\ switch' = [switch EXCEPT ![s] = "switched"]
        /\ config' = s /\ lock' = NoGen /\ tasks' = IF UsesRelay(plan[s]) THEN s ELSE tasks
        /\ UNCHANGED <<bundle, coalesce, stopped, runner, candidate, accepting, accepted>>
    BY <1>10, Zenon DEF StoreConfigAndSpawn
  <2>2. ~stopped /\ \A t \in Switches : switch[t] \in Inside => t = s
    BY <2>1, <1>12, <1>13, Zenon DEF Inside
  <2>3. \A t \in Switches : switch'[t] = IF t = s THEN "switched" ELSE switch[t]
    BY <2>1, Zenon DEF MsTypes
  <2>4. bundle.gen = s /\ coalesce = s /\ tasks = NoGen /\ Usable(bundle)
    BY <2>1, Zenon
  <2>5. tasks' = bundle.fronter
    BY <2>1, <2>4, Zenon DEF MsTypes
  <2>6. InStep'
    BY <2>1, <2>2, <2>3, <2>4, <2>5 DEF Inside
  <2>7. MuxesPut'
    BY <2>1, <2>2, <2>4, <2>5, Zenon
  <2>8. ~NeedsDrive(bundle)
    BY <1>3, <2>4, Zenon DEF NeedsDrive, Usable
  <2> QED
    BY <2>1, <2>6, <2>7, <2>8, Zenon
<1> QED
  BY <1>4, <1>5, <1>6, <1>7, <1>8, <1>9, <1>10, Zenon DEF SwitchStep, Critical
\* Every step preserves the invariant.
LEMMA MsInvNext == MsInv /\ [MsNext]_msVars => MsInv'
<1> SUFFICES ASSUME MsInv, [MsNext]_msVars PROVE MsInv'
  BY Zenon
<1>1. CASE RunStep \/ AcceptLoopPanics \/ Stop \/ Accept \/ AcceptEnds
  BY <1>1, RunTypes, OneTaskSetStep, RunKeeps, Zenon DEF MsInv, MsNext
<1>2. CASE \E s \in Switches : SwitchStep(s)
  BY <1>2, SwitchTypes, OneTaskSetStep, SwitchKeeps, ZenonT(60) DEF MsInv, MsNext
<1>3. CASE UNCHANGED msVars
  <2>1. /\ plan' = plan /\ Gens' = Gens /\ Switches' = Switches /\ MaybeGen' = MaybeGen
        /\ Built(0)' = Built(0)
    BY <1>3, SameGens, Zenon DEF msVars
  <2> QED
    BY <1>3, <2>1 DEF msVars, MsInv, MsTypes, OneTaskSet, InStep, MuxesPut, LookedAt, NeedsDrive
<1> QED
  BY <1>1, <1>2, <1>3, Zenon DEF MsNext

\* The contract of a started proxy that can be switched and stopped
\* (RuntimeState): while it serves and no switch is half done everything is
\* of one configuration, a connection it accepts gets what its mode needs,
\* nothing of it runs after run() has returned, and run_inner never finds its
\* Drive mux missing - for any number of switches, in any interleaving.
THEOREM SwitchAlwaysSound == MsSpec => []SwitchSound
<1>1. MsInv => SwitchSound
  <2> SUFFICES ASSUME MsInv PROVE SwitchSound
    BY Zenon
  <2> USE DEF MsInv
  <2>1. MsTypeOK
    <3>1. alive \subseteq Gens
      BY Zenon DEF OneTaskSet, MsTypes, MaybeGen
    <3> QED
      BY <3>1, Zenon DEF MsTypes, MsTypeOK, MaybeGen, Inside, Out
  <2>2. OneConfiguration
    BY Zenon DEF OneConfiguration, InStep, MuxesPut, OneTaskSet
  <2>3. AcceptedUsable /\ QuietAfterStop /\ DriveNeverMissing
    BY Zenon DEF AcceptedUsable, QuietAfterStop, DriveNeverMissing, MuxesPut, OneTaskSet
  <2> QED
    BY <2>1, <2>2, <2>3, Zenon DEF SwitchSound
<1> QED
  BY <1>1, MsInvInit, MsInvNext, PTL DEF MsSpec

-----------------------------------------------------------------------------
(* UpdateApply, for any number of crashes, refused renames and failed      *)
(* copies.  Which of the three names holds a build that runs depends on    *)
(* how far the process has come, so the inductive invariant says it place  *)
(* by place: before the first fault the installed build is whole or has    *)
(* just become the backup; after one fault one of the two still is; from   *)
(* the end of the copy to the last rename the staged one is.               *)

Disks == [target : Contents, new : Contents, old : Contents]
UpPlaces == {"running", "extracted", "copying", "staged", "swap", "as_new", "as_new_swap",
           "stays_new", "boot", "late", "late_swap", "down"}

\* The places of the process, the three files and the number of faults.
UpTypes ==
    /\ upSetup \in [platform : UpPlatforms, key : BOOLEAN]
    /\ upPc \in UpPlaces /\ upDisk \in Disks
    /\ upArchive \in {"none", "v2", "unsigned"}
    /\ upFaults \in 0..MaxFaults /\ upTorn \in BOOLEAN

(* Only what was verified is ever on disk, or on its way there.            *)
Verified ==
    upSetup.key => /\ upArchive # "unsigned" /\ upDisk.target # "unsigned"
                   /\ upDisk.new # "unsigned" /\ upDisk.old # "unsigned"

(* What each place of the code may rely on, however many faults there were.*)
ByPlace ==
    /\ upPc \in {"extracted", "copying"} => upArchive \in Whole
    /\ upPc \in {"staged", "swap", "as_new", "as_new_swap"} => upDisk.new \in Whole
    /\ upPc \in {"boot", "late"} => upDisk.target \in Whole
    /\ upPc \in {"late", "late_swap"} => upDisk.new # "none"
    /\ upPc = "late_swap" => upDisk.old \in Whole
    /\ upPc = "stays_new" => upFaults > 0
    /\ upTorn => upFaults > 0
    /\ ~upTorn /\ upPc # "copying" => upDisk.new # "part"

\* Before the first fault the installed build is whole, or has just become the
\* backup.
NoFaultYet ==
    upFaults = 0 =>
        /\ upPc \in {"running", "extracted", "copying", "staged", "as_new", "down"} => upDisk.target \in Whole
        /\ upPc \in {"swap", "as_new_swap"} => upDisk.old \in Whole

\* After one fault a build that runs is still under one of the names.
OneFault ==
    upFaults < 2 /\ ~(On("file") /\ upTorn)
    /\ upPc \in {"running", "extracted", "copying", "staged", "stays_new", "down"}
    => upDisk.target \in Whole \/ upDisk.old \in Whole

UpInv == UpTypes /\ Verified /\ ByPlace /\ NoFaultYet /\ OneFault

(* What a rename and a backup leave under the three names.                 *)
Holds(disk, target, new, old) ==
    disk \in Disks /\ disk.target = target /\ disk.new = new /\ disk.old = old

\* What a rename and a removal leave under the three names.
LEMMA DiskMoves ==
    ASSUME NEW disk \in Disks
    PROVE  /\ Holds(Move(disk, "new", "target"), disk.new, "none", disk.old)
           /\ Holds(Move(disk, "old", "target"), disk.old, disk.new, "none")
           /\ Holds(Move(disk, "target", "old"), "none", disk.new, disk.target)
           /\ Holds([disk EXCEPT !.old = "none"], disk.target, disk.new, "none")
<1>1. "none" \in Contents
  BY Zenon DEF Contents
<1> QED
  BY <1>1, Zenon DEF Disks, Move, Holds

\* A fault happens at most once more than before.
LEMMA FaultCounted ==
    ASSUME UpTypes, Fault
    PROVE  upFaults' = upFaults + 1 /\ upFaults' \in 0..MaxFaults /\ upFaults' > 0
BY UpdateApplyAssumption DEF UpTypes, Fault

\* The installed build is whole when the update starts.
LEMMA UpInvInit == UpInit => UpInv
<1> SUFFICES ASSUME UpInit PROVE UpInv
  BY Zenon
<1>1. upTorn = FALSE /\ upTorn \in BOOLEAN
  BY Zenon DEF UpInit
<1>2. UpTypes
  BY <1>1, UpdateApplyAssumption DEF UpInit, UpTypes, Disks, Contents, Whole, UpPlaces
<1> QED
  BY <1>1, <1>2, Zenon DEF UpInit, UpInv, Verified, ByPlace, NoFaultYet, OneFault, Whole

\* Every rename, copy, crash and restart keeps what is said of its place.
LEMMA UpInvStep == UpInv /\ [UpNext]_upVars => UpInv'
<1> SUFFICES ASSUME UpInv, [UpNext]_upVars PROVE UpInv'
  BY Zenon
<1> USE DEF UpInv, UpTypes, Verified, ByPlace, NoFaultYet, OneFault, On, UpPlaces, Whole, Holds
<1>0. UpTypes
  BY Zenon
<1>1. CASE Download
  <2>1. upArchive' \in {"v2", "unsigned"} /\ (upSetup.key => upArchive' = "v2")
    BY <1>1, Zenon DEF Download, Archive, Accepts
  <2> QED
    BY <1>1, <2>1, Zenon DEF Download
<1>2. CASE StartCopy
  <2>1. Holds(upDisk', upDisk.target, "part", upDisk.old)
    <3>1. "part" \in Contents
      BY <1>2, Zenon DEF StartCopy, Contents
    <3>2. upDisk' = [upDisk EXCEPT !["new"] = "part"]
      BY <1>2, Zenon DEF StartCopy, StagedPath
    <3> QED
      BY <3>1, <3>2, Zenon DEF Disks
  <2> QED
    BY <1>2, <2>1, Zenon DEF StartCopy
<1>3. CASE CopyDone
  <2>1. Holds(upDisk', upDisk.target, upArchive, upDisk.old)
    <3>1. upArchive \in Contents
      BY <1>3, Zenon DEF CopyDone, Contents
    <3>2. upDisk' = [upDisk EXCEPT !["new"] = upArchive]
      BY <1>3, Zenon DEF CopyDone, StagedPath
    <3> QED
      BY <3>1, <3>2, Zenon DEF Disks
  <2> QED
    BY <1>3, <2>1, Zenon DEF CopyDone
<1>4. CASE CopyFails
  <2>1. upTorn' \in BOOLEAN /\ upTorn'
    BY <1>4, Zenon DEF CopyFails
  <2> QED
    BY <1>0, <1>4, <2>1, FaultCounted DEF CopyFails, AfterCopyError
<1>5. CASE SwapFile
  <2>1. CASE UNCHANGED upDisk /\ upPc' = "running" /\ Fault
    BY <1>0, <1>5, <2>1, FaultCounted DEF SwapFile
  <2>2. CASE upDisk' = Move(upDisk, "new", "target") /\ upPc' \in {"boot", "running"} /\ UNCHANGED upFaults
    <3>1. Holds(upDisk', upDisk.new, "none", upDisk.old)
      BY <2>2, DiskMoves, Zenon
    <3> QED
      BY <1>5, <2>2, <3>1, Zenon DEF SwapFile
  <2> QED
    BY <1>5, <2>1, <2>2, Zenon DEF SwapFile
<1>6. ASSUME NEW disk \in Disks
      PROVE  Holds(BackedUp(disk), "none", disk.new, IF disk.target = "none" THEN "none" ELSE disk.target)
  BY DiskMoves DEF BackedUp
<1>7. ASSUME NEW from \in {"staged", "late"}, NEW to, Backup(from, to),
             from = "staged" => to = "swap", from = "late" => to = "late_swap"
      PROVE  UpInv'
  <2>1. CASE upDisk' = BackedUp(upDisk) /\ upPc' = to /\ UNCHANGED upFaults
    <3>1. Holds(upDisk', "none", upDisk.new, IF upDisk.target = "none" THEN "none" ELSE upDisk.target)
      BY <1>6, <2>1, Zenon
    <3> QED
      BY <1>7, <2>1, <3>1 DEF Backup
  <2>2. CASE upDisk' = [upDisk EXCEPT !.old = "none"] /\ upPc' = "running" /\ Fault
    <3>1. Holds(upDisk', upDisk.target, upDisk.new, "none")
      BY <2>2, DiskMoves, Zenon
    <3> QED
      BY <1>0, <1>7, <2>2, <3>1, FaultCounted DEF Backup
  <2> QED
    BY <1>7, <2>1, <2>2, Zenon DEF Backup
<1>8. CASE SwapBundle
  <2>1. CASE UNCHANGED upDisk /\ upPc' = "running" /\ Fault
    BY <1>0, <1>8, <2>1, FaultCounted DEF SwapBundle
  <2>2. CASE upDisk' = Move(upDisk, "new", "target") /\ upPc' \in {"boot", "running"} /\ UNCHANGED upFaults
    <3>1. Holds(upDisk', upDisk.new, "none", upDisk.old)
      BY <2>2, DiskMoves, Zenon
    <3> QED
      BY <1>8, <2>2, <3>1, Zenon DEF SwapBundle
  <2> QED
    BY <1>8, <2>1, <2>2, Zenon DEF SwapBundle
<1>9. CASE SpawnNew
  BY <1>9, Zenon DEF SpawnNew
<1>10. CASE FinalizeBackup
  <2>1. CASE upDisk' = BackedUp(upDisk) /\ upPc' = "as_new_swap" /\ UNCHANGED upFaults
    <3>1. Holds(upDisk', "none", upDisk.new, IF upDisk.target = "none" THEN "none" ELSE upDisk.target)
      BY <1>6, <2>1, Zenon
    <3> QED
      BY <1>10, <2>1, <3>1, Zenon DEF FinalizeBackup
  <2>2. CASE upDisk' = [upDisk EXCEPT !.old = "none"] /\ upPc' = "stays_new" /\ Fault
    <3>1. Holds(upDisk', upDisk.target, upDisk.new, "none")
      BY <2>2, DiskMoves, Zenon
    <3> QED
      BY <1>0, <1>10, <2>2, <3>1, FaultCounted DEF FinalizeBackup
  <2> QED
    BY <1>10, <2>1, <2>2, Zenon DEF FinalizeBackup
<1>11. CASE FinalizeSwap
  <2>1. CASE UNCHANGED upDisk /\ upPc' = "stays_new" /\ Fault
    BY <1>0, <1>11, <2>1, FaultCounted DEF FinalizeSwap
  <2>2. CASE upDisk' = Move(upDisk, "new", "target") /\ upPc' \in {"boot", "down"} /\ UNCHANGED upFaults
    <3>1. Holds(upDisk', upDisk.new, "none", upDisk.old)
      BY <2>2, DiskMoves, Zenon
    <3> QED
      BY <1>11, <2>2, <3>1, Zenon DEF FinalizeSwap
  <2> QED
    BY <1>11, <2>1, <2>2, Zenon DEF FinalizeSwap
<1>12. CASE Launch
  BY <1>12, Zenon DEF Launch
<1>13. CASE Boot
  <2>1. /\ Cleaned(upDisk) \in Disks
        /\ Cleaned(upDisk).target = upDisk.target /\ Cleaned(upDisk).new = upDisk.new
        /\ Cleaned(upDisk).old \in {"none", upDisk.old}
    BY DiskMoves, Zenon DEF Cleaned
  <2>2. Holds(Move(Cleaned(upDisk), "new", "target"), upDisk.new, "none", Cleaned(upDisk).old)
    BY <2>1, DiskMoves, Zenon
  <2>3. CASE On("windows") \/ upDisk.new = "none"
    BY <1>13, <2>1, <2>3, ZenonT(60) DEF Boot
  <2>4. CASE ~(On("windows") \/ upDisk.new = "none") /\ On("bundle")
    BY <1>13, <2>4, Zenon DEF Boot
  <2>5. CASE ~(On("windows") \/ upDisk.new = "none") /\ ~On("bundle")
    <3>1. CASE upDisk' = Move(Cleaned(upDisk), "new", "target") /\ upPc' = "running" /\ UNCHANGED upFaults
      <4>1. On("file")
        BY <2>5, Zenon DEF UpPlatforms
      <4>2. upDisk.new # "none" /\ Holds(upDisk', upDisk.new, "none", Cleaned(upDisk).old)
        BY <2>2, <2>5, <3>1, Zenon
      <4> QED
        BY <1>13, <2>1, <3>1, <4>1, <4>2 DEF Boot, Disks, Contents
    <3>2. CASE upDisk' = Cleaned(upDisk) /\ upPc' = "running" /\ Fault
      BY <1>0, <1>13, <2>1, <3>2, FaultCounted, Zenon DEF Boot
    <3> QED
      BY <1>13, <2>5, <3>1, <3>2, Zenon DEF Boot
  <2> QED
    BY <2>3, <2>4, <2>5, Zenon
<1>14. CASE LateSwap
  <2>1. CASE upDisk' = Move(upDisk, "new", "target") /\ UNCHANGED upFaults
    <3>1. Holds(upDisk', upDisk.new, "none", upDisk.old)
      BY <2>1, DiskMoves, Zenon
    <3>2. upDisk.new \in Contents
      BY Zenon DEF Disks
    <3> QED
      BY <1>14, <2>1, <3>1, <3>2 DEF LateSwap, Contents
  <2>2. CASE upDisk' = Rollback(upDisk) /\ Fault
    <3>1. Holds(upDisk', upDisk.old, upDisk.new, "none")
      BY <1>14, <2>2, DiskMoves, Zenon DEF Rollback, LateSwap
    <3> QED
      BY <1>0, <1>14, <2>2, <3>1, FaultCounted, Zenon DEF LateSwap
  <2>3. CASE UNCHANGED upDisk /\ upFaults + 2 <= MaxFaults /\ upFaults' = upFaults + 2
    <3>1. upFaults' \in 0..MaxFaults /\ upFaults' > 1
      BY SMTT(60), <2>3, UpdateApplyAssumption
    <3> QED
      BY <1>14, <2>3, <3>1 DEF LateSwap
  <2> QED
    BY <1>14, <2>1, <2>2, <2>3, Zenon DEF LateSwap
<1>15. CASE Quit
  BY SMTT(60), <1>15 DEF Quit
<1>16. CASE Dies
  <2>1. upTorn' \in BOOLEAN /\ (upTorn' <=> upTorn \/ upPc = "copying")
    BY <1>16, Zenon DEF Dies
  <2> QED
    BY <1>0, <1>16, <2>1, FaultCounted DEF Dies
<1>17. CASE UNCHANGED upVars
  BY <1>17 DEF upVars
<1> QED
  BY <1>1, <1>2, <1>3, <1>4, <1>5, <1>7, <1>8, <1>9, <1>10, <1>11, <1>12, <1>13, <1>14, <1>15, <1>16,
     <1>17, Zenon DEF UpNext

\* So it holds throughout an update.
LEMMA UpInvHolds == UpSpec => []UpInv
BY UpInvInit, UpInvStep, PTL DEF UpSpec

(* Whatever is interrupted, refused or torn, in any number: a build with a *)
(* public key leaves only verified builds on disk, and unless two faults   *)
(* come together a complete build is always under one of the three names   *)
(* (download_and_stage, restart_to_apply, finalize_pending_at_startup).    *)
THEOREM UpdateAlwaysSound == UpSpec => []UpdateSound
<1>1. UpInv => UpdateSound
  <2> SUFFICES ASSUME UpInv PROVE UpdateSound
    BY Zenon
  <2>1. UpTypeOK
    BY Zenon DEF UpInv, UpTypes, UpTypeOK, Disks, UpPlaces, ByPlace
  <2>2. SignedOnly
    BY Zenon DEF UpInv, UpTypes, Disks, Verified, SignedOnly
  <2>3. OneFaultRecoverable
    <3>1. DOMAIN upDisk = {"target", "new", "old"} /\ upFaults \in Nat /\ upPc \in UpPlaces
      BY UpdateApplyAssumption DEF UpInv, UpTypes, Disks
    <3>2. upFaults > 1 \/ (On("file") /\ upTorn) \/ \E f \in {"target", "new", "old"} : upDisk[f] \in Whole
      <4> SUFFICES ASSUME upFaults < 2, ~(On("file") /\ upTorn)
                   PROVE  upDisk["target"] \in Whole \/ upDisk["new"] \in Whole \/ upDisk["old"] \in Whole
        BY <3>1
      <4> QED
        BY <3>1, Zenon DEF UpInv, UpTypes, Disks, ByPlace, OneFault, UpPlaces
    <3> QED
      BY <3>1, <3>2, Zenon DEF OneFaultRecoverable
  <2> QED
    BY <2>1, <2>2, <2>3, Zenon DEF UpdateSound
<1> QED
  BY <1>1, UpInvHolds, PTL

(* A pending bundle that cannot be moved into place at start-up leaves a   *)
(* bundle under the installed name, after any history of earlier faults    *)
(* (late_apply_macos_bundle).                                              *)
THEOREM LateApplySafe == UpSpec => [][LateApplyKeepsTarget]_upVars
<1>1. UpInv /\ [UpNext]_upVars => [LateApplyKeepsTarget]_upVars
  <2> SUFFICES ASSUME UpInv, UpNext, upPc = "late_swap", upPc' = "running", upFaults' < 2
               PROVE  upDisk'.target # "none"
    BY Zenon DEF LateApplyKeepsTarget
  <2>1. LateSwap
    BY Zenon DEF UpNext, Download, StartCopy, CopyDone, CopyFails, SwapFile, Backup, SwapBundle, SpawnNew,
           FinalizeBackup, FinalizeSwap, Launch, Boot, Quit, Dies
  <2>2. upDisk \in Disks /\ upDisk.new # "none" /\ upDisk.old # "none" /\ upFaults \in Nat
    BY UpdateApplyAssumption DEF UpInv, UpTypes, ByPlace, Whole
  <2>3. upDisk' = Move(upDisk, "new", "target") \/ upDisk' = Move(upDisk, "old", "target")
    BY <2>1, <2>2 DEF LateSwap, Rollback
  <2> QED
    BY ZenonT(60), <2>2, <2>3, DiskMoves DEF Holds
<1> QED
  BY <1>1, UpInvHolds, PTL DEF UpSpec

-----------------------------------------------------------------------------
(* TokenCache, for any set of workers and any number of calls and          *)
(* expiries.  OneRefreshPerExpiry is not inductive: that a second refresh  *)
(* cannot follow the first without an expiry in between rests on the       *)
(* mutex, so the invariant counts exactly (minted is expired plus one      *)
(* while a fresh token is cached) and says that nobody refreshes, mutex in *)
(* hand, while a fresh token is cached.                                    *)

\* The types of a worker, of the cached token and of the counters.
TkTypes ==
    /\ tkSide \in {"relay", "client"}
    /\ tkPc \in [Workers -> {"idle", "wait", "refresh"}]
    /\ tkCached \in {"none", "fresh", "stale"}
    /\ tkDead \in BOOLEAN /\ tkLatch \in BOOLEAN
    /\ tkOwed \subseteq Workers
    /\ tkExpired \in 0..MaxExpiries /\ tkMinted \in Nat /\ tkCalls \in 0..MaxCalls

\* The mutex is with whoever refreshes.
Holder == tkLock = {w \in Workers : tkPc[w] = "refresh"}
AtMostOne == \A v, w \in tkLock : v = w
Exact == tkMinted = IF tkCached = "fresh" THEN tkExpired + 1 ELSE tkExpired
NoneRefreshesFresh == tkCached = "fresh" => tkLock = {}

(* The inductive invariant.                                                *)
TkInv == TkTypes /\ Holder /\ AtMostOne /\ Exact /\ NoneRefreshesFresh

-----------------------------------------------------------------------------
(* A returning worker releases the mutex, and it was the only one that     *)
(* held it (the guard of TokenCache::get is dropped).                      *)
LEMMA ReturnReleases ==
    ASSUME TkInv, NEW w \in Workers, tkPc[w] = "refresh", Return(w)
    PROVE  /\ tkPc' \in [Workers -> {"idle", "wait", "refresh"}]
           /\ tkLock' = {} /\ Holder'
<1>1. tkLock = {w}
  BY Zenon DEF TkInv, TkTypes, Holder, AtMostOne
<1>2. tkLock' = {}
  BY <1>1, Zenon DEF Return
<1>3. tkPc' \in [Workers -> {"idle", "wait", "refresh"}]
  BY Zenon DEF TkInv, TkTypes, Return
<1>4. \A v \in Workers : tkPc'[v] # "refresh"
  BY <1>1, Zenon DEF TkInv, TkTypes, Holder, Return
<1> QED
  BY <1>2, <1>3, <1>4, Zenon DEF Holder

(* Every step of get(), an expiry and a revocation keep the invariant.     *)
LEMMA TkInvStep == TkInv /\ [TkNext]_tkVars => TkInv'
<1> SUFFICES ASSUME TkInv, [TkNext]_tkVars PROVE TkInv'
  BY Zenon
<1> USE TokenCacheAssumption
<1>1. ASSUME NEW w \in Workers, GetToken(w) PROVE TkInv'
  <2>1. TkTypes'
    BY <1>1 DEF TkInv, TkTypes, GetToken
  <2>2. \A v \in Workers : (tkPc'[v] = "refresh") <=> (tkPc[v] = "refresh")
    BY <1>1, Zenon DEF TkInv, TkTypes, GetToken
  <2>3. Holder'
    BY <1>1, <2>2, Zenon DEF TkInv, Holder, GetToken
  <2> QED
    BY <1>1, <2>1, <2>3, Zenon DEF TkInv, AtMostOne, Exact, NoneRefreshesFresh, GetToken
<1>2. ASSUME NEW w \in Workers, Locked(w) PROVE TkInv'
  <2>1. TkTypes'
    BY <1>2, Zenon DEF TkInv, TkTypes, Locked
  <2>2. CASE NeedsRefresh
    <3>1. tkLock' = {w} /\ tkPc' = [tkPc EXCEPT ![w] = "refresh"]
      BY <1>2, <2>2, Zenon DEF Locked
    <3>2. \A v \in Workers : tkPc[v] # "refresh"
      BY <1>2, Zenon DEF TkInv, Holder, Locked
    <3>3. Holder'
      BY <3>1, <3>2, Zenon DEF TkInv, TkTypes, Holder
    <3> QED
      BY <1>2, <2>1, <2>2, <3>1, <3>3
     , Zenon DEF TkInv, AtMostOne, Exact, NoneRefreshesFresh, NeedsRefresh, Locked
  <2>3. CASE ~NeedsRefresh
    <3>1. tkLock' = tkLock /\ tkLock = {} /\ tkPc' = [tkPc EXCEPT ![w] = "idle"]
      BY <1>2, <2>3, Zenon DEF Locked
    <3>2. Holder'
      BY <3>1, Zenon DEF TkInv, TkTypes, Holder
    <3> QED
      BY <1>2, <2>1, <3>1, <3>2, Zenon DEF TkInv, AtMostOne, Exact, NoneRefreshesFresh, Locked
  <2> QED
    BY <2>2, <2>3, Zenon
<1>3. ASSUME NEW w \in Workers, Refreshed(w) PROVE TkInv'
  <2>1. /\ tkPc' \in [Workers -> {"idle", "wait", "refresh"}]
        /\ tkLock' = {} /\ Holder'
    BY <1>3, ReturnReleases, Zenon DEF Refreshed
  <2>2. tkCached # "fresh"
    BY <1>3, Zenon DEF TkInv, Holder, NoneRefreshesFresh, Refreshed
  <2>3. TkTypes'
    BY <1>3, <2>1 DEF TkInv, TkTypes, Refreshed
  <2>4. Exact'
    BY <1>3, <2>2, Zenon DEF TkInv, TkTypes, Exact, Refreshed
  <2> QED
    BY <2>1, <2>3, <2>4, Zenon DEF TkInv, AtMostOne, NoneRefreshesFresh
<1>4. ASSUME NEW w \in Workers, RefusedAsRevoked(w) PROVE TkInv'
  <2>1. /\ tkPc' \in [Workers -> {"idle", "wait", "refresh"}]
        /\ tkLock' = {} /\ Holder'
    BY <1>4, ReturnReleases, Zenon DEF RefusedAsRevoked
  <2>2. tkLatch' \in BOOLEAN
    BY <1>4, Zenon DEF RefusedAsRevoked
  <2>3. TkTypes'
    BY <1>4, <2>1, <2>2, Zenon DEF TkInv, TkTypes, RefusedAsRevoked
  <2> QED
    BY <1>4, <2>1, <2>3, Zenon DEF TkInv, AtMostOne, Exact, NoneRefreshesFresh, RefusedAsRevoked
<1>5. ASSUME NEW w \in Workers, RefreshFails(w) PROVE TkInv'
  <2>1. /\ tkPc' \in [Workers -> {"idle", "wait", "refresh"}]
        /\ tkLock' = {} /\ Holder'
    BY <1>5, ReturnReleases, Zenon DEF RefreshFails
  <2>2. TkTypes'
    BY <1>5, <2>1, Zenon DEF TkInv, TkTypes, RefreshFails
  <2> QED
    BY <1>5, <2>1, <2>2, Zenon DEF TkInv, AtMostOne, Exact, NoneRefreshesFresh, RefreshFails
<1>6. CASE NearExpiry
  BY <1>6 DEF TkInv, TkTypes, Holder, AtMostOne, Exact, NoneRefreshesFresh, NearExpiry
<1>7. CASE Revoked
  BY <1>7, Zenon DEF TkInv, TkTypes, Holder, AtMostOne, Exact, NoneRefreshesFresh, Revoked
<1>8. CASE UNCHANGED tkVars
  BY <1>8, Zenon DEF TkInv, TkTypes, Holder, AtMostOne, Exact, NoneRefreshesFresh, tkVars
<1> QED
  BY <1>1, <1>2, <1>3, <1>4, <1>5, <1>6, <1>7, <1>8, Zenon DEF TkNext, GetStep

(* The first state satisfies the invariant: nothing cached, nobody inside. *)
LEMMA TkInvInit == TkInit => TkInv
<1> SUFFICES ASSUME TkInit PROVE TkInv
  BY Zenon
<1>1. tkDead \in BOOLEAN /\ tkLatch \in BOOLEAN
  BY Zenon DEF TkInit
<1>2. tkPc \in [Workers -> {"idle", "wait", "refresh"}]
  BY Zenon DEF TkInit
<1>3. tkExpired \in 0..MaxExpiries /\ tkMinted \in Nat /\ tkCalls \in 0..MaxCalls
  BY TokenCacheAssumption DEF TkInit
<1>4. TkTypes
  BY <1>1, <1>2, <1>3, Zenon DEF TkInit, TkTypes
<1>5. \A w \in Workers : tkPc[w] # "refresh"
  BY Zenon DEF TkInit
<1>6. Holder /\ AtMostOne
  BY <1>5, Zenon DEF TkInit, Holder, AtMostOne
<1>7. Exact /\ NoneRefreshesFresh
  BY Zenon DEF TkInit, Exact, NoneRefreshesFresh
<1> QED
  BY <1>4, <1>6, <1>7, Zenon DEF TkInv

(* However many workers call TokenCache::get at once, Google is asked for  *)
(* at most one access token more than tokens came near their expiry, and   *)
(* the mutex is held exactly by the worker that asks.                      *)
THEOREM RefreshedOncePerExpiry == TkSpec => []TokenSound
<1>1. TkInv => OneRefreshPerExpiry
  BY DEF TkInv, TkTypes, Exact, OneRefreshPerExpiry
<1>2. TkInv => TkTypeOK
  <2> SUFFICES ASSUME TkInv PROVE TkTypeOK
    BY Zenon
  <2>1. tkMinted \in 0..(MaxExpiries + 1)
    BY TokenCacheAssumption DEF TkInv, TkTypes, Exact
  <2> QED
    BY <2>1, Zenon DEF TkInv, TkTypes, Holder, TkTypeOK
<1> QED
  BY <1>1, <1>2, TkInvInit, TkInvStep, PTL DEF TkSpec, TokenSound

-----------------------------------------------------------------------------
(* Who may still present a token that the relay knows to be dead: only the *)
(* relay latches, and every call that waits behind a set latch is owed.    *)
LatchInv ==
    /\ tkPc \in [Workers -> {"idle", "wait", "refresh"}]
    /\ tkLatch => tkSide = "relay" /\ \A w \in Workers : tkPc[w] = "wait" => w \in tkOwed

\* No step of a worker, and no expiry, takes the latch back.
LEMMA LatchInvStep == LatchInv /\ [TkNext]_tkVars => LatchInv'
<1> SUFFICES ASSUME LatchInv, [TkNext]_tkVars PROVE LatchInv'
  BY Zenon
<1>1. ASSUME NEW w \in Workers, GetToken(w) PROVE LatchInv'
  BY <1>1, Zenon DEF LatchInv, GetToken, Latched
<1>2. ASSUME NEW w \in Workers, Locked(w) PROVE LatchInv'
  BY <1>2, Zenon DEF LatchInv, Locked
<1>3. ASSUME NEW w \in Workers, Refreshed(w) PROVE LatchInv'
  BY <1>3, Zenon DEF LatchInv, Refreshed, Return
<1>4. ASSUME NEW w \in Workers, RefusedAsRevoked(w) PROVE LatchInv'
  <2>1. tkPc' \in [Workers -> {"idle", "wait", "refresh"}]
    BY <1>4, Zenon DEF LatchInv, RefusedAsRevoked, Return
  <2>2. \A v \in Workers : tkPc'[v] = "wait" => tkPc[v] = "wait"
    BY <1>4, Zenon DEF LatchInv, RefusedAsRevoked, Return
  <2>3. \A v \in Workers : tkPc[v] = "wait" => v \in tkOwed'
    BY <1>4, Zenon DEF LatchInv, RefusedAsRevoked
  <2>4. tkLatch' => tkSide' = "relay"
    BY <1>4, Zenon DEF RefusedAsRevoked
  <2> QED
    BY <2>1, <2>2, <2>3, <2>4, Zenon DEF LatchInv
<1>5. ASSUME NEW w \in Workers, RefreshFails(w) PROVE LatchInv'
  BY <1>5, Zenon DEF LatchInv, RefreshFails, Return
<1>6. CASE NearExpiry
  BY <1>6, Zenon DEF LatchInv, NearExpiry
<1>7. CASE Revoked
  BY <1>7, Zenon DEF LatchInv, Revoked
<1>8. CASE UNCHANGED tkVars
  BY <1>8, Zenon DEF LatchInv, tkVars
<1> QED
  BY <1>1, <1>2, <1>3, <1>4, <1>5, <1>6, <1>7, <1>8, Zenon DEF TkNext, GetStep

(* Once the relay has latched that the token is dead, only a call that was *)
(* already past the latch asks Google again, and it does so once.          *)
THEOREM DeadTokenBounded == TkSpec => [][DeadTokenOnlyFromWaiters]_tkVars
<1>1. TkInit => LatchInv
  BY Zenon DEF TkInit, LatchInv
<1>2. LatchInv /\ [TkNext]_tkVars => [DeadTokenOnlyFromWaiters]_tkVars
  <2> SUFFICES ASSUME LatchInv, TkNext, NEW w \in Workers, tkLatch,
                      tkPc[w] # "refresh", tkPc'[w] = "refresh"
               PROVE  w \in tkOwed /\ w \notin tkOwed'
    BY Zenon DEF DeadTokenOnlyFromWaiters
  <2>1. ASSUME NEW v \in Workers, GetToken(v) PROVE FALSE
    BY <2>1, Zenon DEF LatchInv, GetToken
  <2>2. ASSUME NEW v \in Workers, Locked(v) PROVE w \in tkOwed /\ w \notin tkOwed'
    BY <2>2, Zenon DEF LatchInv, Locked
  <2>3. ASSUME NEW v \in Workers, Refreshed(v) \/ RefusedAsRevoked(v) \/ RefreshFails(v)
        PROVE  FALSE
    BY <2>3, Zenon DEF LatchInv, Refreshed, RefusedAsRevoked, RefreshFails, Return
  <2>4. CASE NearExpiry \/ Revoked
    BY <2>4, Zenon DEF NearExpiry, Revoked
  <2> QED
    BY <2>1, <2>2, <2>3, <2>4, Zenon DEF TkNext, GetStep
<1> QED
  BY <1>1, <1>2, LatchInvStep, PTL DEF TkSpec

-----------------------------------------------------------------------------
(* The relay of a request.  What one request's stage, attempt, legs, sends *)
(* and maybe have to do with each other is stated of their values (Good),  *)
(* so that a step is one lemma about values and the frame around it.       *)

Flags == BOOLEAN
Stages == {"new", "exit", "cache", "join", "wait", "fetch", "flying", "done"}
LegStates == {"unused", "h2", "h1", "ok"} \union Lost

\* What a leg may have sent, and what a request may have sent at each stage.
Cost(leg) == IF leg \in {"unused", "h2"} THEN 0 ELSE IF leg = "h1" THEN 1 ELSE 2
Spent(st, at, l1, l2) ==
  IF st = "new" THEN 0
  ELSE IF st = "exit" THEN IF l1 \in {"h2", "h1"} THEN 0 ELSE 1
  ELSE IF st = "flying" THEN 1 + Cost(l1) + Cost(l2) + 2 * (at - 1)
  ELSE IF st = "done" THEN 5 ELSE 1

\* An unsafe request that may have been processed has no leg that could send it,
\* and the only leg it had ended in the error that is not retried.
Good(unsafe, st, at, l1, l2, s, m) ==
  /\ st \notin {"exit", "flying"} => l1 = "unused" /\ l2 = "unused"
  /\ st = "exit" \/ unsafe \/ at = 2 => l2 = "unused"
  /\ st = "flying" => at >= 1
  /\ unsafe /\ m => st \in {"exit", "flying", "done"} /\ (st # "done" => l1 = "nonretryable")
  /\ s <= Spent(st, at, l1, l2)

\* The request may be sent: no earlier attempt may have been processed, or it is safe.
Sendable(unsafe, m) == ~(unsafe /\ m)

\* What a step of a leg does to it, to the number of sends and to maybe.
LegMove(unsafe, st, from, to, s, n, m, b) ==
  \/ from = "h2" /\ to = "h1" /\ n = s /\ b = m
  \/ /\ from = "h2" /\ n = s + 1 /\ b = TRUE
     /\ to = IF st = "flying" /\ ~unsafe THEN "h1" ELSE "nonretryable"
  \/ from \in {"h2", "h1"} /\ to \in {"ok", "retryable"} /\ n = s + 1 /\ b = m
  \/ from = "h1" /\ to = "retryable" /\ n \in {s, s + 1} /\ b = m

\* A step of the first leg keeps the values of a request in order, and sends nothing
\* that may have run.
LEMMA FirstLegGood ==
  ASSUME NEW u \in Flags, NEW st \in Stages, NEW at \in 0..2, NEW l1 \in LegStates,
         NEW l2 \in LegStates, NEW s \in Nat, NEW m \in Flags,
         NEW to \in LegStates, NEW n \in Nat, NEW b \in Flags,
         Good(u, st, at, l1, l2, s, m), LegMove(u, st, l1, to, s, n, m, b)
  PROVE  Good(u, st, at, to, l2, n, b) /\ Sendable(u, m)
<1>1. Good(u, st, at, to, l2, n, b)
  BY SMT DEF Good, LegMove, Spent, Cost, Stages, LegStates, Lost, Flags
<1>2. ASSUME u /\ m PROVE FALSE
  <2>1. l1 \notin {"h2", "h1"}
    BY <1>2, Zenon DEF Good
  <2> QED
    BY <2>1, Zenon DEF LegMove
<1> QED
  BY <1>1, <1>2, Zenon DEF Sendable

\* The same for the second leg, the one of a fan-out.
LEMMA SecondLegGood ==
  ASSUME NEW u \in Flags, NEW st \in Stages, NEW at \in 0..2, NEW l1 \in LegStates,
         NEW l2 \in LegStates, NEW s \in Nat, NEW m \in Flags,
         NEW to \in LegStates, NEW n \in Nat, NEW b \in Flags,
         Good(u, st, at, l1, l2, s, m), LegMove(u, st, l2, to, s, n, m, b)
  PROVE  Good(u, st, at, l1, to, n, b) /\ Sendable(u, m)
<1>1. Good(u, st, at, l1, to, n, b)
  BY SMT DEF Good, LegMove, Spent, Cost, Stages, LegStates, Lost, Flags
<1>2. ASSUME u /\ m PROVE FALSE
  <2>1. l2 \notin {"h2", "h1"}
    BY <1>2, Zenon DEF Good
  <2> QED
    BY <2>1, Zenon DEF LegMove
<1> QED
  BY <1>1, <1>2, Zenon DEF Sendable

\* Moving on before anything is sent keeps the values of a request in order.
LEMMA EarlyGood ==
  ASSUME NEW u \in Flags, NEW st \in {"cache", "join", "wait"}, NEW at \in 0..2, NEW l1 \in LegStates,
         NEW l2 \in LegStates, NEW s \in Nat, NEW m \in Flags, NEW to \in {"join", "wait", "fetch", "done"},
         Good(u, st, at, l1, l2, s, m)
  PROVE  Good(u, to, at, l1, l2, s, m)
  BY SMT DEF Good, Spent, Flags

\* So do the moves of relay, of the dispatch, of the retry and of the end.
LEMMA StageKeepsGood ==
  ASSUME NEW u \in Flags, NEW st \in Stages, NEW at \in 0..2, NEW l1 \in LegStates,
         NEW l2 \in LegStates, NEW s \in Nat, NEW m \in Flags,
         Good(u, st, at, l1, l2, s, m)
  PROVE  /\ st = "new" => Good(u, "exit", at, "h2", l2, s, m) /\ Good(u, "cache", at, l1, l2, s, m)
         /\ st = "fetch" => /\ Good(u, "flying", 1, "h2", "unused", s, m)
                            /\ ~u => Good(u, "flying", 1, "h2", "h2", s, m)
         /\ st = "exit" => /\ Good(u, "done", at, "unused", "unused", s, m)
                           /\ l1 = "retryable" => Good(u, "cache", at, "unused", "unused", s, m)
         /\ st = "flying" => /\ Good(u, "done", at, "unused", "unused", s, m)
                             /\ l1 = "retryable" /\ l2 = "unused" /\ at = 1 => Good(u, "flying", 2, "h2", l2, s, m)
<1>1. st = "new" => Good(u, "exit", at, "h2", l2, s, m) /\ Good(u, "cache", at, l1, l2, s, m)
  BY SMT DEF Good, Spent, Cost, Flags
<1>3. st = "fetch" => /\ Good(u, "flying", 1, "h2", "unused", s, m)
                      /\ ~u => Good(u, "flying", 1, "h2", "h2", s, m)
  BY SMT DEF Good, Spent, Cost, Flags
<1>4. st = "exit" => /\ Good(u, "done", at, "unused", "unused", s, m)
                     /\ l1 = "retryable" => Good(u, "cache", at, "unused", "unused", s, m)
  BY SMT DEF Good, Spent, Flags
<1>2. st = "flying" => /\ Good(u, "done", at, "unused", "unused", s, m)
                       /\ l1 = "retryable" /\ l2 = "unused" /\ at = 1 => Good(u, "flying", 2, "h2", l2, s, m)
  BY SMT DEF Good, Spent, Cost, Stages, LegStates, Lost, Flags
<1> QED
  BY <1>1, <1>2, <1>3, <1>4, Zenon

-----------------------------------------------------------------------------
Kinds ==
  /\ req \in Mixes
  /\ stage \in [Reqs -> Stages] /\ attempt \in [Reqs -> 0..2]
  /\ legs \in [Reqs -> [Leg -> LegStates]]
  /\ sends \in [Reqs -> Nat] /\ maybe \in [Reqs -> Flags] /\ DOMAIN answer = Reqs

GoodNow(r) == Good(req[r].unsafe, stage[r], attempt[r], legs[r][1], legs[r][2], sends[r], maybe[r])

Flights ==
  /\ DOMAIN inflight = Keys
  /\ \A k \in Keys : inflight[k] = {} \/ \E r \in Reqs : inflight[k] = {r}
  /\ \A r \in Reqs : stage[r] \in {"join", "wait"} => Coalescible(r)
  /\ InflightLive

\* An answer that was fetched for a key, and has been fetched.
Mine(v, k, n, own) == v \in 1..n /\ own[v] = k

Values ==
  /\ fetched \in 0..MaxFetch /\ DOMAIN owner = 1..MaxFetch
  /\ cache \in [Keys -> Nat]
  /\ \A r \in Reqs : stage[r] = "exit" => req[r].exit
  /\ \A k \in Keys : cache[k] = 0 \/ Mine(cache[k], k, fetched, owner)
  /\ \A r \in Reqs : Coalescible(r) /\ ~req[r].exit /\ answer[r].st = "ok"
                    => Mine(answer[r].val, req[r].key, fetched, owner)

RlInv == Kinds /\ (\A r \in Reqs : GoodNow(r)) /\ Flights /\ Values

\* The values of a request.
LEMMA RequestValues ==
  ASSUME Kinds, NEW r \in Reqs
  PROVE  /\ req[r].unsafe \in Flags /\ req[r].exit \in BOOLEAN
         /\ Coalescible(r) => req[r].key \in Keys
         /\ stage[r] \in Stages /\ attempt[r] \in 0..2 /\ legs[r] \in [Leg -> LegStates]
         /\ legs[r][1] \in LegStates /\ legs[r][2] \in LegStates
         /\ sends[r] \in Nat /\ maybe[r] \in Flags
<1>1. req[r].unsafe \in Flags /\ req[r].exit \in BOOLEAN /\ req[r].key \in Keys \union {"none"}
  BY RelayAssumption, Zenon DEF RelayAssumption, Kinds, Reqs, Flags
<1>2. Coalescible(r) => req[r].key \in Keys
  BY <1>1, Zenon DEF Coalescible
<1>3. 1 \in Leg /\ 2 \in Leg
  BY SMT DEF Leg
<1>4. legs[r] \in [Leg -> LegStates]
  BY Zenon DEF Kinds
<1>5. legs[r][1] \in LegStates /\ legs[r][2] \in LegStates
  BY <1>3, <1>4, Zenon
<1> QED
  BY <1>1, <1>2, <1>4, <1>5, Zenon DEF Kinds

\* A leg falls back, is answered or fails (do_relay_once_with).
LEMMA LegKeeps ==
  ASSUME RlInv, NEW r \in Reqs, LegStep(r)
  PROVE  RlInv' /\ NoReplayAfterMaybe
<1> DEFINE Step(l, to, n, b) ==
      /\ legs' = [legs EXCEPT ![r][l] = to] /\ sends' = [sends EXCEPT ![r] = n]
      /\ maybe' = [maybe EXCEPT ![r] = b]
      /\ LegMove(req[r].unsafe, stage[r], legs[r][l], to, sends[r], n, maybe[r], b)
<1>1. Kinds /\ GoodNow(r)
  BY Zenon DEF RlInv
<1>2. UNCHANGED <<req, stage, attempt, answer, inflight, cache, fetched, owner>>
  BY Zenon DEF LegStep, H2NotSent, H2SentFailed, LegAnswered, H1Failed
<1>3. \E l \in Leg, to \in LegStates, n \in Nat, b \in Flags : Step(l, to, n, b)
  <2>1. sends[r] \in Nat /\ sends[r] + 1 \in Nat /\ maybe[r] \in Flags
    BY SMT, <1>1, RequestValues
  <2>2. sends' = sends => sends' = [sends EXCEPT ![r] = sends[r]]
    BY <1>1, Zenon DEF Kinds
  <2>3. maybe' = maybe => maybe' = [maybe EXCEPT ![r] = maybe[r]]
    BY <1>1, Zenon DEF Kinds
  <2>4. {"h1", "ok", "retryable", "nonretryable"} \subseteq LegStates
    BY Zenon DEF LegStates, Lost
  <2>5. PICK l \in Leg : \/ H2NotSent(r, l)
                         \/ H2SentFailed(r, l)
                         \/ \E ok \in BOOLEAN : LegAnswered(r, l, ok)
                         \/ \E sent \in BOOLEAN : H1Failed(r, l, sent)
    BY Zenon DEF LegStep
  <2>6. CASE H2NotSent(r, l)
    <3>1. Step(l, "h1", sends[r], maybe[r])
      BY <2>2, <2>3, <2>6, Zenon DEF H2NotSent, LegMove
    <3> QED
      BY <2>1, <2>4, <3>1, Zenon
  <2>7. CASE H2SentFailed(r, l)
    <3>1. Step(l, IF MayFallBack(r) THEN "h1" ELSE "nonretryable", sends[r] + 1, TRUE)
      BY <2>7, Zenon DEF H2SentFailed, LegMove, MayFallBack
    <3>3. TRUE \in Flags
      BY Zenon DEF Flags
    <3>2. (IF MayFallBack(r) THEN "h1" ELSE "nonretryable") \in LegStates
      BY <2>4, Zenon
    <3> HIDE DEF Step
    <3> QED
      BY <2>1, <3>1, <3>2, <3>3, Zenon
  <2>8. CASE \E ok \in BOOLEAN : LegAnswered(r, l, ok)
    <3>1. Step(l, "ok", sends[r] + 1, maybe[r]) \/ Step(l, "retryable", sends[r] + 1, maybe[r])
      BY <2>3, <2>8, Zenon DEF LegAnswered, LegMove
    <3> HIDE DEF Step
    <3> QED
      BY <2>1, <2>4, <3>1, Zenon
  <2>9. CASE \E sent \in BOOLEAN : H1Failed(r, l, sent)
    <3>1. Step(l, "retryable", sends[r] + 1, maybe[r]) \/ Step(l, "retryable", sends[r], maybe[r])
      BY <2>2, <2>3, <2>9, Zenon DEF H1Failed, LegMove
    <3> HIDE DEF Step
    <3> QED
      BY <2>1, <2>4, <3>1, Zenon
  <2> QED
    BY <2>5, <2>6, <2>7, <2>8, <2>9, Zenon
<1>4. PICK l \in Leg, to \in LegStates, n \in Nat, b \in Flags : Step(l, to, n, b)
  BY <1>3, Zenon
<1>5. legs'[r] = [legs[r] EXCEPT ![l] = to] /\ sends'[r] = n /\ maybe'[r] = b
  BY <1>1, <1>4, Zenon DEF Kinds
<1>6. \A q \in Reqs : q # r => legs'[q] = legs[q] /\ sends'[q] = sends[q] /\ maybe'[q] = maybe[q]
  BY <1>1, <1>4, Zenon DEF Kinds
<1>7. Kinds'
  <2>1. legs'[r] \in [Leg -> LegStates]
    BY <1>1, <1>5, RequestValues, ZenonT(60)
  <2>2. legs' \in [Reqs -> [Leg -> LegStates]] /\ sends' \in [Reqs -> Nat] /\ maybe' \in [Reqs -> Flags]
    BY <1>1, <1>4, <1>5, <2>1, Zenon DEF Kinds
  <2> QED
    BY <1>1, <1>2, <2>2, Zenon DEF Kinds, Reqs
<1>8. GoodNow(r)' /\ Sendable(req[r].unsafe, maybe[r])
  <2>1. \/ l = 1 /\ legs'[r][1] = to /\ legs'[r][2] = legs[r][2]
        \/ l = 2 /\ legs'[r][2] = to /\ legs'[r][1] = legs[r][1]
    BY SMT, <1>1, <1>5, RequestValues DEF Leg
  <2> DEFINE u == req[r].unsafe  st == stage[r]  at == attempt[r]
  <2>4. /\ u \in Flags /\ st \in Stages /\ at \in 0..2 /\ legs[r][1] \in LegStates
        /\ legs[r][2] \in LegStates /\ sends[r] \in Nat /\ maybe[r] \in Flags
        /\ to \in LegStates /\ n \in Nat /\ b \in Flags
        /\ Good(u, st, at, legs[r][1], legs[r][2], sends[r], maybe[r])
    BY <1>1, <1>4, RequestValues, Zenon DEF GoodNow
  <2>2. CASE l = 1
    <3>1. LegMove(u, st, legs[r][1], to, sends[r], n, maybe[r], b)
      BY <1>4, <2>2, Zenon
    <3>2. Good(u, st, at, to, legs[r][2], n, b) /\ Sendable(u, maybe[r])
      <4> HIDE DEF u, st, at
      <4> QED
        BY <2>4, <3>1, FirstLegGood, ZenonT(60)
    <3>3. legs'[r][1] = to /\ legs'[r][2] = legs[r][2]
      BY SMT, <2>1, <2>2
    <3> QED
      BY <1>2, <1>5, <3>2, <3>3, Zenon DEF GoodNow
  <2>3. CASE l = 2
    <3>1. LegMove(u, st, legs[r][2], to, sends[r], n, maybe[r], b)
      BY <1>4, <2>3, Zenon
    <3>2. Good(u, st, at, legs[r][1], to, n, b) /\ Sendable(u, maybe[r])
      <4> HIDE DEF u, st, at
      <4> QED
        BY <2>4, <3>1, SecondLegGood, Zenon
    <3>3. legs'[r][2] = to /\ legs'[r][1] = legs[r][1]
      BY SMT, <2>1, <2>3
    <3> QED
      BY <1>2, <1>5, <3>2, <3>3, Zenon DEF GoodNow
  <2> QED
    BY <2>1, <2>2, <2>3, Zenon
<1>9. \A q \in Reqs' : GoodNow(q)'
  BY <1>2, <1>6, <1>8, Zenon DEF RlInv, GoodNow, Reqs
<1>10. Flights' /\ Values'
  <2>1. Flights'
    BY <1>2, Zenon DEF RlInv, Flights, InflightLive, Reqs, Coalescible
  <2>2. Values'
    BY <1>2, Zenon DEF RlInv, Values, Mine, Reqs, Coalescible
  <2> QED
    BY <2>1, <2>2, Zenon
<1>11. NoReplayAfterMaybe
  BY <1>6, <1>8, Zenon DEF NoReplayAfterMaybe, Sendable
<1> QED
  BY <1>7, <1>9, <1>10, <1>11, Zenon DEF RlInv

\* One request goes on to another stage, attempt and legs.
LEMMA OneRequest ==
  ASSUME RlInv, NEW r \in Reqs, NEW to \in Stages, NEW at \in 0..2, NEW lg \in [Leg -> LegStates],
         stage' = [stage EXCEPT ![r] = to], attempt' = [attempt EXCEPT ![r] = at],
         legs' = [legs EXCEPT ![r] = lg], UNCHANGED <<req, sends, maybe>>, DOMAIN answer' = Reqs,
         Good(req[r].unsafe, to, at, lg[1], lg[2], sends[r], maybe[r])
  PROVE  Kinds' /\ (\A q \in Reqs' : GoodNow(q)') /\ NoReplayAfterMaybe
<1>1. Kinds
  BY Zenon DEF RlInv
<1>2. stage'[r] = to /\ attempt'[r] = at /\ legs'[r] = lg
  BY <1>1, Zenon DEF Kinds
<1>3. \A q \in Reqs : q # r => stage'[q] = stage[q] /\ attempt'[q] = attempt[q] /\ legs'[q] = legs[q]
  BY <1>1, Zenon DEF Kinds
<1>4. Kinds'
  <2>1. stage' \in [Reqs -> Stages] /\ attempt' \in [Reqs -> 0..2] /\ legs' \in [Reqs -> [Leg -> LegStates]]
    BY <1>1, Zenon DEF Kinds
  <2> QED
    BY <1>1, <2>1, Zenon DEF Kinds, Reqs
<1>5. GoodNow(r)'
  BY <1>2, Zenon DEF GoodNow
<1>6. \A q \in Reqs' : GoodNow(q)'
  BY <1>3, <1>5, Zenon DEF RlInv, GoodNow, Reqs
<1>7. NoReplayAfterMaybe
  BY Zenon DEF NoReplayAfterMaybe
<1> QED
  BY <1>4, <1>6, <1>7, Zenon

\* The inflight map stays right while nobody begins or ends a shared fetch.
LEMMA FlightsStay ==
  ASSUME Kinds, Flights, NEW r \in Reqs, NEW to, stage' = [stage EXCEPT ![r] = to],
         UNCHANGED <<req, inflight>>, to # "wait", to = "join" => Coalescible(r),
         \/ stage[r] \in {"fetch", "flying"} /\ to \in {"fetch", "flying"}
         \/ stage[r] \notin {"fetch", "flying"} /\ (to \notin {"fetch", "flying"} \/ ~Coalescible(r))
  PROVE  Flights'
<1>1. stage'[r] = to /\ \A q \in Reqs : q # r => stage'[q] = stage[q]
  BY Zenon DEF Kinds
<1>2. \A q : Coalescible(q)' = Coalescible(q)
  BY Zenon DEF Coalescible
<1>3. InflightLive'
  <2>1. ASSUME NEW k \in Keys, NEW q \in inflight[k] PROVE stage'[q] \in {"fetch", "flying"} /\ req[q].key = k
    <3>1. stage[q] \in {"fetch", "flying"} /\ req[q].key = k /\ q \in Reqs /\ inflight[k] = {q}
      <4>1. stage[q] \in {"fetch", "flying"} /\ req[q].key = k
        BY <2>1, Zenon DEF Flights, InflightLive
      <4>2. PICK p \in Reqs : inflight[k] = {p}
        BY <2>1, Zenon DEF Flights
      <4> QED
        BY <2>1, <4>1, <4>2, Zenon
    <3>2. Coalescible(q)
      BY <3>1, RelayAssumption, Zenon DEF Coalescible, RelayAssumption
    <3> QED
      BY <1>1, <3>1, <3>2, Zenon
  <2>2. ASSUME NEW q \in Reqs, stage'[q] \in {"fetch", "flying"}, Coalescible(q)
        PROVE  inflight[req[q].key] = {q}
    <3>1. stage[q] \in {"fetch", "flying"}
      BY <1>1, <2>2, Zenon
    <3> QED
      BY <2>2, <3>1, Zenon DEF Flights, InflightLive
  <2>3. ASSUME NEW q \in Reqs, stage'[q] = "wait" PROVE inflight[req[q].key] # {}
    BY <1>1, <2>3, Zenon DEF Flights, InflightLive
  <2> QED
    BY <1>2, <2>1, <2>2, <2>3, Zenon DEF InflightLive, Reqs
<1>4. \A q \in Reqs : stage'[q] \in {"join", "wait"} => Coalescible(q)
  BY <1>1, Zenon DEF Flights
<1> QED
  BY <1>2, <1>3, <1>4, Zenon DEF Flights, Reqs

\* So do the answers while none is fetched and nobody is answered.
LEMMA ValuesStay ==
  ASSUME Kinds, Values, NEW r \in Reqs, NEW to, stage' = [stage EXCEPT ![r] = to],
         to = "exit" => req[r].exit, UNCHANGED <<req, answer, cache, fetched, owner>>
  PROVE  Values'
<1>1. stage'[r] = to /\ \A q \in Reqs : q # r => stage'[q] = stage[q]
  BY Zenon DEF Kinds
<1>2. \A q \in Reqs : stage'[q] = "exit" => req[q].exit
  BY <1>1, Zenon DEF Values
<1> QED
  BY <1>2, Zenon DEF Values, Mine, Reqs, Coalescible

\* A value written back changes nothing.
LEMMA SameEntry ==
  ASSUME Kinds, NEW r \in Reqs
  PROVE  attempt = [attempt EXCEPT ![r] = attempt[r]] /\ legs = [legs EXCEPT ![r] = legs[r]]
         /\ stage = [stage EXCEPT ![r] = stage[r]]
  BY Zenon DEF Kinds

\* The values of a request are in order.
LEMMA RequestGood ==
  ASSUME RlInv, NEW r \in Reqs
  PROVE  Good(req[r].unsafe, stage[r], attempt[r], legs[r][1], legs[r][2], sends[r], maybe[r])
  BY Zenon DEF RlInv, GoodNow

-----------------------------------------------------------------------------
(* The steps that answer nobody.                                           *)

\* relay begins: the exit node, or the cache.
LEMMA StartKeeps ==
  ASSUME RlInv, NEW r \in Reqs, Start(r)
  PROVE  RlInv' /\ NoReplayAfterMaybe
<1>1. Kinds /\ Flights /\ Values
  BY Zenon DEF RlInv
<1>2. stage[r] = "new" /\ UNCHANGED <<req, attempt, sends, maybe, answer, inflight, cache, fetched, owner>>
  BY Zenon DEF Start
<1>3. attempt' = [attempt EXCEPT ![r] = attempt[r]] /\ DOMAIN answer' = Reqs
  BY <1>1, <1>2, SameEntry, Zenon DEF Kinds
<1>4. /\ Good(req[r].unsafe, "exit", attempt[r], "h2", legs[r][2], sends[r], maybe[r])
      /\ Good(req[r].unsafe, "cache", attempt[r], legs[r][1], legs[r][2], sends[r], maybe[r])
  BY <1>1, <1>2, RequestGood, RequestValues, StageKeepsGood, Zenon
<1>5. CASE req[r].exit
  <2> DEFINE lg == [legs[r] EXCEPT ![1] = "h2"]
  <2>1. stage' = [stage EXCEPT ![r] = "exit"] /\ legs' = [legs EXCEPT ![r][1] = "h2"]
    BY <1>5, Zenon DEF Start
  <2>2. legs' = [legs EXCEPT ![r] = lg]
    BY <1>1, <2>1, Zenon DEF Kinds
  <2>3. lg \in [Leg -> LegStates] /\ lg[1] = "h2" /\ lg[2] = legs[r][2]
    BY SMT, <1>1, RequestValues DEF Leg, LegStates
  <2>4. "exit" \in Stages /\ attempt[r] \in 0..2
    BY <1>1, RequestValues, Zenon DEF Stages
  <2>5. Good(req[r].unsafe, "exit", attempt[r], lg[1], lg[2], sends[r], maybe[r])
    BY <1>4, <2>3, Zenon
  <2>6. Kinds' /\ (\A q \in Reqs' : GoodNow(q)') /\ NoReplayAfterMaybe
    <3> HIDE DEF lg
    <3> QED
      BY <1>2, <1>3, <2>1, <2>2, <2>3, <2>4, <2>5, OneRequest, Zenon
  <2>7. Flights' /\ Values'
    BY <1>1, <1>2, <1>5, <2>1, FlightsStay, ValuesStay, Zenon
  <2> QED
    BY <2>6, <2>7, Zenon DEF RlInv
<1>6. CASE ~req[r].exit
  <2>1. stage' = [stage EXCEPT ![r] = "cache"] /\ legs' = [legs EXCEPT ![r] = legs[r]]
    BY <1>1, <1>6, SameEntry, Zenon DEF Start
  <2>2. "cache" \in Stages /\ attempt[r] \in 0..2 /\ legs[r] \in [Leg -> LegStates]
    BY <1>1, RequestValues, Zenon DEF Stages
  <2>3. Kinds' /\ (\A q \in Reqs' : GoodNow(q)') /\ NoReplayAfterMaybe
    BY <1>2, <1>3, <1>4, <2>1, <2>2, OneRequest, Zenon
  <2>4. Flights' /\ Values'
    BY <1>1, <1>2, <2>1, FlightsStay, ValuesStay, Zenon
  <2> QED
    BY <2>3, <2>4, Zenon DEF RlInv
<1> QED
  BY <1>5, <1>6, Zenon

\* A step of relay() that changes nothing but the stage of its request.
LEMMA StageOnly ==
  ASSUME RlInv, NEW r \in Reqs, stage[r] \in {"cache", "join"},
         NEW to \in {"join", "wait", "fetch", "done"}, stage' = [stage EXCEPT ![r] = to],
         UNCHANGED <<req, attempt, legs, sends, maybe>>, DOMAIN answer' = Reqs
  PROVE  Kinds' /\ (\A q \in Reqs' : GoodNow(q)') /\ NoReplayAfterMaybe
<1>1. Kinds
  BY Zenon DEF RlInv
<1>2. attempt' = [attempt EXCEPT ![r] = attempt[r]] /\ legs' = [legs EXCEPT ![r] = legs[r]]
  BY <1>1, SameEntry, Zenon
<1>3. Good(req[r].unsafe, to, attempt[r], legs[r][1], legs[r][2], sends[r], maybe[r])
  <2>1. stage[r] \in {"cache", "join", "wait"}
    BY Zenon
  <2>2. /\ req[r].unsafe \in Flags /\ attempt[r] \in 0..2 /\ legs[r][1] \in LegStates
        /\ legs[r][2] \in LegStates /\ sends[r] \in Nat /\ maybe[r] \in Flags
    BY <1>1, RequestValues, Zenon
  <2>3. Good(req[r].unsafe, stage[r], attempt[r], legs[r][1], legs[r][2], sends[r], maybe[r])
    BY RequestGood, Zenon
  <2> QED
    BY <2>1, <2>2, <2>3, EarlyGood, ZenonT(60)
<1>4. to \in Stages /\ attempt[r] \in 0..2 /\ legs[r] \in [Leg -> LegStates]
  BY <1>1, RequestValues, Zenon DEF Stages
<1> QED
  BY <1>2, <1>3, <1>4, OneRequest, Zenon

\* The cache is looked up.
LEMMA CacheKeeps ==
  ASSUME RlInv, NEW r \in Reqs, CacheHit(r) \/ CacheMiss(r)
  PROVE  RlInv' /\ NoReplayAfterMaybe
<1>1. Kinds /\ Flights /\ Values
  BY Zenon DEF RlInv
<1>2. /\ stage[r] = "cache"
      /\ UNCHANGED <<req, attempt, legs, sends, maybe, inflight, cache, fetched, owner>>
  BY Zenon DEF CacheHit, CacheMiss
<1>3. CASE CacheHit(r)
  <2>1. /\ Coalescible(r) /\ cache[req[r].key] # 0 /\ stage' = [stage EXCEPT ![r] = "done"]
        /\ answer' = [answer EXCEPT ![r] = [st |-> "ok", val |-> cache[req[r].key]]]
    BY <1>3, Zenon DEF CacheHit
  <2>2. DOMAIN answer' = Reqs
    BY <1>1, <2>1, Zenon DEF Kinds
  <2>3. Kinds' /\ (\A q \in Reqs' : GoodNow(q)') /\ NoReplayAfterMaybe
    BY <1>2, <2>1, <2>2, StageOnly, Zenon
  <2>4. Flights'
    BY <1>1, <1>2, <2>1, FlightsStay, Zenon
  <2>5. Values'
    <3>1. answer'[r].val = cache[req[r].key] /\ \A q \in Reqs : q # r => answer'[q] = answer[q]
      BY <1>1, <2>1, Zenon DEF Kinds
    <3>2. Mine(answer'[r].val, req[r].key, fetched, owner)
      BY <1>1, <2>1, <3>1, RequestValues, Zenon DEF Values
    <3>3. \A q \in Reqs : stage'[q] = "exit" => req[q].exit
      BY <1>1, <2>1, Zenon DEF Kinds, Values
    <3>4. \A q \in Reqs : Coalescible(q) /\ ~req[q].exit /\ answer'[q].st = "ok"
                         => Mine(answer'[q].val, req[q].key, fetched, owner)
      BY <1>1, <3>1, <3>2, Zenon DEF Values
    <3> QED
      BY <1>1, <1>2, <3>3, <3>4, Zenon DEF Values, Mine, Reqs, Coalescible
  <2> QED
    BY <2>3, <2>4, <2>5, Zenon DEF RlInv
<1>4. CASE CacheMiss(r)
  <2> DEFINE to == IF Coalescible(r) THEN "join" ELSE "fetch"
  <2>1. stage' = [stage EXCEPT ![r] = to] /\ UNCHANGED answer
    BY <1>4, Zenon DEF CacheMiss
  <2>2. to \in {"join", "wait", "fetch", "done"} /\ to # "wait" /\ to # "exit" /\ (to = "join" => Coalescible(r))
        /\ (to \notin {"fetch", "flying"} \/ ~Coalescible(r))
    BY Zenon
  <2> HIDE DEF to
  <2>3. Kinds' /\ (\A q \in Reqs' : GoodNow(q)') /\ NoReplayAfterMaybe
    BY <1>1, <1>2, <2>1, <2>2, StageOnly, Zenon DEF Kinds
  <2>4. Flights' /\ Values'
    BY <1>1, <1>2, <2>1, <2>2, FlightsStay, ValuesStay, Zenon
  <2> QED
    BY <2>3, <2>4, Zenon DEF RlInv
<1> QED
  BY <1>3, <1>4, Zenon

\* A request subscribes to the fetch that runs for its key, or starts it.
LEMMA JoinKeeps ==
  ASSUME RlInv, NEW r \in Reqs, Join(r)
  PROVE  RlInv' /\ NoReplayAfterMaybe
<1>1. Kinds /\ Flights /\ Values
  BY Zenon DEF RlInv
<1>2. /\ stage[r] = "join" /\ UNCHANGED <<req, attempt, legs, sends, maybe, answer, cache, fetched, owner>>
      /\ DOMAIN answer' = Reqs
  BY <1>1, Zenon DEF Join, Kinds
<1>3. \A q : Coalescible(q)' = Coalescible(q)
  BY <1>2, Zenon DEF Coalescible
<1>4. CASE inflight[req[r].key] = {}
  <2>1. stage' = [stage EXCEPT ![r] = "fetch"] /\ inflight' = [inflight EXCEPT ![req[r].key] = {r}]
    BY <1>4, Zenon DEF Join
  <2>2. Kinds' /\ (\A q \in Reqs' : GoodNow(q)') /\ NoReplayAfterMaybe
    BY <1>2, <2>1, StageOnly, Zenon
  <2>3. Values'
    BY <1>1, <1>2, <2>1, ValuesStay, Zenon
  <2>4. Flights'
    <3>1. stage'[r] = "fetch" /\ \A q \in Reqs : q # r => stage'[q] = stage[q]
      BY <1>1, <2>1, Zenon DEF Kinds
    <3>2. \A k \in Keys : inflight'[k] = IF k = req[r].key THEN {r} ELSE inflight[k]
      BY <1>1, <2>1, Zenon DEF Flights
    <3>3. DOMAIN inflight' = Keys /\ \A k \in Keys : inflight'[k] = {} \/ \E q \in Reqs : inflight'[k] = {q}
      BY <1>1, <2>1, <3>2, Zenon DEF Flights
    <3>4. ASSUME NEW k \in Keys, NEW q \in inflight'[k] PROVE stage'[q] \in {"fetch", "flying"} /\ req[q].key = k
      <4>1. CASE k = req[r].key
        BY <3>1, <3>2, <3>4, <4>1, Zenon
      <4>2. CASE k # req[r].key
        <5>1. q \in inflight[k]
          BY <3>2, <3>4, <4>2, Zenon
        <5>2. PICK p \in Reqs : inflight[k] = {p}
          BY <1>1, <5>1, Zenon DEF Flights
        <5>3. q \in Reqs /\ stage[q] \in {"fetch", "flying"} /\ req[q].key = k
          BY <1>1, <5>1, <5>2, Zenon DEF Flights, InflightLive
        <5> QED
          BY <3>1, <5>3, Zenon
      <4> QED
        BY <4>1, <4>2, Zenon
    <3>5. ASSUME NEW q \in Reqs, stage'[q] \in {"fetch", "flying"}, Coalescible(q)
          PROVE  inflight'[req[q].key] = {q}
      <4>1. req[q].key \in Keys
        BY <1>1, <3>5, RequestValues, Zenon
      <4>2. CASE q = r
        BY <3>2, <4>1, <4>2, Zenon
      <4>3. CASE q # r
        <5>1. inflight[req[q].key] = {q}
          BY <1>1, <3>1, <3>5, <4>3, Zenon DEF Flights, InflightLive
        <5>2. req[q].key # req[r].key
          BY <1>4, <5>1, Zenon
        <5> QED
          BY <3>2, <4>1, <5>1, <5>2, Zenon
      <4> QED
        BY <4>2, <4>3, Zenon
    <3>6. ASSUME NEW q \in Reqs, stage'[q] = "wait" PROVE inflight'[req[q].key] # {}
      <4>1. inflight[req[q].key] # {}
        BY <1>1, <3>1, <3>6, Zenon DEF Flights, InflightLive
      <4>2. inflight'[req[q].key] = inflight[req[q].key] \/ inflight'[req[q].key] = {r}
        <5>1. Coalescible(q)
          BY <1>1, <3>1, <3>6, Zenon DEF Flights
        <5>2. req[q].key \in Keys
          BY <1>1, <5>1, RequestValues, Zenon
        <5> QED
          BY <3>2, <5>2, Zenon
      <4> QED
        BY <4>1, <4>2, Zenon
    <3>7. \A q \in Reqs : stage'[q] \in {"join", "wait"} => Coalescible(q)
      BY <1>1, <1>2, <3>1, Zenon DEF Flights
    <3> QED
      BY <1>2, <1>3, <3>3, <3>4, <3>5, <3>6, <3>7, Zenon DEF Flights, InflightLive, Reqs
  <2> QED
    BY <2>2, <2>3, <2>4, Zenon DEF RlInv
<1>5. CASE inflight[req[r].key] # {}
  <2>1. stage' = [stage EXCEPT ![r] = "wait"] /\ UNCHANGED inflight
    BY <1>5, Zenon DEF Join
  <2>2. Kinds' /\ (\A q \in Reqs' : GoodNow(q)') /\ NoReplayAfterMaybe
    BY <1>2, <2>1, StageOnly, Zenon
  <2>3. Values'
    BY <1>1, <1>2, <2>1, ValuesStay, Zenon
  <2>4. Flights'
    <3>1. stage'[r] = "wait" /\ \A q \in Reqs : q # r => stage'[q] = stage[q]
      BY <1>1, <2>1, Zenon DEF Kinds
    <3>2. ASSUME NEW k \in Keys, NEW q \in inflight[k] PROVE stage'[q] \in {"fetch", "flying"} /\ req[q].key = k
      <4>1. PICK p \in Reqs : inflight[k] = {p}
        BY <1>1, <3>2, Zenon DEF Flights
      <4>2. q \in Reqs /\ stage[q] \in {"fetch", "flying"} /\ req[q].key = k
        BY <1>1, <3>2, <4>1, Zenon DEF Flights, InflightLive
      <4> QED
        BY <1>2, <3>1, <4>2, Zenon
    <3>3. ASSUME NEW q \in Reqs PROVE /\ stage'[q] \in {"fetch", "flying"} /\ Coalescible(q) => inflight[req[q].key] = {q}
                                      /\ stage'[q] = "wait" => inflight[req[q].key] # {}
      BY <1>1, <1>5, <3>1, Zenon DEF Flights, InflightLive
    <3>4. \A q \in Reqs : stage'[q] \in {"join", "wait"} => Coalescible(q)
      BY <1>1, <1>2, <3>1, Zenon DEF Flights
    <3> QED
      BY <1>1, <1>2, <1>3, <2>1, <3>2, <3>3, <3>4, Zenon DEF Flights, InflightLive, Reqs
  <2> QED
    BY <2>2, <2>3, <2>4, Zenon DEF RlInv
<1> QED
  BY <1>4, <1>5, Zenon

\* A fetch is sent, on one leg or on two (the fan-out).
LEMMA DispatchKeeps ==
  ASSUME RlInv, NEW r \in Reqs, Dispatch(r)
  PROVE  RlInv' /\ NoReplayAfterMaybe
<1> DEFINE lg == [l \in Leg |-> IF l = 1 \/ FansOut(r) THEN "h2" ELSE "unused"]
<1>1. Kinds /\ Flights /\ Values
  BY Zenon DEF RlInv
<1>2. /\ stage[r] = "fetch" /\ stage' = [stage EXCEPT ![r] = "flying"]
      /\ attempt' = [attempt EXCEPT ![r] = 1] /\ legs' = [legs EXCEPT ![r] = lg]
      /\ UNCHANGED <<req, sends, maybe, answer, inflight, cache, fetched, owner>> /\ DOMAIN answer' = Reqs
  BY <1>1, Zenon DEF Dispatch, Kinds
<1>3. lg \in [Leg -> LegStates] /\ lg[1] = "h2" /\ lg[2] = IF FansOut(r) THEN "h2" ELSE "unused"
  <2>1. 1 \in Leg /\ 2 \in Leg /\ 2 # 1
    BY SMT DEF Leg
  <2> QED
    BY <2>1, Zenon DEF LegStates
<1>4. /\ Good(req[r].unsafe, "flying", 1, "h2", "unused", sends[r], maybe[r])
      /\ ~req[r].unsafe => Good(req[r].unsafe, "flying", 1, "h2", "h2", sends[r], maybe[r])
  BY <1>1, <1>2, RequestGood, RequestValues, StageKeepsGood, Zenon
<1>5. Good(req[r].unsafe, "flying", 1, lg[1], lg[2], sends[r], maybe[r])
  <2> HIDE DEF lg
  <2>1. CASE FansOut(r)
    <3>1. ~req[r].unsafe /\ lg[1] = "h2" /\ lg[2] = "h2"
      BY <1>3, <2>1, Zenon DEF FansOut
    <3> QED
      BY <1>4, <3>1, Zenon
  <2>2. CASE ~FansOut(r)
    BY <1>3, <1>4, <2>2, Zenon
  <2> QED
    BY <2>1, <2>2, Zenon
<1>6. "flying" \in Stages /\ 1 \in 0..2
  BY SMT DEF Stages
<1>7. Kinds' /\ (\A q \in Reqs' : GoodNow(q)') /\ NoReplayAfterMaybe
  <2> HIDE DEF lg
  <2> QED
    BY <1>2, <1>3, <1>5, <1>6, OneRequest, Zenon
<1>8. Flights' /\ Values'
  BY <1>1, <1>2, FlightsStay, ValuesStay, Zenon
<1> QED
  BY <1>7, <1>8, Zenon DEF RlInv

\* The second attempt of do_relay_with_retry.
LEMMA RetryKeeps ==
  ASSUME RlInv, NEW r \in Reqs, Retry(r)
  PROVE  RlInv' /\ NoReplayAfterMaybe
<1> DEFINE lg == [legs[r] EXCEPT ![1] = "h2"]
<1>1. Kinds /\ Flights /\ Values
  BY Zenon DEF RlInv
<1>2. /\ stage[r] = "flying" /\ legs[r][1] = "retryable" /\ legs[r][2] = "unused" /\ attempt[r] = 1
      /\ attempt' = [attempt EXCEPT ![r] = attempt[r] + 1] /\ legs' = [legs EXCEPT ![r][1] = "h2"]
      /\ UNCHANGED <<req, stage, sends, maybe, answer, inflight, cache, fetched, owner>>
  BY Zenon DEF Retry, Failed, MayRetry
<1>3. /\ attempt' = [attempt EXCEPT ![r] = 2] /\ legs' = [legs EXCEPT ![r] = lg]
      /\ stage' = [stage EXCEPT ![r] = "flying"] /\ DOMAIN answer' = Reqs
  <2>1. attempt[r] + 1 = 2
    BY SMT, <1>2
  <2>2. attempt' = [attempt EXCEPT ![r] = 2]
    BY <1>2, <2>1, Zenon
  <2>3. stage' = [stage EXCEPT ![r] = "flying"] /\ DOMAIN answer' = Reqs
    BY <1>1, <1>2, Zenon DEF Kinds
  <2>4. legs' = [legs EXCEPT ![r] = lg]
    BY <1>1, <1>2, Zenon DEF Kinds
  <2> QED
    BY <2>2, <2>3, <2>4, Zenon
<1>4. lg \in [Leg -> LegStates] /\ lg[1] = "h2" /\ lg[2] = legs[r][2]
  BY SMT, <1>1, RequestValues DEF Leg, LegStates
<1>5. Good(req[r].unsafe, "flying", 2, "h2", legs[r][2], sends[r], maybe[r])
  BY <1>1, <1>2, RequestGood, RequestValues, StageKeepsGood, Zenon
<1>6. "flying" \in Stages /\ 2 \in 0..2
  BY SMT DEF Stages
<1> HIDE DEF lg
<1>7. Kinds' /\ (\A q \in Reqs' : GoodNow(q)') /\ NoReplayAfterMaybe
  <2>1. Good(req[r].unsafe, "flying", 2, lg[1], lg[2], sends[r], maybe[r])
    BY <1>4, <1>5, Zenon
  <2>2. UNCHANGED <<req, sends, maybe>> /\ lg \in [Leg -> LegStates]
    BY <1>2, <1>4, Zenon
  <2> QED
    BY <1>3, <1>6, <2>1, <2>2, OneRequest, Zenon
<1>8. Flights' /\ Values'
  BY <1>1, <1>2, <1>3, FlightsStay, ValuesStay, ZenonT(60)
<1> QED
  BY <1>7, <1>8, Zenon DEF RlInv

-----------------------------------------------------------------------------
(* The steps that answer.                                                  *)

NoLegs == [l \in Leg |-> "unused"]

\* Both legs of NoLegs are unused.
LEMMA NoLegsUnused == NoLegs \in [Leg -> LegStates] /\ NoLegs[1] = "unused" /\ NoLegs[2] = "unused"
<1>1. 1 \in Leg /\ 2 \in Leg
  BY SMT DEF Leg
<1> QED
  BY <1>1, Zenon DEF NoLegs, LegStates

\* An answer that was fetched stays the one it is when another is.
LEMMA MineStays ==
  ASSUME NEW v, NEW k, NEW n \in Nat, NEW own, Mine(v, k, n, own)
  PROVE  /\ Mine(v, k, n + 1, own)
         /\ \A o : (\A w \in 1..n : o[w] = own[w]) => Mine(v, k, n + 1, o)
<1>1. v \in 1..n /\ own[v] = k
  BY Zenon DEF Mine
<1>2. v \in 1..(n + 1)
  BY SMT, <1>1
<1> QED
  BY <1>1, <1>2, Zenon DEF Mine

\* The exit node answers, fails for good, or the request falls through to the relay.
LEMMA ExitKeeps ==
  ASSUME RlInv, NEW r \in Reqs, ExitDone(r)
  PROVE  RlInv' /\ NoReplayAfterMaybe
<1>1. Kinds /\ Flights /\ Values
  BY Zenon DEF RlInv
<1>2. /\ stage[r] = "exit" /\ legs' = [legs EXCEPT ![r] = NoLegs]
      /\ UNCHANGED <<req, attempt, sends, maybe, inflight, cache, owner>>
      /\ \/ /\ fetched < MaxFetch /\ fetched' = fetched + 1 /\ stage' = [stage EXCEPT ![r] = "done"]
            /\ answer' = [answer EXCEPT ![r] = [st |-> "ok", val |-> fetched + 1]]
         \/ /\ stage' = [stage EXCEPT ![r] = "done"] /\ UNCHANGED fetched
            /\ answer' = [answer EXCEPT ![r] = Error("502")]
         \/ /\ legs[r][1] = "retryable" /\ stage' = [stage EXCEPT ![r] = "cache"]
            /\ UNCHANGED <<answer, fetched>>
  BY Zenon DEF ExitDone, NoLegs
<1>3. attempt' = [attempt EXCEPT ![r] = attempt[r]] /\ DOMAIN answer' = Reqs
  BY <1>1, <1>2, SameEntry, Zenon DEF Kinds
<1>4. PICK to \in {"done", "cache"} :
        stage' = [stage EXCEPT ![r] = to] /\ (to = "cache" => legs[r][1] = "retryable")
  BY <1>2, Zenon
<1>5. Kinds' /\ (\A q \in Reqs' : GoodNow(q)') /\ NoReplayAfterMaybe
  <2>1. Good(req[r].unsafe, to, attempt[r], "unused", "unused", sends[r], maybe[r])
    <3>1. /\ Good(req[r].unsafe, "done", attempt[r], "unused", "unused", sends[r], maybe[r])
          /\ legs[r][1] = "retryable" =>
               Good(req[r].unsafe, "cache", attempt[r], "unused", "unused", sends[r], maybe[r])
      <4>1. /\ req[r].unsafe \in Flags /\ stage[r] \in Stages /\ attempt[r] \in 0..2
            /\ legs[r][1] \in LegStates /\ legs[r][2] \in LegStates /\ sends[r] \in Nat
            /\ maybe[r] \in Flags
        BY <1>1, RequestValues, Zenon
      <4>2. Good(req[r].unsafe, stage[r], attempt[r], legs[r][1], legs[r][2], sends[r], maybe[r])
        BY RequestGood, Zenon
      <4> QED
        BY <1>2, <4>1, <4>2, StageKeepsGood, ZenonT(60)
    <3>2. CASE to = "done"
      BY <3>1, <3>2, Zenon
    <3>3. CASE to = "cache"
      <4>1. legs[r][1] = "retryable"
        BY <1>4, <3>3, Zenon
      <4>2. Good(req[r].unsafe, "cache", attempt[r], "unused", "unused", sends[r], maybe[r])
        BY <3>1, <4>1, Zenon
      <4> QED
        BY <3>3, <4>2, Zenon
    <3> QED
      BY <3>2, <3>3, Zenon
  <2>2. Good(req[r].unsafe, to, attempt[r], NoLegs[1], NoLegs[2], sends[r], maybe[r])
    BY <2>1, NoLegsUnused, Zenon
  <2>3. to \in Stages /\ attempt[r] \in 0..2 /\ NoLegs \in [Leg -> LegStates]
    BY <1>1, <1>4, NoLegsUnused, RequestValues, Zenon DEF Stages
  <2>4. UNCHANGED <<req, sends, maybe>> /\ legs' = [legs EXCEPT ![r] = NoLegs]
    BY <1>2, Zenon
  <2>5. stage' = [stage EXCEPT ![r] = to]
    BY <1>4, Zenon
  <2> QED
    BY <1>3, <2>2, <2>3, <2>4, <2>5, OneRequest, Zenon
<1>6. Flights'
  BY <1>1, <1>2, <1>4, FlightsStay, Zenon
<1>7. Values'
  <2>1. req[r].exit /\ \A q \in Reqs : q # r => answer'[q] = answer[q] /\ stage'[q] = stage[q]
    BY <1>1, <1>2, Zenon DEF Kinds, Values
  <2>2. \A q \in Reqs : stage'[q] = "exit" => req[q].exit
    BY <1>1, <2>1, ZenonT(60) DEF Values
  <2>3. fetched \in Nat /\ fetched' \in 0..MaxFetch /\ (fetched' = fetched \/ fetched' = fetched + 1)
    BY SMT, <1>1, <1>2, RelayAssumption DEF Values, RelayAssumption
  <2>4. \A v, k : Mine(v, k, fetched, owner) => Mine(v, k, fetched', owner)
    BY <2>3, MineStays, Zenon
  <2>5. \A q \in Reqs : Coalescible(q) /\ ~req[q].exit /\ answer'[q].st = "ok"
                       => Mine(answer'[q].val, req[q].key, fetched', owner)
    BY <1>1, <2>1, <2>4, Zenon DEF Values
  <2>6. \A k \in Keys : cache[k] = 0 \/ Mine(cache[k], k, fetched', owner)
    BY <1>1, <2>4, Zenon DEF Values
  <2> QED
    BY <1>1, <1>2, <2>2, <2>3, <2>5, <2>6, Zenon DEF Values, Mine, Reqs, Coalescible
<1> QED
  BY <1>5, <1>6, <1>7, Zenon DEF RlInv

\* The leader's answer ends it and its subscribers.
LEMMA PublishKeeps ==
  ASSUME RlInv, NEW r \in Reqs, NEW a, stage[r] = "flying", Publish(r, a),
         legs' = [legs EXCEPT ![r] = NoLegs], UNCHANGED <<req, attempt, sends, maybe>>
  PROVE  Kinds' /\ (\A q \in Reqs' : GoodNow(q)') /\ Flights' /\ NoReplayAfterMaybe
<1> DEFINE ended == {r} \union Subscribers(r)
<1>1. Kinds /\ Flights
  BY Zenon DEF RlInv
<1>2. /\ DOMAIN answer' = Reqs /\ stage' = [q \in Reqs |-> IF q \in ended THEN "done" ELSE stage[q]]
      /\ inflight' = Removed(r)
  BY Zenon DEF Publish
<1>3. \A q \in Reqs : stage'[q] = IF q \in ended THEN "done" ELSE stage[q]
  BY <1>2, Zenon
<1>4. \A q \in ended : q = r \/ (q \in Reqs /\ stage[q] = "wait" /\ Coalescible(r) /\ req[q].key = req[r].key)
  BY Zenon DEF Subscribers
<1>5. \A q \in Reqs : stage[q] = "wait" /\ Coalescible(r) /\ req[q].key = req[r].key => q \in ended
  BY Zenon DEF Subscribers
<1>6. r \in ended
  BY Zenon
<1> HIDE DEF ended
<1>7. Kinds'
  <2>1. "done" \in Stages
    BY Zenon DEF Stages
  <2>2. stage' \in [Reqs -> Stages]
    BY <1>1, <1>2, <2>1, Zenon DEF Kinds
  <2>3. legs' \in [Reqs -> [Leg -> LegStates]]
    BY <1>1, NoLegsUnused, Zenon DEF Kinds
  <2> QED
    BY <1>1, <1>2, <2>2, <2>3, Zenon DEF Kinds, Reqs
<1>8. \A q \in Reqs' : GoodNow(q)'
  <2>1. \A q \in Reqs : q # r => legs'[q] = legs[q]
    BY <1>1, Zenon DEF Kinds
  <2>2. legs'[r] = NoLegs
    BY <1>1, Zenon DEF Kinds
  <2>3. GoodNow(r)'
    <3>1. Good(req[r].unsafe, "done", attempt[r], "unused", "unused", sends[r], maybe[r])
      BY <1>1, RequestGood, RequestValues, StageKeepsGood, Zenon
    <3>2. stage'[r] = "done" /\ legs'[r][1] = "unused" /\ legs'[r][2] = "unused"
      BY <1>3, <1>6, <2>2, NoLegsUnused, Zenon
    <3> QED
      BY <3>1, <3>2, Zenon DEF GoodNow
  <2>4. ASSUME NEW q \in Reqs, q # r PROVE GoodNow(q)'
    <3>1. CASE q \in ended
      <4>1. stage[q] \in {"cache", "join", "wait"} /\ stage'[q] = "done" /\ "done" \in {"join", "wait", "fetch", "done"}
        BY <1>3, <1>4, <2>4, <3>1, Zenon
      <4>2. Good(req[q].unsafe, "done", attempt[q], legs[q][1], legs[q][2], sends[q], maybe[q])
        BY <1>1, <2>4, <4>1, RequestGood, RequestValues, EarlyGood, Zenon
      <4> QED
        BY <2>1, <2>4, <4>1, <4>2, Zenon DEF GoodNow
    <3>2. CASE q \notin ended
      BY <1>3, <2>1, <2>4, <3>2, Zenon DEF GoodNow, RlInv
    <3> QED
      BY <3>1, <3>2, Zenon
  <2> QED
    BY <2>3, <2>4, Zenon DEF Reqs
<1>9. Flights'
  <2>1. DOMAIN inflight' = Keys
    BY <1>1, <1>2, Zenon DEF Removed, Flights
  <2>2. \A k \in Keys : inflight'[k] = IF Coalescible(r) /\ k = req[r].key THEN {} ELSE inflight[k]
    BY <1>1, <1>2, Zenon DEF Removed, Flights
  <2>3. \A q : Coalescible(q)' = Coalescible(q)
    BY Zenon DEF Coalescible
  <2>4. \A k \in Keys : inflight'[k] = {} \/ \E q \in Reqs : inflight'[k] = {q}
    BY <1>1, <2>2, ZenonT(60) DEF Flights
  <2>5. ASSUME NEW k \in Keys, NEW q \in inflight'[k] PROVE stage'[q] \in {"fetch", "flying"} /\ req[q].key = k
    <3>1. q \in inflight[k] /\ ~(Coalescible(r) /\ k = req[r].key)
      BY <2>2, <2>5, Zenon
    <3>2. PICK o \in Reqs : inflight[k] = {o}
      BY <1>1, <3>1, Zenon DEF Flights
    <3>3. q \in Reqs /\ stage[q] \in {"fetch", "flying"} /\ req[q].key = k
      BY <1>1, <3>1, <3>2, Zenon DEF Flights, InflightLive
    <3>4. Coalescible(q)
      BY <3>3, RelayAssumption, Zenon DEF Coalescible, RelayAssumption
    <3>5. q # r
      BY <3>1, <3>3, <3>4, Zenon
    <3>6. q \notin ended
      BY <1>4, <3>3, <3>5, Zenon
    <3> QED
      BY <1>3, <3>3, <3>6, Zenon
  <2>6. ASSUME NEW q \in Reqs, stage'[q] \in {"fetch", "flying"}, Coalescible(q)
        PROVE  inflight'[req[q].key] = {q}
    <3>1. q \notin ended /\ stage[q] \in {"fetch", "flying"}
      BY <1>3, <2>6, Zenon
    <3>2. inflight[req[q].key] = {q} /\ req[q].key \in Keys
      BY <1>1, <2>6, <3>1, RequestValues, Zenon DEF Flights, InflightLive
    <3>3. Coalescible(r) => inflight[req[r].key] = {r}
      BY <1>1, Zenon DEF Flights, InflightLive
    <3>4. ~(Coalescible(r) /\ req[q].key = req[r].key)
      BY <1>6, <3>1, <3>2, <3>3, Zenon
    <3> QED
      BY <2>2, <3>2, <3>4, Zenon
  <2>7. ASSUME NEW q \in Reqs, stage'[q] \in {"join", "wait"} PROVE stage'[q] = stage[q] /\ q \notin ended /\ Coalescible(q)
    BY <1>1, <1>3, <2>7, Zenon DEF Flights
  <2>8. ASSUME NEW q \in Reqs, stage'[q] = "wait" PROVE inflight'[req[q].key] # {}
    <3>1. stage[q] = "wait" /\ q \notin ended /\ Coalescible(q)
      BY <2>7, <2>8, Zenon
    <3>2. req[q].key \in Keys /\ inflight[req[q].key] # {}
      BY <1>1, <3>1, RequestValues, Zenon DEF Flights, InflightLive
    <3>3. ~(Coalescible(r) /\ req[q].key = req[r].key)
      BY <1>5, <3>1, Zenon
    <3> QED
      BY <2>2, <3>2, <3>3, Zenon
  <2>9. InflightLive'
    BY <2>3, <2>5, <2>6, <2>8, Zenon DEF InflightLive, Reqs
  <2> QED
    BY <2>1, <2>3, <2>4, <2>7, <2>9, Zenon DEF Flights, Reqs
<1>10. NoReplayAfterMaybe
  BY Zenon DEF NoReplayAfterMaybe
<1> QED
  BY <1>7, <1>8, <1>9, <1>10, Zenon

\* The fetch fails or times out, and its subscribers get the error.
LEMMA ErrorKeeps ==
  ASSUME RlInv, NEW r \in Reqs, GiveUp(r) \/ TimeOut(r)
  PROVE  RlInv' /\ NoReplayAfterMaybe
<1>1. Kinds /\ Values
  BY Zenon DEF RlInv
<1>2. PICK code \in {"502", "504"} : Publish(r, Error(code))
  BY Zenon DEF GiveUp, TimeOut
<1>3. /\ stage[r] = "flying" /\ legs' = [legs EXCEPT ![r] = NoLegs]
      /\ UNCHANGED <<req, attempt, sends, maybe, cache, fetched, owner>>
  BY Zenon DEF GiveUp, TimeOut, Failed, NoLegs
<1>4. Kinds' /\ (\A q \in Reqs' : GoodNow(q)') /\ Flights' /\ NoReplayAfterMaybe
  BY <1>2, <1>3, PublishKeeps, Zenon
<1>5. Values'
  <2>1. \A q \in Reqs : answer'[q] = Error(code) \/ answer'[q] = answer[q]
    BY <1>2, Zenon DEF Publish
  <2>2. Error(code).st # "ok"
    BY <1>2, Zenon DEF Error
  <2>3. \A q \in Reqs : answer'[q].st = "ok" => answer'[q] = answer[q]
    BY <2>1, <2>2, Zenon
  <2>4. \A q \in Reqs : stage'[q] = "exit" => req[q].exit
    BY <1>1, <1>2, Zenon DEF Publish, Values
  <2>5. \A q \in Reqs : Coalescible(q) /\ ~req[q].exit /\ answer'[q].st = "ok"
                       => Mine(answer'[q].val, req[q].key, fetched, owner)
    BY <1>1, <2>3, Zenon DEF Values
  <2> QED
    BY <1>1, <1>3, <2>4, <2>5, Zenon DEF Values, Mine, Reqs, Coalescible
<1> QED
  BY <1>4, <1>5, Zenon DEF RlInv

\* The fetch is answered: the subscribers get the value, and the cache may keep it.
LEMMA SucceedKeeps ==
  ASSUME RlInv, NEW r \in Reqs, NEW cacheable \in BOOLEAN, Succeed(r, cacheable)
  PROVE  RlInv' /\ NoReplayAfterMaybe
<1> DEFINE v == fetched + 1  a == [st |-> "ok", val |-> v]
<1>1. Kinds /\ Values
  BY Zenon DEF RlInv
<1>2. /\ stage[r] = "flying" /\ legs' = [legs EXCEPT ![r] = NoLegs] /\ Publish(r, a)
      /\ UNCHANGED <<req, attempt, sends, maybe>>
      /\ fetched < MaxFetch /\ fetched' = v /\ owner' = [owner EXCEPT ![v] = req[r].key]
      /\ cache' = cache \/ (Coalescible(r) /\ cache' = [cache EXCEPT ![req[r].key] = v])
  BY Zenon DEF Succeed, NoLegs, Stored
<1>3. a.st = "ok" /\ a.val = v
  BY ZenonT(60)
<1>4. v \in Nat /\ v \in 1..v /\ v \in 0..MaxFetch /\ v \in 1..MaxFetch /\ fetched \in Nat
      /\ 1..fetched \subseteq (1..MaxFetch) \ {v}
  BY SMT, <1>1, <1>2, RelayAssumption DEF Values, RelayAssumption
<1> HIDE DEF v, a
<1>5. Kinds' /\ (\A q \in Reqs' : GoodNow(q)') /\ Flights' /\ NoReplayAfterMaybe
  BY <1>2, PublishKeeps, Zenon
<1>6. Values'
  <2>1. owner'[v] = req[r].key /\ DOMAIN owner' = 1..MaxFetch /\ \A w \in 1..fetched : owner'[w] = owner[w]
    BY <1>1, <1>2, <1>4, Zenon DEF Values
  <2>2. \A w, k : Mine(w, k, fetched, owner) => Mine(w, k, fetched', owner')
    BY <1>2, <1>4, <2>1, MineStays, Zenon DEF v
  <2>3. Mine(v, req[r].key, fetched', owner')
    BY <1>2, <1>4, <2>1, Zenon DEF Mine
  <2>4. cache' \in [Keys -> Nat] /\ \A k \in Keys : cache'[k] = cache[k] \/ (cache'[k] = v /\ k = req[r].key)
    BY <1>1, <1>2, <1>4, Zenon DEF Values
  <2>5. \A k \in Keys : cache'[k] = 0 \/ Mine(cache'[k], k, fetched', owner')
    BY <1>1, <2>2, <2>3, <2>4, Zenon DEF Values
  <2>6. \A q \in Reqs : answer'[q] = answer[q] \/ (answer'[q] = a /\ (q = r \/ req[q].key = req[r].key))
    BY <1>2, Zenon DEF Publish, Subscribers
  <2>7. ASSUME NEW q \in Reqs, Coalescible(q), ~req[q].exit, answer'[q].st = "ok"
        PROVE  Mine(answer'[q].val, req[q].key, fetched', owner')
    <3>1. CASE answer'[q] = answer[q]
      BY <1>1, <2>2, <2>7, <3>1, Zenon DEF Values
    <3>2. CASE answer'[q] = a /\ (q = r \/ req[q].key = req[r].key)
      <4>1. answer'[q].val = v /\ req[q].key = req[r].key
        BY <1>3, <3>2, Zenon
      <4> QED
        BY <2>3, <4>1, Zenon
    <3> QED
      BY <2>6, <3>1, <3>2, Zenon
  <2>8. \A q \in Reqs : stage'[q] = "exit" => req[q].exit
    BY <1>1, <1>2, Zenon DEF Publish, Values
  <2>9. fetched' \in 0..MaxFetch
    BY <1>2, <1>4, Zenon
  <2> QED
    BY <1>2, <2>1, <2>4, <2>5, <2>7, <2>8, <2>9, Zenon DEF Values, Reqs, Coalescible
<1> QED
  BY <1>5, <1>6, Zenon DEF RlInv

\* The cache drops an entry.
LEMMA ExpireKeeps ==
  ASSUME RlInv, NEW k \in Keys, Expire(k)
  PROVE  RlInv' /\ NoReplayAfterMaybe
<1>1. /\ cache' = [cache EXCEPT ![k] = 0]
      /\ UNCHANGED <<req, stage, attempt, legs, sends, maybe, answer, inflight, fetched, owner>>
  BY Zenon DEF Expire
<1>2. cache' \in [Keys -> Nat] /\ \A o \in Keys : cache'[o] = cache[o] \/ cache'[o] = 0
  <2>1. 0 \in Nat
    BY SMT
  <2> QED
    BY <1>1, <2>1, Zenon DEF RlInv, Values
<1>3. Values'
  BY <1>1, <1>2, Zenon DEF RlInv, Values, Mine, Reqs, Coalescible
<1>4. Kinds' /\ Flights' /\ (\A q \in Reqs' : GoodNow(q)') /\ NoReplayAfterMaybe
  BY <1>1, ZenonT(60) DEF RlInv, Kinds, Flights, InflightLive, GoodNow, NoReplayAfterMaybe, Reqs, Coalescible
<1> QED
  BY <1>3, <1>4, Zenon DEF RlInv

\* The invariant holds before any request starts.
LEMMA RelayInit ==
  ASSUME RlInit
  PROVE  RlInv
<1>1. Kinds
  <2>1. "new" \in Stages /\ "unused" \in LegStates /\ FALSE \in Flags
    BY Zenon DEF Stages, LegStates, Flags
  <2>2. 0 \in 0..2 /\ 0 \in Nat
    BY SMT
  <2> QED
    BY <2>1, <2>2, Zenon DEF Kinds, RlInit
<1>2. ASSUME NEW r \in Reqs PROVE GoodNow(r)
  <2>1. stage[r] = "new" /\ attempt[r] = 0 /\ legs[r] = NoLegs /\ sends[r] = 0 /\ maybe[r] = FALSE
    BY <1>2, Zenon DEF RlInit, NoLegs
  <2>2. legs[r][1] = "unused" /\ legs[r][2] = "unused"
    BY <2>1, NoLegsUnused, Zenon
  <2>3. \A u \in Flags : Good(u, "new", 0, "unused", "unused", 0, FALSE)
    BY SMT DEF Good, Spent, Flags
  <2>4. Good(req[r].unsafe, "new", 0, "unused", "unused", 0, FALSE)
    BY <1>1, <1>2, <2>3, RequestValues, Zenon
  <2> QED
    BY <2>1, <2>2, <2>4, Zenon DEF GoodNow
<1>3. \A r \in Reqs : stage[r] = "new" /\ answer[r] = NoAnswer
  BY Zenon DEF RlInit
<1>4. Flights
  BY <1>3, Zenon DEF Flights, InflightLive, RlInit
<1>5. Values
  <2>1. fetched \in 0..MaxFetch
    BY SMT, RelayAssumption DEF RlInit, RelayAssumption
  <2>2. \A r \in Reqs : answer[r].st # "ok"
    <3>1. NoAnswer.st # "ok"
      BY Zenon DEF NoAnswer
    <3> QED
      BY <1>3, <3>1, Zenon
  <2>3. DOMAIN owner = 1..MaxFetch /\ cache \in [Keys -> Nat] /\ \A k \in Keys : cache[k] = 0
    <3>1. 0 \in Nat
      BY SMT
    <3> QED
      BY <3>1, Zenon DEF RlInit
  <2> QED
    BY <1>3, <2>1, <2>2, <2>3, Zenon DEF Values
<1> QED
  BY <1>1, <1>2, <1>4, <1>5, Zenon DEF RlInv

\* Every step of relaying keeps the invariant and repeats no unsafe request.
LEMMA RelayStep ==
  ASSUME RlInv, [RlNext]_rlVars
  PROVE  RlInv' /\ (NoReplayAfterMaybe \/ UNCHANGED rlVars)
<1>1. ASSUME NEW r \in Reqs, ReqStep(r) PROVE RlInv' /\ NoReplayAfterMaybe
  BY <1>1, StartKeeps, CacheKeeps, JoinKeeps, DispatchKeeps, LegKeeps, ExitKeeps, SucceedKeeps,
     RetryKeeps, ErrorKeeps, Zenon DEF ReqStep
<1>2. ASSUME NEW k \in Keys, Expire(k) PROVE RlInv' /\ NoReplayAfterMaybe
  BY <1>2, ExpireKeeps, Zenon
<1>3. CASE UNCHANGED rlVars
  <2>1. UNCHANGED <<req, stage, attempt, legs, sends, maybe, answer, inflight, cache, fetched, owner>>
    BY <1>3, Zenon DEF rlVars
  <2>2. Kinds' /\ \A r \in Reqs' : GoodNow(r)'
    BY <2>1, Zenon DEF RlInv, Kinds, GoodNow, Reqs
  <2>3. Flights'
    BY <2>1, Zenon DEF RlInv, Flights, InflightLive, Reqs, Coalescible
  <2>4. Values'
    BY <2>1, Zenon DEF RlInv, Values, Mine, Reqs, Coalescible
  <2> QED
    BY <1>3, <2>2, <2>3, <2>4, Zenon DEF RlInv
<1> QED
  BY <1>1, <1>2, <1>3, Zenon DEF RlNext

\* The invariant always holds.
LEMMA RelayInvariant == RlSpec => []RlInv
<1>1. RlInv /\ [RlNext]_rlVars => RlInv'
  BY RelayStep, Zenon
<1> QED
  BY <1>1, RelayInit, PTL DEF RlSpec

(* The contract of relaying for any requests, keys and number of fetches,    *)
(* with every interleaving of cache hits, coalesced and separate fetches,    *)
(* fan-outs, fall backs, retries, timeouts and expiries: an unsafe request   *)
(* has one leg in flight, a subscriber waits only for a fetch that runs, no  *)
(* key is fetched twice at once, a shared answer was fetched for the key of  *)
(* the request that gets it, and no request is put on the wire more than     *)
(* five times (relay, relay_uncoalesced, do_relay_with_retry,                *)
(* do_relay_once_with).                                                      *)
THEOREM RelayAlwaysSound == RlSpec => []RelaySound
<1>1. ASSUME RlInv PROVE RelaySound
  <2>1. Kinds /\ Flights /\ Values
    BY <1>1, Zenon DEF RlInv
  <2>2. InflightLive
    BY <2>1, Zenon DEF Flights
  <2>3. SharedAnswerIsMine
    BY <2>1, Zenon DEF Values, Mine, SharedAnswerIsMine
  <2>4. ASSUME NEW r \in Reqs, req[r].unsafe PROVE \A l, m \in Running(r) : l = m
    <3>1. legs[r][2] = "unused"
      BY <1>1, <2>4, Zenon DEF RlInv, GoodNow, Good
    <3>2. Leg = {1, 2}
      BY SMT DEF Leg
    <3>3. Running(r) = {} \/ Running(r) = {1}
      BY <3>1, <3>2, Zenon DEF Running
    <3> QED
      BY <3>3, Zenon
  <2>5. ASSUME NEW r \in Reqs PROVE sends[r] \in 0..5
    <3>1. \A u \in Flags, st \in Stages, at \in 0..2, l1 \in LegStates, l2 \in LegStates, s \in Nat, m \in Flags :
            Good(u, st, at, l1, l2, s, m) => s \in 0..5
      BY SMT DEF Good, Spent, Cost, Stages, LegStates, Lost, Flags
    <3> QED
      BY <1>1, <2>1, <2>5, <3>1, RequestGood, RequestValues, Zenon
  <2>6. ASSUME NEW k \in Keys PROVE inflight[k] \subseteq Reqs /\ \A q, r \in inflight[k] : q = r
    <3>1. inflight[k] = {} \/ \E r \in Reqs : inflight[k] = {r}
      BY <2>1, <2>6, Zenon DEF Flights
    <3> QED
      BY <3>1, Zenon
  <2>7. ASSUME NEW k \in Keys PROVE cache[k] \in 0..fetched
    <3>1. fetched \in Nat /\ (cache[k] = 0 \/ cache[k] \in 1..fetched)
      BY SMT, <2>1, <2>7, RelayAssumption DEF Values, Mine, RelayAssumption
    <3> QED
      BY SMTT(60), <3>1
  <2>8. RlTypeOK
    <3>1. sends \in [Reqs -> 0..5]
      BY <2>1, <2>5, Zenon DEF Kinds
    <3>2. cache \in [Keys -> 0..fetched]
      BY <2>1, <2>7, Zenon DEF Values
    <3> QED
      BY <2>1, <2>6, <3>1, <3>2, Zenon DEF RlTypeOK, Kinds, Values, Stages, LegStates
  <2> QED
    BY <2>2, <2>3, <2>4, <2>8, Zenon DEF RelaySound, UnsafeNeverFansOut
<1> QED
  BY <1>1, RelayInvariant, PTL

(* Once an unsafe request has failed after it may have been processed, no    *)
(* step sends it again: neither the h1 fall back, the retry, the fan-out nor *)
(* the fall through from the exit node (RequestSent::Maybe).                 *)
THEOREM UnsafeNeverRepeated == RlSpec => [][NoReplayAfterMaybe]_rlVars
<1>1. RlInv /\ [RlNext]_rlVars => [NoReplayAfterMaybe]_rlVars
  BY RelayStep, Zenon
<1> QED
  BY <1>1, RelayInvariant, PTL DEF RlSpec
=============================================================================
