------------------------ MODULE BochsRuntime_proofs ------------------------
(***************************************************************************)
(* Proofs about the two-thread lifecycle of BochsRuntime.                  *)
(*                                                                         *)
(* None of the safety properties is inductive: each speaks of the g_ flags *)
(* or of cpc, and is kept by facts about where the two threads are.  RtInv *)
(* adds those facts; it is one conjunction, kept by every action.          *)
(***************************************************************************)
EXTENDS BochsRuntime, TLAPS

WithSim    == {"main", "gui", "poll", "parked", "exec", "halt",
               "atexit", "cleanup", "unsim"}
WithGui    == {"gui", "poll", "parked", "exec", "halt", "atexit", "cleanup"}

\* The emulator thread is inside the core exactly while Run is at its call of
\* it, and g_running says so; SIM and the GUI live inside that span.
PlacesAgree ==
    /\ g_running <=> cpc # "out"
    /\ epc = "core" <=> cpc # "out"
    /\ cpc \in WithSim => sim
    /\ gui => cpc \in WithGui
    /\ shutdownEvent => gui

\* What the UI thread may rely on at each of its places.
UIAgrees ==
    /\ ~m_started => epc = "none"
    /\ m_exited => epc \in {"none", "finished"}
    /\ upc \in {"stop", "bridge", "bridging", "join"} => m_shutdownRequested
    /\ hpc \in {"callback", "deref"} => upc = "bridging"
    /\ upc = "replace" => epc = "none"
    /\ m_started /\ ~m_shutdownRequested => m_paused = g_pauseRequested
    /\ shutdownEvent => m_shutdownRequested

\* A save that follows an observed pause finds the thread parked, and the
\* condition it waits for stays false.
SaveAgrees ==
    upc \in {"save", "saving"} /\ waited = "observed" =>
        cpc = "parked" /\ g_pauseRequested /\ ~g_shutdownRequested

RtInv == TypeOK /\ ObservedMeansParked /\ NoLostWakeup /\ PlacesAgree /\ UIAgrees /\ SaveAgrees

\* The new runtime, with no thread and an idle core, satisfies RtInv.
LEMMA InitInv == Init => RtInv
  BY
    DEF Init, CoreInit, RtInv, TypeOK, CoreTypeOK, ObservedMeansParked,
        NoLostWakeup, Outcome, Released, Unparked, PlacesAgree, UIAgrees,
        SaveAgrees, Places, HostPlaces, Threads, notify_all, RunPlaces, Calls,
        UIPlaces, WithSim, WithGui

\* The emulator thread inside bxmain keeps RtInv: its starts, polls, parks,
\* exits and teardown, and what the guest makes it do.
LEMMA CoreInv ==
  ASSUME RtInv, CoreProgress \/ GuestChoice, UNCHANGED <<flags, thread, ui>>
  PROVE  RtInv'
  <1> USE DEF RtInv, TypeOK, CoreTypeOK, ObservedMeansParked, NoLostWakeup,
              Outcome, Released, Unparked, PlacesAgree, UIAgrees, SaveAgrees,
              Places, HostPlaces, Threads, notify_all, RunPlaces, Calls,
              UIPlaces, WithSim, WithGui, control, requests, objects, host,
              flags, thread, ui
  <1>1. CASE init_siminterface
    BY <1>1 DEF init_siminterface
  <1>2. CASE \E d \in Displays : init_gui(d)
    BY <1>2 DEF init_gui
  <1>3. CASE init_done
    BY <1>3 DEF init_done
  <1>4. CASE poll
    <2>1. g_pauseObserved' \in BOOLEAN /\ blocked' \in SUBSET Threads
      <3>1. CASE blocked' = {"emulator"} /\ g_pauseObserved' = TRUE
        BY <3>1
      <3>2. CASE UNCHANGED <<g_pauseObserved, blocked>>
        BY <3>2
      <3> QED
        BY <1>4, <3>1, <3>2 DEF poll
    <2>2. TypeOK'
      BY <1>4, <2>1 DEF poll
    <2>3. ObservedMeansParked' /\ NoLostWakeup' /\ PlacesAgree' /\ UIAgrees' /\ SaveAgrees'
      BY <1>4 DEF poll
    <2> QED
      BY <2>2, <2>3
  <1>5. CASE poll_wakes
    <2>1. g_pauseObserved' \in BOOLEAN
      BY <1>5, Zenon DEF poll_wakes
    <2>2. TypeOK'
      BY <1>5, <2>1 DEF poll_wakes
    <2>3. ObservedMeansParked' /\ NoLostWakeup' /\ PlacesAgree' /\ UIAgrees' /\ SaveAgrees'
      BY <1>5 DEF poll_wakes
    <2> QED
      BY <2>2, <2>3
  <1>15. CASE poll_waits_on
    <2>1. blocked' \in SUBSET Threads
      BY <1>15 DEF poll_waits_on, core
    <2>2. TypeOK'
      BY <1>15, <2>1 DEF poll_waits_on, core
    <2>3. ObservedMeansParked' /\ NoLostWakeup' /\ PlacesAgree' /\ UIAgrees' /\ SaveAgrees'
      BY <1>15 DEF poll_waits_on, core
    <2> QED
      BY <2>2, <2>3
  <1>6. CASE execute
    BY <1>6 DEF execute
  <1>7. CASE handle_events
    <2>1. shutdownEvent' \in BOOLEAN
      BY <1>7, Zenon DEF handle_events
    <2>2. TypeOK'
      BY <1>7, <2>1 DEF handle_events
    <2>3. ObservedMeansParked' /\ NoLostWakeup' /\ PlacesAgree' /\ UIAgrees' /\ SaveAgrees'
      BY <1>7 DEF handle_events
    <2> QED
      BY <2>2, <2>3
  <1>8. CASE atexit
    <2>1. sink' \in BOOLEAN
      BY <1>8, Zenon DEF atexit
    <2>2. TypeOK'
      BY <1>8, <2>1 DEF atexit
    <2>3. ObservedMeansParked' /\ NoLostWakeup' /\ PlacesAgree' /\ UIAgrees' /\ SaveAgrees'
      BY <1>8 DEF atexit
    <2> QED
      BY <2>2, <2>3
  <1>9. CASE plugin_cleanup
    <2>1. /\ gui' \in BOOLEAN
          /\ shutdownEvent' \in BOOLEAN
      BY <1>9, Zenon DEF plugin_cleanup
    <2>2. TypeOK'
      BY <1>9, <2>1 DEF plugin_cleanup
    <2>3. ObservedMeansParked' /\ NoLostWakeup' /\ PlacesAgree' /\ UIAgrees' /\ SaveAgrees'
      BY <1>9 DEF plugin_cleanup
    <2> QED
      BY <2>2, <2>3
  <1>10. CASE cleanup_siminterface
    <2>1. sim' \in BOOLEAN
      BY <1>10, Zenon DEF cleanup_siminterface
    <2>2. TypeOK'
      BY <1>10, <2>1 DEF cleanup_siminterface
    <2>3. ObservedMeansParked' /\ NoLostWakeup' /\ PlacesAgree' /\ UIAgrees' /\ SaveAgrees'
      BY <1>10 DEF cleanup_siminterface
    <2> QED
      BY <2>2, <2>3
  <1>11. CASE init_main_fails
    BY <1>11 DEF init_main_fails
  <1>12. CASE init_panics
    BY <1>12 DEF init_panics
  <1>13. CASE wait_for_event_ends
    BY <1>13 DEF wait_for_event_ends
  <1>14. CASE \E code \in {0, 1} : simulation_exits(code)
    BY <1>14 DEF simulation_exits
  <1> QED
    BY <1>1, <1>2, <1>3, <1>4, <1>5, <1>6, <1>7, <1>8, <1>9, <1>10, <1>11,
       <1>12, <1>13, <1>14, <1>15
    DEF CoreProgress, GuestChoice

\* Wakeups that no notification made, or that find nothing to go on for.
LEMMA WakeInv ==
  ASSUME RtInv, Wakes
  PROVE  RtInv'
  <1> USE DEF RtInv, TypeOK, CoreTypeOK, ObservedMeansParked, NoLostWakeup,
              Outcome, Released, Unparked, PlacesAgree, UIAgrees, SaveAgrees,
              requests, core, objects, host, flags, thread, ui
  <1>1. UNCHANGED <<requests, core, objects, host, flags, thread, ui>>
    BY DEF Wakes, Wakeup, wait_goes_on, spurious_wakeup
  <1>2. blocked' \in SUBSET Threads
    BY DEF Wakes, Wakeup, wait_goes_on, spurious_wakeup, Threads
  <1>3. NoLostWakeup'
    <2>1. CASE wait_goes_on
      BY <1>1, <2>1 DEF wait_goes_on
    <2>2. CASE \E t \in Threads : spurious_wakeup(t)
      BY <1>1, <2>2 DEF spurious_wakeup
    <2> QED
      BY <2>1, <2>2 DEF Wakes, Wakeup
  <1> HIDE DEF NoLostWakeup
  <1>4. TypeOK'
    BY <1>1, <1>2
  <1>5. ObservedMeansParked' /\ PlacesAgree' /\ UIAgrees' /\ SaveAgrees'
    BY <1>1
  <1> QED
    BY <1>3, <1>4, <1>5

\* BochsRuntime::Run keeps RtInv around the core.
LEMMA RunInv ==
  ASSUME RtInv, RunProgress \/ RunThrows \/ RunRefused
  PROVE  RtInv'
  <1> USE DEF RtInv, TypeOK, CoreTypeOK, ObservedMeansParked, NoLostWakeup,
              Outcome, Released, Unparked, PlacesAgree, UIAgrees, SaveAgrees,
              Places, HostPlaces, Threads, notify_all, RunPlaces, Calls,
              UIPlaces, WithSim, WithGui, coreVars, control, requests, core,
              objects, host, flags, ui
  <1>1. CASE RunBegin
    BY <1>1 DEF RunBegin
  <1>2. CASE RunConfig
    BY <1>2 DEF RunConfig
  <1>3. CASE RunThrows
    BY <1>3 DEF RunThrows
  <1>4. CASE RunCheck
    BY <1>4 DEF RunCheck
  <1>5. CASE RunCall
    <2>1. /\ g_shutdownRequested' \in BOOLEAN
          /\ g_pauseObserved' \in BOOLEAN
      BY <1>5, Zenon DEF RunCall, run_with_restore
    <2>2. TypeOK'
      BY <1>5, <2>1 DEF RunCall, run_with_restore
    <2>3. ObservedMeansParked' /\ NoLostWakeup' /\ PlacesAgree' /\ UIAgrees' /\ SaveAgrees'
      BY <1>5 DEF RunCall, run_with_restore
    <2> QED
      BY <2>2, <2>3
  <1>6. CASE RunRefused
    BY <1>6 DEF RunRefused
  <1>7. CASE RunReturns
    <2>1. /\ g_running' \in BOOLEAN
          /\ g_pauseObserved' \in BOOLEAN
          /\ failed' \in BOOLEAN
      BY <1>7, Zenon DEF RunReturns, set_core_not_running
    <2>2. TypeOK'
      BY <1>7, <2>1 DEF RunReturns, set_core_not_running
    <2>3. ObservedMeansParked' /\ NoLostWakeup' /\ PlacesAgree' /\ UIAgrees' /\ SaveAgrees'
      BY <1>7 DEF RunReturns, set_core_not_running
    <2> QED
      BY <2>2, <2>3
  <1>8. CASE RunReport
    BY <1>8 DEF RunReport
  <1>9. CASE SetLastError
    BY <1>9 DEF SetLastError
  <1>10. CASE RunStop
    <2>1. m_running' \in BOOLEAN
      BY <1>10, Zenon DEF RunStop
    <2>2. TypeOK'
      BY <1>10, <2>1 DEF RunStop
    <2>3. ObservedMeansParked' /\ NoLostWakeup' /\ PlacesAgree' /\ UIAgrees' /\ SaveAgrees'
      BY <1>10 DEF RunStop
    <2> QED
      BY <2>2, <2>3
  <1>11. CASE RunExit
    BY <1>11 DEF RunExit
  <1> QED
    BY <1>1, <1>2, <1>3, <1>4, <1>5, <1>6, <1>7, <1>8, <1>9, <1>10, <1>11
    DEF RunProgress

\* The UI thread keeps RtInv: Start, Pause, Resume, Save, shutdown and join.
LEMMA UIInv ==
  ASSUME RtInv, UICall \/ UIProgress
  PROVE  RtInv'
  <1> USE DEF RtInv, TypeOK, CoreTypeOK, ObservedMeansParked, NoLostWakeup,
              Outcome, Released, Unparked, PlacesAgree, UIAgrees, SaveAgrees,
              Places, HostPlaces, Threads, notify_all, RunPlaces, Calls,
              UIPlaces, WithSim, WithGui, coreVars, control, requests, core,
              objects, host, flags, thread, ui
  <1>1. CASE StartThread
    <2>1. /\ m_shutdownRequested' \in BOOLEAN
          /\ m_exited' \in BOOLEAN
          /\ m_paused' \in BOOLEAN
          /\ m_hasError' \in BOOLEAN
          /\ g_pauseRequested' \in BOOLEAN
          /\ g_pauseObserved' \in BOOLEAN
      BY <1>1, Zenon DEF StartThread, bochs_core_uwp_resume
    <2>2. TypeOK'
      BY <1>1, <2>1 DEF StartThread, bochs_core_uwp_resume
    <2>3. ObservedMeansParked' /\ NoLostWakeup' /\ PlacesAgree' /\ UIAgrees' /\ SaveAgrees'
      BY <1>1 DEF StartThread, bochs_core_uwp_resume
    <2> QED
      BY <2>2, <2>3
  <1>2. CASE StartFails
    <2>1. /\ m_started' \in BOOLEAN
          /\ m_shutdownRequested' \in BOOLEAN
          /\ m_paused' \in BOOLEAN
          /\ m_running' \in BOOLEAN
          /\ g_pauseRequested' \in BOOLEAN
          /\ g_pauseObserved' \in BOOLEAN
      BY <1>2, Zenon DEF StartFails, bochs_core_uwp_resume
    <2>2. TypeOK'
      BY <1>2, <2>1 DEF StartFails, bochs_core_uwp_resume
    <2>3. ObservedMeansParked' /\ NoLostWakeup' /\ PlacesAgree' /\ UIAgrees' /\ SaveAgrees'
      BY <1>2 DEF StartFails, bochs_core_uwp_resume
    <2> QED
      BY <2>2, <2>3
  <1>3. CASE Resume
    <2>1. /\ m_paused' \in BOOLEAN
          /\ g_pauseRequested' \in BOOLEAN
          /\ g_pauseObserved' \in BOOLEAN
      BY <1>3, Zenon DEF Resume, bochs_core_uwp_resume
    <2>2. TypeOK'
      BY <1>3, <2>1 DEF Resume, bochs_core_uwp_resume
    <2>3. ObservedMeansParked' /\ NoLostWakeup' /\ PlacesAgree' /\ UIAgrees' /\ SaveAgrees'
      BY <1>3 DEF Resume, bochs_core_uwp_resume
    <2> QED
      BY <2>2, <2>3
  <1>4. CASE \E c \in {"Pause", "Save"} : Pause(c)
    BY <1>4 DEF Pause, bochs_core_uwp_pause
  <1>5. CASE \E c \in {"RequestShutdown", "ShutdownEmulation"} : RequestShutdown(c)
    <2>1. m_paused' \in BOOLEAN
      BY <1>5, Zenon DEF RequestShutdown
    <2>2. TypeOK'
      BY <1>5, <2>1 DEF RequestShutdown
    <2>3. ObservedMeansParked' /\ NoLostWakeup' /\ PlacesAgree' /\ UIAgrees' /\ SaveAgrees'
      BY <1>5 DEF RequestShutdown
    <2> QED
      BY <2>2, <2>3
  <1>6. CASE PauseWaits
    <2>1. CASE Released \/ g_pauseObserved
      <3>1. /\ UNCHANGED <<hpc, blocked, requests, core, objects, flags, thread, call>>
            /\ waited' = IF Released THEN "released" ELSE "observed"
            /\ upc' \in {"idle", "save"}
            /\ upc = "wait"
        BY <1>6, <2>1 DEF PauseWaits, wait_until_paused, AfterPause
      <3> QED
        BY <2>1, <3>1
    <2>2. CASE ~(Released \/ g_pauseObserved)
      <3>1. /\ hpc' = "waiting"
            /\ blocked' = blocked \cup {"host"}
            /\ UNCHANGED <<waited, requests, core, objects, flags, thread, call>>
            /\ upc' = "waiting"
        BY <1>6, <2>2, Zenon DEF PauseWaits, wait_until_paused
      <3>2. blocked' \in SUBSET Threads
        BY <3>1
      <3>3. TypeOK'
        BY <3>1, <3>2
      <3>4. ObservedMeansParked' /\ NoLostWakeup' /\ PlacesAgree' /\ UIAgrees' /\ SaveAgrees'
        BY <2>2, <3>1
      <3> QED
        BY <3>3, <3>4
    <2> QED
      BY <2>1, <2>2
  <1>7. CASE PauseReturns
    BY <1>7 DEF PauseReturns, wait_returns, AfterPause
  <1>8. CASE SaveState
    BY <1>8 DEF SaveState, save_state
  <1>9. CASE SaveStateEnds
    BY <1>9 DEF SaveStateEnds, save_state_ends
  <1>10. CASE ShutdownCore
    <2>1. /\ g_pauseRequested' \in BOOLEAN
          /\ g_pauseObserved' \in BOOLEAN
      BY <1>10, Zenon DEF ShutdownCore, bochs_core_uwp_request_shutdown
    <2>2. TypeOK'
      BY <1>10, <2>1 DEF ShutdownCore, bochs_core_uwp_request_shutdown
    <2>3. ObservedMeansParked' /\ NoLostWakeup' /\ PlacesAgree' /\ UIAgrees' /\ SaveAgrees'
      BY <1>10 DEF ShutdownCore, bochs_core_uwp_request_shutdown
    <2> QED
      BY <2>2, <2>3
  <1>11. CASE ShutdownBridge
    BY <1>11 DEF ShutdownBridge, BridgeRequestShutdown
  <1>12. CASE ShutdownCallback
    <2>1. CASE sink_shutdown_event
      <3>1. TypeOK'
        BY <1>12, <2>1 DEF ShutdownCallback, sink_shutdown_event
      <3>2. ObservedMeansParked' /\ NoLostWakeup' /\ PlacesAgree' /\ UIAgrees' /\ SaveAgrees'
        BY <1>12, <2>1 DEF ShutdownCallback, sink_shutdown_event
      <3> QED
        BY <3>1, <3>2
    <2>2. CASE enqueue_shutdown
      <3>1. TypeOK'
        BY <1>12, <2>2 DEF ShutdownCallback, enqueue_shutdown
      <3>2. ObservedMeansParked' /\ NoLostWakeup' /\ PlacesAgree' /\ UIAgrees' /\ SaveAgrees'
        BY <1>12, <2>2 DEF ShutdownCallback, enqueue_shutdown
      <3> QED
        BY <3>1, <3>2
    <2> QED
      BY <1>12, <2>1, <2>2 DEF ShutdownCallback
  <1>13. CASE Join
    <2>1. /\ m_running' \in BOOLEAN
          /\ m_started' \in BOOLEAN
      BY <1>13, Zenon DEF Join
    <2>2. TypeOK'
      BY <1>13, <2>1 DEF Join
    <2>3. ObservedMeansParked' /\ NoLostWakeup' /\ PlacesAgree' /\ UIAgrees' /\ SaveAgrees'
      BY <1>13 DEF Join
    <2> QED
      BY <2>2, <2>3
  <1>14. CASE ReplaceRuntime
    <2>1. /\ m_started' \in BOOLEAN
          /\ m_running' \in BOOLEAN
          /\ m_shutdownRequested' \in BOOLEAN
          /\ m_exited' \in BOOLEAN
          /\ m_hasError' \in BOOLEAN
      BY <1>14, Zenon DEF ReplaceRuntime
    <2>2. TypeOK'
      BY <1>14, <2>1 DEF ReplaceRuntime
    <2>3. ObservedMeansParked' /\ NoLostWakeup' /\ PlacesAgree' /\ UIAgrees' /\ SaveAgrees'
      BY <1>14 DEF ReplaceRuntime
    <2> QED
      BY <2>2, <2>3
  <1> QED
    BY <1>1, <1>2, <1>3, <1>4, <1>5, <1>6, <1>7, <1>8, <1>9, <1>10, <1>11,
       <1>12, <1>13, <1>14
    DEF UICall, UIProgress

\* RtInv is inductive: every step of either thread keeps it.
LEMMA NextInv == RtInv /\ [Next]_vars => RtInv'
  <1> SUFFICES ASSUME RtInv, [Next]_vars
               PROVE  RtInv'
    OBVIOUS
  <1>1. CASE UICall \/ UIProgress
    BY <1>1, UIInv
  <1>2. CASE EmulatorProgress \/ EmulatorChoice
    <2>1. CASE RunProgress \/ RunThrows \/ RunRefused
      BY <2>1, RunInv
    <2>2. CASE CoreRuns \/ GuestActs
      BY <2>2, CoreInv DEF CoreRuns, GuestActs
    <2> QED
      BY <1>2, <2>1, <2>2 DEF EmulatorProgress, EmulatorChoice
  <1>4. CASE Wakes
    BY <1>4, WakeInv
  <1>3. CASE UNCHANGED vars
    BY <1>3 DEF vars, coreVars, control, requests, core, objects, host, flags,
                thread, ui, RtInv, TypeOK, CoreTypeOK, ObservedMeansParked,
                NoLostWakeup, Outcome, Released, Unparked, PlacesAgree,
                UIAgrees, SaveAgrees
  <1> QED
    BY <1>1, <1>2, <1>3, <1>4 DEF Next

\* The inductive invariant holds throughout: in every reachable state the two
\* threads' places, the two copies of the pause flag and the lifetimes of SIM
\* and the GUI agree.
THEOREM Invariant == Spec => []RtInv
  BY InitInv, NextInv, PTL DEF Spec

\* Every flag and every place of the two threads stays in its type.
THEOREM Types == Spec => []TypeOK
  <1>1. RtInv => TypeOK
    BY DEF RtInv
  <1> QED
    BY <1>1, Invariant, PTL

\* A pause wait_until_paused reports as observed is a thread parked in
\* bochs_core_uwp_poll, with the request standing and no shutdown pending.
THEOREM PauseObserved == Spec => []ObservedMeansParked
  <1>1. RtInv => ObservedMeansParked
    BY DEF RtInv
  <1> QED
    BY <1>1, Invariant, PTL

\* No thread stays blocked on g_controlChanged once what it waits for is true:
\* every step that can make it true notifies, and blocking is one step with the
\* test of the predicate.
THEOREM WakeupsArrive == Spec => []NoLostWakeup
  <1>1. RtInv => NoLostWakeup
    BY DEF RtInv
  <1> QED
    BY <1>1, Invariant, PTL

\* m_paused and g_pauseRequested agree between the calls on a started runtime,
\* across failed starts, saves and replaced runtimes.
THEOREM PauseCopies == Spec => []PauseFlagsAgree
  <1>1. RtInv => PauseFlagsAgree
    BY DEF RtInv, UIAgrees, PauseFlagsAgree
  <1> QED
    BY <1>1, Invariant, PTL

\* A runtime that is not started has no thread, and no one is in the core: two
\* sessions never share SIM or the g_ flags.
THEOREM SingleSession == Spec => []OneEmulator
  <1>1. RtInv => OneEmulator
    BY DEF RtInv, UIAgrees, PlacesAgree, OneEmulator
  <1> QED
    BY <1>1, Invariant, PTL

\* HasExited is never true while the core runs.
THEOREM ExitIsFinal == Spec => []ExitedMeansCoreOut
  <1>1. RtInv => ExitedMeansCoreOut
    BY DEF RtInv, UIAgrees, PlacesAgree, ExitedMeansCoreOut
  <1> QED
    BY <1>1, Invariant, PTL

\* A checkpoint that follows an observed pause is written with the emulator
\* thread parked and SIM alive until the write ends.
THEOREM QuiescentSave == Spec => []SaveAfterObservedPauseIsQuiescent
  <1>1. RtInv => SaveAfterObservedPauseIsQuiescent
    BY DEF RtInv, SaveAgrees, PlacesAgree, WithSim,
           SaveAfterObservedPauseIsQuiescent
  <1> QED
    BY <1>1, Invariant, PTL

\* A queued shutdown event belongs to the session that was told to stop.
THEOREM NoStaleShutdown == Spec => []ShutdownEventIsForThisSession
  <1>1. RtInv => ShutdownEventIsForThisSession
    BY DEF RtInv, UIAgrees, PlacesAgree, WithGui, ShutdownEventIsForThisSession
  <1> QED
    BY <1>1, Invariant, PTL

=============================================================================
