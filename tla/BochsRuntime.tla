---------------------------- MODULE BochsRuntime ----------------------------
(***************************************************************************)
(* BochsRuntime (UWP-Port/BochsRuntime.cpp): the object through which the  *)
(* XAML UI thread owns the emulator thread, composed with the core control *)
(* block of CoreControl.  The UI thread is the host thread of CoreControl; *)
(* the emulator thread runs BochsRuntime::Run (place epc), and inside it   *)
(* the core (place cpc).                                                   *)
(*                                                                         *)
(* m_started, m_paused and m_thread are touched by the UI thread alone, so *)
(* assignments to them are merged with the neighbouring access to shared   *)
(* state; m_running, m_exited, m_hasError, m_shutdownRequested and the     *)
(* g_ flags are shared, and each access is an action of its own.           *)
(***************************************************************************)
EXTENDS CoreControl

VARIABLES
    m_started, m_running, m_paused, m_shutdownRequested, m_exited, m_hasError,
    epc,          \* the emulator thread's place in Run; "none": no m_thread
    failed,       \* the core's result was not 0
    call,         \* the public operation the UI thread is in
    upc           \* its place in it

flags   == <<m_started, m_running, m_paused, m_shutdownRequested, m_exited, m_hasError>>
thread  == <<epc, failed>>
ui      == <<call, upc>>
vars    == <<coreVars, flags, thread, ui>>

(***************************************************************************)
(* Places of Run: begin (m_running = true is next), config (preparing the  *)
(* paths), check (the test of m_shutdownRequested), call (the call of the  *)
(* core), core (inside it), returned (the result is tested), error         *)
(* (SetLastError is next), stop and exit (the two last assignments),       *)
(* finished (the function has returned; the thread can be joined).         *)
(***************************************************************************)
RunPlaces == {"none", "begin", "config", "check", "call", "core", "returned",
              "error", "stop", "exit", "finished"}
Calls == {"none", "Pause", "Save", "RequestShutdown", "ShutdownEmulation"}
UIPlaces == {"idle", "wait", "waiting", "save", "saving",
             "stop", "bridge", "bridging", "join", "replace"}

TypeOK ==
    /\ CoreTypeOK
    /\ m_started \in BOOLEAN /\ m_running \in BOOLEAN /\ m_paused \in BOOLEAN
    /\ m_shutdownRequested \in BOOLEAN /\ m_exited \in BOOLEAN
    /\ m_hasError \in BOOLEAN
    /\ epc \in RunPlaces
    /\ failed \in BOOLEAN
    /\ call \in Calls
    /\ upc \in UIPlaces

\* BochsRuntime::BochsRuntime
Init ==
    /\ CoreInit
    /\ m_started = FALSE
    /\ m_running = FALSE
    /\ m_paused = TRUE
    /\ m_shutdownRequested = FALSE
    /\ m_exited = FALSE
    /\ m_hasError = FALSE
    /\ epc = "none"
    /\ failed = FALSE
    /\ call = "none"
    /\ upc = "idle"

-----------------------------------------------------------------------------
(* The emulator thread: BochsRuntime::Run.                                 *)

RunBegin ==
    /\ epc = "begin"
    /\ epc' = "config"
    /\ m_running' = TRUE
    /\ UNCHANGED <<coreVars, m_started, m_paused, m_shutdownRequested, m_exited,
                   m_hasError, failed, ui>>

RunConfig ==
    /\ epc = "config"
    /\ epc' = "check"
    /\ UNCHANGED <<coreVars, flags, failed, ui>>

\* Preparing the configuration, or the core itself before it starts, throws.
RunThrows ==
    /\ epc \in {"config", "call"}
    /\ epc' = "error"
    /\ UNCHANGED <<coreVars, flags, failed, ui>>

RunCheck ==
    /\ epc = "check"
    /\ epc' = IF m_shutdownRequested THEN "stop" ELSE "call"
    /\ UNCHANGED <<coreVars, flags, failed, ui>>

RunCall ==
    /\ epc = "call"
    /\ epc' = "core"
    /\ run_with_restore
    /\ UNCHANGED <<flags, failed, ui>>

\* Both paths are empty: the core returns -1 without touching its flags.
RunRefused ==
    /\ epc = "call"
    /\ epc' = "returned"
    /\ failed' = TRUE
    /\ UNCHANGED <<coreVars, flags, ui>>

RunReturns ==
    /\ epc = "core"
    /\ epc' = "returned"
    /\ set_core_not_running
    /\ failed' = (exitCode # 0)
    /\ UNCHANGED <<flags, ui>>

RunReport ==
    /\ epc = "returned"
    /\ epc' = IF ~m_shutdownRequested /\ failed THEN "error" ELSE "stop"
    /\ UNCHANGED <<coreVars, flags, failed, ui>>

SetLastError ==
    /\ epc = "error"
    /\ epc' = "stop"
    /\ m_hasError' = TRUE
    /\ UNCHANGED <<coreVars, m_started, m_running, m_paused, m_shutdownRequested,
                   m_exited, failed, ui>>

RunStop ==
    /\ epc = "stop"
    /\ epc' = "exit"
    /\ m_running' = FALSE
    /\ UNCHANGED <<coreVars, m_started, m_paused, m_shutdownRequested, m_exited,
                   m_hasError, failed, ui>>

RunExit ==
    /\ epc = "exit"
    /\ epc' = "finished"
    /\ m_exited' = TRUE
    /\ UNCHANGED <<coreVars, m_started, m_running, m_paused, m_shutdownRequested,
                   m_hasError, failed, ui>>

RunProgress ==
    \/ RunBegin \/ RunConfig \/ RunCheck \/ RunCall \/ RunReturns
    \/ RunReport \/ SetLastError \/ RunStop \/ RunExit

\* The steps inside bxmain leave the runtime alone.
CoreRuns    == CoreProgress /\ UNCHANGED <<flags, thread, ui>>
GuestActs   == GuestChoice /\ UNCHANGED <<flags, thread, ui>>
Wakes       == Wakeup /\ UNCHANGED <<flags, thread, ui>>

-----------------------------------------------------------------------------
(* The UI thread.                                                          *)

\* Mutant of StartThread: the core's pause request is not cleared.
StartThread_without_resume ==
    /\ upc = "idle"
    /\ ~m_started
    /\ m_started' = TRUE
    /\ m_shutdownRequested' = FALSE
    /\ m_exited' = FALSE
    /\ m_paused' = FALSE
    /\ m_hasError' = FALSE
    /\ epc' = "begin"
    /\ UNCHANGED <<coreVars, m_running, failed, ui>>

\* Mutant of StartThread: m_exited keeps the last session's value.
StartThread_keeps_exited ==
    /\ upc = "idle"
    /\ ~m_started
    /\ m_started' = TRUE
    /\ m_shutdownRequested' = FALSE
    /\ m_paused' = FALSE
    /\ m_hasError' = FALSE
    /\ bochs_core_uwp_resume
    /\ epc' = "begin"
    /\ UNCHANGED <<m_running, m_exited, failed, ui>>

\* Start on a runtime that is not started creates the thread.  Assigning to
\* an m_thread that is still joinable would end the process.
StartThread ==
    /\ upc = "idle"
    /\ ~m_started
    /\ m_started' = TRUE
    /\ m_shutdownRequested' = FALSE
    /\ m_exited' = FALSE
    /\ m_paused' = FALSE
    /\ m_hasError' = FALSE
    /\ bochs_core_uwp_resume
    /\ epc' = "begin"
    /\ UNCHANGED <<m_running, failed, ui>>

\* The same when std::thread throws.
StartFails ==
    /\ upc = "idle"
    /\ ~m_started
    /\ m_started' = FALSE
    /\ m_shutdownRequested' = FALSE
    /\ m_exited' = TRUE
    /\ m_paused' = FALSE
    /\ m_running' = FALSE
    /\ m_hasError' = TRUE
    /\ bochs_core_uwp_resume
    /\ UNCHANGED <<thread, ui>>

\* Resume, which is also what Start does on a started runtime.
Resume ==
    /\ upc = "idle"
    /\ m_started
    /\ m_paused' = FALSE
    /\ bochs_core_uwp_resume
    /\ UNCHANGED <<m_started, m_running, m_shutdownRequested, m_exited,
                   m_hasError, thread, ui>>

\* Pause, called by itself or by SaveStateIfPossible.
Pause(c) ==
    /\ upc = "idle"
    /\ c = "Save" => m_started /\ ~m_shutdownRequested
    /\ call' = c
    /\ upc' = "wait"
    /\ m_paused' = TRUE
    /\ bochs_core_uwp_pause
    /\ UNCHANGED <<m_started, m_running, m_shutdownRequested, m_exited,
                   m_hasError, thread>>

\* Where Pause's result leads: SaveStateIfPossible gives up on a timeout.
AfterPause(result) ==
    IF call = "Save" /\ result # "timeout" THEN "save" ELSE "idle"

PauseWaits ==
    /\ upc = "wait"
    /\ wait_until_paused
    /\ upc' = IF hpc' = "waiting" THEN "waiting" ELSE AfterPause(waited')
    /\ UNCHANGED <<flags, thread, call>>

PauseReturns ==
    /\ upc = "waiting"
    /\ wait_returns
    /\ upc' = AfterPause(waited')
    /\ UNCHANGED <<flags, thread, call>>

SaveState ==
    /\ upc = "save"
    /\ save_state
    /\ upc' = IF hpc' = "saving" THEN "saving" ELSE "idle"
    /\ UNCHANGED <<flags, thread, call>>

SaveStateEnds ==
    /\ upc = "saving"
    /\ save_state_ends
    /\ upc' = "idle"
    /\ UNCHANGED <<flags, thread, call>>

\* RequestShutdown, called by itself or by UWP_PortMain::ShutdownEmulation.
\* On a runtime already told to stop it only joins.
RequestShutdown(c) ==
    /\ upc = "idle"
    /\ call' = c
    /\ upc' = IF m_shutdownRequested THEN "join" ELSE "stop"
    /\ m_shutdownRequested' = TRUE
    /\ m_paused' = FALSE
    /\ UNCHANGED <<coreVars, m_started, m_running, m_exited, m_hasError, thread>>

ShutdownCore ==
    /\ upc = "stop"
    /\ bochs_core_uwp_request_shutdown
    /\ upc' = "bridge"
    /\ UNCHANGED <<flags, thread, call>>

\* Mutant of ShutdownBridge: the bridge is not told.
ShutdownBridge_skipped ==
    /\ upc = "bridge"
    /\ upc' = "join"
    /\ UNCHANGED <<coreVars, flags, thread, call>>

ShutdownBridge ==
    /\ upc = "bridge"
    /\ BridgeRequestShutdown
    /\ upc' = IF hpc' = "callback" THEN "bridging" ELSE "join"
    /\ UNCHANGED <<flags, thread, call>>

ShutdownCallback ==
    /\ upc = "bridging"
    /\ sink_shutdown_event \/ enqueue_shutdown
    /\ upc' = IF hpc' = "idle" THEN "join" ELSE "bridging"
    /\ UNCHANGED <<flags, thread, call>>

\* Mutant of Join: the thread is detached instead of joined.
Join_detaches ==
    /\ upc = "join"
    /\ m_running' = FALSE
    /\ m_started' = FALSE
    /\ m_exited' = TRUE
    /\ upc' = IF call = "ShutdownEmulation" THEN "replace" ELSE "idle"
    /\ UNCHANGED <<coreVars, m_paused, m_shutdownRequested, m_hasError, thread, call>>

\* join returns when Run has, and at once without a thread to join.
Join ==
    /\ upc = "join"
    /\ epc \in {"none", "finished"}
    /\ epc' = "none"
    /\ m_running' = FALSE
    /\ m_started' = FALSE
    /\ m_exited' = TRUE
    /\ upc' = IF call = "ShutdownEmulation" THEN "replace" ELSE "idle"
    /\ UNCHANGED <<coreVars, m_paused, m_shutdownRequested, m_hasError, failed, call>>

\* UWP_PortMain::ShutdownEmulation puts a new BochsRuntime in the old one's
\* place; the old one's destructor finds nothing left to join.
ReplaceRuntime ==
    /\ upc = "replace"
    /\ upc' = "idle"
    /\ m_started' = FALSE
    /\ m_running' = FALSE
    /\ m_paused' = TRUE
    /\ m_shutdownRequested' = FALSE
    /\ m_exited' = FALSE
    /\ m_hasError' = FALSE
    /\ UNCHANGED <<coreVars, thread, call>>

UIProgress ==
    \/ PauseWaits \/ PauseReturns \/ SaveState \/ SaveStateEnds
    \/ ShutdownCore \/ ShutdownBridge \/ ShutdownCallback \/ Join
    \/ ReplaceRuntime

UICall ==
    \/ StartThread \/ StartFails \/ Resume
    \/ \E c \in {"Pause", "Save"} : Pause(c)
    \/ \E c \in {"RequestShutdown", "ShutdownEmulation"} : RequestShutdown(c)

EmulatorProgress == RunProgress \/ CoreRuns
EmulatorChoice   == RunThrows \/ RunRefused \/ GuestActs

Next == UICall \/ UIProgress \/ EmulatorProgress \/ EmulatorChoice \/ Wakes

\* Both threads are scheduled.  Nothing obliges the user to call, the guest
\* to halt, wake or exit, or the configuration to fail.
Spec ==
    /\ Init
    /\ [][Next]_vars
    /\ WF_vars(EmulatorProgress)
    /\ WF_vars(UIProgress)

-----------------------------------------------------------------------------
(* Properties.                                                             *)

\* BochsRuntime's m_paused and the core's g_pauseRequested are two copies of
\* one intention.  Between two calls on a started runtime that was not told
\* to stop they agree, whatever Start, Pause, Save, Resume, a failed Start or
\* a replaced runtime came before.
PauseFlagsAgree ==
    upc = "idle" /\ m_started /\ ~m_shutdownRequested =>
        m_paused = g_pauseRequested

\* A runtime that is not started has no thread, and the core's process-wide
\* globals (SIM, the g_ flags) are used by no one: Start may assign m_thread
\* and a second session cannot overlap the first.
OneEmulator ==
    ~m_started => epc = "none" /\ cpc = "out"

\* HasExited, which MonitorStartupAfterDelay takes for "the emulator is gone",
\* is never true while the core still runs.
ExitedMeansCoreOut ==
    m_exited => cpc = "out" /\ ~g_running

\* A checkpoint that follows an observed pause is written while the emulator
\* thread stays parked and SIM exists: bochs_core_uwp_save_state releases
\* g_controlMutex before SIM->save_state, so nothing but the pause protects it.
SaveAfterObservedPauseIsQuiescent ==
    upc = "saving" /\ waited = "observed" => cpc = "parked" /\ sim

\* A shutdown event in the GUI's queue is addressed to the session that holds
\* the queue: none outlives the GUI object into a later session.
ShutdownEventIsForThisSession ==
    shutdownEvent => m_shutdownRequested /\ g_running

\* A core that is running when it is told to stop does stop, from any place:
\* parked, executing, or in the HLT loop, which does not poll and is reached
\* only by the bridge's event.
RunningCoreStops ==
    g_running /\ g_shutdownRequested ~> ~g_running

\* RequestShutdown returns: its join of the emulator thread ends, unless the
\* thread was just entering the core, which then erased the request.
JoinEnds ==
    upc = "join" ~> upc # "join" \/ (~g_shutdownRequested /\ cpc # "out")

=============================================================================
