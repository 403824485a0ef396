---------------------------- MODULE CoreControl ----------------------------
(***************************************************************************)
(* The control block of the packaged Bochs core (bochs_core_uwp.cpp): four *)
(* flags under g_controlMutex, through which the host thread pauses,       *)
(* resumes, saves and stops the emulator thread, and the part of the       *)
(* emulator thread the flags steer: bxmain, the CPU loop with its polls,   *)
(* the HLT loop, and the teardown of the GUI plugin and of SIM.            *)
(*                                                                         *)
(* Two threads: the emulator thread, whose place is cpc, and one host      *)
(* thread (the XAML UI thread), whose place inside a core or bridge call   *)
(* is hpc.  A region under g_controlMutex is one action.  A thread that    *)
(* waits on g_controlChanged is in blocked until a notify_all or a         *)
(* spurious wakeup takes it out; it then tests the predicate of its wait,  *)
(* and goes on or blocks again.                                            *)
(***************************************************************************)
EXTENDS Naturals

CONSTANT Displays     \* the display_library values a session may select

ASSUME DisplaysAssumption == Displays \subseteq {"uwp_dx", "rfb"} /\ Displays # {}

VARIABLES
    g_running,            \* the emulator thread is inside the core
    g_pauseRequested,
    g_pauseObserved,      \* the emulator thread is parked in poll
    g_shutdownRequested,
    blocked,              \* the threads blocked on g_controlChanged
    cpc,                  \* the emulator thread's place in the core
    exitCode,             \* SIM's exit code, the result of bxmain
    display,              \* the display library of this session
    sim,                  \* SIM # NULL
    gui,                  \* theGui # NULL, the uwp_dx GUI object
    sink,                 \* the bridge holds the GUI's callbacks (g_sink)
    shutdownEvent,        \* UWP_DX_EVENT_SHUTDOWN is in the GUI's event_queue
    hpc,                  \* the host thread's place in a core or bridge call
    waited                \* how the last wait_until_paused ended

requests == <<g_running, g_pauseRequested, g_pauseObserved, g_shutdownRequested>>
control == <<requests, blocked>>
objects == <<display, sim, gui, sink, shutdownEvent>>
core    == <<cpc, exitCode>>
host    == <<hpc, waited>>
coreVars == <<control, core, objects, host>>

(***************************************************************************)
(* The places of the emulator thread:                                      *)
(*   out      outside bochs_core_uwp_run_with_restore                      *)
(*   entered  g_running is set, SIM not created yet                        *)
(*   main     bx_init_main and the configuration interface                 *)
(*   gui      the GUI plugin is loaded, the hardware is being initialised  *)
(*   poll     at a call of bochs_core_uwp_poll in the CPU loop             *)
(*   parked   inside poll, waiting for resume or shutdown                  *)
(*   exec     executing a trace                                            *)
(*   halt     in the HLT loop of handleWaitForEvent, which never polls     *)
(*   atexit   bx_atexit is to run                                          *)
(*   cleanup  plugin_cleanup is to run                                     *)
(*   unsim    bx_cleanup_siminterface is to run                            *)
(*   left     bxmain has returned, set_core_running(false) is to run       *)
(***************************************************************************)
Places == {"out", "entered", "main", "gui", "poll", "parked", "exec", "halt",
           "atexit", "cleanup", "unsim", "left"}
HostPlaces == {"idle", "waiting", "saving", "callback", "deref"}
Threads == {"emulator", "host"}

CoreTypeOK ==
    /\ g_running \in BOOLEAN
    /\ g_pauseRequested \in BOOLEAN
    /\ g_pauseObserved \in BOOLEAN
    /\ g_shutdownRequested \in BOOLEAN
    /\ blocked \subseteq Threads
    /\ cpc \in Places
    /\ exitCode \in {0, 1}
    /\ display \in Displays
    /\ sim \in BOOLEAN
    /\ gui \in BOOLEAN
    /\ sink \in BOOLEAN
    /\ shutdownEvent \in BOOLEAN
    /\ hpc \in HostPlaces
    /\ waited \in {"none", "observed", "released", "timeout"}

CoreInit ==
    /\ g_running = FALSE
    /\ g_pauseRequested = FALSE
    /\ g_pauseObserved = FALSE
    /\ g_shutdownRequested = FALSE
    /\ blocked = {}
    /\ cpc = "out"
    /\ exitCode = 0
    /\ display \in Displays
    /\ sim = FALSE
    /\ gui = FALSE
    /\ sink = FALSE
    /\ shutdownEvent = FALSE
    /\ hpc = "idle"
    /\ waited = "none"

\* g_controlChanged.notify_all()
notify_all == blocked' = {}

-----------------------------------------------------------------------------
(* The emulator thread.                                                    *)

\* bochs_core_uwp_run_with_restore, up to the call of bxmain.  It notifies
\* after it has released the mutex: a thread that begins to wait in between
\* is woken for nothing, as by a spurious wakeup.
run_with_restore ==
    /\ cpc = "out"
    /\ cpc' = "entered"
    /\ g_shutdownRequested' = FALSE
    /\ g_pauseObserved' = FALSE
    /\ g_running' = TRUE
    /\ notify_all
    /\ UNCHANGED <<g_pauseRequested, exitCode, objects, host>>

\* bxmain: SIM is created unless an earlier run left it behind.
init_siminterface ==
    /\ cpc = "entered"
    /\ cpc' = "main"
    /\ sim' = TRUE
    /\ exitCode' = IF sim THEN exitCode ELSE 0
    /\ UNCHANGED <<control, display, gui, sink, shutdownEvent, host>>

\* bx_init_main returned an error: bxmain returns 0 and deletes nothing.
init_main_fails ==
    /\ cpc = "main"
    /\ cpc' = "left"
    /\ UNCHANGED <<control, exitCode, objects, host>>

\* bx_begin_simulation loads the display library the configuration names;
\* the uwp_dx GUI installs its callbacks when it is initialised.
init_gui(d) ==
    /\ cpc = "main"
    /\ cpc' = "gui"
    /\ display' = d
    /\ gui' = (d = "uwp_dx")
    /\ sink' = (sink \/ d = "uwp_dx")
    /\ UNCHANGED <<control, exitCode, sim, shutdownEvent, host>>

\* A panic before set_init_done(1): bx_atexit returns at once, so the GUI's
\* exit does not run and its callbacks stay installed; longjmp to bxmain.
init_panics ==
    /\ cpc \in {"main", "gui"}
    /\ cpc' = "cleanup"
    /\ exitCode' = 1
    /\ UNCHANGED <<control, objects, host>>

\* The hardware is initialised and the CPU loop begins.
init_done ==
    /\ cpc = "gui"
    /\ cpc' = "poll"
    /\ UNCHANGED <<control, exitCode, objects, host>>

\* bochs_core_uwp_poll, up to its return or its wait, which releases the
\* mutex as it blocks.  A nonzero return sets kill_bochs_request, and the CPU
\* loop and the simulation loop are left.
poll ==
    /\ cpc = "poll"
    /\ \/ /\ g_shutdownRequested
          /\ cpc' = "atexit"
          /\ UNCHANGED <<g_pauseObserved, blocked>>
       \/ /\ ~g_shutdownRequested
          /\ g_pauseRequested
          /\ cpc' = "parked"
          /\ g_pauseObserved' = TRUE
          /\ blocked' = {"emulator"}       \* notify_all, then wait
       \/ /\ ~g_shutdownRequested
          /\ ~g_pauseRequested
          /\ cpc' = "exec"
          /\ UNCHANGED <<g_pauseObserved, blocked>>
    /\ UNCHANGED <<g_running, g_pauseRequested, g_shutdownRequested, exitCode,
                   objects, host>>

\* Mutant of poll_wakes: the wait has no predicate, any wakeup ends it.
poll_wakes_spuriously ==
    /\ cpc = "parked"
    /\ "emulator" \notin blocked
    /\ g_pauseObserved' = FALSE
    /\ cpc' = IF g_shutdownRequested THEN "atexit" ELSE "exec"
    /\ UNCHANGED <<g_running, g_pauseRequested, g_shutdownRequested, blocked,
                   exitCode, objects, host>>

\* The predicate of the wait in bochs_core_uwp_poll.
Unparked == ~g_pauseRequested \/ g_shutdownRequested

\* The rest of bochs_core_uwp_poll, once a wakeup finds the predicate true.
poll_wakes ==
    /\ cpc = "parked"
    /\ "emulator" \notin blocked
    /\ Unparked
    /\ g_pauseObserved' = FALSE
    /\ cpc' = IF g_shutdownRequested THEN "atexit" ELSE "exec"
    /\ UNCHANGED <<g_running, g_pauseRequested, g_shutdownRequested, blocked,
                   exitCode, objects, host>>

\* A wakeup that finds it false.
poll_waits_on ==
    /\ cpc = "parked"
    /\ "emulator" \notin blocked
    /\ ~Unparked
    /\ blocked' = blocked \cup {"emulator"}
    /\ UNCHANGED <<requests, core, objects, host>>

\* A trace ends: the loop comes to its next poll, or the guest has halted.
execute ==
    /\ cpc = "exec"
    /\ cpc' \in {"poll", "halt"}
    /\ UNCHANGED <<control, exitCode, objects, host>>

\* An interrupt ends the HLT loop.  Whether one ever comes is the guest's
\* affair: a guest that halts with interrupts off stays here.
wait_for_event_ends ==
    /\ cpc = "halt"
    /\ cpc' = "poll"
    /\ UNCHANGED <<control, exitCode, objects, host>>

\* Mutant of simulation_exits: the exit code is not reduced to 0 or 1.
simulation_exits_raw(code) ==
    /\ cpc \in {"exec", "halt"}
    /\ cpc' = "atexit"
    /\ exitCode' = code + 1
    /\ UNCHANGED <<control, objects, host>>

\* The guest or a device ends the simulation (power off, or a panic).
simulation_exits(code) ==
    /\ cpc \in {"exec", "halt"}
    /\ cpc' = "atexit"
    /\ exitCode' = code
    /\ UNCHANGED <<control, objects, host>>

\* The device timer, which runs in the HLT loop too, calls handle_events of
\* the uwp_dx GUI, and the shutdown event calls bx_exit(0).
handle_events ==
    /\ cpc \in {"exec", "halt"}
    /\ gui
    /\ shutdownEvent
    /\ shutdownEvent' = FALSE
    /\ cpc' = "atexit"
    /\ exitCode' = 0
    /\ UNCHANGED <<control, display, sim, gui, sink, host>>

\* bx_atexit: bx_pc_system.exit calls the GUI's exit, which for uwp_dx
\* removes the callbacks from the bridge.
atexit ==
    /\ cpc = "atexit"
    /\ cpc' = "cleanup"
    /\ sink' = (sink /\ display # "uwp_dx")
    /\ UNCHANGED <<control, exitCode, display, sim, gui, shutdownEvent, host>>

\* Mutant of plugin_cleanup: the event queue outlives the GUI object.
plugin_cleanup_keeps_queue ==
    /\ cpc = "cleanup"
    /\ cpc' = "unsim"
    /\ gui' = FALSE
    /\ UNCHANGED <<control, exitCode, display, sim, sink, shutdownEvent, host>>

\* plugin_cleanup deletes the GUI object and with it the event queue.
plugin_cleanup ==
    /\ cpc = "cleanup"
    /\ cpc' = "unsim"
    /\ gui' = FALSE
    /\ shutdownEvent' = FALSE
    /\ UNCHANGED <<control, exitCode, display, sim, sink, host>>

\* bx_cleanup_siminterface deletes SIM; its exit code is bxmain's result.
cleanup_siminterface ==
    /\ cpc = "unsim"
    /\ cpc' = "left"
    /\ sim' = FALSE
    /\ UNCHANGED <<control, exitCode, display, gui, sink, shutdownEvent, host>>

\* set_core_running(false), after bxmain has returned.
set_core_not_running ==
    /\ cpc = "left"
    /\ cpc' = "out"
    /\ g_running' = FALSE
    /\ g_pauseObserved' = FALSE
    /\ notify_all
    /\ UNCHANGED <<g_pauseRequested, g_shutdownRequested, exitCode, objects, host>>

\* What the emulator thread does inside bxmain by itself...
CoreProgress ==
    \/ init_siminterface \/ (\E d \in Displays : init_gui(d)) \/ init_done
    \/ poll \/ poll_wakes \/ poll_waits_on \/ execute \/ handle_events
    \/ atexit \/ plugin_cleanup \/ cleanup_siminterface

\* ...and what the guest, the configuration or a device makes it do.
GuestChoice ==
    \/ init_main_fails \/ init_panics \/ wait_for_event_ends
    \/ \E code \in {0, 1} : simulation_exits(code)

-----------------------------------------------------------------------------
(* The host thread's calls.                                                *)

bochs_core_uwp_pause ==
    /\ hpc = "idle"
    /\ g_pauseRequested' = TRUE
    /\ notify_all
    /\ UNCHANGED <<g_running, g_pauseObserved, g_shutdownRequested, core,
                   objects, host>>

\* Mutant of bochs_core_uwp_resume: the observation is left standing.
resume_keeps_observed ==
    /\ hpc = "idle"
    /\ g_pauseRequested' = FALSE
    /\ notify_all
    /\ UNCHANGED <<g_running, g_pauseObserved, g_shutdownRequested, core,
                   objects, host>>

\* Mutant of bochs_core_uwp_resume: no one is notified.
resume_silent ==
    /\ hpc = "idle"
    /\ g_pauseRequested' = FALSE
    /\ g_pauseObserved' = FALSE
    /\ UNCHANGED <<g_running, g_shutdownRequested, blocked, core, objects, host>>

bochs_core_uwp_resume ==
    /\ hpc = "idle"
    /\ g_pauseRequested' = FALSE
    /\ g_pauseObserved' = FALSE
    /\ notify_all
    /\ UNCHANGED <<g_running, g_shutdownRequested, core, objects, host>>

bochs_core_uwp_request_shutdown ==
    /\ hpc = "idle"
    /\ g_shutdownRequested' = TRUE
    /\ g_pauseRequested' = FALSE
    /\ g_pauseObserved' = FALSE
    /\ notify_all
    /\ UNCHANGED <<g_running, core, objects, host>>

\* There is nothing to wait for.
Released == ~g_running \/ ~g_pauseRequested \/ g_shutdownRequested

\* What a wait of the host ends with now.  The model keeps the reason beside
\* the result: wait_until_paused returns 0 for "timeout" and else 1.
Outcome == IF g_pauseObserved THEN "observed"
           ELSE IF Released THEN "released" ELSE "timeout"

\* bochs_core_uwp_wait_until_paused returns 1 at once, because there is
\* nothing to wait for or the predicate of wait_for holds, or blocks.
wait_until_paused ==
    /\ hpc = "idle"
    /\ IF Released \/ g_pauseObserved
       THEN /\ waited' = IF Released THEN "released" ELSE "observed"
            /\ UNCHANGED <<hpc, blocked>>
       ELSE /\ hpc' = "waiting"
            /\ blocked' = blocked \cup {"host"}
            /\ UNCHANGED waited
    /\ UNCHANGED <<requests, core, objects>>

\* wait_for returns: with 1 when a wakeup finds its predicate true, and with
\* the value the predicate then has when the time is up.
wait_returns ==
    /\ hpc = "waiting"
    /\ hpc' = "idle"
    /\ blocked' = blocked \ {"host"}
    /\ waited' = Outcome
    /\ UNCHANGED <<requests, core, objects>>

\* A wakeup of wait_for that finds its predicate false.
wait_goes_on ==
    /\ hpc = "waiting"
    /\ "host" \notin blocked
    /\ Outcome = "timeout"
    /\ blocked' = blocked \cup {"host"}
    /\ UNCHANGED <<requests, core, objects, host>>

\* A wait may end without a notification.
spurious_wakeup(t) ==
    /\ t \in blocked
    /\ blocked' = blocked \ {t}
    /\ UNCHANGED <<requests, core, objects, host>>

\* bochs_core_uwp_save_state tests the flags under the mutex, releases it,
\* and (place saving) runs SIM->save_state on the host thread.
save_state ==
    /\ hpc = "idle"
    /\ hpc' = IF ~g_running \/ g_shutdownRequested THEN "idle" ELSE "saving"
    /\ UNCHANGED <<control, core, objects, waited>>

save_state_ends ==
    /\ hpc = "saving"
    /\ hpc' = "idle"
    /\ UNCHANGED <<control, core, objects, waited>>

\* Mutant of BridgeRequestShutdown: the callback is never called.
BridgeRequestShutdown_silent ==
    /\ hpc = "idle"
    /\ UNCHANGED <<control, core, objects, host>>

\* BochsUwpBridge::RequestShutdown copies the callback under g_bridgeMutex
\* and calls it (place callback) after the mutex is released.
BridgeRequestShutdown ==
    /\ hpc = "idle"
    /\ hpc' = IF sink THEN "callback" ELSE "idle"
    /\ UNCHANGED <<control, core, objects, waited>>

\* uwp_dx_sink_shutdown_event tests theGui...
sink_shutdown_event ==
    /\ hpc = "callback"
    /\ hpc' = IF gui THEN "deref" ELSE "idle"
    /\ UNCHANGED <<control, core, objects, waited>>

\* ...and calls its enqueue_shutdown.  On an object deleted meanwhile the
\* call is undefined; the model lets the event be lost.
enqueue_shutdown ==
    /\ hpc = "deref"
    /\ hpc' = "idle"
    /\ shutdownEvent' = gui
    /\ UNCHANGED <<control, core, display, sim, gui, sink, waited>>

\* The steps that end a call the host has begun.
HostProgress ==
    wait_returns \/ save_state_ends \/ sink_shutdown_event \/ enqueue_shutdown

HostCall ==
    \/ bochs_core_uwp_pause \/ bochs_core_uwp_resume
    \/ bochs_core_uwp_request_shutdown
    \/ wait_until_paused \/ save_state \/ BridgeRequestShutdown

\* Wakeups nobody promises, and wakeups for nothing.
Wakeup == wait_goes_on \/ \E t \in Threads : spurious_wakeup(t)

CoreNext ==
    \/ run_with_restore \/ CoreProgress \/ GuestChoice \/ set_core_not_running
    \/ HostCall \/ HostProgress \/ Wakeup

\* The scheduler runs both threads; it does not oblige the guest to do
\* anything, nor the host to call.
CoreSpec ==
    /\ CoreInit
    /\ [][CoreNext]_coreVars
    /\ WF_coreVars(CoreProgress \/ set_core_not_running)
    /\ WF_coreVars(HostProgress)

-----------------------------------------------------------------------------
(* Properties.                                                             *)

\* An observed pause is a parked emulator thread: while g_pauseObserved is
\* set, the thread is blocked in bochs_core_uwp_poll, the pause request
\* stands and no shutdown is pending.  wait_until_paused's 1 rests on it.
ObservedMeansParked ==
    g_pauseObserved => cpc = "parked" /\ g_pauseRequested /\ ~g_shutdownRequested

\* No wakeup is lost: whichever thread makes what a blocked thread waits for
\* true (a resume, a shutdown, an observed pause, the end of the core), in
\* whatever order that and the blocking come, the thread does not stay blocked.
NoLostWakeup ==
    /\ "emulator" \in blocked => cpc = "parked" /\ ~Unparked
    /\ "host" \in blocked => hpc = "waiting" /\ Outcome = "timeout"

=============================================================================
