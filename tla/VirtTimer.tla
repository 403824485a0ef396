----------------------------- MODULE VirtTimer -----------------------------
(***************************************************************************)
(* The virtual timers of bx_virt_timer_c (virt_timer.cc): a second timer   *)
(* table with two clocks, mode 0 driven by the emulated time of            *)
(* bx_pc_system and mode 1 by the host's real time, each advanced by a     *)
(* one-shot timer of bx_pc_system and by devices that ask for the time.    *)
(* Handlers are called in the middle of periodic and may start and stop    *)
(* timers of both modes.  The timers of bx_pc_system are external here:    *)
(* time never passes one that is due (TimerSpec, shown in PcSystem).       *)
(***************************************************************************)
EXTENDS Integers, FiniteSetsExt

CONSTANTS
    Devices,       \* the owners of a virtual timer each
    Requests,      \* what devices ask for: an interval, continuous or not
    MaxVirtual,    \* BX_MAX_VIRTUAL_TIME
    Ratios,        \* values of usec_per_second / ticks_per_second, as <<a, b>>
    MaxTime        \* bound: how far emulated time runs

Modes  == {0, 1}
Slots  == 0..(Cardinality(Devices) + 1)     \* 0 and 1 are the null timers'
None   == -1

ASSUME VirtTimerAssumption ==
    /\ IsFiniteSet(Devices)
    /\ MaxVirtual \in Nat \ {0} /\ MaxTime \in Nat
    /\ Requests \subseteq (1..MaxVirtual) \X BOOLEAN
    /\ Ratios \subseteq (Nat \X (Nat \ {0})) /\ <<1, 1>> \in Ratios

VARIABLES
    timer,        \* by slot; numTimers is the number of slots registered
    numTimers,
    s,            \* by mode: current_timers_time, timers_next_event_time,
                  \* current_virtual_time, virtual_next_event_time
    scan,         \* periodic in progress: the slot to look at next, or None
    calling,      \* the slot whose handler is running, or None
    th,           \* timer_handler in progress: its mode, or None
    rest,         \* temp_final_time of timer_handler
    ratio,        \* usec_per_second / ticks_per_second
    last_usec,
    slotOf,       \* the index a device got from register_timer, or None
    now,          \* bx_pc_system.time_usec()
    sysDue,       \* when bx_pc_system calls the timer of a mode, or None
    failed        \* a BX_ASSERT has failed, or a loop makes no progress

table   == <<timer, numTimers, slotOf>>
running == <<scan, calling, th, rest>>
outside == <<now, sysDue>>
vars == <<table, s, running, ratio, last_usec, outside, failed>>

-----------------------------------------------------------------------------
AtMost(a, b)  == IF a < b THEN a ELSE b
AtLeast(a, b) == IF a > b THEN a ELSE b

TICKS_TO_USEC(a) == (a * ratio[1]) \div ratio[2]

\* bx_pc_system.activate_timer of the timer that drives a mode.
Wake(mode, usec) ==
    sysDue' = [sysDue EXCEPT ![mode] = now + AtMost(MaxVirtual, AtLeast(1, usec))]

\* next_event_time_update, n being the mode's record with the new
\* timers_next_event_time: the wake-up is computed with the ratio of
\* real time to emulated time in both modes.
next_event_time_update(mode, n) ==
    LET v == n.timers_next_event_time + n.current_timers_time - n.current_virtual_time
    IN  /\ s' = [s EXCEPT ![mode] = [n EXCEPT !.virtual_next_event_time = v]]
        /\ Wake(mode, TICKS_TO_USEC(v))
        /\ failed' = (failed \/ v <= 0)

InUse    == 0..(numTimers - 1)
Armed(mode) == {i \in InUse : timer[i].active /\ timer[i].realtime = mode}

\* bx_virt_timer_c::init has registered the null timers and its two timers
\* of bx_pc_system.
Init ==
    /\ timer = [i \in Slots |-> IF i \in Modes
                  THEN [period |-> MaxVirtual, timeToFire |-> MaxVirtual, active |-> TRUE,
                        continuous |-> TRUE, realtime |-> i]
                  ELSE [period |-> 0, timeToFire |-> 0, active |-> FALSE,
                        continuous |-> FALSE, realtime |-> 0]]
    /\ numTimers = 2
    /\ s = [m \in Modes |-> [current_timers_time |-> 0,
                             timers_next_event_time |-> MaxVirtual,
                             current_virtual_time |-> 0,
                             virtual_next_event_time |-> MaxVirtual]]
    /\ scan = None /\ calling = None /\ th = None /\ rest = 0
    /\ ratio = <<1, 1>> /\ last_usec = 0
    /\ slotOf = [d \in Devices |-> None]
    /\ now = 0
    /\ sysDue = [m \in Modes |-> MaxVirtual]
    /\ failed = FALSE

-----------------------------------------------------------------------------
(* The calls of devices, between two instructions or from a handler. *)

in_timer_handler == scan # None
DeviceRuns == th = None \/ calling # None

\* Mutant of NoticeEarlier: an earlier timer does not move the next event.
NoticeEarlier_never(mode, useconds) == UNCHANGED <<s, sysDue, failed>>

\* Mutant of NoticeEarlier: an earlier timer moves the count, and the wake-up
\* is forgotten.
NoticeEarlier_no_update(mode, useconds) ==
    /\ s' = IF useconds < s[mode].timers_next_event_time
            THEN [s EXCEPT ![mode].timers_next_event_time = useconds] ELSE s
    /\ UNCHANGED <<sysDue, failed>>

\* A timer due before the next event moves it.
NoticeEarlier(mode, useconds) ==
    IF useconds < s[mode].timers_next_event_time
    THEN next_event_time_update(mode, [s[mode] EXCEPT !.timers_next_event_time = useconds])
    ELSE UNCHANGED <<s, sysDue, failed>>

\* Moves the next event for a timer registered inactive as well.
register_timer(d, mode, useconds, continuous, active) ==
    /\ th = None /\ slotOf[d] = None
    /\ timer' = [timer EXCEPT ![numTimers] =
                   [period |-> useconds,
                    timeToFire |-> s[mode].current_timers_time + useconds,
                    active |-> active, continuous |-> continuous, realtime |-> mode]]
    /\ slotOf' = [slotOf EXCEPT ![d] = numTimers]
    /\ numTimers' = numTimers + 1
    /\ NoticeEarlier(mode, useconds)
    /\ UNCHANGED <<running, ratio, last_usec, now>>

activate_timer(d, useconds, continuous) ==
    LET i == slotOf[d]  mode == timer[slotOf[d]].realtime IN
    /\ DeviceRuns /\ i # None
    /\ timer' = [timer EXCEPT ![i] =
                   [period |-> useconds,
                    timeToFire |-> s[mode].current_timers_time + useconds,
                    active |-> TRUE, continuous |-> continuous, realtime |-> mode]]
    /\ NoticeEarlier(mode, useconds)
    /\ UNCHANGED <<numTimers, slotOf, running, ratio, last_usec, now>>

deactivate_timer(d) ==
    /\ DeviceRuns /\ slotOf[d] # None
    /\ timer' = [timer EXCEPT ![slotOf[d]].active = FALSE]
    /\ UNCHANGED <<numTimers, slotOf, s, running, ratio, last_usec, outside, failed>>

-----------------------------------------------------------------------------
(* timer_handler: called by bx_pc_system, or by time_usec outside a handler. *)

\* Mode 0: what emulated time has gained on virtual time is to be passed on.
\* Mode 1: once emulated time has moved, real time decides how far virtual
\* time goes, never past the next event, and the ratio is measured again.
timer_handler(mode) ==
    /\ th = None
    /\ th' = mode
    /\ IF mode = 0
       THEN rest' = now - s[0].current_virtual_time /\ UNCHANGED <<ratio, last_usec>>
       ELSE /\ last_usec' = now
            /\ IF now = last_usec
               THEN rest' = 0 /\ UNCHANGED ratio
               ELSE rest' \in 0..s[1].virtual_next_event_time /\ ratio' \in Ratios
    /\ failed' = (failed \/ (mode = 0 /\ now < s[0].current_virtual_time))
    /\ UNCHANGED <<table, s, scan, calling, now>>

system_timer_fires(mode) ==
    /\ sysDue[mode] = now
    /\ sysDue' = [sysDue EXCEPT ![mode] = None]
    /\ timer_handler(mode)

time_usec(mode) == timer_handler(mode) /\ UNCHANGED sysDue

\* advance_virtual_time and periodic up to the scan of the timers, with the
\* assertions that no event and no timer is skipped.
advance_virtual_time ==
    LET m    == s[th]
        step == AtMost(rest, m.virtual_next_event_time)
        n    == [current_virtual_time    |-> m.current_virtual_time + step,
                 virtual_next_event_time |-> m.virtual_next_event_time - step,
                 timers_next_event_time  |-> m.timers_next_event_time - step,
                 current_timers_time     |-> m.current_timers_time + step]
    IN  /\ th # None /\ scan = None /\ rest > 0
        /\ rest' = rest - step
        /\ s' = [s EXCEPT ![th] = n]
        /\ scan' = IF step < n.timers_next_event_time THEN None ELSE 0
        /\ failed' = (\/ failed
                      \/ step = 0
                      \/ step > m.timers_next_event_time
                      \/ scan' = 0 /\ \E i \in Armed(th) :
                                         timer[i].timeToFire < n.current_timers_time)
        /\ UNCHANGED <<table, calling, th, ratio, last_usec, outside>>

DueFrom(i) == {j \in Armed(th) : j >= i /\ timer[j].timeToFire = s[th].current_timers_time}

\* Mutant of CallHandler: a one-shot timer stays active.
CallHandler_keeps_oneshot ==
    /\ scan # None /\ calling = None /\ DueFrom(scan) # {}
    /\ LET j == Min(DueFrom(scan)) IN
       /\ timer' = IF timer[j].continuous
                   THEN [timer EXCEPT ![j].timeToFire = @ + timer[j].period]
                   ELSE timer
       /\ scan' = j + 1
       /\ calling' = j
    /\ UNCHANGED <<numTimers, slotOf, s, th, rest, ratio, last_usec, outside, failed>>

\* The scan comes to a timer that is due and calls its handler.
CallHandler ==
    /\ scan # None /\ calling = None /\ DueFrom(scan) # {}
    /\ LET j == Min(DueFrom(scan)) IN
       /\ timer' = IF timer[j].continuous
                   THEN [timer EXCEPT ![j].timeToFire = @ + timer[j].period]
                   ELSE [timer EXCEPT ![j].active = FALSE]
       /\ scan' = j + 1
       /\ calling' = j
    /\ UNCHANGED <<numTimers, slotOf, s, th, rest, ratio, last_usec, outside, failed>>

HandlerReturns ==
    /\ calling # None
    /\ calling' = None
    /\ UNCHANGED <<table, s, scan, th, rest, ratio, last_usec, outside, failed>>

\* The scan has ended: the next event is searched for with a second loop, so
\* that what the handlers did is seen.
ScanEnds ==
    /\ scan # None /\ calling = None /\ DueFrom(scan) = {}
    /\ scan' = None
    /\ LET t    == s[th].current_timers_time
           next == Min({timer[i].timeToFire : i \in Armed(th)} \cup {t + MaxVirtual})
       IN  next_event_time_update(th, [s[th] EXCEPT !.timers_next_event_time = next - t])
    /\ UNCHANGED <<table, calling, th, rest, ratio, last_usec, now>>

\* Mutant of timer_handler_returns: timer_handler returns without setting its
\* one-shot timer again.
timer_handler_returns_unset ==
    /\ th # None /\ scan = None /\ rest = 0
    /\ th' = None
    /\ failed' = (failed \/ (th = 1 /\ s[th].virtual_next_event_time = 0))
    /\ UNCHANGED <<table, s, scan, calling, rest, ratio, last_usec, outside>>

\* timer_handler sets the next wake-up and returns: in mode 0 two
\* microseconds early, in mode 1 by the ratio.
timer_handler_returns ==
    LET next == s[th].virtual_next_event_time IN
    /\ th # None /\ scan = None /\ rest = 0
    /\ th' = None
    /\ IF th = 0 THEN Wake(0, IF next > 2 THEN next - 2 ELSE 1)
                 ELSE Wake(1, TICKS_TO_USEC(next))
    /\ failed' = (failed \/ (th = 1 /\ next = 0))
    /\ UNCHANGED <<table, s, scan, calling, rest, ratio, last_usec, now>>

\* External: an instruction takes time; bx_pc_system calls what is due first.
Tick ==
    /\ th = None /\ now < MaxTime
    /\ \A m \in Modes : sysDue[m] # now
    /\ now' = now + 1
    /\ UNCHANGED <<table, s, running, ratio, last_usec, sysDue, failed>>

-----------------------------------------------------------------------------
DeviceCalls(d) ==
    \/ \E r \in Requests, mode \in Modes, active \in BOOLEAN :
          register_timer(d, mode, r[1], r[2], active)
    \/ \E r \in Requests : activate_timer(d, r[1], r[2])
    \/ deactivate_timer(d)

Next ==
    \/ \E d \in Devices : DeviceCalls(d)
    \/ \E m \in Modes : system_timer_fires(m) \/ time_usec(m)
    \/ advance_virtual_time \/ CallHandler \/ HandlerReturns \/ ScanEnds
    \/ timer_handler_returns
    \/ Tick

Spec == Init /\ [][Next]_vars

-----------------------------------------------------------------------------
(* Properties. *)

\* Every variable has its type; the counts of a clock, unsigned in the code,
\* are never subtracted below 0.
TypeOK ==
    /\ timer \in [Slots -> [period : Nat, timeToFire : Nat, active : BOOLEAN,
                            continuous : BOOLEAN, realtime : Modes]]
    /\ numTimers \in 2..(Cardinality(Devices) + 2)
    /\ s \in [Modes -> [current_timers_time : Nat, timers_next_event_time : Nat,
                        current_virtual_time : Nat, virtual_next_event_time : Nat]]
    /\ scan \in {None} \cup 0..(Cardinality(Devices) + 2)
    /\ calling \in {None} \cup Slots
    /\ th \in {None} \cup Modes
    /\ rest \in Nat /\ last_usec \in Nat /\ now \in Nat
    /\ ratio \in Ratios
    /\ slotOf \in [Devices -> {None} \cup Slots]
    /\ sysDue \in [Modes -> {None} \cup Nat]
    /\ failed \in BOOLEAN

\* The BX_ASSERTs of periodic, advance_virtual_time, next_event_time_update
\* and timer_handler hold whatever the handlers do, and every turn of the loop
\* of timer_handler takes it further.
AssertionsHold == ~failed

\* No active timer of a mode is due before the next event the mode knows of,
\* and the two accounts of when that is agree: what the wake-up is computed
\* from (virtual_next_event_time) and what periodic counts down.
NextEventCoversTimers ==
    \A m \in Modes : th # m \/ scan = None =>
        /\ \A i \in Armed(m) :
              timer[i].timeToFire >= s[m].current_timers_time + s[m].timers_next_event_time
        /\ s[m].current_virtual_time + s[m].virtual_next_event_time
             = s[m].current_timers_time + s[m].timers_next_event_time

\* The next event of either clock, as every call of activate_timer and every
\* turn of periodic leaves it, comes no later than a timer.
NextEventInv == TypeOK /\ NextEventCoversTimers

\* Outside timer_handler both modes have a wake-up ahead, none later than the
\* next event allows at some ratio of the two clocks: a mode whose
\* one-shot timer is not set again stops for good.
WakeupAhead ==
    \A m \in Modes : th # m =>
        /\ sysDue[m] # None
        /\ now <= sysDue[m]
        /\ \E r \in Ratios :
             sysDue[m] <= now + AtLeast(1, (s[m].virtual_next_event_time * r[1]) \div r[2])

\* The timer service of one mode.  A timer that a handler stops or sets again
\* before the scan has come to it is not called: expired timers can be
\* cancelled, unlike those of bx_pc_system.
Cursor(m) == IF th = m /\ scan # None THEN scan ELSE numTimers
Expired(m) == {j \in Armed(m) : j >= Cursor(m)
                               /\ timer[j].timeToFire = s[m].current_timers_time}

Deadline(m) ==
    [i \in Slots |->
        IF i \notin Armed(m) THEN None
        ELSE IF i \notin Expired(m) THEN timer[i].timeToFire
        ELSE IF timer[i].continuous THEN timer[i].timeToFire + timer[i].period
        ELSE None]

\* The slot whose handler runs in a scan of the mode, or None.
HandlerOf(m) == IF th = m THEN calling ELSE None

Service0 == INSTANCE TimerSpec WITH
    Off <- None, Cancels <- TRUE, now <- s[0].current_timers_time,
    deadline <- Deadline(0), expired <- Expired(0), called <- HandlerOf(0)
Service1 == INSTANCE TimerSpec WITH
    Off <- None, Cancels <- TRUE, now <- s[1].current_timers_time,
    deadline <- Deadline(1), expired <- Expired(1), called <- HandlerOf(1)

\* Each mode calls every timer at exactly the virtual time it was set for, in
\* slot order, and its time stands still until the last handler has returned.
ImplementsTimerSpec == Service0!Spec /\ Service1!Spec

=============================================================================
