------------------------------ MODULE PcSystem ------------------------------
(***************************************************************************)
(* The timer framework of bx_pc_system_c (pc_system.cc, pc_system.h) over  *)
(* the sessions of one process: timer slots, the countdown the CPU loop    *)
(* decrements, and the event that calls the handlers of the slots that are *)
(* due.  Everything here runs on the emulator thread; handlers are called  *)
(* in the middle of countdownEvent and may call the framework themselves.  *)
(*                                                                         *)
(* The clients are the timers of the local APIC, whose object is static    *)
(* and registers them once, and the devices, which are created by every    *)
(* session and deleted when it ends.                                       *)
(***************************************************************************)
EXTENDS Integers, Sequences, FiniteSets, FiniteSetsExt

CONSTANTS
    Devices,       \* clients created anew by each session, one timer each
    ApicTimers,    \* the timers of bx_local_apic_c, in order of registration
    MaxTimers,     \* BX_MAX_TIMERS
    NullInterval,  \* NullTimerInterval, the largest value of a Bit32u
    Requests,      \* what clients ask for: an interval in ticks, continuous or not
    MaxTicks,      \* bound: how far the clock runs in a session
    MaxStep,       \* bound: the largest argument of tickn
    MaxSessions    \* bound: how many sessions are started

Apic    == {ApicTimers[k] : k \in 1..Len(ApicTimers)}
Clients == Devices \cup Apic
Slots   == 0..(MaxTimers - 1)
NoOwner == "no owner"      \* funct = NULL
Null    == "null"          \* nullTimer
NoSlot  == 0               \* slot 0 is the null timer's: no client has it

KeptTimers == 2            \* 1 + BX_SUPPORT_APIC
MinAllowableTimerPeriod == 1

ASSUME ConstantsAssumption ==
    /\ ApicTimers \in Seq(Apic) /\ ApicTimers # <<>>
    /\ \A j, k \in 1..Len(ApicTimers) : ApicTimers[j] = ApicTimers[k] => j = k
    /\ IsFiniteSet(Devices)
    /\ MaxTimers \in Nat /\ MaxTimers > Len(ApicTimers) + 1
    /\ NullInterval \in Nat \ {0}
    /\ Requests \subseteq (0..NullInterval) \X BOOLEAN
    /\ {MaxTicks, MaxStep, MaxSessions} \subseteq Nat
    /\ Devices \cap Apic = {}
    /\ {NoOwner, Null} \cap (Devices \cup Apic) = {}

VARIABLES
    timer, numTimers,
    ticksTotal, currCountdown, currCountdownPeriod,
    left,         \* what is left of the argument of a tickn in progress
    pending,      \* triggered[] of a countdownEvent in progress, not visited yet
    calling,      \* triggeredTimer: the slot whose handler is running
    phase,        \* off, init (bx_init_hardware), run (the CPU loop)
    handle,       \* the slot a client got from register_timer
    apicActive,   \* the local APIC's timer_active flags
    session,
    aborted       \* history: a panic ended a session inside bx_init_hardware

clock    == <<ticksTotal, currCountdown, currCountdownPeriod>>
event    == <<left, pending, calling>>
clients  == <<handle, apicActive>>
life     == <<phase, session, aborted>>
vars     == <<timer, numTimers, clock, event, clients, life>>

-----------------------------------------------------------------------------
UnusedSlot == [inUse |-> FALSE, period |-> 0, timeToFire |-> 0, active |-> FALSE,
               continuous |-> FALSE, owner |-> NoOwner]

\* time_ticks()
time_ticks == ticksTotal + (currCountdownPeriod - currCountdown)

Bit32u(n) == n % (NullInterval + 1)

AtLeastMin(ticks) ==
    IF ticks < MinAllowableTimerPeriod THEN MinAllowableTimerPeriod ELSE ticks

\* The constructor's slot 0.
NullTimerSlot == [inUse |-> TRUE, period |-> NullInterval, timeToFire |-> 0,
                  active |-> TRUE, continuous |-> TRUE, owner |-> Null]

\* The slots the local APIC registers, inactive, before any tick.
ConstructedTimers ==
    [i \in Slots |->
        IF i = 0 THEN NullTimerSlot
        ELSE IF i > Len(ApicTimers) THEN UnusedSlot
        ELSE [inUse |-> TRUE, period |-> AtLeastMin(0), timeToFire |-> AtLeastMin(0),
              active |-> FALSE, continuous |-> FALSE, owner |-> ApicTimers[i]]]

\* The static constructors have run: slot 0 is the null timer, and the local
\* APIC knows the slots of its timers.
Init ==
    /\ timer = ConstructedTimers
    /\ numTimers = 1 + Len(ApicTimers)
    /\ ticksTotal = 0 /\ currCountdown = 0 /\ currCountdownPeriod = 0
    /\ left = 0 /\ pending = {} /\ calling = NoSlot
    /\ phase = "off" /\ session = 0 /\ aborted = FALSE
    /\ handle \in [Clients -> 0..Len(ApicTimers)]
    /\ \A k \in 1..Len(ApicTimers) : handle[ApicTimers[k]] = k
    /\ \A d \in Devices : handle[d] = NoSlot
    /\ apicActive = [c \in Apic |-> FALSE]

-----------------------------------------------------------------------------
(* Sessions. *)

\* bx_init_hardware begins: the clock is reset, the slots are not.
initialize ==
    /\ phase = "off" /\ session < MaxSessions
    /\ phase' = "init" /\ session' = session + 1
    /\ ticksTotal' = 0
    /\ currCountdown' = NullInterval
    /\ currCountdownPeriod' = NullInterval
    /\ timer' = [timer EXCEPT ![0].timeToFire = NullInterval]
    /\ left' = 0 /\ pending' = {} /\ calling' = NoSlot
    /\ UNCHANGED <<numTimers, clients, aborted>>

\* Reset(BX_RESET_HARDWARE) resets the local APIC, which deactivates the
\* timers it believes active.  The CPU loop follows the one of the start.
Reset ==
    /\ phase = "init" \/ (phase = "run" /\ left = 0 /\ pending = {} /\ calling = NoSlot)
    /\ phase' = "run"
    /\ timer' = [i \in Slots |->
                   IF \E c \in Apic : apicActive[c] /\ handle[c] = i
                   THEN [timer[i] EXCEPT !.active = FALSE] ELSE timer[i]]
    /\ apicActive' = [c \in Apic |-> FALSE]
    /\ UNCHANGED <<numTimers, clock, event, handle, session, aborted>>

\* Mutant of exit: exit leaves the number of slots alone.
exit_keeps_slots ==
    /\ phase = "run"
    /\ phase' = "off"
    /\ handle' = [c \in Clients |-> IF c \in Devices THEN NoSlot ELSE handle[c]]
    /\ left' = 0 /\ pending' = {} /\ calling' = NoSlot
    /\ UNCHANGED <<timer, numTimers, clock, apicActive, session, aborted>>

\* The session ends and its devices are deleted.  After a panic this happens
\* in the middle of an event.
exit ==
    /\ phase = "run"
    /\ phase' = "off"
    /\ numTimers' = KeptTimers
    /\ handle' = [c \in Clients |-> IF c \in Devices THEN NoSlot ELSE handle[c]]
    /\ left' = 0 /\ pending' = {} /\ calling' = NoSlot
    /\ UNCHANGED <<timer, clock, apicActive, session, aborted>>

\* A panic before set_init_done(1): bx_atexit returns at once, exit above is
\* not called, and plugin_cleanup deletes the devices.
init_panics ==
    /\ phase = "init"
    /\ phase' = "off" /\ aborted' = TRUE
    /\ handle' = [c \in Clients |-> IF c \in Devices THEN NoSlot ELSE handle[c]]
    /\ UNCHANGED <<timer, numTimers, clock, event, apicActive, session>>

-----------------------------------------------------------------------------
(* The calls of the clients. *)

Idle == left = 0 /\ pending = {} /\ calling = NoSlot

\* Where the code of a device can run: while it is set up, between two
\* instructions, and in a handler.
DeviceRuns == phase = "init" \/ (phase = "run" /\ (Idle \/ calling # NoSlot))

\* Mutant of SkewCountdown: the countdown is not shortened for an earlier
\* timer.
SkewCountdown_never(ticks) == UNCHANGED clock

\* A timer due before the current countdown ends makes it shorter.
SkewCountdown(ticks) ==
    IF ticks < currCountdown
    THEN /\ currCountdownPeriod' = currCountdownPeriod - (currCountdown - ticks)
         /\ currCountdown' = ticks
         /\ UNCHANGED ticksTotal
    ELSE UNCHANGED clock

\* Mutant of FreeSlot: the search takes slot 1 without looking at inUse.
FreeSlot_first == 1

FreeSlot == Min({i \in 1..numTimers : i = numTimers \/ ~timer[i].inUse})

register_timer_ticks(d, asked, continuous, active) ==
    LET ticks == AtLeastMin(asked) IN
    /\ DeviceRuns
    /\ handle[d] = NoSlot
    /\ numTimers < MaxTimers          \* otherwise a panic
    /\ timer' = [timer EXCEPT ![FreeSlot] =
                   [inUse |-> TRUE, period |-> ticks, timeToFire |-> time_ticks + ticks,
                    active |-> active, continuous |-> continuous, owner |-> d]]
    /\ handle' = [handle EXCEPT ![d] = FreeSlot]
    /\ numTimers' = IF FreeSlot = numTimers THEN numTimers + 1 ELSE numTimers
    /\ IF active THEN SkewCountdown(ticks) ELSE UNCHANGED clock
    /\ UNCHANGED <<event, apicActive, life>>

\* The common part of the activations; ticks is the converted interval, or
\* the stored period when the caller passed 0 microseconds.
Activate(i, asked, continuous) ==
    LET ticks == AtLeastMin(asked) IN
    /\ timer' = [timer EXCEPT ![i].period = ticks,
                              ![i].timeToFire = time_ticks + ticks,
                              ![i].active = TRUE,
                              ![i].continuous = continuous]
    /\ SkewCountdown(ticks)

activate_timer_ticks(d, ticks, continuous) ==
    /\ DeviceRuns /\ handle[d] # NoSlot
    /\ Activate(handle[d], ticks, continuous)
    /\ UNCHANGED <<numTimers, event, clients, life>>

\* activate_timer and activate_timer_nsec with an interval of 0.
activate_timer_stored(d, continuous) ==
    /\ DeviceRuns /\ handle[d] # NoSlot
    /\ Activate(handle[d], timer[handle[d]].period, continuous)
    /\ UNCHANGED <<numTimers, event, clients, life>>

deactivate_timer(d) ==
    /\ DeviceRuns /\ handle[d] # NoSlot
    /\ timer' = [timer EXCEPT ![handle[d]].active = FALSE]
    /\ UNCHANGED <<numTimers, clock, event, clients, life>>

\* Mutant of unregisterTimer: the slot keeps its handler.
unregisterTimer_keeps_funct(d) ==
    LET i == handle[d] IN
    /\ DeviceRuns /\ i # NoSlot /\ ~timer[i].active
    /\ timer' = [timer EXCEPT ![i].inUse = FALSE]
    /\ numTimers' = IF i = numTimers - 1 THEN numTimers - 1 ELSE numTimers
    /\ handle' = [handle EXCEPT ![d] = NoSlot]
    /\ UNCHANGED <<clock, event, apicActive, life>>

\* An active timer is a panic.
unregisterTimer(d) ==
    LET i == handle[d] IN
    /\ DeviceRuns /\ i # NoSlot /\ ~timer[i].active
    /\ timer' = [timer EXCEPT ![i] =
                   [inUse |-> FALSE, period |-> NullInterval, timeToFire |-> NullInterval,
                    active |-> FALSE, continuous |-> FALSE, owner |-> NoOwner]]
    /\ numTimers' = IF i = numTimers - 1 THEN numTimers - 1 ELSE numTimers
    /\ handle' = [handle EXCEPT ![d] = NoSlot]
    /\ UNCHANGED <<clock, event, apicActive, life>>

\* set_initial_timer_count, set_vmx_preemption_timer, set_mwaitx_timer: the
\* guest programs a timer of the local APIC.
apic_timer_set(c, ticks) ==
    /\ phase = "run" /\ Idle
    /\ Activate(handle[c], ticks, FALSE)
    /\ apicActive' = [apicActive EXCEPT ![c] = TRUE]
    /\ UNCHANGED <<numTimers, event, handle, life>>

\* deactivate_vmx_preemption_timer, deactivate_mwaitx_timer, and the lapic
\* timer with an initial count of 0: nothing unless the flag is set.
apic_timer_clear(c) ==
    /\ phase = "run" /\ Idle /\ apicActive[c]
    /\ timer' = [timer EXCEPT ![handle[c]].active = FALSE]
    /\ apicActive' = [apicActive EXCEPT ![c] = FALSE]
    /\ UNCHANGED <<numTimers, clock, event, handle, life>>

-----------------------------------------------------------------------------
(* The clock. *)

\* Mutant of countdownEvent: a continuous timer is set again from the handler,
\* not by the event, so the next countdown does not see it.
countdownEvent_forgets_continuous ==
    LET now       == ticksTotal + currCountdownPeriod
        Listed    == 0..(numTimers - 1)
        triggered == {i \in Listed : timer[i].active /\ timer[i].timeToFire = now}
        fired     == [i \in Slots |->
                        IF i \notin triggered THEN timer[i]
                        ELSE IF timer[i].continuous
                        THEN [timer[i] EXCEPT !.timeToFire = @ + timer[i].period]
                        ELSE [timer[i] EXCEPT !.active = FALSE]]
        others    == {j \in Listed : fired[j].active /\ j \notin triggered}
        next      == Min({fired[i].timeToFire : i \in others \cup {0}})
    IN  /\ ticksTotal' = now
        /\ timer' = fired
        /\ pending' = triggered
        /\ currCountdown' = Bit32u(next - now)
        /\ currCountdownPeriod' = Bit32u(next - now)

\* countdownEvent up to the first handler: one-shot timers that are due are deactivated,
\* continuous ones get their next time, and the next countdown is set to the
\* earliest of the active timers.
countdownEvent ==
    LET now       == ticksTotal + currCountdownPeriod
        Listed    == 0..(numTimers - 1)
        triggered == {i \in Listed : timer[i].active /\ timer[i].timeToFire = now}
        fired     == [i \in Slots |->
                        IF i \notin triggered THEN timer[i]
                        ELSE IF timer[i].continuous
                        THEN [timer[i] EXCEPT !.timeToFire = @ + timer[i].period]
                        ELSE [timer[i] EXCEPT !.active = FALSE]]
        next      == Min({fired[i].timeToFire : i \in {j \in Listed : fired[j].active}})
    IN  /\ ticksTotal' = now
        /\ timer' = fired
        /\ pending' = triggered
        /\ currCountdown' = Bit32u(next - now)
        /\ currCountdownPeriod' = Bit32u(next - now)

\* One instruction.
tick1 ==
    /\ phase = "run" /\ Idle /\ time_ticks < MaxTicks
    /\ IF Bit32u(currCountdown - 1) = 0
       THEN countdownEvent
       ELSE /\ currCountdown' = Bit32u(currCountdown - 1)
            /\ UNCHANGED <<ticksTotal, currCountdownPeriod, timer, pending>>
    /\ UNCHANGED <<numTimers, left, calling, clients, life>>

\* The loop of tickn, one iteration at a time: n ticks are called for, or
\* what is left of them after a countdownEvent has returned.
TickLoop(n) ==
    /\ IF n >= currCountdown
       THEN left' = n - currCountdown /\ countdownEvent
       ELSE /\ currCountdown' = currCountdown - n
            /\ left' = 0
            /\ UNCHANGED <<ticksTotal, currCountdownPeriod, timer, pending>>
    /\ UNCHANGED <<numTimers, calling, clients, life>>

tickn(n) == phase = "run" /\ Idle /\ time_ticks + n <= MaxTicks /\ TickLoop(n)

tickn_continues ==
    phase = "run" /\ left > 0 /\ pending = {} /\ calling = NoSlot /\ TickLoop(left)

\* countdownEvent calls the handler of the next triggered slot.  The null
\* timer's does nothing; a slot that an earlier handler unregistered is
\* skipped.
CallHandler ==
    /\ calling = NoSlot /\ pending # {}
    /\ LET i == Min(pending) IN
       /\ pending' = pending \ {i}
       /\ calling' = IF timer[i].owner \in Clients THEN i ELSE NoSlot
    /\ UNCHANGED <<timer, numTimers, clock, left, clients, life>>

\* A device's handler returns.
HandlerReturns ==
    /\ calling # NoSlot /\ timer[calling].owner \notin Apic
    /\ calling' = NoSlot
    /\ UNCHANGED <<timer, numTimers, clock, left, pending, clients, life>>

\* The handlers of the local APIC: nothing more unless the flag is set; the
\* lapic timer in periodic mode is started again, with the divider that the
\* guest has chosen since.
ApicHandlerReturns ==
    LET c == timer[calling].owner IN
    /\ calling # NoSlot /\ c \in Apic
    /\ calling' = NoSlot
    /\ \/ /\ ~apicActive[c]
          /\ UNCHANGED <<timer, clock, apicActive>>
       \/ /\ apicActive[c]
          /\ timer' = [timer EXCEPT ![handle[c]].active = FALSE]
          /\ apicActive' = [apicActive EXCEPT ![c] = FALSE]
          /\ UNCHANGED clock
       \/ /\ apicActive[c] /\ c = ApicTimers[1]
          /\ \E r \in Requests : Activate(handle[c], r[1], FALSE)
          /\ UNCHANGED apicActive
    /\ UNCHANGED <<numTimers, left, pending, handle, life>>

-----------------------------------------------------------------------------
DeviceCalls(d) ==
    \/ \E r \in Requests, active \in BOOLEAN : register_timer_ticks(d, r[1], r[2], active)
    \/ \E r \in Requests : activate_timer_ticks(d, r[1], r[2])
    \/ \E r \in Requests : activate_timer_stored(d, r[2])
    \/ deactivate_timer(d)
    \/ unregisterTimer(d)

ApicCalls(c) ==
    \/ \E r \in Requests : apic_timer_set(c, r[1])
    \/ apic_timer_clear(c)

Ticks ==
    \/ tick1
    \/ \E n \in 2..MaxStep : tickn(n)
    \/ tickn_continues
    \/ CallHandler \/ HandlerReturns \/ ApicHandlerReturns

Next ==
    \/ initialize \/ Reset \/ exit \/ init_panics
    \/ \E d \in Devices : DeviceCalls(d)
    \/ \E c \in Apic : ApicCalls(c)
    \/ Ticks

Spec == Init /\ [][Next]_vars

-----------------------------------------------------------------------------
(* Properties. *)

\* Every variable has its type; the countdown, unsigned in the code, is never
\* the result of a subtraction below 0.
TypeOK ==
    /\ timer \in [Slots -> [inUse : BOOLEAN, period : Nat, timeToFire : Nat,
                            active : BOOLEAN, continuous : BOOLEAN,
                            owner : Clients \cup {NoOwner, Null}]]
    /\ numTimers \in 1..MaxTimers
    /\ {ticksTotal, currCountdown, currCountdownPeriod, left} \subseteq Nat
    /\ pending \subseteq Slots
    /\ calling \in Slots
    /\ phase \in {"off", "init", "run"}
    /\ handle \in [Clients -> Slots]
    /\ apicActive \in [Apic -> BOOLEAN]
    /\ session \in 0..MaxSessions
    /\ aborted \in BOOLEAN

\* The assertion of countdownEvent under BX_TIMER_DEBUG: no active timer is
\* due before the countdown in progress ends, whatever the handlers called in
\* the middle of an event register, start, stop and free.  A start that
\* panicked leaves active timers behind that initialize does not look at, so
\* this is claimed until then.
NoTimerSkipped ==
    phase = "run" /\ ~aborted =>
        \A i \in 0..(numTimers - 1) :
            timer[i].active => timer[i].timeToFire >= ticksTotal + currCountdownPeriod

\* tick1 decrements the countdown before it compares it with 0, and the loop
\* of tickn does not end on a countdown of 0: outside countdownEvent's first
\* half the countdown is positive and no longer than its period, which fits
\* the 32 bits it is kept in.
CountdownPositive ==
    phase = "run" /\ ~aborted =>
        /\ 0 < currCountdown
        /\ currCountdown <= currCountdownPeriod
        /\ currCountdownPeriod <= NullInterval

\* The countdown of bx_pc_system is never too long for a timer and never 0.
CountdownInv == TypeOK /\ NoTimerSkipped /\ CountdownPositive

\* A device's index names the slot it registered, as long as the device lives,
\* across the slots freed by others and the sessions before.
DeviceHandlesOwned ==
    \A d \in Devices : handle[d] # NoSlot =>
        /\ handle[d] < numTimers
        /\ timer[handle[d]].inUse
        /\ timer[handle[d]].owner = d

\* exit: "delete all registered timers (exception: null timer and APIC
\* timer)".  The local APIC goes on using the timers it registered, so no
\* device of a later session may be given one of their slots.
ClientsShareNoSlot ==
    \A c, d \in Clients : c # d /\ handle[c] = handle[d] => handle[c] = NoSlot

\* Sessions that end in the ordinary way, and devices that come and go, do
\* not use up the fixed table of slots.
NoSlotLeak == ~aborted => numTimers <= 1 + Len(ApicTimers) + Cardinality(Devices)

\* countdownEvent calls a handler through the pointer stored in the slot: the
\* device it belongs to still exists.  Slots left behind by a start that
\* panicked belong to devices that plugin_cleanup deleted.
HandlersAreAlive ==
    [][calling = NoSlot /\ calling' # NoSlot /\ ~aborted
         => handle[timer[calling'].owner] = calling']_vars

\* The slots that are armed, the clock and the slots whose handlers are still
\* to be called, while the CPU loop runs.  A start that panicked ends what is
\* promised.
Counting == phase = "run" /\ ~aborted

Service == INSTANCE TimerSpec WITH
    Off      <- -1,
    Cancels  <- FALSE,
    now      <- IF Counting THEN time_ticks ELSE 0,
    deadline <- [i \in Slots |-> IF Counting /\ i < numTimers /\ timer[i].active
                                 THEN timer[i].timeToFire ELSE -1],
    expired  <- IF Counting THEN pending ELSE {},
    called   <- IF Counting /\ calling # NoSlot THEN calling ELSE -1

\* Every timer is triggered at exactly the tick it was set for, once for each
\* time it was set or its period came round, and handlers are called in slot
\* order before time moves on.
ImplementsTimerSpec == Service!Spec

=============================================================================
