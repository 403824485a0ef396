-------------------------- MODULE VirtTimer_proofs --------------------------
(***************************************************************************)
(* Proofs about VirtTimer, for any finite number of devices, every length  *)
(* of BX_MAX_VIRTUAL_TIME, and whatever ratios of real to emulated time    *)
(* are measured.                                                           *)
(*                                                                         *)
(* NextEventInv and WakeupAhead say nothing of a mode whose timers are     *)
(* being scanned, where the assertions are at stake, so neither is         *)
(* inductive.  What holds there is in ScanInv: no armed timer lies behind, *)
(* and those the scan has passed lie ahead.  The two clocks of a mode stay *)
(* together (ClockInv); the time a mode still has to pass on is the time   *)
(* it lacks (TimeInv).                                                     *)
(***************************************************************************)
EXTENDS VirtTimer, FiniteSetTheorems, WellFoundedInduction, TLAPS

Timer == [period : Nat, timeToFire : Nat, active : BOOLEAN,
          continuous : BOOLEAN, realtime : Modes]
Clock == [current_timers_time : Nat, timers_next_event_time : Nat,
          current_virtual_time : Nat, virtual_next_event_time : Nat]

Scanned(m)  == th = m /\ scan # None
Registered == {d \in Devices : slotOf[d] # None}

(***************************************************************************)
(* The inductive invariant.                                                *)
(***************************************************************************)

\* The slots in use are the null timers' and one for each device that has
\* registered its timer.
SlotsInv ==
    /\ \A d \in Devices : slotOf[d] # None => slotOf[d] \in InUse
    /\ numTimers = Cardinality(Registered) + 2
    /\ \A i \in InUse : timer[i].period >= 1

\* Handlers run in a scan, and a scan in timer_handler.
ControlInv ==
    /\ th = None => scan = None
    /\ scan = None => calling = None

\* The clock that is counted down and the one that is passed on agree.
ClockInv ==
    \A m \in Modes : /\ s[m].current_virtual_time = s[m].current_timers_time
                     /\ s[m].virtual_next_event_time = s[m].timers_next_event_time

\* Emulated time is ahead of mode 0 by what timer_handler has still to pass.
TimeInv ==
    IF th = 0 THEN s[0].current_virtual_time + rest = now
    ELSE s[0].current_virtual_time <= now

\* Outside the scan of a mode its next event is ahead and no timer is before
\* it.
EventInv ==
    \A m \in Modes : ~Scanned(m) =>
        /\ s[m].timers_next_event_time >= 1
        /\ \A i \in Armed(m) :
              timer[i].timeToFire >= s[m].current_timers_time + s[m].timers_next_event_time

\* In the scan no timer was missed, and the scan has dealt with those before
\* its place.
ScanInv ==
    scan # None => \A i \in Armed(th) :
        /\ timer[i].timeToFire >= s[th].current_timers_time
        /\ i < scan => timer[i].timeToFire > s[th].current_timers_time

VirtInv ==
    /\ TypeOK /\ SlotsInv /\ ControlInv /\ ClockInv /\ TimeInv
    /\ EventInv /\ ScanInv
    /\ ~failed
    /\ WakeupAhead

-----------------------------------------------------------------------------
(* Times.                                                                  *)

\* A ratio of usec_per_second to ticks_per_second can be applied.
LEMMA RatioType ==
    ASSUME NEW r \in Ratios
    PROVE  r[1] \in Nat /\ r[2] \in Nat \ {0}
  BY VirtTimerAssumption

\* A time scaled by a ratio is a time.
LEMMA ScaledType ==
    ASSUME NEW a \in Nat, NEW r \in Ratios
    PROVE  (a * r[1]) \div r[2] \in Nat
  <1> DEFINE p == a * r[1]
             q == r[2]
  <1>1. p \in Nat /\ q \in Nat \ {0}
    BY RatioType
  <1> HIDE DEF p, q
  <1>2. p \div q \in Nat
    BY <1>1
  <1> QED
    BY <1>2 DEF p, q

\* A one-shot timer of bx_pc_system, set for this long, is in time.
LEMMA WakeTime ==
    ASSUME NEW t \in Nat, NEW u \in Int
    PROVE  LET w == t + AtMost(MaxVirtual, AtLeast(1, u))
           IN  w \in Nat /\ w # None /\ t <= w /\ w <= t + AtLeast(1, u)
  BY VirtTimerAssumption DEF AtMost, AtLeast, None

\* The wake-up of the mode m is ahead, in time for its next event at one of
\* the ratios.
Awake(m) ==
    /\ sysDue[m] # None
    /\ now <= sysDue[m]
    /\ \E r \in Ratios :
          sysDue[m] <= now + AtLeast(1, (s[m].virtual_next_event_time * r[1]) \div r[2])

-----------------------------------------------------------------------------
(* The next event.                                                         *)

\* What next_event_time_update leaves of both modes, the next event of one
\* having been set t after the time now of its clock.
Updated(mode, t) ==
    /\ s' = [s EXCEPT ![mode] =
               [current_timers_time     |-> s[mode].current_timers_time,
                timers_next_event_time  |-> t,
                current_virtual_time    |-> s[mode].current_virtual_time,
                virtual_next_event_time |-> t]]
    /\ s' \in [Modes -> Clock]
    /\ sysDue' \in [Modes -> {None} \cup Nat]
    /\ \A m \in Modes : Awake(m) \/ m = mode => Awake(m)'
    /\ ClockInv'
    /\ failed' = failed

\* The assertion of next_event_time_update, and the wake-up it sets.
LEMMA UpdateEvent ==
    ASSUME TypeOK, ClockInv, NEW mode \in Modes, NEW t \in Nat, t >= 1,
           next_event_time_update(mode, [s[mode] EXCEPT !.timers_next_event_time = t]),
           now' = now
    PROVE  Updated(mode, t)
  <1> DEFINE n == [s[mode] EXCEPT !.timers_next_event_time = t]
             v == n.timers_next_event_time + n.current_timers_time - n.current_virtual_time
             k == [n EXCEPT !.virtual_next_event_time = v]
             c == [current_timers_time     |-> s[mode].current_timers_time,
                   timers_next_event_time  |-> t,
                   current_virtual_time    |-> s[mode].current_virtual_time,
                   virtual_next_event_time |-> t]
             w == now + AtMost(MaxVirtual, AtLeast(1, TICKS_TO_USEC(t)))
  <1>1. s \in [Modes -> Clock] /\ s[mode] \in Clock /\ now \in Nat /\ ratio \in Ratios
        /\ sysDue \in [Modes -> {None} \cup Nat] /\ failed \in BOOLEAN
    BY DEF TypeOK, Clock
  <1>2. n \in Clock /\ n.timers_next_event_time = t
        /\ n.current_timers_time = s[mode].current_timers_time
        /\ n.current_virtual_time = s[mode].current_virtual_time
    BY <1>1 DEF Clock
  <1> HIDE DEF n
  <1>3. v = t
    BY <1>1, <1>2 DEF ClockInv, Clock
  <1>4. s' = [s EXCEPT ![mode] = k] /\ failed' = (failed \/ v <= 0)
        /\ sysDue' = [sysDue EXCEPT ![mode] = now + AtMost(MaxVirtual, AtLeast(1, TICKS_TO_USEC(v)))]
    BY DEF next_event_time_update, Wake, n
  <1> HIDE DEF v
  <1>5. k = c
    BY <1>1, <1>2, <1>3 DEF Clock
  <1>6. c \in Clock
    BY <1>1 DEF Clock
  <1> HIDE DEF c, k
  <1>7. s' = [s EXCEPT ![mode] = c] /\ s' \in [Modes -> Clock]
    BY <1>1, <1>4, <1>5, <1>6
  <1>8. failed' = failed
    BY <1>1, <1>3, <1>4
  <1>9. sysDue' = [sysDue EXCEPT ![mode] = w]
    BY <1>3, <1>4
  <1>10. TICKS_TO_USEC(t) \in Nat
    BY <1>1, ScaledType DEF TICKS_TO_USEC
  <1>11. w \in Nat /\ w # None /\ now <= w /\ w <= now + AtLeast(1, TICKS_TO_USEC(t))
    BY <1>1, <1>10, WakeTime
  <1> HIDE DEF w
  <1>12. sysDue' \in [Modes -> {None} \cup Nat] /\ sysDue'[mode] = w
    BY <1>1, <1>9, <1>11
  <1>13. c.virtual_next_event_time = t /\ c.timers_next_event_time = t
         /\ c.current_timers_time = c.current_virtual_time
    BY DEF c, ClockInv
  <1>14. s'[mode] = c
    BY <1>1, <1>7
  <1>15. ASSUME NEW m \in Modes, m # mode
         PROVE  s'[m] = s[m] /\ sysDue'[m] = sysDue[m]
    BY <1>1, <1>7, <1>9, <1>15
  <1>16. ASSUME NEW m \in Modes, Awake(m) \/ m = mode
         PROVE  Awake(m)'
    <2>1. CASE m # mode
      BY <1>15, <1>16, <2>1 DEF Awake
    <2>2. CASE m = mode
      <3>1. sysDue'[m] <= now' + AtLeast(1, (s'[m].virtual_next_event_time * ratio[1]) \div ratio[2])
        BY <1>11, <1>12, <1>13, <1>14, <2>2 DEF TICKS_TO_USEC
      <3>2. sysDue'[m] # None /\ now' <= sysDue'[m]
        BY <1>11, <1>12, <2>2
      <3> QED
        BY <1>1, <3>1, <3>2 DEF Awake
    <2> QED
      BY <2>1, <2>2
  <1>17. ClockInv'
    <2> SUFFICES ASSUME NEW m \in Modes
                 PROVE  /\ s'[m].current_virtual_time = s'[m].current_timers_time
                        /\ s'[m].virtual_next_event_time = s'[m].timers_next_event_time
      BY DEF ClockInv
    <2>1. CASE m = mode
      BY <1>13, <1>14, <2>1
    <2>2. CASE m # mode
      BY <1>15, <2>2 DEF ClockInv
    <2> QED
      BY <2>1, <2>2
  <1> QED
    BY <1>7, <1>8, <1>12, <1>16, <1>17 DEF Updated, c

\* What a device that sets a timer useconds ahead leaves of both clocks.
Noticed(mode, useconds) ==
    /\ s' \in [Modes -> Clock]
    /\ sysDue' \in [Modes -> {None} \cup Nat]
    /\ ClockInv'
    /\ failed' = failed
    /\ \A m \in Modes :
          /\ s'[m].current_timers_time = s[m].current_timers_time
          /\ s'[m].current_virtual_time = s[m].current_virtual_time
          /\ s'[m].timers_next_event_time <= s[m].timers_next_event_time
          /\ s[m].timers_next_event_time >= 1 => s'[m].timers_next_event_time >= 1
          /\ Awake(m) => Awake(m)'
    /\ s'[mode].timers_next_event_time <= useconds

\* Setting a timer moves the next event no further away than the timer.
LEMMA NoticeEvent ==
    ASSUME TypeOK, ClockInv, NEW mode \in Modes, NEW useconds \in Nat, useconds >= 1,
           NoticeEarlier(mode, useconds), now' = now
    PROVE  Noticed(mode, useconds)
  <1>1. s \in [Modes -> Clock] /\ s[mode] \in Clock /\ now \in Nat
        /\ sysDue \in [Modes -> {None} \cup Nat]
        /\ \A m \in Modes : s[m] \in Clock
    BY DEF TypeOK, Clock
  <1>2. CASE useconds < s[mode].timers_next_event_time
    <2> DEFINE c == [current_timers_time     |-> s[mode].current_timers_time,
                     timers_next_event_time  |-> useconds,
                     current_virtual_time    |-> s[mode].current_virtual_time,
                     virtual_next_event_time |-> useconds]
    <2>1. next_event_time_update(mode, [s[mode] EXCEPT !.timers_next_event_time = useconds])
      BY <1>2 DEF NoticeEarlier
    <2>2. Updated(mode, useconds)
      BY <2>1, UpdateEvent
    <2>3. s' = [s EXCEPT ![mode] = c]
      BY <2>2 DEF Updated
    <2>4. c.timers_next_event_time = useconds
          /\ c.current_timers_time = s[mode].current_timers_time
          /\ c.current_virtual_time = s[mode].current_virtual_time
      OBVIOUS
    <2> HIDE DEF c
    <2>5. s'[mode] = c /\ \A m \in Modes \ {mode} : s'[m] = s[m]
      BY <1>1, <2>3
    <2>6. ASSUME NEW m \in Modes
          PROVE  /\ s'[m].current_timers_time = s[m].current_timers_time
                 /\ s'[m].current_virtual_time = s[m].current_virtual_time
                 /\ s'[m].timers_next_event_time <= s[m].timers_next_event_time
                 /\ s[m].timers_next_event_time >= 1 =>
                       s'[m].timers_next_event_time >= 1
      <3>1. CASE m = mode
        BY <1>1, <1>2, <2>4, <2>5, <3>1 DEF Clock
      <3>2. CASE m # mode
        BY <1>1, <2>5, <3>2 DEF Clock
      <3> QED
        BY <3>1, <3>2
    <2>7. s'[mode].timers_next_event_time <= useconds
      BY <2>4, <2>5
    <2> QED
      BY <2>2, <2>6, <2>7 DEF Noticed, Updated
  <1>3. CASE ~(useconds < s[mode].timers_next_event_time)
    <2>1. UNCHANGED <<s, sysDue, failed>>
      BY <1>3 DEF NoticeEarlier
    <2>2. s[mode].timers_next_event_time <= useconds
      BY <1>1, <1>3 DEF Clock
    <2>3. \A m \in Modes : s[m].timers_next_event_time <= s[m].timers_next_event_time
      BY <1>1 DEF Clock
    <2>4. \A m \in Modes : Awake(m) => Awake(m)'
      BY <2>1 DEF Awake
    <2>5. ClockInv'
      BY <2>1 DEF ClockInv
    <2> QED
      BY <1>1, <2>1, <2>2, <2>3, <2>4, <2>5 DEF Noticed
  <1> QED
    BY <1>2, <1>3
-----------------------------------------------------------------------------
(* Every step keeps the invariant.                                         *)

\* The number of devices is a number.
LEMMA DeviceCount == Cardinality(Devices) \in Nat
  BY VirtTimerAssumption, FS_CardinalityType

\* The slots in use are slots.
LEMMA UsedSlots ==
    ASSUME TypeOK
    PROVE  InUse \subseteq Slots /\ \A i \in InUse : i \in Nat /\ timer[i] \in Timer
  BY DeviceCount DEF TypeOK, InUse, Slots, Timer

\* What a device that sets a timer leaves.
TimerSet ==
    /\ timer' \in [Slots -> Timer]
    /\ s' \in [Modes -> Clock] /\ sysDue' \in [Modes -> {None} \cup Nat]
    /\ \A j \in InUse' : timer'[j].period >= 1
    /\ ControlInv' /\ ClockInv' /\ TimeInv' /\ EventInv' /\ ScanInv'
    /\ failed' = failed /\ WakeupAhead'

\* A timer set by register_timer or activate_timer is seen: it lies ahead of
\* the clock of its mode, and the next event of that mode is not after it.
LEMMA SetTimer ==
    ASSUME VirtInv, NEW i \in Slots, NEW mode \in Modes, NEW u \in Nat, u >= 1,
           NEW r \in Timer, r.period >= 1, r.realtime = mode,
           r.timeToFire = s[mode].current_timers_time + u,
           timer' = [timer EXCEPT ![i] = r],
           InUse' \subseteq InUse \cup {i},
           NoticeEarlier(mode, u), UNCHANGED <<running, now>>
    PROVE  TimerSet
  <1>1. TypeOK /\ SlotsInv /\ ControlInv /\ ClockInv /\ TimeInv /\ EventInv
        /\ ScanInv /\ WakeupAhead
    BY DEF VirtInv
  <1>2. Noticed(mode, u)
    BY <1>1, NoticeEvent
  <1>3. /\ timer \in [Slots -> Timer] /\ InUse \subseteq Slots
        /\ s \in [Modes -> Clock] /\ \A m \in Modes : s[m] \in Clock
        /\ scan \in {None} \cup Nat
    BY <1>1, UsedSlots, DeviceCount DEF TypeOK, Timer, Clock
  <1>4. timer' \in [Slots -> Timer] /\ timer'[i] = r
        /\ \A j \in Slots : j # i => timer'[j] = timer[j]
    BY <1>3
  <1>5. \A j \in InUse' : timer'[j].period >= 1
    BY <1>1, <1>3, <1>4 DEF SlotsInv
  <1>6. scan' = scan /\ calling' = calling /\ th' = th /\ rest' = rest /\ now' = now
    BY DEF running
  <1>7. ControlInv'
    BY <1>1, <1>6 DEF ControlInv
  <1>8. TimeInv'
    <2>1. s'[0].current_virtual_time = s[0].current_virtual_time
      BY <1>2 DEF Noticed, Modes
    <2> QED
      BY <1>1, <1>6, <2>1 DEF TimeInv
  <1>9. WakeupAhead'
    <2>1. \A m \in Modes : th # m => Awake(m)
      BY <1>1 DEF WakeupAhead, Awake
    <2>2. \A m \in Modes : th' # m => Awake(m)'
      BY <1>2, <1>6, <2>1 DEF Noticed
    <2> QED
      BY <2>2 DEF WakeupAhead, Awake
  <1>10. s' \in [Modes -> Clock] /\ \A m \in Modes :
           /\ s'[m] \in Clock
           /\ s'[m].current_timers_time = s[m].current_timers_time
           /\ s'[m].timers_next_event_time <= s[m].timers_next_event_time
           /\ s[m].timers_next_event_time >= 1 => s'[m].timers_next_event_time >= 1
    BY <1>2 DEF Noticed
  <1>11. s'[mode].timers_next_event_time <= u
    BY <1>2 DEF Noticed
  <1>12. ASSUME NEW m \in Modes, NEW j \in Armed(m)'
         PROVE  \/ j \in Armed(m) /\ timer'[j] = timer[j]
                \/ j = i /\ m = mode
    BY <1>3, <1>4, <1>12 DEF Armed
  <1>13. EventInv'
    <2> SUFFICES ASSUME NEW m \in Modes, ~Scanned(m)'
                 PROVE  /\ s'[m].timers_next_event_time >= 1
                        /\ \A j \in Armed(m)' :
                              timer'[j].timeToFire >= s'[m].current_timers_time
                                                      + s'[m].timers_next_event_time
      BY DEF EventInv
    <2>1. ~Scanned(m)
      BY <1>6 DEF Scanned
    <2>2. s'[m].timers_next_event_time >= 1
      BY <1>1, <1>10, <2>1 DEF EventInv
    <2>3. ASSUME NEW j \in Armed(m)'
          PROVE  timer'[j].timeToFire >= s'[m].current_timers_time
                                         + s'[m].timers_next_event_time
      <3>1. CASE j \in Armed(m) /\ timer'[j] = timer[j]
        <4>1. timer[j].timeToFire >= s[m].current_timers_time + s[m].timers_next_event_time
          BY <1>1, <2>1, <3>1 DEF EventInv
        <4>2. timer[j].timeToFire \in Nat
          BY <1>3, <3>1 DEF Armed, Timer
        <4> QED
          BY <1>3, <1>10, <3>1, <4>1, <4>2 DEF Clock
      <3>2. CASE j = i /\ m = mode
        BY <1>3, <1>4, <1>10, <1>11, <3>2 DEF Clock
      <3> QED
        BY <1>12, <2>3, <3>1, <3>2
    <2> QED
      BY <2>2, <2>3
  <1>14. ScanInv'
    <2> SUFFICES ASSUME scan # None, NEW j \in Armed(th)'
                 PROVE  /\ timer'[j].timeToFire >= s'[th].current_timers_time
                        /\ j < scan => timer'[j].timeToFire > s'[th].current_timers_time
      BY <1>6 DEF ScanInv, Armed
    <2>1. PICK m \in Modes : m = th
      BY <1>1 DEF TypeOK, ControlInv
    <2>2. j \in Armed(m)'
      BY <1>6, <2>1 DEF Armed
    <2>3. CASE j \in Armed(m) /\ timer'[j] = timer[j]
      BY <1>1, <1>10, <2>1, <2>3 DEF ScanInv
    <2>4. CASE j = i /\ m = mode
      BY <1>3, <1>4, <1>10, <2>1, <2>4 DEF Clock
    <2> QED
      BY <1>12, <2>2, <2>3, <2>4
  <1> QED
    BY <1>2, <1>4, <1>5, <1>7, <1>8, <1>9, <1>10, <1>13, <1>14 DEF TimerSet, Noticed
\* register_timer finds room, takes the slot after the last and records it.
LEMMA RegisterStep ==
    ASSUME VirtInv, NEW d \in Devices, NEW mode \in Modes, NEW u \in Nat, u >= 1,
           NEW c \in BOOLEAN, NEW a \in BOOLEAN, register_timer(d, mode, u, c, a)
    PROVE  VirtInv'
  <1> DEFINE r == [period |-> u, timeToFire |-> s[mode].current_timers_time + u,
                   active |-> a, continuous |-> c, realtime |-> mode]
  <1>1. TypeOK /\ SlotsInv /\ VirtTimerAssumption
    BY VirtTimerAssumption DEF VirtInv
  <1>2. s[mode] \in Clock /\ slotOf \in [Devices -> {None} \cup Slots]
        /\ Cardinality(Devices) \in Nat /\ None \notin Slots /\ numTimers \in Nat
    BY <1>1, DeviceCount DEF TypeOK, Clock, None, Slots
  <1>3. slotOf[d] = None /\ slotOf' = [slotOf EXCEPT ![d] = numTimers]
        /\ numTimers' = numTimers + 1 /\ timer' = [timer EXCEPT ![numTimers] = r]
        /\ NoticeEarlier(mode, u) /\ UNCHANGED <<running, ratio, last_usec, now>>
    BY DEF register_timer
  <1>4. r \in Timer /\ r.period >= 1 /\ r.realtime = mode
        /\ r.timeToFire = s[mode].current_timers_time + u
    BY <1>2 DEF Timer, Clock
  <1> HIDE DEF r
  <1>5. d \notin Registered /\ Registered' = Registered \cup {d}
    <2>1. \A e \in Devices : slotOf'[e] = IF e = d THEN numTimers ELSE slotOf[e]
      BY <1>2, <1>3
    <2>2. numTimers # None
      BY <1>2 DEF None
    <2>3. Registered' = {e \in Devices : slotOf'[e] # None}
      BY DEF Registered
    <2>4. d \notin Registered
      BY <1>3 DEF Registered
    <2>5. \A e : e \in Registered' <=> e \in Registered \cup {d}
      BY <2>1, <2>2, <2>3 DEF Registered
    <2> QED
      BY <2>4, <2>5
  <1>6. /\ IsFiniteSet(Registered)
        /\ Cardinality(Registered) \in Nat
        /\ Cardinality(Registered') = Cardinality(Registered) + 1
        /\ Cardinality(Registered') <= Cardinality(Devices)
    <2>1. Registered \subseteq Devices /\ Registered' \subseteq Devices
      BY <1>5 DEF Registered
    <2>2. IsFiniteSet(Devices)
      BY <1>1 DEF VirtTimerAssumption
    <2>3. IsFiniteSet(Registered) /\ Cardinality(Registered') <= Cardinality(Devices)
      BY <2>1, <2>2, FS_Subset
    <2>4. Cardinality(Registered') = Cardinality(Registered) + 1
      BY <1>5, <2>3, FS_AddElement
    <2> QED
      BY <2>3, <2>4, FS_CardinalityType
  <1>7. numTimers \in Slots /\ numTimers' \in 2..(Cardinality(Devices) + 2)
        /\ numTimers' = Cardinality(Registered') + 2
    BY <1>1, <1>2, <1>3, <1>6 DEF SlotsInv, Slots
  <1>8. InUse' = InUse \cup {numTimers}
    BY <1>2, <1>3 DEF InUse
  <1>9. TimerSet
    BY <1>3, <1>4, <1>7, <1>8, SetTimer
  <1>10. slotOf' \in [Devices -> {None} \cup Slots]
    BY <1>2, <1>3, <1>7
  <1>11. \A e \in Devices : slotOf'[e] # None => slotOf'[e] \in InUse'
    BY <1>1, <1>2, <1>3, <1>8 DEF SlotsInv
  <1>12. SlotsInv'
    BY <1>7, <1>9, <1>11 DEF SlotsInv, TimerSet
  <1>13. TypeOK'
    BY <1>1, <1>3, <1>7, <1>9, <1>10 DEF TypeOK, TimerSet, Timer, Clock, running, Slots
  <1> QED
    BY <1>9, <1>12, <1>13 DEF VirtInv, TimerSet

\* activate_timer sets a timer of a device in the mode it was registered for.
LEMMA ActivateStep ==
    ASSUME VirtInv, NEW d \in Devices, NEW u \in Nat, u >= 1, NEW c \in BOOLEAN,
           activate_timer(d, u, c)
    PROVE  VirtInv'
  <1> DEFINE i == slotOf[d]
             mode == timer[i].realtime
             r == [period |-> u, timeToFire |-> s[mode].current_timers_time + u,
                   active |-> TRUE, continuous |-> c, realtime |-> mode]
  <1>1. TypeOK /\ SlotsInv
    BY DEF VirtInv
  <1>2. i # None /\ timer' = [timer EXCEPT ![i] = r] /\ NoticeEarlier(mode, u)
        /\ UNCHANGED <<numTimers, slotOf, running, ratio, last_usec, now>>
    BY DEF activate_timer
  <1>3. i \in InUse /\ i \in Slots /\ timer[i] \in Timer
    BY <1>1, <1>2, UsedSlots DEF SlotsInv
  <1> HIDE DEF i
  <1>4. mode \in Modes
    BY <1>3 DEF Timer
  <1>5. s[mode] \in Clock
    BY <1>1, <1>4 DEF TypeOK, Clock
  <1>6. r \in Timer /\ r.period >= 1 /\ r.realtime = mode
        /\ r.timeToFire = s[mode].current_timers_time + u
    BY <1>4, <1>5 DEF Timer, Clock
  <1> HIDE DEF r, mode
  <1>7. InUse' \subseteq InUse \cup {i}
    BY <1>2 DEF InUse
  <1>8. TimerSet
    BY <1>2, <1>3, <1>4, <1>6, <1>7, SetTimer
  <1>9. SlotsInv'
    BY <1>1, <1>2, <1>8 DEF SlotsInv, TimerSet, InUse, Registered
  <1>10. TypeOK'
    BY <1>1, <1>2, <1>8 DEF TypeOK, TimerSet, Timer, Clock, running
  <1> QED
    BY <1>8, <1>9, <1>10 DEF VirtInv, TimerSet

\* deactivate_timer leaves the clocks and the next event alone.
LEMMA DeactivateStep ==
    ASSUME VirtInv, NEW d \in Devices, deactivate_timer(d)
    PROVE  VirtInv'
  <1> DEFINE i == slotOf[d]
  <1>1. TypeOK /\ SlotsInv /\ ControlInv /\ ClockInv /\ TimeInv /\ EventInv
        /\ ScanInv /\ WakeupAhead /\ ~failed
    BY DEF VirtInv
  <1>2. i # None /\ timer' = [timer EXCEPT ![i].active = FALSE]
        /\ UNCHANGED <<numTimers, slotOf, s, running, ratio, last_usec, outside, failed>>
    BY DEF deactivate_timer
  <1>3. i \in InUse /\ i \in Slots /\ timer[i] \in Timer /\ InUse \subseteq Slots
        /\ timer \in [Slots -> Timer]
    BY <1>1, <1>2, UsedSlots DEF SlotsInv, TypeOK, Timer
  <1> HIDE DEF i
  <1> DEFINE r == [timer[i] EXCEPT !.active = FALSE]
  <1>4. r \in Timer /\ ~r.active /\ r.timeToFire = timer[i].timeToFire
        /\ r.period = timer[i].period /\ r.realtime = timer[i].realtime
    BY <1>3, Zenon DEF Timer
  <1>5. timer' = [timer EXCEPT ![i] = r]
    BY <1>2
  <1> HIDE DEF r
  <1>6. timer' \in [Slots -> Timer] /\ timer'[i] = r
        /\ \A j \in Slots : j # i => timer'[j] = timer[j]
    BY <1>3, <1>4, <1>5
  <1>7. InUse' = InUse
    BY <1>2 DEF InUse
  <1>8. ASSUME NEW m, NEW j \in InUse, timer'[j].active /\ timer'[j].realtime = m
        PROVE  j \in Armed(m) /\ timer'[j] = timer[j]
    BY <1>3, <1>4, <1>6, <1>8 DEF Armed
  <1>9. th' = th /\ scan' = scan /\ calling' = calling /\ rest' = rest /\ s' = s
        /\ now' = now /\ sysDue' = sysDue /\ failed' = failed
    BY <1>2 DEF running, outside
  <1>10. EventInv'
    BY <1>1, <1>7, <1>8, <1>9 DEF EventInv, Scanned, Armed
  <1>11. ScanInv'
    BY <1>1, <1>7, <1>8, <1>9 DEF ScanInv, Armed
  <1>12. SlotsInv'
    BY <1>1, <1>2, <1>3, <1>4, <1>6, <1>7 DEF SlotsInv, Registered
  <1>13. TypeOK'
    BY <1>1, <1>2, <1>6, <1>9 DEF TypeOK, Timer
  <1>14. ControlInv' /\ ClockInv' /\ TimeInv' /\ WakeupAhead'
    BY <1>1, <1>9 DEF ControlInv, ClockInv, TimeInv, WakeupAhead
  <1> QED
    BY <1>1, <1>9, <1>10, <1>11, <1>12, <1>13, <1>14 DEF VirtInv
\* timer_handler takes up what its clock lacks; its one-shot timer need not be
\* ahead until it returns.
LEMMA HandlerStarts ==
    ASSUME VirtInv, NEW mode \in Modes, timer_handler(mode),
           \/ sysDue' = [sysDue EXCEPT ![mode] = None]
           \/ sysDue' = sysDue
    PROVE  VirtInv'
  <1>1. TypeOK /\ SlotsInv /\ ControlInv /\ ClockInv /\ TimeInv /\ EventInv
        /\ ScanInv /\ WakeupAhead /\ ~failed
    BY DEF VirtInv
  <1>2. th = None /\ th' = mode /\ UNCHANGED <<table, s, scan, calling, now>>
    BY DEF timer_handler
  <1>3. scan = None /\ scan' = None /\ timer' = timer /\ numTimers' = numTimers
        /\ slotOf' = slotOf /\ s' = s /\ calling' = calling /\ now' = now
    BY <1>1, <1>2 DEF ControlInv, table
  <1>4. s[0] \in Clock /\ s[1] \in Clock /\ now \in Nat
        /\ sysDue \in [Modes -> {None} \cup Nat]
    BY <1>1 DEF TypeOK, Clock, Modes
  <1>5. s[0].current_virtual_time <= now
    BY <1>1, <1>2 DEF TimeInv, None
  <1>6. rest' \in Nat /\ ratio' \in Ratios /\ last_usec' \in Nat
        /\ (mode = 0 => rest' = now - s[0].current_virtual_time)
    BY <1>1, <1>4, <1>5 DEF timer_handler, TypeOK, Clock
  <1>7. failed' = FALSE
    <2>1. ~(now < s[0].current_virtual_time)
      BY <1>4, <1>5 DEF Clock
    <2>2. failed' = (failed \/ (mode = 0 /\ now < s[0].current_virtual_time))
      BY DEF timer_handler
    <2> QED
      BY <1>1, <2>1, <2>2, Zenon DEF TypeOK
  <1>8. sysDue' \in [Modes -> {None} \cup Nat] /\ \A m \in Modes \ {mode} : sysDue'[m] = sysDue[m]
    BY <1>4
  <1>9. TypeOK'
    BY <1>1, <1>2, <1>3, <1>6, <1>7, <1>8 DEF TypeOK
  <1>10. TimeInv'
    BY <1>2, <1>3, <1>4, <1>5, <1>6 DEF TimeInv, Modes, Clock
  <1>11. EventInv' /\ ScanInv'
    BY <1>1, <1>3 DEF EventInv, ScanInv, Scanned, Armed, InUse
  <1>12. WakeupAhead'
    BY <1>1, <1>2, <1>3, <1>8 DEF WakeupAhead, None, Modes
  <1>13. SlotsInv' /\ ControlInv' /\ ClockInv'
    BY <1>1, <1>2, <1>3 DEF SlotsInv, ControlInv, ClockInv, InUse, Registered
  <1> QED
    BY <1>7, <1>9, <1>10, <1>11, <1>12, <1>13 DEF VirtInv

\* advance_virtual_time takes a step of at least one microsecond, and none past
\* the next event, so that periodic misses no timer.
LEMMA AdvanceStep ==
    ASSUME VirtInv, advance_virtual_time
    PROVE  VirtInv'
  <1> DEFINE c    == s[th]
             step == AtMost(rest, c.virtual_next_event_time)
             n    == [current_virtual_time    |-> c.current_virtual_time + step,
                      virtual_next_event_time |-> c.virtual_next_event_time - step,
                      timers_next_event_time  |-> c.timers_next_event_time - step,
                      current_timers_time     |-> c.current_timers_time + step]
  <1>1. TypeOK /\ SlotsInv /\ ControlInv /\ ClockInv /\ TimeInv /\ EventInv
        /\ ScanInv /\ WakeupAhead /\ ~failed
    BY DEF VirtInv
  <1>2. /\ th # None /\ scan = None /\ rest > 0
        /\ rest' = rest - step
        /\ s' = [s EXCEPT ![th] = n]
        /\ scan' = IF step < n.timers_next_event_time THEN None ELSE 0
        /\ UNCHANGED <<table, calling, th, ratio, last_usec, outside>>
    BY DEF advance_virtual_time
  <1>3. PICK m \in Modes : m = th
    BY <1>1, <1>2 DEF TypeOK
  <1>4. c \in Clock /\ rest \in Nat /\ s \in [Modes -> Clock]
    BY <1>1, <1>3 DEF TypeOK, Clock
  <1>5. c.current_virtual_time = c.current_timers_time
        /\ c.virtual_next_event_time = c.timers_next_event_time
    BY <1>1, <1>3 DEF ClockInv
  <1>6. c.timers_next_event_time >= 1 /\ \A i \in Armed(m) :
          timer[i].timeToFire >= c.current_timers_time + c.timers_next_event_time
    BY <1>1, <1>2, <1>3 DEF EventInv, Scanned
  <1>7. step \in Nat /\ step >= 1 /\ step <= rest /\ step <= c.timers_next_event_time
    BY <1>2, <1>4, <1>5, <1>6 DEF AtMost, Clock
  <1>8. n \in Clock
    BY <1>4, <1>5, <1>7 DEF Clock
  <1>9. /\ n.current_virtual_time = c.current_virtual_time + step
        /\ n.virtual_next_event_time = n.timers_next_event_time
        /\ n.timers_next_event_time = c.timers_next_event_time - step
        /\ n.current_timers_time = c.current_timers_time + step
        /\ n.current_virtual_time = n.current_timers_time
    BY <1>5
  <1>10. failed' = (\/ failed
                    \/ step = 0
                    \/ step > c.timers_next_event_time
                    \/ scan' = 0 /\ \E i \in Armed(th) :
                                       timer[i].timeToFire < n.current_timers_time)
    BY DEF advance_virtual_time
  <1> HIDE DEF n, step
  <1>11. s' \in [Modes -> Clock] /\ s'[m] = n /\ \A k \in Modes \ {m} : s'[k] = s[k]
    BY <1>2, <1>3, <1>4, <1>8
  <1>12. timer' = timer /\ numTimers' = numTimers /\ slotOf' = slotOf
         /\ calling' = calling /\ th' = th /\ ratio' = ratio /\ last_usec' = last_usec
         /\ now' = now /\ sysDue' = sysDue
    BY <1>2 DEF table, outside
  <1>13. ASSUME NEW i \in Armed(m)
         PROVE  /\ timer[i].timeToFire \in Nat
                /\ timer[i].timeToFire >= n.current_timers_time + n.timers_next_event_time
    <2>1. timer[i] \in Timer
      BY <1>1, UsedSlots DEF Armed
    <2> QED
      BY <1>4, <1>6, <1>7, <1>9, <1>13, <2>1 DEF Timer, Clock
  <1>14. ~failed'
    BY <1>1, <1>3, <1>4, <1>7, <1>8, <1>10, <1>13 DEF Clock
  <1>15. rest' \in Nat /\ scan' \in {None, 0} /\ failed' \in BOOLEAN
    BY <1>2, <1>4, <1>7, <1>10
  <1>16. TypeOK'
    <2>1. scan' \in {None} \cup 0..(Cardinality(Devices) + 2)
      BY <1>15, DeviceCount
    <2> QED
      BY <1>1, <1>11, <1>12, <1>15, <2>1 DEF TypeOK, Clock
  <1>17. EventInv'
    <2> SUFFICES ASSUME NEW k \in Modes, ~Scanned(k)'
                 PROVE  /\ s'[k].timers_next_event_time >= 1
                        /\ \A i \in Armed(k)' :
                              timer'[i].timeToFire >= s'[k].current_timers_time
                                                      + s'[k].timers_next_event_time
      BY DEF EventInv
    <2>1. Armed(k)' = Armed(k)
      BY <1>12 DEF Armed, InUse
    <2>2. CASE k = m
      <3>1. scan' = None
        BY <1>3, <1>12, <2>2 DEF Scanned
      <3>2. step < n.timers_next_event_time
        BY <1>2, <3>1 DEF None, n
      <3>3. n.timers_next_event_time >= 1
        BY <1>7, <1>8, <3>2 DEF Clock
      <3> QED
        BY <1>11, <1>12, <1>13, <2>1, <2>2, <3>3
    <2>3. CASE k # m
      BY <1>1, <1>2, <1>11, <1>12, <2>1, <2>3 DEF EventInv, Scanned
    <2> QED
      BY <2>2, <2>3
  <1>18. ScanInv'
    <2> SUFFICES ASSUME scan' # None, NEW i \in Armed(th)'
                 PROVE  /\ timer'[i].timeToFire >= s'[th].current_timers_time
                        /\ i < scan' => timer'[i].timeToFire > s'[th].current_timers_time
      BY <1>12 DEF ScanInv
    <2>1. i \in Armed(m) /\ i \in Nat
      BY <1>1, <1>3, <1>12, UsedSlots DEF Armed, InUse
    <2>2. timer[i].timeToFire >= n.current_timers_time
      BY <1>8, <1>13, <2>1 DEF Clock
    <2>3. scan' = 0
      BY <1>15
    <2> QED
      BY <1>3, <1>11, <1>12, <2>1, <2>2, <2>3
  <1>19. ClockInv'
    <2> SUFFICES ASSUME NEW k \in Modes
                 PROVE  /\ s'[k].current_virtual_time = s'[k].current_timers_time
                        /\ s'[k].virtual_next_event_time = s'[k].timers_next_event_time
      BY DEF ClockInv
    <2>1. CASE k = m
      BY <1>9, <1>11, <2>1
    <2>2. CASE k # m
      BY <1>1, <1>11, <2>2 DEF ClockInv
    <2> QED
      BY <2>1, <2>2
  <1>20. TimeInv'
    <2>1. CASE m = 0
      <3>1. c.current_virtual_time + rest = now
        BY <1>1, <1>3, <2>1 DEF TimeInv
      <3>2. s'[0].current_virtual_time = c.current_virtual_time + step
        BY <1>9, <1>11, <2>1
      <3>3. rest' = rest - step
        BY <1>2 DEF step
      <3>4. c.current_virtual_time \in Nat
        BY <1>4 DEF Clock
      <3> HIDE DEF c
      <3>5. s'[0].current_virtual_time + rest' = now' /\ th' = 0
        BY <1>3, <1>4, <1>7, <1>12, <2>1, <3>1, <3>2, <3>3, <3>4
      <3> QED
        BY <3>5 DEF TimeInv
    <2>2. CASE m # 0
      BY <1>1, <1>3, <1>11, <1>12, <2>2 DEF TimeInv, Modes
    <2> QED
      BY <2>1, <2>2
  <1>21. WakeupAhead'
    BY <1>1, <1>3, <1>11, <1>12 DEF WakeupAhead
  <1>22. SlotsInv' /\ ControlInv'
    BY <1>1, <1>2, <1>3, <1>12 DEF SlotsInv, ControlInv, InUse, Registered
  <1> QED
    BY <1>14, <1>16, <1>17, <1>18, <1>19, <1>20, <1>21, <1>22 DEF VirtInv
\* A set of times or of slots has a first one.
LEMMA FirstOf ==
    ASSUME NEW S \in SUBSET Nat, S # {}
    PROVE  Min(S) \in S /\ \A y \in S : Min(S) <= y
  <1> DEFINE R == OpToRel(<, Nat)
  <1>1. IsWellFoundedOn(R, Nat)
    BY NatLessThanWellFounded
  <1> HIDE DEF R
  <1>2. PICK x \in S : \A y \in S : ~ (<<y, x>> \in R)
    BY <1>1, WFMin, Zenon
  <1>3. \A y \in S : y < x => <<y, x>> \in R
    BY DEF R, OpToRel
  <1>4. \A y \in S : ~(y < x)
    BY <1>2, <1>3, Zenon
  <1>5. \A y \in S : x <= y
    BY <1>4
  <1> QED
    BY <1>5, Zenon DEF Min

\* What the call of the handler of the timer j of the mode m leaves: j is the
\* first one due that the scan has not come to, and is now due later or not at
\* all.
Called(m, j) ==
    /\ m = th /\ j = Min(DueFrom(scan))
    /\ scan <= j /\ j \in Slots
    /\ timer[j] \in Timer
    /\ timer[j].timeToFire = s[m].current_timers_time
    /\ \A i \in Armed(m) : scan <= i /\ i < j =>
          timer[i].timeToFire # s[m].current_timers_time
    /\ scan' = j + 1 /\ calling' = j
    /\ timer' \in [Slots -> Timer]
    /\ \A i \in Slots \ {j} : timer'[i] = timer[i]
    /\ timer'[j].period = timer[j].period
    /\ timer'[j].realtime = m
    /\ timer'[j].active = timer[j].continuous
    /\ timer'[j].continuous = timer[j].continuous
    /\ timer[j].continuous =>
          timer'[j].timeToFire = timer[j].timeToFire + timer[j].period
    /\ ~timer[j].continuous => timer'[j].timeToFire = timer[j].timeToFire

\* The scan calls the handlers of the timers in this way.
LEMMA CalledTimer ==
    ASSUME VirtInv, CallHandler
    PROVE  \E m \in Modes : \E j \in Armed(m) : Called(m, j)
  <1> DEFINE D == DueFrom(scan)
             j == Min(D)
             a == [timer[j] EXCEPT !.timeToFire = @ + timer[j].period]
             b == [timer[j] EXCEPT !.active = FALSE]
  <1>1. TypeOK /\ ControlInv
    BY DEF VirtInv
  <1>2. /\ scan # None /\ D # {} /\ scan' = j + 1 /\ calling' = j
        /\ timer' = IF timer[j].continuous THEN [timer EXCEPT ![j] = a]
                                           ELSE [timer EXCEPT ![j] = b]
    BY DEF CallHandler
  <1>3. PICK m \in Modes : m = th
    BY <1>1, <1>2 DEF TypeOK, ControlInv
  <1>4. \A i \in InUse : i \in Slots /\ i \in Nat /\ timer[i] \in Timer
    BY <1>1, UsedSlots
  <1>5. timer \in [Slots -> Timer]
    BY <1>1 DEF TypeOK, Timer
  <1>6. \A i : i \in D <=> i \in Armed(m) /\ i >= scan
                          /\ timer[i].timeToFire = s[m].current_timers_time
    BY <1>3 DEF DueFrom
  <1>7. D \in SUBSET Nat
    BY <1>4, <1>6 DEF Armed
  <1> HIDE DEF D
  <1>8. j \in D /\ \A i \in D : j <= i
    BY <1>2, <1>7, FirstOf
  <1> HIDE DEF j
  <1>9. j \in Armed(m) /\ j \in Slots /\ j \in Nat /\ timer[j] \in Timer
        /\ timer[j].realtime = m /\ timer[j].active
        /\ timer[j].timeToFire = s[m].current_timers_time /\ j >= scan
    BY <1>4, <1>6, <1>8 DEF Armed
  <1>10. scan \in Nat
    BY <1>1, <1>2, DeviceCount DEF TypeOK
  <1>11. \A i \in Armed(m) : scan <= i /\ i < j =>
                    timer[i].timeToFire # s[m].current_timers_time
    <2> SUFFICES ASSUME NEW i \in Armed(m), scan <= i, i < j,
                        timer[i].timeToFire = s[m].current_timers_time
                 PROVE  FALSE
      OBVIOUS
    <2>1. i \in D
      BY <1>6
    <2>2. i \in Nat
      BY <1>4 DEF Armed
    <2> QED
      BY <1>8, <1>9, <2>1, <2>2
  <1>12. timer[j].timeToFire + timer[j].period \in Nat
    BY <1>9 DEF Timer
  <1>13. a \in Timer /\ a.period = timer[j].period /\ a.realtime = timer[j].realtime
         /\ a.active = timer[j].active /\ a.continuous = timer[j].continuous
         /\ a.timeToFire = timer[j].timeToFire + timer[j].period
    BY <1>9, <1>12, Zenon DEF Timer
  <1>14. b \in Timer /\ b.period = timer[j].period /\ b.realtime = timer[j].realtime
         /\ b.active = FALSE /\ b.continuous = timer[j].continuous
         /\ b.timeToFire = timer[j].timeToFire
    BY <1>9, Zenon DEF Timer
  <1> HIDE DEF a, b
  <1>15. timer[j].continuous \in BOOLEAN
    BY <1>9 DEF Timer
  <1>16. /\ m = th /\ j = Min(DueFrom(scan)) /\ scan' = j + 1 /\ calling' = j
    BY <1>2, <1>3 DEF j, D
  <1>17. CASE timer[j].continuous
    <2>1. timer' = [timer EXCEPT ![j] = a]
      BY <1>2, <1>17
    <2>2. timer' \in [Slots -> Timer] /\ timer'[j] = a
          /\ \A i \in Slots \ {j} : timer'[i] = timer[i]
      BY <1>5, <1>9, <1>13, <2>1
    <2>3. timer'[j].active = timer[j].continuous
      BY <1>9, <1>13, <1>15, <1>17, <2>2
    <2>4. timer'[j].continuous = timer[j].continuous
      BY <1>13, <2>2
    <2> QED
      BY <1>9, <1>11, <1>13, <1>16, <1>17, <2>2, <2>3, <2>4 DEF Called
  <1>18. CASE ~timer[j].continuous
    <2>1. timer' = [timer EXCEPT ![j] = b]
      BY <1>2, <1>18
    <2>2. timer' \in [Slots -> Timer] /\ timer'[j] = b
          /\ \A i \in Slots \ {j} : timer'[i] = timer[i]
      BY <1>5, <1>9, <1>14, <2>1
    <2>3. timer'[j].active = timer[j].continuous
      BY <1>14, <1>15, <1>18, <2>2
    <2>4. timer'[j].continuous = timer[j].continuous
      BY <1>14, <2>2
    <2> QED
      BY <1>9, <1>11, <1>14, <1>16, <1>18, <2>2, <2>3, <2>4 DEF Called
  <1> QED
    BY <1>17, <1>18
\* A handler is called at the time its timer is due, and the timer lies ahead
\* again before the handler runs.
LEMMA CallStep ==
    ASSUME VirtInv, CallHandler
    PROVE  VirtInv'
  <1>1. TypeOK /\ SlotsInv /\ ControlInv /\ ClockInv /\ TimeInv /\ EventInv
        /\ ScanInv /\ WakeupAhead /\ ~failed
    BY DEF VirtInv
  <1>0. PICK m \in Modes : \E i \in Armed(m) : Called(m, i)
    BY CalledTimer, Zenon
  <1>2. PICK j \in Armed(m) : Called(m, j)
    BY <1>0, Zenon
  <1>3. /\ scan # None
        /\ UNCHANGED <<numTimers, slotOf, s, th, rest, ratio, last_usec, outside, failed>>
    BY DEF CallHandler
  <1>4. now' = now /\ sysDue' = sysDue /\ InUse' = InUse
    BY <1>3 DEF outside, InUse
  <1>5. /\ m = th /\ scan <= j /\ j \in Slots /\ timer[j] \in Timer
        /\ timer[j].timeToFire = s[m].current_timers_time
        /\ \A i \in Armed(m) : scan <= i /\ i < j =>
              timer[i].timeToFire # s[m].current_timers_time
        /\ scan' = j + 1 /\ calling' = j
        /\ timer' \in [Slots -> Timer]
        /\ \A i \in Slots \ {j} : timer'[i] = timer[i]
        /\ timer'[j].period = timer[j].period
        /\ timer'[j].realtime = m
        /\ timer'[j].active = timer[j].continuous
        /\ timer[j].continuous =>
              timer'[j].timeToFire = timer[j].timeToFire + timer[j].period
    BY <1>2 DEF Called
  <1>6. \A i \in InUse : i \in Slots /\ i \in Nat /\ timer[i] \in Timer /\ timer[i].period >= 1
    BY <1>1, UsedSlots DEF SlotsInv
  <1>7. s[m] \in Clock /\ scan \in Nat /\ j \in InUse
    BY <1>1, <1>2, <1>3, DeviceCount DEF TypeOK, Clock, Armed
  <1>8. ASSUME NEW k \in Modes, NEW i \in Armed(k)'
        PROVE  \/ i \in Armed(k) /\ timer'[i] = timer[i] /\ i # j
               \/ i = j /\ k = m /\ timer'[i].timeToFire > s[m].current_timers_time
    <2>1. i \in InUse /\ timer'[i].active /\ timer'[i].realtime = k
      BY <1>4, <1>8 DEF Armed
    <2>2. CASE i = j
      <3>1. timer[j].continuous /\ k = m
        BY <1>5, <2>1, <2>2
      <3>2. timer[j].timeToFire \in Nat /\ timer[j].period \in Nat /\ timer[j].period >= 1
        BY <1>6, <1>7 DEF Timer
      <3> QED
        BY <1>5, <2>2, <3>1, <3>2
    <2>3. CASE i # j
      BY <1>5, <1>6, <2>1, <2>3 DEF Armed
    <2> QED
      BY <2>2, <2>3
  <1>9. EventInv'
    <2> SUFFICES ASSUME NEW k \in Modes, ~Scanned(k)'
                 PROVE  /\ s'[k].timers_next_event_time >= 1
                        /\ \A i \in Armed(k)' :
                              timer'[i].timeToFire >= s'[k].current_timers_time
                                                      + s'[k].timers_next_event_time
      BY DEF EventInv
    <2>1. scan' # None
      BY <1>5, <1>6, <1>7 DEF None
    <2>2. k # m /\ ~Scanned(k)
      BY <1>3, <1>5, <2>1 DEF Scanned
    <2> QED
      BY <1>1, <1>3, <1>8, <2>2 DEF EventInv
  <1>10. ScanInv'
    <2> SUFFICES ASSUME NEW i \in Armed(m)'
                 PROVE  /\ timer'[i].timeToFire >= s[m].current_timers_time
                        /\ i < scan' => timer'[i].timeToFire > s[m].current_timers_time
      BY <1>3, <1>5 DEF ScanInv, Armed
    <2>1. CASE i \in Armed(m) /\ timer'[i] = timer[i] /\ i # j
      <3>1. timer[i].timeToFire >= s[m].current_timers_time
            /\ (i < scan => timer[i].timeToFire > s[m].current_timers_time)
        BY <1>1, <1>3, <1>5, <2>1 DEF ScanInv
      <3>2. i \in Nat /\ timer[i].timeToFire \in Nat /\ j \in Nat
        BY <1>6, <1>7, <2>1 DEF Armed, Timer
      <3>3. i < scan' => i < scan \/ (scan <= i /\ i < j)
        BY <1>5, <1>7, <2>1, <3>2
      <3> QED
        BY <1>5, <1>7, <2>1, <3>1, <3>2, <3>3 DEF Clock
    <2>2. CASE i = j /\ timer'[i].timeToFire > s[m].current_timers_time
      <3>1. timer'[i].timeToFire \in Nat
        BY <1>5, <2>2 DEF Timer
      <3> QED
        BY <1>7, <2>2, <3>1 DEF Clock
    <2> QED
      BY <1>8, <2>1, <2>2
  <1>11. SlotsInv'
    <2>1. \A i \in InUse : timer'[i].period >= 1
      BY <1>5, <1>6
    <2> QED
      BY <1>1, <1>3, <1>4, <2>1 DEF SlotsInv, Registered
  <1>12. TypeOK'
    <2>1. scan' \in {None} \cup 0..(Cardinality(Devices) + 2) /\ calling' \in {None} \cup Slots
      BY <1>5, DeviceCount DEF Slots
    <2> QED
      BY <1>1, <1>3, <1>4, <1>5, <2>1 DEF TypeOK, Timer
  <1>13. ControlInv' /\ ClockInv' /\ TimeInv' /\ WakeupAhead'
    <2>1. th # None /\ scan' # None
      BY <1>1, <1>3, <1>5, <1>6, <1>7 DEF ControlInv, None
    <2> QED
      BY <1>1, <1>3, <1>4, <2>1 DEF ControlInv, ClockInv, TimeInv, WakeupAhead
  <1> QED
    BY <1>1, <1>3, <1>9, <1>10, <1>11, <1>12, <1>13 DEF VirtInv

\* A handler returns to the scan.
LEMMA ReturnStep ==
    ASSUME VirtInv, HandlerReturns
    PROVE  VirtInv'
  <1>1. TypeOK /\ SlotsInv /\ ControlInv /\ ClockInv /\ TimeInv /\ EventInv
        /\ ScanInv /\ WakeupAhead /\ ~failed
    BY DEF VirtInv
  <1>2. calling' = None
        /\ UNCHANGED <<table, s, scan, th, rest, ratio, last_usec, outside, failed>>
    BY DEF HandlerReturns
  <1>3. TypeOK'
    BY <1>1, <1>2 DEF TypeOK, table, outside
  <1>4. SlotsInv' /\ ControlInv' /\ ClockInv' /\ TimeInv'
    BY <1>1, <1>2 DEF SlotsInv, ControlInv, ClockInv, TimeInv, Registered, InUse, table, outside
  <1>5. EventInv' /\ ScanInv' /\ WakeupAhead'
    BY <1>1, <1>2 DEF EventInv, ScanInv, WakeupAhead, Scanned, Armed, InUse, table, outside
  <1> QED
    BY <1>1, <1>2, <1>3, <1>4, <1>5 DEF VirtInv
\* What is left when a scan of the mode m has ended: the next event is t after
\* the time of its clock, and no timer comes before it.
Searched(m, t) ==
    /\ m = th /\ scan' = None
    /\ t \in Nat /\ t >= 1
    /\ Updated(m, t)
    /\ \A i \in Armed(m) : timer[i].timeToFire >= s[m].current_timers_time + t

\* When a scan ends, every timer of its mode lies ahead, so that the next event
\* found does too.
LEMMA NextFound ==
    ASSUME VirtInv, ScanEnds
    PROVE  \E m \in Modes : \E t \in Nat : Searched(m, t)
  <1> DEFINE t    == s[th].current_timers_time
             F    == {timer[i].timeToFire : i \in Armed(th)} \cup {t + MaxVirtual}
             next == Min(F)
  <1>1. TypeOK /\ ControlInv /\ ClockInv /\ ScanInv
    BY DEF VirtInv
  <1>2. /\ scan # None /\ DueFrom(scan) = {} /\ scan' = None
        /\ next_event_time_update(th, [s[th] EXCEPT !.timers_next_event_time = next - t])
        /\ now' = now
    BY DEF ScanEnds
  <1>3. PICK m \in Modes : m = th
    BY <1>1, <1>2 DEF TypeOK, ControlInv
  <1>4. t \in Nat /\ scan \in Nat
    BY <1>1, <1>2, <1>3, DeviceCount DEF TypeOK
  <1>5. ASSUME NEW i \in Armed(m)
        PROVE  timer[i].timeToFire \in Nat /\ timer[i].timeToFire > t
    <2>1. i \in Nat /\ timer[i].timeToFire \in Nat
      BY <1>1, UsedSlots DEF Armed, Timer
    <2>2. timer[i].timeToFire >= t /\ (i < scan => timer[i].timeToFire > t)
      BY <1>1, <1>2, <1>3 DEF ScanInv
    <2>3. i >= scan => timer[i].timeToFire # t
      BY <1>2, <1>3 DEF DueFrom
    <2> QED
      BY <1>4, <2>1, <2>2, <2>3
  <1>6. F \in SUBSET Nat /\ F # {} /\ \A f \in F : f > t
    BY <1>3, <1>4, <1>5, VirtTimerAssumption
  <1>7. \A i \in Armed(m) : timer[i].timeToFire \in F
    BY <1>3
  <1> HIDE DEF F
  <1>8. next \in F /\ \A f \in F : next <= f
    BY <1>6, FirstOf
  <1> HIDE DEF next
  <1>9. next \in Nat /\ next - t \in Nat /\ next - t >= 1 /\ next = t + (next - t)
    BY <1>4, <1>6, <1>8
  <1>10. \A i \in Armed(m) : timer[i].timeToFire >= t + (next - t)
    BY <1>7, <1>8, <1>9
  <1>11. Updated(m, next - t)
    BY <1>1, <1>2, <1>3, <1>9, UpdateEvent
  <1>12. Searched(m, next - t)
    BY <1>2, <1>3, <1>9, <1>10, <1>11 DEF Searched
  <1> QED
    BY <1>9, <1>12

\* A scan ends with the next event ahead.
LEMMA EndStep ==
    ASSUME VirtInv, ScanEnds
    PROVE  VirtInv'
  <1>1. TypeOK /\ SlotsInv /\ ControlInv /\ ClockInv /\ TimeInv /\ EventInv
        /\ ScanInv /\ WakeupAhead /\ ~failed
    BY DEF VirtInv
  <1>0. PICK m \in Modes : \E t \in Nat : Searched(m, t)
    BY NextFound, Zenon
  <1>2. PICK t \in Nat : Searched(m, t)
    BY <1>0, Zenon
  <1>3. UNCHANGED <<table, calling, th, rest, ratio, last_usec, now>> /\ calling = None
    BY DEF ScanEnds
  <1>4. timer' = timer /\ numTimers' = numTimers /\ slotOf' = slotOf /\ InUse' = InUse
        /\ \A k : Armed(k)' = Armed(k)
    BY <1>3 DEF table, InUse, Armed
  <1> DEFINE c == [current_timers_time     |-> s[m].current_timers_time,
                   timers_next_event_time  |-> t,
                   current_virtual_time    |-> s[m].current_virtual_time,
                   virtual_next_event_time |-> t]
  <1>5. /\ m = th /\ scan' = None /\ t >= 1
        /\ \A i \in Armed(m) : timer[i].timeToFire >= s[m].current_timers_time + t
        /\ s' = [s EXCEPT ![m] = c] /\ s' \in [Modes -> Clock]
        /\ sysDue' \in [Modes -> {None} \cup Nat]
        /\ \A k \in Modes : Awake(k) \/ k = m => Awake(k)'
        /\ ClockInv' /\ failed' = failed
    BY <1>2 DEF Searched, Updated
  <1>6. c.current_timers_time = s[m].current_timers_time /\ c.timers_next_event_time = t
        /\ c.current_virtual_time = s[m].current_virtual_time
    OBVIOUS
  <1> HIDE DEF c
  <1>7. s'[m] = c /\ \A k \in Modes \ {m} : s'[k] = s[k]
    BY <1>1, <1>5 DEF TypeOK
  <1>8. EventInv'
    <2> SUFFICES ASSUME NEW k \in Modes, ~Scanned(k)'
                 PROVE  /\ s'[k].timers_next_event_time >= 1
                        /\ \A i \in Armed(k)' :
                              timer'[i].timeToFire >= s'[k].current_timers_time
                                                      + s'[k].timers_next_event_time
      BY DEF EventInv
    <2>1. CASE k = m
      BY <1>4, <1>5, <1>6, <1>7, <2>1
    <2>2. CASE k # m
      BY <1>1, <1>4, <1>5, <1>7, <2>2 DEF EventInv, Scanned
    <2> QED
      BY <2>1, <2>2
  <1>9. ScanInv' /\ ControlInv'
    BY <1>3, <1>5 DEF ScanInv, ControlInv
  <1>10. TimeInv'
    <2>1. s'[0].current_virtual_time = s[0].current_virtual_time
      BY <1>6, <1>7 DEF Modes
    <2> QED
      BY <1>1, <1>3, <2>1 DEF TimeInv
  <1>11. WakeupAhead'
    <2>1. \A k \in Modes : th' # k => Awake(k)'
      BY <1>1, <1>3, <1>5 DEF WakeupAhead, Awake
    <2> QED
      BY <2>1 DEF WakeupAhead, Awake
  <1>12. SlotsInv'
    BY <1>1, <1>4 DEF SlotsInv, Registered
  <1>13. TypeOK'
    BY <1>1, <1>3, <1>4, <1>5 DEF TypeOK, Clock
  <1> QED
    BY <1>1, <1>5, <1>8, <1>9, <1>10, <1>11, <1>12, <1>13 DEF VirtInv

\* timer_handler returns with its one-shot timer set in time.
LEMMA HandlerEnds ==
    ASSUME VirtInv, timer_handler_returns
    PROVE  VirtInv'
  <1> DEFINE next == s[th].virtual_next_event_time
             v    == IF th = 0 THEN IF next > 2 THEN next - 2 ELSE 1 ELSE TICKS_TO_USEC(next)
             w    == now + AtMost(MaxVirtual, AtLeast(1, v))
  <1>1. TypeOK /\ SlotsInv /\ ControlInv /\ ClockInv /\ TimeInv /\ EventInv
        /\ ScanInv /\ WakeupAhead /\ ~failed
    BY DEF VirtInv
  <1>2. th # None /\ scan = None /\ rest = 0 /\ th' = None
        /\ UNCHANGED <<table, s, scan, calling, rest, ratio, last_usec, now>>
    BY DEF timer_handler_returns
  <1>3. PICK m \in Modes : m = th
    BY <1>1, <1>2 DEF TypeOK
  <1>4. next \in Nat /\ next >= 1
    <2>1. s[m] \in Clock
      BY <1>1 DEF TypeOK, Clock
    <2>2. s[m].timers_next_event_time >= 1
          /\ s[m].virtual_next_event_time = s[m].timers_next_event_time
      BY <1>1, <1>2 DEF EventInv, ClockInv, Scanned
    <2> QED
      BY <1>3, <2>1, <2>2 DEF Clock
  <1>5. next = s[m].virtual_next_event_time
    BY <1>3
  <1>6. now \in Nat /\ sysDue \in [Modes -> {None} \cup Nat] /\ ratio \in Ratios
    BY <1>1 DEF TypeOK
  <1>7. sysDue' = [sysDue EXCEPT ![m] = w]
    BY <1>3 DEF timer_handler_returns, Wake, Modes
  <1>8. failed' = (failed \/ (th = 1 /\ next = 0))
    BY DEF timer_handler_returns
  <1> HIDE DEF next
  <1>9. ~failed' /\ failed' \in BOOLEAN
    <2>1. next # 0
      BY <1>4
    <2> QED
      BY <1>1, <1>8, <2>1, Zenon
  <1>10. PICK r \in Ratios : v \in Int /\ AtLeast(1, v) <= AtLeast(1, (next * r[1]) \div r[2])
    <2>1. CASE th = 0
      <3>1. PICK r \in Ratios : r = <<1, 1>>
        BY VirtTimerAssumption
      <3>2. (next * r[1]) \div r[2] = next
        <4>1. r[1] = 1 /\ r[2] = 1
          BY <3>1
        <4>2. next * 1 = next /\ next \div 1 = next
          BY <1>4
        <4> QED
          BY <4>1, <4>2
      <3> QED
        BY <1>4, <2>1, <3>2 DEF AtLeast
    <2>2. CASE th # 0
      <3>1. v = (next * ratio[1]) \div ratio[2]
        BY <2>2 DEF TICKS_TO_USEC
      <3>2. v \in Nat
        BY <1>4, <1>6, <3>1, ScaledType
      <3>3. AtLeast(1, v) <= AtLeast(1, v)
        BY <3>2 DEF AtLeast
      <3> QED
        BY <1>6, <3>1, <3>2, <3>3
    <2> QED
      BY <2>1, <2>2
  <1> HIDE DEF v
  <1>11. w \in Nat /\ w # None /\ now <= w /\ w <= now + AtLeast(1, v)
    BY <1>6, <1>10, WakeTime
  <1>12. w <= now + AtLeast(1, (next * r[1]) \div r[2])
    <2>1. (next * r[1]) \div r[2] \in Nat
      BY <1>4, ScaledType
    <2> QED
      BY <1>6, <1>10, <1>11, <2>1 DEF AtLeast
  <1> HIDE DEF w
  <1>13. sysDue' \in [Modes -> {None} \cup Nat] /\ sysDue'[m] = w
         /\ \A k \in Modes \ {m} : sysDue'[k] = sysDue[k]
    BY <1>6, <1>7, <1>11
  <1>14. WakeupAhead'
    <2> SUFFICES ASSUME NEW k \in Modes
                 PROVE  Awake(k)'
      BY DEF WakeupAhead, Awake
    <2>1. CASE k = m
      BY <1>2, <1>5, <1>11, <1>12, <1>13, <2>1 DEF Awake
    <2>2. CASE k # m
      <3>1. Awake(k)
        BY <1>1, <1>3, <2>2 DEF WakeupAhead, Awake
      <3> QED
        BY <1>2, <1>13, <2>2, <3>1 DEF Awake
    <2> QED
      BY <2>1, <2>2
  <1>15. TimeInv'
    <2>1. s[0].current_virtual_time \in Nat
      BY <1>1 DEF TypeOK, Modes
    <2>2. s[0].current_virtual_time <= now
      BY <1>1, <1>2, <1>6, <2>1 DEF TimeInv
    <2> QED
      BY <1>2, <2>2 DEF TimeInv, None
  <1>16. TypeOK' /\ SlotsInv' /\ ControlInv' /\ ClockInv'
    BY <1>1, <1>2, <1>9, <1>13
       DEF TypeOK, SlotsInv, ControlInv, ClockInv, Registered, InUse, table
  <1>17. EventInv' /\ ScanInv'
    BY <1>1, <1>2 DEF EventInv, ScanInv, Scanned, Armed, InUse, table
  <1> QED
    BY <1>9, <1>14, <1>15, <1>16, <1>17 DEF VirtInv

\* Emulated time passes no wake-up.
LEMMA TickStep ==
    ASSUME VirtInv, Tick
    PROVE  VirtInv'
  <1>1. TypeOK /\ SlotsInv /\ ControlInv /\ ClockInv /\ TimeInv /\ EventInv
        /\ ScanInv /\ WakeupAhead /\ ~failed
    BY DEF VirtInv
  <1>2. /\ th = None /\ now' = now + 1
        /\ \A m \in Modes : sysDue[m] # now
        /\ UNCHANGED <<table, s, running, ratio, last_usec, sysDue, failed>>
    BY DEF Tick
  <1>3. now \in Nat /\ \A m \in Modes : sysDue[m] \in {None} \cup Nat
        /\ s[m].virtual_next_event_time \in Nat
    BY <1>1 DEF TypeOK
  <1>4. WakeupAhead'
    <2> SUFFICES ASSUME NEW m \in Modes
                 PROVE  Awake(m)'
      BY DEF WakeupAhead, Awake
    <2>1. sysDue[m] # None /\ now <= sysDue[m]
      BY <1>1, <1>2 DEF WakeupAhead, None, Modes
    <2>2. PICK r \in Ratios :
            sysDue[m] <= now + AtLeast(1, (s[m].virtual_next_event_time * r[1]) \div r[2])
      BY <1>1, <1>2 DEF WakeupAhead, None, Modes
    <2>3. (s[m].virtual_next_event_time * r[1]) \div r[2] \in Nat
      BY <1>3, ScaledType
    <2>4. sysDue[m] <= now' + AtLeast(1, (s[m].virtual_next_event_time * r[1]) \div r[2])
      BY <1>2, <1>3, <2>1, <2>2, <2>3 DEF AtLeast
    <2>5. now' <= sysDue[m]
      BY <1>2, <1>3, <2>1
    <2> QED
      BY <1>2, <2>1, <2>4, <2>5 DEF Awake
  <1>5. TimeInv'
    <2>1. s[0].current_virtual_time \in Nat
      BY <1>1 DEF TypeOK, Modes
    <2> QED
      BY <1>1, <1>2, <1>3, <2>1 DEF TimeInv, None, running
  <1>6. TypeOK' /\ SlotsInv' /\ ControlInv' /\ ClockInv'
    BY <1>1, <1>2, <1>3
       DEF TypeOK, SlotsInv, ControlInv, ClockInv, Registered, InUse, table, running
  <1>7. EventInv' /\ ScanInv'
    BY <1>1, <1>2 DEF EventInv, ScanInv, Scanned, Armed, InUse, table, running
  <1> QED
    BY <1>1, <1>2, <1>4, <1>5, <1>6, <1>7 DEF VirtInv
-----------------------------------------------------------------------------
(* The theorems.                                                           *)

\* After init both modes have their null timer's interval to the next event.
LEMMA InitInv == Init => VirtInv
  <1> SUFFICES ASSUME Init
               PROVE  VirtInv
    OBVIOUS
  <1> DEFINE n(i) == [period |-> MaxVirtual, timeToFire |-> MaxVirtual, active |-> TRUE,
                      continuous |-> TRUE, realtime |-> i]
             e    == [period |-> 0, timeToFire |-> 0, active |-> FALSE,
                      continuous |-> FALSE, realtime |-> 0]
             c    == [current_timers_time |-> 0, timers_next_event_time |-> MaxVirtual,
                      current_virtual_time |-> 0, virtual_next_event_time |-> MaxVirtual]
  <1>1. MaxVirtual \in Nat /\ MaxVirtual >= 1 /\ <<1, 1>> \in Ratios
    BY VirtTimerAssumption
  <1>2. /\ timer = [i \in Slots |-> IF i \in Modes THEN n(i) ELSE e]
        /\ numTimers = 2 /\ s = [m \in Modes |-> c]
        /\ scan = None /\ calling = None /\ th = None /\ rest = 0
        /\ ratio = <<1, 1>> /\ last_usec = 0
        /\ slotOf = [d \in Devices |-> None]
        /\ now = 0 /\ sysDue = [m \in Modes |-> MaxVirtual] /\ failed = FALSE
    BY DEF Init
  <1>3. /\ e \in Timer /\ c \in Clock
        /\ c.current_timers_time = 0 /\ c.timers_next_event_time = MaxVirtual
        /\ c.current_virtual_time = 0 /\ c.virtual_next_event_time = MaxVirtual
    BY <1>1 DEF Timer, Clock, Modes
  <1>4. \A i \in Modes : /\ n(i) \in Timer /\ n(i).period = MaxVirtual
                         /\ n(i).timeToFire = MaxVirtual
    BY <1>1 DEF Timer
  <1> HIDE DEF n, e, c
  <1>5. Modes \subseteq Slots /\ InUse = Modes
    BY <1>2, DeviceCount DEF Modes, Slots, InUse
  <1>6. timer \in [Slots -> Timer]
    BY <1>2, <1>3, <1>4
  <1>7. \A i \in Modes : timer[i] = n(i)
    BY <1>2, <1>5
  <1>8. \A m \in Modes : s[m] = c
    BY <1>2
  <1>9. s \in [Modes -> Clock]
    BY <1>2, <1>3
  <1>10. TypeOK
    <2>1. slotOf \in [Devices -> {None} \cup Slots] /\ sysDue \in [Modes -> {None} \cup Nat]
      BY <1>1, <1>2
    <2>2. numTimers \in 2..(Cardinality(Devices) + 2)
      BY <1>2, DeviceCount
    <2> QED
      BY <1>1, <1>2, <1>6, <1>9, <2>1, <2>2 DEF TypeOK, Timer, Clock
  <1>11. SlotsInv
    <2>1. Registered = {}
      BY <1>2 DEF Registered
    <2>2. Cardinality(Registered) = 0
      BY <2>1, FS_EmptySet
    <2> QED
      BY <1>1, <1>2, <1>4, <1>5, <1>7, <2>2 DEF SlotsInv
  <1>12. EventInv /\ ClockInv
    BY <1>1, <1>3, <1>4, <1>5, <1>7, <1>8 DEF EventInv, ClockInv, Armed
  <1>13. ControlInv /\ TimeInv /\ ScanInv
    BY <1>2, <1>3, <1>8 DEF ControlInv, TimeInv, ScanInv, None, Modes
  <1>14. WakeupAhead
    <2> SUFFICES ASSUME NEW m \in Modes
                 PROVE  Awake(m)
      BY DEF WakeupAhead, Awake
    <2>1. sysDue[m] = MaxVirtual /\ s[m].virtual_next_event_time = MaxVirtual /\ now = 0
      BY <1>2, <1>3, <1>8
    <2>2. PICK r \in Ratios : r = <<1, 1>>
      BY <1>1
    <2>3. r[1] = 1 /\ r[2] = 1
      BY <2>2
    <2>4. (MaxVirtual * r[1]) \div r[2] = MaxVirtual
      <3>1. MaxVirtual * 1 = MaxVirtual /\ MaxVirtual \div 1 = MaxVirtual
        BY <1>1
      <3> QED
        BY <2>3, <3>1
    <2>5. MaxVirtual <= now + AtLeast(1, MaxVirtual)
      BY <1>1, <2>1 DEF AtLeast
    <2>6. sysDue[m] <= now + AtLeast(1, (s[m].virtual_next_event_time * r[1]) \div r[2])
      BY <2>1, <2>4, <2>5
    <2>7. sysDue[m] # None /\ now <= sysDue[m]
      BY <1>1, <2>1 DEF None
    <2> QED
      BY <2>6, <2>7 DEF Awake
  <1> QED
    BY <1>2, <1>10, <1>11, <1>12, <1>13, <1>14 DEF VirtInv

\* Every step keeps the invariant, whatever the handlers do.
LEMMA StepInv == VirtInv /\ [Next]_vars => VirtInv'
  <1> SUFFICES ASSUME VirtInv, [Next]_vars
               PROVE  VirtInv'
    OBVIOUS
  <1>1. ASSUME NEW d \in Devices, DeviceCalls(d)
        PROVE  VirtInv'
    <2>1. ASSUME NEW r \in Requests
          PROVE  r[1] \in Nat /\ r[1] >= 1 /\ r[2] \in BOOLEAN
      BY <2>1, VirtTimerAssumption
    <2>2. ASSUME NEW r \in Requests, NEW mode \in Modes, NEW active \in BOOLEAN,
                 register_timer(d, mode, r[1], r[2], active)
          PROVE  VirtInv'
      BY <2>1, <2>2, RegisterStep, Zenon
    <2>3. ASSUME NEW r \in Requests, activate_timer(d, r[1], r[2])
          PROVE  VirtInv'
      BY <2>1, <2>3, ActivateStep, Zenon
    <2>4. ASSUME deactivate_timer(d)
          PROVE  VirtInv'
      BY <2>4, DeactivateStep
    <2> QED
      BY <1>1, <2>2, <2>3, <2>4, Zenon DEF DeviceCalls
  <1>2. ASSUME NEW m \in Modes, system_timer_fires(m) \/ time_usec(m)
        PROVE  VirtInv'
    BY <1>2, HandlerStarts, Zenon DEF system_timer_fires, time_usec
  <1>3. CASE advance_virtual_time
    BY <1>3, AdvanceStep
  <1>4. CASE CallHandler
    BY <1>4, CallStep
  <1>5. CASE HandlerReturns
    BY <1>5, ReturnStep
  <1>6. CASE ScanEnds
    BY <1>6, EndStep
  <1>7. CASE timer_handler_returns
    BY <1>7, HandlerEnds
  <1>8. CASE Tick
    BY <1>8, TickStep
  <1>9. CASE UNCHANGED vars
    BY <1>9 DEF vars, table, running, outside, VirtInv, TypeOK, SlotsInv, ControlInv,
                ClockInv, TimeInv, EventInv, ScanInv, WakeupAhead, Scanned, Armed,
                InUse, Registered
  <1> QED
    BY <1>1, <1>2, <1>3, <1>4, <1>5, <1>6, <1>7, <1>8, <1>9, Zenon DEF Next

\* The inductive invariant of virt_timer.cc holds.
THEOREM Invariant == Spec => []VirtInv
  <1> QED
    BY InitInv, StepInv, PTL DEF Spec

\* No BX_ASSERT of virt_timer.cc fails, and every turn of the loop of
\* timer_handler takes it further.
THEOREM Assertions == Spec => []AssertionsHold
  <1>1. VirtInv => AssertionsHold
    BY DEF VirtInv, AssertionsHold
  <1> QED
    BY <1>1, Invariant, PTL

\* No active timer of a mode comes before the next event its mode waits for,
\* and virtual time and the countdown of periodic agree when that is.
THEOREM Next_event == Spec => []NextEventInv
  <1>1. VirtInv => NextEventInv
    <2> SUFFICES ASSUME VirtInv
                 PROVE  NextEventCoversTimers
      BY DEF VirtInv, NextEventInv
    <2>1. \A m \in Modes : s[m] \in Clock
      BY DEF VirtInv, TypeOK, Clock
    <2> QED
      BY <2>1 DEF VirtInv, NextEventCoversTimers, EventInv, ClockInv, Scanned, Clock
  <1> QED
    BY <1>1, Invariant, PTL

\* Outside timer_handler a mode always has a one-shot timer of bx_pc_system
\* ahead, no later than its next event allows.
THEOREM Wakeup == Spec => []WakeupAhead
  <1>1. VirtInv => WakeupAhead
    BY DEF VirtInv
  <1> QED
    BY <1>1, Invariant, PTL
-----------------------------------------------------------------------------
(* Each mode is a timer service.                                           *)

\* The steps of TimerSpec for the mode m.
Clk(m) == s[m].current_timers_time

Programs(m) ==
    /\ \A i \in Slots : \/ Deadline(m)'[i] = Deadline(m)[i]
                        \/ Deadline(m)'[i] = None
                        \/ Deadline(m)'[i] > Clk(m)
    /\ DOMAIN Deadline(m)' = Slots
    /\ Expired(m)' \subseteq Expired(m)
    /\ HandlerOf(m)' \in {HandlerOf(m), None}
    /\ Clk(m)' = Clk(m)

Delivers(m) ==
    /\ HandlerOf(m) = None
    /\ \E j \in Expired(m) : /\ \A i \in Expired(m) : j <= i
                             /\ Expired(m)' = Expired(m) \ {j}
                             /\ HandlerOf(m)' \in {j, None}
    /\ Clk(m)' = Clk(m) /\ Deadline(m)' = Deadline(m)

Elapses(m) ==
    /\ Expired(m) = {} /\ HandlerOf(m) = None
    /\ Clk(m)' > Clk(m)
    /\ \A i \in Slots : Deadline(m)[i] # None => Deadline(m)[i] >= Clk(m)'
    /\ Expired(m)' = {i \in Slots : Deadline(m)[i] = Clk(m)'}
    /\ \A i \in Slots : IF i \in Expired(m)'
                        THEN Deadline(m)'[i] = None \/ Deadline(m)'[i] > Clk(m)'
                        ELSE Deadline(m)'[i] = Deadline(m)[i]
    /\ DOMAIN Deadline(m)' = Slots
    /\ HandlerOf(m)' = HandlerOf(m)

\* Outside a scan no timer of the mode is expired.
NoneExpired == \A m \in Modes : ~Scanned(m) => Expired(m) = {}

\* Timers expire only when timer_handler comes to them.
LEMMA ExpiredScanned == VirtInv => NoneExpired
  <1> SUFFICES ASSUME VirtInv, NEW m \in Modes, ~Scanned(m)
               PROVE  Expired(m) = {}
    BY DEF NoneExpired
  <1>1. numTimers \in Nat
    BY DeviceCount DEF VirtInv, TypeOK
  <1>2. Cursor(m) = numTimers
    BY DEF Cursor, Scanned
  <1>3. \A j \in Armed(m) : ~(j >= numTimers)
    BY <1>1 DEF Armed, InUse
  <1> QED
    BY <1>2, <1>3 DEF Expired

\* A slot is due later than now or not at all.
DueAhead ==
    \A m \in Modes :
        /\ Clk(m) \in Nat /\ DOMAIN Deadline(m) = Slots
        /\ \A i \in Slots : Deadline(m)[i] = None \/ Deadline(m)[i] > Clk(m)

\* This includes one whose handler has still to be called.
LEMMA DueLater == VirtInv => DueAhead
  <1> SUFFICES ASSUME VirtInv, NEW m \in Modes
               PROVE  /\ Clk(m) \in Nat /\ DOMAIN Deadline(m) = Slots
                      /\ \A i \in Slots : Deadline(m)[i] = None \/ Deadline(m)[i] > Clk(m)
    BY DEF DueAhead
  <1>1. TypeOK /\ SlotsInv /\ EventInv /\ ScanInv
    BY DEF VirtInv
  <1>2. s[m] \in Clock /\ Clk(m) \in Nat
    BY <1>1 DEF TypeOK, Clock, Clk
  <1>3. \A i \in Armed(m) : /\ i \in Nat /\ timer[i].timeToFire \in Nat
                            /\ timer[i].period \in Nat /\ timer[i].period >= 1
    BY <1>1, UsedSlots DEF Armed, Timer, SlotsInv
  <1>4. ASSUME NEW i \in Armed(m), i \notin Expired(m)
        PROVE  timer[i].timeToFire > Clk(m)
    <2>1. CASE ~Scanned(m)
      <3>1. /\ timer[i].timeToFire >= s[m].current_timers_time + s[m].timers_next_event_time
            /\ s[m].timers_next_event_time >= 1
        BY <1>1, <2>1 DEF EventInv
      <3> QED
        BY <1>2, <1>3, <3>1 DEF Clock, Clk
    <2>2. CASE Scanned(m)
      <3>1. /\ timer[i].timeToFire >= Clk(m)
            /\ i < scan => timer[i].timeToFire > Clk(m)
        BY <1>1, <2>2 DEF ScanInv, Scanned, Clk
      <3>2. i >= scan => timer[i].timeToFire # Clk(m)
        BY <1>4, <2>2 DEF Expired, Cursor, Scanned, Clk
      <3>3. scan \in Nat
        BY <1>1, <2>2, DeviceCount DEF TypeOK, Scanned
      <3> QED
        BY <1>2, <1>3, <3>1, <3>2, <3>3
    <2> QED
      BY <2>1, <2>2
  <1>5. \A i \in Expired(m) : i \in Armed(m) /\ timer[i].timeToFire = Clk(m)
    BY DEF Expired, Clk
  <1>6. ASSUME NEW i \in Slots
        PROVE  Deadline(m)[i] = None \/ Deadline(m)[i] > Clk(m)
    <2>1. Deadline(m)[i] = IF i \notin Armed(m) THEN None
                           ELSE IF i \notin Expired(m) THEN timer[i].timeToFire
                           ELSE IF timer[i].continuous THEN timer[i].timeToFire + timer[i].period
                           ELSE None
      BY DEF Deadline
    <2>2. CASE i \in Armed(m) /\ i \in Expired(m)
      BY <1>2, <1>3, <1>5, <2>1, <2>2
    <2>3. CASE i \in Armed(m) /\ i \notin Expired(m)
      BY <1>4, <2>1, <2>3
    <2> QED
      BY <2>1, <2>2, <2>3
  <1> QED
    BY <1>2, <1>6 DEF Deadline

\* A step that leaves the clock of the mode where it is, expires no timer and
\* calls no handler is one of its devices setting or stopping timers.
LEMMA QuietStep ==
    ASSUME VirtInv', NEW m \in Modes, Clk(m)' = Clk(m),
           Expired(m)' \subseteq Expired(m), HandlerOf(m)' \in {HandlerOf(m), None}
    PROVE  Programs(m)
  <1>1. /\ DOMAIN Deadline(m)' = Slots
        /\ \A i \in Slots : Deadline(m)'[i] = None \/ Deadline(m)'[i] > Clk(m)'
    <2>1. DueAhead'
      BY DueLater, PTL
    <2> QED
      BY <2>1 DEF DueAhead
  <1> QED
    BY <1>1 DEF Programs

\* advance_virtual_time passes no timer of its mode, and those it reaches are
\* the ones whose handlers the scan calls.
LEMMA ElapseStep ==
    ASSUME VirtInv, VirtInv', NEW m \in Modes, m = th, advance_virtual_time
    PROVE  Elapses(m)
  <1> DEFINE c    == s[th]
             step == AtMost(rest, c.virtual_next_event_time)
             n    == [current_virtual_time    |-> c.current_virtual_time + step,
                      virtual_next_event_time |-> c.virtual_next_event_time - step,
                      timers_next_event_time  |-> c.timers_next_event_time - step,
                      current_timers_time     |-> c.current_timers_time + step]
  <1>1. TypeOK /\ EventInv /\ ClockInv /\ ControlInv
    BY DEF VirtInv
  <1>2. /\ th # None /\ scan = None /\ rest > 0
        /\ s' = [s EXCEPT ![th] = n]
        /\ scan' = IF step < n.timers_next_event_time THEN None ELSE 0
        /\ UNCHANGED <<table, calling, th, ratio, last_usec, outside>>
    BY DEF advance_virtual_time
  <1>3. c \in Clock /\ rest \in Nat /\ s \in [Modes -> Clock] /\ c = s[m]
    BY <1>1, <1>2 DEF TypeOK, Clock
  <1>4. ~Scanned(m) /\ c.virtual_next_event_time = c.timers_next_event_time
    BY <1>1, <1>2, <1>3 DEF ClockInv, Scanned
  <1>5. c.timers_next_event_time >= 1 /\ \A i \in Armed(m) :
          timer[i].timeToFire >= c.current_timers_time + c.timers_next_event_time
    BY <1>1, <1>3, <1>4 DEF EventInv
  <1>6. step \in Nat /\ step >= 1 /\ step <= c.timers_next_event_time
    BY <1>2, <1>3, <1>4, <1>5 DEF AtMost, Clock
  <1>7. n.current_timers_time = c.current_timers_time + step
        /\ n.timers_next_event_time = c.timers_next_event_time - step
    OBVIOUS
  <1> HIDE DEF n, step
  <1>8. s'[m] = n
    BY <1>2, <1>3
  <1>9. /\ Clk(m) = c.current_timers_time /\ Clk(m) \in Nat
        /\ Clk(m)' = Clk(m) + step
    BY <1>3, <1>7, <1>8 DEF Clk, Clock
  <1>10. timer' = timer /\ th' = th /\ Armed(m)' = Armed(m)
    BY <1>2 DEF table, Armed, InUse
  <1>11. \A i \in Armed(m) : i \in Nat /\ i \in Slots /\ timer[i].timeToFire \in Nat
                            /\ timer[i].timeToFire >= Clk(m)'
    <2>1. \A i \in Armed(m) : i \in Nat /\ i \in Slots /\ timer[i].timeToFire \in Nat
      BY <1>1, UsedSlots DEF Armed, Timer
    <2>2. c.timers_next_event_time \in Nat
      BY <1>3 DEF Clock
    <2> QED
      BY <1>5, <1>6, <1>9, <2>1, <2>2
  <1>12. Expired(m) = {}
    BY <1>4, ExpiredScanned DEF NoneExpired
  <1>13. \A i \in Slots : Deadline(m)[i] = IF i \in Armed(m) THEN timer[i].timeToFire ELSE None
    BY <1>12 DEF Deadline
  <1>14. Expired(m)' = {i \in Armed(m) : timer[i].timeToFire = Clk(m)'}
    <2>1. CASE scan' = 0
      <3>1. Cursor(m)' = 0
        BY <1>10, <2>1 DEF Cursor, None
      <3>2. \A i \in Armed(m) : i >= 0
        BY <1>11
      <3> QED
        BY <1>10, <3>1, <3>2 DEF Expired, Clk
    <2>2. CASE scan' = None
      <3>1. step < n.timers_next_event_time
        BY <1>2, <2>2 DEF None
      <3>2. Expired(m)' = {}
        <4>1. ~Scanned(m)'
          BY <2>2 DEF Scanned
        <4>2. NoneExpired'
          BY ExpiredScanned, PTL
        <4> QED
          BY <4>1, <4>2 DEF NoneExpired
      <3>3. ASSUME NEW i \in Armed(m)
            PROVE  timer[i].timeToFire # Clk(m)'
        <4>1. c.timers_next_event_time \in Nat /\ timer[i].timeToFire \in Nat
          BY <1>3, <1>11 DEF Clock
        <4>2. timer[i].timeToFire >= Clk(m) + c.timers_next_event_time
          BY <1>5, <1>9
        <4> QED
          BY <1>6, <1>7, <1>9, <3>1, <4>1, <4>2
      <3> QED
        BY <3>2, <3>3
    <2> QED
      BY <1>2, <2>1, <2>2
  <1>15. /\ DOMAIN Deadline(m)' = Slots
         /\ \A i \in Slots : Deadline(m)'[i] = None \/ Deadline(m)'[i] > Clk(m)'
    <2>1. DueAhead'
      BY DueLater, PTL
    <2> QED
      BY <2>1 DEF DueAhead
  <1>16. \A i \in Slots : i \notin Expired(m)' => Deadline(m)'[i] = Deadline(m)[i]
    BY <1>10, <1>13 DEF Deadline
  <1>17. Clk(m)' # None
    BY <1>6, <1>9 DEF None
  <1>18. Expired(m)' = {i \in Slots : Deadline(m)[i] = Clk(m)'}
    BY <1>11, <1>13, <1>14, <1>17
  <1>19. \A i \in Slots : Deadline(m)[i] # None => Deadline(m)[i] >= Clk(m)'
    BY <1>11, <1>13
  <1>20. Clk(m)' > Clk(m)
    BY <1>6, <1>9
  <1>21. HandlerOf(m) = None /\ HandlerOf(m)' = None
    BY <1>1, <1>2 DEF HandlerOf, ControlInv
  <1> QED
    BY <1>12, <1>15, <1>16, <1>18, <1>19, <1>20, <1>21 DEF Elapses
\* A device that stops its timer, or sets it again from a handler, expires
\* none, and the timer it touches is called no more in this scan.
LEMMA DevicesExpireNone ==
    ASSUME VirtInv, NEW d \in Devices, NEW u \in Nat, u >= 1, NEW c \in BOOLEAN,
           activate_timer(d, u, c) \/ deactivate_timer(d), NEW m \in Modes
    PROVE  /\ Clk(m)' = Clk(m) /\ Expired(m)' \subseteq Expired(m)
           /\ HandlerOf(m)' \in {HandlerOf(m), None}
  <1> DEFINE i == slotOf[d]
  <1>1. TypeOK /\ SlotsInv /\ ClockInv
    BY DEF VirtInv
  <1>2. slotOf[d] # None /\ now' = now
        /\ UNCHANGED <<numTimers, slotOf, running>>
    BY DEF activate_timer, deactivate_timer, outside
  <1>3. i \in InUse /\ i \in Slots /\ timer[i] \in Timer
    BY <1>1, <1>2, UsedSlots DEF SlotsInv
  <1>4. timer \in [Slots -> Timer] /\ InUse \subseteq Slots /\ s[m] \in Clock
    BY <1>1, UsedSlots DEF TypeOK, Timer, Clock
  <1>5. Clk(m)' = Clk(m)
    <2>1. CASE deactivate_timer(d)
      BY <2>1 DEF deactivate_timer, Clk
    <2>2. CASE activate_timer(d, u, c)
      <3>1. timer[i].realtime \in Modes /\ NoticeEarlier(timer[i].realtime, u)
        BY <1>3, <2>2 DEF activate_timer, Timer
      <3>2. Noticed(timer[i].realtime, u)
        BY <1>1, <1>2, <3>1, NoticeEvent
      <3> QED
        BY <3>2 DEF Noticed, Clk
    <2> QED
      BY <2>1, <2>2
  <1>6. ASSUME NEW j \in InUse, timer'[j].active, timer'[j].realtime = m,
               timer'[j].timeToFire = Clk(m)
        PROVE  j \in Armed(m) /\ timer'[j] = timer[j]
    <2>1. CASE deactivate_timer(d)
      <3> DEFINE r == [timer[i] EXCEPT !.active = FALSE]
      <3>1. ~r.active
        BY <1>3, Zenon DEF Timer
      <3>2. timer' = [timer EXCEPT ![i] = r]
        BY <2>1 DEF deactivate_timer
      <3> HIDE DEF r
      <3>3. timer'[i] = r /\ \A k \in Slots \ {i} : timer'[k] = timer[k]
        BY <1>3, <1>4, <3>2
      <3> QED
        BY <1>4, <1>6, <3>1, <3>3 DEF Armed
    <2>2. CASE activate_timer(d, u, c)
      <3> DEFINE mode == timer[i].realtime
                 r == [period |-> u, timeToFire |-> s[mode].current_timers_time + u,
                       active |-> TRUE, continuous |-> c, realtime |-> mode]
      <3>1. timer' = [timer EXCEPT ![i] = r]
        BY <2>2 DEF activate_timer
      <3>2. r.realtime = mode /\ r.timeToFire = s[mode].current_timers_time + u
        OBVIOUS
      <3> HIDE DEF r
      <3>3. timer'[i] = r /\ \A k \in Slots \ {i} : timer'[k] = timer[k]
        BY <1>3, <1>4, <3>1
      <3>4. r.realtime = m => r.timeToFire # Clk(m)
        BY <1>4, <3>2 DEF Clk, Clock
      <3> QED
        BY <1>4, <1>6, <3>3, <3>4 DEF Armed
    <2> QED
      BY <2>1, <2>2
  <1>7. Cursor(m)' = Cursor(m) /\ InUse' = InUse
    BY <1>2 DEF Cursor, InUse, running
  <1>8. HandlerOf(m)' = HandlerOf(m)
    BY <1>2 DEF HandlerOf, running
  <1>9. Expired(m)' \subseteq Expired(m)
    BY <1>5, <1>6, <1>7 DEF Expired, Armed, Clk
  <1> QED
    BY <1>5, <1>8, <1>9

\* Every step is, for each mode, one of TimerSpec: its clock stands still and
\* no timer expires, or the handler of the first one expired is called, or it
\* moves to the next timers due.
LEMMA OneStep ==
    ASSUME VirtInv, VirtInv', [Next]_vars, NEW m \in Modes
    PROVE  Programs(m) \/ Elapses(m) \/ Delivers(m)
  <1>1. NoneExpired /\ NoneExpired'
    BY ExpiredScanned, PTL
  <1>2. TypeOK /\ ControlInv /\ ClockInv /\ TypeOK' /\ ControlInv'
    BY DEF VirtInv
  <1>3. ASSUME Clk(m)' = Clk(m), ~Scanned(m)'
        PROVE  Programs(m)
    <2>1. Expired(m)' = {}
      BY <1>1, <1>3 DEF NoneExpired
    <2>2. HandlerOf(m)' = None
      BY <1>2, <1>3 DEF HandlerOf, ControlInv, Scanned
    <2> QED
      BY <1>3, <2>1, <2>2, QuietStep
  <1>4. ASSUME NEW d \in Devices, DeviceCalls(d)
        PROVE  Programs(m)
    <2>1. ASSUME NEW r \in Requests
          PROVE  r[1] \in Nat /\ r[1] >= 1 /\ r[2] \in BOOLEAN
      BY <2>1, VirtTimerAssumption
    <2>2. ASSUME NEW r \in Requests, NEW mode \in Modes, NEW active \in BOOLEAN,
                 register_timer(d, mode, r[1], r[2], active)
          PROVE  Programs(m)
      <3>1. th = None /\ th' = th /\ now' = now /\ NoticeEarlier(mode, r[1])
        BY <2>2 DEF register_timer, running
      <3>2. Noticed(mode, r[1])
        BY <1>2, <2>1, <3>1, NoticeEvent
      <3>3. Clk(m)' = Clk(m) /\ ~Scanned(m)'
        BY <3>1, <3>2 DEF Noticed, Clk, Scanned, Modes, None
      <3> QED
        BY <1>3, <3>3
    <2>3. ASSUME NEW r \in Requests, activate_timer(d, r[1], r[2])
          PROVE  Programs(m)
      <3>1. Clk(m)' = Clk(m) /\ Expired(m)' \subseteq Expired(m)
            /\ HandlerOf(m)' \in {HandlerOf(m), None}
        BY <2>1, <2>3, DevicesExpireNone
      <3> QED
        BY <3>1, QuietStep
    <2>4. ASSUME deactivate_timer(d)
          PROVE  Programs(m)
      <3>0. 1 \in Nat /\ 1 >= 1 /\ TRUE \in BOOLEAN
            /\ (activate_timer(d, 1, TRUE) \/ deactivate_timer(d))
        BY <2>4
      <3>1. Clk(m)' = Clk(m) /\ Expired(m)' \subseteq Expired(m)
            /\ HandlerOf(m)' \in {HandlerOf(m), None}
        BY <3>0, DevicesExpireNone, Zenon
      <3> QED
        BY <3>1, QuietStep
    <2> QED
      BY <1>4, <2>2, <2>3, <2>4, Zenon DEF DeviceCalls
  <1>5. ASSUME NEW k \in Modes, system_timer_fires(k) \/ time_usec(k)
        PROVE  Programs(m)
    <2>1. timer_handler(k)
      BY <1>5 DEF system_timer_fires, time_usec
    <2>2. s' = s /\ scan' = scan /\ th = None
      BY <2>1 DEF timer_handler
    <2>3. Clk(m)' = Clk(m) /\ ~Scanned(m)'
      BY <1>2, <2>2 DEF Clk, Scanned, ControlInv
    <2> QED
      BY <1>3, <2>3
  <1>6. CASE advance_virtual_time
    <2>1. CASE m = th
      BY <1>6, <2>1, ElapseStep
    <2>2. CASE m # th
      <3>1. th' = th /\ s'[m] = s[m]
        BY <1>2, <1>6, <2>2 DEF advance_virtual_time, TypeOK
      <3>2. Clk(m)' = Clk(m) /\ ~Scanned(m)'
        BY <2>2, <3>1 DEF Clk, Scanned
      <3> QED
        BY <1>3, <3>2
    <2> QED
      BY <2>1, <2>2
  <1>7. CASE CallHandler
    <2>0. PICK k \in Modes : \E i \in Armed(k) : Called(k, i)
      BY <1>7, CalledTimer, Zenon
    <2>1. PICK j \in Armed(k) : Called(k, j)
      BY <2>0, Zenon
    <2>2. /\ k = th /\ scan' = j + 1 /\ scan <= j /\ j \in Slots /\ calling' = j
          /\ \A i \in Slots \ {j} : timer'[i] = timer[i]
          /\ timer[j].timeToFire = s[k].current_timers_time
      BY <2>1 DEF Called
    <2>3. scan # None /\ th' = th /\ Clk(m)' = Clk(m) /\ InUse' = InUse
      BY <1>7 DEF CallHandler, Clk, InUse
    <2>4. CASE m # k
      BY <1>3, <2>2, <2>3, <2>4 DEF Scanned
    <2>5. CASE m = k
      <3>1. \A i \in InUse : i \in Slots /\ i \in Nat /\ timer[i] \in Timer
        BY <1>2, UsedSlots
      <3>2. scan \in Nat /\ j \in Nat
        BY <1>2, <2>1, <2>3, <3>1, DeviceCount DEF TypeOK, Armed
      <3>3. Cursor(m) = scan /\ Cursor(m)' = j + 1
        <4>1. scan # None /\ j + 1 # None
          BY <3>2 DEF None
        <4>2. th = m /\ th' = m /\ scan' = j + 1
          BY <2>2, <2>3, <2>5
        <4> QED
          BY <4>1, <4>2, Zenon DEF Cursor
      <3>4. \A i \in InUse \ {j} : i \in Armed(m)' <=> i \in Armed(m)
        BY <2>2, <2>3, <3>1 DEF Armed
      <3>5. Expired(m)' = {i \in Armed(m)' : i >= j + 1 /\ timer'[i].timeToFire = Clk(m)}
        BY <2>3, <3>3 DEF Expired, Clk
      <3>6. Expired(m) = {i \in Armed(m) : i >= scan /\ timer[i].timeToFire = Clk(m)}
        BY <3>3 DEF Expired, Clk
      <3>7. j \in Expired(m) /\ j = Min(DueFrom(scan)) /\ DueFrom(scan) = Expired(m)
        BY <2>1, <2>2, <2>5, <3>2, <3>6 DEF Called, DueFrom, Clk
      <3>8. \A i \in Expired(m) : j <= i
        <4>1. Expired(m) \in SUBSET Nat /\ Expired(m) # {}
          BY <3>1, <3>6, <3>7 DEF Armed
        <4> QED
          BY <3>7, <4>1, FirstOf
      <3>9. Expired(m)' = Expired(m) \ {j}
        <4>1. \A i \in InUse : i >= scan /\ timer'[i].timeToFire = Clk(m) /\ i # j
                /\ i \in Armed(m) => i \in Expired(m) /\ (j <= i)
          BY <2>2, <3>1, <3>6, <3>8
        <4>2. ASSUME NEW i \in Expired(m)'
              PROVE  i \in Expired(m) /\ i # j
          <5>1. i \in InUse /\ i >= j + 1
            BY <2>3, <3>5 DEF Armed
          <5>2. i # j /\ i >= scan
            BY <2>2, <3>1, <3>2, <5>1
          <5> QED
            BY <2>2, <3>1, <3>4, <3>5, <3>6, <5>1, <5>2
        <4>3. ASSUME NEW i \in Expired(m), i # j
              PROVE  i \in Expired(m)'
          <5>1. i \in InUse /\ j <= i
            BY <3>6, <3>8 DEF Armed
          <5>2. i >= j + 1
            BY <3>1, <3>2, <4>3, <5>1
          <5> QED
            BY <2>2, <3>1, <3>4, <3>5, <3>6, <4>3, <5>1, <5>2
        <4> QED
          BY <4>2, <4>3
      <3>10. Deadline(m)' = Deadline(m)
        <4>1. ASSUME NEW i \in Slots
              PROVE  Deadline(m)'[i] = Deadline(m)[i]
          <5>1. /\ Deadline(m)[i] = IF i \notin Armed(m) THEN None
                                   ELSE IF i \notin Expired(m) THEN timer[i].timeToFire
                                   ELSE IF timer[i].continuous
                                   THEN timer[i].timeToFire + timer[i].period ELSE None
                /\ Deadline(m)'[i] = IF i \notin Armed(m)' THEN None
                                    ELSE IF i \notin Expired(m)' THEN timer'[i].timeToFire
                                    ELSE IF timer'[i].continuous
                                    THEN timer'[i].timeToFire + timer'[i].period ELSE None
            BY DEF Deadline
          <5>2. CASE i # j
            <6>1. i \in InUse => (i \in Armed(m)' <=> i \in Armed(m))
              BY <3>4, <5>2
            <6>2. i \in Armed(m)' <=> i \in Armed(m)
              BY <2>3, <6>1 DEF Armed
            <6>3. i \in Expired(m)' <=> i \in Expired(m)
              BY <3>9, <5>2
            <6> QED
              BY <2>2, <5>1, <5>2, <6>2, <6>3
          <5>3. CASE i = j
            <6>1. j \in Armed(m) /\ j \in Expired(m) /\ j \notin Expired(m)'
              BY <2>1, <2>5, <3>7, <3>9
            <6>2. /\ timer'[j].realtime = m /\ timer'[j].active = timer[j].continuous
                  /\ timer[j].continuous =>
                        timer'[j].timeToFire = timer[j].timeToFire + timer[j].period
              BY <2>1, <2>5 DEF Called
            <6>3. j \in Armed(m)' <=> timer[j].continuous
              BY <2>3, <6>1, <6>2 DEF Armed
            <6> QED
              BY <5>1, <5>3, <6>1, <6>2, <6>3
          <5> QED
            BY <5>2, <5>3
        <4> QED
          BY <4>1 DEF Deadline
      <3>11. HandlerOf(m) = None /\ HandlerOf(m)' = j
        BY <1>7, <2>2, <2>3, <2>5 DEF CallHandler, HandlerOf
      <3> QED
        BY <2>3, <3>7, <3>8, <3>9, <3>10, <3>11 DEF Delivers
    <2> QED
      BY <2>4, <2>5
  <1>8. CASE HandlerReturns
    <2>1. Clk(m)' = Clk(m) /\ Expired(m)' = Expired(m)
      BY <1>8 DEF HandlerReturns, Clk, Expired, Cursor, Armed, InUse, table
    <2>2. HandlerOf(m)' = None
      BY <1>8 DEF HandlerReturns, HandlerOf
    <2> QED
      BY <2>1, <2>2, QuietStep
  <1>9. CASE ScanEnds
    <2>1. PICK k \in Modes : \E t \in Nat : Searched(k, t)
      BY <1>9, NextFound, Zenon
    <2>2. PICK t \in Nat : Searched(k, t)
      BY <2>1, Zenon
    <2> DEFINE c == [current_timers_time     |-> s[k].current_timers_time,
                     timers_next_event_time  |-> t,
                     current_virtual_time    |-> s[k].current_virtual_time,
                     virtual_next_event_time |-> t]
    <2>3. scan' = None /\ s' = [s EXCEPT ![k] = c]
      BY <2>2 DEF Searched, Updated
    <2>4. c.current_timers_time = s[k].current_timers_time
      OBVIOUS
    <2> HIDE DEF c
    <2>5. Clk(m)' = Clk(m) /\ ~Scanned(m)'
      BY <1>2, <2>3, <2>4 DEF Clk, Scanned, TypeOK
    <2> QED
      BY <1>3, <2>5
  <1>10. CASE timer_handler_returns
    <2>1. s' = s /\ scan' = scan /\ scan = None
      BY <1>10 DEF timer_handler_returns
    <2> QED
      BY <1>3, <2>1 DEF Clk, Scanned
  <1>11. CASE Tick
    <2>1. Clk(m)' = Clk(m) /\ Expired(m)' = Expired(m)
      BY <1>11 DEF Tick, Clk, Expired, Cursor, Armed, InUse, table, running
    <2>2. HandlerOf(m)' = HandlerOf(m)
      BY <1>11 DEF Tick, HandlerOf, running
    <2> QED
      BY <2>1, <2>2, QuietStep
  <1>12. CASE UNCHANGED vars
    <2>1. Clk(m)' = Clk(m) /\ Expired(m)' = Expired(m)
      BY <1>12 DEF vars, Clk, Expired, Cursor, Armed, InUse, table, running
    <2>2. HandlerOf(m)' = HandlerOf(m)
      BY <1>12 DEF vars, HandlerOf, running
    <2> QED
      BY <2>1, <2>2, QuietStep
  <1> QED
    BY <1>4, <1>5, <1>6, <1>7, <1>8, <1>9, <1>10, <1>11, <1>12, Zenon DEF Next

\* Each mode is a timer service: virtual time passes no timer, reaching one
\* expires exactly those due then, and time stands still until the scan has
\* called them or a handler has set or stopped them.
THEOREM Implements == Spec => ImplementsTimerSpec
  <1>1. Init => Service0!Init /\ Service1!Init
    <2> SUFFICES ASSUME Init
                 PROVE  Service0!Init /\ Service1!Init
      OBVIOUS
    <2>1. VirtInv
      BY InitInv
    <2>2. DueAhead /\ NoneExpired
      BY <2>1, DueLater, ExpiredScanned
    <2>3. \A m \in Modes : /\ Clk(m) = 0 /\ Expired(m) = {} /\ HandlerOf(m) = None
                           /\ DOMAIN Deadline(m) = Slots
                           /\ \A i \in Slots : Deadline(m)[i] = None \/ Deadline(m)[i] > 0
      BY <2>2 DEF DueAhead, NoneExpired, Init, Clk, Scanned, HandlerOf
    <2> QED
      BY <2>3 DEF Service0!Init, Service1!Init, Clk, Modes
  <1>2. VirtInv /\ VirtInv' /\ [Next]_vars => Service0!Next
    <2> SUFFICES ASSUME VirtInv, VirtInv', [Next]_vars
                 PROVE  Service0!Next
      OBVIOUS
    <2>1. Programs(0) \/ Elapses(0) \/ Delivers(0)
      BY OneStep DEF Modes
    <2>2. Programs(0) => Service0!Program
      BY DEF Programs, Service0!Program, Clk
    <2>3. Elapses(0) => Service0!Elapse
      BY DEF Elapses, Service0!Elapse, Service0!Due, Clk
    <2>4. Delivers(0) => Service0!Deliver
      BY DEF Delivers, Service0!Deliver, Clk
    <2> QED
      BY <2>1, <2>2, <2>3, <2>4 DEF Service0!Next
  <1>3. VirtInv /\ VirtInv' /\ [Next]_vars => Service1!Next
    <2> SUFFICES ASSUME VirtInv, VirtInv', [Next]_vars
                 PROVE  Service1!Next
      OBVIOUS
    <2>1. Programs(1) \/ Elapses(1) \/ Delivers(1)
      BY OneStep DEF Modes
    <2>2. Programs(1) => Service1!Program
      BY DEF Programs, Service1!Program, Clk
    <2>3. Elapses(1) => Service1!Elapse
      BY DEF Elapses, Service1!Elapse, Service1!Due, Clk
    <2>4. Delivers(1) => Service1!Deliver
      BY DEF Delivers, Service1!Deliver, Clk
    <2> QED
      BY <2>1, <2>2, <2>3, <2>4 DEF Service1!Next
  <1> QED
    BY <1>1, <1>2, <1>3, Invariant, PTL
       DEF Spec, ImplementsTimerSpec, Service0!Spec, Service1!Spec

=============================================================================
