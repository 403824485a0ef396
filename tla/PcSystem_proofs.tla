--------------------------- MODULE PcSystem_proofs ---------------------------
(***************************************************************************)
(* Proofs about the timers of PcSystem, for any number of slots, devices   *)
(* and timers of the local APIC, and any interval of the null timer, as    *)
(* long as no start has panicked; what the devices' indexes and the        *)
(* refinement of TimerSpec promise holds after such a start too.           *)
(*                                                                         *)
(* The properties are about the run of a session, and what they rest on    *)
(* comes from the sessions before.  SlotsOK says who may own which slot    *)
(* and that the slots exit keeps are the null timer's and the local APIC's *)
(* first, whose active flag the local APIC knows of.  ClockOK says what    *)
(* initialize, which looks at no other slot, makes of those.               *)
(***************************************************************************)
EXTENDS PcSystem, FiniteSetTheorems, WellFoundedInduction, TLAPS

Owned(i) == timer[i].owner \in Clients => handle[timer[i].owner] = i

\* The slots and their owners.
SlotsOK ==
    /\ 2 <= numTimers
    /\ timer[0].active /\ timer[0].continuous /\ timer[0].owner = Null
    /\ timer[0].period = NullInterval
    /\ \A k \in 1..Len(ApicTimers) : handle[ApicTimers[k]] = k
    /\ timer[1].inUse /\ timer[1].owner = ApicTimers[1]
    /\ timer[1].active => apicActive[ApicTimers[1]]
    /\ \A i \in Slots : timer[i].active => timer[i].period >= 1
    /\ \A i \in 1..(numTimers - 1) : Owned(i)
    /\ \A i \in 1..(numTimers - 1) : timer[i].inUse => timer[i].owner \in Clients
    /\ \A i \in pending : i < numTimers \/ timer[i].owner = NoOwner
    /\ DeviceHandlesOwned

\* The clock of a session, and what one leaves to the next.
ClockOK ==
    /\ phase = "off" =>
          /\ Idle
          /\ \A d \in Devices : handle[d] = NoSlot
          /\ \A i \in 2..(numTimers - 1) : ~timer[i].active
    /\ phase = "init" =>
          Idle /\ ticksTotal = 0 /\ currCountdown = currCountdownPeriod
    /\ phase # "off" =>
          /\ 0 < currCountdown
          /\ currCountdown <= currCountdownPeriod
          /\ currCountdownPeriod <= NullInterval
          /\ timer[0].timeToFire <= ticksTotal + NullInterval
          /\ \A i \in 0..(numTimers - 1) : timer[i].active =>
                \/ timer[i].timeToFire >= ticksTotal + currCountdownPeriod
                \/ phase = "init" /\ i = 1

Steady == TypeOK /\ SlotsOK /\ ClockOK /\ NoSlotLeak

\* Nothing is said once a start has panicked.
PcInv == ~aborted => Steady

-----------------------------------------------------------------------------
(* The constants, and the operators the actions are built from. *)

Timers == [inUse : BOOLEAN, period : Nat, timeToFire : Nat, active : BOOLEAN,
           continuous : BOOLEAN, owner : Clients \cup {NoOwner, Null}]

\* The sizes, and the slots the constructors hand out.
LEMMA Sizes ==
  /\ MaxTimers \in Nat /\ Len(ApicTimers) \in Nat /\ Len(ApicTimers) >= 1
  /\ MaxTimers > Len(ApicTimers) + 1
  /\ NullInterval \in Nat /\ NullInterval >= 1
  /\ MaxSessions \in Nat
  /\ 0 \in Slots /\ 1 \in Slots
  <1>1. /\ MaxTimers \in Nat /\ MaxTimers > Len(ApicTimers) + 1
        /\ NullInterval \in Nat \ {0}
        /\ MaxSessions \in Nat
        /\ ApicTimers \in Seq(Apic) /\ ApicTimers # <<>>
    BY ConstantsAssumption
  <1>2. Len(ApicTimers) \in Nat /\ Len(ApicTimers) >= 1
    BY <1>1
  <1> QED
    BY <1>1, <1>2 DEF Slots

\* The clients: the timers of the local APIC are distinct and no devices.
LEMMA ClientKinds ==
  /\ \A k \in 1..Len(ApicTimers) : ApicTimers[k] \in Apic
  /\ \A c \in Apic : \E k \in 1..Len(ApicTimers) : c = ApicTimers[k]
  /\ \A j, k \in 1..Len(ApicTimers) : ApicTimers[j] = ApicTimers[k] => j = k
  /\ Apic \subseteq Clients /\ Devices \subseteq Clients
  /\ \A c \in Clients : c \in Apic \/ c \in Devices
  /\ \A d \in Devices : d \notin Apic
  /\ NoOwner \notin Clients /\ Null \notin Clients
  BY ConstantsAssumption DEF Apic, Clients

\* A set of numbers has a least one.
LEMMA Smallest ==
  ASSUME NEW S \in SUBSET Nat, S # {}
  PROVE  \E x \in S : \A y \in S : x <= y
  <1> DEFINE R == OpToRel(<, Nat)
  <1>1. IsWellFoundedOn(R, Nat)
    BY NatLessThanWellFounded
  <1> HIDE DEF R
  <1>2. PICK x \in S : \A y \in S : ~ (<<y, x>> \in R)
    BY <1>1, WFMin, Zenon
  <1>3. \A y \in S : y < x => <<y, x>> \in R
    BY DEF R, OpToRel
  <1>4. \A y \in S : ~(y < x)
    BY <1>2, <1>3, Zenon
  <1>5. \A y \in S : x <= y
    BY <1>4
  <1> QED
    BY <1>5

\* Min finds it.
LEMMA MinOf ==
  ASSUME NEW S \in SUBSET Nat, S # {}
  PROVE  Min(S) \in S /\ \A y \in S : Min(S) <= y
  BY Smallest, Zenon DEF Min

\* register_timer_ticks takes a slot that is free, and a new one only if none
\* below is.
LEMMA FreeSlotFound ==
  ASSUME numTimers \in Nat, numTimers >= 1
  PROVE  /\ FreeSlot \in 1..numTimers
         /\ FreeSlot = numTimers \/ ~timer[FreeSlot].inUse
         /\ FreeSlot = numTimers => \A i \in 1..(numTimers - 1) : timer[i].inUse
  <1> DEFINE S == {i \in 1..numTimers : i = numTimers \/ ~timer[i].inUse}
  <1>1. S \in SUBSET Nat /\ numTimers \in S
    OBVIOUS
  <1>2. FreeSlot = Min(S)
    BY DEF FreeSlot
  <1>3. Min(S) \in S /\ \A i \in S : Min(S) <= i
    <2> HIDE DEF S
    <2> QED
      BY <1>1, MinOf
  <1> QED
    BY <1>2, <1>3

\* The slots of a list of m, without the null timer's.
LEMMA InList ==
  ASSUME NEW m \in Nat, m <= MaxTimers
  PROVE  \A i \in 1..(m - 1) : i \in Slots /\ 1 <= i /\ i < m
  BY Sizes DEF Slots

\* A minimal interval is a positive number.
LEMMA AtLeastOne ==
  ASSUME NEW n \in Nat
  PROVE  AtLeastMin(n) \in Nat /\ AtLeastMin(n) >= 1
  BY DEF AtLeastMin, MinAllowableTimerPeriod

\* Values that fit 32 bits are kept.
LEMMA Fits ==
  ASSUME NEW n \in 0..NullInterval
  PROVE  Bit32u(n) = n
  BY Sizes DEF Bit32u

\* A shorter countdown ends when the timer is due and leaves the time as it is.
LEMMA Skewed ==
  ASSUME {ticksTotal, currCountdown, currCountdownPeriod} \subseteq Nat,
         currCountdown <= currCountdownPeriod,
         NEW n \in Nat, n >= 1, SkewCountdown(n)
  PROVE  /\ ticksTotal' = ticksTotal
         /\ currCountdown' \in Nat /\ currCountdownPeriod' \in Nat
         /\ currCountdown' <= currCountdownPeriod'
         /\ currCountdownPeriod' <= currCountdownPeriod
         /\ 0 < currCountdown => 0 < currCountdown'
         /\ time_ticks \in Nat
         /\ time_ticks' = time_ticks
         /\ time_ticks + n >= ticksTotal + currCountdownPeriod'
         /\ currCountdown = currCountdownPeriod => currCountdown' = currCountdownPeriod'
  BY DEF SkewCountdown, clock, time_ticks

-----------------------------------------------------------------------------
(* The invariant. *)

\* The static constructors establish it.
LEMMA InitPc == Init => PcInv
  <1> SUFFICES ASSUME Init PROVE Steady
    BY DEF PcInv
  <1> USE Sizes
  <1>1. /\ numTimers = 1 + Len(ApicTimers)
        /\ ticksTotal = 0 /\ currCountdown = 0 /\ currCountdownPeriod = 0
        /\ left = 0 /\ pending = {} /\ calling = NoSlot
        /\ phase = "off" /\ session = 0 /\ aborted = FALSE
        /\ apicActive = [c \in Apic |-> FALSE]
    BY Zenon DEF Init
  <1>2. /\ handle \in [Clients -> Slots]
        /\ \A k \in 1..Len(ApicTimers) : handle[ApicTimers[k]] = k
        /\ \A d \in Devices : handle[d] = NoSlot
    BY DEF Init, Slots
  <1>3. /\ timer[0] = NullTimerSlot
        /\ \A i \in 1..Len(ApicTimers) :
              timer[i] = [inUse |-> TRUE, period |-> 1, timeToFire |-> 1, active |-> FALSE,
                          continuous |-> FALSE, owner |-> ApicTimers[i]]
        /\ \A i \in Slots : i # 0 /\ i \notin 1..Len(ApicTimers) => timer[i] = UnusedSlot
    BY DEF Init, ConstructedTimers, Slots, AtLeastMin, MinAllowableTimerPeriod
  <1>4. DOMAIN timer = Slots /\ timer = [i \in DOMAIN timer |-> timer[i]]
    BY DEF Init, ConstructedTimers
  <1>5. timer \in [Slots -> Timers]
    <2>1. NullTimerSlot \in Timers
      BY DEF Timers, NullTimerSlot
    <2>2. UnusedSlot \in Timers
      BY DEF Timers, UnusedSlot
    <2>3. ASSUME NEW i \in 1..Len(ApicTimers) PROVE timer[i] \in Timers
      <3>1. ApicTimers[i] \in Clients
        BY ClientKinds
      <3>2. timer[i] = [inUse |-> TRUE, period |-> 1, timeToFire |-> 1, active |-> FALSE,
                        continuous |-> FALSE, owner |-> ApicTimers[i]]
        BY <1>3
      <3> QED
        BY <3>1, <3>2 DEF Timers
    <2>4. \A i \in Slots : timer[i] \in Timers
      BY <1>3, <2>1, <2>2, <2>3
    <2> QED
      BY <2>4, <1>4
  <1>6. TypeOK
    <2>1. numTimers \in 1..MaxTimers /\ NoSlot \in Slots
      BY <1>1 DEF NoSlot
    <2>2. apicActive \in [Apic -> BOOLEAN] /\ aborted \in BOOLEAN
      BY <1>1
    <2>3. {ticksTotal, currCountdown, currCountdownPeriod, left} \subseteq Nat
      BY <1>1
    <2>4. pending \subseteq Slots /\ phase \in {"off", "init", "run"} /\ session \in 0..MaxSessions
          /\ calling \in Slots
      BY <1>1, <2>1
    <2> QED
      BY <1>2, <1>5, <2>1, <2>2, <2>3, <2>4 DEF TypeOK, Timers
  <1>7. ASSUME NEW i \in 1..Len(ApicTimers)
        PROVE  timer[i].inUse /\ ~timer[i].active /\ timer[i].owner = ApicTimers[i]
    <2>1. timer[i] = [inUse |-> TRUE, period |-> 1, timeToFire |-> 1, active |-> FALSE,
                      continuous |-> FALSE, owner |-> ApicTimers[i]]
      BY <1>3
    <2> QED
      BY <2>1
  <1>8. numTimers - 1 = Len(ApicTimers)
    BY <1>1
  <1>9. \A i \in Slots : i # 0 => ~timer[i].active
    BY <1>3, <1>7 DEF UnusedSlot
  <1>10. SlotsOK
    BY <1>1, <1>2, <1>3, <1>7, <1>8, <1>9, ClientKinds
    DEF SlotsOK, DeviceHandlesOwned, Owned, NullTimerSlot, Slots
  <1>11. ClockOK
    BY <1>1, <1>2, <1>8, <1>9 DEF ClockOK, Slots, Idle
  <1>12. NoSlotLeak
    <2>1. Cardinality(Devices) \in Nat
      BY FS_CardinalityType, ConstantsAssumption
    <2> QED
      BY <1>1, <2>1 DEF NoSlotLeak
  <1> QED
    BY <1>6, <1>10, <1>11, <1>12 DEF Steady

\* What TypeOK says of the slots and of the numbers, taken apart.
LEMMA Types ==
  ASSUME TypeOK
  PROVE  /\ timer \in [Slots -> Timers]
         /\ numTimers \in 1..MaxTimers
         /\ ticksTotal \in Nat /\ currCountdown \in Nat /\ currCountdownPeriod \in Nat
         /\ left \in Nat
         /\ \A i \in 0..(numTimers - 1) : i \in Slots
         /\ \A i \in Slots : /\ timer[i].active \in BOOLEAN /\ timer[i].inUse \in BOOLEAN
                             /\ timer[i].period \in Nat /\ timer[i].timeToFire \in Nat
  <1>1. timer \in [Slots -> Timers] /\ numTimers \in 1..MaxTimers
    BY DEF TypeOK, Timers
  <1>2. /\ ticksTotal \in Nat /\ currCountdown \in Nat /\ currCountdownPeriod \in Nat
        /\ left \in Nat
    BY DEF TypeOK
  <1>3. \A i \in 0..(numTimers - 1) : i \in Slots
    BY <1>1, Sizes DEF Slots
  <1>4. \A i \in Slots : /\ timer[i].active \in BOOLEAN /\ timer[i].inUse \in BOOLEAN
                         /\ timer[i].period \in Nat /\ timer[i].timeToFire \in Nat
    BY <1>1 DEF Timers
  <1> QED
    BY <1>1, <1>2, <1>3, <1>4

\* The slot of a device is listed, and is none of the kept ones.
LEMMA DeviceSlot ==
  ASSUME TypeOK, SlotsOK, NEW d \in Devices, handle[d] # NoSlot
  PROVE  /\ handle[d] \in 2..(numTimers - 1) /\ handle[d] \in Slots
         /\ timer[handle[d]].inUse /\ timer[handle[d]].owner = d
  <1>1. handle[d] < numTimers /\ timer[handle[d]].inUse /\ timer[handle[d]].owner = d
    BY DEF SlotsOK, DeviceHandlesOwned
  <1>2. handle[d] \in Slots /\ numTimers \in Nat
    BY ClientKinds, Sizes DEF TypeOK
  <1>3. handle[d] # 1
    BY <1>1, ClientKinds, Sizes DEF SlotsOK
  <1> QED
    BY <1>1, <1>2, <1>3 DEF Slots, NoSlot

\* A step that keeps the owners of the slots keeps SlotsOK, if it treats the
\* null timer and the first timer of the local APIC well.
LEMMA SlotsKept ==
  ASSUME TypeOK, SlotsOK, numTimers' = numTimers, handle' = handle,
         \A i \in Slots : /\ timer'[i].inUse = timer[i].inUse
                          /\ timer'[i].owner = timer[i].owner
                          /\ timer'[i].active => timer'[i].period >= 1,
         timer'[0].active /\ timer'[0].continuous /\ timer'[0].period = NullInterval,
         timer'[1].active => apicActive'[ApicTimers[1]],
         pending' \subseteq Slots,
         \A i \in pending' : i \in pending \/ i < numTimers
  PROVE  SlotsOK'
  <1>1. \A i \in 1..(numTimers - 1) : timer'[i].owner = timer[i].owner /\ timer'[i].inUse = timer[i].inUse
    BY Types
  <1>2. \A i \in 1..(numTimers - 1) : Owned(i)' /\ (timer'[i].inUse => timer'[i].owner \in Clients)
    BY <1>1 DEF SlotsOK, Owned
  <1>3. ASSUME NEW d \in Devices, handle'[d] # NoSlot
        PROVE  handle'[d] < numTimers' /\ timer'[handle'[d]].inUse /\ timer'[handle'[d]].owner = d
    BY <1>3, DeviceSlot, Types
  <1>4. \A i \in pending' : i < numTimers' \/ timer'[i].owner = NoOwner
    BY DEF SlotsOK
  <1>5. timer'[1].inUse /\ timer'[1].owner = ApicTimers[1] /\ timer'[0].owner = Null
    BY Sizes DEF SlotsOK
  <1> QED
    BY <1>2, <1>3, <1>4, <1>5 DEF SlotsOK, DeviceHandlesOwned

\* initialize finds nothing active but the null timer, which it sets, and the
\* first timer of the local APIC, which Reset looks after.
LEMMA InitializeInv == ASSUME Steady, initialize, ~aborted PROVE Steady'
  <1> USE Sizes DEF Steady
  <1>1. /\ phase = "off" /\ phase' = "init" /\ session' \in 0..MaxSessions
        /\ ticksTotal' = 0 /\ currCountdown' = NullInterval /\ currCountdownPeriod' = NullInterval
        /\ left' = 0 /\ pending' = {} /\ calling' = NoSlot
        /\ UNCHANGED <<numTimers, handle, apicActive, aborted>>
    <2>1. /\ phase = "off" /\ phase' = "init" /\ session < MaxSessions /\ session' = session + 1
          /\ ticksTotal' = 0 /\ currCountdown' = NullInterval /\ currCountdownPeriod' = NullInterval
          /\ left' = 0 /\ pending' = {} /\ calling' = NoSlot
          /\ UNCHANGED <<numTimers, clients, aborted>>
      BY Zenon DEF initialize
    <2>2. UNCHANGED <<numTimers, handle, apicActive, aborted>>
      BY <2>1, Zenon DEF clients
    <2>3. session \in 0..MaxSessions
      BY DEF TypeOK
    <2>4. session' \in 0..MaxSessions
      BY <2>1, <2>3
    <2> QED
      BY <2>1, <2>2, <2>4, Zenon
  <1>2. timer \in [Slots -> Timers]
    BY Types
  <1>3. /\ \A i \in Slots : i # 0 => timer'[i] = timer[i]
        /\ timer'[0] = [timer[0] EXCEPT !.timeToFire = NullInterval]
    BY <1>2 DEF initialize
  <1>4. timer'[0] \in Timers /\ timer'[0].timeToFire = NullInterval
        /\ timer'[0].active = timer[0].active /\ timer'[0].continuous = timer[0].continuous
        /\ timer'[0].owner = timer[0].owner /\ timer'[0].period = timer[0].period
        /\ timer'[0].inUse = timer[0].inUse
    <2>1. timer[0] \in Timers
      BY <1>2
    <2> QED
      BY <1>3, <2>1 DEF Timers
  <1>5. timer' \in [Slots -> Timers]
    BY <1>2, <1>4 DEF initialize, Timers
  <1>6. TypeOK'
    <2>1. NoSlot \in Slots
      BY DEF NoSlot
    <2>2. {ticksTotal', currCountdown', currCountdownPeriod', left'} \subseteq Nat
      BY <1>1
    <2>3. pending' \subseteq Slots /\ calling' \in Slots /\ phase' \in {"off", "init", "run"}
      BY <1>1, <2>1
    <2> QED
      BY <1>1, <1>5, <2>2, <2>3 DEF TypeOK, Timers
  <1>7. SlotsOK'
    <2>1. ASSUME NEW i \in Slots
          PROVE  /\ timer'[i].inUse = timer[i].inUse /\ timer'[i].owner = timer[i].owner
                 /\ timer'[i].active => timer'[i].period >= 1
      BY <1>3, <1>4 DEF SlotsOK
    <2>2. timer'[0].active /\ timer'[0].continuous /\ timer'[0].period = NullInterval
      BY <1>4 DEF SlotsOK
    <2>3. timer'[1].active => apicActive'[ApicTimers[1]]
      BY <1>1, <1>3 DEF SlotsOK
    <2> QED
      BY <1>1, <2>1, <2>2, <2>3, SlotsKept
  <1>8. ClockOK'
    <2>1. ASSUME NEW i \in 0..(numTimers - 1), timer'[i].active, i # 1
          PROVE  timer'[i].timeToFire >= NullInterval
      <3>1. CASE i = 0
        BY <1>4, <3>1
      <3>2. CASE i # 0
        <4>1. i \in 2..(numTimers - 1) /\ i \in Slots
          BY <2>1, <3>2, Types
        <4>2. timer'[i] = timer[i]
          BY <1>3, <3>2, <4>1
        <4> QED
          BY <1>1, <2>1, <4>1, <4>2 DEF ClockOK
      <3> QED
        BY <3>1, <3>2
    <2> QED
      BY <1>1, <1>4, <2>1 DEF ClockOK, Idle
  <1>9. NoSlotLeak'
    BY <1>1 DEF NoSlotLeak
  <1> QED
    BY <1>6, <1>7, <1>8, <1>9

\* The reset deactivates the timer initialize did not look at.
LEMMA ResetInv == ASSUME Steady, Reset, ~aborted PROVE Steady'
  <1> USE Sizes DEF Steady
  <1>1. /\ phase \in {"init", "run"} /\ phase' = "run"
        /\ apicActive' = [c \in Apic |-> FALSE]
        /\ UNCHANGED <<numTimers, ticksTotal, currCountdown, currCountdownPeriod,
                       left, pending, calling, handle, session, aborted>>
    BY DEF Reset, clock, event
  <1>2. timer \in [Slots -> Timers] /\ DOMAIN timer' = Slots
        /\ timer' = [i \in DOMAIN timer' |-> timer'[i]]
    BY Types DEF Reset
  <1>3. ASSUME NEW i \in Slots
        PROVE  /\ timer'[i] \in Timers
               /\ timer'[i].inUse = timer[i].inUse /\ timer'[i].period = timer[i].period
               /\ timer'[i].timeToFire = timer[i].timeToFire
               /\ timer'[i].continuous = timer[i].continuous
               /\ timer'[i].owner = timer[i].owner
               /\ timer'[i].active => timer[i].active
               /\ (\E c \in Apic : apicActive[c] /\ handle[c] = i) => ~timer'[i].active
               /\ ~(\E c \in Apic : apicActive[c] /\ handle[c] = i) => timer'[i] = timer[i]
    <2>1. timer[i] \in Timers
      BY <1>2
    <2>2. CASE \E c \in Apic : apicActive[c] /\ handle[c] = i
      <3>1. timer'[i] = [timer[i] EXCEPT !.active = FALSE]
        BY <2>2 DEF Reset
      <3> QED
        BY <2>1, <2>2, <3>1 DEF Timers
    <2>3. CASE ~(\E c \in Apic : apicActive[c] /\ handle[c] = i)
      <3>1. timer'[i] = timer[i]
        BY <2>3 DEF Reset
      <3> QED
        BY <2>1, <2>3, <3>1 DEF Timers
    <2> QED
      BY <2>2, <2>3
  <1>4. timer' \in [Slots -> Timers]
    BY <1>2, <1>3
  <1>5. TypeOK'
    <2>1. apicActive' \in [Apic -> BOOLEAN] /\ phase' \in {"off", "init", "run"}
      BY <1>1
    <2> QED
      BY <1>1, <1>4, <2>1 DEF TypeOK, Timers
  <1>6. timer'[0] = timer[0]
    <2>1. \A c \in Apic : handle[c] # 0
      BY ClientKinds DEF SlotsOK
    <2> QED
      BY <1>3, <2>1
  <1>7. ~timer'[1].active
    <2>1. CASE timer[1].active
      <3>1. ApicTimers[1] \in Apic /\ handle[ApicTimers[1]] = 1 /\ apicActive[ApicTimers[1]]
        BY <2>1, ClientKinds DEF SlotsOK
      <3> QED
        BY <1>3, <3>1
    <2>2. CASE ~timer[1].active
      BY <2>2, <1>3
    <2> QED
      BY <2>1, <2>2
  <1>8. SlotsOK'
    <2>1. \A i \in Slots : /\ timer'[i].inUse = timer[i].inUse /\ timer'[i].owner = timer[i].owner
                           /\ timer'[i].active => timer'[i].period >= 1
      BY <1>3 DEF SlotsOK
    <2>2. timer'[0].active /\ timer'[0].continuous /\ timer'[0].period = NullInterval
      BY <1>6 DEF SlotsOK
    <2>3. pending' \subseteq Slots
      BY <1>1 DEF TypeOK
    <2> QED
      BY <1>1, <1>7, <2>1, <2>2, <2>3, SlotsKept
  <1>9. ClockOK'
    <2>1. ASSUME NEW i \in 0..(numTimers - 1), timer'[i].active
          PROVE  timer'[i].timeToFire >= ticksTotal + currCountdownPeriod
      <3>1. i \in Slots /\ i # 1
        BY <2>1, <1>7, Types
      <3> QED
        BY <1>1, <1>3, <2>1, <3>1 DEF ClockOK
    <2> QED
      BY <1>1, <1>6, <2>1 DEF ClockOK
  <1>10. NoSlotLeak'
    BY <1>1 DEF NoSlotLeak
  <1> QED
    BY <1>5, <1>8, <1>9, <1>10

\* exit keeps the slots of the null timer and of the first timer of the local
\* APIC, and no device keeps one.
LEMMA ExitInv == ASSUME Steady, exit, ~aborted PROVE Steady'
  <1> USE Sizes DEF Steady
  <1>1. /\ phase' = "off" /\ numTimers' = 2
        /\ left' = 0 /\ pending' = {} /\ calling' = NoSlot
        /\ UNCHANGED <<timer, ticksTotal, currCountdown, currCountdownPeriod, apicActive,
                       session, aborted>>
    BY DEF exit, KeptTimers, clock
  <1>2. /\ handle' \in [Clients -> Slots]
        /\ \A d \in Devices : handle'[d] = NoSlot
        /\ \A c \in Apic : handle'[c] = handle[c]
    BY ClientKinds DEF exit, TypeOK, NoSlot
  <1>3. TypeOK'
    <2>1. NoSlot \in Slots /\ numTimers' \in 1..MaxTimers
      BY <1>1 DEF NoSlot
    <2>2. {ticksTotal', currCountdown', currCountdownPeriod', left'} \subseteq Nat
      BY <1>1, Types
    <2>3. pending' \subseteq Slots /\ calling' \in Slots /\ phase' \in {"off", "init", "run"}
      BY <1>1, <2>1
    <2> QED
      BY <1>1, <1>2, <2>1, <2>2, <2>3 DEF TypeOK
  <1>4. SlotsOK'
    <2>1. \A k \in 1..Len(ApicTimers) : handle'[ApicTimers[k]] = k
      BY <1>2, ClientKinds DEF SlotsOK
    <2>2. Owned(1)' /\ timer'[1].owner \in Clients
      BY <1>1, <2>1, ClientKinds DEF SlotsOK, Owned
    <2>3. DeviceHandlesOwned'
      BY <1>2 DEF DeviceHandlesOwned
    <2>4. 1..(numTimers' - 1) = {1}
      BY <1>1
    <2> QED
      BY <1>1, <2>1, <2>2, <2>3, <2>4 DEF SlotsOK
  <1>5. ClockOK'
    <2>1. 2..(numTimers' - 1) = {}
      BY <1>1
    <2> QED
      BY <1>1, <1>2, <2>1 DEF ClockOK, Idle
  <1>6. NoSlotLeak'
    <2>1. Cardinality(Devices) \in Nat
      BY FS_CardinalityType, ConstantsAssumption
    <2> QED
      BY <1>1, <2>1 DEF NoSlotLeak
  <1> QED
    BY <1>3, <1>4, <1>5, <1>6

\* What a call from a client leaves alone.
CallKeeps ==
    /\ pending' \subseteq pending
    /\ phase' = phase /\ session' = session /\ aborted' = aborted
    /\ left' = left
    /\ calling' \in Slots
    /\ phase = "init" => calling' = calling

\* The types that do not depend on the slots, after a call.
LEMMA CallTypes ==
  ASSUME TypeOK, CallKeeps, timer' \in [Slots -> Timers], numTimers' \in 1..MaxTimers,
         ticksTotal' \in Nat, currCountdown' \in Nat, currCountdownPeriod' \in Nat,
         handle' \in [Clients -> Slots], apicActive' \in [Apic -> BOOLEAN]
  PROVE  TypeOK'
  <1>1. {ticksTotal', currCountdown', currCountdownPeriod', left'} \subseteq Nat
    BY Types DEF CallKeeps
  <1> QED
    BY <1>1 DEF TypeOK, CallKeeps, Timers

\* A timer that is started, of a device or of the local APIC and in or out of
\* the list, is not due before the countdown ends.
LEMMA ActivateInv ==
  ASSUME Steady, ~aborted, phase # "off", CallKeeps, numTimers' = numTimers, handle' = handle,
         NEW j \in Slots, j # 0, NEW n \in Nat, NEW b \in BOOLEAN, Activate(j, n, b),
         apicActive' \in [Apic -> BOOLEAN],
         j = 1 \/ apicActive[ApicTimers[1]] => apicActive'[ApicTimers[1]]
  PROVE  Steady'
  <1> USE Sizes DEF Steady
  <1> DEFINE ticks == AtLeastMin(n)
  <1>1. ticks \in Nat /\ ticks >= 1
    BY AtLeastOne
  <1>2. /\ timer' = [timer EXCEPT ![j].period = ticks,
                                ![j].timeToFire = time_ticks + ticks,
                                ![j].active = TRUE,
                                ![j].continuous = b]
        /\ SkewCountdown(ticks)
    BY DEF Activate
  <1> HIDE DEF ticks
  <1>3. /\ ticksTotal \in Nat /\ currCountdown \in Nat /\ currCountdownPeriod \in Nat
        /\ 0 < currCountdown /\ currCountdown <= currCountdownPeriod
        /\ timer \in [Slots -> Timers]
    BY Types DEF ClockOK
  <1>4. /\ ticksTotal' = ticksTotal
        /\ currCountdown' \in Nat /\ currCountdownPeriod' \in Nat
        /\ currCountdown' <= currCountdownPeriod'
        /\ currCountdownPeriod' <= currCountdownPeriod
        /\ 0 < currCountdown'
        /\ time_ticks \in Nat
        /\ time_ticks + ticks >= ticksTotal + currCountdownPeriod'
        /\ currCountdown = currCountdownPeriod => currCountdown' = currCountdownPeriod'
    BY <1>1, <1>2, <1>3, Skewed
  <1>5. /\ \A i \in Slots : i # j => timer'[i] = timer[i]
        /\ timer'[j].inUse = timer[j].inUse /\ timer'[j].owner = timer[j].owner
        /\ timer'[j].period = ticks /\ timer'[j].timeToFire = time_ticks + ticks
        /\ timer' \in [Slots -> Timers]
    <2> DEFINE due == time_ticks + ticks
    <2>1. due \in Nat
      BY <1>1, <1>4
    <2>2. timer' = [timer EXCEPT ![j].period = ticks, ![j].timeToFire = due,
                                 ![j].active = TRUE, ![j].continuous = b]
      BY <1>2
    <2>3. timer[j] \in Timers
      BY <1>3
    <2> HIDE DEF due
    <2>4. \A i \in Slots : i # j => timer'[i] = timer[i]
      BY <1>3, <2>2
    <2>5. /\ timer'[j] = [timer[j] EXCEPT !.period = ticks, !.timeToFire = due, !.active = TRUE,
                                         !.continuous = b]
          /\ DOMAIN timer' = Slots /\ timer' = [i \in DOMAIN timer' |-> timer'[i]]
      BY <1>3, <2>2
    <2>6. /\ timer'[j].inUse = timer[j].inUse /\ timer'[j].owner = timer[j].owner
          /\ timer'[j].period = ticks /\ timer'[j].timeToFire = due
      BY <2>3, <2>5 DEF Timers
    <2>7. timer'[j] \in Timers
      BY <1>1, <2>1, <2>3, <2>5 DEF Timers
    <2>8. timer' \in [Slots -> Timers]
      BY <1>3, <2>4, <2>5, <2>7
    <2> QED
      BY <2>4, <2>6, <2>8 DEF due
  <1>6. TypeOK'
    BY <1>4, <1>5, CallTypes, Types DEF TypeOK
  <1>7. SlotsOK'
    <2>1. \A i \in Slots : /\ timer'[i].inUse = timer[i].inUse /\ timer'[i].owner = timer[i].owner
                           /\ timer'[i].active => timer'[i].period >= 1
      BY <1>1, <1>5 DEF SlotsOK
    <2>2. timer'[0].active /\ timer'[0].continuous /\ timer'[0].period = NullInterval
      BY <1>5 DEF SlotsOK
    <2>3. timer'[1].active => apicActive'[ApicTimers[1]]
      BY <1>5 DEF SlotsOK
    <2>4. pending' \subseteq Slots /\ \A i \in pending' : i \in pending
      BY DEF CallKeeps, TypeOK
    <2> QED
      BY <2>1, <2>2, <2>3, <2>4, SlotsKept
  <1>8. ClockOK'
    <2>1. ASSUME NEW i \in 0..(numTimers - 1), timer'[i].active
          PROVE  \/ timer'[i].timeToFire >= ticksTotal + currCountdownPeriod'
                 \/ phase = "init" /\ i = 1
      <3>1. CASE i = j
        BY <1>4, <1>5, <3>1
      <3>2. CASE i # j
        <4>1. timer'[i] = timer[i] /\ timer[i].active /\ timer[i].timeToFire \in Nat
          BY <1>5, <2>1, <3>2, Types
        <4>2. \/ timer[i].timeToFire >= ticksTotal + currCountdownPeriod
              \/ phase = "init" /\ i = 1
          BY <4>1 DEF ClockOK
        <4> QED
          BY <1>3, <1>4, <4>1, <4>2
      <3> QED
        BY <3>1, <3>2
    <2>2. timer'[0].timeToFire <= ticksTotal + NullInterval
      BY <1>5 DEF ClockOK
    <2>3. phase = "init" => Idle' /\ ticksTotal' = 0 /\ currCountdown' = currCountdownPeriod'
      BY <1>4 DEF ClockOK, Idle, CallKeeps
    <2>4. currCountdownPeriod' <= NullInterval
      BY <1>3, <1>4 DEF ClockOK
    <2> QED
      BY <1>4, <2>1, <2>2, <2>3, <2>4 DEF ClockOK, CallKeeps
  <1>9. NoSlotLeak'
    BY DEF NoSlotLeak, CallKeeps
  <1> QED
    BY <1>6, <1>7, <1>8, <1>9

\* A step that stops a timer at most keeps the invariant.
LEMMA StopInv ==
  ASSUME Steady, ~aborted, phase # "off", CallKeeps, numTimers' = numTimers, handle' = handle,
         UNCHANGED clock,
         NEW j \in Slots, j # 0, timer' \in {timer, [timer EXCEPT ![j].active = FALSE]},
         apicActive' \in [Apic -> BOOLEAN],
         timer'[1].active => apicActive'[ApicTimers[1]]
  PROVE  Steady'
  <1> USE Sizes DEF Steady
  <1>1. timer \in [Slots -> Timers]
    BY Types
  <1>2. /\ \A i \in Slots : /\ timer'[i].inUse = timer[i].inUse /\ timer'[i].owner = timer[i].owner
                            /\ timer'[i].period = timer[i].period
                            /\ timer'[i].timeToFire = timer[i].timeToFire
                            /\ timer'[i].active => timer[i].active
        /\ timer'[0] = timer[0]
        /\ timer' \in [Slots -> Timers]
    <2>1. CASE timer' = timer
      BY <1>1, <2>1
    <2>2. CASE timer' = [timer EXCEPT ![j].active = FALSE]
      <3>1. /\ \A i \in Slots : i # j => timer'[i] = timer[i]
            /\ timer'[j] = [timer[j] EXCEPT !.active = FALSE]
            /\ timer[j] \in Timers
            /\ DOMAIN timer' = Slots /\ timer' = [i \in DOMAIN timer' |-> timer'[i]]
        BY <1>1, <2>2
      <3>2. /\ timer'[j].inUse = timer[j].inUse /\ timer'[j].owner = timer[j].owner
            /\ timer'[j].period = timer[j].period
            /\ timer'[j].timeToFire = timer[j].timeToFire
            /\ timer'[j].active = FALSE
            /\ timer'[j] \in Timers
        BY <3>1 DEF Timers
      <3>3. timer' \in [Slots -> Timers]
        BY <1>1, <3>1, <3>2
      <3> QED
        BY <3>1, <3>2, <3>3
    <2> QED
      BY <2>1, <2>2
  <1>3. UNCHANGED <<ticksTotal, currCountdown, currCountdownPeriod>>
    BY DEF clock
  <1>4. TypeOK'
    BY <1>2, <1>3, CallTypes, Types DEF TypeOK
  <1>5. SlotsOK'
    <2>1. \A i \in Slots : /\ timer'[i].inUse = timer[i].inUse /\ timer'[i].owner = timer[i].owner
                           /\ timer'[i].active => timer'[i].period >= 1
      BY <1>2 DEF SlotsOK
    <2>2. timer'[0].active /\ timer'[0].continuous /\ timer'[0].period = NullInterval
      BY <1>2 DEF SlotsOK
    <2>3. pending' \subseteq Slots /\ \A i \in pending' : i \in pending
      BY DEF CallKeeps, TypeOK
    <2> QED
      BY <2>1, <2>2, <2>3, SlotsKept
  <1>6. ClockOK'
    <2>1. ASSUME NEW i \in 0..(numTimers - 1), timer'[i].active
          PROVE  \/ timer'[i].timeToFire >= ticksTotal + currCountdownPeriod
                 \/ phase = "init" /\ i = 1
      BY <1>2, <2>1, Types DEF ClockOK
    <2>2. phase = "init" => Idle' /\ ticksTotal' = 0 /\ currCountdown' = currCountdownPeriod'
      BY <1>3 DEF ClockOK, Idle, CallKeeps
    <2> QED
      BY <1>2, <1>3, <2>1, <2>2 DEF ClockOK, CallKeeps
  <1>7. NoSlotLeak'
    BY DEF NoSlotLeak, CallKeeps
  <1> QED
    BY <1>4, <1>5, <1>6, <1>7

\* The list grows only when every slot in it is in use, and then each of them
\* belongs to a client of its own.
LEMMA ListBound ==
  ASSUME Steady, ~aborted, NEW d \in Devices, handle[d] = NoSlot,
         \A i \in 1..(numTimers - 1) : timer[i].inUse
  PROVE  numTimers + 1 <= 1 + Len(ApicTimers) + Cardinality(Devices)
  <1> DEFINE Others == Clients \ {d}
             f == [i \in 1..(numTimers - 1) |-> timer[i].owner]
  <1>1. numTimers \in Nat /\ numTimers >= 2
    BY Types, Sizes DEF Steady, SlotsOK
  <1>2. ASSUME NEW i \in 1..(numTimers - 1)
        PROVE  timer[i].owner \in Others /\ handle[timer[i].owner] = i
    <2>1. timer[i].owner \in Clients /\ handle[timer[i].owner] = i
      BY DEF Steady, SlotsOK, Owned
    <2>2. timer[i].owner # d
      BY <2>1 DEF NoSlot
    <2> QED
      BY <2>1, <2>2
  <1>3. f \in [1..(numTimers - 1) -> Others]
    BY <1>2
  <1>4. \A i, j \in 1..(numTimers - 1) : f[i] = f[j] => i = j
    BY <1>2
  <1>5. f \in Injection(1..(numTimers - 1), Others)
    BY <1>3, <1>4 DEF Injection, IsInjective
  <1>6. IsFiniteSet(Apic) /\ Cardinality(Apic) <= Len(ApicTimers)
    <2> DEFINE g == [k \in 1..Len(ApicTimers) |-> ApicTimers[k]]
    <2>1. g \in Surjection(1..Len(ApicTimers), Apic)
      BY ClientKinds DEF Surjection
    <2>2. IsFiniteSet(1..Len(ApicTimers)) /\ Cardinality(1..Len(ApicTimers)) = Len(ApicTimers)
      <3> DEFINE n == Len(ApicTimers)
      <3>1. n \in Nat /\ n >= 1
        BY Sizes
      <3> HIDE DEF n
      <3>2. IsFiniteSet(1..n) /\ Cardinality(1..n) = n
        BY <3>1, FS_Interval
      <3> QED
        BY <3>2 DEF n
    <2> HIDE DEF g
    <2> QED
      BY <2>1, <2>2, FS_Surjection
  <1>7. IsFiniteSet(Devices)
    BY ConstantsAssumption
  <1>8. Devices \cap Apic = {}
    BY ClientKinds
  <1>9. /\ IsFiniteSet(Clients)
        /\ Cardinality(Clients) = Cardinality(Devices) + Cardinality(Apic)
    <2>1. /\ IsFiniteSet(Devices \cup Apic)
          /\ Cardinality(Devices \cup Apic) =
                Cardinality(Devices) + Cardinality(Apic) - Cardinality(Devices \cap Apic)
      BY <1>6, <1>7, FS_Union
    <2>2. Cardinality(Devices \cap Apic) = 0
      BY <1>8, FS_EmptySet
    <2>3. Cardinality(Devices) \in Nat /\ Cardinality(Apic) \in Nat
      BY <1>6, <1>7, FS_CardinalityType
    <2> QED
      BY <2>1, <2>2, <2>3 DEF Clients
  <1>10. IsFiniteSet(Others) /\ Cardinality(Others) = Cardinality(Clients) - 1
    BY <1>9, FS_RemoveElement, ClientKinds
  <1>11. Cardinality(1..(numTimers - 1)) = numTimers - 1
    BY <1>1, FS_Interval
  <1>12. Cardinality(1..(numTimers - 1)) <= Cardinality(Others)
    <2> HIDE DEF f, Others
    <2> QED
      BY <1>5, <1>10, FS_Injection
  <1>13. /\ Cardinality(Devices) \in Nat /\ Cardinality(Apic) \in Nat
         /\ Cardinality(Others) \in Nat
    BY <1>6, <1>7, <1>10, FS_CardinalityType
  <1> QED
    BY <1>1, <1>6, <1>9, <1>10, <1>11, <1>12, <1>13, Sizes

\* A device that registers gets a slot nobody has.
LEMMA RegisterInv ==
  ASSUME Steady, ~aborted, NEW d \in Devices, NEW n \in Nat, NEW b \in BOOLEAN, NEW a \in BOOLEAN,
         register_timer_ticks(d, n, b, a)
  PROVE  Steady'
  <1> USE Sizes DEF Steady
  <1> DEFINE ticks == AtLeastMin(n)
             F == FreeSlot
             due == time_ticks + ticks
  <1>1. ticks \in Nat /\ ticks >= 1
    BY AtLeastOne
  <1>2. /\ phase # "off" /\ handle[d] = NoSlot /\ numTimers < MaxTimers
        /\ timer' = [timer EXCEPT ![F] =
                       [inUse |-> TRUE, period |-> ticks, timeToFire |-> due, active |-> a,
                        continuous |-> b, owner |-> d]]
        /\ handle' = [handle EXCEPT ![d] = F]
        /\ numTimers' = IF F = numTimers THEN numTimers + 1 ELSE numTimers
        /\ IF a THEN SkewCountdown(ticks) ELSE UNCHANGED clock
        /\ UNCHANGED <<left, pending, calling, apicActive, phase, session, aborted>>
    BY DEF register_timer_ticks, DeviceRuns, event, life
  <1>3. /\ ticksTotal \in Nat /\ currCountdown \in Nat /\ currCountdownPeriod \in Nat
        /\ 0 < currCountdown /\ currCountdown <= currCountdownPeriod
        /\ timer \in [Slots -> Timers] /\ numTimers \in Nat /\ numTimers >= 2
        /\ time_ticks \in Nat
    <2>1. /\ ticksTotal \in Nat /\ currCountdown \in Nat /\ currCountdownPeriod \in Nat
          /\ timer \in [Slots -> Timers] /\ numTimers \in Nat
      BY Types
    <2>2. 0 < currCountdown /\ currCountdown <= currCountdownPeriod /\ numTimers >= 2
      BY <1>2 DEF ClockOK, SlotsOK
    <2> QED
      BY <2>1, <2>2 DEF time_ticks
  <1>4. /\ F \in 2..numTimers /\ F \in Slots
        /\ F = numTimers \/ ~timer[F].inUse
        /\ F = numTimers => \A i \in 1..(numTimers - 1) : timer[i].inUse
    <2>1. /\ F \in 1..numTimers
          /\ F = numTimers \/ ~timer[F].inUse
          /\ F = numTimers => \A i \in 1..(numTimers - 1) : timer[i].inUse
      BY <1>3, FreeSlotFound
    <2>2. F # 1
      BY <1>3, <2>1 DEF SlotsOK
    <2> QED
      BY <1>2, <1>3, <2>1, <2>2 DEF Slots
  <1>5. /\ ticksTotal' = ticksTotal
        /\ currCountdown' \in Nat /\ currCountdownPeriod' \in Nat
        /\ currCountdown' <= currCountdownPeriod'
        /\ currCountdownPeriod' <= currCountdownPeriod
        /\ 0 < currCountdown'
        /\ a => due >= ticksTotal + currCountdownPeriod'
        /\ currCountdown = currCountdownPeriod => currCountdown' = currCountdownPeriod'
    <2>1. CASE a
      BY <1>1, <1>2, <1>3, <2>1, Skewed
    <2>2. CASE ~a
      BY <1>2, <1>3, <2>2 DEF clock
    <2> QED
      BY <2>1, <2>2
  <1>6. due \in Nat
    BY <1>1, <1>3
  <1> HIDE DEF ticks, F, due
  <1>7. /\ \A i \in Slots : i # F => timer'[i] = timer[i]
        /\ timer'[F] = [inUse |-> TRUE, period |-> ticks, timeToFire |-> due, active |-> a,
                        continuous |-> b, owner |-> d]
        /\ DOMAIN timer' = Slots /\ timer' = [i \in DOMAIN timer' |-> timer'[i]]
    BY <1>2, <1>3, <1>4
  <1>8. /\ timer'[F].inUse /\ timer'[F].owner = d /\ timer'[F].active = a
        /\ timer'[F].timeToFire = due /\ timer'[F].period = ticks
        /\ timer'[F] \in Timers
    BY <1>1, <1>6, <1>7, ClientKinds DEF Timers
  <1>9. timer' \in [Slots -> Timers]
    BY <1>3, <1>7, <1>8
  <1>10. /\ numTimers' \in 2..MaxTimers /\ numTimers <= numTimers' /\ F < numTimers'
         /\ \A i \in 0..(numTimers' - 1) : i = F \/ i \in 0..(numTimers - 1)
    BY <1>2, <1>3, <1>4
  <1>11. /\ handle' \in [Clients -> Slots] /\ handle'[d] = F
         /\ \A c \in Clients : c # d => handle'[c] = handle[c]
    BY <1>2, <1>4, ClientKinds DEF TypeOK
  <1>12. TypeOK'
    <2>1. CallKeeps
      BY <1>2 DEF CallKeeps, TypeOK
    <2>2. ticksTotal' \in Nat /\ numTimers' \in 1..MaxTimers /\ apicActive' \in [Apic -> BOOLEAN]
      BY <1>2, <1>3, <1>5, <1>10 DEF TypeOK
    <2> QED
      BY <1>5, <1>9, <1>11, <2>1, <2>2, CallTypes
  <1>13. SlotsOK'
    <2>1. timer'[0] = timer[0] /\ (F # 1 /\ timer'[1] = timer[1])
      BY <1>4, <1>7
    <2>2. \A k \in 1..Len(ApicTimers) : handle'[ApicTimers[k]] = k
      BY <1>11, ClientKinds DEF SlotsOK
    <2>3. \A i \in Slots : timer'[i].active => timer'[i].period >= 1
      BY <1>1, <1>7, <1>8 DEF SlotsOK
    <2>4. ASSUME NEW i \in 1..(numTimers' - 1)
          PROVE  Owned(i)' /\ (timer'[i].inUse => timer'[i].owner \in Clients)
      <3>1. CASE i = F
        BY <1>8, <1>11, <3>1, ClientKinds DEF Owned
      <3>2. CASE i # F
        <4>1. i \in 1..(numTimers - 1) /\ i \in Slots /\ timer'[i] = timer[i]
          BY <1>7, <1>10, <3>2, Types
        <4>2. Owned(i) /\ (timer[i].inUse => timer[i].owner \in Clients)
          BY <4>1 DEF SlotsOK
        <4>3. timer[i].owner \in Clients => timer[i].owner # d
          BY <1>2, <4>1, <4>2 DEF Owned, NoSlot
        <4> QED
          BY <1>11, <4>1, <4>2, <4>3 DEF Owned
      <3> QED
        BY <3>1, <3>2
    <2>5. \A i \in pending' : i < numTimers' \/ timer'[i].owner = NoOwner
      <3>1. \A i \in pending : i \in Slots /\ i \in Nat
        BY DEF TypeOK, Slots
      <3> QED
        BY <1>2, <1>3, <1>7, <1>10, <3>1 DEF SlotsOK
    <2>6. ASSUME NEW e \in Devices, handle'[e] # NoSlot
          PROVE  handle'[e] < numTimers' /\ timer'[handle'[e]].inUse /\ timer'[handle'[e]].owner = e
      <3>1. CASE e = d
        BY <1>8, <1>10, <1>11, <3>1
      <3>2. CASE e # d
        <4>1. handle'[e] = handle[e]
          BY <1>11, <3>2, ClientKinds
        <4>2. /\ handle[e] \in 2..(numTimers - 1) /\ handle[e] \in Slots
              /\ timer[handle[e]].inUse /\ timer[handle[e]].owner = e
          BY <2>6, <4>1, DeviceSlot
        <4>3. handle[e] # F
          BY <1>3, <1>4, <4>2
        <4> QED
          BY <1>3, <1>7, <1>10, <4>1, <4>2, <4>3
      <3> QED
        BY <3>1, <3>2
    <2>7. DeviceHandlesOwned'
      BY <2>6 DEF DeviceHandlesOwned
    <2>8. /\ timer'[0].active /\ timer'[0].continuous /\ timer'[0].owner = Null
          /\ timer'[0].period = NullInterval
          /\ timer'[1].inUse /\ timer'[1].owner = ApicTimers[1]
          /\ timer'[1].active => apicActive'[ApicTimers[1]]
      BY <1>2, <2>1 DEF SlotsOK
    <2>9. 2 <= numTimers'
      BY <1>10
    <2> QED
      BY <2>2, <2>3, <2>4, <2>5, <2>7, <2>8, <2>9 DEF SlotsOK
  <1>14. ClockOK'
    <2>1. ASSUME NEW i \in 0..(numTimers' - 1), timer'[i].active
          PROVE  \/ timer'[i].timeToFire >= ticksTotal + currCountdownPeriod'
                 \/ phase = "init" /\ i = 1
      <3>1. CASE i = F
        BY <1>5, <1>8, <2>1, <3>1
      <3>2. CASE i # F
        <4>1. i \in 0..(numTimers - 1)
          BY <1>10, <3>2
        <4>2. timer'[i] = timer[i] /\ timer[i].active /\ timer[i].timeToFire \in Nat
          BY <1>7, <2>1, <3>2, <4>1, Types
        <4>3. \/ timer[i].timeToFire >= ticksTotal + currCountdownPeriod
              \/ phase = "init" /\ i = 1
          BY <1>2, <4>1, <4>2 DEF ClockOK
        <4> QED
          BY <1>3, <1>5, <4>2, <4>3
      <3> QED
        BY <3>1, <3>2
    <2>2. timer'[0].timeToFire <= ticksTotal + NullInterval
      BY <1>2, <1>4, <1>7 DEF ClockOK
    <2>3. phase = "init" => Idle' /\ ticksTotal' = 0 /\ currCountdown' = currCountdownPeriod'
      BY <1>2, <1>5 DEF ClockOK, Idle
    <2>4. currCountdownPeriod' <= NullInterval
      BY <1>2, <1>3, <1>5 DEF ClockOK
    <2> QED
      BY <1>2, <1>5, <2>1, <2>2, <2>3, <2>4 DEF ClockOK
  <1>15. NoSlotLeak'
    <2>1. CASE F = numTimers
      <3>1. numTimers + 1 <= 1 + Len(ApicTimers) + Cardinality(Devices)
        BY <1>2, <1>4, <2>1, ListBound
      <3> QED
        BY <1>2, <2>1, <3>1 DEF NoSlotLeak
    <2>2. CASE F # numTimers
      BY <1>2, <2>2 DEF NoSlotLeak
    <2> QED
      BY <2>1, <2>2
  <1> QED
    BY <1>12, <1>13, <1>14, <1>15

\* A device that unregisters frees a slot that only it had.
LEMMA UnregisterInv ==
  ASSUME Steady, ~aborted, NEW d \in Devices, unregisterTimer(d)
  PROVE  Steady'
  <1> USE Sizes DEF Steady
  <1> DEFINE j == handle[d]
             freed == [inUse |-> FALSE, period |-> NullInterval, timeToFire |-> NullInterval,
                       active |-> FALSE, continuous |-> FALSE, owner |-> NoOwner]
  <1>1. /\ phase # "off" /\ j # NoSlot
        /\ timer' = [timer EXCEPT ![j] = freed]
        /\ numTimers' = IF j = numTimers - 1 THEN numTimers - 1 ELSE numTimers
        /\ handle' = [handle EXCEPT ![d] = NoSlot]
        /\ UNCHANGED <<ticksTotal, currCountdown, currCountdownPeriod, left, pending, calling,
                       apicActive, phase, session, aborted>>
    BY DEF unregisterTimer, DeviceRuns, event, life, clock
  <1>2. j \in 2..(numTimers - 1) /\ j \in Slots /\ timer[j].owner = d
    BY <1>1, DeviceSlot
  <1>3. timer \in [Slots -> Timers] /\ numTimers \in 1..MaxTimers
    BY Types
  <1>4. freed \in Timers
    BY DEF Timers
  <1> HIDE DEF j
  <1>5. /\ \A i \in Slots : i # j => timer'[i] = timer[i]
        /\ timer'[j] = freed
        /\ timer' \in [Slots -> Timers]
    BY <1>1, <1>2, <1>3, <1>4
  <1>6. ~timer'[j].active /\ ~timer'[j].inUse /\ timer'[j].owner = NoOwner
    BY <1>5
  <1> HIDE DEF freed
  <1>7. /\ handle' \in [Clients -> Slots] /\ handle'[d] = NoSlot
        /\ \A c \in Clients : c # d => handle'[c] = handle[c]
    BY <1>1, ClientKinds DEF TypeOK, NoSlot
  <1>8. /\ numTimers' \in 2..MaxTimers /\ numTimers' <= numTimers
        /\ \A i \in 0..(numTimers' - 1) : i \in 0..(numTimers - 1)
        /\ \A i \in 0..(numTimers - 1) : i = j \/ i < numTimers'
    BY <1>1, <1>2, <1>3
  <1>9. TypeOK'
    <2>1. CallKeeps
      BY <1>1 DEF CallKeeps, TypeOK
    <2>2. /\ ticksTotal' \in Nat /\ currCountdown' \in Nat /\ currCountdownPeriod' \in Nat
          /\ numTimers' \in 1..MaxTimers /\ apicActive' \in [Apic -> BOOLEAN]
      BY <1>1, <1>8, Types DEF TypeOK
    <2> QED
      BY <1>5, <1>7, <2>1, <2>2, CallTypes
  <1>10. SlotsOK'
    <2>1. timer'[0] = timer[0] /\ timer'[1] = timer[1]
      BY <1>2, <1>5
    <2>2. \A k \in 1..Len(ApicTimers) : handle'[ApicTimers[k]] = k
      BY <1>7, ClientKinds DEF SlotsOK
    <2>3. \A i \in Slots : timer'[i].active => timer'[i].period >= 1
      BY <1>5, <1>6 DEF SlotsOK
    <2>4. ASSUME NEW i \in Slots, 1 <= i, i < numTimers'
          PROVE  Owned(i)' /\ (timer'[i].inUse => timer'[i].owner \in Clients)
      <3>1. CASE i = j
        BY <1>6, <3>1, ClientKinds DEF Owned
      <3>2. CASE i # j
        <4>1. i \in 1..(numTimers - 1) /\ i \in Slots /\ timer'[i] = timer[i]
          BY <1>3, <1>5, <1>8, <2>4, <3>2, Types DEF Slots
        <4>2. Owned(i) /\ (timer[i].inUse => timer[i].owner \in Clients)
          BY <4>1 DEF SlotsOK
        <4>3. timer[i].owner \in Clients => timer[i].owner # d
          BY <3>2, <4>2 DEF Owned, j
        <4> QED
          BY <1>7, <4>1, <4>2, <4>3 DEF Owned
      <3> QED
        BY <3>1, <3>2
    <2>5. ASSUME NEW i \in pending' PROVE i < numTimers' \/ timer'[i].owner = NoOwner
      <3>1. i \in pending /\ i \in Slots /\ i \in Nat
        BY <1>1 DEF TypeOK, Slots
      <3>2. i < numTimers \/ timer[i].owner = NoOwner
        BY <3>1 DEF SlotsOK
      <3>3. CASE i < numTimers
        BY <1>3, <1>6, <1>8, <3>1, <3>3
      <3>4. CASE timer[i].owner = NoOwner
        BY <1>5, <1>6, <3>1, <3>4
      <3> QED
        BY <3>2, <3>3, <3>4
    <2>6. ASSUME NEW e \in Devices, handle'[e] # NoSlot
          PROVE  handle'[e] < numTimers' /\ timer'[handle'[e]].inUse /\ timer'[handle'[e]].owner = e
      <3>1. e # d
        BY <1>7, <2>6
      <3>2. handle'[e] = handle[e]
        BY <1>7, <3>1, ClientKinds
      <3>3. /\ handle[e] \in 2..(numTimers - 1) /\ handle[e] \in Slots
            /\ timer[handle[e]].inUse /\ timer[handle[e]].owner = e
        BY <2>6, <3>2, DeviceSlot
      <3>4. handle[e] # j
        BY <1>2, <3>1, <3>3
      <3> QED
        BY <1>3, <1>5, <1>8, <3>2, <3>3, <3>4
    <2>7. DeviceHandlesOwned'
      BY <2>6 DEF DeviceHandlesOwned
    <2>8. /\ timer'[0].active /\ timer'[0].continuous /\ timer'[0].owner = Null
          /\ timer'[0].period = NullInterval
          /\ timer'[1].inUse /\ timer'[1].owner = ApicTimers[1]
          /\ timer'[1].active => apicActive'[ApicTimers[1]]
      BY <1>1, <2>1 DEF SlotsOK
    <2>9. 2 <= numTimers'
      BY <1>8
    <2>10. \A i \in 1..(numTimers' - 1) : i \in Slots /\ 1 <= i /\ i < numTimers'
      <3>1. numTimers' \in Nat /\ numTimers' <= MaxTimers
        BY <1>8
      <3> QED
        BY <3>1, InList, Zenon
    <2> QED
      BY <2>2, <2>3, <2>4, <2>5, <2>7, <2>8, <2>9, <2>10 DEF SlotsOK
  <1>11. ClockOK'
    <2>1. ASSUME NEW i \in 0..(numTimers' - 1), timer'[i].active
          PROVE  \/ timer'[i].timeToFire >= ticksTotal + currCountdownPeriod
                 \/ phase = "init" /\ i = 1
      <3>1. i # j /\ i \in 0..(numTimers - 1)
        BY <1>6, <1>8, <2>1
      <3>2. timer'[i] = timer[i]
        BY <1>5, <3>1, Types
      <3> QED
        BY <1>1, <2>1, <3>1, <3>2 DEF ClockOK
    <2>2. timer'[0].timeToFire <= ticksTotal + NullInterval
      BY <1>1, <1>2, <1>5 DEF ClockOK
    <2>3. phase = "init" => Idle' /\ ticksTotal' = 0 /\ currCountdown' = currCountdownPeriod'
      BY <1>1 DEF ClockOK, Idle
    <2> QED
      BY <1>1, <2>1, <2>2, <2>3 DEF ClockOK
  <1>12. NoSlotLeak'
    <2>1. Cardinality(Devices) \in Nat
      BY FS_CardinalityType, ConstantsAssumption
    <2> QED
      BY <1>1, <1>3, <1>8, <2>1 DEF NoSlotLeak
  <1> QED
    BY <1>9, <1>10, <1>11, <1>12

\* A slot that is triggered is stopped, or due again after its period.
Refires(i, now) ==
    /\ timer'[i].inUse = timer[i].inUse
    /\ timer'[i].owner = timer[i].owner
    /\ timer'[i].period = timer[i].period
    /\ timer'[i].continuous = timer[i].continuous
    /\ timer'[i].active => timer[i].continuous
    /\ timer[i].continuous => /\ timer'[i].active = timer[i].active
                              /\ timer'[i].timeToFire = now + timer[i].period

\* What countdownEvent does at the time now.
EventAt(now) ==
    /\ ticksTotal' = now
    /\ pending' = {i \in 0..(numTimers - 1) : timer[i].active /\ timer[i].timeToFire = now}
    /\ timer' \in [Slots -> Timers]
    /\ \A i \in Slots : i \notin pending' => timer'[i] = timer[i]
    /\ \A i \in pending' : Refires(i, now)
    /\ currCountdown' \in 1..NullInterval
    /\ currCountdownPeriod' = currCountdown'
    /\ timer'[0].timeToFire <= now + NullInterval
    /\ \A i \in 0..(numTimers - 1) :
          timer'[i].active => timer'[i].timeToFire >= now + currCountdown'

\* countdownEvent: the slots due at the end of the countdown are triggered, and
\* the next countdown is positive, fits 32 bits and ends with the earliest timer.
LEMMA EventFires ==
  ASSUME Steady, ~aborted, phase = "run", countdownEvent
  PROVE  EventAt(ticksTotal + currCountdownPeriod)
  <1> USE Sizes DEF Steady
  <1> DEFINE now == ticksTotal + currCountdownPeriod
             Listed == 0..(numTimers - 1)
             triggered == {i \in Listed : timer[i].active /\ timer[i].timeToFire = now}
             fired == [i \in Slots |->
                         IF i \notin triggered THEN timer[i]
                         ELSE IF timer[i].continuous
                         THEN [timer[i] EXCEPT !.timeToFire = @ + timer[i].period]
                         ELSE [timer[i] EXCEPT !.active = FALSE]]
             times == {fired[i].timeToFire : i \in {j \in Listed : fired[j].active}}
  <1>1. /\ ticksTotal' = now
        /\ timer' = fired
        /\ pending' = triggered
        /\ currCountdown' = Bit32u(Min(times) - now)
        /\ currCountdownPeriod' = Bit32u(Min(times) - now)
    BY Zenon DEF countdownEvent
  <1>2. /\ timer \in [Slots -> Timers] /\ now \in Nat /\ 0 \in Listed
        /\ \A i \in Listed : i \in Slots
        /\ \A i \in Slots : /\ timer[i].period \in Nat /\ timer[i].timeToFire \in Nat
                            /\ timer[i].active \in BOOLEAN
    BY Types
  <1>3. \A i \in Slots : i \notin triggered => fired[i] = timer[i]
    OBVIOUS
  <1>4. ASSUME NEW i \in triggered
        PROVE  /\ i \in Slots /\ timer[i] \in Timers /\ timer[i].active /\ timer[i].timeToFire = now
               /\ fired[i] = IF timer[i].continuous
                             THEN [timer[i] EXCEPT !.timeToFire = now + timer[i].period]
                             ELSE [timer[i] EXCEPT !.active = FALSE]
    BY <1>2
  <1> HIDE DEF now, Listed, triggered, fired
  <1>5. ASSUME NEW i \in triggered
        PROVE  /\ fired[i] \in Timers
               /\ fired[i].inUse = timer[i].inUse /\ fired[i].owner = timer[i].owner
               /\ fired[i].period = timer[i].period /\ fired[i].continuous = timer[i].continuous
               /\ fired[i].active => timer[i].continuous
               /\ timer[i].continuous => /\ fired[i].active = timer[i].active
                                         /\ fired[i].timeToFire = now + timer[i].period
    <2>1. CASE timer[i].continuous
      <3>1. fired[i] = [timer[i] EXCEPT !.timeToFire = now + timer[i].period]
            /\ timer[i] \in Timers
        BY <1>4, <2>1
      <3>2. now + timer[i].period \in Nat
        <4>1. timer[i].period \in Nat
          BY <1>2, <1>4, Zenon
        <4> QED
          BY <1>2, <4>1
      <3> QED
        BY <2>1, <3>1, <3>2 DEF Timers
    <2>2. CASE ~timer[i].continuous
      <3>1. fired[i] = [timer[i] EXCEPT !.active = FALSE] /\ timer[i] \in Timers
        BY <1>4, <2>2
      <3> QED
        BY <2>2, <3>1 DEF Timers
    <2> QED
      BY <2>1, <2>2
  <1>6. fired \in [Slots -> Timers]
    <2>1. \A i \in Slots : fired[i] \in Timers
      BY <1>2, <1>3, <1>5
    <2>2. DOMAIN fired = Slots /\ fired = [i \in DOMAIN fired |-> fired[i]]
      BY DEF fired
    <2> QED
      BY <2>1, <2>2
  <1>7. ASSUME NEW i \in Listed, fired[i].active
        PROVE  fired[i].timeToFire \in Nat /\ fired[i].timeToFire > now
    <2>1. i \in Slots
      BY <1>2
    <2>2. CASE i \in triggered
      <3>1. timer[i].period >= 1 /\ timer[i].period \in Nat
        BY <1>2, <1>4, <2>1, <2>2 DEF SlotsOK
      <3> QED
        BY <1>2, <1>5, <1>7, <2>2, <3>1
    <2>3. CASE i \notin triggered
      <3>1. fired[i] = timer[i] /\ timer[i].timeToFire \in Nat
        BY <1>2, <1>3, <2>1, <2>3
      <3>2. timer[i].active /\ timer[i].timeToFire # now
        BY <1>7, <2>3, <3>1 DEF triggered
      <3>3. timer[i].timeToFire >= now
        BY <3>2 DEF ClockOK, Listed, now
      <3> QED
        BY <1>2, <3>1, <3>2, <3>3
    <2> QED
      BY <2>2, <2>3
  <1>8. fired[0].active /\ fired[0].timeToFire <= now + NullInterval
    <2>1. CASE 0 \in triggered
      <3>1. timer[0].continuous /\ timer[0].active /\ timer[0].period = NullInterval
        BY DEF SlotsOK
      <3> QED
        BY <1>2, <1>5, <2>1, <3>1
    <2>2. CASE 0 \notin triggered
      <3>1. fired[0] = timer[0]
        BY <1>3, <2>2
      <3>2. timer[0].active /\ timer[0].timeToFire <= ticksTotal + NullInterval
        BY DEF SlotsOK, ClockOK
      <3>3. ticksTotal <= now /\ ticksTotal \in Nat
        BY Types DEF now
      <3> QED
        BY <1>2, <3>1, <3>2, <3>3
    <2> QED
      BY <2>1, <2>2
  <1>9. /\ Min(times) \in Nat /\ Min(times) > now /\ Min(times) <= fired[0].timeToFire
        /\ \A i \in Listed : fired[i].active => fired[i].timeToFire >= Min(times)
    <2>1. times \in SUBSET Nat /\ \A x \in times : x > now
      BY <1>7
    <2>2. \A i \in Listed : fired[i].active => fired[i].timeToFire \in times
      OBVIOUS
    <2>3. fired[0].timeToFire \in times
      BY <1>2, <1>8, <2>2
    <2> HIDE DEF times
    <2>4. Min(times) \in times /\ \A x \in times : Min(times) <= x
      BY <2>1, <2>3, MinOf
    <2> QED
      BY <2>1, <2>2, <2>3, <2>4
  <1> HIDE DEF times
  <1>10. Min(times) - now \in 1..NullInterval
    <2>1. fired[0].timeToFire \in Nat
      BY <1>7, <1>8, <1>2
    <2> QED
      BY <1>2, <1>8, <1>9, <2>1
  <1>11. currCountdown' = Min(times) - now /\ currCountdownPeriod' = Min(times) - now
    BY <1>1, <1>10, Fits
  <1>12. \A i \in Listed : timer'[i].active => timer'[i].timeToFire >= now + currCountdown'
    <2>1. now + currCountdown' = Min(times)
      BY <1>2, <1>9, <1>11
    <2> QED
      BY <1>1, <1>9, <2>1
  <1>13. \A i \in pending' : Refires(i, now)
    BY <1>1, <1>5 DEF Refires
  <1>14. EventAt(now)
    BY <1>1, <1>3, <1>6, <1>8, <1>10, <1>11, <1>12, <1>13 DEF EventAt, Listed, triggered
  <1> QED
    BY <1>14 DEF now

\* What the clock leaves alone.
TickKeeps ==
    /\ UNCHANGED <<numTimers, calling, handle, apicActive, phase, session, aborted>>
    /\ left' \in Nat

\* The types, after a tick.
LEMMA TickTypes ==
  ASSUME TypeOK, TickKeeps, timer' \in [Slots -> Timers], pending' \subseteq Slots,
         ticksTotal' \in Nat, currCountdown' \in Nat, currCountdownPeriod' \in Nat
  PROVE  TypeOK'
  <1>1. {ticksTotal', currCountdown', currCountdownPeriod', left'} \subseteq Nat
    BY DEF TickKeeps
  <1> QED
    BY <1>1 DEF TypeOK, TickKeeps, Timers

\* countdownEvent keeps the invariant.
LEMMA EventInv ==
  ASSUME Steady, ~aborted, phase = "run", countdownEvent, TickKeeps
  PROVE  Steady'
  <1> USE Sizes DEF Steady
  <1> DEFINE now == ticksTotal + currCountdownPeriod
  <1>1. EventAt(now)
    BY EventFires
  <1>4. now \in Nat /\ timer \in [Slots -> Timers] /\ numTimers \in Nat
    BY Types
  <1>5. pending' \subseteq Slots /\ \A i \in pending' : i < numTimers /\ timer[i].active
    <2> HIDE DEF now
    <2>1. pending' = {i \in 0..(numTimers - 1) : timer[i].active /\ timer[i].timeToFire = now}
      BY <1>1, Zenon DEF EventAt
    <2>2. \A i \in 0..(numTimers - 1) : i \in Slots /\ i < numTimers
      BY <1>4, Types
    <2> QED
      BY <2>1, <2>2, Zenon
  <1> HIDE DEF now
  <1>6. TypeOK'
    <2>1. currCountdown' \in Nat /\ currCountdownPeriod' \in Nat /\ ticksTotal' \in Nat
      BY <1>1, <1>4 DEF EventAt
    <2> QED
      BY <1>1, <1>5, <2>1, TickTypes DEF EventAt
  <1>7. SlotsOK'
    <2>1. ASSUME NEW i \in Slots
          PROVE  /\ timer'[i].inUse = timer[i].inUse /\ timer'[i].owner = timer[i].owner
                 /\ timer'[i].active => timer'[i].period >= 1
                 /\ timer'[i].active => timer[i].active
      <3>1. CASE i \in pending'
        BY <1>1, <1>5, <3>1 DEF SlotsOK, EventAt, Refires
      <3>2. CASE i \notin pending'
        BY <1>1, <3>2 DEF SlotsOK, EventAt
      <3> QED
        BY <3>1, <3>2
    <2>2. timer'[0].active /\ timer'[0].continuous /\ timer'[0].period = NullInterval
      <3>1. CASE 0 \in pending'
        BY <1>1, <3>1 DEF SlotsOK, EventAt, Refires
      <3>2. CASE 0 \notin pending'
        BY <1>1, <3>2 DEF SlotsOK, EventAt
      <3> QED
        BY <3>1, <3>2
    <2>3. timer'[1].active => apicActive'[ApicTimers[1]]
      BY <2>1 DEF SlotsOK, TickKeeps
    <2> QED
      BY <1>5, <2>1, <2>2, <2>3, SlotsKept DEF TickKeeps
  <1>8. ClockOK'
    <2>1. /\ 0 < currCountdown' /\ currCountdown' <= currCountdownPeriod'
          /\ currCountdownPeriod' <= NullInterval
          /\ timer'[0].timeToFire <= ticksTotal' + NullInterval
      BY <1>1 DEF EventAt
    <2>2. \A i \in 0..(numTimers - 1) :
             timer'[i].active => timer'[i].timeToFire >= ticksTotal' + currCountdownPeriod'
      BY <1>1 DEF EventAt
    <2>3. phase' = "run" /\ numTimers' = numTimers
      BY DEF TickKeeps
    <2> QED
      BY <2>1, <2>2, <2>3 DEF ClockOK
  <1>9. NoSlotLeak'
    BY DEF NoSlotLeak, TickKeeps
  <1> QED
    BY <1>6, <1>7, <1>8, <1>9

\* The countdown runs, and does not reach 0.
LEMMA RunsInv ==
  ASSUME Steady, ~aborted, phase = "run", TickKeeps,
         UNCHANGED <<timer, pending, ticksTotal, currCountdownPeriod>>,
         currCountdown' \in Nat, 0 < currCountdown', currCountdown' <= currCountdown
  PROVE  Steady'
  <1> USE DEF Steady
  <1>1. TypeOK'
    <2>1. timer' \in [Slots -> Timers] /\ ticksTotal' \in Nat /\ currCountdownPeriod' \in Nat
      BY Types
    <2>2. pending' \subseteq Slots
      BY DEF TypeOK
    <2> QED
      BY <2>1, <2>2, TickTypes
  <1>2. SlotsOK'
    <2>1. UNCHANGED <<timer, pending, numTimers, handle, apicActive>>
      BY DEF TickKeeps
    <2> QED
      BY <2>1, Zenon DEF SlotsOK, DeviceHandlesOwned, Owned
  <1>3. ClockOK'
    <2>1. currCountdown' <= currCountdownPeriod
      BY Types DEF ClockOK
    <2> QED
      BY <2>1 DEF ClockOK, TickKeeps
  <1>4. NoSlotLeak'
    BY DEF NoSlotLeak, TickKeeps
  <1> QED
    BY <1>1, <1>2, <1>3, <1>4

\* Every step of the clock keeps the invariant.
LEMMA TickInv ==
  ASSUME Steady, ~aborted,
         \/ tick1
         \/ \E n \in 2..MaxStep : tickn(n)
         \/ tickn_continues
  PROVE  Steady'
  <1>1. /\ currCountdown \in Nat /\ left \in Nat
        /\ phase = "run" => 0 < currCountdown /\ currCountdown <= NullInterval
    <2>1. currCountdown \in Nat /\ left \in Nat /\ currCountdownPeriod \in Nat
      BY Types DEF Steady
    <2>2. ASSUME phase = "run"
          PROVE  /\ 0 < currCountdown /\ currCountdown <= currCountdownPeriod
                 /\ currCountdownPeriod <= NullInterval
      BY <2>2 DEF Steady, ClockOK
    <2> QED
      BY <2>1, <2>2, Sizes
  <1>2. CASE tick1
    <2>1. phase = "run" /\ TickKeeps
      BY <1>1, <1>2 DEF tick1, TickKeeps, clients, life
    <2>2. Bit32u(currCountdown - 1) = currCountdown - 1
      <3>1. currCountdown - 1 \in 0..NullInterval
        BY <1>1, <2>1, Sizes
      <3> QED
        BY <3>1, Fits
    <2>3. CASE Bit32u(currCountdown - 1) = 0
      BY <1>2, <2>1, <2>3, EventInv DEF tick1
    <2>4. CASE Bit32u(currCountdown - 1) # 0
      <3>1. /\ currCountdown' = currCountdown - 1
            /\ UNCHANGED <<ticksTotal, currCountdownPeriod, timer, pending>>
        BY <1>2, <2>2, <2>4 DEF tick1
      <3>2. currCountdown' \in Nat /\ 0 < currCountdown' /\ currCountdown' <= currCountdown
        BY <1>1, <2>1, <2>2, <2>4, <3>1
      <3> QED
        BY <2>1, <3>1, <3>2, RunsInv
    <2> QED
      BY <2>3, <2>4
  <1>3. ASSUME phase = "run", NEW n \in Nat, n > 0, TickLoop(n) PROVE Steady'
    <2>1. CASE n >= currCountdown
      <3>1. countdownEvent /\ TickKeeps
        BY <1>1, <1>3, <2>1 DEF TickLoop, TickKeeps, clients, life
      <3> QED
        BY <1>3, <3>1, EventInv
    <2>2. CASE ~(n >= currCountdown)
      <3>1. /\ currCountdown' = currCountdown - n /\ TickKeeps
            /\ UNCHANGED <<ticksTotal, currCountdownPeriod, timer, pending>>
        BY <1>3, <2>2 DEF TickLoop, TickKeeps, clients, life
      <3>2. currCountdown' \in Nat /\ 0 < currCountdown' /\ currCountdown' <= currCountdown
        BY <1>1, <1>3, <2>2, <3>1
      <3> QED
        BY <1>3, <3>1, <3>2, RunsInv
    <2> QED
      BY <2>1, <2>2
  <1>4. CASE \E n \in 2..MaxStep : tickn(n)
    <2>1. PICK n \in 2..MaxStep : tickn(n)
      BY <1>4
    <2>2. n \in Nat /\ n > 0
      BY <2>1, ConstantsAssumption
    <2> QED
      BY <1>3, <2>1, <2>2 DEF tickn
  <1>5. CASE tickn_continues
    <2>1. phase = "run" /\ left \in Nat /\ left > 0 /\ TickLoop(left)
      BY <1>1, <1>5 DEF tickn_continues
    <2> QED
      BY <1>3, <2>1, Zenon
  <1> QED
    BY <1>2, <1>4, <1>5

\* The local APIC goes on using the slots its timers were registered in.
LEMMA ApicSlot ==
  ASSUME SlotsOK, NEW c \in Apic
  PROVE  /\ handle[c] \in Slots /\ handle[c] # 0
         /\ handle[c] = 1 <=> c = ApicTimers[1]
  <1>1. PICK k \in 1..Len(ApicTimers) : c = ApicTimers[k]
    BY ClientKinds
  <1>2. handle[c] = k /\ k \in Slots /\ k # 0
    BY <1>1, Sizes DEF SlotsOK, Slots
  <1>3. k = 1 <=> c = ApicTimers[1]
    BY <1>1, ClientKinds, Sizes
  <1> QED
    BY <1>2, <1>3

\* Every call of a device keeps the invariant.
LEMMA DeviceInv ==
  ASSUME Steady, ~aborted, NEW d \in Devices, DeviceCalls(d)
  PROVE  Steady'
  <1>1. ASSUME NEW r \in Requests PROVE r[1] \in Nat /\ r[2] \in BOOLEAN
    BY ConstantsAssumption
  <1>2. CASE \E r \in Requests, active \in BOOLEAN : register_timer_ticks(d, r[1], r[2], active)
    BY <1>1, <1>2, RegisterInv
  <1>3. CASE unregisterTimer(d)
    BY <1>3, UnregisterInv
  <1>4. ASSUME DeviceRuns, handle[d] # NoSlot, NEW n \in Nat, NEW b \in BOOLEAN,
               Activate(handle[d], n, b), UNCHANGED <<numTimers, event, clients, life>>
        PROVE  Steady'
    <2>1. handle[d] \in Slots /\ handle[d] # 0 /\ handle[d] # 1
      BY <1>4, DeviceSlot, Types DEF Steady
    <2>2. /\ phase # "off" /\ CallKeeps /\ numTimers' = numTimers /\ handle' = handle
          /\ apicActive' \in [Apic -> BOOLEAN]
          /\ apicActive[ApicTimers[1]] => apicActive'[ApicTimers[1]]
      BY <1>4 DEF DeviceRuns, CallKeeps, event, clients, life, Steady, TypeOK
    <2> QED
      BY <1>4, <2>1, <2>2, ActivateInv
  <1>5. CASE \E r \in Requests : activate_timer_ticks(d, r[1], r[2])
    <2>1. PICK r \in Requests : activate_timer_ticks(d, r[1], r[2])
      BY <1>5
    <2> QED
      BY <1>1, <1>4, <2>1 DEF activate_timer_ticks
  <1>6. CASE \E r \in Requests : activate_timer_stored(d, r[2])
    <2>1. PICK r \in Requests : activate_timer_stored(d, r[2])
      BY <1>6
    <2>2. handle[d] # NoSlot
      BY <2>1 DEF activate_timer_stored
    <2>3. timer[handle[d]].period \in Nat
      BY <2>2, DeviceSlot, Types DEF Steady
    <2> QED
      BY <1>1, <1>4, <2>1, <2>3 DEF activate_timer_stored
  <1>7. CASE deactivate_timer(d)
    <2>1. /\ phase # "off" /\ CallKeeps /\ numTimers' = numTimers /\ handle' = handle
          /\ UNCHANGED clock /\ apicActive' = apicActive /\ handle[d] # NoSlot
          /\ timer' = [timer EXCEPT ![handle[d]].active = FALSE]
      BY <1>7 DEF deactivate_timer, DeviceRuns, CallKeeps, event, clients, life, Steady, TypeOK
    <2>2. handle[d] \in Slots /\ handle[d] # 0 /\ handle[d] # 1
      BY <2>1, DeviceSlot, Types DEF Steady
    <2>3. timer'[1] = timer[1]
      BY <2>1, <2>2, Sizes, Types DEF Steady
    <2>4. timer'[1].active => apicActive'[ApicTimers[1]]
      BY <2>1, <2>3 DEF Steady, SlotsOK
    <2>5. apicActive' \in [Apic -> BOOLEAN]
      BY <2>1 DEF Steady, TypeOK
    <2> QED
      BY <2>1, <2>2, <2>4, <2>5, StopInv
  <1> QED
    BY <1>2, <1>3, <1>5, <1>6, <1>7 DEF DeviceCalls

\* Every call of the local APIC keeps the invariant, even where its slot has
\* gone to a device.
LEMMA ApicInv ==
  ASSUME Steady, ~aborted, NEW c \in Apic,
         \/ ApicCalls(c)
         \/ ApicHandlerReturns /\ c = timer[calling].owner
  PROVE  Steady'
  <1> DEFINE first == ApicTimers[1]
  <1>1. handle[c] \in Slots /\ handle[c] # 0 /\ (handle[c] = 1 <=> c = first)
    BY ApicSlot DEF Steady
  <1>2. first \in Apic /\ apicActive \in [Apic -> BOOLEAN] /\ calling \in Slots /\ NoSlot \in Slots
    BY ClientKinds, Sizes DEF Steady, TypeOK, NoSlot
  <1>3. /\ phase # "off" /\ CallKeeps /\ numTimers' = numTimers /\ handle' = handle
    <2>1. CASE ApicCalls(c)
      BY <1>2, <2>1 DEF ApicCalls, apic_timer_set, apic_timer_clear, CallKeeps, event, life
    <2>2. CASE ApicHandlerReturns
      <3>1. phase = "run"
        BY <2>2 DEF ApicHandlerReturns, Steady, ClockOK, Idle, TypeOK
      <3> QED
        BY <1>2, <2>2, <3>1 DEF ApicHandlerReturns, CallKeeps, life
    <2> QED
      BY <2>1, <2>2
  <1>4. ASSUME NEW n \in Nat, Activate(handle[c], n, FALSE), apicActive' = [apicActive EXCEPT ![c] = TRUE]
        PROVE  Steady'
    <2>1. /\ apicActive' \in [Apic -> BOOLEAN]
          /\ handle[c] = 1 \/ apicActive[first] => apicActive'[first]
      BY <1>1, <1>2, <1>4
    <2> QED
      BY <1>1, <1>3, <1>4, <2>1, ActivateInv
  <1>5. ASSUME timer' = [timer EXCEPT ![handle[c]].active = FALSE],
               apicActive' = [apicActive EXCEPT ![c] = FALSE], UNCHANGED clock
        PROVE  Steady'
    <2>1. apicActive' \in [Apic -> BOOLEAN]
      BY <1>2, <1>5
    <2>2. timer'[1].active => apicActive'[first]
      <3>1. timer \in [Slots -> Timers] /\ 1 \in Slots
        BY Types, Sizes DEF Steady
      <3>2. CASE c = first
        <4>1. timer'[1] = [timer[1] EXCEPT !.active = FALSE] /\ timer[1] \in Timers
          BY <1>1, <1>5, <3>1, <3>2
        <4> QED
          BY <4>1 DEF Timers
      <3>3. CASE c # first
        <4>1. timer'[1] = timer[1] /\ apicActive'[first] = apicActive[first]
          BY <1>1, <1>2, <1>5, <3>1, <3>3
        <4> QED
          BY <4>1 DEF Steady, SlotsOK
      <3> QED
        BY <3>2, <3>3
    <2> QED
      BY <1>1, <1>3, <1>5, <2>1, <2>2, StopInv
  <1>6. CASE ApicCalls(c)
    <2>1. ASSUME NEW r \in Requests, apic_timer_set(c, r[1]) PROVE Steady'
      <3>1. r[1] \in Nat
        BY ConstantsAssumption
      <3> QED
        BY <1>4, <2>1, <3>1 DEF apic_timer_set
    <2>2. CASE apic_timer_clear(c)
      BY <1>5, <2>2 DEF apic_timer_clear
    <2> QED
      BY <1>6, <2>1, <2>2 DEF ApicCalls
  <1>7. CASE ApicHandlerReturns /\ c = timer[calling].owner
    <2>1. CASE UNCHANGED <<timer, clock, apicActive>>
      BY <1>1, <1>2, <1>3, <2>1, StopInv DEF Steady, SlotsOK
    <2>2. ASSUME apicActive[c], c = first, UNCHANGED apicActive,
                 NEW r \in Requests, Activate(handle[c], r[1], FALSE)
          PROVE  Steady'
      <3>1. r[1] \in Nat
        BY ConstantsAssumption
      <3>2. apicActive' \in [Apic -> BOOLEAN] /\ apicActive'[first]
        BY <1>2, <2>2
      <3> QED
        BY <1>1, <1>3, <2>2, <3>1, <3>2, ActivateInv
    <2> QED
      BY <1>5, <1>7, <2>1, <2>2 DEF ApicHandlerReturns
  <1> QED
    BY <1>6, <1>7

\* Calling a handler, and its return, keep the invariant.
LEMMA HandlerInv ==
  ASSUME Steady, ~aborted, CallHandler \/ HandlerReturns
  PROVE  Steady'
  <1>1. phase = "run"
    BY DEF CallHandler, HandlerReturns, Steady, ClockOK, Idle, TypeOK
  <1>2. calling' \in Slots /\ pending' \subseteq pending
    <2>1. CASE CallHandler
      <3>1. pending \in SUBSET Nat /\ pending # {} /\ pending \subseteq Slots
        BY <2>1 DEF CallHandler, Steady, TypeOK, Slots
      <3>2. Min(pending) \in Slots /\ NoSlot \in Slots
        BY <3>1, MinOf, Sizes DEF NoSlot
      <3> QED
        BY <2>1, <3>2 DEF CallHandler
    <2>2. CASE HandlerReturns
      BY <2>2, Sizes DEF HandlerReturns, NoSlot
    <2> QED
      BY <2>1, <2>2
  <1>3. UNCHANGED <<timer, numTimers, clock, left, handle, apicActive, phase, session, aborted>>
    BY DEF CallHandler, HandlerReturns, clients, life
  <1>4. CallKeeps
    BY <1>1, <1>2, <1>3 DEF CallKeeps
  <1>5. 1 \in Slots /\ apicActive' \in [Apic -> BOOLEAN]
        /\ (timer'[1].active => apicActive'[ApicTimers[1]])
    BY <1>3, Sizes DEF Steady, TypeOK, SlotsOK
  <1> QED
    BY <1>1, <1>3, <1>4, <1>5, StopInv

\* Every step keeps the invariant.
LEMMA NextPc == PcInv /\ [Next]_vars => PcInv'
  <1> SUFFICES ASSUME PcInv, [Next]_vars, ~aborted' PROVE Steady'
    BY DEF PcInv
  <1>1. CASE UNCHANGED vars
    <2>1. UNCHANGED <<timer, numTimers, ticksTotal, currCountdown, currCountdownPeriod, left, pending,
                      calling, phase, handle, apicActive, session, aborted>>
      BY <1>1 DEF vars, clock, event, clients, life
    <2> QED
      BY <2>1, Zenon DEF PcInv, Steady, TypeOK, SlotsOK, ClockOK, NoSlotLeak, DeviceHandlesOwned,
                  Owned, Idle
  <1>2. CASE Next
    <2>1. ~aborted
      BY <1>2
      DEF Next, initialize, Reset, exit, init_panics, DeviceCalls, ApicCalls, Ticks, life,
          register_timer_ticks, activate_timer_ticks, activate_timer_stored, deactivate_timer,
          unregisterTimer, apic_timer_set, apic_timer_clear, tick1, tickn, tickn_continues,
          TickLoop, CallHandler, HandlerReturns, ApicHandlerReturns
    <2>2. Steady /\ ~init_panics
      BY <2>1 DEF PcInv, init_panics
    <2>3. ApicHandlerReturns => timer[calling].owner \in Apic
      BY DEF ApicHandlerReturns
    <2> QED
      BY <1>2, <2>1, <2>2, <2>3, InitializeInv, ResetInv, ExitInv, DeviceInv, ApicInv, TickInv,
         HandlerInv
      DEF Next, Ticks
  <1> QED
    BY <1>1, <1>2

\* The invariant holds in every reachable state.
THEOREM Invariant == Spec => []PcInv
  BY InitPc, NextPc, PTL DEF Spec

\* As long as no start has panicked, no timer is due before the countdown ends
\* and the countdown is never 0, for any table of slots and any clients.
THEOREM Countdown == Spec => [](~aborted => CountdownInv)
  <1>1. PcInv => (~aborted => CountdownInv)
    BY DEF PcInv, Steady, ClockOK, CountdownInv, NoTimerSkipped, CountdownPositive
  <1> QED
    BY <1>1, Invariant, PTL

\* As long as no start has panicked, the table does not grow beyond what the
\* clients need (register_timer_ticks, unregisterTimer, exit).
THEOREM No_slot_leak == Spec => []NoSlotLeak
  <1>1. PcInv => NoSlotLeak
    BY DEF PcInv, Steady, NoSlotLeak
  <1> QED
    BY <1>1, Invariant, PTL

\* countdownEvent calls the handler of a client that lives and whose slot it is.
THEOREM Handlers == Spec => HandlersAreAlive
  <1>1. ASSUME PcInv, [Next]_vars, calling = NoSlot, calling' # NoSlot, ~aborted
        PROVE  handle[timer[calling'].owner] = calling'
    <2>1. CallHandler
      BY <1>1
      DEF Next, vars, initialize, Reset, exit, init_panics, DeviceCalls, ApicCalls, Ticks, event,
          register_timer_ticks, activate_timer_ticks, activate_timer_stored, deactivate_timer,
          unregisterTimer, apic_timer_set, apic_timer_clear, tick1, tickn, tickn_continues,
          TickLoop, HandlerReturns, ApicHandlerReturns
    <2>2. Steady
      BY <1>1 DEF PcInv
    <2>3. pending \in SUBSET Nat /\ pending # {}
      BY <2>1, <2>2 DEF CallHandler, Steady, TypeOK, Slots
    <2>4. /\ calling' = Min(pending) /\ calling' \in pending /\ timer[calling'].owner \in Clients
          /\ calling' \in Nat
      BY <1>1, <2>1, <2>3, MinOf DEF CallHandler
    <2>5. calling' < numTimers /\ calling' # 0 /\ numTimers \in Nat
      BY <1>1, <2>2, <2>4, ClientKinds, Types DEF Steady, SlotsOK, NoSlot
    <2>6. calling' \in 1..(numTimers - 1)
      BY <2>4, <2>5
    <2> QED
      BY <2>2, <2>4, <2>6 DEF Steady, SlotsOK, Owned
  <1>2. PcInv /\ [Next]_vars =>
           [calling = NoSlot /\ calling' # NoSlot /\ ~aborted
              => handle[timer[calling'].owner] = calling']_vars
    BY <1>1
  <1> QED
    BY <1>2, Invariant, PTL DEF Spec, HandlersAreAlive

-----------------------------------------------------------------------------
(* The slots of the devices, also after a start that panicked.             *)

\* The fields of a slot.  After a panic no more is known of its numbers: the
\* next countdown may be set from a timer that initialize did not look at.
Fields == {"inUse", "period", "timeToFire", "active", "continuous", "owner"}
IsSlot(x) == x = [f \in Fields |-> x[f]]

\* What the indexes of the devices rest on.
Named ==
    /\ timer = [i \in Slots |-> timer[i]]
    /\ \A i \in Slots : IsSlot(timer[i])
    /\ numTimers \in 1..MaxTimers
    /\ handle \in [Clients -> Slots]
    /\ DeviceHandlesOwned

\* An active flag, and the time a timer is set for, do not change whose slot
\* it is.
LEMMA SlotKept ==
  ASSUME NEW x, IsSlot(x), NEW v
  PROVE  /\ IsSlot([x EXCEPT !.active = v]) /\ IsSlot([x EXCEPT !.timeToFire = v])
         /\ [x EXCEPT !.active = v].inUse = x.inUse /\ [x EXCEPT !.active = v].owner = x.owner
         /\ [x EXCEPT !.timeToFire = v].inUse = x.inUse
         /\ [x EXCEPT !.timeToFire = v].owner = x.owner
  <1>1. IsSlot([x EXCEPT !.active = v]) /\ IsSlot([x EXCEPT !.timeToFire = v])
    BY DEF IsSlot, Fields
  <1>2. [x EXCEPT !.active = v].inUse = x.inUse /\ [x EXCEPT !.active = v].owner = x.owner
    BY DEF IsSlot, Fields
  <1>3. [x EXCEPT !.timeToFire = v].inUse = x.inUse /\ [x EXCEPT !.timeToFire = v].owner = x.owner
    BY DEF IsSlot, Fields
  <1> QED
    BY <1>1, <1>2, <1>3

\* A step that leaves all slots to their owners keeps Named, and so does the
\* end of a session.
LEMMA NamedKept ==
  ASSUME Named, numTimers' \in 1..MaxTimers,
         timer' = [i \in Slots |-> timer'[i]],
         \A i \in Slots : /\ IsSlot(timer'[i]) /\ timer'[i].inUse = timer[i].inUse
                          /\ timer'[i].owner = timer[i].owner,
         \/ handle' = handle /\ numTimers' = numTimers
         \/ handle' = [c \in Clients |-> IF c \in Devices THEN NoSlot ELSE handle[c]]
  PROVE  Named'
  <1>1. handle' \in [Clients -> Slots]
    BY Sizes DEF Named, NoSlot
  <1>2. DeviceHandlesOwned'
    <2> SUFFICES ASSUME NEW d \in Devices, handle'[d] # NoSlot
                 PROVE  /\ handle'[d] < numTimers'
                        /\ timer'[handle'[d]].inUse /\ timer'[handle'[d]].owner = d
      BY DEF DeviceHandlesOwned
    <2>1. d \in Clients
      BY ClientKinds
    <2>2. handle' = handle /\ numTimers' = numTimers
      BY <2>1
    <2>3. handle[d] \in Slots
      BY <2>1 DEF Named
    <2> QED
      BY <2>2, <2>3 DEF Named, DeviceHandlesOwned
  <1> QED
    BY <1>1, <1>2 DEF Named

\* A step that changes the numbers of one slot.
LEMMA NamedSet ==
  ASSUME Named, NEW i \in Slots, NEW x, timer' = [timer EXCEPT ![i] = x],
         IsSlot(x), x.inUse = timer[i].inUse, x.owner = timer[i].owner,
         handle' = handle, numTimers' = numTimers
  PROVE  Named'
  <1>1. /\ timer' = [j \in Slots |-> timer'[j]]
        /\ timer'[i] = x /\ \A j \in Slots : j # i => timer'[j] = timer[j]
    BY DEF Named
  <1>2. numTimers' \in 1..MaxTimers
    BY DEF Named
  <1>3. \A j \in Slots : /\ IsSlot(timer'[j]) /\ timer'[j].inUse = timer[j].inUse
                         /\ timer'[j].owner = timer[j].owner
    BY <1>1 DEF Named
  <1> QED
    BY <1>1, <1>2, <1>3, NamedKept

\* Setting a timer of any client.
LEMMA NamedActivate ==
  ASSUME Named, NEW c \in Clients, NEW n, NEW b, Activate(handle[c], n, b),
         handle' = handle, numTimers' = numTimers
  PROVE  Named'
  <1> DEFINE i == handle[c]
             p == AtLeastMin(n)
             f == time_ticks + p
             x == [timer[i] EXCEPT !.period = p, !.timeToFire = f, !.active = TRUE,
                                   !.continuous = b]
  <1>1. i \in Slots /\ IsSlot(timer[i])
    BY DEF Named
  <1>2. timer' = [timer EXCEPT ![i] = x]
    BY <1>1 DEF Activate, Named
  <1> HIDE DEF i, p, f
  <1>3. IsSlot(x) /\ x.inUse = timer[i].inUse /\ x.owner = timer[i].owner
    <2> DEFINE t == timer[i]
    <2>1. IsSlot(t) /\ x = [t EXCEPT !.period = p, !.timeToFire = f, !.active = TRUE, !.continuous = b]
      BY <1>1
    <2> HIDE DEF t, x
    <2>2. IsSlot(x)
      BY <2>1 DEF IsSlot, Fields
    <2>3. x.inUse = t.inUse /\ x.owner = t.owner
      BY <2>1 DEF IsSlot, Fields
    <2> QED
      BY <2>2, <2>3 DEF t
  <1> HIDE DEF x
  <1> QED
    BY <1>1, <1>2, <1>3, NamedSet

\* Stopping one.
LEMMA NamedStop ==
  ASSUME Named, NEW c \in Clients, timer' = [timer EXCEPT ![handle[c]].active = FALSE],
         handle' = handle, numTimers' = numTimers
  PROVE  Named'
  <1> DEFINE i == handle[c]
             x == [timer[i] EXCEPT !.active = FALSE]
  <1>1. i \in Slots /\ IsSlot(timer[i])
    BY DEF Named
  <1>2. IsSlot(x) /\ x.inUse = timer[i].inUse /\ x.owner = timer[i].owner
    BY <1>1, SlotKept
  <1>3. timer' = [timer EXCEPT ![i] = x]
    BY <1>1 DEF Named
  <1> HIDE DEF i, x
  <1> QED
    BY <1>1, <1>2, <1>3, NamedSet

\* A device is given a slot that no other device has.
LEMMA NamedRegister ==
  ASSUME Named, NEW d \in Devices, NEW n, NEW b, NEW a, register_timer_ticks(d, n, b, a)
  PROVE  Named'
  <1> DEFINE F == FreeSlot
             x == [inUse |-> TRUE, period |-> AtLeastMin(n), timeToFire |-> time_ticks + AtLeastMin(n),
                   active |-> a, continuous |-> b, owner |-> d]
  <1>1. /\ handle[d] = NoSlot /\ numTimers < MaxTimers
        /\ timer' = [timer EXCEPT ![F] = x]
        /\ handle' = [handle EXCEPT ![d] = F]
        /\ numTimers' = IF F = numTimers THEN numTimers + 1 ELSE numTimers
    BY DEF register_timer_ticks
  <1>2. IsSlot(x) /\ x.inUse /\ x.owner = d
    BY DEF IsSlot, Fields
  <1>3. numTimers \in Nat /\ numTimers >= 1
    BY Sizes DEF Named
  <1>4. F \in 1..numTimers /\ (F = numTimers \/ ~timer[F].inUse)
    BY <1>3, FreeSlotFound
  <1> HIDE DEF F, x
  <1>5. F \in Slots /\ F < numTimers' /\ numTimers <= numTimers' /\ numTimers' \in 1..MaxTimers
    BY <1>1, <1>3, <1>4, Sizes DEF Slots
  <1>6. /\ timer' = [j \in Slots |-> timer'[j]]
        /\ timer'[F] = x /\ \A j \in Slots : j # F => timer'[j] = timer[j]
    BY <1>1, <1>5 DEF Named
  <1>7. /\ handle' \in [Clients -> Slots] /\ handle'[d] = F
        /\ \A e \in Devices : e # d => handle'[e] = handle[e]
    BY <1>1, <1>5, ClientKinds DEF Named
  <1>8. ASSUME NEW e \in Devices, e # d, handle[e] # NoSlot
        PROVE  /\ handle[e] \in Slots /\ handle[e] # F /\ handle[e] < numTimers'
               /\ timer[handle[e]].inUse /\ timer[handle[e]].owner = e
    <2>1. /\ handle[e] \in Slots /\ handle[e] < numTimers
          /\ timer[handle[e]].inUse /\ timer[handle[e]].owner = e
      BY <1>8, ClientKinds DEF Named, DeviceHandlesOwned
    <2>2. handle[e] # F
      BY <1>3, <1>4, <2>1 DEF Slots
    <2> QED
      BY <1>3, <1>5, <2>1, <2>2 DEF Slots
  <1>9. DeviceHandlesOwned'
    BY <1>2, <1>5, <1>6, <1>7, <1>8 DEF DeviceHandlesOwned
  <1>10. \A j \in Slots : IsSlot(timer'[j])
    BY <1>2, <1>6 DEF Named
  <1> QED
    BY <1>5, <1>6, <1>7, <1>9, <1>10 DEF Named

\* A freed slot is no other device's, also when it is the last.
LEMMA NamedUnregister ==
  ASSUME Named, NEW d \in Devices, unregisterTimer(d)
  PROVE  Named'
  <1> DEFINE i == handle[d]
             x == [inUse |-> FALSE, period |-> NullInterval, timeToFire |-> NullInterval,
                   active |-> FALSE, continuous |-> FALSE, owner |-> NoOwner]
  <1>1. /\ i # NoSlot /\ timer' = [timer EXCEPT ![i] = x]
        /\ numTimers' = IF i = numTimers - 1 THEN numTimers - 1 ELSE numTimers
        /\ handle' = [handle EXCEPT ![d] = NoSlot]
    BY DEF unregisterTimer
  <1>2. i \in Slots /\ i < numTimers /\ timer[i].owner = d /\ numTimers \in Nat
        /\ numTimers <= MaxTimers
    BY <1>1, ClientKinds, Sizes DEF Named, DeviceHandlesOwned
  <1>3. IsSlot(x)
    BY DEF IsSlot, Fields
  <1> HIDE DEF i, x
  <1>4. /\ numTimers' \in 1..MaxTimers
        /\ \A j \in Slots : j < numTimers /\ j # i => j < numTimers'
    BY <1>1, <1>2, Sizes DEF Slots, NoSlot
  <1>5. /\ timer' = [j \in Slots |-> timer'[j]]
        /\ timer'[i] = x /\ \A j \in Slots : j # i => timer'[j] = timer[j]
    BY <1>1, <1>2 DEF Named
  <1>6. /\ handle' \in [Clients -> Slots] /\ handle'[d] = NoSlot
        /\ \A e \in Devices : e # d => handle'[e] = handle[e]
    BY <1>1, Sizes, ClientKinds DEF Named, NoSlot
  <1>7. ASSUME NEW e \in Devices, e # d, handle[e] # NoSlot
        PROVE  /\ handle[e] \in Slots /\ handle[e] # i /\ handle[e] < numTimers'
               /\ timer[handle[e]].inUse /\ timer[handle[e]].owner = e
    <2>1. /\ handle[e] \in Slots /\ handle[e] < numTimers
          /\ timer[handle[e]].inUse /\ timer[handle[e]].owner = e
      BY <1>7, ClientKinds DEF Named, DeviceHandlesOwned
    <2> QED
      BY <1>2, <1>4, <1>7, <2>1
  <1>8. DeviceHandlesOwned'
    BY <1>5, <1>6, <1>7 DEF DeviceHandlesOwned
  <1>9. \A j \in Slots : IsSlot(timer'[j])
    BY <1>3, <1>5 DEF Named
  <1> QED
    BY <1>4, <1>5, <1>6, <1>8, <1>9 DEF Named

\* An event changes when slots are due and whether they are active.
LEMMA NamedEvent ==
  ASSUME Named, countdownEvent, handle' = handle, numTimers' = numTimers
  PROVE  Named'
  <1> DEFINE now == ticksTotal + currCountdownPeriod
             triggered == {i \in 0..(numTimers - 1) : timer[i].active /\ timer[i].timeToFire = now}
             f(i) == IF i \notin triggered THEN timer[i]
                     ELSE IF timer[i].continuous
                     THEN [timer[i] EXCEPT !.timeToFire = @ + timer[i].period]
                     ELSE [timer[i] EXCEPT !.active = FALSE]
  <1>1. timer' = [i \in Slots |-> f(i)]
    BY DEF countdownEvent
  <1>2. ASSUME NEW i \in Slots
        PROVE  IsSlot(f(i)) /\ f(i).inUse = timer[i].inUse /\ f(i).owner = timer[i].owner
    <2>1. IsSlot(timer[i])
      BY DEF Named
    <2> HIDE DEF triggered
    <2> QED
      BY <2>1, SlotKept
  <1> HIDE DEF f
  <1>3. timer' = [i \in Slots |-> timer'[i]] /\ \A i \in Slots : timer'[i] = f(i)
    BY <1>1
  <1>4. numTimers' \in 1..MaxTimers
    BY DEF Named
  <1> QED
    BY <1>2, <1>3, <1>4, NamedKept

\* Every step keeps the devices' slots theirs.
LEMMA NamedNext == Named /\ [Next]_vars => Named'
  <1> SUFFICES ASSUME Named, [Next]_vars PROVE Named'
    OBVIOUS
  <1>1. CASE timer' = timer /\ handle' = handle /\ numTimers' = numTimers
    BY <1>1, Zenon DEF Named, DeviceHandlesOwned
  <1>2. CASE initialize
    <2> DEFINE x == [timer[0] EXCEPT !.timeToFire = NullInterval]
    <2>1. timer' = [timer EXCEPT ![0] = x] /\ handle' = handle /\ numTimers' = numTimers
      BY <1>2 DEF initialize, clients, Named
    <2>2. IsSlot(timer[0]) /\ 0 \in Slots
      BY Sizes DEF Named
    <2>3. IsSlot(x) /\ x.inUse = timer[0].inUse /\ x.owner = timer[0].owner
      BY <2>2, SlotKept
    <2> HIDE DEF x
    <2> QED
      BY <2>1, <2>2, <2>3, NamedSet
  <1>3. CASE Reset
    <2> DEFINE f(i) == IF \E c \in Apic : apicActive[c] /\ handle[c] = i
                       THEN [timer[i] EXCEPT !.active = FALSE] ELSE timer[i]
    <2>1. timer' = [i \in Slots |-> f(i)] /\ handle' = handle /\ numTimers' = numTimers
      BY <1>3 DEF Reset
    <2>2. \A i \in Slots : IsSlot(f(i)) /\ f(i).inUse = timer[i].inUse /\ f(i).owner = timer[i].owner
      BY SlotKept DEF Named
    <2> HIDE DEF f
    <2>3. timer' = [i \in Slots |-> timer'[i]] /\ \A i \in Slots : timer'[i] = f(i)
      BY <2>1
    <2> QED
      BY <2>1, <2>2, <2>3, NamedKept DEF Named
  <1>4. CASE exit \/ init_panics
    <2>1. /\ timer' = timer /\ numTimers' \in 1..MaxTimers
          /\ handle' = [c \in Clients |-> IF c \in Devices THEN NoSlot ELSE handle[c]]
      BY <1>4, Sizes DEF exit, init_panics, KeptTimers, Named
    <2> QED
      BY <2>1, NamedKept DEF Named
  <1>5. CASE \E d \in Devices : DeviceCalls(d)
    <2>1. PICK d \in Devices : DeviceCalls(d)
      BY <1>5
    <2>2. d \in Clients
      BY ClientKinds
    <2>3. ASSUME NEW r \in Requests, NEW a \in BOOLEAN, register_timer_ticks(d, r[1], r[2], a)
          PROVE  Named'
      BY <2>3, NamedRegister
    <2>4. ASSUME NEW r \in Requests, activate_timer_ticks(d, r[1], r[2])
          PROVE  Named'
      BY <2>2, <2>4, NamedActivate DEF activate_timer_ticks, clients
    <2>5. ASSUME NEW r \in Requests, activate_timer_stored(d, r[2])
          PROVE  Named'
      BY <2>2, <2>5, NamedActivate DEF activate_timer_stored, clients
    <2>6. ASSUME deactivate_timer(d) PROVE Named'
      BY <2>2, <2>6, NamedStop DEF deactivate_timer, clients
    <2> QED
      BY <2>1, <2>3, <2>4, <2>5, <2>6, NamedUnregister, Zenon DEF DeviceCalls
  <1>6. CASE \E c \in Apic : ApicCalls(c)
    <2>1. PICK c \in Apic : ApicCalls(c)
      BY <1>6
    <2>2. c \in Clients
      BY ClientKinds
    <2>3. ASSUME NEW r \in Requests, apic_timer_set(c, r[1]) PROVE Named'
      BY <2>2, <2>3, NamedActivate DEF apic_timer_set
    <2>4. ASSUME apic_timer_clear(c) PROVE Named'
      BY <2>2, <2>4, NamedStop DEF apic_timer_clear
    <2> QED
      BY <2>1, <2>3, <2>4, Zenon DEF ApicCalls
  <1>7. CASE ApicHandlerReturns
    <2> DEFINE c == timer[calling].owner
    <2>1. /\ c \in Clients /\ handle' = handle /\ numTimers' = numTimers
          /\ \/ timer' = timer
             \/ timer' = [timer EXCEPT ![handle[c]].active = FALSE]
             \/ \E r \in Requests : Activate(handle[c], r[1], FALSE)
      BY <1>7, ClientKinds DEF ApicHandlerReturns
    <2> HIDE DEF c
    <2> QED
      BY <1>1, <2>1, NamedActivate, NamedStop, Zenon
  <1>8. CASE tick1 \/ (\E n \in 2..MaxStep : tickn(n)) \/ tickn_continues
    <2>1. handle' = handle /\ numTimers' = numTimers /\ (countdownEvent \/ timer' = timer)
      BY <1>8 DEF tick1, tickn, tickn_continues, TickLoop, clients
    <2> QED
      BY <1>1, <2>1, NamedEvent, Zenon
  <1>9. CASE CallHandler \/ HandlerReturns \/ UNCHANGED vars
    <2>1. timer' = timer /\ handle' = handle /\ numTimers' = numTimers
      BY <1>9 DEF CallHandler, HandlerReturns, vars, clients
    <2> QED
      BY <1>1, <2>1
  <1> QED
    BY <1>2, <1>3, <1>4, <1>5, <1>6, <1>7, <1>8, <1>9 DEF Next, Ticks

\* A device's index names a slot in use that is its own, whatever others
\* register and free, in every session and also after a start that panicked
\* (register_timer_ticks, unregisterTimer, bx_pc_system_c::exit).
THEOREM Handles_owned == Spec => []DeviceHandlesOwned
  <1>1. Init => Named
    <2> SUFFICES ASSUME Init PROVE Named
      OBVIOUS
    <2>1. Steady
      BY InitPc DEF PcInv, Init
    <2>2. TypeOK /\ DeviceHandlesOwned
      BY <2>1 DEF Steady, SlotsOK
    <2>3. timer \in [Slots -> Timers] /\ numTimers \in 1..MaxTimers /\ handle \in [Clients -> Slots]
      BY <2>2 DEF TypeOK, Timers
    <2>4. \A i \in Slots : IsSlot(timer[i])
      BY <2>3 DEF Timers, IsSlot, Fields
    <2> QED
      BY <2>2, <2>3, <2>4 DEF Named
  <1>2. Named => DeviceHandlesOwned
    BY DEF Named
  <1> QED
    BY <1>1, <1>2, NamedNext, PTL DEF Spec

-----------------------------------------------------------------------------
(* The framework is a timer service.                                       *)

\* What Service sees of the state.
Now  == IF Counting THEN time_ticks ELSE 0
Due  == [i \in Slots |-> IF Counting /\ i < numTimers /\ timer[i].active
                         THEN timer[i].timeToFire ELSE -1]
Expd == IF Counting THEN pending ELSE {}
Cald == IF Counting /\ calling # NoSlot THEN calling ELSE -1

\* No slot is due now or in the past.
DueAhead ==
    /\ Now \in Nat
    /\ Counting => Now < ticksTotal + currCountdownPeriod
    /\ \A i \in Slots : Due[i] = -1 \/ (Due[i] \in Nat /\ Due[i] > Now)

\* The countdown ends after now, and no timer is due before it ends.
LEMMA DueLater == PcInv => DueAhead
  <1> SUFFICES ASSUME PcInv PROVE DueAhead
    OBVIOUS
  <1>1. CASE Counting
    <2>1. Steady /\ phase = "run"
      BY <1>1 DEF PcInv, Counting
    <2>2. /\ ticksTotal \in Nat /\ currCountdown \in Nat /\ currCountdownPeriod \in Nat
          /\ \A i \in Slots : timer[i].timeToFire \in Nat
          /\ numTimers \in Nat
      BY <2>1, Types DEF Steady
    <2>3. 0 < currCountdown /\ currCountdown <= currCountdownPeriod
      BY <2>1 DEF Steady, ClockOK
    <2>4. time_ticks \in Nat /\ time_ticks < ticksTotal + currCountdownPeriod
      BY <2>2, <2>3 DEF time_ticks
    <2>5. ASSUME NEW i \in Slots, i < numTimers, timer[i].active
          PROVE  timer[i].timeToFire > time_ticks
      <3>1. i \in 0..(numTimers - 1)
        BY <2>2, <2>5, Sizes DEF Slots
      <3>2. timer[i].timeToFire >= ticksTotal + currCountdownPeriod
        BY <2>1, <2>5, <3>1 DEF Steady, ClockOK
      <3> QED
        BY <2>2, <2>4, <3>2
    <2> QED
      BY <1>1, <2>2, <2>4, <2>5 DEF DueAhead, Now, Due
  <1>2. CASE ~Counting
    BY <1>2 DEF DueAhead, Now, Due
  <1> QED
    BY <1>1, <1>2

\* A call that leaves the time, the triggered slots and the handler running as
\* they are, or lets it return, programs slots.
LEMMA CallPrograms ==
  ASSUME PcInv', Counting, Counting', time_ticks' = time_ticks, pending' = pending,
         calling' \in {calling, NoSlot}
  PROVE  Service!Program
  <1>1. DueAhead'
    BY DueLater, PTL
  <1>2. Now' = Now /\ Expd' = Expd /\ Cald' \in {Cald, -1}
    BY DEF Now, Expd, Cald
  <1>3. \A i \in Slots : Due'[i] = -1 \/ Due'[i] > Now
    BY <1>1, <1>2 DEF DueAhead
  <1>4. DOMAIN Due' = Slots
    BY DEF Due
  <1> QED
    BY <1>2, <1>3, <1>4 DEF Service!Program, Now, Expd, Cald, Due

\* Shortening the countdown leaves the time as it is.
LEMMA SameTime ==
  ASSUME Steady, NEW n \in Nat, SkewCountdown(n)
  PROVE  time_ticks' = time_ticks
  <1>1. ticksTotal \in Nat /\ currCountdown \in Nat /\ currCountdownPeriod \in Nat
    BY Types DEF Steady
  <1> QED
    BY <1>1 DEF SkewCountdown, time_ticks, clock

\* Starting a timer does not either.
LEMMA ActivateTime ==
  ASSUME Steady, NEW i, NEW n \in Nat, NEW b, Activate(i, n, b)
  PROVE  time_ticks' = time_ticks
  <1>1. AtLeastMin(n) \in Nat
    BY AtLeastOne
  <1>2. SkewCountdown(AtLeastMin(n))
    BY DEF Activate
  <1> QED
    BY <1>1, <1>2, SameTime

\* The calls of the devices and of the local APIC program slots.
LEMMA ClientsProgram ==
  ASSUME Steady, PcInv', Counting, Counting',
         \/ \E d \in Devices : DeviceCalls(d)
         \/ \E c \in Apic : ApicCalls(c)
         \/ ApicHandlerReturns
  PROVE  Service!Program
  <1>1. \A r \in Requests : r[1] \in Nat /\ r[2] \in BOOLEAN
    BY ConstantsAssumption
  <1>2. ASSUME UNCHANGED clock PROVE time_ticks' = time_ticks
    BY <1>2 DEF clock, time_ticks
  <1>3. ASSUME NEW d \in Devices, DeviceCalls(d)
        PROVE  time_ticks' = time_ticks /\ pending' = pending /\ calling' = calling
    <2>1. ASSUME NEW r \in Requests, NEW active \in BOOLEAN,
                 register_timer_ticks(d, r[1], r[2], active)
          PROVE  time_ticks' = time_ticks /\ pending' = pending /\ calling' = calling
      <3>1. AtLeastMin(r[1]) \in Nat
        BY <1>1, <2>1, AtLeastOne
      <3>2. \/ SkewCountdown(AtLeastMin(r[1]))
            \/ UNCHANGED clock
        BY <2>1 DEF register_timer_ticks
      <3>3. pending' = pending /\ calling' = calling
        BY <2>1 DEF register_timer_ticks, event
      <3> QED
        BY <1>2, <3>1, <3>2, <3>3, SameTime
    <2>2. ASSUME NEW r \in Requests, activate_timer_ticks(d, r[1], r[2])
          PROVE  time_ticks' = time_ticks /\ pending' = pending /\ calling' = calling
      <3>1. Activate(handle[d], r[1], r[2]) /\ r[1] \in Nat
        BY <1>1, <2>2 DEF activate_timer_ticks
      <3>2. time_ticks' = time_ticks
        BY <3>1, ActivateTime
      <3> QED
        BY <2>2, <3>2 DEF activate_timer_ticks, event
    <2>3. ASSUME NEW r \in Requests, activate_timer_stored(d, r[2])
          PROVE  time_ticks' = time_ticks /\ pending' = pending /\ calling' = calling
      <3>1. Activate(handle[d], timer[handle[d]].period, r[2]) /\ handle[d] # NoSlot
        BY <2>3 DEF activate_timer_stored
      <3>2. timer[handle[d]].period \in Nat
        BY <3>1, DeviceSlot, Types DEF Steady
      <3>3. time_ticks' = time_ticks
        BY <3>1, <3>2, ActivateTime
      <3> QED
        BY <2>3, <3>3 DEF activate_timer_stored, event
    <2>4. CASE deactivate_timer(d)
      BY <1>2, <2>4 DEF deactivate_timer, event
    <2>5. CASE unregisterTimer(d)
      BY <1>2, <2>5 DEF unregisterTimer, event
    <2> QED
      BY <1>3, <2>1, <2>2, <2>3, <2>4, <2>5, Zenon DEF DeviceCalls
  <1>4. ASSUME NEW c \in Apic, ApicCalls(c)
        PROVE  time_ticks' = time_ticks /\ pending' = pending /\ calling' = calling
    <2>1. ASSUME NEW r \in Requests, apic_timer_set(c, r[1])
          PROVE  time_ticks' = time_ticks /\ pending' = pending /\ calling' = calling
      <3>1. Activate(handle[c], r[1], FALSE) /\ r[1] \in Nat
        BY <1>1, <2>1 DEF apic_timer_set
      <3>2. time_ticks' = time_ticks
        BY <3>1, ActivateTime
      <3> QED
        BY <2>1, <3>2 DEF apic_timer_set, event
    <2>2. CASE apic_timer_clear(c)
      BY <1>2, <2>2 DEF apic_timer_clear, event
    <2> QED
      BY <1>4, <2>1, <2>2, Zenon DEF ApicCalls
  <1>5. ASSUME ApicHandlerReturns
        PROVE  time_ticks' = time_ticks /\ pending' = pending /\ calling' = NoSlot
    <2> DEFINE c == timer[calling].owner
    <2>1. c \in Apic /\ pending' = pending /\ calling' = NoSlot
          /\ (UNCHANGED clock \/ \E r \in Requests : Activate(handle[c], r[1], FALSE))
      BY <1>5 DEF ApicHandlerReturns
    <2> HIDE DEF c
    <2>2. \A r \in Requests : r[1] \in Nat
      BY ConstantsAssumption
    <2> QED
      BY <1>2, <2>1, <2>2, ActivateTime
  <1>6. time_ticks' = time_ticks /\ pending' = pending /\ calling' \in {calling, NoSlot}
    BY <1>3, <1>4, <1>5
  <1> QED
    BY <1>6, CallPrograms
\* An event ends the countdown: time goes on to the earliest slot due, and the
\* slots due then are the ones it triggers.
LEMMA EventElapses ==
  ASSUME PcInv, PcInv', Steady, Counting, Counting', pending = {}, calling = NoSlot, countdownEvent,
         numTimers' = numTimers, calling' = calling
  PROVE  Service!Elapse
  <1> DEFINE t == ticksTotal + currCountdownPeriod
  <1>1. DueAhead /\ DueAhead'
    BY DueLater, PTL
  <1>2. EventAt(t)
    BY EventFires DEF Counting
  <1>3. /\ ticksTotal \in Nat /\ currCountdownPeriod \in Nat /\ numTimers \in Nat
        /\ \A i \in Slots : timer[i].timeToFire \in Nat
    BY Types DEF Steady
  <1>4. t \in Nat /\ Now < t
    BY <1>1, <1>3 DEF DueAhead
  <1>5. Now' = t
    <2>1. ticksTotal' = t /\ currCountdown' \in Nat /\ currCountdownPeriod' = currCountdown'
      BY <1>2 DEF EventAt
    <2>2. time_ticks' = t
      BY <1>4, <2>1 DEF time_ticks
    <2>3. Now' = time_ticks'
      BY Zenon DEF Now
    <2> QED
      BY <2>2, <2>3
  <1>6. Expd = {} /\ Cald = -1 /\ Cald' = -1
    BY DEF Expd, Cald
  <1> HIDE DEF t
  <1>7. \A i \in Slots : Due[i] = IF i < numTimers /\ timer[i].active
                                  THEN timer[i].timeToFire ELSE -1
    BY DEF Due
  <1>8. \A i \in Slots : Due[i] # -1 => Due[i] >= t
    <2> SUFFICES ASSUME NEW i \in Slots, i < numTimers, timer[i].active
                 PROVE  timer[i].timeToFire >= t
      BY <1>7
    <2>1. i \in 0..(numTimers - 1)
      BY <1>3 DEF Slots
    <2> QED
      BY <2>1 DEF Steady, ClockOK, Counting, t
  <1>9. pending' = {i \in 0..(numTimers - 1) : timer[i].active /\ timer[i].timeToFire = t}
    BY <1>2 DEF EventAt
  <1>10. \A i \in 0..(numTimers - 1) : i \in Slots
    BY Types DEF Steady
  <1>11. \A i \in Slots : i < numTimers <=> i \in 0..(numTimers - 1)
    BY <1>3 DEF Slots
  <1>12. pending' = {i \in Slots : Due[i] = t}
    <2>1. t # -1
      BY <1>4
    <2> QED
      BY <1>7, <1>9, <1>10, <1>11, <2>1
  <1>13. Expd' = {i \in Slots : Due[i] = Now'}
    BY <1>5, <1>12 DEF Expd
  <1>14. \A i \in Slots : i \notin Expd' => Due'[i] = Due[i]
    <2> SUFFICES ASSUME NEW i \in Slots, i \notin pending'
                 PROVE  Due'[i] = Due[i]
      BY DEF Expd
    <2>1. timer'[i] = timer[i]
      BY <1>2 DEF EventAt
    <2> QED
      BY <2>1 DEF Due
  <1>15. \A i \in Slots : Due'[i] = -1 \/ Due'[i] > Now'
    BY <1>1 DEF DueAhead
  <1>16. Now' > Now
    BY <1>1, <1>4, <1>5 DEF DueAhead
  <1>17. \A i \in Slots : Due[i] # -1 => Due[i] >= Now'
    BY <1>5, <1>8
  <1>18. DOMAIN Due' = Slots
    BY DEF Due
  <1> QED
    BY <1>6, <1>13, <1>14, <1>15, <1>16, <1>17, <1>18
    DEF Service!Elapse, Service!Due, Now, Expd, Cald, Due

\* Less left of the countdown is more time, and a countdown as long as its
\* period is none: the two facts about time_ticks the next lemmas use.
LEMMA ClockForward ==
  ASSUME NEW t \in Nat, NEW p \in Nat, NEW c \in Nat, NEW d \in Nat, d < c
  PROVE  t + (p - d) > t + (p - c)
  OBVIOUS

\* (the second of them: ticksTotal and a whole countdown are time 0 of Init)
LEMMA ClockReset ==
  ASSUME NEW t \in Nat, NEW p \in Nat
  PROVE  t + (p - p) = t
  OBVIOUS

\* While the countdown runs time goes on to before the earliest slot due.
LEMMA CountElapses ==
  ASSUME PcInv, PcInv', Steady, Counting, Counting', pending = {}, calling = NoSlot,
         UNCHANGED <<timer, numTimers, calling, pending, ticksTotal, currCountdownPeriod>>,
         currCountdown' \in Nat, currCountdown' < currCountdown
  PROVE  Service!Elapse
  <1>1. DueAhead /\ DueAhead'
    BY DueLater, PTL
  <1>2. ticksTotal \in Nat /\ currCountdownPeriod \in Nat /\ currCountdown \in Nat
    BY Types DEF Steady
  <1>3. Now' > Now
    <2>1. time_ticks' > time_ticks
      <3>1. /\ ticksTotal' = ticksTotal /\ currCountdownPeriod' = currCountdownPeriod
            /\ currCountdown' \in Nat /\ currCountdown' < currCountdown
        OBVIOUS
      <3>2. /\ time_ticks = ticksTotal + (currCountdownPeriod - currCountdown)
            /\ time_ticks' = ticksTotal' + (currCountdownPeriod' - currCountdown')
        BY Zenon DEF time_ticks
      <3>3. ticksTotal' \in Nat /\ currCountdownPeriod' \in Nat
        BY <1>2, <3>1
      <3>4. ticksTotal + (currCountdownPeriod - currCountdown')
            > ticksTotal + (currCountdownPeriod - currCountdown)
        BY <1>2, <3>1, ClockForward, Zenon
      <3> QED
        BY <3>1, <3>2, <3>4, Zenon
    <2>2. Now' = time_ticks' /\ Now = time_ticks
      BY Zenon DEF Now
    <2> QED
      BY <2>1, <2>2
  <1>4. Due' = Due /\ DOMAIN Due' = Slots
    BY DEF Due, Counting
  <1>5. \A i \in Slots : Due[i] # -1 => Due[i] \in Nat /\ Due[i] > Now'
    BY <1>1, <1>4 DEF DueAhead
  <1>6. Expd = {} /\ Expd' = {} /\ Cald = -1 /\ Cald' = -1
    BY DEF Expd, Cald
  <1>7. Now' \in Nat
    BY <1>1 DEF DueAhead
  <1>8. Expd' = {i \in Slots : Due[i] = Now'}
    <2>1. ASSUME NEW i \in Slots PROVE Due[i] # Now'
      <3>1. CASE Due[i] = -1
        BY <1>7, <3>1
      <3>2. CASE Due[i] # -1
        BY <1>5, <1>7, <3>2
      <3> QED
        BY <3>1, <3>2
    <2> QED
      BY <1>6, <2>1
  <1>9. \A i \in Slots : Due[i] # -1 => Due[i] >= Now'
    BY <1>5, <1>7
  <1> QED
    BY <1>3, <1>4, <1>6, <1>8, <1>9 DEF Service!Elapse, Service!Due, Now, Expd, Cald, Due

\* Every step of the clock elapses.
LEMMA TicksElapse ==
  ASSUME PcInv, PcInv', Counting, Counting',
         \/ tick1
         \/ \E n \in 2..MaxStep : tickn(n)
         \/ tickn_continues
  PROVE  Service!Elapse
  <1>1. Steady
    BY DEF PcInv, Counting
  <1>2. /\ currCountdown \in Nat /\ left \in Nat /\ currCountdownPeriod \in Nat
        /\ 0 < currCountdown /\ currCountdown <= NullInterval
    <2>1. currCountdown \in Nat /\ left \in Nat /\ currCountdownPeriod \in Nat
      BY <1>1, Types DEF Steady
    <2>2. /\ 0 < currCountdown /\ currCountdown <= currCountdownPeriod
          /\ currCountdownPeriod <= NullInterval
      BY <1>1 DEF Steady, ClockOK, Counting
    <2> QED
      BY <2>1, <2>2, Sizes
  <1>3. ASSUME NEW n \in Nat, n > 0, TickLoop(n), pending = {}, calling = NoSlot
        PROVE  Service!Elapse
    <2>1. numTimers' = numTimers /\ calling' = calling
      BY <1>3 DEF TickLoop
    <2>2. CASE n >= currCountdown
      <3>1. countdownEvent
        BY <2>2, <1>3 DEF TickLoop
      <3> QED
        BY <1>1, <1>3, <2>1, <3>1, EventElapses
    <2>3. CASE ~(n >= currCountdown)
      <3>1. /\ currCountdown' = currCountdown - n
            /\ UNCHANGED <<timer, numTimers, calling, pending, ticksTotal, currCountdownPeriod>>
        BY <1>3, <2>3 DEF TickLoop
      <3>2. currCountdown' \in Nat /\ currCountdown' < currCountdown
        BY <1>2, <1>3, <2>3, <3>1
      <3> QED
        BY <1>1, <1>3, <3>1, <3>2, CountElapses
    <2> QED
      BY <2>2, <2>3
  <1>4. CASE tick1
    <2>1. pending = {} /\ calling = NoSlot /\ numTimers' = numTimers /\ calling' = calling
      BY <1>4 DEF tick1, Idle
    <2>2. Bit32u(currCountdown - 1) = currCountdown - 1
      <3>1. currCountdown - 1 \in 0..NullInterval
        BY <1>2, Sizes
      <3> QED
        BY <3>1, Fits
    <2>3. CASE Bit32u(currCountdown - 1) = 0
      <3>1. countdownEvent
        BY <1>4, <2>3 DEF tick1
      <3> QED
        BY <1>1, <2>1, <3>1, EventElapses
    <2>4. CASE Bit32u(currCountdown - 1) # 0
      <3>1. /\ currCountdown' = currCountdown - 1
            /\ UNCHANGED <<ticksTotal, currCountdownPeriod, timer, pending>>
        BY <1>4, <2>2, <2>4 DEF tick1
      <3>2. currCountdown' \in Nat /\ currCountdown' < currCountdown
        BY <1>2, <2>2, <2>4, <3>1
      <3> QED
        BY <1>1, <2>1, <3>1, <3>2, CountElapses
    <2> QED
      BY <2>3, <2>4
  <1>5. CASE \E n \in 2..MaxStep : tickn(n)
    <2>1. PICK n \in 2..MaxStep : tickn(n)
      BY <1>5
    <2>2. n \in Nat /\ n > 0
      BY <2>1, ConstantsAssumption
    <2> QED
      BY <1>3, <2>1, <2>2 DEF tickn, Idle
  <1>6. CASE tickn_continues
    <2>1. left \in Nat /\ left > 0 /\ TickLoop(left) /\ pending = {} /\ calling = NoSlot
      BY <1>2, <1>6 DEF tickn_continues
    <2> QED
      BY <1>3, <2>1, Zenon
  <1> QED
    BY <1>4, <1>5, <1>6

\* The handler called is that of the first triggered slot.
LEMMA CallDelivers ==
  ASSUME PcInv, Counting, Counting', CallHandler
  PROVE  Service!Deliver
  <1>1. pending \in SUBSET Nat /\ pending # {}
    BY DEF PcInv, Steady, TypeOK, Counting, CallHandler, Slots
  <1>2. Min(pending) \in pending /\ \A j \in pending : Min(pending) <= j
    BY <1>1, MinOf
  <1>3. /\ calling = NoSlot /\ pending' = pending \ {Min(pending)}
        /\ calling' \in {Min(pending), NoSlot}
        /\ UNCHANGED <<timer, numTimers, clock>>
    BY DEF CallHandler
  <1>4. Cald = -1 /\ Cald' \in {Min(pending), -1}
    BY <1>3 DEF Cald
  <1>5. Expd = pending /\ Expd' = pending \ {Min(pending)}
    BY <1>3 DEF Expd
  <1>6. Now' = Now /\ Due' = Due
    BY <1>3 DEF Now, Due, time_ticks, clock
  <1> QED
    BY <1>2, <1>4, <1>5, <1>6 DEF Service!Deliver, Now, Due, Expd, Cald
\* Every step is one of the service: of a clock that is started again, of its
\* clients, or of time.
LEMMA ServiceStep ==
  ASSUME PcInv, PcInv', [Next]_vars
  PROVE  Service!Next \/ UNCHANGED Service!specVars
  <1>1. DueAhead'
    BY DueLater, PTL
  <1>2. CASE ~Counting'
    <2>1. Now' = 0 /\ Expd' = {} /\ Cald' = -1 /\ DOMAIN Due' = Slots
      BY <1>2 DEF Now, Expd, Cald, Due
    <2>2. \A i \in Slots : Due'[i] = -1
      BY <1>2 DEF Due
    <2> QED
      BY <2>1, <2>2 DEF Service!Next, Service!Restart, Now, Expd, Cald, Due
  <1>3. CASE ~Counting /\ Counting'
    <2>1. phase # "run" /\ phase' = "run" /\ ~aborted
      BY <1>3
      DEF Counting, Next, vars, initialize, Reset, exit, init_panics, DeviceCalls, ApicCalls, Ticks,
          register_timer_ticks, activate_timer_ticks, activate_timer_stored, deactivate_timer,
          unregisterTimer, apic_timer_set, apic_timer_clear, tick1, tickn, tickn_continues,
          TickLoop, CallHandler, HandlerReturns, ApicHandlerReturns, life
    <2>2. Reset
      BY <2>1
      DEF Next, vars, initialize, exit, init_panics, DeviceCalls, ApicCalls, Ticks,
          register_timer_ticks, activate_timer_ticks, activate_timer_stored, deactivate_timer,
          unregisterTimer, apic_timer_set, apic_timer_clear, tick1, tickn, tickn_continues,
          TickLoop, CallHandler, HandlerReturns, ApicHandlerReturns, life
    <2>3. Steady /\ phase = "init"
      BY <2>1, <2>2 DEF PcInv, Reset
    <2>4. /\ pending' = {} /\ calling' = NoSlot
          /\ ticksTotal' = 0 /\ currCountdown' = currCountdownPeriod'
      BY <2>2, <2>3 DEF Steady, ClockOK, Idle, Reset, event, clock
    <2>5. currCountdown' \in Nat
      BY <1>3 DEF Counting, PcInv, Steady, TypeOK
    <2>6. time_ticks' = 0
      <3>1. time_ticks' = ticksTotal' + (currCountdownPeriod' - currCountdown')
        BY Zenon DEF time_ticks
      <3>2. ticksTotal' \in Nat /\ currCountdownPeriod' \in Nat
        BY <2>4, <2>5
      <3>3. ticksTotal' + (currCountdownPeriod' - currCountdownPeriod') = ticksTotal'
        BY <3>2, ClockReset, Zenon
      <3> QED
        BY <2>4, <3>1, <3>3, Zenon
    <2>7. Now' = 0 /\ Expd' = {} /\ Cald' = -1 /\ DOMAIN Due' = Slots
      BY <1>3, <2>4, <2>6, Zenon DEF Now, Expd, Cald, Due
    <2>8. \A i \in Slots : Due'[i] = -1 \/ Due'[i] > 0
      BY <1>1, <2>7 DEF DueAhead
    <2> QED
      BY <2>7, <2>8 DEF Service!Next, Service!Restart, Now, Expd, Cald, Due
  <1>4. CASE Counting /\ Counting'
    <2>1. Steady /\ phase = "run" /\ phase' = "run"
      BY <1>4 DEF Counting, PcInv
    <2>2. CASE Reset \/ HandlerReturns \/ UNCHANGED vars
      <3>1. UNCHANGED clock /\ pending' = pending /\ calling' \in {calling, NoSlot}
        BY <2>2 DEF Reset, HandlerReturns, vars, event
      <3>2. time_ticks' = time_ticks
        BY <3>1 DEF clock, time_ticks
      <3> QED
        BY <1>4, <3>1, <3>2, CallPrograms DEF Service!Next
    <2>3. CASE \/ \E d \in Devices : DeviceCalls(d)
               \/ \E c \in Apic : ApicCalls(c)
               \/ ApicHandlerReturns
      BY <1>4, <2>1, <2>3, ClientsProgram, Zenon DEF Service!Next
    <2>4. CASE \/ tick1
               \/ \E n \in 2..MaxStep : tickn(n)
               \/ tickn_continues
      BY <1>4, <2>4, TicksElapse, Zenon DEF Service!Next
    <2>5. CASE CallHandler
      BY <1>4, <2>5, CallDelivers, Zenon DEF Service!Next
    <2>6. ~initialize /\ ~exit /\ ~init_panics
      BY <2>1 DEF initialize, exit, init_panics
    <2> QED
      BY <2>2, <2>3, <2>4, <2>5, <2>6, Zenon DEF Next, Ticks
  <1> QED
    BY <1>2, <1>3, <1>4

\* Every timer is triggered at exactly the tick it was set for, and handlers
\* are called in slot order before time moves on: the timers of any number of
\* clients, through starts, resets and ends of sessions, are a timer service.
THEOREM Implements == Spec => ImplementsTimerSpec
  <1>1. Init => Service!Init
    <2> SUFFICES ASSUME Init PROVE Service!Init
      OBVIOUS
    <2>1. ~Counting
      BY DEF Init, Counting
    <2> QED
      BY <2>1 DEF Service!Init
  <1>2. PcInv /\ PcInv' /\ [Next]_vars => [Service!Next]_(Service!specVars)
    BY ServiceStep
  <1> QED
    BY <1>1, <1>2, Invariant, PTL DEF Spec, ImplementsTimerSpec, Service!Spec

=============================================================================
