------------------------- MODULE SoundOutput_proofs -------------------------
(***************************************************************************)
(* Proofs about the wave output, for packets, mixer passes and callback    *)
(* tables of any size and any sample rates.                                *)
(*                                                                         *)
(* The types hold for every number of sessions, once it is added that a    *)
(* thread with work to do has a packet (BusyWithPacket).  What is said of  *)
(* the first session is kept by FirstSession: the resampler works on the   *)
(* head of the first queue, the packet that is next in line, and has       *)
(* adopted its rate when it copies it; a mixer thread that is not on its   *)
(* way to output() holds nothing; nothing is sent before the device is     *)
(* marked open.                                                            *)
(***************************************************************************)
EXTENDS SoundOutput, SequenceTheorems, FiniteSetTheorems, TLAPS

Kinds == {"pcm", "device", "none"}
Busy == {"resample", "flush", "output", "delete"}
Emus == [pc : {"off", "opening", "running", "resample", "flush", "output"},
         cur : Packets \union {NoPacket}]
Resamplers == [pc : {"none", "poll", "resample", "flush", "output", "delete"},
               cur : Packets \union {NoPacket}]
Mixers == [pc : {"none", "mix", "output"}, buf : Seq(Units)]

HostOK ==
    /\ voice \in Rates \union {0} /\ queued \in 0..(HostLimit + 1)
    /\ voice = 0 => queued = 0

\* A thread that is at work has a packet to work on.
BusyWithPacket ==
    /\ emu.pc \in Busy => emu.cur \in Packets
    /\ \A t \in 1..MaxSessions : res[t].pc \in Busy => res[t].cur \in Packets

TypeInv == TypeOK /\ BusyWithPacket

-----------------------------------------------------------------------------
(* Constants, units and the host.                                          *)

\* What SoundAssumption says, one by one.
LEMMA Sizes ==
  /\ MaxSessions \in Nat /\ MaxSessions >= 1 /\ 1 \in 1..MaxSessions
  /\ MaxPackets \in Nat /\ PacketUnits \in Nat /\ PacketUnits >= 1
  /\ MixUnits \in Nat /\ MixUnits >= 1
  /\ DefaultRate \in Rates /\ 0 \notin Rates
  /\ Devices \in Nat /\ MaxCallbacks \in Nat /\ MaxCallbacks >= 1 /\ HostLimit \in Nat
  BY SoundAssumption

\* A packet's units: as many as a packet has, numbered from 1.
LEMMA PacketsUnits ==
  ASSUME NEW p \in Packets
  PROVE  /\ UnitsOf(p) \in Seq(Units) /\ Len(UnitsOf(p)) = PacketUnits
         /\ \A n \in 1..PacketUnits : /\ UnitsOf(p)[n].id = p.id /\ UnitsOf(p)[n].n = n
                                      /\ UnitsOf(p)[n].rate = p.rate
  <1>1. /\ UnitsOf(p) \in [1..PacketUnits -> Units]
        /\ \A n \in 1..PacketUnits : UnitsOf(p)[n] = [id |-> p.id, n |-> n, rate |-> p.rate]
    BY DEF UnitsOf, Units, Packets
  <1>2. UnitsOf(p) \in Seq(Units)
    BY <1>1, Sizes, SeqDef
  <1>3. Len(UnitsOf(p)) = PacketUnits
    BY <1>1, <1>2, Sizes, LenProperties
  <1> QED
    BY <1>1, <1>2, <1>3

\* The parts of the type invariant.
LEMMA Types ==
  ASSUME TypeOK
  PROVE  /\ emu \in Emus
         /\ openings \in Nat /\ openings <= MaxSessions
         /\ opened \in BOOLEAN /\ usesQueue \in BOOLEAN /\ fault \in BOOLEAN
         /\ get_wave \in Seq(Kinds) /\ Len(get_wave) <= MaxCallbacks
         /\ rate \in Rates /\ sent \in Nat /\ sent <= MaxPackets
         /\ in \in Seq(Packets) /\ ready \in Seq(Units) /\ out \in Seq(Units)
         /\ res \in [1..MaxSessions -> Resamplers]
         /\ mix \in [1..MaxSessions -> Mixers]
         /\ HostOK
  <1>1. opened \in BOOLEAN /\ usesQueue \in BOOLEAN /\ fault \in BOOLEAN
    BY Zenon DEF TypeOK
  <1>2. /\ emu \in Emus /\ get_wave \in Seq(Kinds) /\ Len(get_wave) <= MaxCallbacks
        /\ in \in Seq(Packets) /\ ready \in Seq(Units) /\ out \in Seq(Units)
        /\ res \in [1..MaxSessions -> Resamplers] /\ mix \in [1..MaxSessions -> Mixers]
        /\ HostOK /\ rate \in Rates
    BY Zenon DEF TypeOK, Emus, Kinds, Resamplers, Mixers, HostOK
  <1>3. openings \in 0..MaxSessions /\ sent \in 0..MaxPackets
    BY DEF TypeOK
  <1>4. openings \in Nat /\ openings <= MaxSessions /\ sent \in Nat /\ sent <= MaxPackets
    BY <1>3, Sizes
  <1> QED
    BY <1>1, <1>2, <1>4, Zenon

\* The same of the next state.
LEMMA TypesNext ==
  ASSUME emu' \in Emus,
         openings' \in Nat /\ openings' <= MaxSessions,
         opened' \in BOOLEAN /\ usesQueue' \in BOOLEAN /\ fault' \in BOOLEAN,
         get_wave' \in Seq(Kinds) /\ Len(get_wave') <= MaxCallbacks,
         rate' \in Rates, sent' \in Nat /\ sent' <= MaxPackets,
         in' \in Seq(Packets) /\ ready' \in Seq(Units) /\ out' \in Seq(Units),
         res' \in [1..MaxSessions -> Resamplers],
         mix' \in [1..MaxSessions -> Mixers],
         HostOK'
  PROVE  TypeOK'
  <1>1. openings' \in 0..MaxSessions /\ sent' \in 0..MaxPackets
    BY Sizes
  <1> QED
    BY <1>1, Zenon DEF TypeOK, Emus, Kinds, Resamplers, Mixers, HostOK

\* Opening the voice keeps it silent or makes it so.
LEMMA OpenHost ==
  ASSUME HostOK, NEW r \in Rates, OpenAudioLocked(r)
  PROVE  HostOK'
  BY Sizes DEF HostOK, OpenAudioLocked, hostVars

\* A submitted packet is the last one above the limit.
LEMMA SubmitHost ==
  ASSUME HostOK, NEW r \in Rates, submit(r)
  PROVE  HostOK'
  <1>1. CASE OpenAudioLocked(r)
    BY <1>1, OpenHost
  <1>2. CASE voice = r /\ queued <= HostLimit /\ queued' = queued + 1 /\ UNCHANGED voice
    BY <1>2, Sizes DEF HostOK
  <1>3. CASE voice # r /\ voice' = r /\ queued' = 1
    BY <1>3, Sizes DEF HostOK
  <1> QED
    BY <1>1, <1>2, <1>3, Zenon DEF submit

\* pcm_callback copies no more than there is.
LEMMA Copied ==
  ASSUME TypeOK
  PROVE  pcm_callback \in Nat /\ pcm_callback <= Len(ready)
  <1> DEFINE P == {i \in DOMAIN get_wave : get_wave[i] = "pcm"}
  <1>1. get_wave \in Seq(Kinds) /\ ready \in Seq(Units)
    BY Types
  <1>2. Len(ready) \in Nat /\ Len(get_wave) \in Nat /\ DOMAIN get_wave = 1..Len(get_wave)
    BY <1>1, LenProperties
  <1>3. IsFiniteSet(P)
    <2>1. P \in SUBSET (1..Len(get_wave))
      BY <1>2
    <2>2. IsFiniteSet(1..Len(get_wave))
      BY <1>2, FS_Interval
    <2> QED
      BY <2>1, <2>2, FS_Subset
  <1>4. Cardinality(P) \in Nat
    BY <1>3, FS_CardinalityType
  <1>5. Cardinality(P) * MixUnits \in Nat
    BY <1>4, Sizes
  <1>6. pcm_callback = IF Len(ready) < Cardinality(P) * MixUnits THEN Len(ready)
                       ELSE Cardinality(P) * MixUnits
    BY Zenon DEF pcm_callback
  <1> HIDE DEF P
  <1> QED
    BY <1>2, <1>5, <1>6

-----------------------------------------------------------------------------
(* Types. *)

\* Only what a step changes has to be looked at.
LEMMA Stutter == TypeInv /\ UNCHANGED vars => TypeInv'
  BY Zenon DEF TypeInv, TypeOK, BusyWithPacket, vars, emuVars, hostVars

\* The voice plays a buffer, or the page closes it.
LEMMA HostTypes ==
  ASSUME TypeInv, OnBufferEnd \/ Shutdown
  PROVE  TypeInv'
  <1>1. HostOK /\ UNCHANGED <<emuVars, rate, in, ready, res, mix, out, fault>>
    BY Types, Zenon DEF TypeInv, OnBufferEnd, Shutdown
  <1>2. HostOK'
    <2>1. CASE OnBufferEnd
      BY <1>1, <2>1, Sizes DEF OnBufferEnd, HostOK
    <2>2. CASE Shutdown
      BY <1>1, <2>2, Sizes DEF Shutdown, HostOK
    <2> QED
      BY <2>1, <2>2
  <1> QED
    BY <1>1, <1>2, Zenon DEF TypeInv, TypeOK, HostOK, BusyWithPacket, emuVars

\* A resampler thread, its step and its packet.
LEMMA ThreadStep ==
  ASSUME TypeInv, NEW t \in Threads
  PROVE  /\ t \in 1..MaxSessions
         /\ res[t] \in Resamplers /\ mix[t] \in Mixers
         /\ res[t].pc \in Busy => res[t].cur \in Packets
  <1>1. t \in 1..MaxSessions
    BY Types, Sizes DEF TypeInv, Threads
  <1> QED
    BY <1>1, Types DEF TypeInv, BusyWithPacket

\* openwaveoutput starts two threads and may register a callback.
LEMMA OpenTypes ==
  ASSUME TypeInv, openwaveoutput
  PROVE  TypeInv'
  <1> DEFINE o == openings + 1
  <1>1. /\ emu.pc = "off" /\ openings < MaxSessions
        /\ get_wave' = register_wave_callback(get_wave, "pcm")
        /\ openings' = o
        /\ res' = [res EXCEPT ![o].pc = "poll"]
        /\ mix' = [mix EXCEPT ![o].pc = "mix"]
        /\ emu' = [emu EXCEPT !.pc = "opening"]
        /\ UNCHANGED <<opened, sent, rate, in, ready, out, fault>>
    BY DEF openwaveoutput
  <1>2. usesQueue' \in BOOLEAN
    <2>1. (Len(get_wave) < MaxCallbacks) \in BOOLEAN
      OBVIOUS
    <2> QED
      BY <2>1, Zenon DEF openwaveoutput
  <1>3. HostOK'
    BY OpenHost, Types, Zenon DEF TypeInv, openwaveoutput
  <1>4. o \in 1..MaxSessions /\ o \in Nat /\ o <= MaxSessions
    BY <1>1, Types, Sizes DEF TypeInv
  <1>5. get_wave' \in Seq(Kinds) /\ Len(get_wave') <= MaxCallbacks
    <2>1. get_wave \in Seq(Kinds) /\ Len(get_wave) <= MaxCallbacks /\ Len(get_wave) \in Nat
          /\ "pcm" \in Kinds
      BY Types, LenProperties DEF TypeInv, Kinds
    <2>2. Append(get_wave, "pcm") \in Seq(Kinds) /\ Len(Append(get_wave, "pcm")) = Len(get_wave) + 1
      BY <2>1, AppendProperties
    <2> QED
      BY <1>1, <2>1, <2>2, Sizes DEF register_wave_callback
  <1>6. emu' \in Emus /\ emu'.pc = "opening"
    BY <1>1, Types DEF TypeInv, Emus
  <1>7. /\ res' \in [1..MaxSessions -> Resamplers] /\ res'[o].pc = "poll"
        /\ \A t \in 1..MaxSessions : t # o => res'[t] = res[t]
    BY <1>1, <1>4, Types DEF TypeInv, Resamplers
  <1>8. mix' \in [1..MaxSessions -> Mixers]
    BY <1>1, <1>4, Types DEF TypeInv, Mixers
  <1>9. TypeOK
    BY DEF TypeInv
  <1>10. TypeOK'
    <2> HIDE DEF o
    <2>1. openings' \in Nat /\ openings' <= MaxSessions
      BY <1>1, <1>4
    <2>2. /\ opened' \in BOOLEAN /\ fault' \in BOOLEAN /\ rate' \in Rates
          /\ sent' \in Nat /\ sent' <= MaxPackets
          /\ in' \in Seq(Packets) /\ ready' \in Seq(Units) /\ out' \in Seq(Units)
      BY <1>1, <1>9, Types, Zenon
    <2> QED
      BY <1>2, <1>3, <1>5, <1>6, <1>7, <1>8, <2>1, <2>2, TypesNext, Zenon
  <1>11. BusyWithPacket'
    BY <1>6, <1>7 DEF TypeInv, BusyWithPacket, Busy
  <1> QED
    BY <1>10, <1>11 DEF TypeInv

\* The devices register what there is room for.
LEMMA InitTypes ==
  ASSUME TypeInv, init
  PROVE  TypeInv'
  <1> DEFINE free == MaxCallbacks - Len(get_wave)
             n == IF Devices < free THEN Devices ELSE free
             new == [i \in 1..n |-> "device"]
  <1>1. TypeOK
    BY DEF TypeInv
  <1>2. /\ get_wave' = get_wave \o new /\ emu' = [emu EXCEPT !.pc = "running"]
        /\ UNCHANGED <<openings, sent, hostVars, rate, in, ready, res, mix, out>>
    BY DEF init
  <1>3. opened' = TRUE /\ UNCHANGED <<usesQueue, fault>>
    BY Zenon DEF init
  <1>4. get_wave \in Seq(Kinds) /\ Len(get_wave) <= MaxCallbacks /\ Len(get_wave) \in Nat
    BY <1>1, Types, LenProperties
  <1>5. n \in Nat /\ Len(get_wave) + n <= MaxCallbacks
    BY <1>4, Sizes
  <1>6. new \in Seq(Kinds) /\ Len(new) = n
    <2> HIDE DEF n
    <2>1. new \in [1..n -> Kinds]
      BY DEF Kinds
    <2>2. new \in Seq(Kinds)
      BY <1>5, <2>1, SeqDef
    <2> QED
      BY <1>5, <2>1, <2>2, LenProperties
  <1> HIDE DEF new, n
  <1>7. get_wave' \in Seq(Kinds) /\ Len(get_wave') <= MaxCallbacks
    BY <1>2, <1>4, <1>5, <1>6, ConcatProperties
  <1>8. emu' \in Emus /\ emu'.pc = "running"
    BY <1>1, <1>2, Types DEF Emus
  <1>9. TypeOK'
    <2>1. opened' \in BOOLEAN /\ usesQueue' \in BOOLEAN /\ fault' \in BOOLEAN
      BY <1>1, <1>3, Types, Zenon
    <2>2. /\ openings' \in Nat /\ openings' <= MaxSessions /\ rate' \in Rates
          /\ sent' \in Nat /\ sent' <= MaxPackets
          /\ in' \in Seq(Packets) /\ ready' \in Seq(Units) /\ out' \in Seq(Units)
          /\ res' \in [1..MaxSessions -> Resamplers] /\ mix' \in [1..MaxSessions -> Mixers]
          /\ HostOK'
      BY <1>1, <1>2, Types, Zenon DEF hostVars, HostOK
    <2> QED
      BY <1>7, <1>8, <2>1, <2>2, TypesNext, Zenon
  <1>10. BusyWithPacket'
    BY <1>2, <1>8 DEF TypeInv, BusyWithPacket, Busy
  <1> QED
    BY <1>9, <1>10 DEF TypeInv

\* exit unregisters callbacks and frees no slot.
LEMMA ExitTypes ==
  ASSUME TypeInv, exit
  PROVE  TypeInv'
  <1>1. TypeOK
    BY DEF TypeInv
  <1>2. /\ get_wave' = [i \in DOMAIN get_wave |->
                           IF get_wave[i] = "device" THEN "none" ELSE get_wave[i]]
        /\ emu' = [emu EXCEPT !.pc = "off"]
        /\ UNCHANGED <<openings, sent, hostVars, rate, in, ready, res, mix, out>>
    BY DEF exit
  <1>3. UNCHANGED <<opened, usesQueue, fault>>
    BY Zenon DEF exit
  <1>4. get_wave' \in Seq(Kinds) /\ Len(get_wave') <= MaxCallbacks
    <2>1. /\ get_wave \in [1..Len(get_wave) -> Kinds] /\ Len(get_wave) \in Nat
          /\ DOMAIN get_wave = 1..Len(get_wave) /\ Len(get_wave) <= MaxCallbacks
      BY <1>1, Types, LenProperties
    <2>2. get_wave' \in [1..Len(get_wave) -> Kinds]
      BY <1>2, <2>1 DEF Kinds
    <2>3. get_wave' \in Seq(Kinds)
      BY <2>1, <2>2, SeqDef
    <2>4. Len(get_wave') = Len(get_wave)
      BY <2>1, <2>2, <2>3, LenProperties
    <2> QED
      BY <2>1, <2>3, <2>4
  <1>5. emu' \in Emus /\ emu'.pc = "off"
    BY <1>1, <1>2, Types DEF Emus
  <1>6. TypeOK'
    <2>1. opened' \in BOOLEAN /\ usesQueue' \in BOOLEAN /\ fault' \in BOOLEAN
      BY <1>1, <1>3, Types, Zenon
    <2>2. /\ openings' \in Nat /\ openings' <= MaxSessions /\ rate' \in Rates
          /\ sent' \in Nat /\ sent' <= MaxPackets
          /\ in' \in Seq(Packets) /\ ready' \in Seq(Units) /\ out' \in Seq(Units)
          /\ res' \in [1..MaxSessions -> Resamplers] /\ mix' \in [1..MaxSessions -> Mixers]
          /\ HostOK'
      BY <1>1, <1>2, Types, Zenon DEF hostVars, HostOK
    <2> QED
      BY <1>4, <1>5, <2>1, <2>2, TypesNext, Zenon
  <1>7. BusyWithPacket'
    BY <1>2, <1>5 DEF TypeInv, BusyWithPacket, Busy
  <1> QED
    BY <1>6, <1>7 DEF TypeInv

\* A packet is queued, or resampled by the emulator thread.
LEMMA SendTypes ==
  ASSUME TypeInv, NEW r \in Rates, sendwavepacket(r)
  PROVE  TypeInv'
  <1> DEFINE p == [id |-> sent + 1, rate |-> r]
  <1>1. TypeOK
    BY DEF TypeInv
  <1>2. /\ sent < MaxPackets /\ sent' = sent + 1
        /\ \/ in' = Append(in, p) /\ UNCHANGED emu
           \/ emu' = [pc |-> "resample", cur |-> p] /\ UNCHANGED in
        /\ UNCHANGED <<openings, get_wave, hostVars, rate, ready, res, mix, out>>
    BY DEF sendwavepacket
  <1>3. UNCHANGED <<opened, usesQueue, fault>>
    BY Zenon DEF sendwavepacket
  <1>4. p \in Packets /\ sent' \in Nat /\ sent' <= MaxPackets
    BY <1>1, <1>2, Types, Sizes DEF Packets
  <1> HIDE DEF p
  <1>5. in' \in Seq(Packets)
    <2>1. in \in Seq(Packets) /\ (in' = Append(in, p) \/ in' = in)
      BY <1>1, <1>2, Types, Zenon
    <2>2. Append(in, p) \in Seq(Packets)
      BY <1>4, <2>1, AppendProperties
    <2> QED
      BY <2>1, <2>2
  <1>6. emu' \in Emus /\ (emu'.pc \in Busy => emu'.cur \in Packets)
    BY <1>1, <1>2, <1>4, Types DEF Emus, TypeInv, BusyWithPacket
  <1>7. TypeOK'
    <2>1. opened' \in BOOLEAN /\ usesQueue' \in BOOLEAN /\ fault' \in BOOLEAN
      BY <1>1, <1>3, Types, Zenon
    <2>2. /\ openings' \in Nat /\ openings' <= MaxSessions /\ rate' \in Rates
          /\ get_wave' \in Seq(Kinds) /\ Len(get_wave') <= MaxCallbacks
          /\ ready' \in Seq(Units) /\ out' \in Seq(Units)
          /\ res' \in [1..MaxSessions -> Resamplers] /\ mix' \in [1..MaxSessions -> Mixers]
          /\ HostOK'
      BY <1>1, <1>2, Types, Zenon DEF hostVars, HostOK
    <2> QED
      BY <1>4, <1>5, <1>6, <2>1, <2>2, TypesNext, Zenon
  <1>8. BusyWithPacket'
    BY <1>2, <1>6 DEF TypeInv, BusyWithPacket
  <1> QED
    BY <1>7, <1>8 DEF TypeInv

\* The emulator thread resamples and outputs a packet itself.
LEMMA DirectTypes ==
  ASSUME TypeInv, Direct
  PROVE  TypeInv'
  <1>1. TypeOK
    BY DEF TypeInv
  <1>2. UNCHANGED <<openings, get_wave, sent, in, ready, res, mix>>
    BY DEF Direct
  <1>3. UNCHANGED <<opened, usesQueue, fault>>
    BY Zenon DEF Direct
  <1>4. NoPacket \notin Packets /\ NoPacket \in Packets \union {NoPacket}
    BY DEF NoPacket, Packets
  <1>5. emu \in Emus /\ (emu.pc \in Busy => emu.cur \in Packets)
    BY <1>1, Types DEF TypeInv, BusyWithPacket
  <1>6. /\ emu' \in Emus /\ (emu'.pc \in Busy => emu'.cur \in Packets)
        /\ rate' \in Rates /\ out' \in Seq(Units) /\ HostOK'
    <2>1. CASE /\ emu.pc = "resample"
               /\ rate' = emu.cur.rate
               /\ emu' = [emu EXCEPT !.pc = AfterAdopting(emu.cur.rate)]
               /\ UNCHANGED <<hostVars, out>>
      <3>1. emu.cur \in Packets
        BY <1>5, <2>1 DEF Busy
      <3>2. rate' \in Rates
        BY <2>1, <3>1 DEF Packets
      <3>3. AfterAdopting(emu.cur.rate) \in {"output", "flush"}
        BY DEF AfterAdopting
      <3>4. emu' \in Emus /\ emu'.cur = emu.cur
        BY <1>5, <2>1, <3>3 DEF Emus
      <3>5. out' \in Seq(Units) /\ HostOK'
        BY <1>1, <2>1, Types, Zenon DEF hostVars, HostOK
      <3> QED
        BY <3>1, <3>2, <3>4, <3>5
    <2>2. CASE /\ emu.pc = "flush" /\ set_pcm_params
               /\ emu' = [emu EXCEPT !.pc = "output"]
               /\ UNCHANGED <<rate, out>>
      <3>1. HostOK' /\ rate' \in Rates /\ out' \in Seq(Units)
        BY <1>1, <2>2, Types, OpenHost, Zenon DEF set_pcm_params
      <3>2. emu' \in Emus /\ emu'.cur = emu.cur /\ emu.cur \in Packets
        BY <1>5, <2>2 DEF Emus, Busy
      <3> QED
        BY <3>1, <3>2
    <2>3. CASE /\ emu.pc = "output"
               /\ submit(rate)
               /\ out' = out \o UnitsOf(emu.cur)
               /\ emu' = [pc |-> "running", cur |-> NoPacket]
               /\ UNCHANGED rate
      <3>1. HostOK' /\ rate' \in Rates
        BY <1>1, <2>3, Types, SubmitHost, Zenon
      <3>2. emu.cur \in Packets
        BY <1>5, <2>3 DEF Busy
      <3>3. out' \in Seq(Units)
        BY <1>1, <2>3, <3>2, Types, PacketsUnits, ConcatProperties
      <3>4. emu' \in Emus /\ emu'.pc = "running"
        BY <1>4, <2>3 DEF Emus
      <3> QED
        BY <3>1, <3>3, <3>4 DEF Busy
    <2> QED
      BY <2>1, <2>2, <2>3, Zenon DEF Direct
  <1>7. TypeOK'
    <2>1. opened' \in BOOLEAN /\ usesQueue' \in BOOLEAN /\ fault' \in BOOLEAN
      BY <1>1, <1>3, Types, Zenon
    <2>2. /\ openings' \in Nat /\ openings' <= MaxSessions
          /\ sent' \in Nat /\ sent' <= MaxPackets
          /\ get_wave' \in Seq(Kinds) /\ Len(get_wave') <= MaxCallbacks
          /\ in' \in Seq(Packets) /\ ready' \in Seq(Units)
          /\ res' \in [1..MaxSessions -> Resamplers] /\ mix' \in [1..MaxSessions -> Mixers]
      BY <1>1, <1>2, Types, Zenon
    <2> QED
      BY <1>6, <2>1, <2>2, TypesNext, Zenon
  <1>8. BusyWithPacket'
    BY <1>2, <1>6 DEF TypeInv, BusyWithPacket
  <1> QED
    BY <1>7, <1>8 DEF TypeInv

\* What a resampler thread's step has to keep.
LEMMA ResampleKeeps ==
  ASSUME TypeInv, NEW t \in Threads, UNCHANGED <<emuVars, mix, out>>,
         in' \in Seq(Packets), ready' \in Seq(Units), rate' \in Rates, HostOK',
         fault' \in BOOLEAN, NEW r \in Resamplers, r.pc \in Busy => r.cur \in Packets,
         res' = [res EXCEPT ![t] = r]
  PROVE  TypeInv'
  <1>1. TypeOK /\ UNCHANGED <<emu, openings, opened, usesQueue, get_wave, sent, mix, out>>
    BY Zenon DEF TypeInv, emuVars
  <1>2. t \in 1..MaxSessions /\ res \in [1..MaxSessions -> Resamplers]
    BY <1>1, ThreadStep, Types
  <1>3. /\ res' \in [1..MaxSessions -> Resamplers] /\ res'[t] = r
        /\ \A u \in 1..MaxSessions : u # t => res'[u] = res[u]
    BY <1>2
  <1>4. TypeOK'
    <2>1. /\ emu' \in Emus /\ openings' \in Nat /\ openings' <= MaxSessions
          /\ opened' \in BOOLEAN /\ usesQueue' \in BOOLEAN
          /\ get_wave' \in Seq(Kinds) /\ Len(get_wave') <= MaxCallbacks
          /\ sent' \in Nat /\ sent' <= MaxPackets
          /\ mix' \in [1..MaxSessions -> Mixers] /\ out' \in Seq(Units)
      BY <1>1, Types, Zenon
    <2> QED
      BY <1>3, <2>1, TypesNext, Zenon
  <1>5. BusyWithPacket'
    BY <1>1, <1>3 DEF TypeInv, BusyWithPacket
  <1> QED
    BY <1>4, <1>5 DEF TypeInv

\* get_buffer reads the head of the first queue.
LEMMA GetTypes ==
  ASSUME TypeInv, NEW t \in Threads, get_buffer(t)
  PROVE  TypeInv'
  <1> DEFINE r == [pc |-> "resample", cur |-> Head(in)]
  <1>1. /\ in # <<>> /\ res' = [res EXCEPT ![t] = r]
        /\ UNCHANGED <<emuVars, hostVars, rate, in, ready, mix, out>>
    BY DEF get_buffer
  <1>2. TypeOK /\ fault' = fault
    BY Zenon DEF TypeInv, get_buffer
  <1>3. Head(in) \in Packets
    BY <1>1, <1>2, Types, HeadTailProperties
  <1>4. r \in Resamplers /\ r.cur \in Packets
    BY <1>3 DEF Resamplers
  <1>5. /\ in' \in Seq(Packets) /\ ready' \in Seq(Units) /\ rate' \in Rates
        /\ HostOK' /\ fault' \in BOOLEAN
    BY <1>1, <1>2, Types, Zenon DEF hostVars, HostOK
  <1> HIDE DEF r
  <1> QED
    BY <1>1, <1>4, <1>5, ResampleKeeps, Zenon

\* A resampler adopts a rate, reopens the voice, copies a packet, or stops.
LEMMA ResamplerTypes ==
  ASSUME TypeInv, NEW t \in Threads, resampler(t)
  PROVE  TypeInv'
  <1>1. TypeOK /\ UNCHANGED <<emuVars, in, mix, out>>
    BY DEF TypeInv, resampler
  <1>2. /\ t \in 1..MaxSessions /\ res[t] \in Resamplers
        /\ res[t].pc \in Busy => res[t].cur \in Packets
    BY ThreadStep
  <1>3. /\ in' \in Seq(Packets) /\ ready \in Seq(Units) /\ rate \in Rates /\ HostOK
        /\ fault \in BOOLEAN /\ res \in [1..MaxSessions -> Resamplers]
    BY <1>1, Types, Zenon
  <1>4. CASE /\ res[t].pc = "resample"
             /\ rate' = res[t].cur.rate
             /\ res' = [res EXCEPT ![t].pc = AfterAdopting(res[t].cur.rate)]
             /\ UNCHANGED <<hostVars, ready, fault>>
    <2> DEFINE r == [res[t] EXCEPT !.pc = AfterAdopting(res[t].cur.rate)]
    <2>1. res[t].cur \in Packets
      BY <1>2, <1>4 DEF Busy
    <2>2. AfterAdopting(res[t].cur.rate) \in {"output", "flush"}
      BY DEF AfterAdopting
    <2>3. r \in Resamplers /\ r.cur \in Packets
      BY <1>2, <2>1, <2>2 DEF Resamplers
    <2>4. res' = [res EXCEPT ![t] = r]
      BY <1>4
    <2>5. rate' \in Rates
      BY <1>4, <2>1 DEF Packets
    <2>6. ready' \in Seq(Units) /\ HostOK' /\ fault' \in BOOLEAN
      BY <1>3, <1>4, Zenon DEF hostVars, HostOK
    <2> HIDE DEF r
    <2> QED
      BY <1>1, <1>3, <2>3, <2>4, <2>5, <2>6, ResampleKeeps, Zenon
  <1>5. CASE /\ res[t].pc = "flush" /\ set_pcm_params
             /\ res' = [res EXCEPT ![t].pc = "output"]
             /\ UNCHANGED <<rate, ready, fault>>
    <2> DEFINE r == [res[t] EXCEPT !.pc = "output"]
    <2>1. r \in Resamplers /\ r.cur \in Packets
      BY <1>2, <1>5 DEF Resamplers, Busy
    <2>2. res' = [res EXCEPT ![t] = r]
      BY <1>5
    <2>3. HostOK'
      BY <1>3, <1>5, OpenHost DEF set_pcm_params
    <2>4. ready' \in Seq(Units) /\ rate' \in Rates /\ fault' \in BOOLEAN
      BY <1>3, <1>5, Zenon
    <2> HIDE DEF r
    <2> QED
      BY <1>1, <1>3, <2>1, <2>2, <2>3, <2>4, ResampleKeeps, Zenon
  <1>6. CASE /\ res[t].pc = "output"
             /\ ready' = ready \o UnitsOf(res[t].cur)
             /\ res' = [res EXCEPT ![t].pc = "delete"]
             /\ UNCHANGED <<hostVars, rate, fault>>
    <2> DEFINE r == [res[t] EXCEPT !.pc = "delete"]
    <2>1. r \in Resamplers /\ r.cur \in Packets /\ res[t].cur \in Packets
      BY <1>2, <1>6 DEF Resamplers, Busy
    <2>2. res' = [res EXCEPT ![t] = r]
      BY <1>6
    <2>3. ready' \in Seq(Units)
      BY <1>3, <1>6, <2>1, PacketsUnits, ConcatProperties
    <2>4. HostOK' /\ rate' \in Rates /\ fault' \in BOOLEAN
      BY <1>3, <1>6, Zenon DEF hostVars, HostOK
    <2> HIDE DEF r
    <2> QED
      BY <1>1, <1>3, <2>1, <2>2, <2>3, <2>4, ResampleKeeps, Zenon
  <1>7. CASE fault' = TRUE /\ UNCHANGED <<hostVars, rate, ready, res>>
    <2>1. res' = [res EXCEPT ![t] = res[t]]
      BY <1>2, <1>3, <1>7
    <2>2. /\ ready' \in Seq(Units) /\ HostOK' /\ rate' \in Rates /\ fault' \in BOOLEAN
      BY <1>3, <1>7, Zenon DEF hostVars, HostOK
    <2> QED
      BY <1>1, <1>2, <1>3, <2>1, <2>2, ResampleKeeps, Zenon
  <1> QED
    BY <1>4, <1>5, <1>6, <1>7, Zenon DEF resampler

\* delete_buffer takes the head off the queue, or finds none.
LEMMA DeleteTypes ==
  ASSUME TypeInv, NEW t \in Threads, delete_buffer(t)
  PROVE  TypeInv'
  <1>1. TypeOK /\ UNCHANGED <<emuVars, mix, out>> /\ UNCHANGED <<hostVars, rate, ready>>
    BY DEF TypeInv, delete_buffer
  <1>2. t \in 1..MaxSessions /\ res[t] \in Resamplers
        /\ (res[t].pc \in Busy => res[t].cur \in Packets)
    BY ThreadStep
  <1>3. /\ ready' \in Seq(Units) /\ rate' \in Rates /\ HostOK'
    BY <1>1, Types, Zenon DEF hostVars, HostOK
  <1>4. CASE in = <<>>
    <2>1. fault' = TRUE /\ in' = in /\ res' = res
      BY <1>4, Zenon DEF delete_buffer
    <2>2. res' = [res EXCEPT ![t] = res[t]]
      BY <1>1, <1>2, <2>1, Types
    <2>3. in' \in Seq(Packets) /\ fault' \in BOOLEAN
      BY <1>1, <2>1, Types, Zenon
    <2> QED
      BY <1>1, <1>2, <1>3, <2>2, <2>3, ResampleKeeps, Zenon
  <1>5. CASE in # <<>>
    <2> DEFINE r == [pc |-> "poll", cur |-> NoPacket]
    <2>1. in' = Tail(in) /\ res' = [res EXCEPT ![t] = r]
      BY <1>5 DEF delete_buffer
    <2>2. fault' \in BOOLEAN
      BY <1>1, <1>5, Types, Zenon DEF delete_buffer
    <2>3. in' \in Seq(Packets)
      BY <1>1, <1>5, <2>1, Types, HeadTailProperties
    <2>4. r \in Resamplers /\ r.pc \notin Busy
      BY DEF Resamplers, Busy
    <2> HIDE DEF r
    <2> QED
      BY <1>1, <1>3, <2>1, <2>2, <2>3, <2>4, ResampleKeeps, Zenon
  <1> QED
    BY <1>4, <1>5

\* What a mixer thread's step has to keep.
LEMMA MixKeeps ==
  ASSUME TypeInv, NEW t \in Threads, UNCHANGED <<emuVars, rate, in, res, fault>>,
         ready' \in Seq(Units), out' \in Seq(Units), HostOK', NEW m \in Mixers,
         mix' = [mix EXCEPT ![t] = m]
  PROVE  TypeInv'
  <1>1. TypeOK /\ BusyWithPacket
        /\ UNCHANGED <<emu, openings, opened, usesQueue, get_wave, sent, rate, in, res, fault>>
    BY Zenon DEF TypeInv, emuVars
  <1>2. t \in 1..MaxSessions /\ mix \in [1..MaxSessions -> Mixers]
    BY <1>1, ThreadStep, Types
  <1>3. mix' \in [1..MaxSessions -> Mixers]
    BY <1>2
  <1>4. TypeOK'
    <2>1. /\ emu' \in Emus /\ openings' \in Nat /\ openings' <= MaxSessions
          /\ opened' \in BOOLEAN /\ usesQueue' \in BOOLEAN /\ fault' \in BOOLEAN
          /\ get_wave' \in Seq(Kinds) /\ Len(get_wave') <= MaxCallbacks
          /\ sent' \in Nat /\ sent' <= MaxPackets /\ rate' \in Rates
          /\ in' \in Seq(Packets) /\ res' \in [1..MaxSessions -> Resamplers]
      BY <1>1, Types, Zenon
    <2> QED
      BY <1>3, <2>1, TypesNext, Zenon
  <1>5. BusyWithPacket'
    BY <1>1, Zenon DEF BusyWithPacket
  <1> QED
    BY <1>4, <1>5 DEF TypeInv

\* What the mixer collects, and what is left of the second queue.
LEMMA Collected ==
  ASSUME TypeOK
  PROVE  /\ SubSeq(ready, 1, pcm_callback) \in Seq(Units)
         /\ SubSeq(ready, pcm_callback + 1, Len(ready)) \in Seq(Units)
         /\ SubSeq(ready, 1, pcm_callback) \o SubSeq(ready, pcm_callback + 1, Len(ready)) = ready
  <1> DEFINE c == pcm_callback
  <1>1. c \in Nat /\ c <= Len(ready)
    BY Copied
  <1>2. ready \in Seq(Units) /\ Len(ready) \in Nat
    BY Types, LenProperties
  <1> HIDE DEF c
  <1>3. \A i \in 1..Len(ready) : ready[i] \in Units
    BY <1>2, ElementOfSeq
  <1>4. SubSeq(ready, 1, c) \in Seq(Units)
    BY <1>1, <1>2, <1>3, SubSeqProperties
  <1>5. SubSeq(ready, c + 1, Len(ready)) \in Seq(Units)
    BY <1>1, <1>2, <1>3, SubSeqProperties
  <1>6. SubSeq(ready, 1, c) \o SubSeq(ready, c + 1, Len(ready)) = ready
    <2> DEFINE n == Len(ready)
    <2>1. 1 \in 1..(n + 1) /\ c \in (1 - 1)..n /\ n \in c..n
      BY <1>1, <1>2
    <2> HIDE DEF n
    <2>2. SubSeq(ready, 1, c) \o SubSeq(ready, c + 1, n) = SubSeq(ready, 1, n)
      BY <1>2, <2>1, ConcatAdjacentSubSeq DEF n
    <2> QED
      BY <1>2, <2>2, SubSeqFull DEF n
  <1> QED
    BY <1>4, <1>5, <1>6 DEF c

\* A mixer thread collects sound and outputs it.
LEMMA MixTypes ==
  ASSUME TypeInv, NEW t \in Threads, Mix(t)
  PROVE  TypeInv'
  <1>1. TypeOK /\ ready \in Seq(Units) /\ out \in Seq(Units) /\ HostOK /\ rate \in Rates
        /\ mix[t] \in Mixers
    BY Types, ThreadStep, Zenon DEF TypeInv
  <1>2. CASE mixer_common(t)
    <2> DEFINE m == [pc |-> "output", buf |-> SubSeq(ready, 1, pcm_callback)]
    <2>1. /\ mix' = [mix EXCEPT ![t] = m]
          /\ ready' = SubSeq(ready, pcm_callback + 1, Len(ready))
          /\ UNCHANGED <<emuVars, hostVars, rate, in, res, out, fault>>
      BY <1>2 DEF mixer_common
    <2>2. m \in Mixers /\ ready' \in Seq(Units)
      BY <1>1, <2>1, Collected DEF Mixers
    <2>3. HostOK' /\ out' \in Seq(Units)
      BY <1>1, <2>1, Zenon DEF hostVars, HostOK
    <2> HIDE DEF m
    <2> QED
      BY <2>1, <2>2, <2>3, MixKeeps, Zenon
  <1>3. CASE output(t)
    <2> DEFINE m == [pc |-> "mix", buf |-> <<>>]
    <2>1. mix' = [mix EXCEPT ![t] = m] /\ UNCHANGED <<emuVars, rate, in, ready, res, fault>>
      BY <1>3 DEF output
    <2>2. m \in Mixers
      BY DEF Mixers
    <2>3. HostOK' /\ out' \in Seq(Units)
      <3>1. CASE opened
        <4>1. submit(rate) /\ out' = out \o mix[t].buf
          BY <1>3, <3>1 DEF output
        <4>2. mix[t].buf \in Seq(Units)
          BY <1>1 DEF Mixers
        <4> QED
          BY <1>1, <4>1, <4>2, SubmitHost, ConcatProperties
      <3>2. CASE ~opened
        BY <1>1, <1>3, <3>2, Zenon DEF output, hostVars, HostOK
      <3> QED
        BY <3>1, <3>2
    <2>4. ready' \in Seq(Units)
      BY <1>1, <2>1, Zenon
    <2> HIDE DEF m
    <2> QED
      BY <2>1, <2>2, <2>3, <2>4, MixKeeps, Zenon
  <1> QED
    BY <1>2, <1>3 DEF Mix

\* Every step keeps the types and every thread at work its packet.
LEMMA TypeStep == TypeInv /\ [Next]_vars => TypeInv'
  <1> SUFFICES ASSUME TypeInv, [Next]_vars PROVE TypeInv'
    OBVIOUS
  <1>1. CASE UNCHANGED vars
    BY <1>1, Stutter
  <1>2. CASE openwaveoutput \/ init \/ exit
    BY <1>2, OpenTypes, InitTypes, ExitTypes
  <1>3. CASE \E r \in Rates : sendwavepacket(r)
    BY <1>3, SendTypes
  <1>4. CASE Direct \/ OnBufferEnd \/ Shutdown
    BY <1>4, DirectTypes, HostTypes
  <1>5. CASE \E t \in Threads : Resample(t) \/ Mix(t)
    BY <1>5, GetTypes, ResamplerTypes, DeleteTypes, MixTypes DEF Resample
  <1> QED
    BY <1>1, <1>2, <1>3, <1>4, <1>5, Zenon DEF Next

-----------------------------------------------------------------------------
(* The first session. *)

\* Who has what while there is one thread of each kind.
Alone ==
    /\ ~fault
    /\ openings = 0 => /\ res[1].pc = "none" /\ mix[1].pc = "none" /\ emu.pc = "off"
                       /\ get_wave = <<>> /\ ~opened
    /\ openings = 1 => usesQueue
    /\ emu.pc \in {"off", "opening", "running"}
    /\ ~opened => sent = 0 /\ emu.pc # "running"
    /\ mix[1].pc # "output" => mix[1].buf = <<>>
    /\ res[1].pc \in Busy => in # <<>> /\ res[1].cur = in[1]

\* Every packet sent is in the first queue or in line, where it belongs.
InOrder ==
    /\ Len(Line) + Len(Waiting) * PacketUnits = sent * PacketUnits
    /\ \A i \in DOMAIN Line : UnitNo(Line[i]) = i
    /\ \A k \in DOMAIN in : in[k].id + Len(in) = sent + k

\* The rate the second queue has, and the packet that is about to join it.
OneRate ==
    /\ \A i, j \in DOMAIN ready : ready[i].rate = ready[j].rate
    /\ ready # <<>> /\ res[1].pc # "flush" => ready[1].rate = rate
    /\ res[1].pc \in {"flush", "output", "delete"} => res[1].cur.rate = rate

FirstSession == openings <= 1 => Alone /\ InOrder /\ OneRate

SoundInv == TypeInv /\ FirstSession

\* Everything the three parts speak of.
heard == <<emu, openings, opened, usesQueue, get_wave, rate, sent, in, ready, res, mix, out, fault>>

\* A step the parts do not see.
LEMMA HeardSame ==
  ASSUME FirstSession, UNCHANGED heard
  PROVE  FirstSession'
  BY Zenon DEF FirstSession, heard, Alone, InOrder, OneRate, Line, Waiting

\* In the first session there is one thread of each kind.
LEMMA OneThread ==
  ASSUME TypeInv, openings <= 1, NEW t \in Threads
  PROVE  t = 1 /\ openings = 1
  <1>1. openings \in Nat /\ t \in 1..openings
    BY Types DEF TypeInv, Threads
  <1> QED
    BY <1>1

\* Units pass from one sequence to the next in any grouping.
LEMMA Assoc ==
  ASSUME NEW a \in Seq(Units), NEW b \in Seq(Units), NEW c \in Seq(Units)
  PROVE  (a \o b) \o c = a \o (b \o c)
  BY ConcatAssociative

\* The line, its length and the two steps it is made in.
LEMMA LineParts ==
  ASSUME TypeInv
  PROVE  /\ out \in Seq(Units) /\ mix[1].buf \in Seq(Units) /\ ready \in Seq(Units)
         /\ Line \in Seq(Units) /\ Line = out \o (mix[1].buf \o ready)
         /\ Len(Line) = Len(out) + Len(mix[1].buf) + Len(ready)
         /\ Len(out) \in Nat /\ Len(mix[1].buf) \in Nat /\ Len(ready) \in Nat
         /\ Len(in) \in Nat /\ in \in Seq(Packets)
  <1>1. out \in Seq(Units) /\ mix[1].buf \in Seq(Units) /\ ready \in Seq(Units)
        /\ in \in Seq(Packets)
    BY Types, Sizes DEF TypeInv, Mixers
  <1>2. /\ out \o mix[1].buf \in Seq(Units)
        /\ Len(out \o mix[1].buf) = Len(out) + Len(mix[1].buf)
    BY <1>1, ConcatProperties
  <1>3. Line \in Seq(Units) /\ Len(Line) = Len(out \o mix[1].buf) + Len(ready)
    BY <1>1, <1>2, ConcatProperties DEF Line
  <1>4. Line = out \o (mix[1].buf \o ready)
    <2>1. (out \o mix[1].buf) \o ready = out \o (mix[1].buf \o ready)
      BY <1>1, Assoc
    <2> QED
      BY <2>1, Zenon DEF Line
  <1>5. Len(out) \in Nat /\ Len(mix[1].buf) \in Nat /\ Len(ready) \in Nat /\ Len(in) \in Nat
    BY <1>1, LenProperties
  <1> QED
    BY <1>1, <1>2, <1>3, <1>4, <1>5, Zenon

\* The order stays what it is when neither the line nor the first queue moves.
LEMMA OrderKept ==
  ASSUME InOrder, Line' = Line, Waiting' = Waiting, in' = in, sent' = sent
  PROVE  InOrder'
  BY Zenon DEF InOrder, UnitNo

\* The end of a call of the emulator thread.
LEMMA EmuFirst ==
  ASSUME TypeInv, FirstSession, init \/ exit, openings' <= 1
  PROVE  (Alone /\ InOrder /\ OneRate)'
  <1>1. /\ UNCHANGED <<openings, sent, rate, in, ready, res, mix, out>>
        /\ emu.pc # "off" /\ emu'.pc \in {"off", "running"}
    <2>1. /\ UNCHANGED <<openings, sent, rate, in, ready, res, mix, out>>
      BY DEF init, exit
    <2>2. emu \in Emus
      BY Types DEF TypeInv
    <2>3. emu.pc # "off" /\ emu'.pc \in {"off", "running"}
      BY <2>2 DEF init, exit, Emus
    <2> QED
      BY <2>1, <2>3
  <1>2. UNCHANGED <<usesQueue, fault>>
    BY Zenon DEF init, exit
  <1>3. Alone /\ InOrder /\ OneRate
    BY <1>1, Zenon DEF FirstSession
  <1>4. openings # 0
    BY <1>1, <1>3 DEF Alone
  <1>5. opened'
    <2>1. CASE init
      BY <2>1, Zenon DEF init
    <2>2. CASE exit
      <3>1. opened' = opened /\ emu.pc = "running"
        BY <2>2, Zenon DEF exit
      <3> QED
        BY <1>3, <3>1, Zenon DEF Alone
    <2> QED
      BY <2>1, <2>2
  <1>6. Alone'
    <2>1. ~fault' /\ (openings' = 1 => usesQueue')
      BY <1>1, <1>2, <1>3, Zenon DEF Alone
    <2>2. openings' # 0 /\ emu'.pc \in {"off", "opening", "running"}
      BY <1>1, <1>4
    <2>3. /\ mix'[1].pc # "output" => mix'[1].buf = <<>>
          /\ res'[1].pc \in Busy => in' # <<>> /\ res'[1].cur = in'[1]
      BY <1>1, <1>3, Zenon DEF Alone
    <2> QED
      BY <1>5, <2>1, <2>2, <2>3, Zenon DEF Alone
  <1>7. OneRate'
    BY <1>1, <1>3, Zenon DEF OneRate
  <1>8. InOrder'
    BY <1>1, <1>3, OrderKept, Zenon DEF Line, Waiting
  <1> QED
    BY <1>6, <1>7, <1>8

\* The first opening starts both threads, with nothing to do.
LEMMA OpenFirst ==
  ASSUME TypeInv, FirstSession, openwaveoutput, openings' <= 1
  PROVE  (Alone /\ InOrder /\ OneRate)'
  <1>1. openings = 0 /\ openings' = 1
    BY Types DEF TypeInv, openwaveoutput
  <1>2. Alone /\ InOrder /\ OneRate
    BY <1>1 DEF FirstSession
  <1>3. /\ UNCHANGED <<sent, rate, in, ready, out>>
        /\ res' = [res EXCEPT ![1].pc = "poll"]
        /\ mix' = [mix EXCEPT ![1].pc = "mix"]
        /\ emu' = [emu EXCEPT !.pc = "opening"]
    BY <1>1 DEF openwaveoutput
  <1>4. UNCHANGED <<opened, fault>>
    BY Zenon DEF openwaveoutput
  <1>5. res[1].pc = "none" /\ mix[1].pc = "none" /\ get_wave = <<>>
    BY <1>1, <1>2 DEF Alone
  <1>6. ~opened /\ ~fault /\ sent = 0
    BY <1>1, <1>2, Zenon DEF Alone
  <1>7. usesQueue'
    <2>1. Len(get_wave) < MaxCallbacks
      BY <1>5, Sizes, EmptySeq
    <2> QED
      BY <2>1, Zenon DEF openwaveoutput
  <1>8. /\ res'[1].pc = "poll" /\ mix'[1].pc = "mix" /\ mix'[1].buf = mix[1].buf
        /\ emu'.pc = "opening"
    <2>1. /\ 1 \in 1..MaxSessions /\ res \in [1..MaxSessions -> Resamplers]
          /\ mix \in [1..MaxSessions -> Mixers] /\ emu \in Emus
      BY Types, Sizes DEF TypeInv
    <2> QED
      BY <1>3, <2>1 DEF Resamplers, Mixers, Emus
  <1>9. Alone'
    <2>1. mix'[1].buf = <<>>
      BY <1>2, <1>5, <1>8 DEF Alone
    <2>2. openings' # 0 /\ emu'.pc \in {"off", "opening", "running"} /\ emu'.pc # "running"
          /\ res'[1].pc \notin Busy
      BY <1>1, <1>8 DEF Busy
    <2>3. ~fault' /\ sent' = 0
      BY <1>3, <1>4, <1>6, Zenon
    <2> QED
      BY <1>7, <2>1, <2>2, <2>3, Zenon DEF Alone
  <1>10. InOrder'
    <2>1. Line' = Line /\ Waiting' = Waiting
      BY <1>3, <1>5, <1>8 DEF Line, Waiting
    <2> QED
      BY <1>2, <1>3, <2>1, OrderKept
  <1>11. OneRate'
    <2>1. ready' = ready /\ rate' = rate /\ res[1].pc # "flush"
          /\ res'[1].pc \notin {"flush", "output", "delete"}
      BY <1>3, <1>5, <1>8
    <2> QED
      BY <1>2, <2>1, Zenon DEF OneRate
  <1> QED
    BY <1>9, <1>10, <1>11
\* Arithmetic on numbers of packets.
LEMMA Distributes ==
  ASSUME NEW a \in Nat, NEW b \in Nat, NEW u \in Nat
  PROVE  (a + b) * u = a * u + b * u /\ 1 * u = u /\ a * u \in Nat
  OBVIOUS

\* A packet that is sent joins the end of the first queue.
LEMMA SendFirst ==
  ASSUME TypeInv, FirstSession, NEW r \in Rates, sendwavepacket(r), openings' <= 1
  PROVE  (Alone /\ InOrder /\ OneRate)'
  <1> DEFINE p == [id |-> sent + 1, rate |-> r]
  <1>1. /\ emu.pc = "running" /\ sent < MaxPackets /\ sent' = sent + 1
        /\ UNCHANGED <<openings, get_wave, rate, ready, res, mix, out>>
    BY DEF sendwavepacket
  <1>2. UNCHANGED <<opened, usesQueue, fault>>
    BY Zenon DEF sendwavepacket
  <1>3. Alone /\ InOrder /\ OneRate
    BY <1>1, Zenon DEF FirstSession
  <1>4. openings = 1
    <2>1. openings # 0 /\ openings \in Nat /\ openings <= 1
      BY <1>1, <1>3, Types DEF Alone, TypeInv
    <2> QED
      BY <2>1
  <1>5. usesQueue /\ opened
    BY <1>1, <1>3, <1>4, Zenon DEF Alone
  <1>6. in' = Append(in, p) /\ emu' = emu
    BY <1>5 DEF sendwavepacket
  <1>7. in \in Seq(Packets) /\ Len(in) \in Nat /\ sent \in Nat /\ p \in Packets
    BY <1>1, Types, LenProperties, Sizes DEF TypeInv, Packets
  <1>8. p.id = sent + 1
    OBVIOUS
  <1> HIDE DEF p
  <1>9. /\ Len(in') = Len(in) + 1 /\ in' \in Seq(Packets)
        /\ \A k \in 1..Len(in) : in'[k] = in[k]
        /\ in'[Len(in) + 1] = p
    BY <1>6, <1>7, AppendProperties
  <1>10. Alone'
    <2>1. res'[1].pc \in Busy => in' # <<>> /\ res'[1].cur = in'[1]
      <3>1. SUFFICES ASSUME res[1].pc \in Busy
                     PROVE  in' # <<>> /\ res[1].cur = in'[1]
        BY <1>1
      <3>2. in # <<>> /\ res[1].cur = in[1]
        BY <1>3, <3>1 DEF Alone
      <3>3. Len(in) >= 1
        BY <1>7, <3>2, EmptySeq
      <3> QED
        BY <1>7, <1>9, <3>2, <3>3, EmptySeq
    <2>2. opened' /\ usesQueue' /\ ~fault' /\ openings' # 0
      BY <1>1, <1>2, <1>3, <1>4, <1>5, Zenon DEF Alone
    <2>3. /\ emu'.pc \in {"off", "opening", "running"}
          /\ mix'[1].pc # "output" => mix'[1].buf = <<>>
      BY <1>1, <1>3, <1>6, Zenon DEF Alone
    <2> QED
      BY <2>1, <2>2, <2>3, Zenon DEF Alone
  <1>11. Len(Waiting') = Len(Waiting) + 1 /\ Len(Waiting) \in Nat
    <2>1. CASE res[1].pc = "delete"
      <3>1. in # <<>>
        BY <1>3, <2>1 DEF Alone, Busy
      <3>2. in' # <<>>
        BY <1>7, <1>9, EmptySeq
      <3>3. Len(Tail(in)) = Len(in) - 1 /\ Len(Tail(in')) = Len(in') - 1 /\ Len(in) >= 1
        BY <1>7, <1>9, <3>1, <3>2, HeadTailProperties, EmptySeq
      <3>4. Waiting = Tail(in) /\ Waiting' = Tail(in')
        BY <1>1, <2>1 DEF Waiting
      <3> QED
        BY <1>7, <1>9, <3>3, <3>4
    <2>2. CASE res[1].pc # "delete"
      BY <1>1, <1>7, <1>9, <2>2 DEF Waiting
    <2> QED
      BY <2>1, <2>2
  <1>12. InOrder'
    <2>1. Line' = Line
      BY <1>1, Zenon DEF Line
    <2>2. Len(Line') + Len(Waiting') * PacketUnits = sent' * PacketUnits
      <3>1. /\ (Len(Waiting) + 1) * PacketUnits = Len(Waiting) * PacketUnits + PacketUnits
            /\ (sent + 1) * PacketUnits = sent * PacketUnits + PacketUnits
            /\ Len(Waiting) * PacketUnits \in Nat /\ sent * PacketUnits \in Nat
        BY <1>7, <1>11, Distributes, Sizes
      <3>2. Len(Line) + Len(Waiting) * PacketUnits = sent * PacketUnits /\ Len(Line) \in Nat
        BY <1>3, LineParts, LenProperties DEF InOrder
      <3> QED
        BY <1>1, <1>11, <2>1, <3>1, <3>2, Sizes
    <2>3. \A k \in DOMAIN in' : in'[k].id + Len(in') = sent' + k
      <3> SUFFICES ASSUME NEW k \in 1..(Len(in) + 1)
                   PROVE  in'[k].id + Len(in') = sent' + k
        BY <1>7, <1>9, LenProperties
      <3>1. CASE k = Len(in) + 1
        BY <1>1, <1>7, <1>8, <1>9, <3>1
      <3>2. CASE k # Len(in) + 1
        <4>1. k \in 1..Len(in)
          BY <1>7, <3>2
        <4>2. in[k].id + Len(in) = sent + k /\ in[k].id \in Nat
          <5>1. k \in DOMAIN in
            BY <1>7, <4>1, LenProperties
          <5>2. in[k] \in Packets
            BY <1>7, <4>1, ElementOfSeq
          <5>3. in[k].id + Len(in) = sent + k
            BY <1>3, <5>1, Zenon DEF InOrder
          <5> QED
            BY <5>2, <5>3, Sizes DEF Packets
        <4>3. in'[k] = in[k] /\ Len(in') = Len(in) + 1 /\ sent' = sent + 1
          BY <1>1, <1>9, <4>1, Zenon
        <4>4. in'[k].id = in[k].id
          BY <4>3, Zenon
        <4> QED
          BY <1>7, <4>1, <4>2, <4>3, <4>4
      <3> QED
        BY <3>1, <3>2
    <2>4. \A i \in DOMAIN Line' : UnitNo(Line'[i]) = i
      BY <1>3, <2>1 DEF InOrder
    <2> QED
      BY <2>2, <2>3, <2>4, Zenon DEF InOrder, UnitNo
  <1>13. OneRate'
    BY <1>1, <1>3, Zenon DEF OneRate
  <1> QED
    BY <1>10, <1>12, <1>13

\* The resampler takes up the head of the first queue.
LEMMA GetFirst ==
  ASSUME TypeInv, FirstSession, openings' <= 1, get_buffer(1), openings = 1
  PROVE  (Alone /\ InOrder /\ OneRate)'
  <1>1. /\ res[1].pc = "poll" /\ in # <<>>
        /\ res' = [res EXCEPT ![1] = [pc |-> "resample", cur |-> Head(in)]]
        /\ UNCHANGED <<emuVars, rate, in, ready, mix, out>>
    BY DEF get_buffer
  <1>2. fault' = fault /\ UNCHANGED <<emu, openings, opened, usesQueue, get_wave, sent>>
    BY Zenon DEF get_buffer, emuVars
  <1>3. Alone /\ InOrder /\ OneRate
    BY <1>2, Zenon DEF FirstSession
  <1>4. res'[1] = [pc |-> "resample", cur |-> Head(in)]
    BY <1>1, Types, Sizes DEF TypeInv
  <1>5. Alone'
    <2>1. in' # <<>> /\ res'[1].cur = in'[1]
      BY <1>1, <1>4
    <2>2. res'[1].pc \in Busy => in' # <<>> /\ res'[1].cur = in'[1]
      BY <2>1, Zenon
    <2>3. openings' # 0 /\ emu' = emu /\ mix' = mix
      BY <1>1, <1>2
    <2> QED
      BY <1>2, <1>3, <2>2, <2>3, Zenon DEF Alone
  <1>6. InOrder'
    <2>1. Line' = Line /\ Waiting' = Waiting
      BY <1>1, <1>4 DEF Line, Waiting
    <2> QED
      BY <1>1, <1>2, <1>3, <2>1, OrderKept
  <1>7. OneRate'
    <2>1. ready' = ready /\ rate' = rate /\ res[1].pc # "flush"
          /\ res'[1].pc \notin {"flush", "output", "delete"}
      BY <1>1, <1>4
    <2> QED
      BY <1>3, <2>1, Zenon DEF OneRate
  <1> QED
    BY <1>5, <1>6, <1>7
\* The resampler of the only session works on the packet that is next.
LEMMA AtHead ==
  ASSUME TypeInv, FirstSession, openings = 1, res[1].pc \in Busy
  PROVE  /\ in \in Seq(Packets) /\ Len(in) \in Nat /\ Len(in) >= 1 /\ 1 \in DOMAIN in
         /\ res[1].cur = in[1] /\ in[1] \in Packets /\ in # <<>>
         /\ in[1].id \in Nat /\ in[1].id + Len(in) = sent + 1
         /\ ~Deleted(res[1].cur)
  <1>1. Alone /\ InOrder
    BY DEF FirstSession
  <1>2. in \in Seq(Packets) /\ Len(in) \in Nat
    BY Types, LenProperties DEF TypeInv
  <1>3. res[1].cur = in[1] /\ in # <<>>
    BY <1>1 DEF Alone
  <1>4. Len(in) >= 1 /\ 1 \in DOMAIN in
    BY <1>2, <1>3, EmptySeq, LenProperties
  <1>5. in[1] \in Packets
    BY <1>2, <1>4, ElementOfSeq, LenProperties
  <1>6. in[1].id + Len(in) = sent + 1
    BY <1>1, <1>4, Zenon DEF InOrder
  <1>7. in[1].id \in Nat
    BY <1>5, Sizes DEF Packets
  <1>8. ~Deleted(res[1].cur)
    BY <1>3, <1>4, Zenon DEF Deleted
  <1> QED
    BY <1>2, <1>3, <1>4, <1>5, <1>6, <1>7, <1>8

\* What a step of a thread has to keep of Alone.
LEMMA AloneStays ==
  ASSUME TypeInv, Alone, openings = 1, UNCHANGED <<emuVars, fault>>,
         mix'[1].pc # "output" => mix'[1].buf = <<>>,
         res'[1].pc \in Busy => in' # <<>> /\ res'[1].cur = in'[1]
  PROVE  Alone'
  <1>1. UNCHANGED <<emu, openings, opened, usesQueue, get_wave, sent, fault>>
    BY Zenon DEF emuVars
  <1>2. openings' # 0 /\ emu'.pc \in {"off", "opening", "running"}
    BY <1>1 DEF Alone
  <1>3. ~fault' /\ usesQueue' /\ (~opened' => sent' = 0 /\ emu'.pc # "running")
    <2>1. ~fault /\ usesQueue
      BY Zenon DEF Alone
    <2>2. ~opened => sent = 0 /\ emu.pc # "running"
      BY Zenon DEF Alone
    <2>3. fault' = fault /\ usesQueue' = usesQueue /\ opened' = opened
      BY <1>1, Zenon
    <2>4. sent' = sent /\ emu' = emu
      BY <1>1, Zenon
    <2>5. ~fault' /\ usesQueue'
      BY <2>1, <2>3
    <2>6. ASSUME ~opened' PROVE sent' = 0 /\ emu'.pc # "running"
      <3>1. ~opened
        BY <2>3, <2>6
      <3>2. sent = 0 /\ emu.pc # "running"
        BY <2>2, <3>1, Zenon
      <3> QED
        BY <2>4, <3>2
    <2> QED
      BY <2>5, <2>6, Zenon
  <1> QED
    BY <1>2, <1>3, Zenon DEF Alone

\* The resampler's steps other than its last, which leave the queue alone.
LEMMA AloneKept ==
  ASSUME TypeInv, Alone, openings = 1, UNCHANGED <<emuVars, mix, in, fault>>,
         res'[1].pc \in Busy => in # <<>> /\ res'[1].cur = in[1]
  PROVE  Alone'
  <1>1. mix'[1].pc # "output" => mix'[1].buf = <<>>
    BY Zenon DEF Alone
  <1> QED
    BY <1>1, AloneStays, Zenon

\* The resampler adopts a rate.
LEMMA AdoptFirst ==
  ASSUME TypeInv, FirstSession, openings = 1,
         UNCHANGED <<emuVars, in, mix, out>>,
         res[1].pc = "resample", rate' = res[1].cur.rate,
         res' = [res EXCEPT ![1].pc = AfterAdopting(res[1].cur.rate)],
         UNCHANGED <<hostVars, ready, fault>>
  PROVE  (Alone /\ InOrder /\ OneRate)'
  <1>1. Alone /\ InOrder /\ OneRate
    BY DEF FirstSession
  <1>2. res[1].pc \in Busy
    BY DEF Busy
  <1>3. res'[1].pc = AfterAdopting(res[1].cur.rate) /\ res'[1].cur = res[1].cur
    BY Types, Sizes DEF TypeInv, Resamplers
  <1>4. Alone'
    BY <1>1, <1>2, <1>3, AtHead, AloneKept, Zenon
  <1>5. InOrder'
    <2>1. Line' = Line /\ Waiting' = Waiting
      BY <1>3 DEF Line, Waiting, AfterAdopting
    <2>2. in' = in /\ sent' = sent
      BY Zenon DEF emuVars
    <2> QED
      BY <1>1, <2>1, <2>2, OrderKept
  <1>6. OneRate'
    <2>1. ready' = ready /\ res[1].pc # "flush" /\ res'[1].pc # "delete"
      BY <1>3 DEF AfterAdopting
    <2>2. res'[1].pc # "flush" => rate' = rate
      BY <1>3 DEF AfterAdopting
    <2>3. res'[1].cur.rate = rate'
      BY <1>3, Zenon
    <2> QED
      BY <1>1, <2>1, <2>2, <2>3, Zenon DEF OneRate
  <1> QED
    BY <1>4, <1>5, <1>6

\* The resampler has waited for the second queue to run dry.
LEMMA FlushFirst ==
  ASSUME TypeInv, FirstSession, openings = 1,
         UNCHANGED <<emuVars, in, mix, out>>,
         res[1].pc = "flush", set_pcm_params,
         res' = [res EXCEPT ![1].pc = "output"],
         UNCHANGED <<rate, ready, fault>>
  PROVE  (Alone /\ InOrder /\ OneRate)'
  <1>1. Alone /\ InOrder /\ OneRate
    BY DEF FirstSession
  <1>2. res[1].pc \in Busy /\ ready = <<>>
    BY DEF Busy, set_pcm_params
  <1>3. res'[1].pc = "output" /\ res'[1].cur = res[1].cur
    BY Types, Sizes DEF TypeInv, Resamplers
  <1>4. Alone'
    BY <1>1, <1>2, <1>3, AtHead, AloneKept, Zenon
  <1>5. InOrder'
    <2>1. Line' = Line /\ Waiting' = Waiting
      BY <1>3 DEF Line, Waiting
    <2>2. in' = in /\ sent' = sent
      BY Zenon DEF emuVars
    <2> QED
      BY <1>1, <2>1, <2>2, OrderKept
  <1>6. OneRate'
    BY <1>1, <1>2, <1>3, Zenon DEF OneRate
  <1> QED
    BY <1>4, <1>5, <1>6

\* The packet numbered x, with l packets from it on to the last of s, starts
\* after the n units of those before it.
LEMMA Position ==
  ASSUME NEW x \in Nat, NEW l \in Nat, NEW s \in Nat, NEW u \in Nat, NEW n \in Nat,
         x + l = s + 1, x >= 1, n + l * u = s * u
  PROVE  (x - 1) * u = n /\ x - 1 \in Nat
  <1> DEFINE b == x - 1
  <1>1. b \in Nat /\ s = b + l
    OBVIOUS
  <1> HIDE DEF b
  <1>2. s * u = b * u + l * u
    BY <1>1, Distributes
  <1>3. b * u \in Nat /\ l * u \in Nat
    BY <1>1, Distributes
  <1>4. b * u = n
    BY <1>2, <1>3
  <1> QED
    BY <1>1, <1>4 DEF b

\* Copying a packet's units makes the line longer and the queue shorter.
LEMMA OneFewer ==
  ASSUME NEW l \in Nat, NEW s \in Nat, NEW u \in Nat, NEW n \in Nat,
         l >= 1, n + l * u = s * u
  PROVE  (n + u) + (l - 1) * u = s * u
  <1> DEFINE b == l - 1
  <1>1. b \in Nat /\ l = b + 1
    OBVIOUS
  <1> HIDE DEF b
  <1>2. l * u = b * u + u /\ b * u \in Nat
    BY <1>1, Distributes
  <1>3. (n + u) + b * u = s * u
    BY <1>2
  <1> QED
    BY <1>3 DEF b

\* Joining sequences of one rate.
LEMMA JoinRates ==
  ASSUME NEW a \in Seq(Units), NEW b \in Seq(Units), NEW r,
         \A i \in DOMAIN a : a[i].rate = r, \A i \in 1..Len(b) : b[i].rate = r
  PROVE  \A i \in DOMAIN (a \o b) : (a \o b)[i].rate = r
  <1>1. /\ Len(a) \in Nat /\ Len(b) \in Nat /\ DOMAIN a = 1..Len(a)
        /\ a \o b \in Seq(Units) /\ Len(a \o b) = Len(a) + Len(b)
        /\ \A i \in 1..(Len(a) + Len(b)) :
              (a \o b)[i] = IF i <= Len(a) THEN a[i] ELSE b[i - Len(a)]
    BY ConcatProperties, LenProperties
  <1>2. DOMAIN (a \o b) = 1..(Len(a) + Len(b))
    BY <1>1, LenProperties
  <1>3. ASSUME NEW i \in 1..(Len(a) + Len(b)) PROVE (a \o b)[i].rate = r
    <2>1. CASE i <= Len(a)
      BY <1>1, <2>1
    <2>2. CASE i > Len(a)
      <3>1. i - Len(a) \in 1..Len(b)
        BY <1>1, <2>2
      <3>2. (a \o b)[i] = b[i - Len(a)]
        BY <1>1, <2>2
      <3> QED
        BY <3>1, <3>2
    <2> QED
      BY <1>1, <2>1, <2>2
  <1> QED
    BY <1>2, <1>3

\* The packet at the head of the queue is the one that is next in line.
LEMMA NextInLine ==
  ASSUME Len(Line) + Len(in) * PacketUnits = sent * PacketUnits,
         in[1].id + Len(in) = sent + 1, in[1].id >= 1, Len(in) >= 1,
         in[1].id \in Nat, Len(in) \in Nat, sent \in Nat, Len(Line) \in Nat
  PROVE  /\ (in[1].id - 1) * PacketUnits = Len(Line) /\ in[1].id - 1 \in Nat
         /\ (Len(Line) + PacketUnits) + (Len(in) - 1) * PacketUnits = sent * PacketUnits
  <1> DEFINE x == in[1].id
             l == Len(in)
             n == Len(Line)
  <1>1. /\ x \in Nat /\ l \in Nat /\ sent \in Nat /\ n \in Nat /\ PacketUnits \in Nat
        /\ x + l = sent + 1 /\ x >= 1 /\ l >= 1
        /\ n + l * PacketUnits = sent * PacketUnits
    BY Sizes
  <1> HIDE DEF x, l, n
  <1>2. (x - 1) * PacketUnits = n /\ x - 1 \in Nat
    BY <1>1, Position
  <1>3. (n + PacketUnits) + (l - 1) * PacketUnits = sent * PacketUnits
    BY <1>1, OneFewer
  <1> QED
    BY <1>2, <1>3 DEF x, l, n

\* The packet's units take their places at the end of the line.
LEMMA CopyFirst ==
  ASSUME TypeInv, FirstSession, openings = 1,
         UNCHANGED <<emuVars, in, mix, out>>,
         res[1].pc = "output",
         ready' = ready \o UnitsOf(res[1].cur),
         res' = [res EXCEPT ![1].pc = "delete"],
         UNCHANGED <<hostVars, rate, fault>>
  PROVE  (Alone /\ InOrder /\ OneRate)'
  <1> DEFINE U == UnitsOf(res[1].cur)
  <1>1. Alone /\ InOrder /\ OneRate
    BY DEF FirstSession
  <1>2. res[1].pc \in Busy
    BY DEF Busy
  <1>3. res'[1].pc = "delete" /\ res'[1].cur = res[1].cur
    BY Types, Sizes DEF TypeInv, Resamplers
  <1>4. Alone'
    BY <1>1, <1>2, <1>3, AtHead, AloneKept, Zenon
  <1>5. /\ U \in Seq(Units) /\ Len(U) = PacketUnits
        /\ \A n \in 1..PacketUnits : /\ U[n].id = in[1].id /\ U[n].n = n
                                     /\ U[n].rate = res[1].cur.rate
    BY <1>2, AtHead, PacketsUnits
  <1> HIDE DEF U
  <1>6. ready' = ready \o U
    BY DEF U
  <1>7. sent' = sent /\ in' = in
    BY DEF emuVars
  <1>8. Line' = Line \o U
    <2>1. Line' = (out \o mix[1].buf) \o (ready \o U)
      BY <1>6, Zenon DEF Line
    <2>2. out \o mix[1].buf \in Seq(Units)
      BY LineParts, ConcatProperties
    <2>3. ((out \o mix[1].buf) \o ready) \o U = (out \o mix[1].buf) \o (ready \o U)
      BY <1>5, <2>2, LineParts, Assoc
    <2>4. Line = (out \o mix[1].buf) \o ready
      BY Zenon DEF Line
    <2> QED
      BY <2>1, <2>3, <2>4
  <1>9. /\ Len(Line') = Len(Line) + PacketUnits /\ Len(Line) \in Nat /\ Line' \in Seq(Units)
        /\ \A i \in 1..(Len(Line) + PacketUnits) :
              Line'[i] = IF i <= Len(Line) THEN Line[i] ELSE U[i - Len(Line)]
    <2>1. Line \in Seq(Units) /\ Len(Line) \in Nat
      BY LineParts, LenProperties
    <2> QED
      BY <1>5, <1>8, <2>1, ConcatProperties
  <1>10. /\ Len(in) \in Nat /\ Len(in) >= 1 /\ in[1].id \in Nat /\ sent \in Nat
         /\ in[1].id + Len(in) = sent + 1
         /\ Waiting = in /\ Waiting' = Tail(in) /\ Len(Tail(in)) = Len(in) - 1
    <2>1. /\ Len(in) \in Nat /\ Len(in) >= 1 /\ in[1].id \in Nat /\ sent \in Nat
          /\ in[1].id + Len(in) = sent + 1
      BY <1>2, AtHead, Types DEF TypeInv
    <2>2. Waiting = in /\ Waiting' = Tail(in)
      BY <1>3, <1>7 DEF Waiting
    <2>3. Len(Tail(in)) = Len(in) - 1
      BY <1>2, AtHead, HeadTailProperties
    <2> QED
      BY <2>1, <2>2, <2>3
  <1>11. /\ (in[1].id - 1) * PacketUnits = Len(Line) /\ in[1].id - 1 \in Nat
         /\ (Len(Line) + PacketUnits) + (Len(in) - 1) * PacketUnits = sent * PacketUnits
    <2>1. in[1].id >= 1
      <3>1. in[1] \in Packets
        BY <1>2, AtHead
      <3> QED
        BY <3>1, Sizes DEF Packets
    <2>2. Len(Line) + Len(in) * PacketUnits = sent * PacketUnits
      BY <1>1, <1>10, Zenon DEF InOrder
    <2> QED
      BY <1>9, <1>10, <2>1, <2>2, NextInLine, Zenon
  <1>12. InOrder'
    <2>1. Len(Line') + Len(Waiting') * PacketUnits = sent' * PacketUnits
      BY <1>7, <1>9, <1>10, <1>11, Zenon
    <2>2. \A i \in DOMAIN Line' : UnitNo(Line'[i]) = i
      <3> SUFFICES ASSUME NEW i \in 1..(Len(Line) + PacketUnits)
                   PROVE  UnitNo(Line'[i]) = i
        BY <1>9, LenProperties
      <3>1. CASE i <= Len(Line)
        <4>1. i \in DOMAIN Line /\ Line'[i] = Line[i]
          BY <1>9, <3>1, LineParts, LenProperties
        <4> QED
          BY <1>1, <4>1, Zenon DEF InOrder
      <3>2. CASE i > Len(Line)
        <4>1. i - Len(Line) \in 1..PacketUnits /\ Line'[i] = U[i - Len(Line)]
          BY <1>9, <3>2, Sizes
        <4>2. Line'[i].id = in[1].id /\ Line'[i].n = i - Len(Line)
          BY <1>5, <4>1
        <4>3. UnitNo(Line'[i]) = (in[1].id - 1) * PacketUnits + (i - Len(Line))
          BY <4>2, Zenon DEF UnitNo
        <4> QED
          BY <1>9, <1>11, <4>3
      <3> QED
        BY <1>9, <3>1, <3>2
    <2>3. \A k \in DOMAIN in' : in'[k].id + Len(in') = sent' + k
      BY <1>1, <1>7, Zenon DEF InOrder
    <2> QED
      BY <2>1, <2>2, <2>3, Zenon DEF InOrder, UnitNo
  <1>13. OneRate'
    <2>1. res[1].cur.rate = rate /\ rate' = rate
      BY <1>1, Zenon DEF OneRate
    <2>2. /\ ready \in Seq(Units) /\ Len(ready) \in Nat /\ DOMAIN ready = 1..Len(ready)
          /\ \A i \in DOMAIN ready : ready[i].rate = rate
      <3>1. ready \in Seq(Units) /\ Len(ready) \in Nat /\ DOMAIN ready = 1..Len(ready)
        BY LineParts, LenProperties
      <3>2. ASSUME NEW i \in DOMAIN ready PROVE ready[i].rate = rate
        <4>1. ready # <<>> /\ 1 \in DOMAIN ready
          BY <3>1, <3>2, EmptySeq
        <4>2. ready[1].rate = rate
          BY <1>1, <4>1 DEF OneRate
        <4>3. ready[i].rate = ready[1].rate
          BY <1>1, <4>1, Zenon DEF OneRate
        <4> QED
          BY <4>2, <4>3
      <3> QED
        BY <3>1, <3>2
    <2>3. \A i \in 1..Len(U) : U[i].rate = rate
      BY <1>5, <2>1, Zenon
    <2>4. \A i \in DOMAIN ready' : ready'[i].rate = rate
      <3>1. \A i \in DOMAIN (ready \o U) : (ready \o U)[i].rate = rate
        BY <1>5, <2>2, <2>3, JoinRates
      <3> QED
        BY <1>6, <3>1, Zenon
    <2>5. 1 \in DOMAIN ready'
      <3>1. /\ ready \o U \in Seq(Units) /\ Len(ready \o U) = Len(ready) + PacketUnits
        BY <1>5, <2>2, ConcatProperties, Zenon
      <3>2. Len(ready) + PacketUnits >= 1 /\ Len(ready) + PacketUnits \in Nat
        BY <2>2, Sizes
      <3>3. DOMAIN ready' = 1..(Len(ready) + PacketUnits)
        BY <1>6, <3>1, LenProperties, Zenon
      <3> QED
        BY <3>2, <3>3
    <2>7. \A i, j \in DOMAIN ready' : ready'[i].rate = ready'[j].rate
      BY <2>4, Zenon
    <2>8. ready'[1].rate = rate' /\ res'[1].cur.rate = rate'
      BY <1>3, <2>1, <2>4, <2>5, Zenon
    <2> QED
      BY <2>7, <2>8, Zenon DEF OneRate
  <1> QED
    BY <1>4, <1>12, <1>13

\* The resampler's step, whichever it is: the packet is never a deleted one.
LEMMA ResamplerFirst ==
  ASSUME TypeInv, FirstSession, openings = 1, resampler(1)
  PROVE  (Alone /\ InOrder /\ OneRate)'
  <1>1. UNCHANGED <<emuVars, in, mix, out>>
    BY DEF resampler
  <1>2. ASSUME res[1].pc \in Busy PROVE ~Deleted(res[1].cur)
    BY <1>2, AtHead
  <1>3. CASE /\ res[1].pc = "resample"
             /\ rate' = res[1].cur.rate
             /\ res' = [res EXCEPT ![1].pc = AfterAdopting(res[1].cur.rate)]
             /\ UNCHANGED <<hostVars, ready, fault>>
    BY <1>1, <1>3, AdoptFirst, Zenon
  <1>4. CASE /\ res[1].pc = "flush" /\ set_pcm_params
             /\ res' = [res EXCEPT ![1].pc = "output"]
             /\ UNCHANGED <<rate, ready, fault>>
    BY <1>1, <1>4, FlushFirst, Zenon
  <1>5. CASE /\ res[1].pc = "output"
             /\ ready' = ready \o UnitsOf(res[1].cur)
             /\ res' = [res EXCEPT ![1].pc = "delete"]
             /\ UNCHANGED <<hostVars, rate, fault>>
    BY <1>1, <1>5, CopyFirst, Zenon
  <1>6. CASE res[1].pc \in {"resample", "output"} /\ Deleted(res[1].cur)
    BY <1>2, <1>6 DEF Busy
  <1> QED
    BY <1>3, <1>4, <1>5, <1>6, Zenon DEF resampler

\* The packet that is deleted is the one that was copied.
LEMMA DeleteFirst ==
  ASSUME TypeInv, FirstSession, openings = 1, delete_buffer(1)
  PROVE  (Alone /\ InOrder /\ OneRate)'
  <1>1. Alone /\ InOrder /\ OneRate
    BY DEF FirstSession
  <1>2. res[1].pc = "delete" /\ res[1].pc \in Busy
    BY DEF delete_buffer, Busy
  <1>3. in \in Seq(Packets) /\ Len(in) \in Nat /\ Len(in) >= 1 /\ in # <<>> /\ sent \in Nat
    BY <1>2, AtHead, Types DEF TypeInv
  <1>4. /\ in' = Tail(in)
        /\ res' = [res EXCEPT ![1] = [pc |-> "poll", cur |-> NoPacket]]
        /\ UNCHANGED <<emuVars, rate, ready, mix, out>>
    BY <1>3 DEF delete_buffer
  <1>5. fault' = fault
    BY <1>3, Zenon DEF delete_buffer
  <1>6. res'[1].pc = "poll"
    BY <1>4, Types, Sizes DEF TypeInv
  <1>7. /\ Len(in') = Len(in) - 1 /\ in' \in Seq(Packets)
        /\ \A k \in 1..(Len(in) - 1) : in'[k] = in[k + 1]
    BY <1>3, <1>4, HeadTailProperties
  <1>8. Alone'
    <2>1. /\ openings' # 0 /\ emu' = emu /\ mix' = mix /\ sent' = sent
          /\ res'[1].pc \notin Busy
      BY <1>4, <1>6 DEF emuVars, Busy
    <2>2. UNCHANGED <<opened, usesQueue, fault>>
      BY <1>4, <1>5, Zenon DEF emuVars
    <2> QED
      BY <1>1, <2>1, <2>2, Zenon DEF Alone
  <1>9. InOrder'
    <2>1. Line' = Line /\ Waiting' = Waiting /\ sent' = sent
      BY <1>2, <1>4, <1>6 DEF Line, Waiting, emuVars
    <2>2. \A k \in DOMAIN in' : in'[k].id + Len(in') = sent' + k
      <3> SUFFICES ASSUME NEW k \in 1..(Len(in) - 1)
                   PROVE  in'[k].id + Len(in') = sent' + k
        BY <1>7, LenProperties
      <3>1. k + 1 \in 1..Len(in) /\ k \in Nat
        BY <1>3
      <3>2. k + 1 \in DOMAIN in /\ in[k + 1] \in Packets
        BY <1>3, <3>1, LenProperties, ElementOfSeq
      <3>3. in[k + 1].id + Len(in) = sent + (k + 1) /\ in[k + 1].id \in Nat
        <4>1. in[k + 1].id + Len(in) = sent + (k + 1)
          BY <1>1, <3>2, Zenon DEF InOrder
        <4> QED
          BY <3>2, <4>1, Sizes DEF Packets
      <3>4. in'[k] = in[k + 1]
        BY <1>7, Zenon
      <3> DEFINE x == in[k + 1].id
      <3>5. in'[k].id = x /\ x \in Nat /\ x + Len(in) = sent + (k + 1)
        BY <3>3, <3>4
      <3> HIDE DEF x
      <3>6. Len(in') = Len(in) - 1 /\ sent' = sent
        BY <1>7, <2>1, Zenon
      <3>7. x + (Len(in) - 1) = sent + k
        BY <1>3, <3>1, <3>5
      <3> QED
        BY <3>5, <3>6, <3>7, Zenon
    <2> QED
      BY <1>1, <2>1, <2>2, Zenon DEF InOrder, UnitNo
  <1>10. OneRate'
    <2>1. ready' = ready /\ rate' = rate /\ res[1].pc # "flush"
          /\ res'[1].pc \notin {"flush", "output", "delete"}
      BY <1>2, <1>4, <1>6
    <2> QED
      BY <1>1, <2>1, Zenon DEF OneRate
  <1> QED
    BY <1>8, <1>9, <1>10

\* What a mixer's step has to keep, if it leaves the line alone.
LEMMA MixerKeeps ==
  ASSUME TypeInv, FirstSession, openings = 1,
         UNCHANGED <<emuVars, rate, in, res, fault>>, Line' = Line,
         mix'[1].pc # "output" => mix'[1].buf = <<>>, OneRate'
  PROVE  (Alone /\ InOrder /\ OneRate)'
  <1>1. Alone /\ InOrder
    BY DEF FirstSession
  <1>2. UNCHANGED <<emu, openings, opened, usesQueue, get_wave, sent, in, res, fault>>
    BY Zenon DEF emuVars
  <1>3. InOrder'
    BY <1>1, <1>2, OrderKept, Zenon DEF Waiting
  <1>4. Alone'
    <2>1. res'[1].pc \in Busy => in' # <<>> /\ res'[1].cur = in'[1]
      BY <1>1, <1>2, Zenon DEF Alone
    <2> QED
      BY <1>1, <2>1, AloneStays, Zenon
  <1> QED
    BY <1>3, <1>4

\* What the mixer collects stays in line, before what it leaves.
LEMMA CollectFirst ==
  ASSUME TypeInv, FirstSession, openings = 1, mixer_common(1)
  PROVE  (Alone /\ InOrder /\ OneRate)'
  <1> DEFINE A == SubSeq(ready, 1, pcm_callback)
             B == SubSeq(ready, pcm_callback + 1, Len(ready))
  <1>1. /\ mix[1].pc = "mix"
        /\ mix' = [mix EXCEPT ![1] = [pc |-> "output", buf |-> A]]
        /\ ready' = B
        /\ UNCHANGED <<emuVars, rate, in, res, out>>
    BY DEF mixer_common
  <1>2. fault' = fault
    BY Zenon DEF mixer_common
  <1>3. A \in Seq(Units) /\ B \in Seq(Units) /\ A \o B = ready
    BY Collected DEF TypeInv
  <1>4. /\ Alone /\ OneRate /\ mix[1].buf = <<>>
    <2>1. Alone /\ OneRate
      BY DEF FirstSession
    <2> QED
      BY <1>1, <2>1 DEF Alone
  <1>5. \A i \in DOMAIN B : \E k \in DOMAIN ready : B[i] = ready[k]
    <2>1. pcm_callback \in Nat /\ pcm_callback <= Len(ready)
      BY Copied DEF TypeInv
    <2>2. ready \in Seq(Units) /\ Len(ready) \in Nat /\ DOMAIN ready = 1..Len(ready)
      BY LineParts, LenProperties
    <2> DEFINE c == pcm_callback
    <2> HIDE DEF c
    <2>3. c \in Nat /\ c <= Len(ready) /\ B = SubSeq(ready, c + 1, Len(ready))
      BY <2>1 DEF c
    <2>4. \A i \in 1..Len(ready) : ready[i] \in Units
      BY <2>2, ElementOfSeq
    <2>5. /\ Len(B) = Len(ready) - c
          /\ \A i \in 1..(Len(ready) - c) : B[i] = ready[c + i]
      <3> HIDE DEF B
      <3>1. \A i \in (c + 1)..Len(ready) : ready[i] \in Units
        BY <2>2, <2>3, <2>4
      <3> QED
        BY <2>2, <2>3, <3>1, SubSeqProperties
    <2>6. DOMAIN B = 1..(Len(ready) - c)
      <3> HIDE DEF B
      <3> QED
        BY <1>3, <2>5, LenProperties
    <2> HIDE DEF B
    <2>7. ASSUME NEW i \in 1..(Len(ready) - c) PROVE c + i \in DOMAIN ready /\ B[i] = ready[c + i]
      <3>1. B[i] = ready[c + i]
        BY <2>5, Zenon
      <3>2. c + i \in 1..Len(ready)
        BY <2>2, <2>3
      <3> QED
        BY <2>2, <3>1, <3>2, Zenon
    <2> QED
      BY <2>6, <2>7
  <1> HIDE DEF A, B
  <1>6. mix'[1].pc = "output" /\ mix'[1].buf = A
    BY <1>1, Types, Sizes DEF TypeInv
  <1>7. Line' = Line
    <2>1. Line = (out \o <<>>) \o ready
      BY <1>4, Zenon DEF Line
    <2>2. Line' = (out \o A) \o B
      BY <1>1, <1>6, Zenon DEF Line
    <2>3. (out \o A) \o B = out \o (A \o B)
      <3>1. out \in Seq(Units)
        BY LineParts
      <3> QED
        BY <1>3, <3>1, Assoc, Zenon
    <2>4. out \o <<>> = out
      BY LineParts, ConcatEmptySeq
    <2>5. Line = out \o ready
      BY <2>1, <2>4, Zenon
    <2> QED
      BY <1>3, <2>2, <2>3, <2>5
  <1>8. OneRate'
    <2>1. \A i, j \in DOMAIN ready' : ready'[i].rate = ready'[j].rate
      <3> SUFFICES ASSUME NEW i \in DOMAIN B, NEW j \in DOMAIN B
                   PROVE  B[i].rate = B[j].rate
        BY <1>1
      <3>1. PICK k \in DOMAIN ready : B[i] = ready[k]
        BY <1>5
      <3>2. PICK l \in DOMAIN ready : B[j] = ready[l]
        BY <1>5
      <3> QED
        BY <1>4, <3>1, <3>2, Zenon DEF OneRate
    <2>2. ASSUME ready' # <<>>, res'[1].pc # "flush" PROVE ready'[1].rate = rate'
      <3>1. 1 \in DOMAIN B
        BY <1>1, <1>3, <2>2, EmptySeq, LenProperties
      <3>2. PICK k \in DOMAIN ready : B[1] = ready[k]
        BY <1>5, <3>1
      <3>3. ready # <<>> /\ 1 \in DOMAIN ready
        BY <3>2, LineParts, EmptySeq, LenProperties
      <3>4. ready[1].rate = rate
        BY <1>1, <1>4, <2>2, <3>3, Zenon DEF OneRate
      <3>5. ready[k].rate = ready[1].rate
        BY <1>4, <3>3, Zenon DEF OneRate
      <3> QED
        BY <1>1, <3>2, <3>4, <3>5, Zenon
    <2>3. res'[1].pc \in {"flush", "output", "delete"} => res'[1].cur.rate = rate'
      BY <1>1, <1>4, Zenon DEF OneRate
    <2> QED
      BY <2>1, <2>2, <2>3, Zenon DEF OneRate
  <1> QED
    BY <1>1, <1>2, <1>6, <1>7, <1>8, MixerKeeps, Zenon

\* What was collected is output next; before the device is open there is
\* nothing to collect.
LEMMA OutputFirst ==
  ASSUME TypeInv, FirstSession, openings = 1, output(1)
  PROVE  (Alone /\ InOrder /\ OneRate)'
  <1>1. /\ mix' = [mix EXCEPT ![1] = [pc |-> "mix", buf |-> <<>>]]
        /\ UNCHANGED <<emuVars, rate, in, ready, res>>
    BY DEF output
  <1>2. fault' = fault
    BY Zenon DEF output
  <1>3. Alone /\ InOrder /\ OneRate
    BY DEF FirstSession
  <1>4. mix'[1].pc = "mix" /\ mix'[1].buf = <<>>
    BY <1>1, Types, Sizes DEF TypeInv
  <1>5. Line' = (out' \o <<>>) \o ready
    BY <1>1, <1>4, Zenon DEF Line
  <1>6. Line' = Line
    <2>1. CASE opened
      <3>1. out' = out \o mix[1].buf
        BY <2>1, Zenon DEF output
      <3>2. out \o mix[1].buf \in Seq(Units)
        BY LineParts, ConcatProperties
      <3>3. out' \o <<>> = out'
        BY <3>1, <3>2, ConcatEmptySeq
      <3> QED
        BY <1>5, <3>1, <3>3, Zenon DEF Line
    <2>2. CASE ~opened
      <3>1. out' = out
        BY <2>2, Zenon DEF output
      <3>2. sent = 0
        BY <1>3, <2>2, Zenon DEF Alone
      <3>3. Len(mix[1].buf) = 0
        <4>1. Len(Waiting) \in Nat
          <5>1. CASE res[1].pc = "delete"
            <6>1. in # <<>> /\ in \in Seq(Packets)
              BY <1>3, <5>1, LineParts DEF Alone, Busy
            <6>2. Tail(in) \in Seq(Packets)
              BY <6>1, HeadTailProperties
            <6> QED
              BY <5>1, <6>2, LenProperties DEF Waiting
          <5>2. CASE res[1].pc # "delete"
            BY <5>2, LineParts DEF Waiting
          <5> QED
            BY <5>1, <5>2
        <4>2. Len(Waiting) * PacketUnits \in Nat /\ 0 * PacketUnits = 0
          BY <4>1, Distributes, Sizes
        <4>3. Len(Line) + Len(Waiting) * PacketUnits = 0
          BY <1>3, <3>2, <4>2, Zenon DEF InOrder
        <4>4. Len(Line) \in Nat
          BY LineParts, LenProperties
        <4>5. Len(Line) = 0
          BY <4>2, <4>3, <4>4
        <4> QED
          BY <4>5, LineParts
      <3>4. mix[1].buf = <<>>
        BY <3>3, LineParts, EmptySeq
      <3> QED
        BY <1>5, <3>1, <3>4, Zenon DEF Line
    <2> QED
      BY <2>1, <2>2
  <1>7. OneRate'
    BY <1>1, <1>3, Zenon DEF OneRate
  <1> QED
    BY <1>1, <1>2, <1>4, <1>6, <1>7, MixerKeeps, Zenon

\* Every step keeps what is said of the first session; in it, no step outputs a
\* packet past the queue.
LEMMA FirstStep == SoundInv /\ [Next]_vars => FirstSession'
  <1> SUFFICES ASSUME TypeInv, FirstSession, [Next]_vars PROVE FirstSession'
    BY Zenon DEF SoundInv
  <1> SUFFICES ASSUME openings' <= 1 PROVE (Alone /\ InOrder /\ OneRate)'
    BY Zenon DEF FirstSession
  <1>1. CASE UNCHANGED vars \/ OnBufferEnd \/ Shutdown
    <2>1. UNCHANGED heard
      BY <1>1, Zenon DEF vars, emuVars, heard, OnBufferEnd, Shutdown
    <2> QED
      BY <2>1, HeardSame, Zenon DEF FirstSession
  <1>2. CASE openwaveoutput
    BY <1>2, OpenFirst, Zenon
  <1>3. CASE init \/ exit
    BY <1>3, EmuFirst, Zenon
  <1>4. CASE \E r \in Rates : sendwavepacket(r)
    BY <1>4, SendFirst, Zenon
  <1>5. CASE Direct
    <2>1. openings' = openings /\ emu.pc \in {"resample", "flush", "output"}
      BY <1>5 DEF Direct
    <2>2. Alone
      BY <2>1, Zenon DEF FirstSession
    <2> QED
      BY <2>1, <2>2 DEF Alone
  <1>6. CASE \E t \in Threads : Resample(t) \/ Mix(t)
    <2>1. PICK t \in Threads : Resample(t) \/ Mix(t)
      BY <1>6
    <2>2. openings' = openings
      BY <2>1 DEF Resample, Mix, get_buffer, resampler, delete_buffer, mixer_common, output, emuVars
    <2>3. t = 1 /\ openings = 1
      BY <2>2, OneThread, Zenon
    <2>4. get_buffer(1) \/ resampler(1) \/ delete_buffer(1) \/ mixer_common(1) \/ output(1)
      BY <2>1, <2>3, Zenon DEF Resample, Mix
    <2> QED
      BY <2>3, <2>4, GetFirst, ResamplerFirst, DeleteFirst, CollectFirst, OutputFirst, Zenon
  <1> QED
    BY <1>1, <1>2, <1>3, <1>4, <1>5, <1>6, Zenon DEF Next

\* Nothing has been opened, sent or queued.
LEMMA InitSound == Init => SoundInv
  <1> SUFFICES ASSUME Init PROVE SoundInv
    OBVIOUS
  <1>1. /\ emu = [pc |-> "off", cur |-> NoPacket]
        /\ openings = 0 /\ get_wave = <<>>
        /\ rate = DefaultRate /\ sent = 0 /\ in = <<>> /\ ready = <<>>
        /\ res = [t \in 1..MaxSessions |-> [pc |-> "none", cur |-> NoPacket]]
        /\ mix = [t \in 1..MaxSessions |-> [pc |-> "none", buf |-> <<>>]]
        /\ voice = 0 /\ queued = 0 /\ out = <<>>
    BY DEF Init
  <1>2. opened = FALSE /\ usesQueue = FALSE /\ fault = FALSE
    BY Zenon DEF Init
  <1>3. /\ emu \in Emus /\ res \in [1..MaxSessions -> Resamplers]
        /\ mix \in [1..MaxSessions -> Mixers]
        /\ get_wave \in Seq(Kinds) /\ Len(get_wave) <= MaxCallbacks
        /\ in \in Seq(Packets) /\ ready \in Seq(Units) /\ out \in Seq(Units)
    BY <1>1, Sizes DEF Emus, Resamplers, Mixers
  <1>4. HostOK /\ rate \in Rates /\ openings \in 0..MaxSessions /\ sent \in 0..MaxPackets
    BY <1>1, Sizes DEF HostOK
  <1>5. TypeOK
    <2>1. opened \in BOOLEAN /\ usesQueue \in BOOLEAN /\ fault \in BOOLEAN
      BY <1>2, Zenon
    <2> QED
      BY <1>3, <1>4, <2>1, Zenon DEF TypeOK, Emus, Kinds, Resamplers, Mixers, HostOK
  <1>6. emu.pc = "off" /\ \A t \in 1..MaxSessions : res[t].pc = "none"
        /\ mix[t].pc = "none" /\ mix[t].buf = <<>>
    BY <1>1
  <1>7. TypeInv
    BY <1>5, <1>6 DEF TypeInv, BusyWithPacket, Busy
  <1>8. res[1].pc = "none" /\ mix[1].pc = "none" /\ mix[1].buf = <<>>
    BY <1>6, Sizes
  <1>9. Alone
    <2>1. ~fault /\ ~opened
      BY <1>2, Zenon
    <2>2. openings # 1 /\ emu.pc \in {"off", "opening", "running"} /\ emu.pc # "running"
          /\ res[1].pc \notin Busy
      BY <1>1, <1>6, <1>8 DEF Busy
    <2> QED
      BY <1>1, <1>6, <1>8, <2>1, <2>2, Zenon DEF Alone
  <1>10. InOrder
    <2>1. Len(Line) = 0 /\ Line \in Seq(Units)
      BY <1>1, <1>7, <1>8, LineParts, EmptySeq
    <2>2. Len(Waiting) = 0
      BY <1>1, <1>8, EmptySeq DEF Waiting
    <2>3. 0 * PacketUnits = 0
      BY Sizes
    <2>4. DOMAIN Line = {} /\ DOMAIN in = {}
      BY <1>1, <1>3, <2>1, LenProperties, EmptySeq
    <2> QED
      BY <1>1, <2>1, <2>2, <2>3, <2>4 DEF InOrder
  <1>11. OneRate
    BY <1>1, <1>8 DEF OneRate
  <1> QED
    BY <1>7, <1>9, <1>10, <1>11, Zenon DEF SoundInv, FirstSession

-----------------------------------------------------------------------------
(* The theorems. *)

\* The inductive invariant holds of all threads together.
THEOREM Invariant == Spec => []SoundInv
  <1>1. SoundInv /\ [Next]_vars => SoundInv'
    BY TypeStep, FirstStep, Zenon DEF SoundInv
  <1> QED
    BY InitSound, <1>1, PTL DEF Spec

\* The queues, the callbacks and the voice keep their types and bounds in
\* every session, and in the first one the second queue never holds sound of
\* two rates (resampler_common, set_pcm_params, bx_uwp_audio_host_submit).
THEOREM Queues == Spec => []QueueInv
  <1>1. SoundInv => QueueInv
    BY Zenon DEF SoundInv, TypeInv, FirstSession, OneRate, QueueInv, OneRateQueued
  <1> QED
    BY <1>1, Invariant, PTL

\* In the first session every packet reaches output() exactly once and in the
\* order it was sent in, for packets and mixer passes of any size, although
\* resampler_common works on a packet outside the lock and delete_buffer
\* deletes whichever is at the head.
THEOREM Packets_in_order == Spec => []OneSessionInOrder
  <1>1. SoundInv => OneSessionInOrder
    <2> SUFFICES ASSUME SoundInv, openings <= 1
                 PROVE  /\ ~fault
                        /\ Len(Line) + Len(Waiting) * PacketUnits = sent * PacketUnits
                        /\ \A i \in DOMAIN Line : UnitNo(Line[i]) = i
                        /\ \A k \in DOMAIN Waiting : Waiting[k].id + Len(Waiting) = sent + k
      BY Zenon DEF OneSessionInOrder
    <2>1. TypeInv /\ Alone /\ InOrder
      BY Zenon DEF SoundInv, FirstSession
    <2>2. ~fault
      BY <2>1, Zenon DEF Alone
    <2>3. \A k \in DOMAIN Waiting : Waiting[k].id + Len(Waiting) = sent + k
      <3>1. CASE res[1].pc = "delete"
        <4>1. in # <<>> /\ in \in Seq(Packets) /\ Len(in) \in Nat /\ sent \in Nat
          BY <2>1, <3>1, LineParts, Types DEF Alone, Busy, TypeInv
        <4>2. /\ Len(Tail(in)) = Len(in) - 1 /\ Tail(in) \in Seq(Packets) /\ Waiting = Tail(in)
              /\ \A k \in 1..(Len(in) - 1) : Tail(in)[k] = in[k + 1]
          BY <3>1, <4>1, HeadTailProperties DEF Waiting
        <4>3. DOMAIN Waiting = 1..(Len(in) - 1)
          BY <4>2, LenProperties
        <4> SUFFICES ASSUME NEW k \in 1..(Len(in) - 1)
                     PROVE  Waiting[k].id + Len(Waiting) = sent + k
          BY <4>3
        <4>4. k + 1 \in 1..Len(in) /\ k \in Nat
          BY <4>1
        <4>5. k + 1 \in DOMAIN in /\ in[k + 1] \in Packets
          BY <4>1, <4>4, LenProperties, ElementOfSeq
        <4>6. in[k + 1].id + Len(in) = sent + (k + 1)
          BY <2>1, <4>5, Zenon DEF InOrder
        <4>7. in[k + 1].id \in Nat
          BY <4>5, Sizes DEF Packets
        <4>8. Waiting[k].id = in[k + 1].id /\ Len(Waiting) = Len(in) - 1
          BY <4>2, Zenon
        <4> QED
          BY <4>1, <4>4, <4>6, <4>7, <4>8
      <3>2. CASE res[1].pc # "delete"
        BY <2>1, <3>2, Zenon DEF Waiting, InOrder
      <3> QED
        BY <3>1, <3>2
    <2> QED
      BY <2>1, <2>2, <2>3, Zenon DEF InOrder
  <1> QED
    BY <1>1, Invariant, PTL

=============================================================================
