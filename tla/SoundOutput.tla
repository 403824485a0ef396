---------------------------- MODULE SoundOutput ----------------------------
(* Wave output, from the sound card to the host's voice.                   *)
(*                                                                         *)
(* The emulator thread queues packets (audio_buffers[0]); a resampler      *)
(* thread converts them, one at a time and outside its lock, into a second *)
(* queue (audio_buffers[1]); a mixer thread collects what the registered   *)
(* callbacks have, pcm_callback emptying the second queue among them, and  *)
(* hands it to XAudio2.  Packets of another sample rate make the resampler *)
(* wait for the second queue to run dry before it reopens the voice: the   *)
(* build has no resampling library.                                        *)
(*                                                                         *)
(* The wave-output object is created once and, in a build without plugins, *)
(* never deleted, while every session calls openwaveoutput() on it again:  *)
(* a session adds a callback, a resampler thread and a mixer thread to the *)
(* ones already there.  The sections under resampler_mutex and mixer_mutex *)
(* are atomic steps, also after they were initialised again while in use.  *)
EXTENDS Naturals, Sequences, FiniteSets, SequencesExt, Functions

CONSTANTS MaxSessions,   \* how often openwaveoutput is called
          MaxPackets,    \* bound on the packets the sound card sends
          PacketUnits,   \* the units of sound in a packet
          MixUnits,      \* get_packetsize: the units one mixer pass can take
          Rates,         \* the sample rates
          DefaultRate,   \* the rate of default_pcm_param
          Devices,       \* callbacks the devices of a session register
          MaxCallbacks,  \* BX_MAX_WAVE_CALLBACKS
          HostLimit      \* queued host buffers above which a packet is dropped

ASSUME SoundAssumption ==
    /\ MaxSessions \in Nat \ {0} /\ MaxPackets \in Nat
    /\ PacketUnits \in Nat \ {0} /\ MixUnits \in Nat \ {0}
    /\ DefaultRate \in Rates /\ 0 \notin Rates
    /\ Devices \in Nat /\ MaxCallbacks \in Nat \ {0} /\ HostLimit \in Nat

VARIABLES
    emu,       \* what the emulator thread does, and the packet it outputs itself
    openings,  \* calls of openwaveoutput so far; each started two threads
    opened,    \* bx_soundlow_waveout_uwp_c::opened
    usesQueue, \* pcm_callback_id >= 0
    get_wave,  \* the registered callbacks; a slot is never used again
    rate,      \* real_pcm_param.samplerate
    sent,      \* number of packets sent, the next packet's name
    in,        \* audio_buffers[0], the packets to resample
    ready,     \* audio_buffers[1], the units to mix
    res,       \* the resampler threads
    mix,       \* the mixer threads
    voice,     \* rate of the open source voice, 0 when there is none
    queued,    \* BuffersQueued of the voice
    out,       \* every unit that reached output(), in order
    fault      \* a thread used a deleted buffer or deleted from an empty queue

emuVars  == <<emu, openings, opened, usesQueue, get_wave, sent>>
hostVars == <<voice, queued>>
vars == <<emuVars, hostVars, rate, in, ready, res, mix, out, fault>>

Threads == 1..openings
NoPacket == [id |-> 0, rate |-> DefaultRate]
Packets  == [id : 1..MaxPackets, rate : Rates]
Units    == [id : 1..MaxPackets, n : 1..PacketUnits, rate : Rates]
UnitsOf(p) == [n \in 1..PacketUnits |-> [id |-> p.id, n |-> n, rate |-> p.rate]]

---------------------------------------------------------------------------
(* The host's voice, under g_audioMutex.                                   *)

\* OpenAudioLocked: a voice of this format stays, any other is stopped,
\* flushed and replaced; every call on the way may fail.
OpenAudioLocked(r) ==
    IF voice = r THEN UNCHANGED hostVars
    ELSE voice' \in {0, r} /\ queued' = 0

\* bx_uwp_audio_host_submit: opens the voice if need be, drops the packet
\* when too many are queued, and drops it when the submission fails.
submit(r) ==
    \/ OpenAudioLocked(r)                                \* dropped
    \/ /\ voice = r /\ queued <= HostLimit
       /\ queued' = queued + 1 /\ UNCHANGED voice
    \/ voice # r /\ voice' = r /\ queued' = 1

\* The voice has played a buffer; its context is deleted.
OnBufferEnd ==
    /\ ~fault /\ queued > 0
    /\ queued' = queued - 1
    /\ UNCHANGED <<emuVars, voice, rate, in, ready, res, mix, out, fault>>

\* BochsUwpAudio::Shutdown, called by the page whatever the threads do.
Shutdown ==
    /\ ~fault /\ voice # 0
    /\ voice' = 0 /\ queued' = 0
    /\ UNCHANGED <<emuVars, rate, in, ready, res, mix, out, fault>>

---------------------------------------------------------------------------
(* The emulator thread.                                                    *)

register_wave_callback(table, kind) ==
    IF Len(table) < MaxCallbacks THEN Append(table, kind) ELSE table

\* openwaveoutput up to the start of the threads.
openwaveoutput ==
    /\ ~fault /\ emu.pc = "off" /\ openings < MaxSessions
    /\ OpenAudioLocked(rate)
    /\ get_wave' = register_wave_callback(get_wave, "pcm")
    /\ usesQueue' = (Len(get_wave) < MaxCallbacks)
    /\ openings' = openings + 1
    /\ res' = [res EXCEPT ![openings'].pc = "poll"]
    /\ mix' = [mix EXCEPT ![openings'].pc = "mix"]
    /\ emu' = [emu EXCEPT !.pc = "opening"]
    /\ UNCHANGED <<opened, sent, rate, in, ready, out, fault>>

\* The end of openwaveoutput; the devices' init() follows, in which the
\* speaker and the sound card register the callbacks the mixer polls.
init ==
    /\ ~fault /\ emu.pc = "opening"
    /\ opened' = TRUE
    /\ get_wave' = LET free == MaxCallbacks - Len(get_wave)
                       n == IF Devices < free THEN Devices ELSE free
                   IN  get_wave \o [i \in 1..n |-> "device"]
    /\ emu' = [emu EXCEPT !.pc = "running"]
    /\ UNCHANGED <<openings, usesQueue, sent, hostVars, rate, in, ready, res, mix, out, fault>>

\* The sound card has a packet.  Without a callback of its own the packet is
\* resampled and output by the emulator thread itself.
sendwavepacket(r) ==
    /\ ~fault /\ emu.pc = "running" /\ sent < MaxPackets
    /\ sent' = sent + 1
    /\ LET p == [id |-> sent', rate |-> r]
       IN  IF usesQueue THEN in' = Append(in, p) /\ UNCHANGED emu
           ELSE emu' = [pc |-> "resample", cur |-> p] /\ UNCHANGED in
    /\ UNCHANGED <<openings, opened, usesQueue, get_wave, hostVars, rate, ready, res, mix, out, fault>>

\* Mutant of exit: a session that takes the queue's callback with it.
exit_unregisters_pcm ==
    /\ ~fault /\ emu.pc = "running"
    /\ emu' = [emu EXCEPT !.pc = "off"]
    /\ get_wave' = [i \in DOMAIN get_wave |-> "none"]
    /\ UNCHANGED <<openings, opened, usesQueue, sent, hostVars, rate, in, ready, res, mix, out, fault>>

\* The devices are deleted and their callbacks unregistered, the sound
\* driver stays as it is.
exit ==
    /\ ~fault /\ emu.pc = "running"
    /\ emu' = [emu EXCEPT !.pc = "off"]
    /\ get_wave' = [i \in DOMAIN get_wave |->
                       IF get_wave[i] = "device" THEN "none" ELSE get_wave[i]]
    /\ UNCHANGED <<openings, opened, usesQueue, sent, hostVars, rate, in, ready, res, mix, out, fault>>

---------------------------------------------------------------------------
(* resampler_common without a resampling library: a thread at "resample"   *)
(* adopts the packet's rate and, if it was another, waits for the second   *)
(* queue to run dry and reopens the voice.                                 *)

\* Mutant of AfterAdopting: a resampler that adopts the rate without waiting.
AfterAdopting_no_flush(r) == "output"

\* Where a thread goes on once it has the packet's rate.
AfterAdopting(r) == IF rate = r THEN "output" ELSE "flush"

\* The thread at "flush" saw an empty queue and calls set_pcm_params.
set_pcm_params == ready = <<>> /\ OpenAudioLocked(rate)

Direct ==
    /\ ~fault
    /\ \/ /\ emu.pc = "resample"
          /\ rate' = emu.cur.rate
          /\ emu' = [emu EXCEPT !.pc = AfterAdopting(emu.cur.rate)]
          /\ UNCHANGED <<hostVars, out>>
       \/ /\ emu.pc = "flush" /\ set_pcm_params
          /\ emu' = [emu EXCEPT !.pc = "output"]
          /\ UNCHANGED <<rate, out>>
       \/ /\ emu.pc = "output"
          /\ submit(rate)
          /\ out' = out \o UnitsOf(emu.cur)
          /\ emu' = [pc |-> "running", cur |-> NoPacket]
          /\ UNCHANGED rate
    /\ UNCHANGED <<openings, opened, usesQueue, get_wave, sent, in, ready, res, mix, fault>>

---------------------------------------------------------------------------
(* The resampler threads.                                                  *)

\* The packet was deleted while this thread worked on it.
Deleted(p) == \A i \in DOMAIN in : in[i] # p

\* Mutant of get_buffer: a resampler that takes the packet off the queue when
\* it reads it.
get_buffer_removes(t) ==
    /\ ~fault /\ res[t].pc = "poll" /\ in # <<>>
    /\ res' = [res EXCEPT ![t] = [pc |-> "resample", cur |-> Head(in)]]
    /\ in' = Tail(in)
    /\ UNCHANGED <<emuVars, hostVars, rate, ready, mix, out, fault>>

\* The head of the first queue, read under the lock and kept after it.
get_buffer(t) ==
    /\ ~fault /\ res[t].pc = "poll" /\ in # <<>>
    /\ res' = [res EXCEPT ![t] = [pc |-> "resample", cur |-> Head(in)]]
    /\ UNCHANGED <<emuVars, hostVars, rate, in, ready, mix, out, fault>>

resampler(t) ==
    /\ ~fault
    /\ \/ /\ res[t].pc = "resample" /\ ~Deleted(res[t].cur)
          /\ rate' = res[t].cur.rate
          /\ res' = [res EXCEPT ![t].pc = AfterAdopting(res[t].cur.rate)]
          /\ UNCHANGED <<hostVars, ready, fault>>
       \/ /\ res[t].pc = "flush" /\ set_pcm_params
          /\ res' = [res EXCEPT ![t].pc = "output"]
          /\ UNCHANGED <<rate, ready, fault>>
       \/ /\ res[t].pc = "output" /\ ~Deleted(res[t].cur)
          /\ ready' = ready \o UnitsOf(res[t].cur)
          /\ res' = [res EXCEPT ![t].pc = "delete"]
          /\ UNCHANGED <<hostVars, rate, fault>>
       \/ /\ res[t].pc \in {"resample", "output"} /\ Deleted(res[t].cur)
          /\ fault' = TRUE
          /\ UNCHANGED <<hostVars, rate, ready, res>>
    /\ UNCHANGED <<emuVars, in, mix, out>>

\* delete_buffer takes whatever is at the head by then; with nothing there it
\* dereferences a null pointer.
delete_buffer(t) ==
    /\ ~fault /\ res[t].pc = "delete"
    /\ IF in = <<>> THEN fault' = TRUE /\ UNCHANGED <<in, res>>
       ELSE /\ in' = Tail(in)
            /\ res' = [res EXCEPT ![t] = [pc |-> "poll", cur |-> NoPacket]]
            /\ UNCHANGED fault
    /\ UNCHANGED <<emuVars, hostVars, rate, ready, mix, out>>

---------------------------------------------------------------------------
(* The mixer threads.                                                      *)

\* pcm_callback, once per registration: what it copies leaves the queue.
pcm_callback ==
    LET polls == Cardinality({i \in DOMAIN get_wave : get_wave[i] = "pcm"})
    IN  IF Len(ready) < polls * MixUnits THEN Len(ready) ELSE polls * MixUnits

\* mixer_common, under the mixer mutex: polls every callback.  The threads go
\* on to output() only if one of them had sound.
mixer_common(t) ==
    /\ ~fault /\ mix[t].pc = "mix"
    /\ \E beep \in BOOLEAN :
          /\ beep => \E i \in DOMAIN get_wave : get_wave[i] = "device"
          /\ pcm_callback > 0 \/ beep
    /\ mix' = [mix EXCEPT ![t] = [pc |-> "output", buf |-> SubSeq(ready, 1, pcm_callback)]]
    /\ ready' = SubSeq(ready, pcm_callback + 1, Len(ready))
    /\ UNCHANGED <<emuVars, hostVars, rate, in, res, out, fault>>

\* Mutant of output: a mixer thread that ends when it finds the voice closed.
output_ends_without_voice(t) ==
    /\ ~fault /\ mix[t].pc = "output"
    /\ mix' = [mix EXCEPT ![t] = [pc |-> IF voice = 0 THEN "none" ELSE "mix", buf |-> <<>>]]
    /\ IF opened THEN submit(rate) /\ out' = out \o mix[t].buf
       ELSE UNCHANGED <<hostVars, out>>
    /\ UNCHANGED <<emuVars, rate, in, ready, res, fault>>

\* output(): nothing before the device is marked open, else the host's
\* submit, and a sleep.
output(t) ==
    /\ ~fault /\ mix[t].pc = "output"
    /\ mix' = [mix EXCEPT ![t] = [pc |-> "mix", buf |-> <<>>]]
    /\ IF opened THEN submit(rate) /\ out' = out \o mix[t].buf
       ELSE UNCHANGED <<hostVars, out>>
    /\ UNCHANGED <<emuVars, rate, in, ready, res, fault>>

---------------------------------------------------------------------------

Init ==
    /\ emu = [pc |-> "off", cur |-> NoPacket]
    /\ openings = 0 /\ opened = FALSE /\ usesQueue = FALSE /\ get_wave = <<>>
    /\ rate = DefaultRate /\ sent = 0
    /\ in = <<>> /\ ready = <<>>
    /\ res = [t \in 1..MaxSessions |-> [pc |-> "none", cur |-> NoPacket]]
    /\ mix = [t \in 1..MaxSessions |-> [pc |-> "none", buf |-> <<>>]]
    /\ voice = 0 /\ queued = 0 /\ out = <<>> /\ fault = FALSE

Resample(t) == get_buffer(t) \/ resampler(t) \/ delete_buffer(t)
Mix(t) == mixer_common(t) \/ output(t)

Next ==
    \/ openwaveoutput \/ init \/ exit
    \/ \E r \in Rates : sendwavepacket(r)
    \/ Direct \/ OnBufferEnd \/ Shutdown
    \/ \E t \in Threads : Resample(t) \/ Mix(t)

\* The host schedules every thread, and its voice keeps playing.
Fairness ==
    /\ WF_vars(Direct) /\ WF_vars(init)
    /\ \A t \in 1..MaxSessions : WF_vars(Resample(t)) /\ WF_vars(Mix(t))

Spec == Init /\ [][Next]_vars /\ Fairness

---------------------------------------------------------------------------
(* Properties.                                                             *)

\* Types; a voice never holds more than one buffer above the limit at which
\* packets are dropped.
TypeOK ==
    /\ emu \in [pc : {"off", "opening", "running", "resample", "flush", "output"},
                cur : Packets \union {NoPacket}]
    /\ openings \in 0..MaxSessions /\ opened \in BOOLEAN /\ usesQueue \in BOOLEAN
    /\ get_wave \in Seq({"pcm", "device", "none"}) /\ Len(get_wave) <= MaxCallbacks
    /\ rate \in Rates /\ sent \in 0..MaxPackets
    /\ in \in Seq(Packets) /\ ready \in Seq(Units) /\ out \in Seq(Units)
    /\ res \in [1..MaxSessions -> [pc : {"none", "poll", "resample", "flush", "output", "delete"},
                                   cur : Packets \union {NoPacket}]]
    /\ mix \in [1..MaxSessions -> [pc : {"none", "mix", "output"}, buf : Seq(Units)]]
    /\ voice \in Rates \union {0} /\ queued \in 0..(HostLimit + 1)
    /\ (voice = 0 => queued = 0) /\ fault \in BOOLEAN

\* The units sent and not yet output: with a mixer thread, in the second
\* queue, and in the first one unless already copied to the second.
ToResample ==
    LET waiting == SelectSeq(in, LAMBDA p :
                      \A t \in Threads : ~(res[t].pc = "delete" /\ res[t].cur = p))
    IN  FlattenSeq([i \in DOMAIN waiting |-> UnitsOf(waiting[i])])
Mixing == FlattenSeq([t \in Threads |-> mix[t].buf])
Flight == out \o Mixing \o ready \o ToResample

\* Every packet the sound card queued reaches output() exactly once: none is
\* resampled twice, deleted before it was copied, or left behind, although
\* the resampler works outside its lock.
EachPacketOnce == usesQueue =>
    /\ IsInjective(Flight) /\ Len(Flight) = sent * PacketUnits
    /\ ~fault

\* With one resampler and one mixer: the packets still to be copied, and the
\* units that were, in the order in which they get to output().
Waiting == IF res[1].pc = "delete" THEN Tail(in) ELSE in
Line == out \o mix[1].buf \o ready
UnitNo(u) == (u.id - 1) * PacketUnits + u.n

\* As long as openwaveoutput has been called only once, every packet the sound
\* card queued reaches output() exactly once and in the order it was sent in,
\* although the resampler works outside its lock and deletes whatever packet
\* is then at the head.
OneSessionInOrder == openings <= 1 =>
    /\ ~fault
    /\ Len(Line) + Len(Waiting) * PacketUnits = sent * PacketUnits
    /\ \A i \in DOMAIN Line : UnitNo(Line[i]) = i
    /\ \A k \in DOMAIN Waiting : Waiting[k].id + Len(Waiting) = sent + k

\* The second queue never mixes sample rates, and its sound has the rate the
\* voice is opened with unless the resampler is waiting for it to run dry.
OneRateQueued == openings <= 1 =>
    /\ \A i, j \in DOMAIN ready : ready[i].rate = ready[j].rate
    /\ ready # <<>> /\ res[1].pc # "flush" => ready[1].rate = rate

\* The queues and the voice keep their bounds and the second queue its rate.
QueueInv == TypeOK /\ OneRateQueued

\* A thread that waits for the second queue to run dry does not wait forever.
FlushEnds ==
    /\ \A t \in 1..MaxSessions : res[t].pc = "flush" ~> (res[t].pc # "flush" \/ fault)
    /\ emu.pc = "flush" ~> (emu.pc # "flush" \/ fault)

\* Every packet that was queued while the output had been opened once gets
\* out, also when the page closed the voice in between.
EveryPacketGetsOut ==
    \A k \in 1..MaxPackets : (sent >= k) ~> (Len(out) >= k * PacketUnits \/ openings > 1)

=============================================================================
