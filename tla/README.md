# Bochs-UWP: specifications, model checks and proofs

Bochs-UWP packages the Bochs PC emulator as a Universal Windows application. The
application's own logic is the layer around the emulator: a control block through
which a UI thread starts, pauses, saves and stops an emulator thread; a display
library that hands frames to a Direct3D renderer on a third thread; a bridge of
callbacks and queues between them; run-time media changes that reach into the
floppy and CD-ROM emulation and into a table of brokered files; and a wave output
that feeds XAudio2 from two more threads. Because one process runs session after
session, it also leans on parts of Bochs that a desktop build starts only once: the
timer tables, the sound driver, the redolog of an undoable disk. This directory
holds TLA+ modules for these, the TLC configurations that check them, and proofs
that TLAPS checks.

## Inventory

| Component | State | Operations | Interaction |
|---|---|---|---|
| Core control block, `bochs_core_uwp.cpp` | `g_running`, `g_pauseRequested`, `g_pauseObserved`, `g_shutdownRequested` under `g_controlMutex` | run, pause, resume, wait until paused, poll, save state, request shutdown | called by the runtime on the UI thread; `poll` is called by the CPU loop |
| Emulation runtime, `BochsRuntime.cpp`, `UWP_PortMain.cpp` | `m_started`, `m_running`, `m_paused`, `m_shutdownRequested`, `m_exited`, the thread | Start, Pause, Resume, SaveStateIfPossible, RequestShutdown, Run, ShutdownEmulation | owns the emulator thread, calls core, bridge and audio |
| Simulation life cycle, `main.cc`, `siminterface.cc`, `plugin.cc`, `cpu/cpu.cc`, `cpu/event.cc` | `SIM`, `theGui`, where the thread is | initialise, CPU loop, HLT loop, exit, clean up | creates and deletes what callbacks and saves use |
| uwp_dx display library, `gui/uwp_dx.cc` | framebuffer, indexed shadow, palette, dirty rectangle, event queue | draw, palette change, mode change, clear, flush, enqueue, handle events | emulator thread draws and dispatches; the UI thread enqueues |
| Bridge, `BochsUwpBridge.cpp` | host frame and its dirty rectangle, installed callbacks (`g_sink`), focus and capture flags | configure, update rectangle, clear, copy frame, send input, media and shutdown | under `g_bridgeMutex`; callbacks are called outside it |
| Renderer, `BochsFrameRenderer.cpp` | snapshot, texture, loading flag | render, create and release device resources | render loop thread |
| File bridge, `BochsUwpFileBridge.cpp` | `g_files`, `g_nextHandle`, positions | open, close, seek, read, write, flush, resize | called by floppy, CD-ROM and disk code |
| Floppy controller, `iodev/floppy.cc` | medium, change line, write protection, command in progress | commands, transfers, insert, eject | parameters changed by the dispatcher, commands by the guest |
| CD-ROM drive, `iodev/harddrv.cc`, `cdrom_win32.cc` | disc, lock, `status_changed`, read in progress | ATAPI commands, insert, eject | the same |
| Page, `DirectXPage.xaml.cpp` | started and paused flags, capture state, selected images | buttons, pickers, focus and pointer handlers | UI thread |
| Audio, `BochsUwpAudio.cpp`, `sounduwp.cc`, `soundlow.cc` | two packet queues, callback table, sample rate, voices, capture queue | send packet, resample, mix, output, capture, MIDI | emulator, resampler and mixer threads, AudioGraph callback |
| System timers, `pc_system.cc`, `virt_timer.cc` | slot tables, countdown, two virtual clocks and their wake-ups | register, activate, deactivate, unregister, tick, expire | emulator thread; handlers call back in the middle of an event |
| Undoable disk image, `hdimage.cc` | redolog file, catalog, cached bitmap, positions | open, seek, read, write, save, restore | the drive; the file outlives the process |
| Input, page to `devices.cc` | capture state in four places, event queue, modifiers, toggle chord, keys down | key, pointer, shortcut, visibility, dispatch | UI thread enqueues, emulator thread handles |
| Storage, `BochsUwpStorage.cpp` | picked files, generated bochsrc, save slots | pick, generate, restore | UI thread and start of a session |

`PROJECT.json` lists these and the parts left out, with their status.

What is hard in this code, and what each part must get right:

* *Two threads and four flags.* The host's intention exists twice (runtime and
  core), the observation of a pause is cleared by another thread than the one that
  made it, start-up resets flags a concurrent shutdown sets, and `save_state`
  releases the mutex before it works. Wanted: an observed pause is a parked
  thread, copies agree, sessions do not overlap, checkpoints are quiescent, a
  stopped core stops.
* *Lifetimes.* The GUI object and `SIM` die on the emulator thread while the UI
  thread may be on its way to them.
* *Two dirty rectangles in a row*, merged, clipped and reset by different threads,
  across mode changes, device loss and downscaling. Wanted: nobody can tell that
  there are rectangles at all.
* *Media changes under a running guest.* Requests are queued, parameters change
  before drives do, handlers veto or rewrite values, opening fails part way, and
  the guest is in the middle of transfers. Wanted: no leaked or dangling handle,
  parameters and drives agree, the guest learns of every change.
* *Sessions in one process.* Timer slots, sound threads and callback slots are made
  for a program that ends; here the next session finds what the last one left.
  Wanted: no slot shared or leaked, no second thread on a queue made for one.
* *Handlers inside the loop that calls them.* A timer handler starts, stops and
  frees timers of the table that is being scanned. Wanted: no timer is skipped,
  called twice or called for a deleted device.
* *A file written in several steps.* A crash between two writes of the redolog.
  Wanted: a disk whose sector writes are atomic.
* *State kept four times.* Whether the mouse is captured; requests travel through a
  queue while all four copies change. Wanted: what the user last asked for.

The hazards are listed in `PROJECT.json` with their lines and the properties that
watch them. Smaller ones, which no property watches:

* `clear_screen` blackens the framebuffer but not the indexed shadow
  (`uwp_dx.cc:851`): the next palette change brings the old picture back.
* A queued pointer event keeps the mode it was made in (`uwp_dx.cc:813`), and Print
  and Pause are translated by the modifiers of the moment (`uwp_dx.cc:680`).
* A brokered file that can only be read is opened without telling the caller
  (`BochsUwpFileBridge.cpp:189`).
* `startwaverecord` remembers the new format before it opens the input
  (`sounduwp.cc:195`): a retry after a failure records silence.
* The results of the redolog's bitmap and catalog writes are not looked at
  (`hdimage.cc:2139`), and a log that was just created uses an uninitialised
  `bitmap_update` (`hdimage.cc:1731`).
* A panic during start-up skips `exit` (`main.cc:1423`): timer slots of deleted devices
  stay active.

## Modules

| Module | Models | Lines of the code |
|---|---|---|
| `CoreControl` | control block, emulator thread inside the core, host calls into core and bridge | `bochs_core_uwp.cpp`, parts of `main.cc`, `siminterface.cc`, `cpu/event.cc`, `uwp_dx.cc` |
| `BochsRuntime` (extends `CoreControl`) | `BochsRuntime` and the replacement of the runtime; composes the UI thread's calls with the core's steps | `BochsRuntime.cpp`, `UWP_PortMain.cpp` |
| `BochsRuntime_proofs` | inductive invariant and theorems | |
| `FrameSpec` | the abstract promise of the display path | |
| `FramePipeline` | GUI framebuffer, bridge frame, renderer | `uwp_dx.cc`, `BochsUwpBridge.cpp`, `BochsFrameRenderer.cpp` |
| `MCFrame` | frame sizes and boxes for TLC | |
| `RuntimeMedia` | media requests, floppy and CD-ROM drives, file handles | `uwp_dx.cc`, `floppy.cc`, `harddrv.cc`, `cdrom_win32.cc`, `BochsUwpFileBridge.cpp` |
| `InputPath` | keyboard and mouse from the page to the guest's key state | `DirectXPage.xaml.cpp`, `BochsUwpBridge.cpp`, `uwp_dx.cc`, `gui.cc`, `devices.cc` |
| `SoundOutput` | wave output with its threads and the host's voice | `soundlow.cc`, `sounduwp.cc`, `BochsUwpAudio.cpp` |
| `TimerSpec` | the abstract promise of a timer service | |
| `PcSystem`, `MCPcSystem` | the timers of the machine | `pc_system.cc`, `pc_system.h`, `apic.cc` |
| `VirtTimer`, `MCVirtTimer` | the virtual timers on top of them | `virt_timer.cc` |
| `DiskSpec` | the abstract promise of a disk image | |
| `Redolog`, `MCRedolog` | the undoable image | `hdimage.cc`, `harddrv.cc`, `scsi_device.cc` |
| `FramePipeline_proofs`, `RuntimeMedia_proofs`, `InputPath_proofs`, `PcSystem_proofs`, `VirtTimer_proofs`, `Redolog_proofs`, `SoundOutput_proofs` | inductive invariants, refinements and theorems of the module each is named for | |

Operators whose comment begins "Mutant of" are deliberately wrong variants of the
definition that follows them: the form a plausible mistake would take. Each
property is known to fail when the variant takes the definition's place.

### CoreControl and BochsRuntime

`cpc` is the emulator thread's place inside `bochs_core_uwp_run_with_restore`,
`epc` its place in `BochsRuntime::Run`, `upc` the UI thread's place in a call on
the runtime, and `hpc` in a call on the core or the bridge. A region under
`g_controlMutex` is one action. A wait on
`g_controlChanged` is a place in which the thread is `blocked` or not: it blocks
after a look at its predicate, each `notify_all` of the code empties `blocked`, a
spurious wakeup takes one thread out, and a thread that is not blocked looks again.
Where the code changes a flag without notifying, nobody is woken; `NoLostWakeup` says
that no thread stays blocked for it. The time-out of `wait_until_paused` may pass at
any moment, and the result says what the predicate was then. Code between two mutex regions that touches shared state (the flag tests of
`Run`, the callback of the bridge, the call through `theGui`) gets places of its
own, which is where the interesting interleavings are.

The CPU loop alternates between `poll` and `exec`; `exec` may lead into `halt`,
the HLT loop, which does not poll and is left by an interrupt or by the shutdown
event that the device timer delivers through `handle_events`. A call on a deleted
GUI object is undefined in C++; the model lets it lose the event.

`Start` on a started runtime is `Resume`; `Start` whose thread cannot be created
is `StartFails`. Exceptions and refusals of the core are `RunThrows` and
`RunRefused`. The configuration path and text of the last error are left out.

### FrameSpec and FramePipeline

Each GUI callback and each `Render` is one action: the threads share only the
bridge's frame, under its mutex, and the renderer copies from it in one critical
section. Pixels are functions from coordinates to a small set of colours. Frames
of two to four pixels show everything: rectangles that touch, overlap, or run over
the edge, one mode smaller than another, and a frame larger than the texture
limit. `FrameSpec` has three whole frames (drawn, published, shown) and five
steps; `ImplementsFrameSpec` maps the framebuffer, the bridge's frame and the
texture to them.

### RuntimeMedia

One floppy drive and one CD-ROM drive. A request is queued by the page, taken by
`handle_events` (both queues are swapped and the guest does not run until the
local one is empty) and dispatched by `set_runtime_media`, which sets the path and
status parameters (with their handlers) and runs the runtime configuration of both
devices in one action, as `update_runtime_options` does. The guest's commands are
actions that need the dispatcher to be idle. Image kinds are constants: brokered
or local, writable or not, missing, and unfit (a floppy of the wrong size, a CD
without a readable block). `BX_PANIC` ends the session, as it does in the packaged
core. `knownFloppy` and `knownDisc` are history variables: what was in the drive
when the guest last cleared or acknowledged a change.

A session may be configured with a floppy image that is missing. The parser gives the
drive the type NONE and keeps the path and the status, so that the session starts
with an empty drive that says inserted. An image that is there and has an unsupported
size is a fatal error of the parser (`config.cc:2106`, `2623`), with which no session
starts.

Handle numbers start at 1 and are never reused; 0 stands for the code's -1.

A floppy command other than a transfer is not accepted while one is pending: the
controller panics on it.

### InputPath

The handlers of the page are one action each: they run on the UI thread and share
with the emulator thread only the queue and the two flags of the bridge, each under
its mutex. A handler reads the bridge's flags in the same action in which it sends
its events; the emulator thread may change a flag between the two, which has the
same effect as changing it before or after the handler, since no handler reads a
flag after it has sent. The bridge's flag and the parameter `mouse_enabled` are one
variable, because the emulator thread assigns both in one handler and nobody else
does.

`sink` says whether a display library has given its functions to the bridge. Without
them the bridge drops what the page sends: before `specific_init` and after the
emulator has ended, by itself (`exit`) or because the page ends the session
(`Restart`, which stands for `Shutdown` and `HandleStartupFailure`). `asked` remembers
whether the page's last request met a sink. The cases of `handle_mouse_toggle_key` for
G, F10 and F12 belong to the toggle methods that are not modelled.

`hostKeys` and `hostButtons` are what the user really holds: keys that are
let go while the window is hidden are never reported, and only the focus event
stands for them. `chorded` remembers that the toggle chord, which the page does not
see, was the last to switch the mouse.

### SoundOutput

Sound is a sequence of named units, a packet two of them, so that loss, repetition
and order can be told apart. `in` and `ready` are the two buffer queues; a thread is
a place and the packet it holds. Sections under a mutex are one action; between
`get_buffer` and `delete_buffer` the resampler works on a packet it does not own,
which is where `Deleted` and `fault` come in: a use of a deleted buffer is undefined,
and the model stops there. `openwaveoutput` starts threads and adds a callback each
time it is called; `exit` removes the devices' callbacks and nothing else, as the
build without plugins does. Opening the voice may fail at any call. The speaker's
and the FM synthesizer's sound is a choice of the mixer step (`beep`), whose data is
left out.

### TimerSpec, PcSystem and VirtTimer

`TimerSpec` has a clock, a deadline for each slot, the slots that have expired
and wait for their handler, and the slot whose handler runs (`called`). Time never
passes a deadline; it stands still until the handlers of all expired slots have been
called, in slot order and one after the other. `PcSystem` keeps the code's arithmetic: deadlines are absolute, the
countdown is relative and 32 bits wide (`NullInterval` is the largest value), and
`countdownEvent` is split at every handler it calls, because a handler may call any
function of the table. `HandlerReturns` ends a device's handler, whose body is
whatever device calls happened in between. The local APIC's timers are clients that
are registered once, before the first session, with the `timer_active` flags by
which the APIC decides whether to deactivate them. A periodic one is started again
with any interval the guest may have set meanwhile. `Reset` is the hardware reset
with the APIC's part in it.

`VirtTimer` takes the machine's timers as an environment that does what
`TimerSpec` promises (`Tick` never passes `sysDue`). Its two clocks share the code;
for the clock of real time, how far it moves and the measured ratio are chosen
freely within the limits `timer_handler` puts on them, since both come from the
host's clock. The mapping for each mode has `Cancels` TRUE: unlike in `pc_system.cc`
a handler can cancel a timer that is due in the same scan.

### DiskSpec and Redolog

The file is a record of catalog, bitmaps and blocks; every write of it is a step,
and `Crash` may come between any two: what is in memory goes, the file stays. A
block on disk takes effect through its bitmap bit, and a new page through its
catalog entry; `ImplementsDisk` says that these are the only moments at which a
reader of the file could notice. `MaxTransfer` is the number of sectors moved after one seek: 1 for
the ATA drive, which seeks for each sector, more for the USB disk.

A saved state holds a copy of the file, and restoring it copies that back. A copy starts
with an empty file (`save_state`, `restore_state`), grows in any number of steps
(`SaveCopies`, `RestoreCopies`) and is complete when the function returns
(`save_returns`, `restore_returns`); a file records
whether it is `whole`, `cut` somewhere behind the catalog, or `empty`, and a crash
leaves it as it is. A cut log opens like any other; what is missing reads as zeros, or
from the base image where the file is too short. Logs and base images are matched by
`fat_datetime`, which has a resolution of two seconds. `DiskSpec` therefore promises
less than one would like: a crash in a save loses the saved state (`Lost`), never the
disk; a crash in a restore loses the disk, never the saved state; and a base image that
is modified within the two seconds of its stamp shows through. With another stamp, the
log is refused. `latest` is a history variable: by stamp, the last base image that
bore it, over which the files of that stamp are read.

## Runs

| Run | Result | Shows |
|---|---|---|
| `runtime` | pass | pause handshake, agreement of the flag copies, ownership of the thread and the core, quiescence of saves after an observed pause, shutdown of a running core, no lost wakeup |
| `frame` | pass | both dirty rectangles cover what they must, the texture is the snapshot, the pipeline implements `FrameSpec` |
| `frame_scaled` | pass | the refinement with downscaled uploads and indexed modes; the screen catches up once the guest is quiet |
| `media` | pass | handles, parameters against drives, change signals, locked discs, requests honoured, writes on protected media |
| `timers` | pass | no timer skipped, a positive countdown, slots owned and not leaked, live handlers, refinement of `TimerSpec` |
| `virt_timer` | pass | the assertions of the code, the next event against the armed timers, wake-ups, refinement of `TimerSpec` by each clock |
| `redolog` | pass | refinement of `DiskSpec` under crashes, unfinished copies of saved states and a changing base image; pages, cached bitmap, room for every extent |
| `input` | pass | capture against the user's intention, with and without a display library, the chord, modifiers that come up |
| `sound` | pass | each packet once and in order in the first session, one rate at a time, flushes and packets that come to an end |
| `sound_reopened` | violation | a second session's resampler shares packets with the first one's |
| `redolog_usb` | violation | several reads after one seek return the wrong sectors |
| `apic_slots` | violation | the end of a session gives away slots the local APIC still uses |

An invariant with a name in `Inv` conjoins the module's type invariant and the parts
defined before it, which are named one by one: `DirtyRectInv`, `HandlesInv`,
`CountdownInv`, `NextEventInv`, `PagesInv`, `ChordInv` and `QueueInv`.
`ChangesSignalled` has one part for each drive.

Each violation is a disagreement between the code and a sentence or comment of the
repository, quoted under "findings" in `PROJECT.json`.

Some properties carry an exception where the code falls short of what one would
ask; the exception is part of the property, so that everything else stays checked:

* `JoinEnds` excepts a shutdown that meets the thread entering the core:
  `run_with_restore` erases the request (`bochs_core_uwp.cpp:117`) and the join
  lasts as long as the guest runs, although the README of the port says "Shutdown
  requests shutdown from the core, bridge and audio layer."
* `SaveAfterObservedPauseIsQuiescent` says nothing of a save during start-up, which
  `wait_until_paused` lets through because the core is not running yet.
* `ObservedMeansParked` has no converse: a resume and a pause before the parked
  thread wakes leave it parked and unobserved, and `Pause` times out.
* `RunningCoreStops` is checked for the uwp_dx display. With rfb, which installs no
  callbacks, a guest halted with interrupts disabled is not stopped.
* `InsertHonoured` excepts a floppy drive whose media type is NONE (a session
  configured without a floppy, or any earlier failed insert) and a disc the guest
  ejected under its own lock, where the old disc comes back.
* `DriveHoldsNamedImage` lets a floppy drive say inserted and be empty, if it has no
  media type and names a missing image: a session so configured shows the guest an
  empty drive and the page an inserted image, until the first request for the floppy
  puts it right.
* `CaptureFollowsIntent` claims nothing of a page that waits for the mouse when its
  request found no display library: between the page's start of the emulator
  (`DirectXPage.xaml.cpp:1327`) and `specific_init` (`uwp_dx.cc:780`) a click is
  dropped, and the page waits until the next click or shortcut.
* `ImplementsDisk` has the two exceptions of `DiskSpec`: unfinished copies, and a base
  image modified within its stamp's two seconds.
* `WriteFindsUnprotected` allows a write that finds a protected medium after an
  exchange, where the assertion in `floppy_xfer` (`floppy.cc:1746`) fails. A brokered
  floppy that can only be read is not marked protected at all, since
  `bx_uwp_file_open` falls back to reading without saying so.
* `OneSessionInOrder` and `EveryPacketGetsOut` stop at the second `openwaveoutput`.
* The timer properties stop at a start that panicked, after which slots of deleted
  devices stay active.

### Bounds

* `runtime`: none. The flags and places are finite, and sessions follow each other
  without limit. `Displays` is `uwp_dx`; the rfb display lacks the callbacks on which
  stopping a halted guest depends.
* `frame`: modes of 2x2 and 1x2 pixels, two colours and three boxes whose hull is
  the whole frame. A lost update needs one pixel outside a rectangle, and a wrong
  merge needs two boxes with something between them, so nothing is gained from
  larger frames. It switches between
  direct and indexed modes. `frame_scaled` has modes of 4x1 and 1x1, a texture limit
  of 2 and a palette of two entries.
* `media`: four images (brokered and writable, local and unwritable, brokered and
  unfit, local and missing), so that every way of opening and failing occurs in
  both drives; `MaxHandle` = 4 allows four opens over all sessions, enough for two
  media in each drive one after the other. `MaxQueue` = 1 request at a time: two
  requests dispatched back to back are also reached one by one, with the guest
  doing nothing in between, so a longer queue reaches no new drive state.
* `timers`: two devices and two timers of the APIC (the one that may be periodic,
  and one that may not), six slots, ticks to 4 with a countdown of at most 3, so that
  the null timer expires too; intervals of 0 (raised to 1) and 2; two sessions. Six
  slots are one more than the clients need, so that a leak shows. The view leaves out
  fields no step reads (the deadline of an inactive slot, slots beyond the bound),
  and the constraint does not go on from a start that panicked, of which the
  properties claim nothing.
* `virt_timer`: two devices, which are interchangeable, intervals of 1 and 2, a
  largest interval of 3, emulated time to 4, ratios 1 and 2. Two timers in one clock
  or one in each are what handlers can disturb; a ratio of 2 makes wake-ups late.
* `redolog`: two extents of two blocks, two values, one saved state, and a base
  image with three modification times, of which two share a stamp; a copy may end after
  any bitmap or block. Two extents are needed for pages in another order than extents
  and for the cached bitmap to be the wrong one. Values are interchangeable; the
  view leaves out blocks that no bitmap names or that belong to an unfinished copy, and
  what a read returned, which is checked at its own step.
* `input`: Ctrl, Alt and M, one mouse button that completes the chord, three events
  in the queue: a request, an event that overtakes the answer, and a focus event;
  sessions follow each other without limit.
* `sound`: two sessions, two packets of two units, a mixer pass of three units (so
  that a pass ends inside a packet), two rates, and the three callback slots the code
  has; the voice drops a packet at two queued buffers instead of nine.

### Fairness

Both threads are scheduled (weak fairness of the emulator thread's own steps and of
the UI thread's steps inside a call): the code runs them on preemptive threads, and
a wait whose predicate holds has been notified, which `NoLostWakeup` shows. No fairness is given to the user's
calls, to what the guest does (halt, wake up, exit) or to failures. In
`FramePipeline` the device timer's flush and the render loop's turn are fair: the
first is a periodic timer of the simulation, the second a loop. In `SoundOutput` the
resampler and mixer threads and the emulator thread inside a call are fair: each is a
thread of its own that polls with a sleep. The guest's packets, the end of a session
and the page's `Shutdown` are not. The other modules state safety only.

## Proofs

### Runtime and core

`BochsRuntime_proofs` proves the safety properties of `runtime` for every
non-empty set of displays and any number of sessions, from the one assumption
that `Displays` holds known display libraries. None of the properties is
inductive by itself. The invariant `RtInv` adds to the type invariant:

* `ObservedMeansParked`, which is itself needed for the rest;
* `PlacesAgree`: where the emulator thread is, against `g_running`, `SIM`, the GUI
  object and the queued shutdown event. The thread is in the core exactly while
  `Run` is at its call, and `SIM` exists at every place from which a parked thread
  can have come;
* `UIAgrees`: what each place of the UI thread implies about the runtime's flags.
  Without "a runtime that is not started has no thread" and "the copies agree at
  every place, not only between calls", restart and failure steps cannot be
  carried out;
* `SaveAgrees`: between the observed pause and the end of the save the thread is
  parked *and* the predicate it waits for stays false, because only the UI thread
  changes it, and the UI thread is in the save;
* `NoLostWakeup`, which is needed as it stands: a thread that is blocked waits for
  something that is still false. A step that makes it true must notify, and a step that
  leaves the flags alone must not block a thread without a look at them.

`InitInv` gives the initial state. `CoreInv`, `RunInv` and `UIInv` take the steps
of the core, of `Run` and of the UI thread, one case per action, `WakeInv` the wakeups
that change nothing else; `NextInv` combines
them and `Invariant` lifts them to the specification. `Types`, `PauseObserved`,
`PauseCopies`, `SingleSession`, `ExitIsFinal`, `QuiescentSave`,
`NoStaleShutdown` and `WakeupsArrive` follow from it.

### Frame pipeline

`FramePipeline_proofs` holds for modes of any size, any boxes, colours and texture
limit. The two statements about rectangles are inductive only beside the shapes of
the four copies: the bridge's frame is valid from the first mode on and has the size
of the framebuffer (`GuiInv`, `BridgeInv`), a snapshot of another size meets a frame
that is dirty, so that `CopyFrameInto` copies all of it (`SnapshotInv`), and a texture
exists exactly beside a snapshot and has its size (`TextureInv`). One lemma about
`Hull` (it contains both boxes) and one about a partial upload carry the rest.
`Implements` proves the refinement of `FrameSpec`: only drawing, `flush` and `Render`
change what the abstract frames show.

### Runtime media

`RuntimeMedia_proofs` holds for every set of images, whichever are brokered,
writable, missing or unfit, and whatever the bounds are. Between two
dispatches each drive must agree with its own parameters (`FloppyInv`, `CdromInv`),
because a request for one drive configures both; the
start configuration may leave the floppy with a path and status no drive stands behind,
but then without a media type (`Agrees`). An empty floppy drive must have its
change line set, or an insertion would go unnoticed; and no drive may hold a handle
number that was not given out yet (`Table`), or the next open could give a drive's
handle to the other. The operators work on a drive together with the bridge; each has
a lemma that says what it leaves, with what the other drive holds as a parameter, and
the lemmas are composed the way the functions call each other.

### Input path

`InputPath_proofs` holds for any keys, buttons and length of the queue. `ChordIsHeld`
is inductive. `ModifiersComeUp` needs to say of presses that are still queued what it
says of keys the guest was told of (`ReleasesFollow`). `CaptureFollowsIntent` allows
anything after the chord; `IntentQueued` says that a request still in the queue is the
page's last word, chord or not. Both rest on `NothingLeft`: while there is no display
library, nothing is queued, held or captured that a dropped event could have been
needed to undo. The proofs rest on lemmas about the events of a queue
that is appended to or loses its head.

### Sound

`SoundOutput_proofs` holds for packets, mixer passes and callback tables of any size,
any rates and any number of packets. The types hold in every session, once it is added
that a thread at work has a packet (`BusyWithPacket`). What is said of the first
session needs `FirstSession`:

* `Alone`: there is one thread of each kind, the resampler works on the head of the
  first queue (so `delete_buffer` deletes the packet it copied), a mixer that is not on
  its way to `output()` holds nothing, and nothing is sent before the device is marked
  open;
* `InOrder`: the units that are out, in the mixer's hands and in the second queue are
  numbered without a gap (`Line`, `UnitNo`), and with the packets still to be copied
  (`Waiting`) they are what was sent. The number of a unit is stated by multiplication:
  division by `PacketUnits`, whose value is not known to the prover, is beyond it;
* `OneRate`: the second queue has the adopted rate, unless the resampler is waiting for
  it to run dry, and the packet that joins it has that rate too.

With a second session the order is lost, as `sound_reopened` shows, so there is nothing
to prove about it but the types and bounds.

### Timers

`PcSystem_proofs` holds for any number of slots, devices and timers of the local APIC
and any null-timer interval. What a session may rely on comes from the sessions
before it: `SlotsOK` says who owns which slot, that `exit` keeps the null timer and the
first slot of the local APIC, and that the local APIC knows when that one is active;
`ClockOK` says what `initialize`, which looks at no other slot, makes of a slot that
was left active with a deadline of the last session. The countdown and the
number of slots are promised under `~aborted`: no start has panicked. That a device's
index names its own slot needs no such condition; since nothing is known of the clock
after a panic, it has an invariant of its own (`Named`), which says of a slot only that
it has its fields. Whether a session's
slots are enough (`NoSlotLeak`) is a count of the clients without a slot, by
`FiniteSetTheorems`. `Implements`, which needs no such condition, derives the
abstract clock from `ticksTotal` and the countdown: it rests on `CountdownInv`
(the earliest deadline is never passed) and on an argument that the countdown's end
is exactly the earliest deadline.

`VirtTimer_proofs` holds for any finite number of devices and any measured ratio.
`NextEventInv` and `WakeupAhead` are silent while a mode's timers are scanned, which is
when handlers change the table; `ScanInv` says what holds then: no armed timer lies
behind, and those the scan has passed lie ahead. `ClockInv` ties the two clocks of a
mode to each other and `TimeInv` says that the time a mode still has to pass on is the
time it lacks. `Implements` proves the refinement for both modes; with `Cancels`, an
abstract `Program` step may take expired slots away, and so covers a handler that
stops or sets a timer the scan has not reached.

"The first timer due" is `CHOOSE` of a least element. That it exists is the
library's theorem that the naturals are well ordered (`WFMin`), used once in each
timer module (`Smallest`, `FirstOf`).

### Undoable image

`Redolog_proofs` holds for any number of extents and blocks. The catalog in memory
comes back from the file after a crash, so `LogInv` says of the catalogs in memory, in
the file and in the backup that they hand out pages from 0 upwards without a gap
(`NoGap`, `OwnPages`) and how far the write in progress has brought the file towards
memory (`CatalogsAgree`), where a transfer is (`PositionOK`) and when the cached bitmap
is the file's (`CacheOK`). That there is room for every extent
is a count of the pages. `Implements` assumes `MaxTransfer = 1`, one sector after each
seek, as the ATA drive does it: with more, `redolog_usb` shows that it is false. It needs `DiskAgrees`: where the write
of a sector stands between its parts; that the backup is not whole while it is written,
and the log not while it is restored; and that no file has a later stamp than the base
image, which is the last that bore its stamp.

### What the proofs assume

The `ASSUME`s of the modules, which TLC evaluates on every run. They say what the
constants are; those that say more are justified by the code:

* `ConstantsAssumption` (`PcSystem`): more slots than the local APIC's timers and the
  null timer need (`BX_MAX_TIMERS` is 64), the timers of the local APIC distinct, and
  finitely many devices;
* `VirtTimerAssumption`: finitely many devices, a maximal interval of at least 1;
* `ImagesAssumption` (`RuntimeMedia`), `InputAssumption`, `FrameAssumption`,
  `RedologAssumption`: kinds of images and keys are among the images and keys, modes
  have a pixel, extents a block; modification times are 2 or later, so that no stamp is
  0, which stands for none;
* `SoundAssumption`: packets, mixer passes and the callback table are not empty, and 0,
  which stands for no voice, is no rate;
* `NoneAssumption` (`Redolog`): the values that stand for "nothing there" and "lost" are none of
  the values they stand beside.

### Only model-checked

* The liveness properties (`RunningCoreStops`, `JoinEnds`, `ScreenCatchesUp`,
  `FlushEnds`, `EveryPacketGetsOut`): they rest on fairness, which is out of the
  prover's reach.
* The refinement of `DiskSpec` for transfers of several sectors is false and has a
  violation run instead.

## Not modelled

* Instruction execution, memory, the other devices, firmware and the other image
  formats: unmodified Bochs, most of the repository's lines. Their state is beyond a
  model checker, they run on one thread, and what they should do is in the manuals
  of the hardware, not in the repository.
* Audio capture and MIDI; positions and transfers of the file bridge; the page's
  start, restore and DPI flows.
* A redolog at the moment it is created, whose first accesses use an uninitialised
  field, and failing writes of the file, which the code does not notice.
* Key translation, pointer coordinates and the toggle methods other than the default.
* The text of the generated configuration, the parameter tree's parser and menus,
  file pickers and page layout: text and user interface without a protocol.
* `DeviceResources` and the sample renderers: template code; device loss is an
  action of `FramePipeline`.
* The rfb protocol.
* A local (not brokered) file's operating system handle; only brokered handles are
  in a table of this code.

## Plan

1. Done: `CoreControl`, `BochsRuntime` and its proofs; `FrameSpec`, `FramePipeline`;
   `RuntimeMedia`; `InputPath`; `SoundOutput`; `TimerSpec`, `PcSystem`, `VirtTimer`;
   `DiskSpec`, `Redolog`.
2. Done: proofs of every safety property and refinement the passing runs check.
3. `PageSession`: start, restore, monitor, suspend and DPI flows of the page over
   `BochsRuntime`.
4. `FileBridge`: positions and transfers of two users of the handle table, with an
   abstract file as its specification.
5. The capture queue between the AudioGraph callback and the emulator.
6. ATA slot assignment and boot order of the configuration generator, as functions
   against a reference.
