---------------------------- MODULE RuntimeMedia ----------------------------
(***************************************************************************)
(* Changing media while the emulator runs.  The page sends insert and      *)
(* eject requests through the bridge into the event queue of the uwp_dx    *)
(* GUI; the emulator thread takes the queue, sets the path and status      *)
(* parameters of the floppy or the CD-ROM drive (their handlers react),    *)
(* and runs the runtime configuration of both devices, which close and     *)
(* open images, the brokered ones through the handle table of              *)
(* BochsUwpFileBridge.  Between two dispatches the guest uses the drives.  *)
(*                                                                         *)
(* One floppy drive and one CD-ROM drive stand for all: floppy B runs the  *)
(* same code on its own record.  Image contents and geometry are left out; *)
(* what an image is like is given by the constant sets below.              *)
(***************************************************************************)
EXTENDS Integers, Sequences, Functions

CONSTANTS
    Images,        \* what the file picker can return
    Brokered,      \* named uwp://token/name; the others are local copies
    Writable,      \* can be opened for writing
    Missing,       \* cannot be opened at all
    Misfit,        \* wrong size for a floppy, no readable block for a CD
    MaxQueue,      \* bound on the requests waiting in both queues
    MaxHandle      \* bound on g_nextHandle

ASSUME ImagesAssumption ==
    /\ "none" \notin Images
    /\ Brokered \subseteq Images /\ Writable \subseteq Images
    /\ Missing \subseteq Images /\ Misfit \subseteq Images
    /\ MaxQueue \in Nat /\ MaxHandle \in Nat

VARIABLES
    up,            \* the devices and the GUI of a session exist
    event_queue,   \* media requests of the GUI's event_queue
    pending,       \* handle_events's local queue
    floppy,        \* parameters and controller state of the floppy drive
    cdrom,         \* the same for the CD-ROM drive
    bridge,        \* g_files and g_nextHandle of the file bridge
    fdc,           \* the transfer the floppy controller is in
    atapi,         \* the disc a CD read was accepted for, or "none"
    knownFloppy,   \* history: the image in the drive when the disk change
                   \* line was last cleared
    knownDisc      \* history: the disc when the guest last acknowledged a
                   \* media change

queues  == <<event_queue, pending>>
known   == <<knownFloppy, knownDisc>>
vars    == <<up, queues, floppy, cdrom, bridge, fdc, atapi, known>>

NoPath   == "none"
NoHandle == 0                    \* -1 in the code; g_nextHandle starts at 1
Usable   == Images \ (Missing \cup Misfit)
Handles  == 1 .. MaxHandle
Requests == [target : {"floppya", "cdrom"}, path : Images \cup {NoPath},
             inserted : BOOLEAN]
Media    == [kind : {"none", "uwp", "local"}, image : Images \cup {NoPath},
             handle : Handles \cup {NoHandle}, writable : BOOLEAN]
NoMedium == [kind |-> "none", image |-> NoPath, handle |-> NoHandle,
             writable |-> FALSE]

TypeOK ==
    /\ up \in BOOLEAN
    /\ event_queue \in Seq(Requests) /\ pending \in Seq(Requests)
    /\ Len(event_queue) + Len(pending) <= MaxQueue
    /\ floppy \in [path : Images \cup {NoPath}, inserted : BOOLEAN,
                   typed : BOOLEAN, present : BOOLEAN,
                   write_protected : BOOLEAN, status_changed : BOOLEAN,
                   changeline : BOOLEAN, medium : Media]
    /\ cdrom \in [drive : BOOLEAN, path : Images \cup {NoPath},
                  inserted : BOOLEAN, status_changed : -1 .. 1,
                  ready : BOOLEAN, locked : BOOLEAN, medium : Media]
    /\ DOMAIN bridge.files \subseteq Handles
    /\ \A h \in DOMAIN bridge.files :
          bridge.files[h] \in [image : Brokered, writable : BOOLEAN]
    /\ bridge.next \in 1 .. MaxHandle + 1
    /\ fdc \in {"idle", "read", "write"}
    /\ atapi \in Images \cup {NoPath}
    /\ knownFloppy \in Images \cup {NoPath}
    /\ knownDisc \in Images \cup {NoPath}

-----------------------------------------------------------------------------
(* The file bridge.                                                        *)

\* bx_uwp_file_open: a failed open for writing is retried for reading inside
\* the call, and the caller is not told.
bx_uwp_file_open(b, uri, write) ==
    IF uri \in Missing
    THEN [bridge |-> b, handle |-> NoHandle]
    ELSE [bridge |-> [files |-> [h \in DOMAIN b.files \cup {b.next} |->
                                    IF h = b.next
                                    THEN [image    |-> uri,
                                          writable |-> write /\ uri \in Writable]
                                    ELSE b.files[h]],
                      next  |-> b.next + 1],
          handle |-> b.next]

bx_uwp_file_close(b, handle) ==
    [b EXCEPT !.files = Restrict(@, DOMAIN @ \ {handle})]

\* The medium an image gives once it is open.
Opened(b, image, handle, write) ==
    [kind     |-> IF image \in Brokered THEN "uwp" ELSE "local",
     image    |-> image,
     handle   |-> handle,
     writable |-> IF image \in Brokered THEN b.files[handle].writable ELSE write]

Release(b, medium) ==
    IF medium.kind = "uwp" THEN bx_uwp_file_close(b, medium.handle) ELSE b

-----------------------------------------------------------------------------
(* The floppy drive.  d is a pair of the drive f and the bridge b; panic   *)
(* says that the code called BX_PANIC on the way.                          *)

close_media(d) ==
    [f     |-> [d.f EXCEPT !.medium = NoMedium],
     b     |-> Release(d.b, d.f.medium),
     panic |-> d.panic]

\* The same pair with the drive as f.
With(d, f) == [f |-> f, b |-> d.b, panic |-> d.panic]

\* evaluate_media: ok says whether the image was accepted.  An image of the
\* wrong size is refused but stays open.  A local image that is missing is
\* only noticed before fstat when the drive was not write protected.
evaluate_media(d) ==
    LET c         == close_media(d)
        f         == c.f
        image     == f.path
        brokered  == image \in Brokered
        write     == ~f.write_protected
        o         == bx_uwp_file_open(c.b, image, write)
        protected == \/ f.write_protected
                     \/ image \in Missing
                     \/ ~brokered /\ image \notin Writable
        b         == IF brokered THEN o.bridge ELSE c.b
        medium    == Opened(b, image, IF brokered THEN o.handle ELSE NoHandle,
                            ~protected)
    IN  IF ~f.typed
        THEN [ok |-> FALSE, d |-> c]
        ELSE IF image \in Missing
        THEN [ok |-> FALSE,
              d  |-> [f     |-> [f EXCEPT !.write_protected = TRUE],
                      b     |-> c.b,
                      panic |-> d.panic \/ (~brokered /\ ~write)]]
        ELSE [ok |-> image \notin Misfit,
              d  |-> [f     |-> [f EXCEPT !.write_protected = protected,
                                          !.medium = medium],
                      b     |-> b,
                      panic |-> d.panic]]

\* set_media_status; setting the status parameter sets status_changed.
set_media_status(d, status) ==
    IF status = d.f.present THEN d
    ELSE IF ~status
    THEN LET c == close_media(d) IN
         With(c, [c.f EXCEPT !.present = FALSE, !.inserted = FALSE,
                             !.status_changed = TRUE, !.changeline = TRUE])
    ELSE IF d.f.path = NoPath THEN d
    ELSE LET e == evaluate_media(d) IN
         IF e.ok
         THEN With(e.d, [e.d.f EXCEPT !.present = TRUE, !.inserted = TRUE,
                                      !.status_changed = TRUE])
         ELSE With(e.d, [e.d.f EXCEPT !.present = FALSE, !.inserted = FALSE,
                                      !.typed = FALSE,
                                      !.status_changed = TRUE])

\* Mutant of floppy_runtime_config: a drive that holds a medium is not
\* emptied first.
floppy_runtime_config_keeps(d) ==
    IF ~d.f.status_changed THEN d
    ELSE LET new == set_media_status(d, d.f.inserted)
         IN  With(new, [new.f EXCEPT !.status_changed = FALSE])

\* bx_floppy_ctrl_c::runtime_config: out with the old, in with the new.
floppy_runtime_config(d) ==
    IF ~d.f.status_changed THEN d
    ELSE LET out == set_media_status(d, FALSE)
             new == IF d.f.inserted THEN set_media_status(out, TRUE) ELSE out
         IN  With(new, [new.f EXCEPT !.status_changed = FALSE])

\* The path parameter: a drive that holds a medium has changed.
floppy_param_string_handler(f, path) ==
    [f EXCEPT !.path = path, !.status_changed = @ \/ f.inserted]

\* Mutant of floppy_param_handler: the change is not noted.
floppy_param_handler_quiet(f, inserted) == [f EXCEPT !.inserted = inserted]

floppy_param_handler(f, inserted) ==
    [f EXCEPT !.inserted = inserted, !.status_changed = TRUE]

-----------------------------------------------------------------------------
(* The CD-ROM drive.  d is a pair of the drive c and the bridge b.         *)

\* The status parameter: a locked tray refuses the ejected status.
cdrom_status_handler(c, inserted) ==
    IF inserted \/ ~c.locked
    THEN [c EXCEPT !.inserted = inserted, !.status_changed = 1]
    ELSE [c EXCEPT !.inserted = TRUE]

\* The path parameter: a locked tray keeps the old path.
cdrom_path_handler(c, path) ==
    IF c.locked THEN c ELSE [c EXCEPT !.path = path, !.status_changed = 1]

\* Mutant of eject_cdrom: the stream is dropped and its handle not closed.
eject_cdrom_leaks(d) == [c |-> [d.c EXCEPT !.medium = NoMedium], b |-> d.b]

eject_cdrom(d) ==
    [c |-> [d.c EXCEPT !.medium = NoMedium], b |-> Release(d.b, d.c.medium)]

\* insert_cdrom opens the image and tries to read a block; a brokered image
\* that gives none is closed again, its handle number is used up.
insert_cdrom(d) ==
    LET image    == d.c.path
        brokered == image \in Brokered
        o        == bx_uwp_file_open(d.b, image, FALSE)
        b        == IF brokered THEN o.bridge ELSE d.b
        h        == IF brokered THEN o.handle ELSE NoHandle
    IN  IF image = NoPath \/ image \in Missing
        THEN [ok |-> FALSE, d |-> d]
        ELSE IF image \in Misfit
        THEN [ok |-> FALSE, d |-> [c |-> d.c, b |-> bx_uwp_file_close(b, h)]]
        ELSE [ok |-> TRUE,
              d  |-> [c |-> [d.c EXCEPT !.medium = Opened(b, image, h, FALSE)],
                      b |-> b]]

\* The drive is ready or not, and its status parameter says so.
NowReady(d, ready) ==
    [c |-> cdrom_status_handler([d.c EXCEPT !.ready = ready], ready), b |-> d.b]

\* Mutant of set_cd_media_status: the lock is not asked.
set_cd_media_status_forced(d, status) ==
    IF status = d.c.ready THEN d
    ELSE LET e == eject_cdrom(d)
             i == insert_cdrom(d)
         IN  IF status THEN NowReady(i.d, i.ok) ELSE NowReady(e, FALSE)

set_cd_media_status(d, status) ==
    IF status = d.c.ready THEN d
    ELSE IF status
    THEN LET i == insert_cdrom(d) IN NowReady(i.d, i.ok)
    ELSE IF d.c.locked THEN d ELSE NowReady(eject_cdrom(d), FALSE)

\* Mutant of cdrom_runtime_config: it clears status_changed, as the floppy
\* controller's does.
cdrom_runtime_config_clears(d) ==
    IF d.c.status_changed # 1 THEN d
    ELSE LET out == set_cd_media_status(d, FALSE)
             new == IF d.c.inserted THEN set_cd_media_status(out, TRUE) ELSE out
         IN  [c |-> [new.c EXCEPT !.status_changed = 0], b |-> new.b]

\* bx_hard_drive_c::runtime_config.  status_changed stays 1 until the guest
\* asks, so every later request, for whatever drive, comes here again.
cdrom_runtime_config(d) ==
    IF d.c.status_changed # 1 THEN d
    ELSE LET out == set_cd_media_status(d, FALSE)
         IN  IF d.c.inserted THEN set_cd_media_status(out, TRUE) ELSE out

-----------------------------------------------------------------------------
(* Sessions.                                                               *)

NoFloppy == [path |-> NoPath, inserted |-> FALSE, typed |-> FALSE,
             present |-> FALSE, write_protected |-> FALSE,
             status_changed |-> FALSE, changeline |-> FALSE,
             medium |-> NoMedium]
NoDisc == [drive |-> FALSE, path |-> NoPath, inserted |-> FALSE,
           status_changed |-> 0, ready |-> FALSE, locked |-> FALSE,
           medium |-> NoMedium]

Init ==
    /\ up = FALSE
    /\ event_queue = <<>> /\ pending = <<>>
    /\ floppy = NoFloppy
    /\ cdrom = NoDisc
    /\ bridge = [files |-> <<>>, next |-> 1]
    /\ fdc = "idle"
    /\ atapi = NoPath
    /\ knownFloppy = NoPath /\ knownDisc = NoPath

\* The floppy a session starts with.  The parser opens a brokered image to
\* learn its size (and so its type), init opens it to use it.  An image that
\* is missing has no type: the status stays inserted, as the configuration
\* says, and init opens nothing.
ConfiguredFloppy(b, image) ==
    LET named  == [NoFloppy EXCEPT !.path = image, !.inserted = TRUE]
        probed == IF image \in Brokered THEN [b EXCEPT !.next = @ + 1] ELSE b
        e      == evaluate_media([f |-> [named EXCEPT !.typed = TRUE],
                                  b |-> probed, panic |-> FALSE])
    IN  IF image = NoPath THEN [f |-> NoFloppy, b |-> b]
        ELSE IF image \in Missing THEN [f |-> named, b |-> b]
        ELSE [f |-> [e.d.f EXCEPT !.present = TRUE], b |-> e.d.b]

\* The CD-ROM drive a session starts with; without an image there is none.
ConfiguredCdrom(b, image) ==
    LET c == [NoDisc EXCEPT !.drive = TRUE, !.path = image, !.inserted = TRUE]
        i == insert_cdrom([c |-> c, b |-> b])
    IN  IF image = NoPath
        THEN [c |-> NoDisc, b |-> b]
        ELSE [c |-> IF i.ok THEN [i.d.c EXCEPT !.ready = TRUE]
                    ELSE cdrom_status_handler(i.d.c, FALSE),
              b |-> i.d.b]

\* The devices are initialised from the generated bochsrc, which the parser
\* does not accept with a floppy image of an unknown size; at the reset that
\* follows every floppy drive's change line is set.
StartSession(fimage, cimage) ==
    LET fd == ConfiguredFloppy(bridge, fimage)
        cd == ConfiguredCdrom(fd.b, cimage)
    IN  /\ ~up
        /\ fimage \notin Misfit
        /\ cd.b.next <= MaxHandle + 1
        /\ up' = TRUE
        /\ floppy' = [fd.f EXCEPT !.changeline = TRUE]
        /\ cdrom' = cd.c
        /\ bridge' = cd.b
        /\ knownFloppy' = NoPath
        /\ knownDisc' = cd.c.medium.image
        /\ UNCHANGED <<queues, fdc, atapi>>

\* The session ends: the GUI takes the queues with it, the destructors of
\* both controllers close what is open.
Teardown ==
    /\ up' = FALSE
    /\ event_queue' = <<>> /\ pending' = <<>>
    /\ floppy' = NoFloppy
    /\ cdrom' = NoDisc
    /\ bridge' = Release(Release(bridge, floppy.medium), cdrom.medium)
    /\ fdc' = "idle"
    /\ atapi' = NoPath
    /\ knownFloppy' = NoPath /\ knownDisc' = NoPath

EndSession == up /\ Teardown

-----------------------------------------------------------------------------
(* Requests of the page, and their dispatch on the emulator thread.        *)

\* InsertRuntimeMedia and EjectRuntimeMedia, through the bridge's callback.
enqueue_runtime_media(e) ==
    /\ up
    /\ Len(event_queue) + Len(pending) < MaxQueue
    /\ event_queue' = Append(event_queue, e)
    /\ UNCHANGED <<up, pending, floppy, cdrom, bridge, fdc, atapi, known>>

\* handle_events swaps the queues; it does not return to the guest before
\* its own is empty.
handle_events ==
    /\ up
    /\ pending = <<>>
    /\ event_queue # <<>>
    /\ pending' = event_queue
    /\ event_queue' = <<>>
    /\ UNCHANGED <<up, floppy, cdrom, bridge, fdc, atapi, known>>

\* set_runtime_media without update_runtime_options: the parameters.
FloppyRequested(e) ==
    IF e.target # "floppya" THEN floppy
    ELSE IF e.inserted
    THEN floppy_param_handler(floppy_param_string_handler(floppy, e.path), TRUE)
    ELSE floppy_param_handler(floppy, FALSE)

CdromRequested(e) ==
    IF e.target # "cdrom" THEN cdrom
    ELSE IF e.inserted
    THEN cdrom_status_handler(cdrom_path_handler(cdrom, e.path), TRUE)
    ELSE cdrom_status_handler(cdrom, FALSE)

\* set_runtime_media, then update_runtime_options, which reconfigures both
\* devices.  A request for a CD-ROM drive that is not there is dropped; a
\* panic on the way ends the session.
set_runtime_media ==
    LET e  == Head(pending)
        fd == floppy_runtime_config([f |-> FloppyRequested(e), b |-> bridge,
                                     panic |-> FALSE])
        cd == cdrom_runtime_config([c |-> CdromRequested(e), b |-> fd.b])
    IN  /\ up
        /\ pending # <<>>
        /\ \/ /\ e.target = "cdrom" /\ ~cdrom.drive
              /\ pending' = Tail(pending)
              /\ UNCHANGED <<up, event_queue, floppy, cdrom, bridge, fdc, atapi, known>>
           \/ /\ e.target = "cdrom" => cdrom.drive
              /\ fd.panic
              /\ Teardown
           \/ /\ e.target = "cdrom" => cdrom.drive
              /\ ~fd.panic
              /\ cd.b.next <= MaxHandle + 1
              /\ pending' = Tail(pending)
              /\ floppy' = fd.f
              /\ cdrom' = cd.c
              /\ bridge' = cd.b
              /\ UNCHANGED <<up, event_queue, fdc, atapi, known>>

-----------------------------------------------------------------------------
(* The guest, which runs while handle_events does not.                     *)

GuestRuns == up /\ pending = <<>>

\* The head moves to another cylinder: the change line is cleared if there is
\* a medium.
reset_changeline ==
    IF floppy.present
    THEN /\ floppy' = [floppy EXCEPT !.changeline = FALSE]
         /\ knownFloppy' = floppy.medium.image
    ELSE UNCHANGED <<floppy, knownFloppy>>

\* recalibrate, seek and relative seek; a command sent while another is
\* pending panics before it does anything.
step_head ==
    /\ GuestRuns
    /\ fdc = "idle"
    /\ reset_changeline
    /\ UNCHANGED <<up, queues, cdrom, bridge, fdc, atapi, knownDisc>>

\* Mutant of floppy_command: a write command does not ask for protection.
floppy_command_unchecked(direction) ==
    /\ GuestRuns
    /\ fdc = "idle"
    /\ floppy.present
    /\ reset_changeline \/ UNCHANGED <<floppy, knownFloppy>>
    /\ fdc' = direction
    /\ UNCHANGED <<up, queues, cdrom, bridge, atapi, knownDisc>>

\* A read or write command.  It moves the head if it asks for another
\* cylinder; its checks are made once, its sectors follow.
floppy_command(direction) ==
    /\ GuestRuns
    /\ fdc = "idle"
    /\ floppy.present
    /\ reset_changeline \/ UNCHANGED <<floppy, knownFloppy>>
    /\ fdc' = IF direction = "write" /\ floppy.write_protected THEN "idle"
              ELSE direction
    /\ UNCHANGED <<up, queues, cdrom, bridge, atapi, knownDisc>>

\* The transfer of one sector panics: nothing is open to seek in, the
\* assertion of floppy_xfer fails, or the file takes no write.
XferPanics ==
    \/ floppy.medium.kind = "none"
    \/ fdc = "write" /\ (floppy.write_protected \/ ~floppy.medium.writable)

\* One sector; increment_sector may move the head, and the last sector ends
\* the command.
floppy_xfer ==
    /\ GuestRuns
    /\ fdc # "idle"
    /\ \/ /\ XferPanics
          /\ Teardown
       \/ /\ ~XferPanics
          /\ fdc' \in {fdc, "idle"}
          /\ reset_changeline \/ UNCHANGED <<floppy, knownFloppy>>
          /\ UNCHANGED <<up, queues, cdrom, bridge, atapi, knownDisc>>

\* After a change: "no medium", then "may have changed", then the truth.
test_unit_ready ==
    /\ GuestRuns
    /\ cdrom.drive
    /\ cdrom.status_changed # 0
    /\ cdrom' = [cdrom EXCEPT !.status_changed = IF @ = 1 THEN -1 ELSE 0]
    /\ knownDisc' = IF cdrom.status_changed = -1 THEN cdrom.medium.image
                    ELSE knownDisc
    /\ UNCHANGED <<up, queues, floppy, bridge, fdc, atapi, knownFloppy>>

\* prevent/allow medium removal
lock_medium(locked) ==
    /\ GuestRuns
    /\ cdrom.ready
    /\ cdrom' = [cdrom EXCEPT !.locked = locked]
    /\ UNCHANGED <<up, queues, floppy, bridge, fdc, atapi, known>>

\* start stop unit with LoEj and not Start: it does not ask the lock.
guest_eject ==
    LET d == eject_cdrom([c |-> [cdrom EXCEPT !.ready = FALSE], b |-> bridge])
    IN  /\ GuestRuns
        /\ cdrom.ready
        /\ cdrom' = [cdrom_status_handler(d.c, FALSE) EXCEPT !.status_changed = 1]
        /\ bridge' = d.b
        /\ UNCHANGED <<up, queues, floppy, fdc, atapi, known>>

\* read (10), read (12), read cd: the disc is there when the command comes...
atapi_read ==
    /\ GuestRuns
    /\ atapi = NoPath
    /\ cdrom.ready
    /\ atapi' = cdrom.medium.image
    /\ UNCHANGED <<up, queues, floppy, cdrom, bridge, fdc, known>>

\* ...and a block is read later, from whatever is there then.  Without a disc
\* it panics, and it may on another disc, which can be too short.
read_block ==
    /\ GuestRuns
    /\ atapi # NoPath
    /\ \/ /\ ~cdrom.ready \/ cdrom.medium.image # atapi
          /\ Teardown
       \/ /\ cdrom.ready
          /\ atapi' \in {atapi, NoPath}
          /\ UNCHANGED <<up, queues, floppy, cdrom, bridge, fdc, known>>

Guest ==
    \/ \E direction \in {"read", "write"} : floppy_command(direction)
    \/ floppy_xfer \/ step_head \/ test_unit_ready
    \/ \E locked \in BOOLEAN : lock_medium(locked)
    \/ guest_eject \/ atapi_read \/ read_block

\* The page asks for an image the picker returned, or for an eject.
Page ==
    \E target \in {"floppya", "cdrom"} :
        \/ \E path \in Images :
              enqueue_runtime_media([target |-> target, path |-> path,
                                     inserted |-> TRUE])
        \/ enqueue_runtime_media([target |-> target, path |-> NoPath,
                                  inserted |-> FALSE])

Next ==
    \/ \E fimage, cimage \in Images \cup {NoPath} : StartSession(fimage, cimage)
    \/ EndSession
    \/ Page
    \/ handle_events \/ set_runtime_media
    \/ Guest

Spec == Init /\ [][Next]_vars

-----------------------------------------------------------------------------
(* Properties.                                                             *)

Drives == {floppy.medium, cdrom.medium}

\* The bridge's table and the drives agree: every open handle is held by
\* exactly one drive, which holds the image the handle was opened for, and
\* no drive holds a closed one.  Nothing stays open between sessions.
HandlesOwned ==
    /\ DOMAIN bridge.files = {m.handle : m \in {n \in Drives : n.kind = "uwp"}}
    /\ \A m \in Drives : m.kind = "uwp" => bridge.files[m.handle].image = m.image
    /\ floppy.medium.kind = "uwp" /\ cdrom.medium.kind = "uwp" =>
          floppy.medium.handle # cdrom.medium.handle

\* The table of handles of the file bridge holds what the drives hold, with
\* every variable of its type.
HandlesInv == TypeOK /\ HandlesOwned

\* Whenever the guest runs, a drive with a medium holds the image its path
\* parameter names, and the floppy's status parameter tells whether it does:
\* no request leaves the controller and the parameters apart.  A drive that
\* says inserted and is empty has no media type and names an image that cannot
\* be opened: only the configuration leaves one (see InsertHonoured).
DriveHoldsNamedImage ==
    GuestRuns =>
        /\ floppy.present => floppy.medium.image = floppy.path /\ floppy.inserted
        /\ floppy.inserted /\ ~floppy.present =>
              ~floppy.typed /\ floppy.path \in Missing
        /\ cdrom.ready => cdrom.medium.image = cdrom.path

\* A guest that cleared the disk change line with one image in the drive sees
\* the line set again before it can work with another.
FloppyChangeSignalled ==
    GuestRuns /\ floppy.present /\ ~floppy.changeline =>
        floppy.medium.image = knownFloppy

\* A guest finds another disc in the drive only after test unit ready has
\* told it: status_changed is 0 only while the disc it knows is in.
DiscChangeSignalled ==
    GuestRuns /\ cdrom.ready /\ cdrom.status_changed = 0 =>
        cdrom.medium.image = knownDisc

\* Neither drive, with its own way to tell of a change (the change line of the
\* floppy controller, status_changed of the ATAPI drive), lets the guest work
\* with another image than the one it last learnt of.
ChangesSignalled == FloppyChangeSignalled /\ DiscChangeSignalled

\* No request of the page takes away or exchanges a disc the guest locked.
LockedDiscStays ==
    [][up /\ up' /\ pending # <<>> /\ cdrom.ready /\ cdrom.locked =>
          cdrom'.ready /\ cdrom'.medium = cdrom.medium]_vars

\* The request e has just been dispatched.
Dispatched(e) == pending # <<>> /\ e = Head(pending) /\ pending' = Tail(pending) /\ up'

\* A request to insert a usable image inserts it: into a floppy drive whose
\* media type the configuration or an earlier insert has set, and into an
\* empty CD-ROM drive the guest has not left locked, whatever requests, failed
\* inserts and guest ejects came before.  After any request for the floppy its
\* status parameter tells whether there is a medium, whatever the
\* configuration or an earlier request had left there.
InsertHonoured ==
    [][/\ \A image \in Usable :
             /\ Dispatched([target |-> "floppya", path |-> image, inserted |-> TRUE])
                /\ floppy.typed =>
                   floppy'.present /\ floppy'.medium.image = image
             /\ Dispatched([target |-> "cdrom", path |-> image, inserted |-> TRUE])
                /\ cdrom.drive /\ ~cdrom.ready /\ ~cdrom.locked =>
                   cdrom'.ready /\ cdrom'.medium.image = image
       /\ \A e \in Requests :
             Dispatched(e) /\ e.target = "floppya" =>
                floppy'.inserted = floppy'.present]_vars

\* A write under way, which floppy_xfer asserts to be on a medium that is not
\* write protected, meets a protected one only after the medium was exchanged
\* and with the change line telling so.
WriteFindsUnprotected ==
    fdc = "write" /\ floppy.write_protected => floppy.changeline

=============================================================================
