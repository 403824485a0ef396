------------------------ MODULE RuntimeMedia_proofs ------------------------
(***************************************************************************)
(* Proofs about RuntimeMedia, for every set of images, whichever of them   *)
(* are brokered, writable, missing or misfit, and every bound.             *)
(*                                                                         *)
(* DriveHoldsNamedImage and ChangesSignalled speak of the moments when the *)
(* guest runs, HandlesOwned of a table that holds the right handles; none  *)
(* is inductive.  A dispatch may leave the other drive alone, so that each *)
(* drive must agree with its parameters between any two dispatches, and    *)
(* the floppy's status_changed must be clear then (FloppyInv, CdromInv).   *)
(* An empty floppy drive must have its change line set, or an insert into  *)
(* it would go unnoticed.  No drive holds a number not given out yet       *)
(* (Table), or the next open could give a drive's handle to the other.     *)
(*                                                                         *)
(* The operators of the model work on a drive together with the bridge.    *)
(* Each has a lemma that says what it leaves, with what the other drive    *)
(* holds as a parameter (FloppyAt, CdromAt); the lemmas are composed as    *)
(* the code's functions are.                                               *)
(***************************************************************************)
EXTENDS RuntimeMedia, TLAPS

(***************************************************************************)
(* What a drive, a table of the bridge and a queue are like between any    *)
(* two operations; the handles are not bounded here, because an operation  *)
(* takes numbers before the guard of its action is evaluated.              *)
(***************************************************************************)
Medium ==
    {m \in [kind : {"none", "uwp", "local"}, image : Images \cup {NoPath},
            handle : Nat, writable : BOOLEAN] :
        m.kind # "uwp" => m.handle = NoHandle}

FloppyDrive ==
    [path : Images \cup {NoPath}, inserted : BOOLEAN, typed : BOOLEAN,
     present : BOOLEAN, write_protected : BOOLEAN, status_changed : BOOLEAN,
     changeline : BOOLEAN, medium : Medium]

CdromDrive ==
    [drive : BOOLEAN, path : Images \cup {NoPath}, inserted : BOOLEAN,
     status_changed : -1 .. 1, ready : BOOLEAN, locked : BOOLEAN,
     medium : Medium]

\* A table of the bridge: every open handle has been given out before.
Table(b) ==
    /\ b = [files |-> b.files, next |-> b.next]
    /\ b.next \in Nat \ {0}
    /\ DOMAIN b.files \subseteq 1 .. (b.next - 1)
    /\ \A h \in DOMAIN b.files :
          b.files[h] \in [image : Brokered, writable : BOOLEAN]

\* The medium m, if it has a handle, holds an open one of its own image.
Backed(b, m) ==
    m.kind = "uwp" => /\ m.handle \in DOMAIN b.files
                      /\ b.files[m.handle].image = m.image

\* The open handles of b are those of the media m and n, one each.
Owned(b, m, n) ==
    /\ Table(b)
    /\ m \in Medium /\ n \in Medium
    /\ Backed(b, m) /\ Backed(b, n)
    /\ \A h \in DOMAIN b.files :
          \/ m.kind = "uwp" /\ m.handle = h
          \/ n.kind = "uwp" /\ n.handle = h
    /\ m.kind = "uwp" /\ n.kind = "uwp" => m.handle # n.handle

\* A request to insert names an image.
Meaningful(q) == \A i \in 1 .. Len(q) : q[i].inserted => q[i].path # NoPath

(***************************************************************************)
(* The inductive invariant.                                                *)
(***************************************************************************)
QueuesInv ==
    /\ event_queue \in Seq(Requests) /\ pending \in Seq(Requests)
    /\ Len(event_queue) + Len(pending) <= MaxQueue
    /\ Meaningful(event_queue) /\ Meaningful(pending)

TableInv ==
    /\ floppy \in FloppyDrive
    /\ cdrom \in CdromDrive
    /\ Owned(bridge, floppy.medium, cdrom.medium)
    /\ bridge.next <= MaxHandle + 1

\* The drive f against its parameters: a medium is the named image, and a
\* status without a medium is one the configuration left.
Agrees(f) ==
    /\ f.present => f.inserted /\ f.medium.image = f.path /\ f.path # NoPath
    /\ f.inserted /\ ~f.present => ~f.typed /\ f.path \in Missing

\* Between two dispatches nothing is left to reconfigure, whether or not the
\* guest runs there; the change line of an empty drive is set.
FloppyInv ==
    /\ Agrees(floppy)
    /\ ~floppy.status_changed
    /\ up /\ ~floppy.present => floppy.changeline
    /\ up /\ ~floppy.changeline => floppy.medium.image = knownFloppy

CdromInv ==
    /\ cdrom.ready => cdrom.medium.image = cdrom.path
    /\ ~cdrom.ready => cdrom.medium = NoMedium
    /\ cdrom.ready /\ cdrom.status_changed = 0 => cdrom.medium.image = knownDisc

DownInv ==
    ~up => /\ event_queue = <<>> /\ pending = <<>>
           /\ floppy = NoFloppy /\ cdrom = NoDisc
           /\ fdc = "idle"

RestInv ==
    /\ up \in BOOLEAN
    /\ fdc \in {"idle", "read", "write"}
    /\ atapi \in Images \cup {NoPath}
    /\ knownFloppy \in Images \cup {NoPath}
    /\ knownDisc \in Images \cup {NoPath}

MediaInv ==
    /\ RestInv /\ QueuesInv /\ TableInv /\ FloppyInv /\ CdromInv /\ DownInv
    /\ WriteFindsUnprotected

-----------------------------------------------------------------------------
(* The table of the bridge.                                                *)

\* Closing a handle takes it out of the table and leaves the others.
LEMMA CloseFile ==
    ASSUME NEW b, Table(b), NEW h
    PROVE  LET c == bx_uwp_file_close(b, h)
           IN  /\ Table(c)
               /\ c.next = b.next
               /\ DOMAIN c.files = DOMAIN b.files \ {h}
               /\ \A k \in DOMAIN c.files : c.files[k] = b.files[k]
  <1> DEFINE F == Restrict(b.files, DOMAIN b.files \ {h})
             c == bx_uwp_file_close(b, h)
  <1>1. b = [files |-> b.files, next |-> b.next]
    BY DEF Table
  <1>2. c.files = F /\ c.next = b.next /\ c = [files |-> c.files, next |-> c.next]
    <2>1. c = [b EXCEPT !.files = F]
      BY DEF bx_uwp_file_close
    <2>2. \A g, n : [[files |-> g, next |-> n] EXCEPT !.files = F]
                    = [files |-> F, next |-> n]
      OBVIOUS
    <2>3. c = [files |-> F, next |-> b.next]
      BY <2>1, <2>2, <1>1
    <2> QED
      BY <2>3
  <1>3. DOMAIN F = DOMAIN b.files \ {h}
    BY DEF Restrict
  <1>4. \A k \in DOMAIN F : F[k] = b.files[k]
    BY DEF Restrict
  <1> HIDE DEF F, c
  <1>5. Table(c)
    BY <1>2, <1>3, <1>4 DEF Table
  <1> QED
    BY <1>2, <1>3, <1>4, <1>5 DEF c

\* What opening a brokered image that is there gives: the next handle, for it.
FileOpened(b, image, o) ==
    /\ Table(o.bridge)
    /\ o.handle = b.next
    /\ o.bridge.next = b.next + 1
    /\ DOMAIN o.bridge.files = DOMAIN b.files \cup {b.next}
    /\ o.bridge.files[b.next].image = image
    /\ o.bridge.files[b.next].writable \in BOOLEAN
    /\ \A k \in DOMAIN b.files : o.bridge.files[k] = b.files[k]

\* bx_uwp_file_open of a brokered image that is there.
LEMMA OpenFile ==
    ASSUME NEW b, Table(b), NEW image, image \in Brokered, image \notin Missing,
           NEW write, write \in BOOLEAN
    PROVE  FileOpened(b, image, bx_uwp_file_open(b, image, write))
  <1> DEFINE r == [image |-> image, writable |-> write /\ image \in Writable]
             F == [h \in DOMAIN b.files \cup {b.next} |->
                      IF h = b.next THEN r ELSE b.files[h]]
             o == bx_uwp_file_open(b, image, write)
             c == o.bridge
  <1>1. o.bridge = [files |-> F, next |-> b.next + 1] /\ o.handle = b.next
    BY DEF bx_uwp_file_open
  <1>2. r \in [image : Brokered, writable : BOOLEAN] /\ r.image = image
    OBVIOUS
  <1>3. b.next \in Nat /\ DOMAIN b.files \subseteq 1 .. (b.next - 1)
    BY DEF Table
  <1>4. b.next \notin DOMAIN b.files
    BY <1>3
  <1>5. /\ DOMAIN F = DOMAIN b.files \cup {b.next}
        /\ F[b.next] = r
        /\ \A k \in DOMAIN b.files : F[k] = b.files[k]
    BY <1>4
  <1>6. c.files = F /\ c.next = b.next + 1 /\ c = [files |-> c.files, next |-> c.next]
    BY <1>1
  <1>7. r.writable \in BOOLEAN
    BY <1>2
  <1> HIDE DEF F, o, r, c
  <1>8. DOMAIN c.files \subseteq 1 .. (c.next - 1) /\ c.next \in Nat \ {0}
    <2>1. c.next - 1 = b.next /\ c.next \in Nat \ {0}
      BY <1>3, <1>6
    <2>2. b.next \in Nat \ {0}
      BY DEF Table
    <2>3. \A k \in DOMAIN b.files \cup {b.next} : k \in 1 .. b.next
      BY <2>2, <1>3
    <2> QED
      BY <2>1, <2>3, <1>5, <1>6
  <1>9. \A h \in DOMAIN c.files :
           c.files[h] \in [image : Brokered, writable : BOOLEAN]
    <2> SUFFICES ASSUME NEW h \in DOMAIN c.files
                 PROVE  c.files[h] \in [image : Brokered, writable : BOOLEAN]
      OBVIOUS
    <2>1. CASE h = b.next
      BY <2>1, <1>2, <1>5, <1>6
    <2>2. CASE h \in DOMAIN b.files
      BY <2>2, <1>5, <1>6 DEF Table
    <2> QED
      BY <2>1, <2>2, <1>5, <1>6
  <1>10. Table(c)
    BY <1>6, <1>8, <1>9 DEF Table
  <1> QED
    BY <1>1, <1>2, <1>5, <1>6, <1>7, <1>10 DEF o, c, FileOpened

\* The two media of Owned may change places.
LEMMA OwnedSwap ==
    ASSUME NEW b, NEW m, NEW n, Owned(b, m, n)
    PROVE  Owned(b, n, m)
  BY DEF Owned

\* What a drive without a medium holds.
LEMMA NoMediumIsMedium == NoMedium \in Medium /\ NoMedium.kind # "uwp"
                          /\ NoMedium.image = NoPath
  BY DEF NoMedium, Medium, NoHandle, NoPath

\* Taking a medium out of a drive closes its handle, if it has one.
LEMMA ReleaseOwned ==
    ASSUME NEW b, NEW m, NEW n, Owned(b, m, n)
    PROVE  /\ Owned(Release(b, m), NoMedium, n)
           /\ Release(b, m).next = b.next
  <1>0. Table(b) /\ m \in Medium /\ n \in Medium
    BY DEF Owned
  <1>1. CASE m.kind # "uwp"
    <2>1. Release(b, m) = b
      BY <1>1 DEF Release
    <2>2. Owned(b, NoMedium, n)
      BY <1>1, NoMediumIsMedium DEF Owned, Backed
    <2> QED
      BY <2>1, <2>2
  <1>2. CASE m.kind = "uwp"
    <2> DEFINE c == bx_uwp_file_close(b, m.handle)
    <2>1. Release(b, m) = c
      BY <1>2 DEF Release
    <2>2. /\ Table(c) /\ c.next = b.next
          /\ DOMAIN c.files = DOMAIN b.files \ {m.handle}
          /\ \A k \in DOMAIN c.files : c.files[k] = b.files[k]
      BY <1>0, CloseFile
    <2> HIDE DEF c
    <2>3. Backed(c, n)
      BY <2>2, <1>2 DEF Owned, Backed
    <2>4. \A h \in DOMAIN c.files : n.kind = "uwp" /\ n.handle = h
      BY <2>2, <1>2 DEF Owned
    <2>5. Owned(c, NoMedium, n)
      BY <2>2, <2>3, <2>4, <1>0, NoMediumIsMedium DEF Owned, Backed
    <2> QED
      BY <2>1, <2>2, <2>5
  <1> QED
    BY <1>1, <1>2

\* The image, opened for a drive that was empty, is its medium.
OpenedOwned(b, image, write, w, n) ==
    LET o == bx_uwp_file_open(b, image, write)
        c == IF image \in Brokered THEN o.bridge ELSE b
        h == IF image \in Brokered THEN o.handle ELSE NoHandle
        m == Opened(c, image, h, w)
    IN  Owned(c, m, n) /\ m.image = image /\ c.next >= b.next

\* Opening an image for an empty drive, brokered or not.
LEMMA OpenOwned ==
    ASSUME NEW b, NEW n, Owned(b, NoMedium, n),
           NEW image, image \in Images, image \notin Missing,
           NEW write, write \in BOOLEAN, NEW w, w \in BOOLEAN
    PROVE  OpenedOwned(b, image, write, w, n)
  <1> DEFINE o == bx_uwp_file_open(b, image, write)
             brokered == image \in Brokered
             c == IF brokered THEN o.bridge ELSE b
             h == IF brokered THEN o.handle ELSE NoHandle
             m == Opened(c, image, h, w)
  <1>0. Table(b) /\ n \in Medium /\ b.next \in Nat
    BY DEF Owned, Table
  <1>1. CASE ~brokered
    <2>1. c = b /\ h = NoHandle
      BY <1>1
    <2>2. m = [kind |-> "local", image |-> image, handle |-> NoHandle, writable |-> w]
      BY <1>1, <2>1 DEF Opened
    <2>3. m \in Medium /\ m.kind # "uwp" /\ m.image = image
      BY <2>2 DEF Medium, NoHandle
    <2> HIDE DEF m, c, h
    <2>4. Owned(b, m, n)
      BY <2>3, NoMediumIsMedium DEF Owned, Backed
    <2> QED
      BY <2>1, <2>3, <2>4, <1>0 DEF OpenedOwned, m, c, h
  <1>2. CASE brokered
    <2>1. c = o.bridge /\ h = o.handle
      BY <1>2
    <2>2. FileOpened(b, image, o)
      BY <1>2, <1>0, OpenFile
    <2>3. m = [kind |-> "uwp", image |-> image, handle |-> h,
               writable |-> c.files[h].writable]
      BY <1>2 DEF Opened
    <2>4. h = b.next /\ c.files[h].writable \in BOOLEAN
      BY <2>1, <2>2 DEF FileOpened
    <2> HIDE DEF o, c, h, m
    <2>5. /\ m \in Medium /\ m.kind = "uwp"
          /\ m.image = image /\ m.handle = b.next
      BY <2>3, <2>4, <1>0 DEF Medium
    <2>6. b.next \notin DOMAIN b.files
      BY <1>0 DEF Table
    <2>7. Backed(c, m)
      BY <2>1, <2>2, <2>5 DEF FileOpened, Backed
    <2>8. Backed(c, n) /\ (n.kind = "uwp" => n.handle # m.handle)
      BY <2>1, <2>2, <2>5, <2>6 DEF FileOpened, Backed, Owned
    <2>9. \A k \in DOMAIN c.files :
             \/ m.kind = "uwp" /\ m.handle = k
             \/ n.kind = "uwp" /\ n.handle = k
      BY <2>1, <2>2, <2>5, NoMediumIsMedium DEF FileOpened, Owned
    <2>10. Owned(c, m, n)
      BY <2>1, <2>2, <2>5, <2>7, <2>8, <2>9, <1>0 DEF FileOpened, Owned
    <2> QED
      BY <2>1, <2>2, <2>5, <2>10, <1>0 DEF OpenedOwned, FileOpened, o, c, h, m
  <1> QED
    BY <1>1, <1>2

-----------------------------------------------------------------------------
(* The floppy drive.                                                       *)

\* The pair d of the drive and the bridge, with n in the CD-ROM drive.
FloppyAt(d, n) ==
    /\ d.f \in FloppyDrive
    /\ d.panic \in BOOLEAN
    /\ Owned(d.b, d.f.medium, n)

\* The path is left alone; handles may be used up.
Keeps(d, e) ==
    /\ e.f.path = d.f.path
    /\ e.b.next >= d.b.next

\* The handle numbers stay numbers.
LEMMA NextIsNat ==
    ASSUME NEW d, NEW n, FloppyAt(d, n)
    PROVE  d.b.next \in Nat
  BY DEF FloppyAt, Owned, Table

\* What close_media does.
LEMMA CloseMedia ==
    ASSUME NEW d, NEW n, FloppyAt(d, n)
    PROVE  LET e == close_media(d)
           IN  /\ FloppyAt(e, n)
               /\ Keeps(d, e)
               /\ e.f.medium = NoMedium
               /\ e.f.inserted = d.f.inserted
               /\ e.f.typed = d.f.typed
               /\ e.f.present = d.f.present
               /\ e.f.write_protected = d.f.write_protected
               /\ e.f.status_changed = d.f.status_changed
               /\ e.f.changeline = d.f.changeline
               /\ e.panic = d.panic
  <1> DEFINE e == close_media(d)
             b == Release(d.b, d.f.medium)
             f == [d.f EXCEPT !.medium = NoMedium]
  <1>1. e.f = f /\ e.b = b /\ e.panic = d.panic
    BY DEF close_media
  <1>2. d.f \in FloppyDrive /\ Owned(d.b, d.f.medium, n) /\ d.panic \in BOOLEAN
    BY DEF FloppyAt
  <1>3. Owned(b, NoMedium, n) /\ b.next = d.b.next /\ d.b.next \in Nat
    BY <1>2, ReleaseOwned, NextIsNat
  <1>4. /\ f \in FloppyDrive
        /\ f.medium = NoMedium /\ f.path = d.f.path
        /\ f.inserted = d.f.inserted /\ f.typed = d.f.typed
        /\ f.present = d.f.present /\ f.write_protected = d.f.write_protected
        /\ f.status_changed = d.f.status_changed /\ f.changeline = d.f.changeline
    BY <1>2, NoMediumIsMedium DEF FloppyDrive
  <1> HIDE DEF b, f, e
  <1>6. FloppyAt(e, n)
    BY <1>1, <1>2, <1>3, <1>4 DEF FloppyAt
  <1>7. Keeps(d, e)
    BY <1>1, <1>3, <1>4 DEF Keeps
  <1> QED
    BY <1>1, <1>4, <1>6, <1>7 DEF e

\* What evaluate_media does with the image the path parameter names.
Evaluated(d, e, n) ==
    /\ FloppyAt(e.d, n)
    /\ Keeps(d, e.d)
    /\ e.ok \in BOOLEAN
    /\ e.ok => e.d.f.medium.image = d.f.path
    /\ d.f.typed /\ d.f.path \in Usable => e.ok
    /\ e.d.f.typed = d.f.typed
    /\ e.d.f.changeline = d.f.changeline
    /\ e.d.f.inserted = d.f.inserted
    /\ e.d.f.status_changed = d.f.status_changed

\* evaluate_media keeps the drive and the bridge together, whether it accepts
\* the image, refuses it or does not find it.
LEMMA EvaluateMedia ==
    ASSUME NEW d, NEW n, FloppyAt(d, n), d.f.path \in Images
    PROVE  Evaluated(d, evaluate_media(d), n)
  <1> DEFINE c == close_media(d)
             f == c.f
             image == f.path
             brokered == image \in Brokered
             write == ~f.write_protected
             o == bx_uwp_file_open(c.b, image, write)
             protected == \/ f.write_protected
                          \/ image \in Missing
                          \/ ~brokered /\ image \notin Writable
             b == IF brokered THEN o.bridge ELSE c.b
             h == IF brokered THEN o.handle ELSE NoHandle
             w == ~protected
             medium == Opened(b, image, h, w)
             e == evaluate_media(d)
  <1>1. /\ FloppyAt(c, n) /\ Keeps(d, c) /\ f.medium = NoMedium
        /\ f.typed = d.f.typed /\ f.changeline = d.f.changeline
        /\ f.inserted = d.f.inserted /\ f.status_changed = d.f.status_changed
        /\ c.panic = d.panic
    BY CloseMedia
  <1>2. image = d.f.path /\ image \in Images
    BY <1>1 DEF Keeps
  <1>3. /\ f \in FloppyDrive /\ Owned(c.b, NoMedium, n)
        /\ d.panic \in BOOLEAN /\ d.b.next \in Nat /\ c.b.next \in Nat
    BY <1>1, NextIsNat DEF FloppyAt
  <1>4. write \in BOOLEAN /\ protected \in BOOLEAN /\ w \in BOOLEAN
    BY <1>3 DEF FloppyDrive
  <1>5. CASE ~f.typed
    <2>1. e = [ok |-> FALSE, d |-> c]
      BY <1>5 DEF evaluate_media
    <2>2. e.ok = FALSE /\ e.d = c
      BY <2>1
    <2> HIDE DEF e, c
    <2> QED
      BY <1>1, <1>5, <2>2 DEF Evaluated, e
  <1>6. CASE f.typed /\ image \in Missing
    <2> DEFINE g == [f EXCEPT !.write_protected = TRUE]
               p == d.panic \/ (~brokered /\ ~write)
    <2>1. e = [ok |-> FALSE, d |-> [f |-> g, b |-> c.b, panic |-> p]]
      BY <1>6 DEF evaluate_media
    <2>2. /\ g \in FloppyDrive /\ g.medium = f.medium /\ g.path = f.path
          /\ g.typed = f.typed /\ g.changeline = f.changeline
          /\ g.inserted = f.inserted /\ g.status_changed = f.status_changed
      BY <1>3 DEF FloppyDrive
    <2>3. p \in BOOLEAN
      BY <1>3
    <2> HIDE DEF e, g, p, c
    <2>4. e.ok = FALSE /\ e.d.f = g /\ e.d.b = c.b /\ e.d.panic = p
      BY <2>1
    <2>5. d.f.path \notin Usable
      BY <1>2, <1>6 DEF Usable
    <2>6. FloppyAt(e.d, n)
      BY <1>1, <1>3, <2>2, <2>3, <2>4 DEF FloppyAt
    <2>7. Keeps(d, e.d)
      BY <1>1, <2>2, <2>4 DEF Keeps
    <2> QED
      BY <1>1, <2>2, <2>4, <2>5, <2>6, <2>7 DEF Evaluated, e
  <1>7. CASE f.typed /\ image \notin Missing
    <2> DEFINE g == [f EXCEPT !.write_protected = protected, !.medium = medium]
    <2>1. e = [ok |-> image \notin Misfit,
               d |-> [f |-> g, b |-> b, panic |-> d.panic]]
      BY <1>7 DEF evaluate_media
    <2>2. /\ Owned(b, medium, n)
          /\ medium.image = image
          /\ b.next >= c.b.next
      <3> HIDE DEF w, write, image, protected, f, c
      <3>1. OpenedOwned(c.b, image, write, w, n)
        BY <1>2, <1>3, <1>4, <1>7, OpenOwned, Zenon
      <3> QED
        BY <3>1, Zenon DEF OpenedOwned
    <2>3. e.ok = (image \notin Misfit) /\ e.d.f = g /\ e.d.b = b /\ e.d.panic = d.panic
      BY <2>1
    <2>4. medium \in Medium
      BY <2>2 DEF Owned
    <2> HIDE DEF medium, e, b, protected, c, f
    <2>5. /\ g \in FloppyDrive /\ g.medium = medium /\ g.path = f.path
          /\ g.typed = f.typed /\ g.changeline = f.changeline
          /\ g.inserted = f.inserted /\ g.status_changed = f.status_changed
      BY <1>3, <1>4, <2>4 DEF FloppyDrive
    <2>6. d.f.path \in Usable => e.ok
      BY <1>2, <2>3 DEF Usable
    <2>7. b.next \in Nat
      BY <2>2 DEF Owned, Table
    <2> HIDE DEF g
    <2>8. FloppyAt(e.d, n)
      BY <1>3, <2>2, <2>3, <2>5 DEF FloppyAt
    <2>9. Keeps(d, e.d)
      <3>1. c.b.next >= d.b.next
        BY <1>1 DEF Keeps
      <3>2. e.d.f.path = d.f.path
        BY <1>2, <2>3, <2>5
      <3> QED
        BY <3>1, <3>2, <1>3, <2>2, <2>3, <2>7 DEF Keeps
    <2> QED
      BY <1>1, <1>2, <2>2, <2>3, <2>5, <2>6, <2>8, <2>9 DEF Evaluated, e
  <1>8. f.typed \in BOOLEAN
    BY <1>3 DEF FloppyDrive
  <1> QED
    BY <1>5, <1>6, <1>7, <1>8

\* set_media_status(false): whatever was there, the drive is empty, and the
\* change line tells if a medium went.
Emptied(d, e, n) ==
    /\ FloppyAt(e, n)
    /\ Keeps(d, e)
    /\ ~e.f.present
    /\ ~d.f.inserted => ~e.f.inserted
    /\ e.f.typed = d.f.typed
    /\ d.f.present \/ d.f.changeline => e.f.changeline

\* set_media_status, taking the medium out.
LEMMA EmptyFloppy ==
    ASSUME NEW d, NEW n, FloppyAt(d, n)
    PROVE  Emptied(d, set_media_status(d, FALSE), n)
  <1> DEFINE e == set_media_status(d, FALSE)
             c == close_media(d)
             g == [c.f EXCEPT !.present = FALSE, !.inserted = FALSE,
                              !.status_changed = TRUE, !.changeline = TRUE]
  <1>1. d.f \in FloppyDrive /\ d.b.next \in Nat
    BY NextIsNat DEF FloppyAt
  <1>2. d.f.present \in BOOLEAN
    BY <1>1 DEF FloppyDrive
  <1>3. CASE ~d.f.present
    <2>1. e = d
      BY <1>2, <1>3 DEF set_media_status
    <2>2. Keeps(d, d)
      BY <1>1 DEF Keeps
    <2> HIDE DEF e
    <2>3. Emptied(d, e, n)
      BY <1>3, <2>1, <2>2, Zenon DEF Emptied
    <2> QED
      BY <2>3 DEF e
  <1>4. CASE d.f.present
    <2>1. e = With(c, g)
      BY <1>2, <1>4 DEF set_media_status
    <2>2. /\ FloppyAt(c, n) /\ Keeps(d, c) /\ c.f.typed = d.f.typed
      BY CloseMedia
    <2>3. c.f \in FloppyDrive /\ Owned(c.b, c.f.medium, n) /\ c.panic \in BOOLEAN
      BY <2>2 DEF FloppyAt
    <2> HIDE DEF c, e
    <2>4. /\ g \in FloppyDrive /\ g.medium = c.f.medium /\ g.path = c.f.path
          /\ g.typed = c.f.typed
          /\ g.present = FALSE /\ g.inserted = FALSE /\ g.changeline = TRUE
      BY <2>3 DEF FloppyDrive
    <2> HIDE DEF g
    <2>5. e.f = g /\ e.b = c.b /\ e.panic = c.panic
      BY <2>1 DEF With
    <2>6. FloppyAt(e, n)
      BY <2>3, <2>4, <2>5 DEF FloppyAt
    <2>7. Keeps(d, e)
      BY <2>2, <2>4, <2>5 DEF Keeps
    <2> QED
      BY <2>2, <2>4, <2>5, <2>6, <2>7 DEF Emptied, e
  <1> QED
    BY <1>2, <1>3, <1>4

\* set_media_status(true) on an empty drive: the drive has a medium, that of
\* the path parameter, or the status parameter says that it has none.
Filled(d, e, n) ==
    /\ FloppyAt(e, n)
    /\ Keeps(d, e)
    /\ e.f.present = e.f.inserted
    /\ e.f.present => e.f.medium.image = d.f.path
    /\ d.f.typed /\ d.f.path \in Usable => e.f.present
    /\ e.f.changeline = d.f.changeline

\* set_media_status, putting the medium in.
LEMMA FillFloppy ==
    ASSUME NEW d, NEW n, FloppyAt(d, n), ~d.f.present, d.f.path \in Images
    PROVE  Filled(d, set_media_status(d, TRUE), n)
  <1> DEFINE r == set_media_status(d, TRUE)
             e == evaluate_media(d)
             g == [e.d.f EXCEPT !.present = TRUE, !.inserted = TRUE,
                                !.status_changed = TRUE]
             k == [e.d.f EXCEPT !.present = FALSE, !.inserted = FALSE,
                                !.typed = FALSE, !.status_changed = TRUE]
  <1>1. d.f.present \in BOOLEAN /\ d.b.next \in Nat /\ d.f.path # NoPath
    BY NextIsNat, ImagesAssumption DEF FloppyAt, FloppyDrive, NoPath
  <1>2. r = IF e.ok THEN With(e.d, g) ELSE With(e.d, k)
    BY <1>1 DEF set_media_status
  <1>3. Evaluated(d, e, n)
    BY EvaluateMedia
  <1> HIDE DEF e, r
  <1>4. /\ e.d.f \in FloppyDrive /\ Owned(e.d.b, e.d.f.medium, n)
        /\ e.d.panic \in BOOLEAN
    BY <1>3 DEF Evaluated, FloppyAt
  <1>5. CASE e.ok
    <2>1. r = With(e.d, g)
      BY <1>2, <1>5
    <2>2. /\ g \in FloppyDrive /\ g.medium = e.d.f.medium /\ g.path = e.d.f.path
          /\ g.changeline = e.d.f.changeline
          /\ g.present = TRUE /\ g.inserted = TRUE
      BY <1>4 DEF FloppyDrive
    <2> HIDE DEF g
    <2>3. r.f = g /\ r.b = e.d.b /\ r.panic = e.d.panic
      BY <2>1 DEF With
    <2>4. FloppyAt(r, n)
      BY <1>4, <2>2, <2>3 DEF FloppyAt
    <2>5. Keeps(d, r)
      BY <1>3, <2>2, <2>3 DEF Keeps, Evaluated
    <2> QED
      BY <1>3, <1>5, <2>2, <2>3, <2>4, <2>5 DEF Filled, Evaluated, r
  <1>6. CASE ~e.ok
    <2>1. r = With(e.d, k)
      BY <1>2, <1>6
    <2>2. /\ k \in FloppyDrive /\ k.medium = e.d.f.medium /\ k.path = e.d.f.path
          /\ k.changeline = e.d.f.changeline
          /\ k.present = FALSE /\ k.inserted = FALSE
      BY <1>4 DEF FloppyDrive
    <2> HIDE DEF k
    <2>3. r.f = k /\ r.b = e.d.b /\ r.panic = e.d.panic
      BY <2>1 DEF With
    <2>4. FloppyAt(r, n)
      BY <1>4, <2>2, <2>3 DEF FloppyAt
    <2>5. Keeps(d, r)
      BY <1>3, <2>2, <2>3 DEF Keeps, Evaluated
    <2> QED
      BY <1>3, <1>6, <2>2, <2>3, <2>4, <2>5 DEF Filled, Evaluated, r
  <1> QED
    BY <1>5, <1>6

\* floppy_runtime_config, after a request: the drive holds the image of the
\* path parameter if the request asked for one and it could be used, and the
\* change line is set if the drive held a medium before.
FloppyConfigured(d, e, n) ==
    /\ FloppyAt(e, n)
    /\ Keeps(d, e)
    /\ ~e.f.status_changed
    /\ e.f.present = e.f.inserted
    /\ e.f.present => d.f.inserted /\ e.f.medium.image = d.f.path
    /\ d.f.inserted /\ d.f.typed /\ d.f.path \in Usable => e.f.present
    /\ d.f.present \/ d.f.changeline => e.f.changeline

\* bx_floppy_ctrl_c::runtime_config after a request.
LEMMA ConfigureFloppy ==
    ASSUME NEW d, NEW n, FloppyAt(d, n),
           d.f.status_changed, d.f.inserted => d.f.path \in Images
    PROVE  FloppyConfigured(d, floppy_runtime_config(d), n)
  <1> DEFINE out == set_media_status(d, FALSE)
             in == set_media_status(out, TRUE)
             new == IF d.f.inserted THEN in ELSE out
             g == [new.f EXCEPT !.status_changed = FALSE]
             r == floppy_runtime_config(d)
  <1>1. r = With(new, g)
    BY DEF floppy_runtime_config
  <1>2. Emptied(d, out, n)
    BY EmptyFloppy
  <1>3. d.f.inserted \in BOOLEAN /\ d.b.next \in Nat
    BY NextIsNat DEF FloppyAt, FloppyDrive
  <1>4. /\ FloppyAt(new, n)
        /\ Keeps(d, new)
        /\ new.f.present = new.f.inserted
        /\ new.f.present => d.f.inserted /\ new.f.medium.image = d.f.path
        /\ d.f.inserted /\ d.f.typed /\ d.f.path \in Usable => new.f.present
        /\ d.f.present \/ d.f.changeline => new.f.changeline
    <2>1. CASE d.f.inserted
      <3>1. new = in
        BY <2>1
      <3> HIDE DEF new, out
      <3>2. out.f.path \in Images /\ out.f.path = d.f.path
        BY <1>2, <2>1 DEF Emptied, Keeps
      <3>3. FloppyAt(out, n) /\ ~out.f.present
        BY <1>2 DEF Emptied
      <3>4. Filled(out, in, n)
        BY <3>2, <3>3, FillFloppy
      <3> HIDE DEF in
      <3>5. Keeps(d, in)
        <4>1. in.b.next \in Nat /\ out.b.next \in Nat
          BY <3>3, <3>4, NextIsNat DEF Filled
        <4> QED
          BY <1>2, <1>3, <3>4, <4>1 DEF Emptied, Filled, Keeps
      <3> QED
        BY <1>2, <2>1, <3>1, <3>2, <3>4, <3>5 DEF Emptied, Filled
    <2>2. CASE ~d.f.inserted
      <3>1. new = out
        BY <2>2
      <3> HIDE DEF new, out
      <3>2. out.f.present \in BOOLEAN /\ out.f.inserted \in BOOLEAN
        BY <1>2 DEF Emptied, FloppyAt, FloppyDrive
      <3> QED
        BY <1>2, <2>2, <3>1, <3>2 DEF Emptied
    <2> QED
      BY <2>1, <2>2
  <1> HIDE DEF new, r
  <1>5. new.f \in FloppyDrive /\ Owned(new.b, new.f.medium, n) /\ new.panic \in BOOLEAN
    BY <1>4 DEF FloppyAt
  <1>6. /\ g \in FloppyDrive /\ g.medium = new.f.medium /\ g.path = new.f.path
        /\ g.present = new.f.present /\ g.inserted = new.f.inserted
        /\ g.changeline = new.f.changeline /\ g.status_changed = FALSE
    BY <1>5 DEF FloppyDrive
  <1> HIDE DEF g
  <1>7. r.f = g /\ r.b = new.b /\ r.panic = new.panic
    BY <1>1 DEF With
  <1>8. FloppyAt(r, n)
    BY <1>5, <1>6, <1>7 DEF FloppyAt
  <1>9. Keeps(d, r)
    BY <1>4, <1>6, <1>7 DEF Keeps
  <1> QED
    BY <1>4, <1>6, <1>7, <1>8, <1>9 DEF FloppyConfigured, r

\* What setting the parameters of the floppy drive does to the drive.
LEMMA FloppyParams ==
    ASSUME NEW f \in FloppyDrive, NEW e \in Requests,
           e.target = "floppya"
    PROVE  LET g == IF e.inserted
                    THEN floppy_param_handler(floppy_param_string_handler(f, e.path), TRUE)
                    ELSE floppy_param_handler(f, FALSE)
           IN  /\ g \in FloppyDrive
               /\ g.path = IF e.inserted THEN e.path ELSE f.path
               /\ g.inserted = e.inserted
               /\ g.status_changed = TRUE
               /\ g.medium = f.medium /\ g.typed = f.typed
               /\ g.present = f.present /\ g.changeline = f.changeline
  <1>1. e.inserted \in BOOLEAN /\ e.path \in Images \cup {NoPath}
    BY DEF Requests
  <1>2. CASE e.inserted
    <2> DEFINE c == f.status_changed \/ f.inserted
               h == [f EXCEPT !.path = e.path, !.status_changed = c]
               g == [h EXCEPT !.inserted = TRUE, !.status_changed = TRUE]
    <2>1. floppy_param_handler(floppy_param_string_handler(f, e.path), TRUE) = g
      BY DEF floppy_param_handler, floppy_param_string_handler
    <2>2. c \in BOOLEAN
      BY DEF FloppyDrive
    <2> HIDE DEF c
    <2>3. /\ h \in FloppyDrive /\ h.path = e.path
          /\ h.medium = f.medium /\ h.typed = f.typed
          /\ h.present = f.present /\ h.changeline = f.changeline
      BY <2>2, <1>1 DEF FloppyDrive
    <2> HIDE DEF h
    <2>4. /\ g \in FloppyDrive /\ g.path = h.path /\ g.inserted = TRUE
          /\ g.status_changed = TRUE
          /\ g.medium = h.medium /\ g.typed = h.typed
          /\ g.present = h.present /\ g.changeline = h.changeline
      BY <2>3 DEF FloppyDrive
    <2> HIDE DEF g
    <2>5. e.inserted = TRUE
      BY <1>1, <1>2
    <2> QED
      BY <1>2, <2>1, <2>3, <2>4, <2>5
  <1>3. CASE ~e.inserted
    <2> DEFINE g == [f EXCEPT !.inserted = FALSE, !.status_changed = TRUE]
    <2>1. floppy_param_handler(f, FALSE) = g
      BY DEF floppy_param_handler
    <2>2. /\ g \in FloppyDrive /\ g.path = f.path /\ g.inserted = FALSE
          /\ g.status_changed = TRUE
          /\ g.medium = f.medium /\ g.typed = f.typed
          /\ g.present = f.present /\ g.changeline = f.changeline
      BY DEF FloppyDrive
    <2> HIDE DEF g
    <2>3. e.inserted = FALSE
      BY <1>1, <1>3
    <2> QED
      BY <1>3, <2>1, <2>2, <2>3
  <1> QED
    BY <1>1, <1>2, <1>3

-----------------------------------------------------------------------------
(* The CD-ROM drive.                                                       *)

\* The pair d of the drive and the bridge, with n in the floppy drive.  A
\* drive that is not ready holds nothing.
CdromAt(d, n) ==
    /\ d.c \in CdromDrive
    /\ Owned(d.b, d.c.medium, n)
    /\ ~d.c.ready => d.c.medium = NoMedium

\* insert_cdrom into an empty drive.
Inserted(d, e, n) ==
    /\ e.ok \in BOOLEAN
    /\ Owned(e.d.b, e.d.c.medium, n)
    /\ e.d.c \in CdromDrive
    /\ e.ok => e.d.c.medium.image = d.c.path
    /\ ~e.ok => e.d.c.medium = NoMedium
    /\ d.c.path \in Usable => e.ok
    /\ e.d.c.path = d.c.path /\ e.d.c.drive = d.c.drive
    /\ e.d.c.inserted = d.c.inserted /\ e.d.c.ready = d.c.ready
    /\ e.d.c.locked = d.c.locked /\ e.d.c.status_changed = d.c.status_changed
    /\ e.d.b.next >= d.b.next

\* insert_cdrom keeps the drive and the bridge together, whether it finds a
\* block, none or no image at all.
LEMMA InsertCdrom ==
    ASSUME NEW d, NEW n, d.c \in CdromDrive, d.c.medium = NoMedium,
           Owned(d.b, NoMedium, n)
    PROVE  Inserted(d, insert_cdrom(d), n)
  <1> DEFINE e == insert_cdrom(d)
             image == d.c.path
             o == bx_uwp_file_open(d.b, image, FALSE)
             b == IF image \in Brokered THEN o.bridge ELSE d.b
             h == IF image \in Brokered THEN o.handle ELSE NoHandle
             m == Opened(b, image, h, FALSE)
             g == [d.c EXCEPT !.medium = m]
             r == bx_uwp_file_close(b, h)
  <1>1. d.b.next \in Nat /\ image \in Images \cup {NoPath}
    BY DEF Owned, Table, CdromDrive
  <1>2. NoPath \notin Usable
    BY ImagesAssumption DEF Usable, NoPath
  <1>3. CASE image = NoPath \/ image \in Missing
    <2>1. e = [ok |-> FALSE, d |-> d]
      BY <1>3 DEF insert_cdrom
    <2>2. image \notin Usable
      BY <1>2, <1>3 DEF Usable
    <2>3. e.ok = FALSE /\ e.d = d
      BY <2>1
    <2>4. d.b.next >= d.b.next
      BY <1>1
    <2> HIDE DEF e
    <2>5. Inserted(d, e, n)
      BY <2>2, <2>3, <2>4, Zenon DEF Inserted
    <2> QED
      BY <2>5 DEF e
  <1>4. CASE image # NoPath /\ image \notin Missing
    <2>1. image \in Images /\ image \notin Missing
      BY <1>1, <1>4
    <2>2. Owned(b, m, n) /\ m.image = image /\ b.next >= d.b.next
      <3> HIDE DEF image
      <3>1. OpenedOwned(d.b, image, FALSE, FALSE, n)
        BY <2>1, OpenOwned, Zenon
      <3> QED
        BY <3>1, Zenon DEF OpenedOwned
    <2>3. CASE image \in Misfit
      <3>1. e = [ok |-> FALSE, d |-> [c |-> d.c, b |-> r]]
        BY <1>4, <2>3 DEF insert_cdrom
      <3>2. Owned(r, NoMedium, n) /\ r.next = b.next
        <4>1. CASE image \in Brokered
          <5>1. m.kind = "uwp" /\ m.handle = h
            BY <4>1 DEF Opened
          <5>2. Release(b, m) = r
            BY <5>1 DEF Release
          <5> HIDE DEF m, b, r
          <5> QED
            BY <2>2, <5>2, ReleaseOwned
        <4>2. CASE image \notin Brokered
          <5>1. b = d.b /\ h = NoHandle
            BY <4>2
          <5>2. Table(d.b) /\ NoHandle \notin DOMAIN d.b.files
            BY DEF Owned, Table, NoHandle
          <5>3. r = bx_uwp_file_close(d.b, NoHandle)
            BY <5>1
          <5> HIDE DEF r, b, h, m
          <5>4. /\ Table(r) /\ r.next = d.b.next
                /\ DOMAIN r.files = DOMAIN d.b.files \ {NoHandle}
                /\ \A k \in DOMAIN r.files : r.files[k] = d.b.files[k]
            BY <5>2, <5>3, CloseFile
          <5>5. DOMAIN r.files = DOMAIN d.b.files
            BY <5>2, <5>4
          <5>6. Owned(r, NoMedium, n)
            BY <5>4, <5>5 DEF Owned, Backed
          <5> QED
            BY <5>1, <5>4, <5>6
        <4> QED
          BY <4>1, <4>2
      <3>3. image \notin Usable
        BY <2>3 DEF Usable
      <3> HIDE DEF e, r, b
      <3>4. e.ok = FALSE /\ e.d.c = d.c /\ e.d.b = r
        BY <3>1
      <3> QED
        BY <2>2, <3>2, <3>3, <3>4 DEF Inserted, e
    <2>4. CASE image \notin Misfit
      <3>1. e = [ok |-> TRUE, d |-> [c |-> g, b |-> b]]
        BY <1>4, <2>4 DEF insert_cdrom
      <3>2. m \in Medium
        BY <2>2 DEF Owned
      <3> HIDE DEF e, b, m
      <3>3. /\ g \in CdromDrive /\ g.medium = m
            /\ g.path = d.c.path /\ g.drive = d.c.drive
            /\ g.inserted = d.c.inserted /\ g.ready = d.c.ready
            /\ g.locked = d.c.locked /\ g.status_changed = d.c.status_changed
        BY <3>2 DEF CdromDrive
      <3> HIDE DEF g
      <3>4. e.ok = TRUE /\ e.d.c = g /\ e.d.b = b
        BY <3>1
      <3> QED
        BY <2>2, <3>3, <3>4 DEF Inserted, e
    <2> QED
      BY <2>3, <2>4
  <1> QED
    BY <1>3, <1>4

\* e is d with the drive ready or not, as its status parameter says.
ReadySet(d, ready, e) ==
    /\ e.c \in CdromDrive
    /\ e.c.ready = ready
    /\ e.c.medium = d.c.medium /\ e.c.path = d.c.path
    /\ e.c.drive = d.c.drive /\ e.c.locked = d.c.locked
    /\ e.c.status_changed \in {d.c.status_changed, 1}
    /\ e.c.inserted = (ready \/ d.c.locked)
    /\ e.b = d.b

\* The status parameter, set by the drive itself to the state it takes.
LEMMA NowReadyCdrom ==
    ASSUME NEW d, d.c \in CdromDrive, NEW ready, ready \in BOOLEAN
    PROVE  ReadySet(d, ready, NowReady(d, ready))
  <1> DEFINE g == [d.c EXCEPT !.ready = ready]
             h == [g EXCEPT !.inserted = ready, !.status_changed = 1]
             k == [g EXCEPT !.inserted = TRUE]
             e == NowReady(d, ready)
  <1>1. e.c = (IF ready \/ ~g.locked THEN h ELSE k) /\ e.b = d.b
    BY DEF NowReady, cdrom_status_handler
  <1>2. /\ g \in CdromDrive /\ g.ready = ready
        /\ g.medium = d.c.medium /\ g.path = d.c.path /\ g.drive = d.c.drive
        /\ g.locked = d.c.locked /\ g.status_changed = d.c.status_changed
    BY DEF CdromDrive
  <1> HIDE DEF g, e
  <1>3. /\ h \in CdromDrive /\ h.ready = ready
        /\ h.medium = g.medium /\ h.path = g.path /\ h.drive = g.drive
        /\ h.locked = g.locked /\ h.status_changed = 1 /\ h.inserted = ready
    <2>1. 1 \in -1 .. 1
      OBVIOUS
    <2> QED
      BY <1>2, <2>1, Zenon DEF CdromDrive
  <1>4. /\ k \in CdromDrive /\ k.ready = ready
        /\ k.medium = g.medium /\ k.path = g.path /\ k.drive = g.drive
        /\ k.locked = g.locked /\ k.status_changed = g.status_changed
        /\ k.inserted = TRUE
    BY <1>2 DEF CdromDrive
  <1> HIDE DEF h, k
  <1>5. g.locked \in BOOLEAN
    BY <1>2 DEF CdromDrive
  <1>6. CASE ready \/ ~g.locked
    <2>1. e.c = h
      BY <1>1, <1>6
    <2>2. ready = (ready \/ d.c.locked)
      BY <1>2, <1>5, <1>6, Zenon
    <2> QED
      BY <1>1, <1>2, <1>3, <2>1, <2>2, Zenon DEF e, ReadySet
  <1>7. CASE ~(ready \/ ~g.locked)
    <2>1. e.c = k
      BY <1>1, <1>7
    <2>2. TRUE = (ready \/ d.c.locked)
      BY <1>2, <1>5, <1>7, Zenon
    <2> QED
      BY <1>1, <1>2, <1>4, <2>1, <2>2, Zenon DEF e, ReadySet
  <1> QED
    BY <1>6, <1>7

\* What eject_cdrom does.
LEMMA EjectCdrom ==
    ASSUME NEW d, NEW n, CdromAt(d, n)
    PROVE  LET e == eject_cdrom(d)
           IN  /\ e.c \in CdromDrive
               /\ e.c.medium = NoMedium /\ e.c.path = d.c.path
               /\ e.c.drive = d.c.drive /\ e.c.inserted = d.c.inserted
               /\ e.c.ready = d.c.ready /\ e.c.locked = d.c.locked
               /\ e.c.status_changed = d.c.status_changed
               /\ Owned(e.b, NoMedium, n)
               /\ e.b.next = d.b.next
  <1> DEFINE g == [d.c EXCEPT !.medium = NoMedium]
             b == Release(d.b, d.c.medium)
             e == eject_cdrom(d)
  <1>1. e.c = g /\ e.b = b
    BY DEF eject_cdrom
  <1>2. Owned(b, NoMedium, n) /\ b.next = d.b.next
    BY ReleaseOwned DEF CdromAt
  <1>3. /\ g \in CdromDrive /\ g.medium = NoMedium /\ g.path = d.c.path
        /\ g.drive = d.c.drive /\ g.inserted = d.c.inserted
        /\ g.ready = d.c.ready /\ g.locked = d.c.locked
        /\ g.status_changed = d.c.status_changed
    BY NoMediumIsMedium DEF CdromAt, CdromDrive
  <1> HIDE DEF g, b, e
  <1> QED
    BY <1>1, <1>2, <1>3 DEF e

\* cdrom_runtime_config: the drive is ready with the disc of the path
\* parameter, or empty.
CdromConfigured(d, e, n) ==
    /\ CdromAt(e, n)
    /\ e.c.path = d.c.path
    /\ e.b.next >= d.b.next
    /\ e.c.ready => e.c.medium.image = e.c.path
    /\ d.c.ready /\ d.c.locked => e.c.ready /\ e.c.medium = d.c.medium
    /\ ~d.c.ready /\ d.c.inserted /\ d.c.path \in Usable => e.c.ready
    /\ e.c.status_changed = 1

\* bx_hard_drive_c::runtime_config after a request.
LEMMA ConfigureCdrom ==
    ASSUME NEW d, NEW n, CdromAt(d, n), d.c.status_changed = 1,
           d.c.ready /\ d.c.locked => d.c.medium.image = d.c.path
    PROVE  CdromConfigured(d, cdrom_runtime_config(d), n)
  <1> DEFINE out == set_cd_media_status(d, FALSE)
             ej == eject_cdrom(d)
             in == set_cd_media_status(out, TRUE)
             ins == insert_cdrom(out)
             r == cdrom_runtime_config(d)
  <1>1. r = IF d.c.inserted THEN in ELSE out
    BY DEF cdrom_runtime_config
  <1>2. /\ d.c \in CdromDrive /\ d.b.next \in Nat
        /\ d.c.ready \in BOOLEAN /\ d.c.locked \in BOOLEAN
        /\ d.c.inserted \in BOOLEAN
    BY DEF CdromAt, CdromDrive, Owned, Table
  <1>3. CASE d.c.ready /\ d.c.locked
    <2>1. out = d
      BY <1>2, <1>3, Zenon DEF set_cd_media_status
    <2>2. d.c.ready = TRUE
      BY <1>2, <1>3
    <2>3. in = d
      BY <2>1, <2>2, Zenon DEF set_cd_media_status
    <2>4. r = d
      BY <1>1, <2>1, <2>3
    <2>5. d.b.next >= d.b.next
      BY <1>2
    <2> HIDE DEF r
    <2>6. CdromConfigured(d, r, n)
      BY <1>3, <2>4, <2>5, Zenon DEF CdromConfigured
    <2> QED
      BY <2>6 DEF r
  <1>4. CASE ~(d.c.ready /\ d.c.locked)
    <2>1. /\ CdromAt(out, n) /\ ~out.c.ready /\ out.c.path = d.c.path
          /\ out.c.status_changed = 1 /\ out.b.next = d.b.next
          /\ ~d.c.ready => out = d
      <3>1. CASE ~d.c.ready
        <4>1. out = d
          BY <1>2, <3>1, Zenon DEF set_cd_media_status
        <4> QED
          BY <3>1, <4>1
      <3>2. CASE d.c.ready
        <4>1. out = NowReady(ej, FALSE)
          BY <1>2, <1>4, <3>2, Zenon DEF set_cd_media_status
        <4>2. /\ ej.c \in CdromDrive
              /\ ej.c.medium = NoMedium /\ ej.c.path = d.c.path
              /\ ej.c.status_changed = d.c.status_changed
              /\ Owned(ej.b, NoMedium, n)
              /\ ej.b.next = d.b.next
          BY EjectCdrom
        <4> HIDE DEF ej
        <4>3. /\ out.c \in CdromDrive
              /\ out.c.ready = FALSE
              /\ out.c.medium = ej.c.medium /\ out.c.path = ej.c.path
              /\ out.c.status_changed \in {ej.c.status_changed, 1}
              /\ out.b = ej.b
          <5>1. ReadySet(ej, FALSE, out)
            BY <4>1, <4>2, NowReadyCdrom, Zenon
          <5> QED
            BY <5>1, Zenon DEF ReadySet
        <4> HIDE DEF out
        <4> QED
          BY <4>2, <4>3, <3>2 DEF CdromAt
      <3> QED
        BY <3>1, <3>2
    <2>2. out.c \in CdromDrive /\ out.c.medium = NoMedium /\ Owned(out.b, NoMedium, n)
          /\ out.c.ready = FALSE
      BY <2>1 DEF CdromAt, CdromDrive
    <2>3. CASE d.c.inserted
      <3>1. in = NowReady(ins.d, ins.ok)
        BY <2>2, Zenon DEF set_cd_media_status
      <3> HIDE DEF out
      <3>2. Inserted(out, ins, n)
        BY <2>2, InsertCdrom
      <3> HIDE DEF ins
      <3>3. ins.d.c \in CdromDrive /\ ins.ok \in BOOLEAN
        BY <3>2 DEF Inserted
      <3>4. /\ in.c \in CdromDrive
            /\ in.c.ready = ins.ok
            /\ in.c.medium = ins.d.c.medium /\ in.c.path = ins.d.c.path
            /\ in.c.status_changed \in {ins.d.c.status_changed, 1}
            /\ in.b = ins.d.b
        <4>1. ReadySet(ins.d, ins.ok, in)
          BY <3>1, <3>3, NowReadyCdrom, Zenon
        <4> QED
          BY <4>1, Zenon DEF ReadySet
      <3> HIDE DEF in, r
      <3>5. r = in
        BY <1>1, <2>3
      <3>6. CdromAt(r, n)
        BY <3>2, <3>4, <3>5 DEF CdromAt, Inserted
      <3>7. r.c.status_changed = 1 /\ r.c.path = d.c.path /\ r.b.next >= d.b.next
        BY <2>1, <3>2, <3>4, <3>5 DEF Inserted
      <3>8. /\ r.c.ready => r.c.medium.image = r.c.path
            /\ ~d.c.ready /\ d.c.inserted /\ d.c.path \in Usable => r.c.ready
        BY <2>1, <3>2, <3>4, <3>5 DEF Inserted
      <3> QED
        BY <1>4, <3>6, <3>7, <3>8 DEF CdromConfigured, r
    <2>4. CASE ~d.c.inserted
      <3>1. r = out
        BY <1>1, <2>4
      <3> HIDE DEF r, out
      <3> QED
        BY <1>2, <1>4, <2>1, <2>4, <3>1 DEF CdromConfigured, r
    <2> QED
      BY <1>2, <2>3, <2>4
  <1> QED
    BY <1>3, <1>4

\* What setting the parameters of the CD-ROM drive does to the drive.
CdromParamsSet(c, e, g) ==
    /\ g \in CdromDrive
    /\ g.medium = c.medium /\ g.ready = c.ready
    /\ g.locked = c.locked /\ g.drive = c.drive
    /\ g.status_changed = 1 \/ (g.status_changed = c.status_changed /\ g.path = c.path)
    /\ c.locked => g.path = c.path
    /\ e.inserted /\ ~c.locked => g.path = e.path
    /\ e.inserted => g.inserted /\ g.status_changed = 1

\* The handlers of the two parameters, with the tray locked or not.
LEMMA CdromParams ==
    ASSUME NEW c \in CdromDrive, NEW e \in Requests
    PROVE  CdromParamsSet(c, e,
                IF e.inserted
                THEN cdrom_status_handler(cdrom_path_handler(c, e.path), TRUE)
                ELSE cdrom_status_handler(c, FALSE))
  <1> DEFINE p == cdrom_path_handler(c, e.path)
             q == [c EXCEPT !.path = e.path, !.status_changed = 1]
             s == [p EXCEPT !.inserted = TRUE, !.status_changed = 1]
             t == [c EXCEPT !.inserted = FALSE, !.status_changed = 1]
             u == [c EXCEPT !.inserted = TRUE]
             g == IF e.inserted THEN cdrom_status_handler(p, TRUE)
                  ELSE cdrom_status_handler(c, FALSE)
  <1>0. 1 \in -1 .. 1
    OBVIOUS
  <1>1. /\ e.inserted \in BOOLEAN /\ e.path \in Images \cup {NoPath}
        /\ c.locked \in BOOLEAN
    BY DEF Requests, CdromDrive
  <1>2. CASE e.inserted
    <2>1. g = s
      BY <1>1, <1>2, Zenon DEF cdrom_status_handler
    <2>2. /\ q \in CdromDrive /\ q.path = e.path
          /\ q.medium = c.medium /\ q.ready = c.ready
          /\ q.locked = c.locked /\ q.drive = c.drive
      BY <1>0, <1>1, Zenon DEF CdromDrive
    <2>3. p = IF c.locked THEN c ELSE q
      BY DEF cdrom_path_handler
    <2> HIDE DEF p, q
    <2>4. /\ p \in CdromDrive
          /\ p.medium = c.medium /\ p.ready = c.ready
          /\ p.locked = c.locked /\ p.drive = c.drive
          /\ c.locked => p.path = c.path
          /\ ~c.locked => p.path = e.path
      BY <2>2, <2>3, Zenon
    <2>5. /\ s \in CdromDrive /\ s.path = p.path
          /\ s.medium = p.medium /\ s.ready = p.ready
          /\ s.locked = p.locked /\ s.drive = p.drive
          /\ s.inserted = TRUE /\ s.status_changed = 1
      BY <1>0, <2>4, Zenon DEF CdromDrive
    <2> HIDE DEF s
    <2>6. CdromParamsSet(c, e, s)
      BY <2>4, <2>5, <1>2, Zenon DEF CdromParamsSet
    <2> HIDE DEF g
    <2>7. CdromParamsSet(c, e, g)
      BY <2>1, <2>6
    <2> QED
      BY <2>7 DEF g, p
  <1>3. CASE ~e.inserted
    <2>1. g = IF c.locked THEN u ELSE t
      BY <1>1, <1>3, Zenon DEF cdrom_status_handler
    <2>2. /\ u \in CdromDrive /\ u.path = c.path
          /\ u.medium = c.medium /\ u.ready = c.ready
          /\ u.locked = c.locked /\ u.drive = c.drive
          /\ u.status_changed = c.status_changed
      BY Zenon DEF CdromDrive
    <2>3. /\ t \in CdromDrive /\ t.path = c.path
          /\ t.medium = c.medium /\ t.ready = c.ready
          /\ t.locked = c.locked /\ t.drive = c.drive
          /\ t.status_changed = 1
      BY <1>0, Zenon DEF CdromDrive
    <2> HIDE DEF u, t
    <2>4. CdromParamsSet(c, e, u) /\ CdromParamsSet(c, e, t)
      BY <1>3, <2>2, <2>3, Zenon DEF CdromParamsSet
    <2> HIDE DEF g
    <2>5. g = u \/ g = t
      BY <2>1, <1>1
    <2>6. CdromParamsSet(c, e, g)
      BY <2>4, <2>5, Zenon
    <2> QED
      BY <2>6 DEF g
  <1> QED
    BY <1>1, <1>2, <1>3

-----------------------------------------------------------------------------
(* The dispatch of a request.                                              *)

\* What a request does to the floppy drive.
FloppyDispatched(e, fd) ==
    /\ FloppyAt(fd, cdrom.medium)
    /\ fd.b.next >= bridge.next
    /\ Agrees(fd.f)
    /\ e.target = "floppya" => fd.f.present = fd.f.inserted
    /\ ~fd.f.status_changed
    /\ fd.f.changeline \/ fd.f = floppy
    /\ e.target = "floppya" /\ e.inserted /\ floppy.typed /\ e.path \in Usable =>
          fd.f.present /\ fd.f.medium.image = e.path

\* set_runtime_media and update_runtime_options, as the floppy drive sees them.
LEMMA DispatchFloppy ==
    ASSUME TableInv, FloppyInv, up, NEW e \in Requests,
           e.inserted => e.path # NoPath
    PROVE  FloppyDispatched(e, floppy_runtime_config(
               [f |-> FloppyRequested(e), b |-> bridge, panic |-> FALSE]))
  <1> DEFINE g == FloppyRequested(e)
             d == [f |-> g, b |-> bridge, panic |-> FALSE]
             fd == floppy_runtime_config(d)
  <1>1. floppy \in FloppyDrive /\ Owned(bridge, floppy.medium, cdrom.medium)
        /\ bridge.next \in Nat
    BY DEF TableInv, Owned, Table
  <1>2. CASE e.target # "floppya"
    <2>1. g = floppy
      BY <1>2 DEF FloppyRequested
    <2>2. ~floppy.status_changed
      BY DEF FloppyInv
    <2>3. fd = d
      BY <2>1, <2>2, Zenon DEF floppy_runtime_config
    <2>4. fd.f = floppy /\ fd.b = bridge /\ fd.panic = FALSE
      BY <2>1, <2>3
    <2> HIDE DEF fd
    <2>5. FloppyAt(fd, cdrom.medium)
      BY <1>1, <2>4 DEF FloppyAt
    <2>6. fd.b.next >= bridge.next
      BY <1>1, <2>4
    <2>7. FloppyDispatched(e, fd)
      BY <1>2, <2>4, <2>5, <2>6, Zenon DEF FloppyDispatched, FloppyInv
    <2> QED
      BY <2>7 DEF fd
  <1>3. CASE e.target = "floppya"
    <2>1. g = IF e.inserted
              THEN floppy_param_handler(floppy_param_string_handler(floppy, e.path), TRUE)
              ELSE floppy_param_handler(floppy, FALSE)
      BY <1>3 DEF FloppyRequested
    <2> HIDE DEF g
    <2>2. /\ g \in FloppyDrive
          /\ g.path = IF e.inserted THEN e.path ELSE floppy.path
          /\ g.inserted = e.inserted
          /\ g.status_changed = TRUE
          /\ g.medium = floppy.medium /\ g.typed = floppy.typed
          /\ g.present = floppy.present /\ g.changeline = floppy.changeline
      BY <1>1, <1>3, <2>1, FloppyParams
    <2>3. d.f = g /\ d.b = bridge /\ d.panic = FALSE
      OBVIOUS
    <2> HIDE DEF d
    <2>4. FloppyAt(d, cdrom.medium)
      BY <1>1, <2>2, <2>3 DEF FloppyAt
    <2>5. e.inserted \in BOOLEAN /\ e.path \in Images \cup {NoPath}
      BY DEF Requests
    <2>6. d.f.inserted => d.f.path \in Images
      BY <2>2, <2>3, <2>5
    <2>7. FloppyConfigured(d, fd, cdrom.medium)
      BY <2>2, <2>3, <2>4, <2>6, ConfigureFloppy
    <2> HIDE DEF fd
    <2>8. d.f.present \/ d.f.changeline
      BY <2>2, <2>3 DEF FloppyInv
    <2>9. NoPath \notin Images
      BY ImagesAssumption DEF NoPath
    <2>10. fd.b.next >= bridge.next /\ fd.f.path = d.f.path
      BY <2>3, <2>7 DEF FloppyConfigured, Keeps
    <2>11. e.inserted => d.f.path = e.path
      BY <2>2, <2>3
    <2>12. d.f.inserted = e.inserted /\ d.f.typed = floppy.typed
      BY <2>2, <2>3
    <2>13. FloppyDispatched(e, fd)
      BY <2>6, <2>7, <2>8, <2>9, <2>10, <2>11, <2>12, Zenon
         DEF FloppyDispatched, FloppyConfigured, Agrees
    <2> QED
      BY <2>13 DEF fd, d, g
  <1> QED
    BY <1>2, <1>3

\* What a request does to the CD-ROM drive, when n is in the floppy drive.
CdromDispatched(e, cd, b, n) ==
    /\ CdromAt(cd, n)
    /\ cd.b.next >= b.next
    /\ cd.c.ready => cd.c.medium.image = cd.c.path
    /\ cd.c.ready /\ cd.c.status_changed = 0 => cd.c.medium.image = knownDisc
    /\ cdrom.ready /\ cdrom.locked => cd.c.ready /\ cd.c.medium = cdrom.medium
    /\ /\ e.target = "cdrom" /\ e.inserted /\ e.path \in Usable
       /\ ~cdrom.ready /\ ~cdrom.locked
       => cd.c.ready /\ cd.c.medium.image = e.path

\* The same as the CD-ROM drive sees it, whichever drive the request names.
LEMMA DispatchCdrom ==
    ASSUME cdrom \in CdromDrive, CdromInv, NEW e \in Requests,
           NEW b, NEW n, Owned(b, cdrom.medium, n)
    PROVE  CdromDispatched(e, cdrom_runtime_config(
               [c |-> CdromRequested(e), b |-> b]), b, n)
  <1> DEFINE g == CdromRequested(e)
             d == [c |-> g, b |-> b]
             cd == cdrom_runtime_config(d)
  <1>1. /\ g \in CdromDrive
        /\ g.medium = cdrom.medium /\ g.ready = cdrom.ready
        /\ g.locked = cdrom.locked
        /\ \/ g.status_changed = 1
           \/ g.status_changed = cdrom.status_changed /\ g.path = cdrom.path
        /\ cdrom.locked => g.path = cdrom.path
        /\ e.target = "cdrom" /\ e.inserted /\ ~cdrom.locked =>
              g.path = e.path /\ g.inserted /\ g.status_changed = 1
    <2>1. CASE e.target # "cdrom"
      <3>1. g = cdrom
        BY <2>1 DEF CdromRequested
      <3> HIDE DEF g
      <3> QED
        BY <2>1, <3>1
    <2>2. CASE e.target = "cdrom"
      <3>1. g = IF e.inserted
                THEN cdrom_status_handler(cdrom_path_handler(cdrom, e.path), TRUE)
                ELSE cdrom_status_handler(cdrom, FALSE)
        BY <2>2 DEF CdromRequested
      <3>2. CdromParamsSet(cdrom, e, g)
        BY <3>1, CdromParams, Zenon
      <3> HIDE DEF g
      <3> QED
        BY <3>2, Zenon DEF CdromParamsSet
    <2> QED
      BY <2>1, <2>2
  <1> HIDE DEF g
  <1>2. d.c = g /\ d.b = b
    OBVIOUS
  <1>3. b.next \in Nat
    BY DEF Owned, Table
  <1> HIDE DEF d
  <1>4. CdromAt(d, n)
    BY <1>1, <1>2 DEF CdromAt, CdromInv
  <1>5. d.c.ready /\ d.c.locked => d.c.medium.image = d.c.path
    BY <1>1, <1>2 DEF CdromInv
  <1>6. CASE d.c.status_changed = 1
    <2>1. CdromConfigured(d, cd, n)
      BY <1>4, <1>5, <1>6, ConfigureCdrom
    <2> HIDE DEF cd
    <2>2. cd.c.status_changed # 0
      BY <2>1 DEF CdromConfigured
    <2>3. CdromDispatched(e, cd, b, n)
      BY <1>1, <1>2, <2>1, <2>2, Zenon DEF CdromDispatched, CdromConfigured
    <2> QED
      BY <2>3 DEF cd, d, g
  <1>7. CASE d.c.status_changed # 1
    <2>1. cd = d
      BY <1>7 DEF cdrom_runtime_config
    <2>2. g.path = cdrom.path /\ g.status_changed = cdrom.status_changed
      BY <1>1, <1>2, <1>7
    <2>3. b.next >= b.next
      BY <1>3
    <2>4. ~(e.target = "cdrom" /\ e.inserted /\ ~cdrom.locked)
      BY <1>1, <1>2, <1>7
    <2> HIDE DEF cd
    <2>5. CdromDispatched(e, cd, b, n)
      BY <1>1, <1>2, <1>4, <2>1, <2>2, <2>3, <2>4, Zenon DEF CdromDispatched, CdromInv
    <2> QED
      BY <2>5 DEF cd, d, g
  <1> QED
    BY <1>6, <1>7

-----------------------------------------------------------------------------
(* The invariant.                                                          *)

\* The drives between two sessions.
LEMMA NoFloppyType == NoFloppy \in FloppyDrive /\ NoFloppy.medium = NoMedium
  BY NoMediumIsMedium DEF NoFloppy, FloppyDrive

\* The same for the CD-ROM drive.
LEMMA NoDiscType == NoDisc \in CdromDrive /\ NoDisc.medium = NoMedium
  <1>1. 0 \in -1 .. 1
    OBVIOUS
  <1> QED
    BY <1>1, NoMediumIsMedium, Zenon DEF NoDisc, CdromDrive

\* With nothing in the drives nothing is open.
LEMMA EmptyTable ==
    ASSUME NEW b, b = [files |-> <<>>, next |-> 1]
    PROVE  Owned(b, NoMedium, NoMedium)
  <1>1. DOMAIN b.files = {} /\ b.next = 1
    BY SMT
  <1>2. b = [files |-> b.files, next |-> b.next]
    OBVIOUS
  <1>3. Table(b)
    BY <1>1, <1>2 DEF Table
  <1> QED
    BY <1>1, <1>3, NoMediumIsMedium DEF Owned, Backed

\* The inductive invariant holds before the first session.
LEMMA InitInv == Init => MediaInv
  <1> SUFFICES ASSUME Init PROVE MediaInv
    OBVIOUS
  <1> USE DEF Init
  <1>1. RestInv
    BY DEF RestInv
  <1>2. QueuesInv
    <2>1. Len(<<>>) = 0 /\ <<>> \in Seq(Requests)
      OBVIOUS
    <2> QED
      BY <2>1, ImagesAssumption DEF QueuesInv, Meaningful
  <1>3. TableInv
    BY NoFloppyType, NoDiscType, EmptyTable, ImagesAssumption DEF TableInv
  <1>4. FloppyInv
    BY DEF FloppyInv, Agrees, NoFloppy
  <1>5. CdromInv
    BY DEF CdromInv, NoDisc
  <1>6. DownInv
    BY DEF DownInv
  <1>7. WriteFindsUnprotected
    BY DEF WriteFindsUnprotected
  <1> QED
    BY <1>1, <1>2, <1>3, <1>4, <1>5, <1>6, <1>7 DEF MediaInv

\* The end of a session leaves nothing open.
LEMMA TeardownInv == MediaInv /\ Teardown => MediaInv'
  <1> SUFFICES ASSUME MediaInv, Teardown PROVE MediaInv'
    OBVIOUS
  <1> USE DEF Teardown
  <1>1. RestInv'
    BY DEF RestInv
  <1>2. QueuesInv'
    <2>1. Len(<<>>) = 0 /\ <<>> \in Seq(Requests)
      OBVIOUS
    <2> QED
      BY <2>1, ImagesAssumption DEF QueuesInv, Meaningful
  <1>3. TableInv'
    <2> DEFINE b == Release(bridge, floppy.medium)
               c == Release(b, cdrom.medium)
    <2>1. Owned(bridge, floppy.medium, cdrom.medium) /\ bridge.next <= MaxHandle + 1
      BY DEF MediaInv, TableInv
    <2>2. Owned(b, NoMedium, cdrom.medium) /\ b.next = bridge.next
      BY <2>1, ReleaseOwned
    <2> HIDE DEF b
    <2>3. Owned(b, cdrom.medium, NoMedium)
      BY <2>2, OwnedSwap
    <2>4. Owned(c, NoMedium, NoMedium) /\ c.next = b.next
      BY <2>3, ReleaseOwned
    <2>5. bridge' = c
      BY DEF b
    <2> HIDE DEF c
    <2> QED
      BY <2>1, <2>2, <2>4, <2>5, NoFloppyType, NoDiscType DEF TableInv
  <1>4. FloppyInv'
    BY DEF FloppyInv, Agrees, NoFloppy
  <1>5. CdromInv'
    BY DEF CdromInv, NoDisc
  <1>6. DownInv'
    BY DEF DownInv
  <1>7. WriteFindsUnprotected'
    BY DEF WriteFindsUnprotected
  <1> QED
    BY <1>1, <1>2, <1>3, <1>4, <1>5, <1>6, <1>7 DEF MediaInv

\* The floppy drive a session starts with.
LEMMA ConfiguredFloppyState ==
    ASSUME NEW b, Owned(b, NoMedium, NoMedium),
           NEW image, image \in (Images \ Misfit) \cup {NoPath}
    PROVE  LET fd == ConfiguredFloppy(b, image)
           IN  /\ fd.f \in FloppyDrive
               /\ Owned(fd.b, fd.f.medium, NoMedium)
               /\ fd.b.next >= b.next
               /\ Agrees(fd.f)
               /\ ~fd.f.status_changed
  <1> DEFINE probed == IF image \in Brokered THEN [b EXCEPT !.next = @ + 1] ELSE b
             named == [NoFloppy EXCEPT !.path = image, !.inserted = TRUE]
             f == [named EXCEPT !.typed = TRUE]
             d == [f |-> f, b |-> probed, panic |-> FALSE]
             e == evaluate_media(d)
             g == [e.d.f EXCEPT !.present = TRUE]
             fd == ConfiguredFloppy(b, image)
  <1>1. b.next \in Nat \ {0} /\ Table(b)
    BY DEF Owned, Table
  <1>2. CASE image = NoPath
    <2>1. fd = [f |-> NoFloppy, b |-> b]
      BY <1>2 DEF ConfiguredFloppy
    <2>2. fd.f = NoFloppy /\ fd.b = b
      BY <2>1
    <2>3. NoFloppy.present = FALSE /\ NoFloppy.inserted = FALSE
          /\ NoFloppy.status_changed = FALSE
      BY DEF NoFloppy
    <2>4. b.next >= b.next
      BY <1>1
    <2> HIDE DEF fd
    <2> QED
      BY <2>2, <2>3, <2>4, NoFloppyType, Zenon DEF fd, Agrees
  <1>4. /\ image # NoPath =>
             /\ named \in FloppyDrive /\ named.path = image
             /\ named.inserted = TRUE /\ named.typed = FALSE
             /\ named.present = FALSE /\ named.status_changed = FALSE
             /\ named.medium = NoMedium
    BY NoMediumIsMedium, Zenon DEF NoFloppy, FloppyDrive
  <1>5. CASE image # NoPath /\ image \in Missing
    <2>1. fd = [f |-> named, b |-> b]
      BY <1>5 DEF ConfiguredFloppy
    <2>2. fd.f = named /\ fd.b = b
      BY <2>1
    <2>3. b.next >= b.next
      BY <1>1
    <2>4. Owned(b, NoMedium, NoMedium)
      OBVIOUS
    <2>5. /\ named \in FloppyDrive /\ named.medium = NoMedium
          /\ ~named.present /\ ~named.status_changed
      BY <1>4, <1>5
    <2>6. Agrees(named)
      BY <1>4, <1>5, Zenon DEF Agrees
    <2> HIDE DEF fd, named
    <2> QED
      BY <2>2, <2>3, <2>4, <2>5, <2>6 DEF fd
  <1>3. CASE image # NoPath /\ image \notin Missing
    <2>1. image \in Usable /\ image \in Images
      BY <1>3 DEF Usable
    <2>2. fd = [f |-> g, b |-> e.d.b]
      BY <1>3 DEF ConfiguredFloppy
    <2>3. Owned(probed, NoMedium, NoMedium) /\ probed.next >= b.next
      <3>1. CASE image \notin Brokered
        BY <1>1, <3>1
      <3>2. CASE image \in Brokered
        <4> DEFINE p == [b EXCEPT !.next = @ + 1]
        <4>1. p.files = b.files /\ p.next = b.next + 1
              /\ p = [files |-> p.files, next |-> p.next]
          <5>1. b = [files |-> b.files, next |-> b.next]
            BY <1>1 DEF Table
          <5>2. \A F, k : [[files |-> F, next |-> k] EXCEPT !.next = @ + 1]
                          = [files |-> F, next |-> k + 1]
            OBVIOUS
          <5>3. p = [files |-> b.files, next |-> b.next + 1]
            BY <5>1, <5>2
          <5> QED
            BY <5>3
        <4>2. probed = p
          BY <3>2
        <4> HIDE DEF p, probed
        <4>3. DOMAIN p.files \subseteq 1 .. (p.next - 1)
          <5>1. DOMAIN b.files \subseteq 1 .. (b.next - 1)
            BY <1>1 DEF Table
          <5>2. p.next - 1 = b.next
            BY <1>1, <4>1
          <5> QED
            BY <1>1, <4>1, <5>1, <5>2
        <4>4. Table(p)
          BY <1>1, <4>1, <4>3 DEF Table
        <4>5. Owned(p, NoMedium, NoMedium)
          BY <4>1, <4>4, NoMediumIsMedium DEF Owned, Backed
        <4> QED
          BY <1>1, <4>1, <4>2, <4>5
      <3> QED
        BY <3>1, <3>2
    <2>4. /\ f \in FloppyDrive /\ f.path = image /\ f.typed = TRUE
          /\ f.inserted = TRUE /\ f.medium = NoMedium /\ f.status_changed = FALSE
      <3> HIDE DEF named
      <3> QED
        BY <1>3, <1>4, Zenon DEF FloppyDrive
    <2> HIDE DEF f, probed
    <2>5. d.f = f /\ d.b = probed /\ d.panic = FALSE
      OBVIOUS
    <2> HIDE DEF d
    <2>6. FloppyAt(d, NoMedium)
      BY <2>3, <2>4, <2>5 DEF FloppyAt
    <2>7. Evaluated(d, e, NoMedium)
      BY <2>1, <2>4, <2>5, <2>6, EvaluateMedia
    <2> HIDE DEF e
    <2>8. /\ e.d.f \in FloppyDrive /\ Owned(e.d.b, e.d.f.medium, NoMedium)
          /\ e.d.b.next >= probed.next
          /\ e.d.f.path = image /\ e.d.f.medium.image = image
          /\ e.d.f.inserted = TRUE /\ e.d.f.status_changed = FALSE
      BY <2>1, <2>4, <2>5, <2>7, Zenon DEF Evaluated, FloppyAt, Keeps
    <2>9. /\ g \in FloppyDrive /\ g.present = TRUE /\ g.inserted = TRUE
          /\ g.path = image /\ g.medium = e.d.f.medium /\ g.status_changed = FALSE
      BY <2>8 DEF FloppyDrive
    <2>10. e.d.b.next \in Nat /\ probed.next \in Nat
      BY <2>3, <2>8 DEF Owned, Table
    <2>11. e.d.b.next >= b.next
      BY <1>1, <2>3, <2>8, <2>10
    <2> HIDE DEF fd, g
    <2>12. fd.f = g /\ fd.b = e.d.b
      BY <2>2
    <2> QED
      BY <1>3, <2>8, <2>9, <2>11, <2>12 DEF fd, Agrees
  <1> QED
    BY <1>2, <1>3, <1>5

\* The CD-ROM drive a session starts with.
LEMMA ConfiguredCdromState ==
    ASSUME NEW b, NEW n, Owned(b, NoMedium, n),
           NEW image, image \in Images \cup {NoPath}
    PROVE  LET cd == ConfiguredCdrom(b, image)
           IN  /\ CdromAt(cd, n)
               /\ cd.b.next >= b.next
               /\ cd.c.ready => cd.c.medium.image = cd.c.path
  <1> DEFINE c == [NoDisc EXCEPT !.drive = TRUE, !.path = image, !.inserted = TRUE]
             d == [c |-> c, b |-> b]
             i == insert_cdrom(d)
             g == [i.d.c EXCEPT !.ready = TRUE]
             h == [i.d.c EXCEPT !.inserted = FALSE, !.status_changed = 1]
             k == [i.d.c EXCEPT !.inserted = TRUE]
             cd == ConfiguredCdrom(b, image)
  <1>0. 1 \in -1 .. 1 /\ 0 \in -1 .. 1 /\ b.next >= b.next
    BY DEF Owned, Table
  <1>1. CASE image = NoPath
    <2>1. cd = [c |-> NoDisc, b |-> b]
      BY <1>1 DEF ConfiguredCdrom
    <2>2. cd.c = NoDisc /\ cd.b = b /\ NoDisc.ready = FALSE
      BY <2>1 DEF NoDisc
    <2> HIDE DEF cd
    <2>3. CdromAt(cd, n)
      BY <2>2, NoDiscType, Zenon DEF CdromAt
    <2> QED
      BY <1>0, <2>2, <2>3, Zenon DEF cd
  <1>2. CASE image # NoPath
    <2>1. /\ c \in CdromDrive /\ c.path = image /\ c.ready = FALSE
          /\ c.medium = NoMedium
      BY <1>0, NoMediumIsMedium, Zenon DEF NoDisc, CdromDrive
    <2>2. cd = [c |-> IF i.ok THEN g ELSE cdrom_status_handler(i.d.c, FALSE),
                b |-> i.d.b]
      BY <1>2 DEF ConfiguredCdrom
    <2> HIDE DEF c
    <2>3. d.c = c /\ d.b = b
      OBVIOUS
    <2> HIDE DEF d
    <2>4. Inserted(d, i, n)
      BY <2>1, <2>3, InsertCdrom
    <2> HIDE DEF i
    <2>5. /\ i.d.c \in CdromDrive /\ i.ok \in BOOLEAN /\ i.d.c.locked \in BOOLEAN
          /\ i.d.c.ready = FALSE
      BY <2>1, <2>3, <2>4 DEF Inserted, CdromDrive
    <2>6. /\ g \in CdromDrive /\ g.ready = TRUE /\ g.path = i.d.c.path
          /\ g.medium = i.d.c.medium
      BY <2>5 DEF CdromDrive
    <2>7. /\ h \in CdromDrive /\ h.ready = FALSE /\ h.path = i.d.c.path
          /\ h.medium = i.d.c.medium
      BY <1>0, <2>5, Zenon DEF CdromDrive
    <2>8. /\ k \in CdromDrive /\ k.ready = FALSE /\ k.path = i.d.c.path
          /\ k.medium = i.d.c.medium
      BY <2>5 DEF CdromDrive
    <2>9. cdrom_status_handler(i.d.c, FALSE) \in {h, k}
      BY Zenon DEF cdrom_status_handler
    <2> HIDE DEF g, h, k, cd
    <2>10. /\ i.ok => cd.c = g
           /\ ~i.ok => cd.c \in {h, k}
           /\ cd.b = i.d.b
      BY <2>2, <2>5, <2>9
    <2>11. cd.b.next >= b.next /\ Owned(cd.b, i.d.c.medium, n)
      BY <2>3, <2>4, <2>10 DEF Inserted
    <2>12. CASE i.ok
      <3>1. CdromAt(cd, n)
        BY <2>6, <2>10, <2>11, <2>12 DEF CdromAt
      <3>2. cd.c.medium.image = cd.c.path
        BY <2>3, <2>4, <2>6, <2>10, <2>12 DEF Inserted
      <3> QED
        BY <2>11, <3>1, <3>2 DEF cd
    <2>13. CASE ~i.ok
      <3>1. /\ cd.c \in CdromDrive /\ cd.c.ready = FALSE
            /\ cd.c.medium = i.d.c.medium
        BY <2>7, <2>8, <2>10, <2>13
      <3>2. i.d.c.medium = NoMedium
        BY <2>4, <2>13 DEF Inserted
      <3>3. CdromAt(cd, n)
        BY <2>11, <3>1, <3>2 DEF CdromAt
      <3> QED
        BY <2>11, <3>1, <3>3 DEF cd
    <2> QED
      BY <2>5, <2>12, <2>13
  <1> QED
    BY <1>1, <1>2

\* A medium is of an image, or of none.
LEMMA ImageType ==
    ASSUME NEW m, m \in Medium
    PROVE  m.image \in Images \cup {NoPath}
  BY DEF Medium

\* A session starts with both drives and the bridge together.
LEMMA StartInv ==
    ASSUME MediaInv, NEW fimage \in Images \cup {NoPath},
           NEW cimage \in Images \cup {NoPath}, StartSession(fimage, cimage)
    PROVE  MediaInv'
  <1> DEFINE fd == ConfiguredFloppy(bridge, fimage)
             cd == ConfiguredCdrom(fd.b, cimage)
             g == [fd.f EXCEPT !.changeline = TRUE]
  <1>1. /\ ~up /\ cd.b.next <= MaxHandle + 1 /\ up' = TRUE
        /\ fimage \in (Images \ Misfit) \cup {NoPath}
        /\ floppy' = g /\ cdrom' = cd.c /\ bridge' = cd.b
        /\ knownFloppy' = NoPath /\ knownDisc' = cd.c.medium.image
        /\ UNCHANGED <<queues, fdc, atapi>>
    BY ImagesAssumption DEF StartSession, NoPath
  <1>2. floppy = NoFloppy /\ cdrom = NoDisc /\ fdc = "idle"
    BY <1>1 DEF MediaInv, DownInv
  <1>3. Owned(bridge, NoMedium, NoMedium)
    BY <1>2, NoFloppyType, NoDiscType DEF MediaInv, TableInv
  <1>4. /\ fd.f \in FloppyDrive
        /\ Owned(fd.b, fd.f.medium, NoMedium)
        /\ Agrees(fd.f)
        /\ ~fd.f.status_changed
    BY <1>1, <1>3, ConfiguredFloppyState
  <1> HIDE DEF fd
  <1>5. Owned(fd.b, NoMedium, fd.f.medium)
    BY <1>4, OwnedSwap
  <1>6. /\ CdromAt(cd, fd.f.medium)
        /\ cd.c.ready => cd.c.medium.image = cd.c.path
    BY <1>5, ConfiguredCdromState
  <1> HIDE DEF cd
  <1>7. Owned(cd.b, fd.f.medium, cd.c.medium) /\ cd.c \in CdromDrive
        /\ (~cd.c.ready => cd.c.medium = NoMedium)
    BY <1>6, OwnedSwap DEF CdromAt
  <1>8. /\ g \in FloppyDrive /\ g.changeline = TRUE
        /\ g.medium = fd.f.medium /\ g.path = fd.f.path
        /\ g.present = fd.f.present /\ g.inserted = fd.f.inserted
        /\ g.typed = fd.f.typed
        /\ g.status_changed = fd.f.status_changed
    BY <1>4 DEF FloppyDrive
  <1> HIDE DEF g
  <1>9. cd.c.medium.image \in Images \cup {NoPath}
    BY <1>7, ImageType DEF Owned
  <1>10. RestInv'
    BY <1>1, <1>9 DEF MediaInv, RestInv
  <1>11. QueuesInv'
    BY <1>1 DEF MediaInv, QueuesInv, queues
  <1>12. TableInv'
    BY <1>1, <1>7, <1>8 DEF TableInv
  <1>13. FloppyInv'
    BY <1>1, <1>4, <1>8, Zenon DEF FloppyInv, Agrees
  <1>14. CdromInv'
    BY <1>1, <1>6, <1>7 DEF CdromInv
  <1>15. DownInv'
    BY <1>1 DEF DownInv
  <1>16. WriteFindsUnprotected'
    BY <1>1, <1>2 DEF WriteFindsUnprotected
  <1> QED
    BY <1>10, <1>11, <1>12, <1>13, <1>14, <1>15, <1>16 DEF MediaInv

\* The next request and the queue it leaves.
LEMMA HeadRequest ==
    ASSUME NEW q \in Seq(Requests), q # <<>>, Meaningful(q)
    PROVE  /\ Head(q) \in Requests
           /\ Head(q).inserted => Head(q).path # NoPath
           /\ Tail(q) \in Seq(Requests) /\ Meaningful(Tail(q))
           /\ Len(Tail(q)) = Len(q) - 1 /\ Len(q) \in Nat
           /\ Tail(q) # q
  <1>1. Len(q) \in Nat /\ Len(q) # 0
    OBVIOUS
  <1>2. Head(q) = q[1] /\ Head(q) \in Requests
    OBVIOUS
  <1>3. Tail(q) \in Seq(Requests) /\ Len(Tail(q)) = Len(q) - 1
    OBVIOUS
  <1>4. \A i \in 1 .. Len(Tail(q)) : Tail(q)[i] = q[i + 1]
    BY <1>1, <1>3
  <1>5. \A i \in 1 .. Len(Tail(q)) : i + 1 \in 1 .. Len(q)
    BY <1>1, <1>3
  <1>6. Meaningful(Tail(q))
    BY <1>4, <1>5 DEF Meaningful
  <1>7. 1 \in 1 .. Len(q)
    BY <1>1
  <1>8. Head(q).inserted => Head(q).path # NoPath
    BY <1>2, <1>7 DEF Meaningful
  <1>9. Tail(q) # q
    <2> DEFINE a == Len(Tail(q))
               b == Len(q)
    <2>1. a = b - 1 /\ b \in Nat
      BY <1>1, <1>3
    <2> HIDE DEF a, b
    <2>2. a # b
      BY <2>1
    <2> QED
      BY <2>2, Zenon DEF a, b
  <1> QED
    BY <1>1, <1>2, <1>3, <1>6, <1>8, <1>9

\* The dispatch of a request keeps the invariant, in each of its outcomes.
LEMMA DispatchInv ==
    ASSUME MediaInv, set_runtime_media
    PROVE  MediaInv'
  <1> DEFINE e == Head(pending)
             fd == floppy_runtime_config([f |-> FloppyRequested(e), b |-> bridge,
                                          panic |-> FALSE])
             cd == cdrom_runtime_config([c |-> CdromRequested(e), b |-> fd.b])
  <1>1. /\ up /\ pending # <<>>
        /\ \/ /\ pending' = Tail(pending)
              /\ UNCHANGED <<up, event_queue, floppy, cdrom, bridge, fdc, atapi, known>>
           \/ Teardown
           \/ /\ cd.b.next <= MaxHandle + 1
              /\ pending' = Tail(pending)
              /\ floppy' = fd.f
              /\ cdrom' = cd.c
              /\ bridge' = cd.b
              /\ UNCHANGED <<up, event_queue, fdc, atapi, known>>
    BY DEF set_runtime_media
  <1>2. /\ event_queue \in Seq(Requests) /\ pending \in Seq(Requests)
        /\ Len(event_queue) + Len(pending) <= MaxQueue
        /\ Meaningful(event_queue) /\ Meaningful(pending)
    BY DEF MediaInv, QueuesInv
  <1>3. /\ e \in Requests
        /\ e.inserted => e.path # NoPath
        /\ Tail(pending) \in Seq(Requests) /\ Meaningful(Tail(pending))
        /\ Len(Tail(pending)) = Len(pending) - 1 /\ Len(pending) \in Nat
    BY <1>1, <1>2, HeadRequest
  <1> HIDE DEF e
  <1>4. ASSUME pending' = Tail(pending), UNCHANGED event_queue
        PROVE  QueuesInv'
    <2>1. Len(event_queue) \in Nat /\ MaxQueue \in Nat
      BY <1>2, ImagesAssumption
    <2>2. Len(event_queue) + Len(Tail(pending)) <= MaxQueue
      BY <1>2, <1>3, <2>1
    <2> QED
      BY <1>2, <1>3, <1>4, <2>2 DEF QueuesInv
  <1>5. CASE Teardown
    BY <1>5, TeardownInv
  <1>6. CASE /\ pending' = Tail(pending)
             /\ UNCHANGED <<up, event_queue, floppy, cdrom, bridge, fdc, atapi, known>>
    <2>1. QueuesInv'
      BY <1>4, <1>6
    <2>2. RestInv' /\ TableInv' /\ FloppyInv' /\ CdromInv' /\ WriteFindsUnprotected'
      BY <1>6 DEF MediaInv, RestInv, TableInv, FloppyInv, CdromInv,
                  WriteFindsUnprotected, known
    <2>3. DownInv'
      BY <1>1, <1>6 DEF DownInv
    <2> QED
      BY <2>1, <2>2, <2>3 DEF MediaInv
  <1>7. CASE /\ cd.b.next <= MaxHandle + 1
             /\ pending' = Tail(pending)
             /\ floppy' = fd.f
             /\ cdrom' = cd.c
             /\ bridge' = cd.b
             /\ UNCHANGED <<up, event_queue, fdc, atapi, known>>
    <2>1. FloppyDispatched(e, fd)
      BY <1>1, <1>3, DispatchFloppy DEF MediaInv
    <2> HIDE DEF fd
    <2>2. fd.f \in FloppyDrive /\ Owned(fd.b, fd.f.medium, cdrom.medium)
      BY <2>1 DEF FloppyDispatched, FloppyAt
    <2>3. Owned(fd.b, cdrom.medium, fd.f.medium)
      BY <2>2, OwnedSwap
    <2>4. CdromDispatched(e, cd, fd.b, fd.f.medium)
      BY <1>3, <2>3, DispatchCdrom DEF MediaInv, TableInv
    <2> HIDE DEF cd
    <2>5. CdromAt(cd, fd.f.medium)
      BY <2>4 DEF CdromDispatched
    <2>6. Owned(cd.b, fd.f.medium, cd.c.medium) /\ cd.c \in CdromDrive
          /\ (~cd.c.ready => cd.c.medium = NoMedium)
      BY <2>5, OwnedSwap DEF CdromAt
    <2>7. QueuesInv'
      BY <1>4, <1>7
    <2>8. TableInv'
      BY <1>7, <2>2, <2>6 DEF TableInv
    <2>9. FloppyInv'
      <3>1. fd.f.changeline \/ fd.f = floppy
        BY <2>1 DEF FloppyDispatched
      <3>2. Agrees(fd.f) /\ ~fd.f.status_changed
        BY <2>1 DEF FloppyDispatched
      <3>3. up /\ ~floppy.present => floppy.changeline
        BY DEF MediaInv, FloppyInv
      <3>4. up /\ ~floppy.changeline => floppy.medium.image = knownFloppy
        BY DEF MediaInv, FloppyInv
      <3>5. floppy' = fd.f /\ knownFloppy' = knownFloppy /\ up' = up
        BY <1>7 DEF known
      <3> QED
        BY <3>1, <3>2, <3>3, <3>4, <3>5, Zenon DEF FloppyInv
    <2>10. CdromInv'
      <3>1. cdrom' = cd.c /\ knownDisc' = knownDisc
        BY <1>7 DEF known
      <3> QED
        BY <2>4, <2>6, <3>1 DEF CdromInv, CdromDispatched
    <2>11. RestInv'
      BY <1>7 DEF MediaInv, RestInv, known
    <2>12. DownInv'
      BY <1>1, <1>7 DEF DownInv
    <2>13. WriteFindsUnprotected'
      <3>1. fd.f.changeline \/ fd.f = floppy
        BY <2>1 DEF FloppyDispatched
      <3>2. floppy' = fd.f /\ fdc' = fdc
        BY <1>7
      <3> QED
        BY <3>1, <3>2, Zenon DEF MediaInv, WriteFindsUnprotected
    <2> QED
      BY <2>7, <2>8, <2>9, <2>10, <2>11, <2>12, <2>13 DEF MediaInv
  <1> QED
    BY <1>1, <1>5, <1>6, <1>7

\* The requests of the page and the exchange of the queues.
LEMMA EnqueueInv ==
    ASSUME MediaInv, NEW e \in Requests, e.inserted => e.path # NoPath,
           enqueue_runtime_media(e)
    PROVE  MediaInv'
  <1> DEFINE q == Append(event_queue, e)
  <1>1. /\ up /\ Len(event_queue) + Len(pending) < MaxQueue
        /\ event_queue' = q
        /\ UNCHANGED <<up, pending, floppy, cdrom, bridge, fdc, atapi, known>>
    BY DEF enqueue_runtime_media
  <1>2. QueuesInv'
    <2>1. /\ event_queue \in Seq(Requests) /\ pending \in Seq(Requests)
          /\ Meaningful(event_queue) /\ Meaningful(pending)
      BY DEF MediaInv, QueuesInv
    <2>2. Len(event_queue) \in Nat /\ Len(pending) \in Nat /\ MaxQueue \in Nat
      BY <2>1, ImagesAssumption
    <2>3. q \in Seq(Requests) /\ Len(q) = Len(event_queue) + 1
      BY <2>1
    <2>4. \A i \in 1 .. Len(q) : q[i].inserted => q[i].path # NoPath
      <3>1. \A i \in 1 .. Len(q) : (i \in 1 .. Len(event_queue) /\ q[i] = event_queue[i])
                                   \/ q[i] = e
        BY <2>1, <2>2, <2>3
      <3> QED
        BY <2>1, <3>1 DEF Meaningful
    <2> HIDE DEF q
    <2>5. Len(q) + Len(pending) <= MaxQueue
      BY <1>1, <2>2, <2>3
    <2> QED
      BY <1>1, <2>1, <2>3, <2>4, <2>5 DEF QueuesInv, Meaningful
  <1>3. RestInv' /\ TableInv' /\ FloppyInv' /\ CdromInv' /\ WriteFindsUnprotected'
    BY <1>1 DEF MediaInv, RestInv, TableInv, FloppyInv, CdromInv,
                WriteFindsUnprotected, known
  <1>4. DownInv'
    BY <1>1 DEF DownInv
  <1> QED
    BY <1>2, <1>3, <1>4 DEF MediaInv

\* The exchange of the two queues keeps it.
LEMMA HandleEventsInv ==
    ASSUME MediaInv, handle_events
    PROVE  MediaInv'
  <1>1. /\ up /\ pending = <<>> /\ pending' = event_queue /\ event_queue' = <<>>
        /\ UNCHANGED <<up, floppy, cdrom, bridge, fdc, atapi, known>>
    BY DEF handle_events
  <1>2. QueuesInv'
    <2>1. /\ event_queue \in Seq(Requests) /\ Meaningful(event_queue)
          /\ Len(event_queue) + Len(pending) <= MaxQueue
      BY DEF MediaInv, QueuesInv
    <2>2. <<>> \in Seq(Requests) /\ Len(<<>>) = 0 /\ Len(event_queue) \in Nat
      BY <2>1
    <2>3. Meaningful(<<>>)
      BY DEF Meaningful
    <2> QED
      BY <1>1, <2>1, <2>2, <2>3 DEF QueuesInv
  <1>3. RestInv' /\ TableInv' /\ FloppyInv' /\ CdromInv' /\ WriteFindsUnprotected'
    BY <1>1 DEF MediaInv, RestInv, TableInv, FloppyInv, CdromInv,
                WriteFindsUnprotected, known
  <1>4. DownInv'
    BY <1>1 DEF DownInv
  <1> QED
    BY <1>2, <1>3, <1>4 DEF MediaInv

\* The head moves with the change line cleared, or stays: a step of the
\* floppy controller that does not write to a protected medium.
LEMMA HeadInv ==
    ASSUME MediaInv, up,
           reset_changeline \/ UNCHANGED <<floppy, knownFloppy>>,
           fdc' \in {"idle", "read", "write"},
           fdc' = "write" => ~floppy.write_protected,
           UNCHANGED <<up, queues, cdrom, bridge, atapi, knownDisc>>
    PROVE  MediaInv'
  <1> DEFINE g == [floppy EXCEPT !.changeline = FALSE]
  <1>1. floppy \in FloppyDrive /\ Owned(bridge, floppy.medium, cdrom.medium)
    BY DEF MediaInv, TableInv
  <1>2. /\ g \in FloppyDrive /\ g.medium = floppy.medium /\ g.path = floppy.path
        /\ g.inserted = floppy.inserted /\ g.typed = floppy.typed
        /\ g.present = floppy.present /\ g.write_protected = floppy.write_protected
        /\ g.status_changed = floppy.status_changed
    BY <1>1 DEF FloppyDrive
  <1>3. floppy.medium.image \in Images \cup {NoPath}
    BY <1>1, ImageType DEF Owned
  <1> HIDE DEF g
  <1>4. \/ floppy' = floppy /\ knownFloppy' = knownFloppy
        \/ floppy.present /\ floppy' = g /\ knownFloppy' = floppy.medium.image
    BY DEF reset_changeline, g
  <1>5. RestInv'
    BY <1>3, <1>4 DEF MediaInv, RestInv
  <1>6. QueuesInv'
    BY DEF MediaInv, QueuesInv, queues
  <1>7. TableInv'
    BY <1>1, <1>2, <1>4 DEF MediaInv, TableInv
  <1>8. FloppyInv'
    BY <1>2, <1>4, Zenon DEF MediaInv, FloppyInv, Agrees
  <1>9. CdromInv'
    BY DEF MediaInv, CdromInv
  <1>10. DownInv'
    BY DEF DownInv
  <1>11. floppy'.write_protected = floppy.write_protected
    BY <1>2, <1>4
  <1>12. WriteFindsUnprotected'
    BY <1>11, Zenon DEF WriteFindsUnprotected
  <1> QED
    BY <1>5, <1>6, <1>7, <1>8, <1>9, <1>10, <1>12 DEF MediaInv

\* A step of the CD-ROM drive to the state c, with the bridge b.
LEMMA DriveInv ==
    ASSUME MediaInv, up, NEW c, NEW b, NEW k,
           c \in CdromDrive, Owned(b, floppy.medium, c.medium),
           b.next = bridge.next, k \in Images \cup {NoPath},
           c.ready => c.medium.image = c.path,
           ~c.ready => c.medium = NoMedium,
           c.ready /\ c.status_changed = 0 => c.medium.image = k,
           cdrom' = c, bridge' = b, knownDisc' = k,
           UNCHANGED <<up, queues, floppy, fdc, atapi, knownFloppy>>
    PROVE  MediaInv'
  <1>1. RestInv'
    BY DEF MediaInv, RestInv
  <1>2. QueuesInv'
    BY DEF MediaInv, QueuesInv, queues
  <1>3. TableInv'
    BY DEF MediaInv, TableInv
  <1>4. FloppyInv'
    BY DEF MediaInv, FloppyInv
  <1>5. CdromInv'
    BY DEF CdromInv
  <1>6. DownInv'
    BY DEF DownInv
  <1>7. WriteFindsUnprotected'
    BY DEF MediaInv, WriteFindsUnprotected
  <1> QED
    BY <1>1, <1>2, <1>3, <1>4, <1>5, <1>6, <1>7 DEF MediaInv

\* Every operation of the guest keeps it.
LEMMA GuestInv ==
    ASSUME MediaInv, Guest
    PROVE  MediaInv'
  <1>1. ASSUME NEW direction \in {"read", "write"}, floppy_command(direction)
        PROVE  MediaInv'
    <2>1. /\ up
          /\ reset_changeline \/ UNCHANGED <<floppy, knownFloppy>>
          /\ fdc' = IF direction = "write" /\ floppy.write_protected THEN "idle"
                    ELSE direction
          /\ UNCHANGED <<up, queues, cdrom, bridge, atapi, knownDisc>>
      BY <1>1 DEF floppy_command, GuestRuns
    <2>2. fdc' \in {"idle", "read", "write"}
      BY <2>1
    <2>3. fdc' = "write" => ~floppy.write_protected
      BY <2>1
    <2> QED
      BY <2>1, <2>2, <2>3, HeadInv
  <1>2. CASE floppy_xfer
    <2>1. CASE Teardown
      BY <2>1, TeardownInv
    <2>2. CASE /\ ~XferPanics
               /\ fdc' \in {fdc, "idle"}
               /\ reset_changeline \/ UNCHANGED <<floppy, knownFloppy>>
               /\ UNCHANGED <<up, queues, cdrom, bridge, atapi, knownDisc>>
      <3>1. up /\ fdc \in {"idle", "read", "write"}
        BY <1>2 DEF floppy_xfer, GuestRuns, MediaInv, RestInv
      <3>2. fdc' \in {"idle", "read", "write"}
        BY <2>2, <3>1
      <3>3. fdc' = "write" => ~floppy.write_protected
        BY <2>2 DEF XferPanics
      <3> QED
        BY <2>2, <3>1, <3>2, <3>3, HeadInv
    <2> QED
      BY <1>2, <2>1, <2>2 DEF floppy_xfer
  <1>3. CASE step_head
    <2>1. /\ up /\ fdc' = "idle"
          /\ reset_changeline \/ UNCHANGED <<floppy, knownFloppy>>
          /\ UNCHANGED <<up, queues, cdrom, bridge, atapi, knownDisc>>
      BY <1>3 DEF step_head, GuestRuns
    <2> QED
      BY <2>1, HeadInv
  <1>4. /\ cdrom \in CdromDrive /\ Owned(bridge, floppy.medium, cdrom.medium)
        /\ cdrom.medium.image \in Images \cup {NoPath}
        /\ cdrom.ready => cdrom.medium.image = cdrom.path
        /\ ~cdrom.ready => cdrom.medium = NoMedium
        /\ cdrom.ready /\ cdrom.status_changed = 0 => cdrom.medium.image = knownDisc
        /\ knownDisc \in Images \cup {NoPath}
        /\ cdrom.status_changed \in -1 .. 1
    BY ImageType DEF MediaInv, TableInv, CdromInv, RestInv, Owned, CdromDrive
  <1>5. CASE test_unit_ready
    <2> DEFINE s == IF cdrom.status_changed = 1 THEN -1 ELSE 0
               c == [cdrom EXCEPT !.status_changed = s]
               k == IF cdrom.status_changed = -1 THEN cdrom.medium.image
                    ELSE knownDisc
    <2>1. /\ up /\ cdrom.status_changed # 0 /\ cdrom' = c /\ knownDisc' = k
          /\ UNCHANGED <<up, queues, floppy, bridge, fdc, atapi, knownFloppy>>
      BY <1>5 DEF test_unit_ready, GuestRuns
    <2>2. s \in -1 .. 1 /\ (s = 0 => cdrom.status_changed = -1)
      BY <1>4, <2>1
    <2> HIDE DEF s
    <2>3. /\ c \in CdromDrive /\ c.medium = cdrom.medium /\ c.path = cdrom.path
          /\ c.ready = cdrom.ready /\ c.status_changed = s
      BY <1>4, <2>2 DEF CdromDrive
    <2>4. k \in Images \cup {NoPath} /\ (s = 0 => k = cdrom.medium.image)
      BY <1>4, <2>2
    <2> HIDE DEF c, k
    <2> QED
      BY <1>4, <2>1, <2>3, <2>4, DriveInv
  <1>6. ASSUME NEW locked \in BOOLEAN, lock_medium(locked)
        PROVE  MediaInv'
    <2> DEFINE c == [cdrom EXCEPT !.locked = locked]
    <2>1. /\ up /\ cdrom' = c /\ knownDisc' = knownDisc /\ bridge' = bridge
          /\ UNCHANGED <<up, queues, floppy, fdc, atapi, knownFloppy>>
      BY <1>6 DEF lock_medium, GuestRuns, known
    <2>2. /\ c \in CdromDrive /\ c.medium = cdrom.medium /\ c.path = cdrom.path
          /\ c.ready = cdrom.ready /\ c.status_changed = cdrom.status_changed
      BY <1>4 DEF CdromDrive
    <2> HIDE DEF c
    <2> QED
      BY <1>4, <2>1, <2>2, DriveInv
  <1>7. CASE guest_eject
    <2> DEFINE r == [cdrom EXCEPT !.ready = FALSE]
               d == eject_cdrom([c |-> r, b |-> bridge])
               g == [r EXCEPT !.medium = NoMedium]
               h == [g EXCEPT !.inserted = FALSE, !.status_changed = 1]
               k == [g EXCEPT !.inserted = TRUE]
               c == [cdrom_status_handler(d.c, FALSE) EXCEPT !.status_changed = 1]
               b == Release(bridge, cdrom.medium)
    <2>1. /\ up /\ cdrom' = c /\ bridge' = d.b /\ knownDisc' = knownDisc
          /\ UNCHANGED <<up, queues, floppy, fdc, atapi, knownFloppy>>
      BY <1>7 DEF guest_eject, GuestRuns, known
    <2>2. /\ r \in CdromDrive /\ r.ready = FALSE /\ r.medium = cdrom.medium
      BY <1>4 DEF CdromDrive
    <2>3. d.c = g /\ d.b = b
      BY <2>2 DEF eject_cdrom
    <2> HIDE DEF r, d
    <2>4. g \in CdromDrive /\ g.ready = FALSE /\ g.medium = NoMedium
      BY <2>2, NoMediumIsMedium DEF CdromDrive
    <2> HIDE DEF g
    <2>5. 1 \in -1 .. 1
      OBVIOUS
    <2>6. /\ h \in CdromDrive /\ h.ready = FALSE /\ h.medium = NoMedium
          /\ k \in CdromDrive /\ k.ready = FALSE /\ k.medium = NoMedium
      BY <2>4, <2>5, Zenon DEF CdromDrive
    <2>7. cdrom_status_handler(d.c, FALSE) \in {h, k}
      BY <2>3, Zenon DEF cdrom_status_handler
    <2> HIDE DEF h, k
    <2>8. /\ c \in CdromDrive /\ c.ready = FALSE /\ c.medium = NoMedium
          /\ c.status_changed = 1
      <3>1. PICK s \in {h, k} : s = cdrom_status_handler(d.c, FALSE)
        BY <2>7
      <3>2. s \in CdromDrive /\ s.ready = FALSE /\ s.medium = NoMedium
        BY <2>6, <3>1
      <3>3. c = [s EXCEPT !.status_changed = 1]
        BY <3>1
      <3> HIDE DEF c
      <3> QED
        BY <2>5, <3>2, <3>3, Zenon DEF CdromDrive
    <2>9. Owned(b, NoMedium, floppy.medium) /\ b.next = bridge.next
      BY <1>4, OwnedSwap, ReleaseOwned
    <2> HIDE DEF b, c
    <2>10. Owned(b, floppy.medium, c.medium)
      BY <2>8, <2>9, OwnedSwap
    <2>11. bridge' = b
      BY <2>1, <2>3
    <2> QED
      BY <1>4, <2>1, <2>8, <2>9, <2>10, <2>11, DriveInv
  <1>8. ASSUME up, atapi' \in Images \cup {NoPath},
               UNCHANGED <<up, queues, floppy, cdrom, bridge, fdc, known>>
        PROVE  MediaInv'
    <2>1. RestInv' /\ QueuesInv'
      BY <1>8 DEF MediaInv, RestInv, QueuesInv, queues, known
    <2>2. TableInv' /\ FloppyInv' /\ CdromInv' /\ WriteFindsUnprotected'
      BY <1>8 DEF MediaInv, TableInv, FloppyInv, CdromInv,
                  WriteFindsUnprotected, known
    <2>3. DownInv'
      BY <1>8 DEF DownInv
    <2> QED
      BY <2>1, <2>2, <2>3 DEF MediaInv
  <1>9. CASE atapi_read
    BY <1>4, <1>8, <1>9 DEF atapi_read, GuestRuns
  <1>10. CASE read_block
    <2>1. CASE Teardown
      BY <2>1, TeardownInv
    <2>2. CASE /\ atapi' \in {atapi, NoPath}
               /\ UNCHANGED <<up, queues, floppy, cdrom, bridge, fdc, known>>
      <3>1. up /\ atapi \in Images \cup {NoPath}
        BY <1>10 DEF read_block, GuestRuns, MediaInv, RestInv
      <3> QED
        BY <1>8, <2>2, <3>1
    <2> QED
      BY <1>10, <2>1, <2>2 DEF read_block
  <1> QED
    BY <1>1, <1>2, <1>3, <1>5, <1>6, <1>7, <1>9, <1>10 DEF Guest

\* Every step keeps it.
LEMMA StepInv == MediaInv /\ [Next]_vars => MediaInv'
  <1> SUFFICES ASSUME MediaInv, [Next]_vars PROVE MediaInv'
    OBVIOUS
  <1>1. ASSUME NEW fimage \in Images \cup {NoPath},
               NEW cimage \in Images \cup {NoPath}, StartSession(fimage, cimage)
        PROVE  MediaInv'
    BY <1>1, StartInv
  <1>2. CASE EndSession
    BY <1>2, TeardownInv DEF EndSession
  <1>3. CASE Page
    <2>1. ASSUME NEW target \in {"floppya", "cdrom"}, NEW path \in Images,
                 enqueue_runtime_media([target |-> target, path |-> path,
                                        inserted |-> TRUE])
          PROVE  MediaInv'
      <3> DEFINE e == [target |-> target, path |-> path, inserted |-> TRUE]
      <3>1. e \in Requests /\ e.path # NoPath
        BY ImagesAssumption DEF Requests, NoPath
      <3>2. enqueue_runtime_media(e)
        BY <2>1
      <3> HIDE DEF e
      <3> QED
        BY <3>1, <3>2, EnqueueInv
    <2>2. ASSUME NEW target \in {"floppya", "cdrom"},
                 enqueue_runtime_media([target |-> target, path |-> NoPath,
                                        inserted |-> FALSE])
          PROVE  MediaInv'
      <3> DEFINE e == [target |-> target, path |-> NoPath, inserted |-> FALSE]
      <3>1. e \in Requests /\ ~e.inserted
        BY DEF Requests
      <3>2. enqueue_runtime_media(e)
        BY <2>2
      <3> HIDE DEF e
      <3> QED
        BY <3>1, <3>2, EnqueueInv
    <2> QED
      BY <1>3, <2>1, <2>2 DEF Page
  <1>4. CASE handle_events
    BY <1>4, HandleEventsInv
  <1>5. CASE set_runtime_media
    BY <1>5, DispatchInv
  <1>6. CASE Guest
    BY <1>6, GuestInv
  <1>7. CASE UNCHANGED vars
    BY <1>7 DEF vars, queues, known, MediaInv, RestInv, QueuesInv, TableInv,
       FloppyInv, CdromInv, DownInv, WriteFindsUnprotected
  <1> QED
    BY <1>1, <1>2, <1>3, <1>4, <1>5, <1>6, <1>7 DEF Next

\* The inductive invariant holds in every behaviour.
THEOREM Invariant == Spec => []MediaInv
  <1> QED
    BY InitInv, StepInv, PTL DEF Spec

-----------------------------------------------------------------------------
(* The properties of the runs.                                             *)

\* A drive's handle is within the bound of the model.
LEMMA MediumIsMedia ==
    ASSUME NEW b, NEW m, NEW n, Owned(b, m, n), b.next <= MaxHandle + 1
    PROVE  m \in Media
  <1>1. m \in Medium /\ Table(b)
    BY DEF Owned
  <1>2. m.kind = "uwp" => m.handle \in DOMAIN b.files
    BY DEF Owned, Backed
  <1>3. \A h \in DOMAIN b.files : h \in Handles
    BY <1>1, ImagesAssumption DEF Table, Handles
  <1>4. m.handle \in Handles \cup {NoHandle}
    BY <1>1, <1>2, <1>3 DEF Medium
  <1> QED
    BY <1>1, <1>4 DEF Medium, Media

\* The type invariant follows.
LEMMA MediaImpliesType == MediaInv => TypeOK
  <1> SUFFICES ASSUME MediaInv PROVE TypeOK
    OBVIOUS
  <1>1. /\ floppy \in FloppyDrive /\ cdrom \in CdromDrive
        /\ Owned(bridge, floppy.medium, cdrom.medium)
        /\ bridge.next <= MaxHandle + 1
    BY DEF MediaInv, TableInv
  <1>2. floppy.medium \in Media /\ cdrom.medium \in Media
    BY <1>1, OwnedSwap, MediumIsMedia
  <1>3. floppy \in [path : Images \cup {NoPath}, inserted : BOOLEAN,
                    typed : BOOLEAN, present : BOOLEAN,
                    write_protected : BOOLEAN, status_changed : BOOLEAN,
                    changeline : BOOLEAN, medium : Media]
    BY <1>1, <1>2 DEF FloppyDrive
  <1>4. cdrom \in [drive : BOOLEAN, path : Images \cup {NoPath},
                   inserted : BOOLEAN, status_changed : -1 .. 1,
                   ready : BOOLEAN, locked : BOOLEAN, medium : Media]
    BY <1>1, <1>2 DEF CdromDrive
  <1>5. Table(bridge)
    BY <1>1 DEF Owned
  <1>6. DOMAIN bridge.files \subseteq Handles /\ bridge.next \in 1 .. MaxHandle + 1
    BY <1>1, <1>5, ImagesAssumption DEF Table, Handles
  <1> QED
    BY <1>3, <1>4, <1>5, <1>6 DEF TypeOK, MediaInv, QueuesInv, RestInv, Table

\* Every open handle of the bridge is held by exactly one drive, which holds
\* the image the handle was opened for, and no drive holds a closed one: what
\* close_media, eject_cdrom and the destructors close is what
\* bx_uwp_file_open gave out, whatever images there are and however often
\* they are changed.
THEOREM Handles_agree == Spec => []HandlesInv
  <1>1. MediaInv => HandlesOwned
    <2> SUFFICES ASSUME MediaInv PROVE HandlesOwned
      OBVIOUS
    <2>1. Owned(bridge, floppy.medium, cdrom.medium)
      BY DEF MediaInv, TableInv
    <2>2. \A m \in Drives : m.kind = "uwp" =>
             m.handle \in DOMAIN bridge.files /\ bridge.files[m.handle].image = m.image
      BY <2>1 DEF Owned, Backed, Drives
    <2>3. \A h \in DOMAIN bridge.files :
             \E m \in Drives : m.kind = "uwp" /\ m.handle = h
      BY <2>1 DEF Owned, Drives
    <2>4. DOMAIN bridge.files = {m.handle : m \in {n \in Drives : n.kind = "uwp"}}
      BY <2>2, <2>3
    <2> QED
      BY <2>1, <2>2, <2>4 DEF HandlesOwned, Owned
  <1> QED
    BY <1>1, MediaImpliesType, Invariant, PTL DEF HandlesInv

\* Whenever the guest runs, a drive with a medium holds the image its path
\* parameter names and the floppy's status parameter tells whether it does,
\* sessions configured with a missing floppy image included: what they start
\* with is the one exception.
THEOREM Drives_named == Spec => []DriveHoldsNamedImage
  <1>1. MediaInv => DriveHoldsNamedImage
    BY DEF MediaInv, FloppyInv, Agrees, CdromInv, DriveHoldsNamedImage
  <1> QED
    BY <1>1, Invariant, PTL

\* The change line of the floppy controller and status_changed of the ATAPI
\* drive never let the guest work with another image than the one it last
\* learnt of.
THEOREM Changes_signalled == Spec => []ChangesSignalled
  <1>1. MediaInv => ChangesSignalled
    BY DEF MediaInv, FloppyInv, CdromInv, ChangesSignalled, GuestRuns,
           FloppyChangeSignalled, DiscChangeSignalled
  <1> QED
    BY <1>1, Invariant, PTL

\* The assertion of floppy_xfer, that a write meets no protected medium, can
\* fail only on a medium the change line speaks of.
THEOREM Writes_unprotected == Spec => []WriteFindsUnprotected
  <1>1. MediaInv => WriteFindsUnprotected
    BY DEF MediaInv
  <1> QED
    BY <1>1, Invariant, PTL

-----------------------------------------------------------------------------
(* The action properties.                                                  *)

\* Only a dispatch takes the first request off the local queue.
LEMMA DispatchStep ==
    ASSUME MediaInv, [Next]_vars, pending # <<>>, pending' = Tail(pending), up'
    PROVE  set_runtime_media
  <1>1. pending \in Seq(Requests) /\ Meaningful(pending)
    BY DEF MediaInv, QueuesInv
  <1>2. Tail(pending) # pending
    BY <1>1, HeadRequest
  <1>3. up
    BY DEF MediaInv, DownInv
  <1>4. pending' # pending
    BY <1>2
  <1>5. ~EndSession /\ ~handle_events
    BY DEF EndSession, Teardown, handle_events
  <1>6. ~Page
    BY <1>4 DEF Page, enqueue_runtime_media
  <1>7. ~Guest
    BY DEF Guest, floppy_command, floppy_xfer, step_head, test_unit_ready,
           lock_medium, guest_eject, atapi_read, read_block, GuestRuns
  <1>8. ASSUME NEW f, NEW c PROVE ~StartSession(f, c)
    BY <1>3 DEF StartSession
  <1>9. ~UNCHANGED vars
    BY <1>4 DEF vars, queues
  <1> QED
    BY <1>5, <1>6, <1>7, <1>8, <1>9 DEF Next

\* What a dispatch does to both drives.
LEMMA DispatchDrives ==
    ASSUME MediaInv, set_runtime_media, up'
    PROVE  LET e == Head(pending) IN
           /\ e \in Requests
           /\ \/ e.target = "cdrom" /\ ~cdrom.drive /\ UNCHANGED <<floppy, cdrom>>
              \/ \E fd, cd : /\ floppy' = fd.f /\ cdrom' = cd.c
                             /\ FloppyDispatched(e, fd)
                             /\ CdromDispatched(e, cd, fd.b, fd.f.medium)
  <1> DEFINE e == Head(pending)
             fd == floppy_runtime_config([f |-> FloppyRequested(e), b |-> bridge,
                                          panic |-> FALSE])
             cd == cdrom_runtime_config([c |-> CdromRequested(e), b |-> fd.b])
  <1>1. /\ up /\ pending # <<>>
        /\ \/ /\ e.target = "cdrom" /\ ~cdrom.drive
              /\ UNCHANGED <<floppy, cdrom>>
           \/ Teardown
           \/ floppy' = fd.f /\ cdrom' = cd.c
    BY DEF set_runtime_media
  <1>2. e \in Requests /\ (e.inserted => e.path # NoPath)
    BY <1>1, HeadRequest DEF MediaInv, QueuesInv
  <1> HIDE DEF e
  <1>3. ~Teardown
    BY DEF Teardown
  <1>4. FloppyDispatched(e, fd)
    BY <1>1, <1>2, DispatchFloppy DEF MediaInv
  <1> HIDE DEF fd
  <1>5. Owned(fd.b, cdrom.medium, fd.f.medium)
    BY <1>4, OwnedSwap DEF FloppyDispatched, FloppyAt
  <1>6. CdromDispatched(e, cd, fd.b, fd.f.medium)
    BY <1>2, <1>5, DispatchCdrom DEF MediaInv, TableInv
  <1> HIDE DEF cd
  <1> QED
    BY <1>1, <1>2, <1>3, <1>4, <1>6, Zenon DEF e

\* No request of the page takes away or exchanges a disc the guest locked:
\* not a request for the other drive either, which configures the CD-ROM drive
\* as well.
THEOREM Locked_disc_stays == Spec => LockedDiscStays
  <1> DEFINE P == up /\ up' /\ pending # <<>> /\ cdrom.ready /\ cdrom.locked =>
                     cdrom'.ready /\ cdrom'.medium = cdrom.medium
  <1>1. MediaInv /\ [Next]_vars => P
    <2> SUFFICES ASSUME MediaInv, [Next]_vars, up, up', pending # <<>>,
                        cdrom.ready, cdrom.locked
                 PROVE  cdrom'.ready /\ cdrom'.medium = cdrom.medium
      OBVIOUS
    <2>1. CASE set_runtime_media
      <3> DEFINE e == Head(pending)
      <3>1. \/ UNCHANGED cdrom
            \/ \E fd, cd : cdrom' = cd.c /\ CdromDispatched(e, cd, fd.b, fd.f.medium)
        BY <2>1, DispatchDrives, Zenon
      <3> HIDE DEF e
      <3> QED
        BY <3>1, Zenon DEF CdromDispatched
    <2>2. CASE Page
      BY <2>2 DEF Page, enqueue_runtime_media
    <2>3. ASSUME NEW f, NEW c, StartSession(f, c) PROVE FALSE
      BY <2>3 DEF StartSession
    <2>4. CASE EndSession \/ handle_events
      BY <2>4 DEF EndSession, Teardown, handle_events
    <2>5. CASE Guest
      BY <2>5 DEF Guest, floppy_command, floppy_xfer, step_head, test_unit_ready,
                  lock_medium, guest_eject, atapi_read, read_block, GuestRuns
    <2>6. CASE UNCHANGED vars
      BY <2>6 DEF vars
    <2> QED
      BY <2>1, <2>2, <2>3, <2>4, <2>5, <2>6 DEF Next
  <1>2. MediaInv /\ [Next]_vars => [P]_vars
    BY <1>1
  <1> QED
    BY <1>2, Invariant, PTL DEF Spec, LockedDiscStays

\* A request to insert a usable image inserts it, into a floppy drive that has
\* a media type and into an empty CD-ROM drive that is not locked, and after a
\* request for the floppy its status parameter is true.
THEOREM Insert_honoured == Spec => InsertHonoured
  <1> DEFINE P == /\ \A image \in Usable :
                        /\ Dispatched([target |-> "floppya", path |-> image, inserted |-> TRUE])
                           /\ floppy.typed =>
                              floppy'.present /\ floppy'.medium.image = image
                        /\ Dispatched([target |-> "cdrom", path |-> image, inserted |-> TRUE])
                           /\ cdrom.drive /\ ~cdrom.ready /\ ~cdrom.locked =>
                              cdrom'.ready /\ cdrom'.medium.image = image
                  /\ \A e \in Requests :
                        Dispatched(e) /\ e.target = "floppya" =>
                           floppy'.inserted = floppy'.present
  <1>1. ASSUME MediaInv, [Next]_vars PROVE P
    <2>1. ASSUME NEW e, Dispatched(e)
          PROVE  \/ e.target = "cdrom" /\ ~cdrom.drive /\ UNCHANGED <<floppy, cdrom>>
                 \/ \E fd, cd : /\ floppy' = fd.f /\ cdrom' = cd.c
                                /\ FloppyDispatched(e, fd)
                                /\ CdromDispatched(e, cd, fd.b, fd.f.medium)
      <3>1. pending # <<>> /\ e = Head(pending) /\ pending' = Tail(pending) /\ up'
        BY <2>1 DEF Dispatched
      <3>2. set_runtime_media
        BY <1>1, <3>1, DispatchStep
      <3> QED
        BY <1>1, <3>1, <3>2, DispatchDrives, Zenon
    <2>2. ASSUME NEW image, image \in Usable, NEW e, Dispatched(e),
                 e.path = image, e.inserted = TRUE
          PROVE  /\ e.target = "floppya" /\ floppy.typed =>
                       floppy'.present /\ floppy'.medium.image = image
                 /\ e.target = "cdrom" /\ cdrom.drive /\ ~cdrom.ready
                    /\ ~cdrom.locked =>
                       cdrom'.ready /\ cdrom'.medium.image = image
      <3>1. CASE e.target = "cdrom" /\ ~cdrom.drive
        <4>1. e.target # "floppya"
          BY <3>1
        <4> QED
          BY <3>1, <4>1
      <3>2. CASE \E fd, cd : /\ floppy' = fd.f /\ cdrom' = cd.c
                             /\ FloppyDispatched(e, fd)
                             /\ CdromDispatched(e, cd, fd.b, fd.f.medium)
        BY <2>2, <3>2, Zenon DEF FloppyDispatched, CdromDispatched
      <3> QED
        BY <2>1, <2>2, <3>1, <3>2
    <2>3. ASSUME NEW e \in Requests, Dispatched(e), e.target = "floppya"
          PROVE  floppy'.inserted = floppy'.present
      <3>1. e.target # "cdrom"
        BY <2>3
      <3>2. \E fd : floppy' = fd.f /\ FloppyDispatched(e, fd)
        BY <2>1, <2>3, <3>1
      <3> QED
        BY <2>3, <3>2, Zenon DEF FloppyDispatched
    <2>4. ASSUME NEW image \in Usable
          PROVE  /\ Dispatched([target |-> "floppya", path |-> image, inserted |-> TRUE])
                    /\ floppy.typed =>
                       floppy'.present /\ floppy'.medium.image = image
                 /\ Dispatched([target |-> "cdrom", path |-> image, inserted |-> TRUE])
                    /\ cdrom.drive /\ ~cdrom.ready /\ ~cdrom.locked =>
                       cdrom'.ready /\ cdrom'.medium.image = image
      <3> DEFINE a == [target |-> "floppya", path |-> image, inserted |-> TRUE]
                 c == [target |-> "cdrom", path |-> image, inserted |-> TRUE]
      <3>1. a.target = "floppya" /\ a.path = image /\ a.inserted = TRUE
        OBVIOUS
      <3>2. c.target = "cdrom" /\ c.path = image /\ c.inserted = TRUE
        OBVIOUS
      <3> HIDE DEF a, c
      <3>3. Dispatched(a) /\ floppy.typed =>
               floppy'.present /\ floppy'.medium.image = image
        BY <2>2, <2>4, <3>1
      <3>4. Dispatched(c) /\ cdrom.drive /\ ~cdrom.ready /\ ~cdrom.locked =>
               cdrom'.ready /\ cdrom'.medium.image = image
        BY <2>2, <2>4, <3>2
      <3> QED
        BY <3>3, <3>4 DEF a, c
    <2> QED
      BY <2>3, <2>4
  <1>2. MediaInv /\ [Next]_vars => [P]_vars
    BY <1>1
  <1> QED
    BY <1>2, Invariant, PTL DEF Spec, InsertHonoured

=============================================================================
