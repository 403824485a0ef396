------------------------------ MODULE Redolog ------------------------------
(***************************************************************************)
(* An 'undoable' hard disk image of iodev/hdimage/hdimage.cc: a base image *)
(* that is only read and a redolog file that takes every write.  The file  *)
(* holds a catalog, which gives an extent of the disk the page it is kept  *)
(* in, and in every page a bitmap of the blocks written and the blocks.    *)
(* redolog_t keeps the catalog and the bitmap of one extent in memory.     *)
(*                                                                         *)
(* A write is several writes of the file, and the process may end between  *)
(* any two of them; what has been written stays.  A saved state holds a    *)
(* copy of the file, made from the beginning on, which the process may     *)
(* leave unfinished, and so is the file when the state is restored.        *)
(*                                                                         *)
(* The drive seeks, then moves MaxTransfer sectors at most: the ATA drive  *)
(* seeks for every sector, the USB disk (scsi_device.cc) for every         *)
(* transfer.                                                               *)
(***************************************************************************)
EXTENDS Integers, FiniteSets

CONSTANTS NumExtents,     \* header.specific.catalog
          ExtentBlocks,   \* extent_blocks
          Data,           \* what the guest writes
          Zero,           \* a block of zeros
          Base,           \* by modification time, what the base image holds
          MaxTransfer,    \* sectors moved after one seek
          MaxSaves,       \* bound: states saved
          None,
          Lost            \* the contents of an unfinished copy

Extents  == 0 .. NumExtents - 1
Blocks   == 0 .. ExtentBlocks - 1
Sectors  == 0 .. NumExtents * ExtentBlocks - 1
Times    == DOMAIN Base     \* in seconds
Contents == UNION {{Base[t][s] : s \in Sectors} : t \in Times}
Values   == Data \cup {Zero} \cup Contents

ASSUME RedologAssumption ==
    /\ NumExtents \in Nat \ {0}
    /\ ExtentBlocks \in Nat \ {0}
    /\ MaxTransfer \in Nat \ {0}
    /\ MaxSaves \in Nat
    /\ Times \subseteq Nat \ {0, 1}
    /\ \A t \in Times : DOMAIN Base[t] = Sectors

NotAllocated == -1        \* REDOLOG_PAGE_NOT_ALLOCATED

VARIABLES
    file,           \* the redolog file
    mtime,          \* when the base image was last modified
    latest,         \* by stamp, the last of the base images that bore it
    backup,         \* the copy of the file a saved state holds, or None
    saves,          \* states saved
    catalog, extent_next,
    bitmap,         \* the offsets whose bit is set in the cached bitmap
    bitmap_update,  \* the cached bitmap is to be read before it is used
    imagepos, extent_index, extent_offset,
    ro_pos,         \* the file position of the base image
    pc,             \* where the image is, "idle" between operations
    xfer,           \* the transfer of the drive, or None
    buf,            \* the block being written, or None
    update_catalog,
    out             \* what the last step read, or None

position == <<imagepos, extent_index, extent_offset, bitmap_update>>
memory   == <<catalog, extent_next, bitmap, position, ro_pos>>
vars     == <<file, mtime, latest, backup, saves, memory, pc, xfer, buf, update_catalog, out>>

\* get_timestamp: the stamp has a resolution of two seconds.
fat_datetime(t) == t \div 2
Stamps == {fat_datetime(t) : t \in Times}

\* A file is the log as it was written, all of it; or a copy of one that ends
\* somewhere behind the catalog, or before.
File == [copy : {"whole", "cut", "empty"},
         timestamp : Stamps \cup {0},
         catalog : [Extents -> Extents \cup {NotAllocated}],
         bitmap : [Extents -> SUBSET Blocks],
         block : [Extents -> [Blocks -> Values]]]

\* None is told apart from everything that stands beside it.
ASSUME NoneAssumption ==
    /\ None \notin Data
    /\ None \notin File
    /\ None \notin [Sectors -> Values]
    /\ Lost \notin [Sectors -> Values]
    /\ None # Lost
    /\ None \notin [sector : Sectors, value : Data, done : BOOLEAN]

\* make_header and the writes of create: no extent has a page.
EmptyFile ==
    [copy |-> "whole",
     timestamp |-> 0,
     catalog |-> [e \in Extents |-> NotAllocated],
     bitmap |-> [p \in Extents |-> {}],
     block |-> [p \in Extents |-> [b \in Blocks |-> Zero]]]

\* The file a copy starts with, and f as far as the n-th of the bitmaps and
\* blocks of its pages.  What is missing reads as zeros once the file grows
\* beyond it.
Truncated == [EmptyFile EXCEPT !.copy = "empty"]

Lengths == 0 .. NumExtents * (ExtentBlocks + 1)

Cut(f, n) ==
    LET PageAt(p) == p * (ExtentBlocks + 1)
    IN  [f EXCEPT !.copy = "cut",
                  !.bitmap = [p \in Extents |-> IF PageAt(p) < n THEN f.bitmap[p] ELSE {}],
                  !.block = [p \in Extents |-> [b \in Blocks |->
                        IF PageAt(p) + b + 1 < n THEN f.block[p][b] ELSE Zero]]]

-----------------------------------------------------------------------------
(* Opening, closing and crashing. *)

\* The log was made by an earlier start, and nothing has been written to it.
Init ==
    /\ file = EmptyFile
    /\ mtime \in {t \in Times : \A u \in Times : t <= u}
    /\ latest = [d \in Stamps |-> mtime]
    /\ backup = None
    /\ saves = 0
    /\ catalog = EmptyFile.catalog
    /\ extent_next = 0
    /\ bitmap = {}
    /\ bitmap_update = TRUE
    /\ imagepos = 0
    /\ extent_index = 0
    /\ extent_offset = 0
    /\ ro_pos = 0
    /\ pc = "closed"
    /\ xfer = None
    /\ buf = None
    /\ update_catalog = FALSE
    /\ out = None

\* coherency_check: the log is for a base image with the stamp of this one.
coherent(f) == f.timestamp \in {0, fat_datetime(mtime)}

\* Mutant of NextPage: the last page is taken for the next one.
NextPage_last(cat) ==
    IF \A e \in Extents : cat[e] = NotAllocated THEN 0
    ELSE CHOOSE p \in Extents : /\ \E e \in Extents : cat[e] = p
                                /\ \A e \in Extents : cat[e] <= p

NextPage(cat) ==
    IF \A e \in Extents : cat[e] = NotAllocated THEN 0
    ELSE 1 + CHOOSE p \in Extents : /\ \E e \in Extents : cat[e] = p
                                    /\ \A e \in Extents : cat[e] <= p

\* redolog_t::open of the file f, on an object in the state it was left in.
open_redolog(f) ==
    /\ catalog' = f.catalog
    /\ extent_next' = NextPage(f.catalog)
    /\ imagepos' = 0
    /\ bitmap_update' = TRUE
    /\ UNCHANGED <<bitmap, extent_index, extent_offset>>

\* The redolog is closed and its object goes; a new one starts from this.
forget ==
    /\ catalog' = EmptyFile.catalog
    /\ extent_next' = 0
    /\ bitmap' = {}
    /\ bitmap_update' = TRUE
    /\ imagepos' = 0
    /\ extent_index' = 0
    /\ extent_offset' = 0
    /\ ro_pos' = 0

\* undoable_image_t::open of a log that exists; one without a catalog, or for
\* another base image, is a panic.
open ==
    /\ pc = "closed"
    /\ IF file.copy # "empty" /\ coherent(file)
       THEN /\ open_redolog(file)
            /\ file' = [file EXCEPT !.timestamp = fat_datetime(mtime)]
            /\ pc' = "idle"
            /\ UNCHANGED ro_pos
       ELSE /\ pc' = "refused"
            /\ UNCHANGED <<memory, file>>
    /\ UNCHANGED <<mtime, latest, backup, saves, xfer, buf, update_catalog, out>>

Ended ==
    /\ pc' = "closed"
    /\ forget
    /\ xfer' = None
    /\ buf' = None
    /\ update_catalog' = FALSE
    /\ out' = None
    /\ UNCHANGED <<file, mtime, latest, backup, saves>>

close == pc \in {"idle", "refused"} /\ Ended

\* The process ends inside an operation: it is killed, or what it reads ends
\* too early, which is a panic.
Crash == pc \notin {"closed", "refused", "idle"} /\ Ended

\* Another program modifies the base image, once the log has been used with it.
ModifyBase ==
    /\ pc = "closed"
    /\ file.timestamp # 0
    /\ \E t \in Times :
          /\ t > mtime
          /\ mtime' = t
          /\ latest' = [latest EXCEPT ![fat_datetime(t)] = t]
    /\ UNCHANGED <<file, backup, saves, memory, pc, xfer, buf, update_catalog, out>>

-----------------------------------------------------------------------------
(* Seeking and reading. *)

\* Mutant of lseek: the bitmap of the old extent is kept.
lseek_keeps_bitmap(p, upd) ==
    /\ imagepos' = p
    /\ extent_index' = p \div ExtentBlocks
    /\ extent_offset' = p % ExtentBlocks
    /\ bitmap_update' = upd

\* redolog_t::lseek to p; upd is bitmap_update before it.
lseek(p, upd) ==
    /\ imagepos' = p
    /\ extent_index' = p \div ExtentBlocks
    /\ extent_offset' = p % ExtentBlocks
    /\ bitmap_update' = (upd \/ p \div ExtentBlocks # extent_index)

\* The drive starts a transfer of n sectors at sector s: undoable_image_t::lseek.
Seek(op, s, n) ==
    /\ pc = "idle"
    /\ s + n - 1 \in Sectors
    /\ lseek(s, bitmap_update)
    /\ ro_pos' = s
    /\ xfer' = [op |-> op, sector |-> s, left |-> n]
    /\ pc' = "transfer"
    /\ out' = None
    /\ UNCHANGED <<file, mtime, latest, backup, saves, catalog, extent_next, bitmap, buf, update_catalog>>

page == catalog[extent_index]

\* The bitmap of the extent, after it has been read if it has to be.
loaded == IF bitmap_update THEN file.bitmap[page] ELSE bitmap

\* redolog_t::read of a block the log holds.
read_log ==
    /\ page # NotAllocated
    /\ extent_offset \in loaded
    /\ bitmap' = loaded
    /\ out' = [sector |-> xfer.sector, value |-> file.block[page][extent_offset]]
    /\ lseek(imagepos + 1, FALSE)
    /\ UNCHANGED ro_pos

\* redolog_t::read returns 0 and the block is read from the base image.
read_base ==
    /\ page # NotAllocated => extent_offset \notin loaded
    /\ IF page = NotAllocated THEN UNCHANGED <<bitmap, bitmap_update>>
       ELSE bitmap' = loaded /\ bitmap_update' = FALSE
    /\ out' = [sector |-> xfer.sector, value |-> Base[mtime][ro_pos]]
    /\ ro_pos' = ro_pos + 1
    /\ UNCHANGED <<imagepos, extent_index, extent_offset>>

\* A block that lies beyond the end of the log is read from the base image,
\* and the position in the log moves all the same.
read_short ==
    /\ file.copy = "cut"
    /\ page # NotAllocated
    /\ extent_offset \in loaded
    /\ bitmap' = loaded
    /\ out' = [sector |-> xfer.sector, value |-> Base[mtime][ro_pos]]
    /\ lseek(imagepos + 1, FALSE)
    /\ ro_pos' = ro_pos + 1

\* The drive has one sector less to move.
Moved ==
    IF xfer.left = 1
    THEN xfer' = None /\ pc' = "idle"
    ELSE xfer' = [xfer EXCEPT !.sector = @ + 1, !.left = @ - 1] /\ pc' = "transfer"

read ==
    /\ pc = "transfer"
    /\ xfer.op = "read"
    /\ read_log \/ read_base \/ read_short
    /\ Moved
    /\ UNCHANGED <<file, mtime, latest, backup, saves, catalog, extent_next, buf, update_catalog>>

-----------------------------------------------------------------------------
(* redolog_t::write, one step for every write of the file. *)

Step(from, to) == pc = from /\ pc' = to

\* An extent without a page gets the next one, in memory.
write(d) ==
    /\ xfer # None
    /\ xfer.op = "write"
    /\ buf' = d
    /\ IF page = NotAllocated
       THEN /\ extent_next < NumExtents      \* BX_PANIC: catalog is full
            /\ catalog' = [catalog EXCEPT ![extent_index] = extent_next]
            /\ extent_next' = extent_next + 1
            /\ update_catalog' = TRUE
            /\ Step("transfer", "zero_bitmap")
       ELSE /\ Step("transfer", "write_block")
            /\ update_catalog' = FALSE
            /\ UNCHANGED <<catalog, extent_next>>
    /\ out' = None
    /\ UNCHANGED <<file, mtime, latest, backup, saves, bitmap, position, ro_pos, xfer>>

writeUnchanged == UNCHANGED <<mtime, latest, backup, saves, catalog, extent_next, xfer, buf,
                              update_catalog, ro_pos, out>>

\* Mutant of ZeroBitmap: the bitmap of a new page is taken to be zero.
ZeroBitmap_skipped ==
    /\ Step("zero_bitmap", "zero_extent")
    /\ writeUnchanged
    /\ UNCHANGED <<file, bitmap, position>>

ZeroBitmap ==
    /\ Step("zero_bitmap", "zero_extent")
    /\ file' = [file EXCEPT !.bitmap[page] = {}]
    /\ writeUnchanged
    /\ UNCHANGED <<bitmap, position>>

ZeroExtent ==
    /\ Step("zero_extent", "write_block")
    /\ file' = [file EXCEPT !.block[page] = [b \in Blocks |-> Zero]]
    /\ writeUnchanged
    /\ UNCHANGED <<bitmap, position>>

WriteBlock ==
    /\ Step("write_block", "write_bitmap")
    /\ file' = [file EXCEPT !.block[page][extent_offset] = buf]
    /\ writeUnchanged
    /\ UNCHANGED <<bitmap, position>>

\* The bitmap is written only if the block is new to the extent.
WriteBitmap ==
    /\ Step("write_bitmap", IF update_catalog THEN "write_catalog" ELSE "written")
    /\ IF extent_offset \in loaded
       THEN bitmap' = loaded /\ UNCHANGED file
       ELSE /\ bitmap' = loaded \cup {extent_offset}
            /\ file' = [file EXCEPT !.bitmap[page] = bitmap']
    /\ bitmap_update' = FALSE
    /\ writeUnchanged
    /\ UNCHANGED <<imagepos, extent_index, extent_offset>>

WriteCatalog ==
    /\ Step("write_catalog", "written")
    /\ file' = [file EXCEPT !.catalog[extent_index] = page]
    /\ writeUnchanged
    /\ UNCHANGED <<bitmap, position>>

\* The position moves to the next block and the write returns.
WriteReturns ==
    /\ pc = "written"
    /\ lseek(imagepos + 1, bitmap_update)
    /\ Moved
    /\ buf' = None
    /\ update_catalog' = FALSE
    /\ UNCHANGED <<file, mtime, latest, backup, saves, catalog, extent_next, bitmap, ro_pos, out>>

-----------------------------------------------------------------------------
(* Saved states. *)

copyUnchanged == UNCHANGED <<mtime, latest, xfer, buf, update_catalog, ro_pos>>

\* hdimage_backup_file truncates the backup there is, if any.
save_state ==
    /\ Step("idle", "saving")
    /\ saves < MaxSaves
    /\ saves' = saves + 1
    /\ backup' = Truncated
    /\ out' = None
    /\ UNCHANGED <<file, catalog, extent_next, bitmap, position>>
    /\ copyUnchanged

\* Some of the file has been copied.
SaveCopies ==
    /\ Step("saving", "saving")
    /\ backup.copy = "empty"
    /\ \E n \in Lengths : backup' = Cut(file, n)
    /\ UNCHANGED <<file, saves, catalog, extent_next, bitmap, position, out>>
    /\ copyUnchanged

save_returns ==
    /\ Step("saving", "idle")
    /\ backup' = file
    /\ UNCHANGED <<file, saves, catalog, extent_next, bitmap, position, out>>
    /\ copyUnchanged

\* The backup is looked at, where anything wrong is a panic, and the file
\* closed and truncated.
restore_state ==
    /\ Step("idle", "restoring")
    /\ backup # None
    /\ backup.copy # "empty"
    /\ coherent(backup)
    /\ file' = Truncated
    /\ out' = None
    /\ UNCHANGED <<backup, saves, catalog, extent_next, bitmap, position>>
    /\ copyUnchanged

\* hdimage_copy_file has copied some of it.
RestoreCopies ==
    /\ Step("restoring", "restoring")
    /\ file.copy = "empty"
    /\ \E n \in Lengths : file' = Cut(backup, n)
    /\ UNCHANGED <<backup, saves, catalog, extent_next, bitmap, position, out>>
    /\ copyUnchanged

\* The file is opened again by the same object.
restore_returns ==
    /\ Step("restoring", "idle")
    /\ file' = backup
    /\ open_redolog(backup)
    /\ UNCHANGED <<backup, saves, out>>
    /\ copyUnchanged

Next ==
    \/ open \/ close \/ Crash \/ ModifyBase
    \/ \E op \in {"read", "write"}, s \in Sectors, n \in 1 .. MaxTransfer : Seek(op, s, n)
    \/ read
    \/ \E d \in Data : write(d)
    \/ ZeroBitmap \/ ZeroExtent \/ WriteBlock \/ WriteBitmap \/ WriteCatalog
    \/ WriteReturns
    \/ save_state \/ SaveCopies \/ save_returns
    \/ restore_state \/ RestoreCopies \/ restore_returns

\* Every start after the one that created the log.
Spec == Init /\ [][Next]_vars

-----------------------------------------------------------------------------
(* Properties. *)

PCs == {"closed", "refused", "idle", "transfer", "zero_bitmap", "zero_extent",
        "write_block", "write_bitmap", "write_catalog", "written", "saving", "restoring"}

\* Every variable has its type: a page number is below the number of extents
\* and a position never passes the end of the disk.
TypeOK ==
    /\ file \in File
    /\ mtime \in Times
    /\ latest \in [Stamps -> Times]
    /\ backup \in File \cup {None}
    /\ saves \in 0 .. MaxSaves
    /\ catalog \in [Extents -> Extents \cup {NotAllocated}]
    /\ extent_next \in 0 .. NumExtents
    /\ bitmap \subseteq Blocks
    /\ bitmap_update \in BOOLEAN
    /\ imagepos \in Sectors \cup {Cardinality(Sectors)}
    /\ extent_index \in Extents \cup {NumExtents}
    /\ extent_offset \in Blocks
    /\ ro_pos \in Sectors \cup {Cardinality(Sectors)}
    /\ pc \in PCs
    /\ xfer \in [op : {"read", "write"}, sector : Sectors, left : 1 .. MaxTransfer] \cup {None}
    /\ buf \in Data \cup {None}
    /\ update_catalog \in BOOLEAN
    /\ out \in [sector : Sectors, value : Values] \cup {None}

\* What the file, opened again, would give for a sector, over the base image
\* it was made for.
Held(f, t, s) ==
    LET p == f.catalog[s \div ExtentBlocks]
    IN  IF p # NotAllocated /\ s % ExtentBlocks \in f.bitmap[p]
        THEN f.block[p][s % ExtentBlocks]
        ELSE Base[t][s]

MadeFor(f) == IF f.timestamp = 0 THEN mtime ELSE latest[f.timestamp]

DiskOf(f) == IF f.copy = "whole" THEN [s \in Sectors |-> Held(f, MadeFor(f), s)] ELSE Lost

\* The write in progress has taken effect once the file says so: with the
\* block if its bit was set, else with the bitmap, in a new page with the
\* catalog.
Published ==
    \/ pc = "written"
    \/ pc = "write_bitmap" /\ ~update_catalog /\ extent_offset \in file.bitmap[page]

PendingWrite ==
    IF buf = None THEN None
    ELSE [sector |-> xfer.sector, value |-> buf, done |-> Published]

Disk == INSTANCE DiskSpec WITH
            disk <- DiskOf(file), pending <- PendingWrite,
            snapshot <- IF backup = None THEN None ELSE DiskOf(backup),
            copying <- IF pc = "saving" THEN "save"
                       ELSE IF pc = "restoring" THEN "restore" ELSE "no",
            now <- mtime, StampOf <- [t \in Times |-> fat_datetime(t)]

\* The image is a disk whose sector writes are atomic and durable: whichever
\* of its steps the process ends after, the log opened again holds every write
\* that returned and no part of another.  An end in a save loses the saved
\* state and never the disk, one in a restore the disk and never the saved
\* state.  A log is not read over a base image whose stamp is not the one it
\* was made for; a modification within the stamp's two seconds shows through.
ImplementsDisk == Disk!Spec

\* A read returns a block the guest wrote, or what the base image holds for
\* the sector that was asked for.
ReadsWrittenOrBase ==
    out # None => out.value \in Data \cup {Base[mtime][out.sector]}

\* While the log is open, two extents never share a page, in memory or in the file, a page the file
\* uses is below the next one to allocate, and between operations the two
\* catalogs are the same.
PagesAreOwned ==
    pc \notin {"closed", "refused", "restoring"} =>
        /\ \A d, e \in Extents : d # e /\ catalog[d] # NotAllocated => catalog[d] # catalog[e]
        /\ \A e \in Extents : catalog[e] < extent_next
        /\ \A e \in Extents : file.catalog[e] # catalog[e] =>
              update_catalog /\ e = extent_index /\ file.catalog[e] = NotAllocated

\* The cached bitmap, when it counts as read, is the one the file holds for
\* the extent the position is in.
CachedBitmapCurrent ==
    /\ pc \in {"idle", "transfer", "written"}
    /\ ~bitmap_update
    => /\ page # NotAllocated
       /\ bitmap = file.bitmap[page]

\* The log never runs out of pages while an extent has none: crashes between
\* the allocation of a page and the catalog entry lose no page.
RoomForEveryExtent ==
    \A e \in Extents : catalog[e] = NotAllocated => extent_next < NumExtents

\* The pages of the log are neither shared nor lost, across crashes between
\* the writes of redolog_t::write and whatever open finds after them.
PagesInv == TypeOK /\ PagesAreOwned /\ RoomForEveryExtent

=============================================================================
