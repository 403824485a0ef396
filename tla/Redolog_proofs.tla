--------------------------- MODULE Redolog_proofs ---------------------------
(***************************************************************************)
(* Proofs about the undoable image of Redolog, for every number of         *)
(* extents, blocks and sectors in a transfer.                              *)
(*                                                                         *)
(* The properties speak of the catalog in memory, and it comes back from   *)
(* the file after every crash.  So the inductive invariant LogInv says of  *)
(* both catalogs, and of the backup's, that pages are handed out from 0    *)
(* upwards without a gap, and how far the write in progress has brought    *)
(* the file towards the catalog in memory.                                 *)
(*                                                                         *)
(* DiskAgrees adds what the refinement needs: where a write of one sector  *)
(* stands, and that every file is for the base image that was the last to  *)
(* bear its stamp.                                                         *)
(***************************************************************************)
EXTENDS Redolog, FiniteSetTheorems, TLAPS

\* Two extents never share a page.
OwnPages(cat) ==
    \A d, e \in Extents : d # e /\ cat[d] # NotAllocated => cat[d] # cat[e]

\* Every page below one that is used is used.
NoGap(cat) ==
    \A e \in Extents : \A p \in Extents : p < cat[e] => \E d \in Extents : cat[d] = p

\* n is the number of pages used.
Uses(cat, n) ==
    /\ \A e \in Extents : cat[e] < n
    /\ n > 0 => \E e \in Extents : cat[e] = n - 1

CatalogOK(cat) == OwnPages(cat) /\ NoGap(cat)

Writing == {"zero_bitmap", "zero_extent", "write_block", "write_bitmap",
            "write_catalog", "written"}
Active  == Writing \cup {"transfer"}

Transfers == [op : {"read", "write"}, sector : Sectors, left : 1 .. MaxTransfer]

\* The catalogs, and what the file still lacks of the one in memory.
CatalogsAgree ==
    /\ CatalogOK(file.catalog)
    /\ backup # None => CatalogOK(backup.catalog)
    /\ pc = "restoring" => backup # None
    /\ CatalogOK(catalog)
    /\ Uses(catalog, extent_next)
    /\ pc \in {"closed", "refused"} => catalog = EmptyFile.catalog /\ extent_next = 0
    /\ pc \notin {"closed", "refused", "restoring"} =>
          \A e \in Extents : file.catalog[e] # catalog[e] =>
              /\ pc \in Writing \ {"written"}
              /\ update_catalog
              /\ e = extent_index
              /\ file.catalog[e] = NotAllocated
    /\ pc \in {"zero_bitmap", "zero_extent", "write_catalog"} => update_catalog
    /\ pc \in Writing /\ update_catalog /\ pc # "written" =>
          file.catalog[extent_index] = NotAllocated

\* Where the transfer is.
PositionOK ==
    pc \in Active =>
        /\ xfer \in Transfers
        /\ xfer.sector + xfer.left <= NumExtents * ExtentBlocks
        /\ imagepos \in 0 .. xfer.sector
        /\ ro_pos \in 0 .. xfer.sector
        /\ extent_index = imagepos \div ExtentBlocks
        /\ extent_offset = imagepos % ExtentBlocks
        /\ pc \in Writing => page # NotAllocated /\ buf \in Data

\* The cached bitmap, at every place: a new page is not cached before its
\* bitmap has been written.
CacheOK ==
    /\ ~bitmap_update /\ pc # "restoring" => /\ extent_index \in Extents
                                             /\ page # NotAllocated
                                             /\ bitmap = file.bitmap[page]
    /\ pc \in {"zero_bitmap", "zero_extent"} => bitmap_update

LogInv == TypeOK /\ CatalogsAgree /\ PositionOK /\ CacheOK

-----------------------------------------------------------------------------
(* Positions and pages. *)

\* The sizes are positive numbers.
LEMMA Sizes ==
  /\ NumExtents \in Nat \ {0}
  /\ ExtentBlocks \in Nat \ {0}
  /\ MaxTransfer \in Nat \ {0}
  /\ MaxSaves \in Nat
  BY RedologAssumption

\* The extent and the offset of a position that lseek computes with \div and %.
LEMMA Position ==
  ASSUME NEW s \in 0 .. NumExtents * ExtentBlocks
  PROVE  /\ s \div ExtentBlocks \in Extents \cup {NumExtents}
         /\ s \in Sectors => s \div ExtentBlocks \in Extents
         /\ s % ExtentBlocks \in Blocks
         /\ s = ExtentBlocks * (s \div ExtentBlocks) + (s % ExtentBlocks)
  BY Sizes DEF Extents, Sectors, Blocks

\* The end of the disk, as TypeOK writes it.
LEMMA DiskEnd ==
  /\ NumExtents * ExtentBlocks \in Nat \ {0}
  /\ Cardinality(Sectors) = NumExtents * ExtentBlocks
  /\ Sectors \cup {Cardinality(Sectors)} = 0 .. NumExtents * ExtentBlocks
  <1>1. NumExtents * ExtentBlocks \in Nat \ {0}
    BY Sizes
  <1>2. Cardinality(Sectors) = NumExtents * ExtentBlocks
    <2> DEFINE N == NumExtents * ExtentBlocks
    <2>1. N \in Nat \ {0}
      BY <1>1
    <2> HIDE DEF N
    <2>2. Cardinality(0 .. N - 1) = N
      BY <2>1, FS_Interval
    <2> QED
      BY <2>2 DEF N, Sectors
  <1> QED
    BY <1>1, <1>2 DEF Sectors

\* There are NumExtents extents.
LEMMA ExtentCount == IsFiniteSet(Extents) /\ Cardinality(Extents) = NumExtents
  BY FS_Interval, Sizes DEF Extents

Catalogs == [Extents -> Extents \cup {NotAllocated}]
UsedPages(cat) == {p \in Extents : \E e \in Extents : cat[e] = p}

\* Pages without a gap are the first ones, as many as are used.
LEMMA PagesInOrder ==
  ASSUME NEW cat \in Catalogs, NoGap(cat)
  PROVE  \E n \in 0 .. NumExtents : UsedPages(cat) = 0 .. n - 1
  <1> DEFINE P == UsedPages(cat)
             n == Cardinality(P)
  <1>1. IsFiniteSet(Extents) /\ Cardinality(Extents) = NumExtents
    BY ExtentCount
  <1>2. P \in SUBSET Extents
    BY DEF UsedPages
  <1>3. IsFiniteSet(P) /\ n \in 0 .. NumExtents
    BY <1>1, <1>2, FS_Subset, FS_CardinalityType, Sizes
  <1>4. ASSUME NEW p \in P PROVE p \in 0 .. n - 1
    <2>1. 0 .. p \in SUBSET P
      <3>1. PICK e \in Extents : cat[e] = p
        BY DEF UsedPages
      <3>2. ASSUME NEW q \in 0 .. p PROVE q \in P
        BY <3>1, <1>2, Sizes DEF UsedPages, NoGap, Extents
      <3> QED
        BY <3>2
    <2>2. p \in Nat
      BY <1>2 DEF Extents
    <2>3. Cardinality(0 .. p) = p + 1
      BY <2>2, FS_Interval
    <2>4. p + 1 <= n
      BY <2>1, <2>3, <1>3, FS_Subset
    <2> QED
      BY <2>2, <2>4, <1>3
  <1>5. P \in SUBSET (0 .. n - 1)
    BY <1>4
  <1>6. IsFiniteSet(0 .. n - 1) /\ Cardinality(0 .. n - 1) = n
    <2> HIDE DEF n
    <2> QED BY <1>3, FS_Interval
  <1>7. P = 0 .. n - 1
    BY <1>5, <1>6, FS_Subset
  <1> QED
    BY <1>3, <1>7

\* The search of redolog_t::open for the next page finds their number.
LEMMA NextPageCounts ==
  ASSUME NEW cat \in Catalogs, NoGap(cat)
  PROVE  NextPage(cat) \in 0 .. NumExtents /\ Uses(cat, NextPage(cat))
  <1>1. PICK n \in 0 .. NumExtents : UsedPages(cat) = 0 .. n - 1
    BY PagesInOrder
  <1>2. CASE n = 0
    <2>1. \A e \in Extents : cat[e] = NotAllocated
      BY <1>1, <1>2, Sizes DEF UsedPages, Catalogs, NotAllocated
    <2> QED
      BY <2>1, Sizes DEF NextPage, Uses, NotAllocated
  <1>3. CASE n # 0
    <2> DEFINE Last(p) == /\ \E e \in Extents : cat[e] = p
                          /\ \A e \in Extents : cat[e] <= p
    <2>1. n - 1 \in Extents /\ Last(n - 1)
      BY <1>1, <1>3, Sizes DEF UsedPages, Catalogs, NotAllocated, Extents
    <2>2. \A p \in Extents : Last(p) => p = n - 1
      BY <2>1 DEF Extents
    <2>3. ~ \A e \in Extents : cat[e] = NotAllocated
      BY <2>1 DEF NotAllocated, Extents
    <2> DEFINE last == CHOOSE p \in Extents : Last(p)
    <2>4. last = n - 1
      BY <2>1, <2>2
    <2>5. NextPage(cat) = n
      <3>1. NextPage(cat) = 1 + last
        BY <2>3, Zenon DEF NextPage
      <3> HIDE DEF last
      <3> QED
        BY <1>1, <2>4, <3>1
    <2> QED
      BY <2>1, <2>5, Sizes DEF Uses, Extents, Catalogs, NotAllocated
  <1> QED
    BY <1>2, <1>3

\* An extent without a page leaves a page free.
LEMMA RoomLeft ==
  ASSUME NEW cat \in Catalogs, NoGap(cat), NEW n \in 0 .. NumExtents, Uses(cat, n),
         NEW d \in Extents, cat[d] = NotAllocated
  PROVE  n < NumExtents
  <1> SUFFICES ASSUME n = NumExtents PROVE FALSE
    BY Sizes
  <1> DEFINE S == Extents \ {d}
  <1>1. IsFiniteSet(Extents) /\ Cardinality(Extents) = NumExtents
    BY ExtentCount
  <1>2. IsFiniteSet(S) /\ Cardinality(S) = NumExtents - 1
    BY <1>1, FS_RemoveElement
  <1>3. ASSUME NEW p \in Extents PROVE \E e \in S : cat[e] = p
    <2>1. PICK e \in Extents : cat[e] = n - 1
      BY Sizes DEF Uses
    <2>2. \E f \in Extents : cat[f] = p
      BY <2>1 DEF NoGap, Extents
    <2> QED
      BY <2>2 DEF Extents, NotAllocated
  <1> DEFINE f == [e \in S |-> IF cat[e] = NotAllocated THEN 0 ELSE cat[e]]
  <1>4. f \in Surjection(S, Extents)
    <2>1. f \in [S -> Extents]
      BY Sizes DEF Catalogs, Extents
    <2>2. \A p \in Extents : \E e \in S : f[e] = p
      BY <1>3 DEF Extents, NotAllocated
    <2> QED
      BY <2>1, <2>2 DEF Surjection
  <1>5. Cardinality(Extents) <= Cardinality(S)
    BY <1>2, <1>4, FS_Surjection
  <1> QED
    BY <1>1, <1>2, <1>5, Sizes

-----------------------------------------------------------------------------
(* The invariant is kept. *)

\* The log that create writes uses no page.
LEMMA EmptyCatalog ==
  /\ EmptyFile \in File
  /\ EmptyFile.catalog \in Catalogs
  /\ CatalogOK(EmptyFile.catalog)
  /\ Uses(EmptyFile.catalog, 0)
  BY Sizes DEF EmptyFile, File, Catalogs, CatalogOK, OwnPages, NoGap, Uses,
     NotAllocated, Extents, Values

\* The file a copy starts with uses no page, and one that is cut uses those it
\* was copied from.
LEMMA CopiedLog ==
  /\ Truncated \in File
  /\ CatalogOK(Truncated.catalog)
  /\ Truncated.copy = "empty" /\ Truncated.timestamp = 0
  /\ \A f \in File, n \in Lengths :
        /\ Cut(f, n) \in File
        /\ Cut(f, n).catalog = f.catalog
        /\ Cut(f, n).timestamp = f.timestamp
        /\ Cut(f, n).copy = "cut"
  <1>1. Truncated \in File /\ Truncated.catalog = EmptyFile.catalog
        /\ Truncated.copy = "empty" /\ Truncated.timestamp = 0
    BY EmptyCatalog DEF Truncated, File, EmptyFile
  <1>2. ASSUME NEW f \in File, NEW n \in Lengths
        PROVE  /\ Cut(f, n) \in File
               /\ Cut(f, n).catalog = f.catalog
               /\ Cut(f, n).timestamp = f.timestamp
               /\ Cut(f, n).copy = "cut"
    <2> DEFINE PageAt(p) == p * (ExtentBlocks + 1)
               bits == [p \in Extents |-> IF PageAt(p) < n THEN f.bitmap[p] ELSE {}]
               data == [p \in Extents |-> [b \in Blocks |->
                           IF PageAt(p) + b + 1 < n THEN f.block[p][b] ELSE Zero]]
    <2>1. Cut(f, n) = [f EXCEPT !.copy = "cut", !.bitmap = bits, !.block = data]
      BY DEF Cut
    <2>2. bits \in [Extents -> SUBSET Blocks]
      <3> HIDE DEF PageAt
      <3> QED
        BY DEF File
    <2>3. data \in [Extents -> [Blocks -> Values]]
      <3> HIDE DEF PageAt
      <3> QED
        BY DEF File, Values
    <2> HIDE DEF bits, data
    <2> QED
      BY <2>1, <2>2, <2>3 DEF File
  <1> QED
    BY <1>1, <1>2, EmptyCatalog

\* The stamps of the base images are positive.
LEMMA Stamped ==
  ASSUME NEW t \in Times
  PROVE  fat_datetime(t) \in Stamps /\ fat_datetime(t) \in Nat \ {0}
  BY RedologAssumption DEF fat_datetime, Stamps

\* The log of the first start satisfies the invariant.
LEMMA InitLog == Init => LogInv
  <1> SUFFICES ASSUME Init PROVE LogInv
    OBVIOUS
  <1>1. 0 \in Extents /\ 0 \in Blocks /\ 0 \in 0 .. NumExtents /\ 0 \in 0 .. MaxSaves
        /\ 0 \in Sectors
    BY Sizes, DiskEnd DEF Extents, Blocks, Sectors
  <1>2. TypeOK
    BY <1>1, EmptyCatalog DEF Init, TypeOK, Catalogs, PCs
  <1>3. CatalogsAgree
    BY EmptyCatalog DEF Init, CatalogsAgree, Writing
  <1>4. PositionOK /\ CacheOK
    BY DEF Init, PositionOK, CacheOK, Active, Writing
  <1> QED
    BY <1>2, <1>3, <1>4 DEF LogInv

\* Opening the file f, at the start or to restore a state.
LEMMA OpenLog ==
  ASSUME TypeOK, NEW f \in File, CatalogOK(f.catalog), open_redolog(f)
  PROVE  /\ catalog' = f.catalog
         /\ catalog' \in Catalogs
         /\ extent_next' \in 0 .. NumExtents
         /\ Uses(f.catalog, extent_next')
         /\ imagepos' = 0 /\ bitmap_update' = TRUE
         /\ UNCHANGED <<bitmap, extent_index, extent_offset>>
  <1>1. f.catalog \in Catalogs
    BY DEF File, Catalogs
  <1> QED
    BY <1>1, NextPageCounts DEF open_redolog, CatalogOK

\* Opening, closing and crashing keep the invariant: a page allocated in memory
\* only is forgotten with the memory.
LEMMA LifeInv ==
  ASSUME LogInv, open \/ close \/ Crash \/ ModifyBase
  PROVE  LogInv'
  <1> USE DEF LogInv
  <1>0. 0 \in Extents /\ 0 \in Blocks /\ 0 \in 0 .. NumExtents /\ 0 \in Sectors
    BY Sizes, DiskEnd DEF Extents, Blocks, Sectors
  <1>1. CASE open
    <2>1. CASE file.copy # "empty" /\ coherent(file)
      <3>1. open_redolog(file) /\ pc' = "idle"
            /\ file' = [file EXCEPT !.timestamp = fat_datetime(mtime)]
            /\ UNCHANGED <<ro_pos, mtime, latest, backup, saves, xfer, buf, update_catalog, out>>
        BY <1>1, <2>1 DEF open
      <3>2. /\ catalog' = file.catalog
            /\ catalog' \in Catalogs
            /\ extent_next' \in 0 .. NumExtents
            /\ Uses(file.catalog, extent_next')
            /\ imagepos' = 0 /\ bitmap_update' = TRUE
            /\ UNCHANGED <<bitmap, extent_index, extent_offset>>
        BY <3>1, OpenLog DEF CatalogsAgree, TypeOK
      <3>3. file' \in File /\ file'.catalog = file.catalog
        <4>1. fat_datetime(mtime) \in Stamps
          BY Stamped DEF TypeOK
        <4> QED
          BY <3>1, <4>1 DEF TypeOK, File
      <3>4. TypeOK'
        BY <1>0, <3>1, <3>2, <3>3 DEF TypeOK, Catalogs, PCs
      <3>5. CatalogsAgree'
        BY <3>1, <3>2, <3>3 DEF CatalogsAgree, Writing
      <3> QED
        BY <3>1, <3>2, <3>4, <3>5 DEF PositionOK, CacheOK, Active, Writing
    <2>2. CASE ~(file.copy # "empty" /\ coherent(file))
      BY <1>1, <2>2 DEF open, memory, position, TypeOK, CatalogsAgree, PositionOK, CacheOK,
         Active, Writing, PCs, page
    <2> QED
      BY <2>1, <2>2
  <1>2. CASE close \/ Crash
    <2>1. Ended
      BY <1>2 DEF close, Crash
    <2>2. TypeOK'
      BY <1>0, <2>1, EmptyCatalog DEF Ended, forget, TypeOK, Catalogs, PCs
    <2>3. CatalogsAgree'
      BY <2>1, EmptyCatalog DEF Ended, forget, CatalogsAgree, Writing
    <2> QED
      BY <2>1, <2>2, <2>3 DEF Ended, forget, PositionOK, CacheOK, Active, Writing
  <1>3. CASE ModifyBase
    <2>1. mtime' \in Times /\ latest' \in [Stamps -> Times]
      BY <1>3 DEF ModifyBase, TypeOK
    <2>2. TypeOK'
      BY <1>3, <2>1 DEF ModifyBase, memory, position, TypeOK
    <2> QED
      BY <1>3, <2>2
      DEF ModifyBase, memory, position, CatalogsAgree, PositionOK, CacheOK, Active, Writing, page
  <1> QED
    BY <1>1, <1>2, <1>3

\* Saving and restoring a state keep the invariant.
LEMMA SavedStateInv ==
  ASSUME LogInv, \/ save_state \/ SaveCopies \/ save_returns
                 \/ restore_state \/ RestoreCopies \/ restore_returns
  PROVE  LogInv'
  <1> USE DEF LogInv
  <1>0. 0 \in Sectors
    BY DiskEnd DEF Sectors
  <1>1. file \in File /\ (backup # None => backup \in File)
    BY DEF TypeOK
  <1>2. CASE save_state \/ SaveCopies \/ save_returns
    <2>1. /\ pc \in {"idle", "saving"} /\ pc' \in {"idle", "saving"}
          /\ UNCHANGED <<file, catalog, extent_next, bitmap, position, mtime, latest, xfer, buf,
                         update_catalog, ro_pos>>
      BY <1>2 DEF save_state, SaveCopies, save_returns, Step, copyUnchanged
    <2>2. backup' \in File /\ CatalogOK(backup'.catalog)
      BY <1>1, <1>2, CopiedLog DEF save_state, SaveCopies, save_returns, CatalogsAgree
    <2>3. saves' \in 0 .. MaxSaves /\ (out' = out \/ out' = None)
      BY <1>2, Sizes DEF save_state, SaveCopies, save_returns, TypeOK
    <2>4. TypeOK'
      BY <2>1, <2>2, <2>3 DEF TypeOK, position, PCs
    <2>5. CatalogsAgree'
      BY <2>1, <2>2 DEF CatalogsAgree, Writing
    <2> QED
      BY <2>1, <2>4, <2>5 DEF PositionOK, CacheOK, Active, Writing, position, page
  <1>3. CASE restore_state \/ RestoreCopies
    <2>1. /\ pc' = "restoring"
          /\ UNCHANGED <<backup, saves, catalog, extent_next, bitmap, position, mtime, latest, xfer,
                         buf, update_catalog, ro_pos>>
      BY <1>3 DEF restore_state, RestoreCopies, Step, copyUnchanged
    <2>2. file' \in File /\ CatalogOK(file'.catalog)
      <3>1. CASE restore_state
        BY <3>1, CopiedLog DEF restore_state
      <3>2. CASE RestoreCopies /\ backup # None
        BY <1>1, <3>2, CopiedLog DEF RestoreCopies, CatalogsAgree
      <3>3. CASE RestoreCopies /\ backup = None
        BY <3>3 DEF RestoreCopies, Step, CatalogsAgree
      <3> QED
        BY <1>3, <3>1, <3>2, <3>3
    <2>3. out' = out \/ out' = None
      BY <1>3 DEF restore_state, RestoreCopies
    <2>4. TypeOK'
      BY <2>1, <2>2, <2>3 DEF TypeOK, position, PCs
    <2>5. CatalogsAgree'
      BY <1>3, <2>1, <2>2 DEF CatalogsAgree, Writing, restore_state, RestoreCopies, Step
    <2> QED
      BY <2>1, <2>4, <2>5, <1>3
      DEF PositionOK, CacheOK, Active, Writing, restore_state, RestoreCopies
  <1>4. CASE restore_returns
    <2>1. backup \in File /\ CatalogOK(backup.catalog)
      BY <1>1, <1>4 DEF restore_returns, Step, CatalogsAgree
    <2>2. /\ catalog' = backup.catalog
          /\ catalog' \in Catalogs
          /\ extent_next' \in 0 .. NumExtents
          /\ Uses(backup.catalog, extent_next')
          /\ imagepos' = 0 /\ bitmap_update' = TRUE
          /\ UNCHANGED <<bitmap, extent_index, extent_offset>>
      BY <1>4, <2>1, OpenLog DEF restore_returns
    <2>3. /\ pc' = "idle" /\ file' = backup /\ backup' = backup
          /\ UNCHANGED <<saves, out, mtime, latest, xfer, buf, update_catalog, ro_pos>>
      BY <1>4 DEF restore_returns, Step, copyUnchanged
    <2>4. TypeOK'
      BY <1>0, <2>1, <2>2, <2>3 DEF TypeOK, Catalogs, PCs
    <2>5. CatalogsAgree'
      BY <2>1, <2>2, <2>3 DEF CatalogsAgree, Writing
    <2> QED
      BY <2>2, <2>3, <2>4, <2>5 DEF PositionOK, CacheOK, Active, Writing
  <1> QED
    BY <1>2, <1>3, <1>4

\* lseek within the disk, with what it does to the cached bitmap: a position in
\* another extent is not cached.
LEMMA SeekMoves ==
  ASSUME TypeOK, NEW p \in 0 .. NumExtents * ExtentBlocks, NEW upd \in BOOLEAN, lseek(p, upd)
  PROVE  /\ imagepos' = p
         /\ imagepos' \in Sectors \cup {Cardinality(Sectors)}
         /\ extent_index' = p \div ExtentBlocks
         /\ extent_index' \in Extents \cup {NumExtents}
         /\ extent_offset' = p % ExtentBlocks
         /\ extent_offset' \in Blocks
         /\ bitmap_update' \in BOOLEAN
         /\ ~bitmap_update' => ~upd /\ extent_index' = extent_index
  <1>1. bitmap_update' \in BOOLEAN /\ (~bitmap_update' => ~upd /\ extent_index' = extent_index)
    BY DEF lseek
  <1> QED
    BY <1>1, Position, DiskEnd DEF lseek

\* A seek keeps the invariant.
LEMMA SeekInv ==
  ASSUME LogInv, NEW op \in {"read", "write"}, NEW s \in Sectors, NEW n \in 1 .. MaxTransfer,
         Seek(op, s, n)
  PROVE  LogInv'
  <1> USE DEF LogInv
  <1>1. s \in 0 .. NumExtents * ExtentBlocks /\ s + n <= NumExtents * ExtentBlocks
    BY DiskEnd, Sizes DEF Seek, Sectors
  <1>2. /\ imagepos' = s
        /\ imagepos' \in Sectors \cup {Cardinality(Sectors)}
        /\ extent_index' = s \div ExtentBlocks
        /\ extent_index' \in Extents \cup {NumExtents}
        /\ extent_offset' = s % ExtentBlocks
        /\ extent_offset' \in Blocks
        /\ bitmap_update' \in BOOLEAN
        /\ ~bitmap_update' => ~bitmap_update /\ extent_index' = extent_index
    BY <1>1, SeekMoves DEF Seek, TypeOK
  <1>3. xfer' \in Transfers /\ xfer'.sector = s /\ xfer'.left = n
    BY DEF Seek, Transfers
  <1>4. TypeOK'
    BY <1>2, <1>3 DEF Seek, TypeOK, Transfers, PCs
  <1>5. CatalogsAgree'
    BY DEF Seek, CatalogsAgree, Writing
  <1>6. PositionOK'
    BY <1>1, <1>2, <1>3, DiskEnd DEF Seek, PositionOK, Active, Writing, Sectors
  <1>7. CacheOK'
    BY <1>2 DEF Seek, CacheOK, page
  <1> QED
    BY <1>4, <1>5, <1>6, <1>7

\* The next sector of a transfer, or its end.
LEMMA MovedOn ==
  ASSUME LogInv, pc \in Active, Moved
  PROVE  /\ xfer' \in Transfers \cup {None}
         /\ pc' \in {"idle", "transfer"}
         /\ pc' = "transfer" => /\ xfer' \in Transfers
                                /\ xfer'.sector = xfer.sector + 1
                                /\ xfer'.sector + xfer'.left <= NumExtents * ExtentBlocks
  <1>1. xfer \in Transfers /\ xfer.sector + xfer.left <= NumExtents * ExtentBlocks
    BY DEF LogInv, PositionOK
  <1>2. CASE xfer.left = 1
    BY <1>2 DEF Moved
  <1>3. CASE xfer.left # 1
    <2>1. xfer' = [xfer EXCEPT !.sector = @ + 1, !.left = @ - 1] /\ pc' = "transfer"
      BY <1>3 DEF Moved
    <2>2. xfer.sector \in Sectors /\ xfer.left \in 1 .. MaxTransfer
      BY <1>1 DEF Transfers
    <2>3. xfer.sector + 1 \in Sectors /\ xfer.left - 1 \in 1 .. MaxTransfer
      BY <1>1, <1>3, <2>2, DiskEnd, Sizes DEF Sectors
    <2>4. xfer' \in Transfers /\ xfer'.sector = xfer.sector + 1 /\ xfer'.left = xfer.left - 1
      BY <1>1, <2>1, <2>3 DEF Transfers
    <2>5. xfer'.sector + xfer'.left <= NumExtents * ExtentBlocks
      BY <1>1, <2>2, <2>4, DiskEnd, Sizes DEF Sectors
    <2> QED
      BY <2>1, <2>4, <2>5
  <1> QED
    BY <1>2, <1>3

\* In a transfer, the position is on the disk and its extent has a page or not.
LEMMA InTransfer ==
  ASSUME LogInv, pc \in Active
  PROVE  /\ xfer \in Transfers /\ xfer.sector \in Sectors
         /\ imagepos \in Sectors /\ ro_pos \in Sectors
         /\ imagepos + 1 \in 0 .. NumExtents * ExtentBlocks
         /\ ro_pos + 1 \in 0 .. NumExtents * ExtentBlocks
         /\ imagepos + 1 \in 0 .. xfer.sector + 1
         /\ ro_pos + 1 \in 0 .. xfer.sector + 1
         /\ extent_index \in Extents /\ extent_offset \in Blocks
         /\ page \in Extents \cup {NotAllocated}
  <1>1. xfer \in Transfers /\ imagepos \in 0 .. xfer.sector /\ ro_pos \in 0 .. xfer.sector
        /\ xfer.sector \in Sectors /\ extent_index = imagepos \div ExtentBlocks
        /\ extent_offset \in Blocks
    BY DEF LogInv, PositionOK, Transfers, TypeOK
  <1>2. imagepos \in Sectors /\ ro_pos \in Sectors
    BY <1>1, DiskEnd DEF Sectors
  <1>3. extent_index \in Extents
    BY <1>1, <1>2, Position, DiskEnd DEF Sectors
  <1> QED
    BY <1>1, <1>2, <1>3, DiskEnd DEF Sectors, LogInv, TypeOK, page

\* A read returns a block of the log or of the base image.
LEMMA ReadValue ==
  ASSUME LogInv, pc = "transfer", read_log \/ read_base \/ read_short
  PROVE  out' \in [sector : Sectors, value : Values] /\ out'.sector = xfer.sector
  <1>1. /\ xfer.sector \in Sectors /\ ro_pos \in Sectors
        /\ extent_offset \in Blocks /\ page \in Extents \cup {NotAllocated}
    BY InTransfer DEF Active
  <1>2. file \in File /\ Base[mtime][ro_pos] \in Values
    BY <1>1 DEF LogInv, TypeOK, Values, Contents
  <1>3. page # NotAllocated => file.block[page][extent_offset] \in Values
    BY <1>1, <1>2 DEF File
  <1>4. \E v \in Values : out' = [sector |-> xfer.sector, value |-> v]
    <2>1. CASE read_log
      BY <1>3, <2>1 DEF read_log
    <2>2. CASE read_base
      BY <1>2, <2>2 DEF read_base
    <2>3. CASE read_short
      BY <1>2, <2>3 DEF read_short
    <2> QED
      BY <2>1, <2>2, <2>3
  <1> QED
    BY <1>1, <1>4

\* A read keeps the invariant.
LEMMA ReadInv ==
  ASSUME LogInv, read
  PROVE  LogInv'
  <1> USE DEF LogInv
  <1>1. pc \in Active /\ pc = "transfer" /\ Moved
        /\ UNCHANGED <<file, mtime, latest, backup, saves, catalog, extent_next, buf, update_catalog>>
    BY DEF read, Active
  <1>2. /\ xfer' \in Transfers \cup {None}
        /\ pc' \in {"idle", "transfer"}
        /\ pc' = "transfer" => /\ xfer' \in Transfers
                               /\ xfer'.sector = xfer.sector + 1
                               /\ xfer'.sector + xfer'.left <= NumExtents * ExtentBlocks
    BY <1>1, MovedOn
  <1>3. CatalogsAgree'
    BY <1>1, <1>2 DEF CatalogsAgree, Writing
  <1>4. /\ xfer \in Transfers /\ xfer.sector \in Sectors
        /\ imagepos \in Sectors /\ ro_pos \in Sectors
        /\ imagepos + 1 \in 0 .. NumExtents * ExtentBlocks
        /\ ro_pos + 1 \in 0 .. NumExtents * ExtentBlocks
        /\ imagepos + 1 \in 0 .. xfer.sector + 1
        /\ ro_pos + 1 \in 0 .. xfer.sector + 1
        /\ extent_index \in Extents /\ extent_offset \in Blocks
        /\ page \in Extents \cup {NotAllocated}
    BY <1>1, InTransfer
  <1>5. page # NotAllocated => loaded = file.bitmap[page] /\ loaded \subseteq Blocks
    BY <1>1, <1>4 DEF CacheOK, loaded, TypeOK, File
  <1>6. CASE read_log \/ read_short
    <2>1. /\ imagepos' = imagepos + 1
          /\ imagepos' \in Sectors \cup {Cardinality(Sectors)}
          /\ extent_index' = (imagepos + 1) \div ExtentBlocks
          /\ extent_index' \in Extents \cup {NumExtents}
          /\ extent_offset' = (imagepos + 1) % ExtentBlocks
          /\ extent_offset' \in Blocks
          /\ bitmap_update' \in BOOLEAN
          /\ ~bitmap_update' => extent_index' = extent_index
      BY <1>4, <1>6, SeekMoves DEF read_log, read_short
    <2>2. page # NotAllocated /\ bitmap' = loaded
      BY <1>6 DEF read_log, read_short
    <2>3. /\ ro_pos' \in Sectors \cup {Cardinality(Sectors)}
          /\ ro_pos' \in 0 .. xfer.sector + 1
      <3>1. ro_pos' = ro_pos \/ ro_pos' = ro_pos + 1
        BY <1>6 DEF read_log, read_short
      <3> QED
        BY <1>4, <3>1, DiskEnd DEF Sectors
    <2>4. out' \in [sector : Sectors, value : Values]
      BY <1>1, ReadValue DEF read
    <2>5. TypeOK'
      BY <1>1, <1>2, <1>5, <2>1, <2>2, <2>3, <2>4 DEF TypeOK, Transfers, PCs
    <2>6. PositionOK'
      BY <1>2, <1>4, <2>1, <2>3, DiskEnd DEF PositionOK, Active, Writing, Sectors
    <2>7. CacheOK'
      BY <1>1, <1>2, <1>4, <1>5, <2>1, <2>2 DEF CacheOK, page
    <2> QED
      BY <1>3, <2>5, <2>6, <2>7
  <1>7. CASE read_base
    <2>2. out' \in [sector : Sectors, value : Values]
      BY <1>1, ReadValue DEF read
    <2>3. ro_pos' \in Sectors \cup {Cardinality(Sectors)}
      BY <1>4, <1>7, DiskEnd DEF read_base
    <2>4. bitmap' \subseteq Blocks /\ bitmap_update' \in BOOLEAN
      BY <1>5, <1>7 DEF read_base, TypeOK
    <2>5. TypeOK'
      BY <1>1, <1>2, <1>7, <2>2, <2>3, <2>4 DEF read_base, TypeOK, Transfers, PCs
    <2>6. PositionOK'
      BY <1>1, <1>2, <1>4, <1>7, DiskEnd
      DEF read_base, PositionOK, Active, Writing, Sectors
    <2>7. CacheOK'
      BY <1>1, <1>2, <1>4, <1>5, <1>7 DEF read_base, CacheOK, page
    <2> QED
      BY <1>3, <2>5, <2>6, <2>7
  <1> QED
    BY <1>6, <1>7 DEF read

\* An extent without a page is given the next one.
LEMMA NewPage ==
  ASSUME NEW cat \in Catalogs, CatalogOK(cat), NEW n \in 0 .. NumExtents - 1, Uses(cat, n),
         NEW d \in Extents, cat[d] = NotAllocated
  PROVE  LET new == [cat EXCEPT ![d] = n]
         IN  new \in Catalogs /\ CatalogOK(new) /\ Uses(new, n + 1)
  <1> DEFINE new == [cat EXCEPT ![d] = n]
  <1>1. n \in Extents /\ new \in Catalogs /\ \A e \in Extents : new[e] = IF e = d THEN n ELSE cat[e]
    BY DEF Extents, Catalogs
  <1>2. OwnPages(new)
    BY <1>1 DEF OwnPages, CatalogOK, Uses, Extents, NotAllocated, Catalogs
  <1>3. Uses(new, n + 1)
    BY <1>1 DEF Uses, Extents, NotAllocated, Catalogs
  <1>4. NoGap(new)
    <2> SUFFICES ASSUME NEW e \in Extents, NEW p \in Extents, p < new[e]
                 PROVE  \E c \in Extents : new[c] = p
      BY DEF NoGap
    <2>1. \E c \in Extents : cat[c] = p
      <3>1. CASE e # d
        BY <1>1, <3>1 DEF CatalogOK, NoGap
      <3>2. CASE e = d
        <4>1. PICK c \in Extents : cat[c] = n - 1
          BY <1>1, <3>2 DEF Uses, Extents
        <4> QED
          BY <1>1, <3>2, <4>1 DEF CatalogOK, NoGap, Extents
      <3> QED
        BY <3>1, <3>2
    <2> QED
      BY <1>1, <2>1 DEF Extents, NotAllocated
  <1> QED
    BY <1>1, <1>2, <1>3, <1>4 DEF CatalogOK

\* redolog_t::write begins; it panics only on a full catalog, which an extent
\* without a page never meets.
LEMMA WriteInv ==
  ASSUME LogInv, NEW d \in Data, write(d)
  PROVE  LogInv'
  <1> USE DEF LogInv
  <1>1. pc = "transfer" /\ pc \in Active /\ buf' = d /\ out' = None
        /\ UNCHANGED <<file, mtime, latest, backup, saves, bitmap, position, ro_pos, xfer>>
    BY DEF write, Step, Active
  <1>2. extent_index \in Extents /\ page \in Extents \cup {NotAllocated}
    BY <1>1, InTransfer
  <1>3. CASE page = NotAllocated
    <2>1. /\ extent_next < NumExtents
          /\ catalog' = [catalog EXCEPT ![extent_index] = extent_next]
          /\ extent_next' = extent_next + 1
          /\ update_catalog' = TRUE
          /\ pc' = "zero_bitmap"
      BY <1>3 DEF write, Step
    <2>2. extent_next \in 0 .. NumExtents - 1 /\ catalog \in Catalogs
      BY <2>1, Sizes DEF TypeOK, Catalogs
    <2>3. catalog' \in Catalogs /\ CatalogOK(catalog') /\ Uses(catalog', extent_next + 1)
      BY <1>2, <1>3, <2>1, <2>2, NewPage DEF CatalogsAgree, page
    <2>4. TypeOK'
      BY <1>1, <2>1, <2>2, <2>3, Sizes DEF TypeOK, Catalogs, position, PCs
    <2>5. bitmap_update
      BY <1>1, <1>3 DEF CacheOK
    <2>6. file.catalog = catalog
      BY <1>1, <2>2 DEF CatalogsAgree, TypeOK, File, Catalogs, Writing
    <2>7. CatalogsAgree'
      BY <1>1, <1>2, <1>3, <2>1, <2>2, <2>3, <2>6
      DEF CatalogsAgree, position, Writing, Catalogs, page
    <2>8. PositionOK'
      BY <1>1, <1>2, <2>1, <2>2
      DEF PositionOK, position, Active, Writing, page, Catalogs, NotAllocated
    <2>9. CacheOK'
      BY <1>1, <2>5 DEF CacheOK, position
    <2> QED
      BY <2>4, <2>7, <2>8, <2>9
  <1>4. CASE page # NotAllocated
    <2>1. pc' = "write_block" /\ update_catalog' = FALSE /\ UNCHANGED <<catalog, extent_next>>
      BY <1>4 DEF write, Step
    <2>2. TypeOK'
      BY <1>1, <2>1 DEF TypeOK, position, PCs
    <2>3. CatalogsAgree'
      BY <1>1, <2>1 DEF CatalogsAgree, position, Writing
    <2>4. PositionOK' /\ CacheOK'
      BY <1>1, <1>4, <2>1 DEF PositionOK, CacheOK, position, Active, Writing, page
    <2> QED
      BY <2>2, <2>3, <2>4
  <1> QED
    BY <1>3, <1>4

\* The five writes of the file.
LEMMA FileWriteInv ==
  ASSUME LogInv, ZeroBitmap \/ ZeroExtent \/ WriteBlock \/ WriteBitmap \/ WriteCatalog
  PROVE  LogInv'
  <1> USE DEF LogInv
  <1>1. pc \in Writing /\ pc \in Active /\ writeUnchanged
    BY DEF ZeroBitmap, ZeroExtent, WriteBlock, WriteBitmap, WriteCatalog, Step, Writing, Active
  <1>2. extent_index \in Extents /\ extent_offset \in Blocks /\ page \in Extents
        /\ buf \in Data
    BY <1>1, InTransfer DEF PositionOK
  <1>3. file \in File /\ Zero \in Values /\ buf \in Values
    BY <1>2 DEF TypeOK, Values
  <1>4. CASE ZeroBitmap
    <2>1. file' = [file EXCEPT !.bitmap[page] = {}] /\ pc = "zero_bitmap" /\ pc' = "zero_extent"
          /\ UNCHANGED <<bitmap, position>>
      BY <1>4 DEF ZeroBitmap, Step
    <2>2. file' \in File /\ file'.catalog = file.catalog
      BY <1>2, <1>3, <2>1 DEF File
    <2>3. TypeOK'
      BY <1>1, <2>1, <2>2 DEF TypeOK, writeUnchanged, position, PCs
    <2>4. CatalogsAgree' /\ PositionOK' /\ CacheOK'
      BY <1>1, <2>1, <2>2
      DEF CatalogsAgree, PositionOK, CacheOK, writeUnchanged, position, Writing, Active, page
    <2> QED
      BY <2>3, <2>4
  <1>5. CASE ZeroExtent
    <2>1. file' = [file EXCEPT !.block[page] = [b \in Blocks |-> Zero]]
          /\ pc = "zero_extent" /\ pc' = "write_block" /\ UNCHANGED <<bitmap, position>>
      BY <1>5 DEF ZeroExtent, Step
    <2>2. file' \in File /\ file'.catalog = file.catalog
      BY <1>2, <1>3, <2>1 DEF File
    <2>3. TypeOK'
      BY <1>1, <2>1, <2>2 DEF TypeOK, writeUnchanged, position, PCs
    <2>4. CatalogsAgree' /\ PositionOK' /\ CacheOK'
      BY <1>1, <2>1, <2>2
      DEF CatalogsAgree, PositionOK, CacheOK, writeUnchanged, position, Writing, Active, page
    <2> QED
      BY <2>3, <2>4
  <1>6. CASE WriteBlock
    <2>1. file' = [file EXCEPT !.block[page][extent_offset] = buf]
          /\ pc = "write_block" /\ pc' = "write_bitmap" /\ UNCHANGED <<bitmap, position>>
      BY <1>6 DEF WriteBlock, Step
    <2>2. file' \in File /\ file'.catalog = file.catalog /\ file'.bitmap = file.bitmap
      BY <1>2, <1>3, <2>1 DEF File
    <2>3. TypeOK'
      BY <1>1, <2>1, <2>2 DEF TypeOK, writeUnchanged, position, PCs
    <2>4. CatalogsAgree' /\ PositionOK' /\ CacheOK'
      BY <1>1, <2>1, <2>2
      DEF CatalogsAgree, PositionOK, CacheOK, writeUnchanged, position, Writing, Active, page
    <2> QED
      BY <2>3, <2>4
  <1>7. CASE WriteBitmap
    <2>1. /\ pc = "write_bitmap"
          /\ pc' = IF update_catalog THEN "write_catalog" ELSE "written"
          /\ bitmap_update' = FALSE
          /\ UNCHANGED <<imagepos, extent_index, extent_offset>>
      BY <1>7 DEF WriteBitmap, Step
    <2>2. loaded = file.bitmap[page] /\ loaded \subseteq Blocks
      BY <1>2, <1>3, <2>1 DEF CacheOK, loaded, File
    <2>3. /\ bitmap' \subseteq Blocks
          /\ file' \in File
          /\ file'.catalog = file.catalog
          /\ file'.bitmap[page] = bitmap'
      <3>1. CASE extent_offset \in loaded
        BY <1>3, <1>7, <2>2, <3>1 DEF WriteBitmap
      <3>2. CASE extent_offset \notin loaded
        <4>1. bitmap' = loaded \cup {extent_offset} /\ file' = [file EXCEPT !.bitmap[page] = bitmap']
          BY <1>7, <3>2 DEF WriteBitmap
        <4>2. bitmap' \subseteq Blocks
          BY <1>2, <2>2, <4>1
        <4> QED
          BY <1>2, <1>3, <4>1, <4>2 DEF File
      <3> QED
        BY <3>1, <3>2
    <2>4. TypeOK'
      BY <1>1, <2>1, <2>3 DEF TypeOK, writeUnchanged, PCs
    <2>5. CatalogsAgree'
      BY <1>1, <2>1, <2>3 DEF CatalogsAgree, writeUnchanged, Writing
    <2>6. PositionOK' /\ CacheOK'
      BY <1>1, <1>2, <2>1, <2>3
      DEF PositionOK, CacheOK, writeUnchanged, Writing, Active, page
    <2> QED
      BY <2>4, <2>5, <2>6
  <1>8. CASE WriteCatalog
    <2>1. file' = [file EXCEPT !.catalog[extent_index] = page]
          /\ pc = "write_catalog" /\ pc' = "written" /\ UNCHANGED <<bitmap, position>>
      BY <1>8 DEF WriteCatalog, Step
    <2>2. file' \in File /\ file'.bitmap = file.bitmap
      BY <1>2, <1>3, <2>1 DEF File
    <2>3. TypeOK'
      BY <1>1, <2>1, <2>2 DEF TypeOK, writeUnchanged, position, PCs
    <2>4. file'.catalog = catalog
      <3>1. \A e \in Extents : file'.catalog[e] = IF e = extent_index THEN page ELSE file.catalog[e]
        BY <1>2, <1>3, <2>1 DEF File
      <3>2. \A e \in Extents : file'.catalog[e] = catalog[e]
        BY <2>1, <3>1 DEF CatalogsAgree, page
      <3> QED
        BY <2>2, <3>2 DEF TypeOK, File
    <2>5. CatalogsAgree'
      BY <1>1, <2>1, <2>4 DEF CatalogsAgree, writeUnchanged, position, Writing
    <2>6. PositionOK' /\ CacheOK'
      BY <1>1, <2>1, <2>2 DEF PositionOK, CacheOK, writeUnchanged, position, Writing, Active, page
    <2> QED
      BY <2>3, <2>5, <2>6
  <1> QED
    BY <1>4, <1>5, <1>6, <1>7, <1>8

\* The return of a write keeps the invariant.
LEMMA ReturnInv ==
  ASSUME LogInv, WriteReturns
  PROVE  LogInv'
  <1> USE DEF LogInv
  <1>1. pc \in Active /\ pc = "written" /\ Moved /\ buf' = None /\ update_catalog' = FALSE
        /\ UNCHANGED <<file, mtime, latest, backup, saves, catalog, extent_next, bitmap, ro_pos, out>>
    BY DEF WriteReturns, Active, Writing
  <1>2. /\ xfer' \in Transfers \cup {None}
        /\ pc' \in {"idle", "transfer"}
        /\ pc' = "transfer" => /\ xfer' \in Transfers
                               /\ xfer'.sector = xfer.sector + 1
                               /\ xfer'.sector + xfer'.left <= NumExtents * ExtentBlocks
    BY <1>1, MovedOn
  <1>3. /\ xfer.sector \in Sectors
        /\ ro_pos \in 0 .. xfer.sector
        /\ imagepos + 1 \in 0 .. NumExtents * ExtentBlocks
        /\ imagepos + 1 \in 0 .. xfer.sector + 1
    BY <1>1, InTransfer DEF PositionOK
  <1>4. /\ imagepos' = imagepos + 1
        /\ imagepos' \in Sectors \cup {Cardinality(Sectors)}
        /\ extent_index' = (imagepos + 1) \div ExtentBlocks
        /\ extent_index' \in Extents \cup {NumExtents}
        /\ extent_offset' = (imagepos + 1) % ExtentBlocks
        /\ extent_offset' \in Blocks
        /\ bitmap_update' \in BOOLEAN
        /\ ~bitmap_update' => ~bitmap_update /\ extent_index' = extent_index
    BY <1>3, SeekMoves DEF WriteReturns, TypeOK
  <1>5. TypeOK'
    BY <1>1, <1>2, <1>4 DEF TypeOK, Transfers, PCs
  <1>6. CatalogsAgree'
    BY <1>1, <1>2 DEF CatalogsAgree, Writing
  <1>7. PositionOK'
    BY <1>1, <1>2, <1>3, <1>4 DEF PositionOK, Active, Writing, Sectors
  <1>8. CacheOK'
    BY <1>1, <1>2, <1>4 DEF CacheOK, page
  <1> QED
    BY <1>5, <1>6, <1>7, <1>8

\* Every step keeps the invariant.
LEMMA NextLog == LogInv /\ [Next]_vars => LogInv'
  <1> SUFFICES ASSUME LogInv, [Next]_vars PROVE LogInv'
    OBVIOUS
  <1>1. CASE UNCHANGED vars
    BY <1>1 DEF vars, memory, position, LogInv, TypeOK, CatalogsAgree, PositionOK, CacheOK, page
  <1> QED
    BY <1>1, LifeInv, SavedStateInv, SeekInv, ReadInv, WriteInv, FileWriteInv, ReturnInv DEF Next

\* LogInv holds in every reachable state.
THEOREM Invariant == Spec => []LogInv
  BY InitLog, NextLog, PTL DEF Spec

\* The pages of the log are never shared or lost, whatever write a crash
\* interrupts and whatever state is restored, for logs of any size.
THEOREM Pages == Spec => []PagesInv
  <1>1. LogInv => PagesInv
    <2> SUFFICES ASSUME LogInv PROVE PagesInv
      OBVIOUS
    <2>1. TypeOK /\ PagesAreOwned
      BY DEF LogInv, CatalogsAgree, CatalogOK, OwnPages, Uses, PagesAreOwned
    <2>2. RoomForEveryExtent
      <3>1. catalog \in Catalogs /\ extent_next \in 0 .. NumExtents /\ NoGap(catalog)
            /\ Uses(catalog, extent_next)
        BY DEF LogInv, TypeOK, CatalogsAgree, CatalogOK, Catalogs
      <3> QED
        BY <3>1, RoomLeft DEF RoomForEveryExtent
    <2> QED
      BY <2>1, <2>2 DEF PagesInv
  <1> QED
    BY <1>1, Invariant, PTL

\* A bitmap that counts as read is the file's.
THEOREM Cached == Spec => []CachedBitmapCurrent
  <1>1. LogInv => CachedBitmapCurrent
    BY DEF LogInv, CacheOK, CachedBitmapCurrent
  <1> QED
    BY <1>1, Invariant, PTL

-----------------------------------------------------------------------------
(* The image implements DiskSpec, for a drive that seeks for every sector. *)

\* For which base image the files are, and what the log holds of the write in
\* progress: no stamp is later than that of the base image, which is the last
\* one that bore it.
DiskAgrees ==
    /\ latest[fat_datetime(mtime)] = mtime
    /\ file.timestamp <= fat_datetime(mtime)
    /\ pc \notin {"closed", "refused", "restoring"} => file.timestamp = fat_datetime(mtime)
    /\ backup # None => /\ backup.timestamp <= fat_datetime(mtime)
                        /\ backup.copy # "empty" => backup.timestamp # 0
    /\ pc = "saving" => backup # None /\ backup.copy # "whole"
    /\ pc = "restoring" => /\ file.copy # "whole"
                           /\ backup # None
                           /\ backup.timestamp = fat_datetime(mtime)
    /\ pc \in Active => imagepos = xfer.sector /\ ro_pos = xfer.sector /\ xfer.left = 1
    /\ pc \notin Writing => buf = None
    /\ pc \in Writing \cup {"closed", "refused"} => out = None
    /\ pc \in {"zero_extent", "write_block", "write_bitmap"} /\ update_catalog =>
          file.bitmap[page] = {}
    /\ pc = "write_catalog" => file.bitmap[page] = {extent_offset}
    /\ pc \in {"write_bitmap", "write_catalog"} => file.block[page][extent_offset] = buf

\* DiskAgrees holds at the first start.
LEMMA InitDisk == Init => DiskAgrees
  <1> SUFFICES ASSUME Init PROVE DiskAgrees
    OBVIOUS
  <1>1. fat_datetime(mtime) \in Stamps /\ fat_datetime(mtime) \in Nat
    BY Stamped DEF Init
  <1>2. file.timestamp = 0
    BY DEF Init, EmptyFile
  <1> QED
    BY <1>1, <1>2 DEF Init, DiskAgrees, Active, Writing

\* A base image that is modified later bears no earlier stamp.
LEMMA LaterStamp ==
  ASSUME NEW t \in Times, NEW u \in Times, u > t
  PROVE  fat_datetime(t) <= fat_datetime(u)
  BY RedologAssumption DEF fat_datetime

\* The stamps of the files are numbers.
LEMMA StampTypes ==
  ASSUME LogInv
  PROVE  /\ mtime \in Times
         /\ fat_datetime(mtime) \in Stamps /\ fat_datetime(mtime) \in Nat \ {0}
         /\ file \in File /\ file.timestamp \in Nat
         /\ backup # None => backup \in File /\ backup.timestamp \in Nat
  <1>1. mtime \in Times /\ file \in File /\ (backup # None => backup \in File)
    BY DEF LogInv, TypeOK
  <1>2. \A d \in Stamps : d \in Nat
    BY RedologAssumption DEF Stamps, fat_datetime
  <1>3. \A f \in File : f.timestamp \in Nat
    BY <1>2 DEF File
  <1> QED
    BY <1>1, <1>3, Stamped

\* Every step of a drive that seeks for every sector keeps DiskAgrees.
LEMMA NextDisk ==
  ASSUME MaxTransfer = 1, LogInv, DiskAgrees, [Next]_vars
  PROVE  DiskAgrees'
  <1>0. /\ mtime \in Times
        /\ fat_datetime(mtime) \in Stamps /\ fat_datetime(mtime) \in Nat \ {0}
        /\ file \in File /\ file.timestamp \in Nat
        /\ backup # None => backup \in File /\ backup.timestamp \in Nat
    BY StampTypes
  <1>1. CASE open
    <2>1. CASE file.copy # "empty" /\ coherent(file)
      <3>1. file'.timestamp = fat_datetime(mtime)
        BY <1>0, <1>1, <2>1 DEF open, File
      <3> QED
        BY <1>0, <1>1, <2>1, <3>1 DEF open, DiskAgrees, Active, Writing
    <2>2. CASE ~(file.copy # "empty" /\ coherent(file))
      BY <1>1, <2>2 DEF open, DiskAgrees, Active, Writing
    <2> QED
      BY <2>1, <2>2
  <1>2. CASE close \/ Crash
    BY <1>2 DEF close, Crash, Ended, DiskAgrees, Active, Writing
  <1>3. CASE ModifyBase
    <2>1. PICK t \in Times : /\ t > mtime /\ mtime' = t
                             /\ latest' = [latest EXCEPT ![fat_datetime(t)] = t]
      BY <1>3 DEF ModifyBase
    <2>2. fat_datetime(mtime) <= fat_datetime(t) /\ fat_datetime(t) \in Nat
          /\ fat_datetime(t) \in Stamps
      BY <1>0, <2>1, LaterStamp, Stamped
    <2>3. latest'[fat_datetime(mtime')] = mtime'
      BY <2>1, <2>2 DEF LogInv, TypeOK
    <2>4. pc = "closed" /\ UNCHANGED <<file, backup, pc, xfer, buf, out>>
      BY <1>3 DEF ModifyBase
    <2>5. fat_datetime(mtime') = fat_datetime(t)
      BY <2>1
    <2> HIDE DEF fat_datetime
    <2> QED
      BY <1>0, <2>2, <2>3, <2>4, <2>5 DEF DiskAgrees, Active, Writing
  <1>4. CASE \E op \in {"read", "write"}, s \in Sectors, n \in 1 .. MaxTransfer : Seek(op, s, n)
    BY <1>4 DEF Seek, lseek, DiskAgrees, Active, Writing
  <1>5. CASE read
    <2>1. xfer.left = 1 /\ pc = "transfer" /\ pc' = "idle"
      BY <1>5 DEF read, Moved, DiskAgrees, Active
    <2> QED
      BY <1>5, <2>1 DEF read, DiskAgrees, Active, Writing
  <1>6. CASE \E d \in Data : write(d)
    BY <1>6 DEF write, Step, position, DiskAgrees, Active, Writing
  <1>7. CASE ZeroBitmap \/ ZeroExtent \/ WriteBlock \/ WriteBitmap \/ WriteCatalog
    <2>1. pc \in Writing /\ pc \in Active /\ writeUnchanged
      BY <1>7
      DEF ZeroBitmap, ZeroExtent, WriteBlock, WriteBitmap, WriteCatalog, Step, Writing, Active
    <2>2. /\ extent_index \in Extents /\ extent_offset \in Blocks /\ page \in Extents
          /\ file \in File
      BY <2>1, InTransfer DEF LogInv, PositionOK, TypeOK
    <2>3. loaded = file.bitmap[page]
      BY <2>1 DEF LogInv, CacheOK, loaded, Writing
    <2>4. /\ pc' \in Writing /\ pc' \in Active
          /\ UNCHANGED <<mtime, latest, backup, xfer, buf, out, imagepos, ro_pos, update_catalog, catalog,
                         extent_index, extent_offset>>
          /\ file'.timestamp = file.timestamp
      BY <1>7, <2>2
      DEF ZeroBitmap, ZeroExtent, WriteBlock, WriteBitmap, WriteCatalog, writeUnchanged, position,
          Step, Writing, Active, File
    <2>5. page' = page
      BY <2>4 DEF page
    <2>6. CASE ZeroBitmap
      <3>1. file'.bitmap[page] = {} /\ pc = "zero_bitmap" /\ pc' = "zero_extent"
        BY <2>2, <2>6 DEF ZeroBitmap, Step, File
      <3> QED
        BY <2>1, <2>4, <2>5, <3>1 DEF DiskAgrees
    <2>7. CASE ZeroExtent
      <3>1. file'.bitmap = file.bitmap /\ pc = "zero_extent" /\ pc' = "write_block"
        BY <2>2, <2>7 DEF ZeroExtent, Step, File
      <3> QED
        BY <2>1, <2>4, <2>5, <3>1 DEF DiskAgrees
    <2>8. CASE WriteBlock
      <3>1. file'.bitmap = file.bitmap /\ pc = "write_block" /\ pc' = "write_bitmap"
            /\ file'.block[page][extent_offset] = buf
        BY <2>2, <2>8 DEF WriteBlock, Step, File
      <3> QED
        BY <2>1, <2>4, <2>5, <3>1 DEF DiskAgrees
    <2>9. CASE WriteBitmap
      <3>1. file'.block = file.block /\ pc = "write_bitmap"
            /\ pc' = IF update_catalog THEN "write_catalog" ELSE "written"
        BY <2>2, <2>9 DEF WriteBitmap, Step, File
      <3>2. ASSUME update_catalog PROVE file'.bitmap[page] = {extent_offset}
        <4>1. loaded = {}
          BY <2>3, <3>1, <3>2 DEF DiskAgrees
        <4>2. bitmap' = {extent_offset} /\ file' = [file EXCEPT !.bitmap[page] = bitmap']
          BY <4>1, <2>9 DEF WriteBitmap
        <4> QED
          BY <4>2, <2>2 DEF File
      <3> QED
        BY <2>1, <2>4, <2>5, <3>1, <3>2 DEF DiskAgrees
    <2>10. CASE WriteCatalog
      BY <2>1, <2>4, <2>10 DEF WriteCatalog, Step, DiskAgrees
    <2> QED
      BY <1>7, <2>6, <2>7, <2>8, <2>9, <2>10
  <1>8. CASE WriteReturns
    <2>1. xfer.left = 1 /\ pc = "written" /\ pc' = "idle"
      BY <1>8 DEF WriteReturns, Moved, DiskAgrees, Active, Writing
    <2> QED
      BY <1>8, <2>1 DEF WriteReturns, DiskAgrees, Active, Writing
  <1>9. CASE save_state \/ SaveCopies \/ save_returns
    <2>1. /\ pc \in {"idle", "saving"} /\ pc' \in {"idle", "saving"}
          /\ UNCHANGED <<file, mtime, latest, buf>>
      BY <1>9 DEF save_state, SaveCopies, save_returns, Step, copyUnchanged
    <2>2. file.timestamp = fat_datetime(mtime)
      BY <2>1 DEF DiskAgrees
    <2>3. CASE save_state
      <3>1. backup' \in File /\ backup'.copy = "empty" /\ backup'.timestamp = 0
        BY <2>3, CopiedLog DEF save_state
      <3> QED
        BY <1>0, <2>1, <2>2, <3>1, NoneAssumption DEF DiskAgrees, Active, Writing
    <2>4. CASE SaveCopies
      <3>1. /\ backup' \in File /\ backup'.copy = "cut" /\ backup'.timestamp = file.timestamp
            /\ pc' = "saving"
        BY <1>0, <2>4, CopiedLog DEF SaveCopies, Step
      <3> QED
        BY <1>0, <2>1, <2>2, <3>1, NoneAssumption DEF DiskAgrees, Active, Writing
    <2>5. CASE save_returns
      <3>1. backup' = file /\ pc' = "idle"
        BY <2>5 DEF save_returns, Step
      <3> QED
        BY <1>0, <2>1, <2>2, <3>1 DEF DiskAgrees, Active, Writing
    <2> QED
      BY <1>9, <2>3, <2>4, <2>5
  <1>10. CASE restore_state \/ RestoreCopies \/ restore_returns
    <2>1. /\ pc \in {"idle", "restoring"} /\ pc' \in {"idle", "restoring"}
          /\ backup # None
          /\ UNCHANGED <<backup, mtime, latest, buf>>
      BY <1>10 DEF restore_state, RestoreCopies, restore_returns, Step, copyUnchanged, DiskAgrees
    <2>2. backup.timestamp = fat_datetime(mtime)
      BY <1>10, <2>1
      DEF restore_state, RestoreCopies, restore_returns, Step, coherent, DiskAgrees
    <2>3. CASE restore_state
      <3>1. file' \in File /\ file'.copy = "empty" /\ file'.timestamp = 0 /\ pc' = "restoring"
        BY <2>3, CopiedLog DEF restore_state, Step
      <3> QED
        BY <1>0, <2>1, <2>2, <3>1 DEF DiskAgrees, Active, Writing
    <2>4. CASE RestoreCopies
      <3>1. /\ file' \in File /\ file'.copy = "cut" /\ file'.timestamp = backup.timestamp
            /\ pc' = "restoring"
        BY <1>0, <2>1, <2>4, CopiedLog DEF RestoreCopies, Step
      <3> QED
        BY <1>0, <2>1, <2>2, <3>1 DEF DiskAgrees, Active, Writing
    <2>5. CASE restore_returns
      <3>1. file' = backup /\ pc' = "idle"
        BY <2>5 DEF restore_returns, Step
      <3> QED
        BY <1>0, <2>1, <2>2, <3>1 DEF DiskAgrees, Active, Writing
    <2> QED
      BY <1>10, <2>3, <2>4, <2>5
  <1>11. CASE UNCHANGED vars
    BY <1>11 DEF vars, memory, position, DiskAgrees, page
  <1> QED
    BY <1>1, <1>2, <1>3, <1>4, <1>5, <1>6, <1>7, <1>8, <1>9, <1>10, <1>11 DEF Next

\* Logs that agree on the pages their catalog names hold the same disk.
LEMMA SameDisk ==
  ASSUME NEW f \in File, NEW g \in File, NEW t,
         \A e \in Extents :
             /\ g.catalog[e] = f.catalog[e]
             /\ f.catalog[e] # NotAllocated =>
                   /\ g.bitmap[f.catalog[e]] = f.bitmap[f.catalog[e]]
                   /\ g.block[f.catalog[e]] = f.block[f.catalog[e]]
  PROVE  \A s \in Sectors : Held(g, t, s) = Held(f, t, s)
  <1> SUFFICES ASSUME NEW s \in Sectors PROVE Held(g, t, s) = Held(f, t, s)
    OBVIOUS
  <1>1. s \div ExtentBlocks \in Extents
    BY Position, DiskEnd DEF Sectors
  <1> QED
    BY <1>1 DEF Held

\* Two disks that differ in one sector.
LEMMA OneSector ==
  ASSUME NEW f, NEW g, NEW q \in Sectors,
         f = [s \in Sectors |-> f[s]], g = [s \in Sectors |-> g[s]],
         \A s \in Sectors : s # q => g[s] = f[s]
  PROVE  g = [f EXCEPT ![q] = g[q]]
  OBVIOUS

\* A log that is open is for the base image as it is.
LEMMA OpenedLog ==
  ASSUME LogInv, DiskAgrees, pc \notin {"closed", "refused", "restoring"}
  PROVE  MadeFor(file) = mtime
  <1>1. file.timestamp = fat_datetime(mtime) /\ latest[fat_datetime(mtime)] = mtime
    BY DEF DiskAgrees
  <1>2. fat_datetime(mtime) # 0
    BY StampTypes
  <1> QED
    BY <1>1, <1>2, Zenon DEF MadeFor

\* What the write in progress has to do with the file: it is for the sector the
\* position is at, and no other extent has its page.
LEMMA InWrite ==
  ASSUME LogInv, DiskAgrees, pc \in Writing
  PROVE  /\ xfer.sector \in Sectors
         /\ extent_index = xfer.sector \div ExtentBlocks
         /\ extent_offset = xfer.sector % ExtentBlocks
         /\ extent_index \in Extents /\ extent_offset \in Blocks /\ page \in Extents
         /\ page = catalog[extent_index]
         /\ file \in File /\ MadeFor(file) = mtime
         /\ buf \in Data /\ buf # None
         /\ out = None
         /\ loaded = file.bitmap[page]
         /\ \A e \in Extents : e # extent_index => file.catalog[e] # page
         /\ ~update_catalog => file.catalog[extent_index] = page
         /\ update_catalog /\ pc # "written" => file.catalog[extent_index] = NotAllocated
  <1>1. pc \in Active /\ pc \notin {"closed", "refused", "restoring"}
    BY DEF Active, Writing
  <1>2. /\ imagepos = xfer.sector
        /\ MadeFor(file) = mtime
        /\ out = None
    BY <1>1, OpenedLog DEF DiskAgrees
  <1>3. /\ xfer.sector \in Sectors
        /\ extent_index \in Extents /\ extent_offset \in Blocks
        /\ extent_index = xfer.sector \div ExtentBlocks
        /\ extent_offset = xfer.sector % ExtentBlocks
        /\ file \in File
        /\ buf \in Data
        /\ page # NotAllocated
    BY <1>1, <1>2, InTransfer DEF LogInv, PositionOK, TypeOK
  <1>4. page \in Extents
    BY <1>3 DEF LogInv, TypeOK, page
  <1>5. loaded = file.bitmap[page]
    BY <1>1 DEF LogInv, CacheOK, loaded
  <1>6. \A e \in Extents : file.catalog[e] # catalog[e] =>
            update_catalog /\ e = extent_index /\ file.catalog[e] = NotAllocated
    BY <1>1 DEF LogInv, CatalogsAgree
  <1>7. \A e \in Extents : e # extent_index => file.catalog[e] # page
    BY <1>3, <1>6 DEF LogInv, CatalogsAgree, CatalogOK, OwnPages, page
  <1>8. ~update_catalog => file.catalog[extent_index] = page
    BY <1>3, <1>6 DEF page
  <1>9. update_catalog /\ pc # "written" => file.catalog[extent_index] = NotAllocated
    BY DEF LogInv, CatalogsAgree
  <1> QED
    BY <1>2, <1>3, <1>4, <1>5, <1>7, <1>8, <1>9, NoneAssumption DEF page

\* A step that leaves the log and the base image alone leaves the disk alone.
LEMMA DiskKept ==
  ASSUME file' = file, mtime' = mtime, latest' = latest
  PROVE  DiskOf(file)' = DiskOf(file)
  BY DEF DiskOf, MadeFor, Held

Snapshot == IF backup = None THEN None ELSE DiskOf(backup)

Copying == IF pc = "saving" THEN "save" ELSE IF pc = "restoring" THEN "restore" ELSE "no"

\* The log of the backup is for the base image it was made for.
LEMMA SnapshotKept ==
  ASSUME backup' = backup, mtime' = mtime, latest' = latest
  PROVE  Snapshot' = Snapshot
  BY DEF Snapshot, DiskOf, MadeFor, Held

\* A log holds a value for every sector.
LEMMA DiskType ==
  ASSUME NEW f \in File, NEW t \in Times
  PROVE  [s \in Sectors |-> Held(f, t, s)] \in [Sectors -> Values]
  <1>1. ASSUME NEW s \in Sectors PROVE Held(f, t, s) \in Values
    <2>1. s \div ExtentBlocks \in Extents /\ s % ExtentBlocks \in Blocks
      BY Position, DiskEnd DEF Sectors
    <2>2. Base[t][s] \in Values
      BY DEF Values, Contents
    <2> QED
      BY <2>1, <2>2 DEF Held, File
  <1> QED
    BY <1>1

\* Every file was made for one of the base images.
LEMMA MadeForType ==
  ASSUME NEW f \in File, mtime \in Times, latest \in [Stamps -> Times]
  PROVE  MadeFor(f) \in Times
  BY DEF MadeFor, File

\* A file holds a disk or an unfinished copy, and never None.
LEMMA DiskOrLost ==
  ASSUME LogInv, NEW f \in File
  PROVE  /\ DiskOf(f) # None
         /\ f.copy = "whole" => DiskOf(f) \in [Sectors -> Values] /\ DiskOf(f) # Lost
         /\ f.copy # "whole" => DiskOf(f) = Lost
  <1>1. MadeFor(f) \in Times
    BY MadeForType DEF LogInv, TypeOK
  <1>2. CASE f.copy = "whole"
    <2>1. DiskOf(f) \in [Sectors -> Values]
      BY <1>1, <1>2, DiskType DEF DiskOf
    <2> QED
      BY <1>2, <2>1, NoneAssumption
  <1>3. CASE f.copy # "whole"
    BY <1>3, NoneAssumption DEF DiskOf
  <1> QED
    BY <1>2, <1>3

\* Opening the log changes nothing the drive can see: a log without writes is
\* for any base image, one with writes for those with the stamp of its own.
LEMMA OpenDisk ==
  ASSUME LogInv, DiskAgrees, open
  PROVE  UNCHANGED <<DiskOf(file), PendingWrite, out, Snapshot, Copying, mtime>>
  <1>1. /\ backup' = backup /\ buf' = buf /\ buf = None /\ out' = out
        /\ mtime' = mtime /\ latest' = latest
        /\ pc = "closed" /\ pc' \in {"idle", "refused"}
    BY DEF open, DiskAgrees, Writing
  <1>2. /\ file \in File /\ fat_datetime(mtime) \in Stamps /\ fat_datetime(mtime) # 0
        /\ latest[fat_datetime(mtime)] = mtime
    BY StampTypes DEF DiskAgrees
  <1>3. DiskOf(file)' = DiskOf(file)
    <2>1. CASE file' = file
      BY <1>1, <2>1, DiskKept
    <2>2. CASE coherent(file) /\ file' = [file EXCEPT !.timestamp = fat_datetime(mtime)]
      <3>1. /\ file'.catalog = file.catalog /\ file'.bitmap = file.bitmap
            /\ file'.block = file.block /\ file'.copy = file.copy
            /\ file'.timestamp = fat_datetime(mtime)
        BY <1>2, <2>2 DEF File
      <3>2. MadeFor(file) = mtime
        BY <1>2, <2>2 DEF coherent, MadeFor
      <3>3. MadeFor(file)' = mtime
        BY <1>1, <1>2, <3>1 DEF MadeFor, fat_datetime
      <3> QED
        BY <3>1, <3>2, <3>3 DEF DiskOf, Held
    <2> QED
      BY <2>1, <2>2 DEF open
  <1> QED
    BY <1>1, <1>3, SnapshotKept DEF PendingWrite, Copying

\* What a file holds once the base image has been modified.
Modified(f) == IF f.copy = "whole" THEN [s \in Sectors |-> Held(f, latest'[f.timestamp], s)]
               ELSE Lost

\* Modifying the base image shows through if the stamp stays the same; a file
\* with another stamp keeps the image of its own.
LEMMA ModifiedDisk ==
  ASSUME LogInv, DiskAgrees, ModifyBase, NEW f \in File,
         f.timestamp \in Nat, f.timestamp <= fat_datetime(mtime),
         f.copy = "whole" => f.timestamp # 0
  PROVE  /\ DiskOf(f) = Lost => Modified(f) = Lost
         /\ DiskOf(f) # Lost => Modified(f) \in [Sectors -> Values] /\ Modified(f) # Lost
         /\ fat_datetime(mtime') # fat_datetime(mtime) => Modified(f) = DiskOf(f)
  <1>1. PICK t \in Times : /\ t > mtime /\ mtime' = t
                           /\ latest' = [latest EXCEPT ![fat_datetime(t)] = t]
    BY DEF ModifyBase
  <1>2. mtime \in Times /\ latest \in [Stamps -> Times] /\ fat_datetime(mtime) \in Nat
    BY StampTypes DEF LogInv, TypeOK
  <1>3. /\ fat_datetime(mtime) <= fat_datetime(t) /\ fat_datetime(t) \in Stamps
        /\ fat_datetime(t) \in Nat /\ fat_datetime(mtime') = fat_datetime(t)
    BY <1>1, <1>2, LaterStamp, Stamped
  <1>4. CASE f.copy # "whole"
    BY <1>4, DiskOrLost DEF Modified
  <1>5. CASE f.copy = "whole"
    <2> DEFINE u == latest'[f.timestamp]
    <2>1. f.timestamp \in Stamps
      BY <1>5 DEF File
    <2>2. u \in Times
      BY <1>1, <1>2, <2>1
    <2>3. ASSUME fat_datetime(mtime') # fat_datetime(mtime) PROVE MadeFor(f) = u
      <3>1. f.timestamp # fat_datetime(t)
        <4> HIDE DEF fat_datetime
        <4> QED
          BY <1>2, <1>3, <2>3
      <3>2. MadeFor(f) = latest[f.timestamp]
        BY <1>5 DEF MadeFor
      <3> QED
        BY <1>1, <1>2, <2>1, <3>1, <3>2
    <2>4. Modified(f) = [s \in Sectors |-> Held(f, u, s)]
      BY <1>5 DEF Modified
    <2> HIDE DEF u
    <2>5. Modified(f) \in [Sectors -> Values]
      BY <2>2, <2>4, DiskType
    <2>6. fat_datetime(mtime') # fat_datetime(mtime) => Modified(f) = DiskOf(f)
      BY <1>5, <2>3, <2>4 DEF DiskOf
    <2> QED
      BY <1>5, <2>5, <2>6, DiskOrLost, NoneAssumption
  <1> QED
    BY <1>4, <1>5

\* A modification is one of DiskSpec's.
LEMMA ModifyDisk ==
  ASSUME LogInv, DiskAgrees, ModifyBase
  PROVE  Disk!Modify
  <1>1. /\ pc = "closed" /\ file.timestamp # 0
        /\ UNCHANGED <<file, backup, buf, out, pc>> /\ buf = None
    BY DEF ModifyBase, DiskAgrees, Writing
  <1>2. /\ mtime \in Times /\ file \in File /\ file.timestamp \in Nat
        /\ backup # None => backup \in File /\ backup.timestamp \in Nat
    BY StampTypes
  <1>3. mtime' \in Times /\ mtime' # mtime
    BY <1>2, RedologAssumption DEF ModifyBase
  <1>4. /\ file.timestamp <= fat_datetime(mtime)
        /\ backup # None => /\ backup.timestamp <= fat_datetime(mtime)
                            /\ backup.copy = "whole" => backup.timestamp # 0
    BY DEF DiskAgrees
  <1>5. /\ DiskOf(file) = Lost => Modified(file) = Lost
        /\ DiskOf(file) # Lost => Modified(file) \in [Sectors -> Values]
        /\ fat_datetime(mtime') # fat_datetime(mtime) => Modified(file) = DiskOf(file)
    BY <1>1, <1>2, <1>4, ModifiedDisk
  <1>6. DiskOf(file)' = Modified(file)
    BY <1>1 DEF DiskOf, MadeFor, Modified, Held
  <1>7. /\ Snapshot \in {None, Lost} => Snapshot' = Snapshot
        /\ Snapshot \notin {None, Lost} => Snapshot' \in [Sectors -> Values]
        /\ fat_datetime(mtime') # fat_datetime(mtime) => Snapshot' = Snapshot
    <2>1. CASE backup = None
      BY <1>1, <2>1 DEF Snapshot
    <2>2. CASE backup # None
      <3>1. Snapshot = DiskOf(backup) /\ DiskOf(backup) # None
        BY <1>2, <2>2, DiskOrLost DEF Snapshot
      <3>2. /\ DiskOf(backup) = Lost => Modified(backup) = Lost
            /\ DiskOf(backup) # Lost => Modified(backup) \in [Sectors -> Values]
            /\ fat_datetime(mtime') # fat_datetime(mtime) => Modified(backup) = DiskOf(backup)
        BY <1>2, <1>4, <2>2, ModifiedDisk
      <3>3. Snapshot' = Modified(backup)
        <4>1. backup.copy = "whole" => backup.timestamp # 0
          BY <1>4, <2>2
        <4> QED
          BY <1>1, <2>2, <4>1 DEF Snapshot, DiskOf, MadeFor, Modified, Held
      <3> QED
        BY <3>1, <3>2, <3>3
    <2> QED
      BY <2>1, <2>2
  <1>8. PendingWrite' = PendingWrite /\ Copying' = Copying /\ out' = out
    BY <1>1 DEF PendingWrite, Copying
  <1>9. DOMAIN [u \in Times |-> fat_datetime(u)] = Times
    OBVIOUS
  <1>10. /\ [u \in Times |-> fat_datetime(u)][mtime] = fat_datetime(mtime)
         /\ [u \in Times |-> fat_datetime(u)][mtime'] = fat_datetime(mtime')
    BY <1>2, <1>3, Zenon
  <1> HIDE DEF fat_datetime
  <1> QED
    BY <1>3, <1>5, <1>6, <1>7, <1>8, <1>9, <1>10, Zenon
    DEF Disk!Modify, Disk!Contents, Snapshot, Copying

\* A close, a crash and a seek drop the write that has not returned and the
\* copy that is not finished.
LEMMA DropDisk ==
  ASSUME LogInv, DiskAgrees,
         \/ close \/ Crash
         \/ \E op \in {"read", "write"}, s \in Sectors, n \in 1 .. MaxTransfer : Seek(op, s, n)
  PROVE  Disk!Drop
  <1>1. /\ file' = file /\ mtime' = mtime /\ latest' = latest /\ backup' = backup
        /\ buf' = None /\ out' = None /\ pc' \in {"closed", "transfer"}
    BY DEF close, Crash, Ended, Seek, DiskAgrees, Writing
  <1> QED
    BY <1>1, DiskKept, SnapshotKept DEF Disk!Drop, PendingWrite, Snapshot

\* A read returns what the disk holds, from the log or from the base image.
LEMMA ReadDisk ==
  ASSUME LogInv, DiskAgrees, read
  PROVE  Disk!Read
  <1> DEFINE q == xfer.sector
  <1>1. pc = "transfer" /\ pc \in Active /\ file' = file /\ mtime' = mtime
        /\ latest' = latest /\ backup' = backup /\ buf = None /\ buf' = None
        /\ pc' \in {"idle", "transfer"}
    BY DEF read, Moved, DiskAgrees, Active, Writing
  <1>2. /\ q \in Sectors /\ imagepos = q /\ ro_pos = q
        /\ extent_index = q \div ExtentBlocks
        /\ extent_offset = q % ExtentBlocks
        /\ extent_index \in Extents
        /\ file \in File
    BY <1>1, InTransfer DEF LogInv, PositionOK, TypeOK, DiskAgrees
  <1>3. file.catalog[extent_index] = page /\ loaded = file.bitmap[page]
    BY <1>1, <1>2 DEF LogInv, CatalogsAgree, CacheOK, Writing, page, loaded
  <1>4. MadeFor(file) = mtime
    BY <1>1, OpenedLog
  <1>5. PICK v \in Values : out' = [sector |-> q, value |-> v]
    <2>1. out' \in [sector : Sectors, value : Values] /\ out'.sector = q
      BY <1>1, ReadValue DEF read
    <2> DEFINE v == out'.value
    <2>2. v \in Values /\ out' = [sector |-> q, value |-> v]
      BY <2>1
    <2> QED
      BY <2>2
  <1>6. DiskOf(file) # Lost => v = DiskOf(file)[q]
    <2> SUFFICES ASSUME file.copy = "whole" PROVE v = DiskOf(file)[q]
      BY <1>2, DiskOrLost
    <2>1. DiskOf(file)[q] = Held(file, mtime, q)
      BY <1>2, <1>4 DEF DiskOf
    <2>2. read_log \/ read_base
      BY DEF read, read_short
    <2>3. out'.value = Held(file, mtime, q)
      <3>1. CASE read_log
        BY <1>2, <1>3, <3>1 DEF read_log, Held
      <3>2. CASE read_base
        BY <1>2, <1>3, <3>2 DEF read_base, Held
      <3> QED
        BY <2>2, <3>1, <3>2
    <2> QED
      BY <1>5, <2>1, <2>3
  <1>7. Copying = "no" /\ Copying' = "no"
    BY <1>1 DEF Copying
  <1>8. UNCHANGED <<DiskOf(file), PendingWrite, Snapshot, mtime>> /\ PendingWrite = None
    BY <1>1, DiskKept, SnapshotKept DEF PendingWrite
  <1> HIDE DEF q
  <1> QED
    BY <1>2, <1>5, <1>6, <1>7, <1>8, Zenon DEF Disk!Read, Disk!Ready, Snapshot, Copying, q

\* A write starts for the sector that was asked for, and has no effect yet.
LEMMA CallDisk ==
  ASSUME LogInv, DiskAgrees, NEW d \in Data, write(d)
  PROVE  Disk!Call
  <1>1. /\ pc = "transfer" /\ pc \in Active /\ pc' \in {"zero_bitmap", "write_block"}
        /\ file' = file /\ mtime' = mtime /\ latest' = latest /\ backup' = backup
        /\ xfer' = xfer /\ buf = None /\ buf' = d /\ d # None /\ out' = None
    BY NoneAssumption DEF write, Step, DiskAgrees, Active, Writing
  <1>2. xfer.sector \in Sectors /\ d \in Values
    BY <1>1, InTransfer DEF Values
  <1>3. Published' = FALSE
    BY <1>1 DEF Published
  <1>4. PendingWrite = None /\ PendingWrite' = [sector |-> xfer.sector, value |-> d, done |-> FALSE]
    BY <1>1, <1>3 DEF PendingWrite
  <1>5. Copying = "no" /\ Copying' = "no"
    BY <1>1 DEF Copying
  <1> QED
    BY <1>1, <1>2, <1>4, <1>5, DiskKept, SnapshotKept DEF Disk!Call, Disk!Ready, Snapshot, Copying

\* A write in progress is not None.
LEMMA WriteIsSome ==
  ASSUME NEW s \in Sectors, NEW v \in Data, NEW b \in BOOLEAN
  PROVE  [sector |-> s, value |-> v, done |-> b] # None
  <1>1. [sector |-> s, value |-> v, done |-> b] \in [sector : Sectors, value : Data, done : BOOLEAN]
    OBVIOUS
  <1> QED
    BY <1>1, NoneAssumption

\* Commit changes one field of the write in progress.
LEMMA WriteUpdated ==
  ASSUME NEW s, NEW v, NEW r, r = [sector |-> s, value |-> v, done |-> FALSE]
  PROVE  [r EXCEPT !.done = TRUE] = [sector |-> s, value |-> v, done |-> TRUE]
  <1> DEFINE w == [r EXCEPT !.done = TRUE]
  <1>1. DOMAIN r = {"sector", "value", "done"} /\ r = [f \in DOMAIN r |-> r[f]]
    OBVIOUS
  <1>2. r.sector = s /\ r.value = v
    OBVIOUS
  <1>3. DOMAIN w = {"sector", "value", "done"} /\ w = [f \in DOMAIN w |-> w[f]]
    BY <1>1
  <1>4. w["sector"] = s /\ w["value"] = v /\ w["done"] = TRUE
    BY <1>1, <1>2
  <1> HIDE DEF w
  <1>5. w = [sector |-> s, value |-> v, done |-> TRUE]
    BY <1>3, <1>4
  <1> QED
    BY <1>5 DEF w

\* A write that has taken effect returns.
LEMMA ReturnDisk ==
  ASSUME LogInv, DiskAgrees, WriteReturns
  PROVE  Disk!Return
  <1>1. /\ pc = "written" /\ pc \in Writing /\ file' = file /\ mtime' = mtime
        /\ latest' = latest /\ backup' = backup /\ buf' = None /\ out' = out
        /\ pc' \in {"idle", "transfer"}
    BY DEF WriteReturns, Moved, Writing
  <1>2. buf # None /\ buf \in Data /\ out = None /\ xfer.sector \in Sectors
    BY <1>1, InWrite
  <1>3. Published = TRUE
    BY <1>1 DEF Published
  <1>4. /\ PendingWrite = [sector |-> xfer.sector, value |-> buf, done |-> TRUE]
        /\ PendingWrite' = None
    BY <1>1, <1>2, <1>3 DEF PendingWrite
  <1>5. PendingWrite # None
    BY <1>2, <1>4, WriteIsSome
  <1>6. Copying = "no" /\ Copying' = "no"
    BY <1>1 DEF Copying
  <1> QED
    BY <1>1, <1>2, <1>4, <1>5, <1>6, DiskKept, SnapshotKept DEF Disk!Return, Snapshot, Copying

\* A save begins a snapshot, loses it if it does not end, and ends with the
\* disk of the moment.
LEMMA SaveDisk ==
  ASSUME LogInv, DiskAgrees, save_state \/ SaveCopies \/ save_returns
  PROVE  \/ Disk!Save \/ Disk!Saved
         \/ UNCHANGED <<DiskOf(file), PendingWrite, out, Snapshot, Copying, mtime>>
  <1>1. /\ file' = file /\ mtime' = mtime /\ latest' = latest
        /\ pc \in {"idle", "saving"} /\ pc' \in {"idle", "saving"}
        /\ buf = None /\ buf' = None
    BY DEF save_state, SaveCopies, save_returns, Step, copyUnchanged, DiskAgrees, Writing
  <1>2. /\ DiskOf(file)' = DiskOf(file) /\ file \in File
        /\ PendingWrite = None /\ PendingWrite' = None
    BY <1>1, DiskKept, StampTypes DEF PendingWrite
  <1>3. CASE save_state
    <2>1. backup' \in File /\ backup'.copy = "empty"
      BY <1>3, CopiedLog DEF save_state
    <2>2. Snapshot' = Lost
      BY <2>1, NoneAssumption DEF Snapshot, DiskOf
    <2>3. Copying = "no" /\ Copying' = "save" /\ out' = None
      BY <1>3 DEF save_state, Step, Copying
    <2> QED
      BY <1>1, <1>2, <2>2, <2>3 DEF Disk!Save, Disk!Ready, Snapshot, Copying
  <1>4. CASE SaveCopies
    <2>1. /\ backup # None /\ backup.copy = "empty" /\ pc = "saving" /\ pc' = "saving"
          /\ out' = out /\ backup' \in File /\ backup'.copy = "cut"
      BY <1>2, <1>4, CopiedLog DEF SaveCopies, Step, DiskAgrees
    <2>2. Snapshot = Lost /\ Snapshot' = Lost
      BY <2>1, NoneAssumption DEF Snapshot, DiskOf
    <2> QED
      BY <1>1, <1>2, <2>1, <2>2 DEF Copying
  <1>5. CASE save_returns
    <2>1. backup' = file /\ out' = out /\ file # None
      BY <1>2, <1>5, NoneAssumption DEF save_returns
    <2>2. Snapshot' = DiskOf(file)
      BY <1>1, <2>1 DEF Snapshot, DiskOf, MadeFor, Held
    <2>3. Copying = "save" /\ Copying' = "no"
      BY <1>5 DEF save_returns, Step, Copying
    <2> QED
      BY <1>1, <1>2, <2>1, <2>2, <2>3 DEF Disk!Saved, Snapshot, Copying
  <1> QED
    BY <1>3, <1>4, <1>5

\* A restore loses the disk if it does not end, and ends with the snapshot,
\* which it keeps all the while.
LEMMA RestoreDisk ==
  ASSUME LogInv, DiskAgrees, restore_state \/ RestoreCopies \/ restore_returns
  PROVE  \/ Disk!Restore \/ Disk!Restored
         \/ UNCHANGED <<DiskOf(file), PendingWrite, out, Snapshot, Copying, mtime>>
  <1>1. /\ backup' = backup /\ mtime' = mtime /\ latest' = latest
        /\ pc \in {"idle", "restoring"} /\ pc' \in {"idle", "restoring"}
        /\ buf = None /\ buf' = None /\ backup # None /\ backup \in File
    BY StampTypes
    DEF restore_state, RestoreCopies, restore_returns, Step, copyUnchanged, DiskAgrees, Writing
  <1>2. /\ Snapshot' = Snapshot /\ Snapshot = DiskOf(backup) /\ Snapshot # None
        /\ PendingWrite = None /\ PendingWrite' = None
    BY <1>1, SnapshotKept, DiskOrLost DEF PendingWrite, Snapshot
  <1>3. CASE restore_state
    <2>1. file'.copy = "empty" /\ out' = None
      BY <1>3, CopiedLog DEF restore_state
    <2>2. DiskOf(file)' = Lost
      BY <2>1 DEF DiskOf
    <2>3. Copying = "no" /\ Copying' = "restore"
      BY <1>3 DEF restore_state, Step, Copying
    <2> QED
      BY <1>1, <1>2, <2>1, <2>2, <2>3 DEF Disk!Restore, Disk!Ready, Snapshot, Copying
  <1>4. CASE RestoreCopies
    <2>1. /\ file.copy = "empty" /\ pc = "restoring" /\ pc' = "restoring"
          /\ out' = out /\ file'.copy = "cut"
      BY <1>1, <1>4, CopiedLog DEF RestoreCopies, Step
    <2>2. DiskOf(file) = Lost /\ DiskOf(file)' = Lost
      BY <2>1 DEF DiskOf
    <2> QED
      BY <1>1, <1>2, <2>1, <2>2 DEF Copying
  <1>5. CASE restore_returns
    <2>1. file' = backup /\ out' = out
      BY <1>5 DEF restore_returns
    <2>2. DiskOf(file)' = Snapshot
      BY <1>1, <1>2, <2>1 DEF DiskOf, MadeFor, Held
    <2>3. Copying = "restore" /\ Copying' = "no"
      BY <1>5 DEF restore_returns, Step, Copying
    <2> QED
      BY <1>1, <1>2, <2>1, <2>2, <2>3 DEF Disk!Restored, Snapshot, Copying
  <1> QED
    BY <1>3, <1>4, <1>5

\* Before the catalog names it, a new page may be written freely.
LEMMA NewPageDisk ==
  ASSUME LogInv, DiskAgrees, pc \in Writing, pc # "written", update_catalog,
         file' \in File, mtime' = mtime, latest' = latest,
         file'.timestamp = file.timestamp, file'.copy = file.copy,
         file'.catalog = file.catalog,
         \A p \in Extents : p # page => /\ file'.bitmap[p] = file.bitmap[p]
                                        /\ file'.block[p] = file.block[p]
  PROVE  DiskOf(file)' = DiskOf(file)
  <1>1. \A e \in Extents : file.catalog[e] # page
    BY InWrite DEF NotAllocated, Extents
  <1>2. \A e \in Extents : file.catalog[e] # NotAllocated => file.catalog[e] \in Extents
    BY DEF LogInv, TypeOK, File
  <1>3. file \in File /\ file' \in File
    BY InWrite
  <1>4. MadeFor(file)' = MadeFor(file)
    BY DEF MadeFor, fat_datetime
  <1>5. \A s \in Sectors : Held(file', MadeFor(file), s) = Held(file, MadeFor(file), s)
    BY <1>1, <1>2, <1>3, SameDisk
  <1> QED
    BY <1>4, <1>5 DEF DiskOf

\* The write takes effect when the file comes to hold its block in the place
\* the catalog, the bitmap and the page give it, and no other sector changes.
LEMMA CommitDisk ==
  ASSUME LogInv, DiskAgrees, pc \in Writing, ~Published, Published',
         file' \in File, file'.timestamp = file.timestamp, file'.copy = file.copy,
         UNCHANGED <<mtime, latest, backup, xfer, buf, out>>, Copying' = Copying,
         file'.catalog[extent_index] = page,
         \A e \in Extents : e # extent_index => file'.catalog[e] = file.catalog[e],
         \A p \in Extents : p # page => /\ file'.bitmap[p] = file.bitmap[p]
                                        /\ file'.block[p] = file.block[p],
         extent_offset \in file'.bitmap[page],
         file'.block[page][extent_offset] = buf,
         \A b \in Blocks : b # extent_offset =>
             /\ b \in file'.bitmap[page] <=>
                   file.catalog[extent_index] # NotAllocated /\ b \in file.bitmap[page]
             /\ file'.block[page][b] = file.block[page][b]
  PROVE  Disk!Commit
  <1> DEFINE q == xfer.sector
             t == mtime
  <1>1. /\ q \in Sectors
        /\ extent_index = q \div ExtentBlocks
        /\ extent_offset = q % ExtentBlocks
        /\ extent_index \in Extents /\ extent_offset \in Blocks /\ page \in Extents
        /\ file \in File /\ MadeFor(file) = t /\ buf \in Data /\ buf # None
        /\ out = None
        /\ page # NotAllocated
    BY InWrite DEF NotAllocated, Extents
  <1>2. /\ \A e \in Extents : e # extent_index => file.catalog[e] # page
        /\ file.catalog[extent_index] \in {page, NotAllocated}
        /\ \A e \in Extents : file.catalog[e] # NotAllocated => file.catalog[e] \in Extents
    <2>1. pc # "written"
      BY DEF Published
    <2> QED
      BY <2>1, InWrite DEF LogInv, TypeOK, File
  <1>3. ASSUME NEW s \in Sectors, s # q PROVE Held(file', t, s) = Held(file, t, s)
    <2>1. /\ s \div ExtentBlocks \in Extents /\ s % ExtentBlocks \in Blocks
          /\ s = ExtentBlocks * (s \div ExtentBlocks) + (s % ExtentBlocks)
          /\ q = ExtentBlocks * (q \div ExtentBlocks) + (q % ExtentBlocks)
      BY <1>1, Position, DiskEnd DEF Sectors
    <2>2. s \div ExtentBlocks # extent_index \/ s % ExtentBlocks # extent_offset
      BY <1>1, <1>3, <2>1
    <2>3. CASE s \div ExtentBlocks # extent_index
      BY <1>2, <2>1, <2>3 DEF Held
    <2>4. CASE s \div ExtentBlocks = extent_index /\ s % ExtentBlocks # extent_offset
      <3> DEFINE b == s % ExtentBlocks
      <3>1. b \in Blocks /\ b # extent_offset
        BY <2>1, <2>4
      <3> HIDE DEF b
      <3>2. /\ b \in file'.bitmap[page] <=>
                 file.catalog[extent_index] # NotAllocated /\ b \in file.bitmap[page]
            /\ file'.block[page][b] = file.block[page][b]
        BY <3>1
      <3>3. Held(file', t, s) = IF b \in file'.bitmap[page] THEN file'.block[page][b] ELSE Base[t][s]
        BY <1>1, <2>4 DEF Held, b
      <3>4. Held(file, t, s) =
              IF file.catalog[extent_index] # NotAllocated /\ b \in file.bitmap[page]
              THEN file.block[page][b] ELSE Base[t][s]
        BY <1>2, <2>4 DEF Held, b
      <3> QED
        BY <3>2, <3>3, <3>4
    <2> QED
      BY <2>2, <2>3, <2>4
  <1>4. [s \in Sectors |-> Held(file', t, s)] = [[s \in Sectors |-> Held(file, t, s)] EXCEPT ![q] = buf]
    <2> DEFINE f == [s \in Sectors |-> Held(file, t, s)]
               g == [s \in Sectors |-> Held(file', t, s)]
    <2>1. q \in Sectors
      BY <1>1
    <2>2. Held(file', t, q) = buf
      BY <1>1 DEF Held
    <2> HIDE DEF q, t
    <2>3. g[q] = buf /\ \A s \in Sectors : g[s] = Held(file', t, s) /\ f[s] = Held(file, t, s)
      BY <2>1, <2>2
    <2>4. f = [s \in Sectors |-> f[s]] /\ g = [s \in Sectors |-> g[s]]
      OBVIOUS
    <2>5. \A s \in Sectors : s # q => g[s] = f[s]
      BY <1>3, <2>3
    <2> HIDE DEF f, g
    <2>6. g = [f EXCEPT ![q] = buf]
      BY <2>1, <2>3, <2>4, <2>5, OneSector
    <2> QED
      BY <2>6 DEF f, g
  <1>5. MadeFor(file) = t /\ MadeFor(file)' = t
    BY <1>1 DEF MadeFor
  <1>6. DiskOf(file)' = IF DiskOf(file) = Lost THEN Lost ELSE [DiskOf(file) EXCEPT ![q] = buf]
    <2>1. CASE file.copy = "whole"
      <3>1. DiskOf(file) # Lost
        BY <1>1, <2>1, DiskOrLost
      <3> QED
        BY <1>4, <1>5, <2>1, <3>1 DEF DiskOf
    <2>2. CASE file.copy # "whole"
      BY <2>2 DEF DiskOf
    <2> QED
      BY <2>1, <2>2
  <1>7. /\ PendingWrite = [sector |-> q, value |-> buf, done |-> FALSE]
        /\ PendingWrite' = [sector |-> q, value |-> buf, done |-> TRUE]
    BY <1>1 DEF PendingWrite, Published
  <1>8. PendingWrite # None
    BY <1>1, <1>7, WriteIsSome
  <1>9. PendingWrite' = [PendingWrite EXCEPT !.done = TRUE]
    <2> DEFINE r == PendingWrite
    <2>1. r = [sector |-> q, value |-> buf, done |-> FALSE]
      BY <1>7
    <2> HIDE DEF q, r
    <2>2. [r EXCEPT !.done = TRUE] = [sector |-> q, value |-> buf, done |-> TRUE]
      BY <2>1, WriteUpdated
    <2> QED
      BY <1>7, <2>2 DEF r
  <1>10. ~PendingWrite.done /\ PendingWrite.sector = q /\ PendingWrite.value = buf
    <2> HIDE DEF q
    <2> QED
      BY <1>7
  <1>11. UNCHANGED Snapshot
    BY SnapshotKept DEF Snapshot
  <1>12. DiskOf(file)' = IF DiskOf(file) = Lost THEN Lost
                         ELSE [DiskOf(file) EXCEPT ![PendingWrite.sector] = PendingWrite.value]
    <2> HIDE DEF q
    <2> QED
      BY <1>6, <1>10, Zenon
  <1>13. out' = None /\ mtime' = mtime /\ Copying' = Copying
    BY <1>1
  <1> QED
    BY <1>8, <1>9, <1>10, <1>11, <1>12, <1>13, Zenon DEF Disk!Commit, Snapshot, Copying

\* Each write of the file either leaves the disk as it was or is the one with
\* which the write takes effect: the block if its bit was set, the bitmap if
\* the page was in the catalog, else the catalog.
LEMMA FileWriteDisk ==
  ASSUME LogInv, DiskAgrees,
         ZeroBitmap \/ ZeroExtent \/ WriteBlock \/ WriteBitmap \/ WriteCatalog
  PROVE  Disk!Commit \/ UNCHANGED <<DiskOf(file), PendingWrite, out, Snapshot, Copying, mtime>>
  <1>1. pc \in Writing /\ pc # "written"
    BY DEF ZeroBitmap, ZeroExtent, WriteBlock, WriteBitmap, WriteCatalog, Step, Writing
  <1>2. /\ extent_index \in Extents /\ extent_offset \in Blocks /\ page \in Extents
        /\ file \in File /\ buf \in Data /\ buf # None
        /\ loaded = file.bitmap[page]
        /\ ~update_catalog => file.catalog[extent_index] = page
        /\ update_catalog => file.catalog[extent_index] = NotAllocated
        /\ page # NotAllocated
    BY <1>1, InWrite DEF NotAllocated, Extents
  <1>3. /\ UNCHANGED <<mtime, latest, backup, xfer, buf, out, update_catalog, catalog,
                        extent_index, extent_offset, page>>
        /\ Copying' = Copying
    <2>1. /\ writeUnchanged /\ UNCHANGED <<extent_index, extent_offset>>
          /\ pc \notin {"saving", "restoring"} /\ pc' \notin {"saving", "restoring"}
      BY DEF ZeroBitmap, ZeroExtent, WriteBlock, WriteBitmap, WriteCatalog, Step, position
    <2> QED
      BY <2>1 DEF Copying, writeUnchanged, page
  <1>4. file' \in File
    BY NextLog DEF Next, LogInv, TypeOK
  <1>5. update_catalog \in BOOLEAN
    BY DEF LogInv, TypeOK
  <1>6. Snapshot' = Snapshot
    BY <1>3, SnapshotKept DEF Snapshot
  <1>7. ASSUME Published' = Published PROVE PendingWrite' = PendingWrite
    BY <1>3, <1>7 DEF PendingWrite
  <1>8. CASE ZeroBitmap \/ ZeroExtent
    <2>1. update_catalog /\ Published' = FALSE /\ Published = FALSE
      BY <1>8 DEF ZeroBitmap, ZeroExtent, Step, LogInv, CatalogsAgree, Published
    <2>2. /\ file'.timestamp = file.timestamp /\ file'.copy = file.copy
          /\ file'.catalog = file.catalog
          /\ \A p \in Extents : p # page => /\ file'.bitmap[p] = file.bitmap[p]
                                            /\ file'.block[p] = file.block[p]
      BY <1>2, <1>8 DEF ZeroBitmap, ZeroExtent, File
    <2>3. DiskOf(file)' = DiskOf(file)
      BY <1>1, <1>3, <1>4, <2>1, <2>2, NewPageDisk
    <2> QED
      BY <1>3, <1>6, <1>7, <2>1, <2>3
  <1>9. CASE WriteBlock
    <2>1. /\ pc = "write_block" /\ pc' = "write_bitmap"
          /\ file' = [file EXCEPT !.block[page][extent_offset] = buf]
      BY <1>9 DEF WriteBlock, Step
    <2>2. /\ file'.timestamp = file.timestamp /\ file'.copy = file.copy
          /\ file'.catalog = file.catalog
          /\ file'.bitmap = file.bitmap
          /\ \A p \in Extents : p # page => file'.block[p] = file.block[p]
          /\ file'.block[page][extent_offset] = buf
          /\ \A b \in Blocks : b # extent_offset => file'.block[page][b] = file.block[page][b]
      BY <1>2, <2>1 DEF File
    <2>3. /\ Published = FALSE
          /\ Published' = (~update_catalog /\ extent_offset \in file.bitmap[page])
      BY <1>3, <2>1, <2>2 DEF Published
    <2>4. CASE update_catalog
      <3>1. DiskOf(file)' = DiskOf(file)
        BY <1>1, <1>3, <1>4, <2>2, <2>4, NewPageDisk
      <3> QED
        BY <1>3, <1>6, <1>7, <2>3, <2>4, <3>1
    <2>5. CASE ~update_catalog /\ extent_offset \in file.bitmap[page]
      BY <1>1, <1>2, <1>3, <1>4, <2>2, <2>3, <2>5, CommitDisk
    <2>6. CASE ~update_catalog /\ extent_offset \notin file.bitmap[page]
      <3>1. ASSUME NEW s \in Sectors, NEW t PROVE Held(file', t, s) = Held(file, t, s)
        <4>1. s \div ExtentBlocks \in Extents /\ s % ExtentBlocks \in Blocks
          BY Position, DiskEnd DEF Sectors
        <4>2. \A e \in Extents : file.catalog[e] # NotAllocated => file.catalog[e] \in Extents
          BY <1>2 DEF File
        <4> QED
          BY <4>1, <4>2, <2>2, <2>6 DEF Held
      <3>2. MadeFor(file)' = MadeFor(file)
        BY <1>3, <2>2 DEF MadeFor, fat_datetime
      <3>3. DiskOf(file)' = DiskOf(file)
        BY <2>2, <3>1, <3>2 DEF DiskOf
      <3> QED
        BY <1>3, <1>6, <1>7, <2>3, <2>6, <3>3
    <2> QED
      BY <2>4, <2>5, <2>6
  <1>10. CASE WriteBitmap
    <2>1. /\ pc = "write_bitmap"
          /\ pc' = (IF update_catalog THEN "write_catalog" ELSE "written")
          /\ update_catalog => file.bitmap[page] = {}
          /\ file.block[page][extent_offset] = buf
      BY <1>10 DEF WriteBitmap, Step, DiskAgrees
    <2>2. /\ Published = (~update_catalog /\ extent_offset \in file.bitmap[page])
          /\ Published' = ~update_catalog
      BY <2>1, <1>5 DEF Published
    <2>3. CASE extent_offset \in file.bitmap[page]
      <3>1. file' = file
        BY <1>2, <1>10, <2>3 DEF WriteBitmap
      <3>2. Published' = Published
        BY <2>1, <2>2, <2>3
      <3> QED
        BY <1>3, <1>6, <1>7, <3>1, <3>2, DiskKept
    <2>4. CASE extent_offset \notin file.bitmap[page]
      <3>1. file' = [file EXCEPT !.bitmap[page] = file.bitmap[page] \cup {extent_offset}]
        BY <1>2, <1>10, <2>4 DEF WriteBitmap
      <3>2. /\ file'.timestamp = file.timestamp /\ file'.copy = file.copy
            /\ file'.catalog = file.catalog
            /\ file'.block = file.block
            /\ \A p \in Extents : p # page => file'.bitmap[p] = file.bitmap[p]
            /\ file'.bitmap[page] = file.bitmap[page] \cup {extent_offset}
        BY <1>2, <3>1 DEF File
      <3>3. CASE update_catalog
        <4>1. DiskOf(file)' = DiskOf(file)
          BY <1>1, <1>3, <1>4, <3>2, <3>3, NewPageDisk
        <4> QED
          BY <1>3, <1>6, <1>7, <2>2, <3>3, <4>1
      <3>4. CASE ~update_catalog
        BY <1>1, <1>2, <1>3, <1>4, <2>1, <2>2, <2>4, <3>2, <3>4, CommitDisk
      <3> QED
        BY <3>3, <3>4
    <2> QED
      BY <2>3, <2>4
  <1>11. CASE WriteCatalog
    <2>1. /\ pc = "write_catalog" /\ pc' = "written"
          /\ file' = [file EXCEPT !.catalog[extent_index] = page]
          /\ update_catalog
          /\ file.bitmap[page] = {extent_offset}
          /\ file.block[page][extent_offset] = buf
      BY <1>11 DEF WriteCatalog, Step, DiskAgrees, LogInv, CatalogsAgree
    <2>2. /\ file'.timestamp = file.timestamp /\ file'.copy = file.copy
          /\ file'.bitmap = file.bitmap
          /\ file'.block = file.block
          /\ file'.catalog[extent_index] = page
          /\ \A e \in Extents : e # extent_index => file'.catalog[e] = file.catalog[e]
      BY <1>2, <2>1 DEF File
    <2>3. ~Published /\ Published'
      BY <2>1 DEF Published
    <2> QED
      BY <1>1, <1>2, <1>3, <1>4, <2>1, <2>2, <2>3, CommitDisk
  <1> QED
    BY <1>8, <1>9, <1>10, <1>11

\* Every step of the image is a step of the disk or changes none of it.
LEMMA StepDisk ==
  ASSUME LogInv, DiskAgrees, [Next]_vars
  PROVE  [Disk!Next]_(Disk!specVars)
  <1>1. CASE UNCHANGED vars
    <2>1. UNCHANGED <<file, mtime, latest, backup, pc, xfer, buf, update_catalog, out, catalog,
                      extent_index, extent_offset>>
      BY <1>1 DEF vars, memory, position
    <2>2. UNCHANGED PendingWrite
      BY <2>1 DEF PendingWrite, Published, page
    <2> QED
      BY <2>1, <2>2, DiskKept, SnapshotKept DEF Disk!specVars, Snapshot
  <1>2. CASE UNCHANGED <<DiskOf(file), PendingWrite, out, Snapshot, Copying, mtime>>
    BY <1>2 DEF Disk!specVars, Snapshot, Copying
  <1> QED
    BY <1>1, <1>2, OpenDisk, ModifyDisk, DropDisk, ReadDisk, CallDisk, FileWriteDisk, ReturnDisk, SaveDisk,
       RestoreDisk
    DEF Next, Disk!Next

\* The image of a drive that seeks for every sector, as the ATA drive does, is
\* a disk whose sector writes are atomic and durable, for logs of any size,
\* any contents, any number of saves, restores and modifications of the base
\* image, and a crash between any two writes of the file: redolog_t's order of
\* writes is enough.  A crash in a save or a restore loses the copy that was
\* being made and nothing else.
THEOREM Implements ==
  ASSUME MaxTransfer = 1
  PROVE  Spec => ImplementsDisk
  <1>1. Init => Disk!Init
    <2> SUFFICES ASSUME Init PROVE Disk!Init
      OBVIOUS
    <2>1. LogInv
      BY InitLog
    <2>2. file.copy = "whole" /\ file \in File /\ mtime \in Times
      BY <2>1 DEF Init, EmptyFile, LogInv, TypeOK
    <2>3. DiskOf(file) \in [Sectors -> Values]
      BY <2>1, <2>2, DiskOrLost
    <2> QED
      BY <2>2, <2>3 DEF Init, Disk!Init, Disk!Contents, PendingWrite
  <1>2. LogInv /\ DiskAgrees /\ [Next]_vars => DiskAgrees'
    BY NextDisk
  <1>3. LogInv /\ DiskAgrees /\ [Next]_vars => [Disk!Next]_(Disk!specVars)
    BY StepDisk
  <1> QED
    BY <1>1, <1>2, <1>3, InitDisk, Invariant, PTL DEF Spec, ImplementsDisk, Disk!Spec
=============================================================================
