------------------------ MODULE FramePipeline_proofs ------------------------
(***************************************************************************)
(* Proofs about the display path, for modes of any size, any boxes and     *)
(* colours and any texture limit.                                          *)
(*                                                                         *)
(* DirtyRectInv and TextureIsSnapshot hold because of what else does: the  *)
(* bridge's frame is valid from the first mode on and has the size of the  *)
(* framebuffer; a snapshot whose size is not the frame's meets a frame     *)
(* that is dirty, so that CopyFrameInto copies the whole of it; and there  *)
(* is a texture exactly beside a snapshot, made for the snapshot's size.   *)
(***************************************************************************)
EXTENDS FramePipeline, TLAPS

Rects == [x0 : Nat, y0 : Nat, x1 : Nat, y1 : Nat]

\* The GUI before its first mode, and in a mode; the bridge knows the mode.
GuiInv ==
    /\ indexed \in BOOLEAN /\ fbDirty \in BOOLEAN
    /\ palette \in [Indices -> Colors]
    /\ fbRect \in Rects
    /\ IF frame.valid
       THEN /\ fbSize \in Sizes
            /\ fb \in [Pixels(fbSize) -> Colors]
            /\ idx \in IF indexed THEN [Pixels(fbSize) -> Indices] ELSE {NoPixels}
       ELSE /\ fbSize = <<0, 0>>
            /\ fb = NoPixels /\ idx = NoPixels
            /\ ~indexed /\ ~fbDirty

BridgeInv ==
    /\ frame.valid \in BOOLEAN /\ frame.dirty \in BOOLEAN
    /\ frame.rect \in Rects
    /\ IF frame.valid
       THEN frame.size = fbSize /\ frame.pixels \in [Pixels(fbSize) -> Colors]
       ELSE frame = NoFrame

SnapshotInv ==
    /\ snap.valid \in BOOLEAN /\ snap.dirty \in BOOLEAN
    /\ snap.rect \in Rects
    /\ IF snap.valid
       THEN /\ frame.valid
            /\ snap.size \in Sizes
            /\ snap.pixels \in [Pixels(snap.size) -> Colors]
            /\ frame.dirty \/ snap.size = frame.size
       ELSE snap = NoSnapshot

\* The texture of a snapshot.
TextureOf(size, pixels) ==
    [source |-> size, size |-> UploadTextureSize(size),
     pixels |-> BuildScaledPixels(size, pixels)]

TextureInv ==
    texture = IF snap.valid THEN TextureOf(snap.size, snap.pixels) ELSE NoTexture

Inv ==
    /\ GuiInv /\ BridgeInv /\ SnapshotInv /\ TextureInv
    /\ ready \in BOOLEAN
    /\ DirtyRectCoversUnpublished
    /\ DirtyRectCoversUnshown

-----------------------------------------------------------------------------
(* Pixels and rectangles. *)

\* A mode's width and height, and the coordinates of its pixels.
LEMMA PixelCoordinates ==
    ASSUME NEW size \in Sizes
    PROVE  /\ size[1] \in Nat \ {0} /\ size[2] \in Nat \ {0}
           /\ size # <<0, 0>>
           /\ \A p \in Pixels(size) : /\ p[1] \in Nat /\ p[1] < size[1]
                                      /\ p[2] \in Nat /\ p[2] < size[2]
                                      /\ p = <<p[1], p[2]>>
<1>1. size \in (Nat \ {0}) \X (Nat \ {0})  BY FrameAssumption
<1> QED  BY <1>1 DEF Pixels

\* Every pixel lies in the rectangle of the whole frame.
LEMMA FullCovers ==
    ASSUME NEW size \in Sizes
    PROVE  /\ FullRect(size) \in Rects
           /\ \A p \in Pixels(size) : InRect(p, FullRect(size))
BY PixelCoordinates DEF FullRect, Rect, Rects, InRect

\* The hull of two rectangles covers both.
LEMMA HullCovers ==
    ASSUME NEW r \in Rects, NEW s \in Rects
    PROVE  /\ Hull(r, s) \in Rects
           /\ \A p : p[1] \in Nat /\ p[2] \in Nat /\ (InRect(p, r) \/ InRect(p, s))
                     => InRect(p, Hull(r, s))
BY DEF Hull, Rect, Rects, InRect, Least, Greatest

\* IncludeDirtyRect loses neither rectangle.
LEMMA IncludeCovers ==
    ASSUME NEW old \in Rects, NEW new \in Rects
    PROVE  /\ IncludeDirtyRect(old, new) \in Rects
           /\ \A p : p[1] \in Nat /\ p[2] \in Nat /\ (InRect(p, old) \/ InRect(p, new))
                     => InRect(p, IncludeDirtyRect(old, new))
<1>1. \A p : \A r \in Rects : p[1] \in Nat /\ p[2] \in Nat /\ InRect(p, r) => ~Empty(r)
  BY DEF InRect, Empty, Rects
<1> QED  BY <1>1, HullCovers DEF IncludeDirtyRect

\* The clipped box is a rectangle.
LEMMA ClipIsRect ==
    ASSUME NEW b \in Boxes, NEW size \in Sizes
    PROVE  Clip(b, size) \in Rects
<1>1. b \in [x : Nat, y : Nat, w : Nat, h : Nat]  BY FrameAssumption
<1> QED  BY <1>1, PixelCoordinates DEF Clip, Rect, Rects, Least

\* Overlaying takes every pixel from one of the two.
LEMMA OverlayType ==
    ASSUME NEW D, NEW C, NEW base \in [D -> C], NEW top \in [D -> C], NEW r
    PROVE  /\ Overlay(base, top, r) \in [D -> C]
           /\ \A p \in D : Overlay(base, top, r)[p] = IF InRect(p, r) THEN top[p] ELSE base[p]
BY DEF Overlay

\* A frame of one colour.
LEMMA PlainType ==
    ASSUME NEW size, NEW C, NEW v \in C
    PROVE  Plain(size, v) \in [Pixels(size) -> C]
BY DEF Plain

-----------------------------------------------------------------------------
(* The texture. *)

\* Multiplying and dividing by the same number.
LEMMA TimesOver ==
    ASSUME NEW a \in Nat, NEW b \in Nat \ {0}
    PROVE  (a * b) \div b = a
OBVIOUS

\* A frame within the limit is shown as it is.
LEMMA Unscaled ==
    ASSUME NEW size \in Sizes, NEW pixels \in [Pixels(size) -> Colors], ~UsesScaledUpload(size)
    PROVE  /\ UploadTextureSize(size) = size
           /\ BuildScaledPixels(size, pixels) = pixels
<1>1. UploadTextureSize(size) = size  BY DEF UsesScaledUpload
<1>2. \A p \in Pixels(size) :
         pixels[<<(p[1] * size[1]) \div size[1], (p[2] * size[2]) \div size[2]>>] = pixels[p]
  <2> SUFFICES ASSUME NEW p \in Pixels(size)
               PROVE  pixels[<<(p[1] * size[1]) \div size[1],
                               (p[2] * size[2]) \div size[2]>>] = pixels[p]
    OBVIOUS
  <2>1. (p[1] * size[1]) \div size[1] = p[1] /\ (p[2] * size[2]) \div size[2] = p[2]
    BY PixelCoordinates, TimesOver
  <2>2. p = <<p[1], p[2]>>  BY PixelCoordinates
  <2> QED  BY <2>1, <2>2
<1>3. BuildScaledPixels(size, pixels) = [p \in Pixels(size) |-> pixels[p]]
  BY <1>1, <1>2 DEF BuildScaledPixels
<1> QED  BY <1>1, <1>3

-----------------------------------------------------------------------------
(* The emulator thread. *)

\* Marking a rectangle dirty keeps what was marked before.
LEMMA MarkCovers ==
    ASSUME NEW r \in Rects, fbRect \in Rects, fbDirty \in BOOLEAN, mark_dirty_rect(r)
    PROVE  /\ fbDirty' = TRUE /\ fbRect' \in Rects
           /\ \A p : p[1] \in Nat /\ p[2] \in Nat
                     /\ (InRect(p, r) \/ (fbDirty /\ InRect(p, fbRect)))
                     => InRect(p, fbRect')
<1>1. CASE fbDirty
  <2>1. fbDirty' = TRUE /\ fbRect' = Hull(fbRect, r)  BY <1>1 DEF mark_dirty_rect
  <2> QED  BY <2>1, HullCovers
<1>2. CASE ~fbDirty
  <2>1. fbDirty' = TRUE /\ fbRect' = r  BY <1>2 DEF mark_dirty_rect
  <2> QED  BY <2>1, <1>2
<1> QED  BY <1>1, <1>2

\* A callback that draws within a rectangle and marks it.
LEMMA Redrawn ==
    ASSUME Inv, frame.valid, UNCHANGED <<fbSize, indexed, frame, rendererVars>>,
           NEW r \in Rects, mark_dirty_rect(r),
           fb' \in [Pixels(fbSize) -> Colors],
           \A p \in Pixels(fbSize) : ~InRect(p, r) => fb'[p] = fb[p],
           idx' \in IF indexed THEN [Pixels(fbSize) -> Indices] ELSE {NoPixels},
           palette' \in [Indices -> Colors]
    PROVE  Inv'
<1>0. fbRect \in Rects /\ fbDirty \in BOOLEAN /\ fbSize \in Sizes /\ indexed \in BOOLEAN
  BY DEF Inv, GuiInv
<1>1. /\ fbDirty' = TRUE /\ fbRect' \in Rects
      /\ \A p : p[1] \in Nat /\ p[2] \in Nat
                /\ (InRect(p, r) \/ (fbDirty /\ InRect(p, fbRect)))
                => InRect(p, fbRect')
  BY <1>0, MarkCovers
<1>2. GuiInv'  BY <1>0, <1>1 DEF GuiInv
<1>3. BridgeInv' /\ SnapshotInv' /\ TextureInv' /\ ready' \in BOOLEAN
  BY DEF Inv, BridgeInv, SnapshotInv, TextureInv, rendererVars
<1>4. DirtyRectCoversUnshown'  BY DEF Inv, DirtyRectCoversUnshown, rendererVars
<1>5. DirtyRectCoversUnpublished'
  <2>1. frame'.size = fbSize'  BY DEF Inv, DirtyRectCoversUnpublished
  <2>2. ASSUME NEW p \in Pixels(fbSize), fb'[p] # frame.pixels[p]
        PROVE  fbDirty' /\ InRect(p, fbRect')
    <3>1. CASE InRect(p, r)  BY <3>1, <1>0, <1>1, PixelCoordinates
    <3>2. CASE ~InRect(p, r)
      <4>1. fb[p] # frame.pixels[p]  BY <3>2, <2>2
      <4>2. fbDirty /\ InRect(p, fbRect)  BY <4>1 DEF Inv, DirtyRectCoversUnpublished
      <4> QED  BY <4>2, <1>0, <1>1, PixelCoordinates
    <3> QED  BY <3>1, <3>2
  <2> QED  BY <2>1, <2>2 DEF DirtyRectCoversUnpublished
<1> QED  BY <1>2, <1>3, <1>4, <1>5 DEF Inv

\* Nothing can be drawn before the first mode.
LEMMA DrawableInMode ==
    ASSUME Inv, NEW b \in Boxes, Drawable(b)
    PROVE  frame.valid
<1>1. b \in [x : Nat, y : Nat, w : Nat, h : Nat]  BY FrameAssumption
<1> QED  BY <1>1 DEF Drawable, Inv, GuiInv

\* A drawing callback of a direct mode.
LEMMA DrawDirect ==
    ASSUME Inv, NEW b \in Boxes, NEW c \in Colors, draw_direct(b, c)
    PROVE  Inv'
<1>1. frame.valid  BY DrawableInMode DEF draw_direct
<1>2. /\ fbSize \in Sizes /\ fb \in [Pixels(fbSize) -> Colors]
      /\ idx \in IF indexed THEN [Pixels(fbSize) -> Indices] ELSE {NoPixels}
      /\ palette \in [Indices -> Colors]
  BY <1>1 DEF Inv, GuiInv
<1> DEFINE r == Clip(b, fbSize)
<1>3. r \in Rects  BY <1>2, ClipIsRect
<1> HIDE DEF r
<1>4. Plain(fbSize, c) \in [Pixels(fbSize) -> Colors]  BY PlainType
<1> DEFINE top == Plain(fbSize, c)
           D   == Pixels(fbSize)
           new == Overlay(fb, top, r)
<1>o. /\ new \in [D -> Colors]
      /\ \A p \in D : new[p] = IF InRect(p, r) THEN top[p] ELSE fb[p]
  <2>1. fb \in [D -> Colors] /\ top \in [D -> Colors]  BY <1>2, <1>4
  <2> HIDE DEF top, D
  <2> QED  BY <2>1, OverlayType
<1>5. /\ fb' = new /\ mark_dirty_rect(r)
      /\ UNCHANGED <<fbSize, indexed, idx, palette, frame, rendererVars>>
  BY DEF draw_direct, r
<1>6. /\ fb' \in [Pixels(fbSize) -> Colors]
      /\ \A p \in Pixels(fbSize) : ~InRect(p, r) => fb'[p] = fb[p]
  <2> HIDE DEF new
  <2> QED  BY <1>o, <1>5
<1> QED  BY <1>1, <1>2, <1>3, <1>5, <1>6, Redrawn

\* A drawing callback of an indexed mode.
LEMMA DrawIndexed ==
    ASSUME Inv, NEW b \in Boxes, NEW i \in Indices, draw_indexed(b, i)
    PROVE  Inv'
<1>1. frame.valid  BY DrawableInMode DEF draw_indexed
<1>2. /\ fbSize \in Sizes /\ fb \in [Pixels(fbSize) -> Colors]
      /\ idx \in [Pixels(fbSize) -> Indices]
      /\ palette \in [Indices -> Colors] /\ palette[i] \in Colors
  BY <1>1 DEF Inv, GuiInv, draw_indexed
<1> DEFINE r == Clip(b, fbSize)
<1>3. r \in Rects  BY <1>2, ClipIsRect
<1> HIDE DEF r
<1>4. /\ Plain(fbSize, palette[i]) \in [Pixels(fbSize) -> Colors]
      /\ Plain(fbSize, i) \in [Pixels(fbSize) -> Indices]
  BY <1>2, PlainType
<1> DEFINE top == Plain(fbSize, palette[i])
           D   == Pixels(fbSize)
           new == Overlay(fb, top, r)
<1>o. /\ new \in [D -> Colors]
      /\ \A p \in D : new[p] = IF InRect(p, r) THEN top[p] ELSE fb[p]
  <2>1. fb \in [D -> Colors] /\ top \in [D -> Colors]  BY <1>2, <1>4
  <2> HIDE DEF top, D
  <2> QED  BY <2>1, OverlayType
<1>5. /\ fb' = new /\ mark_dirty_rect(r)
      /\ idx' = Overlay(idx, Plain(fbSize, i), r) /\ indexed
      /\ UNCHANGED <<fbSize, indexed, palette, frame, rendererVars>>
  BY DEF draw_indexed, r
<1>6. /\ fb' \in [Pixels(fbSize) -> Colors]
      /\ \A p \in Pixels(fbSize) : ~InRect(p, r) => fb'[p] = fb[p]
  <2> HIDE DEF new
  <2> QED  BY <1>o, <1>5
<1>7. idx' \in [Pixels(fbSize) -> Indices]  BY <1>2, <1>4, <1>5, OverlayType, Zenon
<1>8. idx' \in IF indexed THEN [Pixels(fbSize) -> Indices] ELSE {NoPixels}
  BY <1>5, <1>7
<1> QED  BY <1>1, <1>2, <1>3, <1>5, <1>6, <1>8, Redrawn

\* A palette change recolours the whole framebuffer of an indexed mode.
LEMMA PaletteChange ==
    ASSUME Inv, NEW i \in Indices, NEW c \in Colors, palette_change(i, c)
    PROVE  Inv'
<1>0. palette \in [Indices -> Colors]  BY DEF Inv, GuiInv
<1>1. palette' \in [Indices -> Colors]  BY <1>0 DEF palette_change
<1>2. UNCHANGED <<fbSize, indexed, idx, frame, rendererVars>>  BY DEF palette_change
<1>3. CASE indexed
  <2>1. /\ frame.valid /\ fbSize \in Sizes /\ fb \in [Pixels(fbSize) -> Colors]
        /\ idx \in [Pixels(fbSize) -> Indices]
    BY <1>3 DEF Inv, GuiInv
  <2> DEFINE r == FullRect(fbSize)
  <2>2. r \in Rects /\ \A p \in Pixels(fbSize) : InRect(p, r)  BY <2>1, FullCovers
  <2> HIDE DEF r
  <2>3. fb' = [p \in Pixels(fbSize) |-> palette'[idx[p]]] /\ mark_dirty_rect(r)
    BY <1>3 DEF palette_change, r
  <2>4. fb' \in [Pixels(fbSize) -> Colors]
    <3> DEFINE new == palette'
    <3>1. new \in [Indices -> Colors]  BY <1>1
    <3> HIDE DEF new
    <3>2. [p \in Pixels(fbSize) |-> new[idx[p]]] \in [Pixels(fbSize) -> Colors]
      BY <3>1, <2>1
    <3> QED  BY <3>2, <2>3 DEF new
  <2>5. idx' \in IF indexed THEN [Pixels(fbSize) -> Indices] ELSE {NoPixels}
    BY <1>2, <1>3, <2>1
  <2> QED  BY <1>1, <1>2, <2>1, <2>2, <2>3, <2>4, <2>5, Redrawn
<1>4. CASE ~indexed
  <2>1. UNCHANGED <<fb, fbDirty, fbRect>>  BY <1>4 DEF palette_change
  <2>2. GuiInv'  BY <1>1, <1>2, <2>1 DEF Inv, GuiInv
  <2> QED  BY <1>2, <2>1, <2>2 DEF Inv, BridgeInv, SnapshotInv, TextureInv, rendererVars,
                DirtyRectCoversUnpublished, DirtyRectCoversUnshown
<1> QED  BY <1>3, <1>4

\* The bridge's frame is new, or cleared, and marked as a whole.
LEMMA WholeFrame ==
    ASSUME Inv, NEW size \in Sizes, fbSize' = size,
           mark_dirty_rect(FullRect(size)),
           fb' = Plain(size, Black),
           frame' = [size |-> size, pixels |-> Plain(size, Black), valid |-> TRUE,
                     dirty |-> TRUE, rect |-> FullRect(size)],
           indexed' \in BOOLEAN,
           idx' \in IF indexed' THEN [Pixels(size) -> Indices] ELSE {NoPixels},
           UNCHANGED <<palette, rendererVars>>
    PROVE  Inv'
<1>0. fbRect \in Rects /\ fbDirty \in BOOLEAN /\ palette \in [Indices -> Colors]
  BY DEF Inv, GuiInv
<1>1. /\ FullRect(size) \in Rects
      /\ \A p \in Pixels(size) : InRect(p, FullRect(size))
  BY FullCovers
<1>2. fbDirty' = TRUE /\ fbRect' \in Rects  BY <1>0, <1>1, MarkCovers
<1>3. Plain(size, Black) \in [Pixels(size) -> Colors]
  BY PlainType, FrameAssumption
<1>4. /\ frame'.valid = TRUE /\ frame'.dirty = TRUE /\ frame'.rect = FullRect(size)
      /\ frame'.size = size /\ frame'.pixels = Plain(size, Black)
  OBVIOUS
<1>5. GuiInv'
  <2>1. indexed' \in BOOLEAN /\ fbDirty' \in BOOLEAN /\ palette' \in [Indices -> Colors]
    BY <1>0, <1>2
  <2>2. fb' \in [Pixels(fbSize') -> Colors] /\ fbSize' \in Sizes  BY <1>3
  <2> QED  BY <2>1, <2>2, <1>2, <1>4 DEF GuiInv
<1>6. BridgeInv'  BY <1>1, <1>3, <1>4 DEF BridgeInv
<1>7. SnapshotInv' /\ TextureInv' /\ ready' \in BOOLEAN
  BY <1>4 DEF Inv, SnapshotInv, TextureInv, rendererVars
<1>8. DirtyRectCoversUnpublished'  BY <1>4 DEF DirtyRectCoversUnpublished
<1>9. DirtyRectCoversUnshown'  BY <1>1, <1>4 DEF DirtyRectCoversUnshown
<1> QED  BY <1>5, <1>6, <1>7, <1>8, <1>9 DEF Inv

\* A mode change.
LEMMA DimensionUpdate ==
    ASSUME Inv, NEW size \in Sizes, NEW kind \in ModeKinds, dimension_update(size, kind)
    PROVE  Inv'
<1>1. kind \in BOOLEAN /\ 0 \in Indices  BY FrameAssumption
<1>2. Plain(size, 0) \in [Pixels(size) -> Indices]  BY <1>1, PlainType
<1>3. /\ fbSize' = size /\ fb' = Plain(size, Black) /\ indexed' = kind
      /\ idx' = IF kind THEN Plain(size, 0) ELSE NoPixels
      /\ mark_dirty_rect(FullRect(size))
      /\ frame' = [size |-> size, pixels |-> Plain(size, Black), valid |-> TRUE,
                   dirty |-> TRUE, rect |-> FullRect(size)]
      /\ UNCHANGED <<palette, rendererVars>>
  BY DEF dimension_update, HostConfigure
<1>4. idx' \in IF indexed' THEN [Pixels(size) -> Indices] ELSE {NoPixels}
  BY <1>1, <1>2, <1>3
<1> QED  BY <1>1, <1>3, <1>4, WholeFrame

\* clear_screen, in a mode; before the first mode there is no framebuffer.
LEMMA ClearedFrame ==
    ASSUME Inv, clear_screen
    PROVE  /\ frame.valid /\ fbSize \in Sizes
           /\ frame' = [size |-> fbSize, pixels |-> Plain(fbSize, Black), valid |-> TRUE,
                        dirty |-> TRUE, rect |-> FullRect(fbSize)]
BY DEF clear_screen, HostClear, Inv, GuiInv, BridgeInv

\* clear_screen keeps the indices and marks everything.
LEMMA ClearScreen ==
    ASSUME Inv, clear_screen
    PROVE  Inv'
<1>1. /\ frame.valid /\ fbSize \in Sizes
      /\ frame' = [size |-> fbSize, pixels |-> Plain(fbSize, Black), valid |-> TRUE,
                   dirty |-> TRUE, rect |-> FullRect(fbSize)]
  BY ClearedFrame
<1>2. /\ fb' = Plain(fbSize, Black) /\ mark_dirty_rect(FullRect(fbSize))
      /\ UNCHANGED <<fbSize, indexed, idx, palette, rendererVars>>
  BY DEF clear_screen
<1>3. /\ indexed \in BOOLEAN
      /\ idx \in IF indexed THEN [Pixels(fbSize) -> Indices] ELSE {NoPixels}
  BY <1>1 DEF Inv, GuiInv
<1>4. idx' \in IF indexed' THEN [Pixels(fbSize) -> Indices] ELSE {NoPixels}
  BY <1>2, <1>3
<1> QED  BY <1>1, <1>2, <1>3, <1>4, WholeFrame

\* What flush makes of the bridge's frame: the drawing, and a rectangle that
\* covers the old one and what was drawn.
LEMMA Flushed ==
    ASSUME Inv, flush
    PROVE  /\ frame.valid /\ frame'.valid = TRUE
           /\ frame'.size = fbSize /\ frame'.pixels = fb
           /\ frame'.rect \in Rects /\ frame'.dirty \in BOOLEAN
           /\ frame.dirty => frame'.dirty
           /\ \A p \in Pixels(fbSize) :
                 \/ InRect(p, frame.rect)
                 \/ fb[p] # frame.pixels[p]
                 => InRect(p, frame'.rect)
           /\ \A p \in Pixels(fbSize) : fb[p] # frame.pixels[p] => frame'.dirty
<1>0. /\ frame.valid /\ frame.size = fbSize /\ fbSize \in Sizes
      /\ fbRect \in Rects /\ frame.rect \in Rects /\ frame.dirty \in BOOLEAN
      /\ fb \in [Pixels(fbSize) -> Colors] /\ frame.pixels \in [Pixels(fbSize) -> Colors]
      /\ \A p \in Pixels(fbSize) : fb[p] # frame.pixels[p] => InRect(p, fbRect)
  BY DEF Inv, GuiInv, BridgeInv, DirtyRectCoversUnpublished, flush
<1>1. /\ fbSize[1] \in Nat \ {0} /\ fbSize[2] \in Nat \ {0}
      /\ \A p \in Pixels(fbSize) : /\ p[1] \in Nat /\ p[1] < fbSize[1]
                                   /\ p[2] \in Nat /\ p[2] < fbSize[2]
  BY <1>0, PixelCoordinates
<1>2. CASE fbRect.x0 >= fbSize[1] \/ fbRect.y0 >= fbSize[2]
  <2>1. frame' = frame  BY <1>0, <1>2 DEF flush, HostUpdateRect
  <2>2. \A p \in Pixels(fbSize) : fb[p] = frame.pixels[p]
    <3> SUFFICES ASSUME NEW p \in Pixels(fbSize), fb[p] # frame.pixels[p] PROVE FALSE
      OBVIOUS
    <3>1. InRect(p, fbRect)  BY <1>0
    <3> QED  BY <3>1, <1>0, <1>1, <1>2 DEF InRect, Rects
  <2>3. fb = frame.pixels  BY <2>2, <1>0
  <2> QED  BY <2>1, <2>2, <2>3, <1>0
<1>3. CASE ~(fbRect.x0 >= fbSize[1] \/ fbRect.y0 >= fbSize[2])
  <2> DEFINE clipped == Rect(fbRect.x0, fbRect.y0, Least(fbRect.x1, fbSize[1]),
                                                   Least(fbRect.y1, fbSize[2]))
             over    == Overlay(frame.pixels, fb, clipped)
             rect    == IncludeDirtyRect(frame.rect, clipped)
  <2>1. frame' = [size |-> fbSize, pixels |-> over, valid |-> TRUE, dirty |-> TRUE, rect |-> rect]
    BY <1>0, <1>3 DEF flush, HostUpdateRect
  <2>2. clipped \in Rects  BY <1>0, <1>1 DEF Rect, Rects, Least
  <2>3. ASSUME NEW p \in Pixels(fbSize), fb[p] # frame.pixels[p]
        PROVE  InRect(p, clipped)
    <3>1. InRect(p, fbRect)  BY <1>0, <2>3
    <3> QED  BY <3>1, <1>0, <1>1 DEF InRect, Rect, Rects, Least
  <2> HIDE DEF clipped
  <2>4. over = fb
    <3> DEFINE D    == Pixels(fbSize)
               base == frame.pixels
    <3>1. base \in [D -> Colors] /\ fb \in [D -> Colors]  BY <1>0
    <3>2. \A p \in D : base[p] # fb[p] => InRect(p, clipped)  BY <2>3
    <3> HIDE DEF D, base
    <3>3. Overlay(base, fb, clipped) = fb  BY <3>1, <3>2 DEF Overlay
    <3> QED  BY <3>3 DEF base
  <2>5. /\ rect \in Rects
        /\ \A p \in Pixels(fbSize) :
              InRect(p, frame.rect) \/ InRect(p, clipped) => InRect(p, rect)
    BY <1>0, <1>1, <2>2, IncludeCovers
  <2> HIDE DEF over, rect
  <2>6. /\ frame'.valid = TRUE /\ frame'.dirty = TRUE /\ frame'.rect = rect
        /\ frame'.size = fbSize /\ frame'.pixels = over
    BY <2>1
  <2> QED  BY <1>0, <2>3, <2>4, <2>5, <2>6
<1> QED  BY <1>2, <1>3

\* flush.
LEMMA Flush ==
    ASSUME Inv, flush
    PROVE  Inv'
<1>1. /\ frame.valid /\ frame'.valid = TRUE
      /\ frame'.size = fbSize /\ frame'.pixels = fb
      /\ frame'.rect \in Rects /\ frame'.dirty \in BOOLEAN
      /\ frame.dirty => frame'.dirty
      /\ \A p \in Pixels(fbSize) :
            \/ InRect(p, frame.rect)
            \/ fb[p] # frame.pixels[p]
            => InRect(p, frame'.rect)
      /\ \A p \in Pixels(fbSize) : fb[p] # frame.pixels[p] => frame'.dirty
  BY Flushed
<1>2. /\ fbDirty' = FALSE
      /\ UNCHANGED <<fbSize, fb, indexed, idx, palette, fbRect, rendererVars>>
  BY DEF flush
<1>3. /\ fbSize \in Sizes /\ fb \in [Pixels(fbSize) -> Colors]
      /\ frame.size = fbSize
  BY <1>1 DEF Inv, GuiInv, BridgeInv
<1>4. GuiInv'  BY <1>1, <1>2 DEF Inv, GuiInv
<1>5. BridgeInv'  BY <1>1, <1>2, <1>3 DEF BridgeInv
<1>6. SnapshotInv' /\ TextureInv' /\ ready' \in BOOLEAN
  BY <1>1, <1>2, <1>3 DEF Inv, SnapshotInv, TextureInv, rendererVars
<1>7. DirtyRectCoversUnpublished'  BY <1>1, <1>2 DEF DirtyRectCoversUnpublished
<1>8. DirtyRectCoversUnshown'
  <2> SUFFICES ASSUME snap.valid, snap.size = fbSize, NEW p \in Pixels(fbSize),
                      snap.pixels[p] # fb[p]
               PROVE  frame'.dirty /\ InRect(p, frame'.rect)
    BY <1>1, <1>2 DEF DirtyRectCoversUnshown, rendererVars
  <2>1. CASE fb[p] # frame.pixels[p]  BY <2>1, <1>1
  <2>2. CASE fb[p] = frame.pixels[p]
    <3>1. frame.dirty /\ InRect(p, frame.rect)
      BY <2>2, <1>3 DEF Inv, DirtyRectCoversUnshown
    <3> QED  BY <3>1, <1>1
  <2> QED  BY <2>1, <2>2
<1> QED  BY <1>4, <1>5, <1>6, <1>7, <1>8 DEF Inv

-----------------------------------------------------------------------------
(* The render thread. *)

\* There is a texture exactly beside a snapshot.
LEMMA TextureBesideSnapshot ==
    ASSUME Inv
    PROVE  texture = NoTexture <=> ~snap.valid
<1>1. CASE snap.valid
  <2>1. texture = TextureOf(snap.size, snap.pixels) /\ snap.size \in Sizes
    BY <1>1 DEF Inv, TextureInv, SnapshotInv
  <2>2. texture.source = snap.size  BY <2>1 DEF TextureOf
  <2>3. NoTexture.source = <<0, 0>>  BY DEF NoTexture
  <2>4. snap.size # <<0, 0>>  BY <2>1, PixelCoordinates
  <2> QED  BY <1>1, <2>2, <2>3, <2>4
<1>2. CASE ~snap.valid  BY <1>2 DEF Inv, TextureInv
<1> QED  BY <1>1, <1>2

\* CopyFrameInto of a valid frame: the snapshot is the whole frame, however
\* much of it was copied.  Where nothing is to be uploaded the old snapshot
\* was the frame; where a rectangle is, the old one differed only in it.
LEMMA CopiedWhole ==
    ASSUME Inv, frame.valid,
           NEW s, s = CopyFrameInto(frame, snap, texture = NoTexture)
    PROVE  /\ s.size = frame.size /\ s.valid = TRUE
           /\ s.dirty \in BOOLEAN /\ s.rect \in Rects
           /\ s.pixels = frame.pixels
           /\ ~s.dirty => snap.valid /\ snap.size = frame.size /\ snap.pixels = frame.pixels
           /\ s.dirty => \/ s.rect = FullRect(frame.size)
                        \/ /\ snap.valid /\ snap.size = frame.size
                           /\ \A p \in Pixels(frame.size) :
                                 ~InRect(p, s.rect) => snap.pixels[p] = frame.pixels[p]
<1> DEFINE force   == texture = NoTexture
           include == frame.valid /\ (frame.dirty \/ force)
           whole   == \/ force /\ ~frame.dirty
                      \/ snap.size # frame.size
                      \/ Empty(frame.rect)
                      \/ DOMAIN snap.pixels # Pixels(frame.size)
           rect    == IF whole THEN FullRect(frame.size) ELSE frame.rect
<1>0. /\ frame.size \in Sizes /\ frame.pixels \in [Pixels(frame.size) -> Colors]
      /\ frame.dirty \in BOOLEAN /\ frame.rect \in Rects
      /\ snap.valid \in BOOLEAN /\ snap.rect \in Rects
      /\ snap.valid => /\ snap.size \in Sizes /\ snap.pixels \in [Pixels(snap.size) -> Colors]
                       /\ frame.dirty \/ snap.size = frame.size
      /\ ~snap.valid => snap = NoSnapshot
  BY DEF Inv, GuiInv, BridgeInv, SnapshotInv
<1>1. force <=> ~snap.valid  BY TextureBesideSnapshot
<1>2. /\ s.size = frame.size /\ s.valid = TRUE /\ s.dirty = include
      /\ s.rect = IF include THEN rect ELSE snap.rect
      /\ s.pixels = IF ~include THEN snap.pixels
                    ELSE IF whole THEN frame.pixels
                    ELSE Overlay(snap.pixels, frame.pixels, rect)
  BY DEF CopyFrameInto
<1>3. FullRect(frame.size) \in Rects  BY <1>0, FullCovers
<1>4. snap.valid /\ snap.size = frame.size =>
         \A p \in Pixels(frame.size) :
             snap.pixels[p] # frame.pixels[p] => frame.dirty /\ InRect(p, frame.rect)
  BY DEF Inv, DirtyRectCoversUnshown
<1>5. CASE ~include
  <2>1. ~frame.dirty /\ snap.valid  BY <1>5, <1>1
  <2>2. snap.size = frame.size  BY <2>1, <1>0
  <2>3. snap.pixels \in [Pixels(frame.size) -> Colors]  BY <2>1, <2>2, <1>0
  <2>4. \A p \in Pixels(frame.size) : snap.pixels[p] = frame.pixels[p]
    BY <2>1, <2>2, <1>4
  <2>5. snap.pixels = frame.pixels  BY <2>3, <2>4, <1>0
  <2>6. s.dirty = FALSE /\ s.rect = snap.rect /\ s.pixels = snap.pixels
    BY <1>2, <1>5
  <2> QED  BY <2>1, <2>2, <2>5, <2>6, <1>0, <1>2
<1>6. CASE include /\ whole
  <2>1. s.dirty = TRUE /\ s.rect = FullRect(frame.size) /\ s.pixels = frame.pixels
    BY <1>2, <1>6
  <2> QED  BY <2>1, <1>2, <1>3
<1>7. CASE include /\ ~whole
  <2>1. /\ s.dirty = TRUE /\ s.rect = frame.rect
        /\ s.pixels = Overlay(snap.pixels, frame.pixels, frame.rect)
    BY <1>2, <1>7
  <2>2. snap.size = frame.size  BY <1>7
  <2>3. snap.valid
    <3>1. NoSnapshot.size = <<0, 0>>  BY DEF NoSnapshot
    <3>2. frame.size # <<0, 0>>  BY <1>0, PixelCoordinates
    <3> QED  BY <3>1, <3>2, <2>2, <1>0
  <2>4. snap.pixels \in [Pixels(frame.size) -> Colors]  BY <2>2, <2>3, <1>0
  <2>5. \A p \in Pixels(frame.size) :
           snap.pixels[p] # frame.pixels[p] => InRect(p, frame.rect)
    BY <2>2, <2>3, <1>4
  <2>6. Overlay(snap.pixels, frame.pixels, frame.rect) = frame.pixels
    BY <2>4, <2>5, <1>0 DEF Overlay
  <2> QED  BY <2>1, <2>2, <2>3, <2>5, <2>6, <1>0, <1>2
<1> QED  BY <1>5, <1>6, <1>7

\* The texture after a valid frame was copied is the texture of that frame,
\* although only a rectangle of it may have been uploaded.
LEMMA UploadedWhole ==
    ASSUME Inv, frame.valid,
           NEW s, s = CopyFrameInto(frame, snap, texture = NoTexture),
           NEW t, t = EnsureFrameTexture(texture, s.size)
    PROVE  (IF s.dirty THEN UploadFrameTexture(t, s) ELSE t)
              = TextureOf(frame.size, frame.pixels)
<1>0. /\ s.size = frame.size /\ s.dirty \in BOOLEAN /\ s.rect \in Rects
      /\ s.pixels = frame.pixels
      /\ ~s.dirty => snap.valid /\ snap.size = frame.size /\ snap.pixels = frame.pixels
      /\ s.dirty => \/ s.rect = FullRect(frame.size)
                   \/ /\ snap.valid /\ snap.size = frame.size
                      /\ \A p \in Pixels(frame.size) :
                            ~InRect(p, s.rect) => snap.pixels[p] = frame.pixels[p]
  BY CopiedWhole
<1>1. frame.size \in Sizes /\ frame.pixels \in [Pixels(frame.size) -> Colors]
  BY DEF Inv, GuiInv, BridgeInv
<1>2. ASSUME snap.valid, snap.size = frame.size
      PROVE  t = TextureOf(frame.size, snap.pixels)
  <2>1. texture = TextureOf(frame.size, snap.pixels)  BY <1>2 DEF Inv, TextureInv
  <2> QED  BY <2>1, <1>0 DEF EnsureFrameTexture, TextureOf
<1>3. /\ t.source = frame.size /\ t.size = UploadTextureSize(frame.size)
      /\ \A P : [t EXCEPT !.pixels = P] = [source |-> frame.size,
                                          size |-> UploadTextureSize(frame.size),
                                          pixels |-> P]
  <2>1. CASE texture.source = frame.size /\ texture.size = UploadTextureSize(frame.size)
    <3>1. t = texture  BY <2>1, <1>0 DEF EnsureFrameTexture
    <3>2. snap.valid
      <4>1. NoTexture.source = <<0, 0>>  BY DEF NoTexture
      <4>2. texture # NoTexture  BY <4>1, <2>1, <1>1, PixelCoordinates
      <4> QED  BY <4>2, TextureBesideSnapshot DEF Inv, SnapshotInv
    <3>3. texture = TextureOf(snap.size, snap.pixels)  BY <3>2 DEF Inv, TextureInv
    <3> QED  BY <3>1, <3>3, <2>1 DEF TextureOf
  <2>2. CASE ~(texture.source = frame.size /\ texture.size = UploadTextureSize(frame.size))
    BY <2>2, <1>0 DEF EnsureFrameTexture
  <2> QED  BY <2>1, <2>2
<1>4. CASE ~s.dirty  BY <1>4, <1>0, <1>2
<1>5. CASE s.dirty
  <2> DEFINE new == IF UsesScaledUpload(s.size) THEN BuildScaledPixels(s.size, s.pixels)
                    ELSE IF Empty(s.rect) THEN s.pixels
                    ELSE Overlay(t.pixels, s.pixels, s.rect)
  <2>1. UploadFrameTexture(t, s) = [source |-> frame.size,
                                    size |-> UploadTextureSize(frame.size),
                                    pixels |-> new]
    BY <1>3 DEF UploadFrameTexture
  <2>2. new = BuildScaledPixels(frame.size, frame.pixels)
    <3>1. CASE UsesScaledUpload(frame.size)  BY <3>1, <1>0
    <3>2. CASE ~UsesScaledUpload(frame.size)
      <4>1. /\ UploadTextureSize(frame.size) = frame.size
            /\ BuildScaledPixels(frame.size, frame.pixels) = frame.pixels
        BY <3>2, <1>1, Unscaled
      <4>2. CASE Empty(s.rect)  BY <4>1, <4>2, <3>2, <1>0
      <4>3. CASE ~Empty(s.rect)
        <5>1. new = Overlay(t.pixels, frame.pixels, s.rect)  BY <4>3, <3>2, <1>0
        <5>2. /\ DOMAIN t.pixels = Pixels(frame.size)
              /\ \A p \in Pixels(frame.size) :
                    ~InRect(p, s.rect) => t.pixels[p] = frame.pixels[p]
          <6>1. CASE s.rect = FullRect(frame.size)
            <7>1. \A p \in Pixels(frame.size) : InRect(p, s.rect)
              BY <6>1, <1>1, FullCovers
            <7>2. DOMAIN t.pixels = Pixels(frame.size)
              <8>1. CASE texture.source = frame.size
                         /\ texture.size = UploadTextureSize(frame.size)
                <9>1. t = texture /\ texture # NoTexture
                  <10>1. NoTexture.source = <<0, 0>>  BY DEF NoTexture
                  <10>2. texture # NoTexture  BY <10>1, <8>1, <1>1, PixelCoordinates
                  <10> QED  BY <10>2, <8>1, <1>0 DEF EnsureFrameTexture
                <9>2. snap.valid  BY <9>1, TextureBesideSnapshot DEF Inv, SnapshotInv
                <9>3. texture = TextureOf(snap.size, snap.pixels)
                  BY <9>2 DEF Inv, TextureInv
                <9>4. snap.size = frame.size  BY <9>3, <8>1 DEF TextureOf
                <9>5. t.pixels = BuildScaledPixels(frame.size, snap.pixels)
                  BY <9>1, <9>3, <9>4 DEF TextureOf
                <9> QED  BY <9>5, <4>1 DEF BuildScaledPixels
              <8>2. CASE ~(texture.source = frame.size
                           /\ texture.size = UploadTextureSize(frame.size))
                <9>1. t.pixels = Plain(frame.size, Black)
                  BY <8>2, <1>0, <4>1 DEF EnsureFrameTexture
                <9> QED  BY <9>1 DEF Plain
              <8> QED  BY <8>1, <8>2
            <7> QED  BY <7>1, <7>2
          <6>2. CASE /\ snap.valid /\ snap.size = frame.size
                     /\ \A p \in Pixels(frame.size) :
                           ~InRect(p, s.rect) => snap.pixels[p] = frame.pixels[p]
            <7>1. t.pixels = BuildScaledPixels(frame.size, snap.pixels)
              BY <6>2, <1>2 DEF TextureOf
            <7>2. snap.pixels \in [Pixels(frame.size) -> Colors]
              BY <6>2 DEF Inv, SnapshotInv
            <7>3. t.pixels = snap.pixels  BY <7>1, <7>2, <3>2, <1>1, Unscaled
            <7> QED  BY <7>2, <7>3, <6>2
          <6> QED  BY <6>1, <6>2, <1>0, <1>5
        <5>3. new = [p \in Pixels(frame.size) |->
                        IF InRect(p, s.rect) THEN frame.pixels[p] ELSE t.pixels[p]]
          BY <5>1, <5>2 DEF Overlay
        <5>4. new = frame.pixels  BY <5>2, <5>3, <1>1
        <5> QED  BY <5>4, <4>1
      <4> QED  BY <4>2, <4>3
    <3> QED  BY <3>1, <3>2
  <2> QED  BY <2>1, <2>2, <1>5 DEF TextureOf
<1> QED  BY <1>0, <1>4, <1>5

\* Render before the first mode does nothing that shows.
LEMMA RenderNothing ==
    ASSUME Inv, ~frame.valid, Render
    PROVE  UNCHANGED vars
<1>1. ~snap.valid /\ snap = NoSnapshot /\ texture = NoTexture /\ frame = NoFrame
  BY DEF Inv, SnapshotInv, BridgeInv, TextureInv
<1>2. frame' = frame /\ UNCHANGED <<guiVars, ready>>
  BY <1>1 DEF Render, Cleaned, NoFrame
<1> DEFINE s == CopyFrameInto(frame, snap, texture = NoTexture)
<1>3. s = NoSnapshot  BY <1>1 DEF CopyFrameInto, NoFrame, NoSnapshot
<1>4. snap' = NoSnapshot  BY <1>3, Zenon DEF Render
<1>5. texture' = texture
  <2>1. ~s.valid  BY <1>3 DEF NoSnapshot
  <2> HIDE DEF s
  <2>2. texture' = IF ~s.valid THEN texture
                   ELSE LET t == EnsureFrameTexture(texture, s.size)
                        IN  IF s.dirty THEN UploadFrameTexture(t, s) ELSE t
    BY Zenon DEF Render, s
  <2> QED  BY <2>1, <2>2
<1> QED  BY <1>1, <1>2, <1>4, <1>5 DEF vars, rendererVars

\* Render of a valid frame: snapshot and texture are the frame's.
LEMMA Rendered ==
    ASSUME Inv, frame.valid, Render
    PROVE  /\ snap'.size = frame.size /\ snap'.valid = TRUE
           /\ snap'.dirty \in BOOLEAN /\ snap'.rect \in Rects
           /\ snap'.pixels = frame.pixels
           /\ texture' = TextureOf(frame.size, frame.pixels)
           /\ frame'.size = frame.size /\ frame'.pixels = frame.pixels
           /\ frame'.valid = TRUE /\ frame'.dirty = FALSE /\ frame'.rect \in Rects
           /\ UNCHANGED <<guiVars, ready>>
<1> DEFINE s == CopyFrameInto(frame, snap, texture = NoTexture)
           t == EnsureFrameTexture(texture, s.size)
<1>1. /\ s.size = frame.size /\ s.valid = TRUE
      /\ s.dirty \in BOOLEAN /\ s.rect \in Rects
      /\ s.pixels = frame.pixels
  BY CopiedWhole
<1>2. (IF s.dirty THEN UploadFrameTexture(t, s) ELSE t) = TextureOf(frame.size, frame.pixels)
  BY UploadedWhole
<1>3. /\ snap' = s
      /\ texture' = IF ~s.valid THEN texture
                    ELSE IF s.dirty THEN UploadFrameTexture(t, s) ELSE t
  BY Zenon DEF Render
<1> HIDE DEF s, t
<1>4. texture' = TextureOf(frame.size, frame.pixels)  BY <1>1, <1>2, <1>3
<1>5. /\ frame'.size = frame.size /\ frame'.pixels = frame.pixels
      /\ frame'.valid = TRUE /\ frame'.dirty = FALSE /\ frame'.rect \in Rects
  <2>0. frame.dirty \in BOOLEAN /\ frame.valid \in BOOLEAN /\ frame.rect \in Rects
    BY DEF Inv, BridgeInv
  <2>1. CASE frame.dirty
    <3>1. frame' = [size |-> frame.size, pixels |-> frame.pixels, valid |-> TRUE,
                    dirty |-> FALSE, rect |-> NoRect]
      BY <2>1 DEF Render, Cleaned
    <3>2. NoRect \in Rects  BY DEF NoRect, Rect, Rects
    <3> QED  BY <3>1, <3>2
  <2>2. CASE ~frame.dirty
    <3>1. frame' = frame  BY <2>2 DEF Render, Cleaned
    <3> QED  BY <3>1, <2>0, <2>2
  <2> QED  BY <2>1, <2>2
<1>6. UNCHANGED <<guiVars, ready>>  BY DEF Render
<1> QED  BY <1>1, <1>3, <1>4, <1>5, <1>6

\* Render.
LEMMA RenderStepInv ==
    ASSUME Inv, Render
    PROVE  Inv'
<1>1. CASE ~frame.valid
  <2>1. UNCHANGED vars  BY <1>1, RenderNothing
  <2> QED  BY <2>1 DEF vars, guiVars, rendererVars, Inv, GuiInv, BridgeInv, SnapshotInv,
              TextureInv, DirtyRectCoversUnpublished, DirtyRectCoversUnshown
<1>2. CASE frame.valid
  <2>1. /\ snap'.size = frame.size /\ snap'.valid = TRUE
        /\ snap'.dirty \in BOOLEAN /\ snap'.rect \in Rects
        /\ snap'.pixels = frame.pixels
        /\ texture' = TextureOf(frame.size, frame.pixels)
        /\ frame'.size = frame.size /\ frame'.pixels = frame.pixels
        /\ frame'.valid = TRUE /\ frame'.dirty = FALSE /\ frame'.rect \in Rects
        /\ UNCHANGED <<guiVars, ready>>
    BY <1>2, Rendered
  <2>2. /\ frame.size = fbSize /\ fbSize \in Sizes
        /\ frame.pixels \in [Pixels(fbSize) -> Colors]
    BY <1>2 DEF Inv, GuiInv, BridgeInv
  <2>3. GuiInv'  BY <1>2, <2>1 DEF Inv, GuiInv, guiVars
  <2>4. BridgeInv'  BY <2>1, <2>2 DEF BridgeInv, guiVars
  <2>5. SnapshotInv'  BY <2>1, <2>2 DEF SnapshotInv
  <2>6. TextureInv'  BY <2>1 DEF TextureInv
  <2>7. DirtyRectCoversUnpublished'
    BY <1>2, <2>1 DEF Inv, DirtyRectCoversUnpublished, guiVars
  <2>8. DirtyRectCoversUnshown'  BY <2>1 DEF DirtyRectCoversUnshown
  <2> QED  BY <2>1, <2>3, <2>4, <2>5, <2>6, <2>7, <2>8 DEF Inv
<1> QED  BY <1>1, <1>2

\* The device comes and goes; with it go the snapshot and the texture.
LEMMA DeviceStep ==
    ASSUME Inv, LoadingComplete \/ ReleaseDeviceDependentResources
    PROVE  Inv'
<1>1. CASE LoadingComplete
  BY <1>1 DEF LoadingComplete, guiVars, Inv, GuiInv, BridgeInv, SnapshotInv,
              TextureInv, DirtyRectCoversUnpublished, DirtyRectCoversUnshown
<1>2. CASE ReleaseDeviceDependentResources
  <2>1. /\ snap' = NoSnapshot /\ texture' = NoTexture /\ ready' = FALSE
        /\ UNCHANGED <<guiVars, frame>>
    BY <1>2 DEF ReleaseDeviceDependentResources
  <2>2. /\ NoSnapshot.valid = FALSE /\ NoSnapshot.dirty = FALSE
        /\ NoSnapshot.rect \in Rects
    BY DEF NoSnapshot, NoRect, Rect, Rects
  <2>3. SnapshotInv' /\ TextureInv'  BY <2>1, <2>2 DEF SnapshotInv, TextureInv
  <2>4. DirtyRectCoversUnshown'  BY <2>1, <2>2 DEF DirtyRectCoversUnshown
  <2> QED  BY <2>1, <2>3, <2>4 DEF guiVars, Inv, GuiInv, BridgeInv, DirtyRectCoversUnpublished
<1> QED  BY <1>1, <1>2

\* Every step of either thread keeps the invariant.
LEMMA InvStep ==
    ASSUME Inv, [Next]_vars
    PROVE  Inv'
<1>1. CASE UNCHANGED vars
  BY <1>1 DEF vars, guiVars, rendererVars, Inv, GuiInv, BridgeInv, SnapshotInv,
              TextureInv, DirtyRectCoversUnpublished, DirtyRectCoversUnshown
<1>2. CASE EmulatorStep
  BY <1>2, DimensionUpdate, DrawDirect, DrawIndexed, PaletteChange, ClearScreen, Flush
     DEF EmulatorStep
<1>3. CASE RenderStep  BY <1>3, RenderStepInv, DeviceStep DEF RenderStep
<1> QED  BY <1>1, <1>2, <1>3 DEF Next

\* Before the first mode.
LEMMA InvInit ==
    ASSUME Init
    PROVE  Inv
<1>1. NoRect \in Rects  BY DEF NoRect, Rect, Rects
<1>2. GuiInv
  <2>1. palette \in [Indices -> Colors]  BY FrameAssumption DEF Init
  <2> QED  BY <1>1, <2>1 DEF Init, GuiInv, NoFrame
<1>3. BridgeInv  BY <1>1 DEF Init, BridgeInv, NoFrame
<1>4. SnapshotInv /\ TextureInv  BY <1>1 DEF Init, SnapshotInv, TextureInv, NoSnapshot
<1>5. DirtyRectCoversUnpublished /\ DirtyRectCoversUnshown
  BY DEF Init, NoFrame, NoSnapshot, DirtyRectCoversUnpublished, DirtyRectCoversUnshown
<1> QED  BY <1>2, <1>3, <1>4, <1>5 DEF Inv, Init

-----------------------------------------------------------------------------
(* The theorems. *)

\* The inductive invariant holds of both threads together.
THEOREM Invariant == Spec => []Inv
<1>1. Init => Inv  BY InvInit
<1>2. Inv /\ [Next]_vars => Inv'  BY InvStep
<1> QED  BY <1>1, <1>2, PTL DEF Spec

\* Neither dirty rectangle misses a pixel (mark_dirty_rect, flush,
\* IncludeDirtyRect, CopyFrameInto).
THEOREM Rectangles_cover == Spec => []DirtyRectInv
<1>1. Inv => DirtyRectInv
  <2> SUFFICES ASSUME Inv PROVE TypeOK
    BY DEF Inv, DirtyRectInv
  <2>1. IsFrame(Drawn) \/ Drawn = BlankFrame
    <3>1. CASE frame.valid  BY <3>1 DEF Inv, GuiInv, IsFrame, Drawn
    <3>2. CASE ~frame.valid  BY <3>2 DEF Inv, GuiInv, Drawn, BlankFrame
    <3> QED  BY <3>1, <3>2
  <2>2. IsFrame(Published) \/ Published = BlankFrame
    <3>1. CASE frame.valid  BY <3>1 DEF Inv, GuiInv, BridgeInv, IsFrame, Published
    <3>2. CASE ~frame.valid
      BY <3>2 DEF Inv, BridgeInv, Published, BlankFrame, NoFrame
    <3> QED  BY <3>1, <3>2
  <2>3. IsFrame(Copied) \/ Copied = BlankFrame
    <3>1. CASE snap.valid  BY <3>1 DEF Inv, SnapshotInv, IsFrame, Copied
    <3>2. CASE ~snap.valid
      BY <3>2 DEF Inv, SnapshotInv, Copied, BlankFrame, NoSnapshot
    <3> QED  BY <3>1, <3>2
  <2>4. idx = NoPixels \/ idx \in [Pixels(fbSize) -> Indices]
    BY DEF Inv, GuiInv
  <2>5. /\ indexed \in BOOLEAN /\ palette \in [Indices -> Colors] /\ fbDirty \in BOOLEAN
        /\ frame.valid \in BOOLEAN /\ frame.dirty \in BOOLEAN
        /\ snap.valid \in BOOLEAN /\ snap.dirty \in BOOLEAN /\ ready \in BOOLEAN
    BY DEF Inv, GuiInv, BridgeInv, SnapshotInv
  <2> QED  BY <2>1, <2>2, <2>3, <2>4, <2>5 DEF TypeOK
<1> QED  BY <1>1, Invariant, PTL

\* A frame that is not blank is shown as its texture.
LEMMA ShownTexture ==
    ASSUME NEW size \in Sizes, NEW pixels
    PROVE  /\ [size |-> size, pixels |-> pixels] # BlankFrame
           /\ ShownAs([size |-> size, pixels |-> pixels])
                 = [size |-> TextureOf(size, pixels).size,
                    pixels |-> TextureOf(size, pixels).pixels]
<1>1. size # <<0, 0>>  BY PixelCoordinates
<1>2. [size |-> size, pixels |-> pixels] # BlankFrame  BY <1>1 DEF BlankFrame
<1> QED  BY <1>2 DEF ShownAs, TextureOf

\* The texture is the snapshot, whole, although it is uploaded piecemeal
\* (EnsureFrameTexture, UploadFrameTexture, ReleaseDeviceDependentResources).
THEOREM Texture_is_snapshot == Spec => []TextureIsSnapshot
<1>1. Inv => TextureIsSnapshot
  <2> SUFFICES ASSUME Inv PROVE TextureIsSnapshot  OBVIOUS
  <2>1. texture = NoTexture <=> ~snap.valid  BY TextureBesideSnapshot
  <2>2. CASE snap.valid
    <3>1. snap.size \in Sizes /\ texture = TextureOf(snap.size, snap.pixels)
      BY <2>2 DEF Inv, SnapshotInv, TextureInv
    <3>2. OnScreen = ShownAs(Copied)  BY <3>1, ShownTexture DEF OnScreen, Copied
    <3> QED  BY <2>1, <2>2, <3>2 DEF TextureIsSnapshot
  <2>3. CASE ~snap.valid
    <3>1. OnScreen = BlankFrame  BY <2>1, <2>3 DEF OnScreen, NoTexture, BlankFrame
    <3> QED  BY <2>1, <2>3, <3>1 DEF TextureIsSnapshot
  <2> QED  BY <2>2, <2>3 DEF Inv, SnapshotInv
<1> QED  BY <1>1, Invariant, PTL

\* A step of the GUI that publishes nothing is a drawing, or shows nothing.
LEMMA DrawRefines ==
    ASSUME Inv, Inv', UNCHANGED <<fbSize, frame, rendererVars>>
    PROVE  FrameChannel!Draw \/ UNCHANGED <<Drawn, Published, OnScreen>>
<1>1. UNCHANGED <<Published, OnScreen>>  BY DEF Published, OnScreen, rendererVars
<1>2. CASE frame.valid
  <2>1. fbSize' \in Sizes /\ fb' \in [Pixels(fbSize') -> Colors]
    BY <1>2 DEF Inv, GuiInv
  <2>2. IsFrame(Drawn)'  BY <2>1 DEF IsFrame, Drawn
  <2> QED  BY <1>1, <2>2 DEF FrameChannel!Draw
<1>3. CASE ~frame.valid
  <2>1. fb' = fb  BY <1>3 DEF Inv, GuiInv
  <2>2. UNCHANGED Drawn  BY <2>1 DEF Drawn
  <2> QED  BY <1>1, <2>2
<1> QED  BY <1>2, <1>3

\* A step that leaves the bridge with the GUI's new, whole drawing.
LEMMA WholeRefines ==
    ASSUME Inv', NEW size \in Sizes, fbSize' = size, fb' = Plain(size, Black),
           frame'.size = size, frame'.pixels = Plain(size, Black), frame'.valid = TRUE,
           UNCHANGED rendererVars
    PROVE  FrameChannel!DrawAndPublish
<1>1. fb' \in [Pixels(size) -> Colors]  BY PlainType, FrameAssumption
<1>2. IsFrame(Drawn)'  BY <1>1 DEF IsFrame, Drawn
<1>3. Published' = Drawn'  BY DEF Published, Drawn
<1>4. UNCHANGED OnScreen  BY DEF OnScreen, rendererVars
<1> QED  BY <1>2, <1>3, <1>4 DEF FrameChannel!DrawAndPublish

\* Every step of the emulator thread is a step of the abstract channel.
LEMMA EmulatorRefines ==
    ASSUME Inv, Inv', EmulatorStep
    PROVE  FrameChannel!Next \/ UNCHANGED <<Drawn, Published, OnScreen>>
<1>1. ASSUME NEW size \in Sizes, NEW kind \in ModeKinds, dimension_update(size, kind)
      PROVE  FrameChannel!DrawAndPublish
  <2>1. /\ fbSize' = size /\ fb' = Plain(size, Black)
        /\ frame' = [size |-> size, pixels |-> Plain(size, Black), valid |-> TRUE,
                     dirty |-> TRUE, rect |-> FullRect(size)]
        /\ UNCHANGED rendererVars
    BY <1>1 DEF dimension_update, HostConfigure
  <2>2. frame'.size = size /\ frame'.pixels = Plain(size, Black) /\ frame'.valid = TRUE
    BY <2>1
  <2> QED  BY <2>1, <2>2, WholeRefines
<1>2. ASSUME NEW b \in Boxes, NEW c \in Colors, draw_direct(b, c)
      PROVE  UNCHANGED <<fbSize, frame, rendererVars>>
  BY <1>2 DEF draw_direct
<1>3. ASSUME NEW b \in Boxes, NEW i \in Indices, draw_indexed(b, i)
      PROVE  UNCHANGED <<fbSize, frame, rendererVars>>
  BY <1>3 DEF draw_indexed
<1>4. ASSUME NEW i \in Indices, NEW c \in Colors, palette_change(i, c)
      PROVE  UNCHANGED <<fbSize, frame, rendererVars>>
  BY <1>4 DEF palette_change
<1>5. CASE clear_screen
  <2>1. /\ fbSize \in Sizes
        /\ frame' = [size |-> fbSize, pixels |-> Plain(fbSize, Black), valid |-> TRUE,
                     dirty |-> TRUE, rect |-> FullRect(fbSize)]
    BY <1>5, ClearedFrame
  <2>2. /\ frame'.size = fbSize /\ frame'.pixels = Plain(fbSize, Black)
        /\ frame'.valid = TRUE
    BY <2>1
  <2>3. fbSize' = fbSize /\ fb' = Plain(fbSize, Black) /\ UNCHANGED rendererVars
    BY <1>5 DEF clear_screen
  <2>4. FrameChannel!DrawAndPublish  BY <2>1, <2>2, <2>3, WholeRefines
  <2> QED  BY <2>4 DEF FrameChannel!Next
<1>6. CASE flush
  <2>1. frame'.size = fbSize /\ frame'.pixels = fb  BY <1>6, Flushed
  <2>2. UNCHANGED <<fbSize, fb, rendererVars>>  BY <1>6 DEF flush
  <2>3. Published' = Drawn /\ UNCHANGED <<Drawn, OnScreen>>
    BY <2>1, <2>2 DEF Published, Drawn, OnScreen, rendererVars
  <2> QED  BY <2>3 DEF FrameChannel!Publish, FrameChannel!Next
<1> QED  BY <1>1, <1>2, <1>3, <1>4, <1>5, <1>6, DrawRefines DEF EmulatorStep, FrameChannel!Next

\* Every step of the render thread is one, too.
LEMMA RenderRefines ==
    ASSUME Inv, RenderStep
    PROVE  FrameChannel!Next \/ UNCHANGED <<Drawn, Published, OnScreen>>
<1>1. CASE Render /\ frame.valid
  <2>1. /\ texture' = TextureOf(frame.size, frame.pixels)
        /\ frame'.size = frame.size /\ frame'.pixels = frame.pixels
        /\ UNCHANGED guiVars
    BY <1>1, Rendered
  <2>2. frame.size \in Sizes  BY <1>1 DEF Inv, GuiInv, BridgeInv
  <2>3. OnScreen' = ShownAs(Published)
    BY <2>1, <2>2, ShownTexture DEF OnScreen, Published
  <2>4. UNCHANGED <<Drawn, Published>>  BY <2>1 DEF Drawn, Published, guiVars
  <2> QED  BY <2>3, <2>4 DEF FrameChannel!Show, FrameChannel!Next
<1>2. CASE Render /\ ~frame.valid
  <2>1. UNCHANGED vars  BY <1>2, RenderNothing
  <2> QED  BY <2>1 DEF vars, guiVars, rendererVars, Drawn, Published, OnScreen
<1>3. CASE LoadingComplete
  BY <1>3 DEF LoadingComplete, guiVars, Drawn, Published, OnScreen
<1>4. CASE ReleaseDeviceDependentResources
  <2>1. texture' = NoTexture /\ UNCHANGED <<guiVars, frame>>
    BY <1>4 DEF ReleaseDeviceDependentResources
  <2>2. OnScreen' = BlankFrame  BY <2>1 DEF OnScreen, NoTexture, BlankFrame
  <2>3. UNCHANGED <<Drawn, Published>>  BY <2>1 DEF Drawn, Published, guiVars
  <2> QED  BY <2>2, <2>3 DEF FrameChannel!Blank, FrameChannel!Next
<1> QED  BY <1>1, <1>2, <1>3, <1>4 DEF RenderStep

\* The dirty rectangles, the snapshot and the partial uploads are an
\* optimisation no one can observe: every behaviour of the two threads is one
\* of the channel on which whole frames are published and shown.
THEOREM Implements == Spec => ImplementsFrameSpec
<1>1. Init => FrameChannel!Init
  BY DEF Init, FrameChannel!Init, Drawn, Published, OnScreen, BlankFrame, NoFrame, NoTexture
<1>2. Inv /\ Inv' /\ [Next]_vars => [FrameChannel!Next]_(FrameChannel!vars)
  <2> SUFFICES ASSUME Inv, Inv', [Next]_vars
               PROVE  FrameChannel!Next \/ UNCHANGED <<Drawn, Published, OnScreen>>
    BY DEF FrameChannel!vars
  <2>1. CASE UNCHANGED vars
    BY <2>1 DEF vars, guiVars, rendererVars, Drawn, Published, OnScreen
  <2>2. CASE EmulatorStep  BY <2>2, EmulatorRefines
  <2>3. CASE RenderStep  BY <2>3, RenderRefines
  <2> QED  BY <2>1, <2>2, <2>3 DEF Next
<1> QED  BY <1>1, <1>2, Invariant, PTL DEF Spec, ImplementsFrameSpec, FrameChannel!Spec
=============================================================================
