---------------------------- MODULE FramePipeline ----------------------------
(***************************************************************************)
(* The display path of the DirectX backend: the uwp_dx GUI draws into a    *)
(* framebuffer and keeps one dirty rectangle (gui/uwp_dx.cc), flush copies *)
(* that rectangle to the bridge's frame, which keeps its own dirty         *)
(* rectangle (UWP-Port/BochsUwpBridge.cpp), and the render loop copies the *)
(* bridge's rectangle to its snapshot and uploads it to a texture          *)
(* (UWP-Port/Content/BochsFrameRenderer.cpp).                              *)
(*                                                                         *)
(* Two threads: the emulator thread (framebuffer side) and the render      *)
(* thread (snapshot and texture side).  They share only the bridge's       *)
(* frame, under g_bridgeMutex, so each callback of the GUI and each        *)
(* Render is one action.                                                   *)
(***************************************************************************)
EXTENDS Integers, FiniteSets

CONSTANTS
    Sizes,          \* the modes' <<width, height>>
    Boxes,          \* the [x, y, w, h] a drawing callback is called with
    Colors, Black,  \* pixel values
    Indices,        \* 8-bit indices of an indexed mode
    ModeKinds,      \* the values of source_is_indexed() the guest selects
    MaxTextureDimension

ASSUME FrameAssumption ==
    /\ Sizes \subseteq (Nat \ {0}) \X (Nat \ {0})
    /\ Boxes \subseteq [x : Nat, y : Nat, w : Nat, h : Nat]
    /\ Black \in Colors
    /\ 0 \in Indices
    /\ ModeKinds \subseteq BOOLEAN
    /\ MaxTextureDimension \in Nat \ {0}

VARIABLES
    fbSize, fb,         \* fb_width and fb_height; framebuffer
    indexed, idx,       \* source_is_indexed(); indexed_framebuffer
    palette,
    fbDirty, fbRect,    \* framebuffer_dirty; dirty_x0, y0, x1, y1
    frame,              \* g_frame, the bridge's copy
    snap,               \* m_frameSnapshot, the renderer's copy
    texture,            \* m_frameTexture and the size it was made for
    ready               \* m_loadingComplete

guiVars == <<fbSize, fb, indexed, idx, palette, fbDirty, fbRect>>
rendererVars == <<snap, texture, ready>>
vars == <<guiVars, frame, rendererVars>>

-----------------------------------------------------------------------------
(* Pixels and rectangles.  A rectangle is half open, x0 <= x < x1.         *)

Least(a, b)    == IF a < b THEN a ELSE b
Greatest(a, b) == IF a > b THEN a ELSE b

Pixels(size) == (0 .. size[1] - 1) \X (0 .. size[2] - 1)
NoPixels == [p \in {} |-> Black]

Rect(a, b, c, d) == [x0 |-> a, y0 |-> b, x1 |-> c, y1 |-> d]
FullRect(size)   == Rect(0, 0, size[1], size[2])
NoRect           == Rect(0, 0, 0, 0)

InRect(p, r) == r.x0 <= p[1] /\ p[1] < r.x1 /\ r.y0 <= p[2] /\ p[2] < r.y1

Hull(r, s) == Rect(Least(r.x0, s.x0), Least(r.y0, s.y0),
                   Greatest(r.x1, s.x1), Greatest(r.y1, s.y1))

Empty(r) == r.x0 >= r.x1 \/ r.y0 >= r.y1

\* The part of a box that lies in a frame of this size.
Clip(b, size) == Rect(b.x, b.y, Least(b.x + b.w, size[1]), Least(b.y + b.h, size[2]))

\* base with the pixels of rectangle r taken from top.
Overlay(base, top, r) ==
    [p \in DOMAIN base |-> IF InRect(p, r) THEN top[p] ELSE base[p]]

Plain(size, v) == [p \in Pixels(size) |-> v]

-----------------------------------------------------------------------------
(* The renderer's texture.                                                 *)

\* UploadTextureSize.  The code computes the ratio in single precision;
\* the model takes the exact quotient.
UploadTextureSize(size) ==
    IF size[1] <= MaxTextureDimension /\ size[2] <= MaxTextureDimension
    THEN size
    ELSE LET longest == Greatest(size[1], size[2])
         IN  <<Greatest(1, (size[1] * MaxTextureDimension) \div longest),
               Greatest(1, (size[2] * MaxTextureDimension) \div longest)>>

UsesScaledUpload(size) == UploadTextureSize(size) # size

BuildScaledPixels(size, pixels) ==
    LET to == UploadTextureSize(size)
    IN  [p \in Pixels(to) |-> pixels[<<(p[1] * size[1]) \div to[1],
                                       (p[2] * size[2]) \div to[2]>>]]

NoTexture == [source |-> <<0, 0>>, size |-> <<0, 0>>, pixels |-> NoPixels]

\* EnsureFrameTexture: the texture at hand if it was made for this frame
\* size, else a new one, whose content is undefined (here: black).
EnsureFrameTexture(t, size) ==
    IF t.source = size /\ t.size = UploadTextureSize(size)
    THEN t
    ELSE [source |-> size, size |-> UploadTextureSize(size),
          pixels |-> Plain(UploadTextureSize(size), Black)]

\* Mutant of UploadFrameTexture: a scaled frame is uploaded by rectangle too.
UploadFrameTexture_by_rect(t, s) ==
    LET scaled == BuildScaledPixels(s.size, s.pixels)
    IN  [t EXCEPT !.pixels = IF Empty(s.rect) THEN scaled
                             ELSE Overlay(t.pixels, scaled, s.rect)]

\* UploadFrameTexture: the whole frame when it is scaled or the rectangle is
\* as large as the frame, else the rectangle alone.
UploadFrameTexture(t, s) ==
    [t EXCEPT !.pixels =
        IF UsesScaledUpload(s.size) THEN BuildScaledPixels(s.size, s.pixels)
        ELSE IF Empty(s.rect) THEN s.pixels
        ELSE Overlay(t.pixels, s.pixels, s.rect)]

-----------------------------------------------------------------------------
NoFrame == [size |-> <<0, 0>>, pixels |-> NoPixels, valid |-> FALSE,
            dirty |-> FALSE, rect |-> NoRect]

NoSnapshot == [size |-> <<0, 0>>, pixels |-> NoPixels, valid |-> FALSE,
               dirty |-> FALSE, rect |-> NoRect]

Init ==
    /\ fbSize = <<0, 0>>
    /\ fb = NoPixels
    /\ indexed = FALSE
    /\ idx = NoPixels
    /\ palette = [i \in Indices |-> Black]
    /\ fbDirty = FALSE
    /\ fbRect = NoRect
    /\ frame = NoFrame
    /\ snap = NoSnapshot
    /\ texture = NoTexture
    /\ ready = FALSE

-----------------------------------------------------------------------------
(* The bridge: what the host functions do to g_frame.                      *)

\* bx_uwp_dx_host_configure
HostConfigure(size) ==
    [size |-> size, pixels |-> Plain(size, Black), valid |-> TRUE,
     dirty |-> TRUE, rect |-> FullRect(size)]

\* IncludeDirtyRect; an invalid dirtyRect is an empty one.
IncludeDirtyRect(old, new) ==
    IF Empty(new) THEN old ELSE IF Empty(old) THEN new ELSE Hull(old, new)

\* bx_uwp_dx_host_update_rect: the rectangle is clipped to the frame.
HostUpdateRect(f, source, r) ==
    IF ~f.valid \/ r.x0 >= f.size[1] \/ r.y0 >= f.size[2]
    THEN f
    ELSE LET clipped == Rect(r.x0, r.y0, Least(r.x1, f.size[1]), Least(r.y1, f.size[2]))
         IN  [size |-> f.size, pixels |-> Overlay(f.pixels, source, clipped), valid |-> TRUE,
              dirty |-> TRUE, rect |-> IncludeDirtyRect(f.rect, clipped)]

\* Mutant of HostClear: the cleared frame is not marked dirty.
HostClear_unmarked(f) ==
    IF ~f.valid THEN f ELSE [f EXCEPT !.pixels = Plain(f.size, Black)]

\* bx_uwp_dx_host_clear
HostClear(f) ==
    IF ~f.valid THEN f
    ELSE [size |-> f.size, pixels |-> Plain(f.size, Black), valid |-> TRUE,
          dirty |-> TRUE, rect |-> FullRect(f.size)]

\* CopyFrameInto: what the snapshot becomes...
CopyFrameInto(f, s, forcePixels) ==
    LET include == f.valid /\ (f.dirty \/ forcePixels)
        whole   == \/ forcePixels /\ ~f.dirty
                   \/ s.size # f.size
                   \/ Empty(f.rect)
                   \/ DOMAIN s.pixels # Pixels(f.size)
        rect    == IF whole THEN FullRect(f.size) ELSE f.rect
    IN  IF ~f.valid
        THEN [size |-> f.size, pixels |-> NoPixels, valid |-> FALSE,
              dirty |-> FALSE, rect |-> NoRect]
        ELSE [size   |-> f.size,
              valid  |-> TRUE,
              dirty  |-> include,
              rect   |-> IF include THEN rect ELSE s.rect,
              pixels |-> IF ~include THEN s.pixels
                         ELSE IF whole THEN f.pixels
                         ELSE Overlay(s.pixels, f.pixels, rect)]

\* ...and what it leaves of the frame's dirt.
Cleaned(f) ==
    IF f.valid /\ f.dirty
    THEN [size |-> f.size, pixels |-> f.pixels, valid |-> TRUE, dirty |-> FALSE, rect |-> NoRect]
    ELSE f

-----------------------------------------------------------------------------
(* The emulator thread: the GUI's callbacks.                               *)

\* Mutant of mark_dirty_rect: the last rectangle replaces the pending one.
mark_dirty_rect_replaces(r) == fbDirty' = TRUE /\ fbRect' = r

\* mark_dirty_rect, for a rectangle already clipped to the framebuffer.
mark_dirty_rect(r) ==
    /\ fbDirty' = TRUE
    /\ fbRect' = IF fbDirty THEN Hull(fbRect, r) ELSE r

\* dimension_update and resize_framebuffer; the first is specific_init's.
dimension_update(size, kind) ==
    /\ fbSize' = size
    /\ fb' = Plain(size, Black)
    /\ indexed' = kind
    /\ idx' = IF kind THEN Plain(size, 0) ELSE NoPixels
    /\ mark_dirty_rect(FullRect(size))
    /\ frame' = HostConfigure(size)
    /\ UNCHANGED <<palette, rendererVars>>

\* A box the callback draws in: one that starts inside the framebuffer.
Drawable(b) == b.x < fbSize[1] /\ b.y < fbSize[2] /\ b.w > 0 /\ b.h > 0

\* graphics_tile_update and draw_char in a direct mode, and the core's own
\* writes that graphics_tile_update_in_place reports.
draw_direct(b, c) ==
    /\ ~indexed
    /\ Drawable(b)
    /\ fb' = Overlay(fb, Plain(fbSize, c), Clip(b, fbSize))
    /\ mark_dirty_rect(Clip(b, fbSize))
    /\ UNCHANGED <<fbSize, indexed, idx, palette, frame, rendererVars>>

\* The same in an indexed mode: copy_indexed_tile and update_indexed_rect
\* keep the shadow buffer and put the palette's colour in the framebuffer.
draw_indexed(b, i) ==
    /\ indexed
    /\ Drawable(b)
    /\ idx' = Overlay(idx, Plain(fbSize, i), Clip(b, fbSize))
    /\ fb' = Overlay(fb, Plain(fbSize, palette[i]), Clip(b, fbSize))
    /\ mark_dirty_rect(Clip(b, fbSize))
    /\ UNCHANGED <<fbSize, indexed, palette, frame, rendererVars>>

\* Mutant of palette_change: the recoloured framebuffer is not marked dirty.
palette_change_unmarked(i, c) ==
    /\ palette' = [palette EXCEPT ![i] = c]
    /\ fb' = IF indexed THEN [p \in Pixels(fbSize) |-> palette'[idx[p]]] ELSE fb
    /\ UNCHANGED <<fbSize, indexed, idx, fbDirty, fbRect, frame, rendererVars>>

\* palette_change, after the common code has stored the colour.
palette_change(i, c) ==
    /\ palette' = [palette EXCEPT ![i] = c]
    /\ IF indexed
       THEN /\ fb' = [p \in Pixels(fbSize) |-> palette'[idx[p]]]
            /\ mark_dirty_rect(FullRect(fbSize))
       ELSE UNCHANGED <<fb, fbDirty, fbRect>>
    /\ UNCHANGED <<fbSize, indexed, idx, frame, rendererVars>>

\* clear_screen blackens the framebuffer and the bridge's frame; the shadow
\* buffer keeps its indices.
clear_screen ==
    /\ fb # NoPixels
    /\ fb' = Plain(fbSize, Black)
    /\ mark_dirty_rect(FullRect(fbSize))
    /\ frame' = HostClear(frame)
    /\ UNCHANGED <<fbSize, indexed, idx, palette, rendererVars>>

\* flush copies the dirty rectangle to the bridge.
flush ==
    /\ fbDirty
    /\ fbDirty' = FALSE
    /\ frame' = HostUpdateRect(frame, fb, fbRect)
    /\ UNCHANGED <<fbSize, fb, indexed, idx, palette, fbRect, rendererVars>>

EmulatorStep ==
    \/ \E size \in Sizes, kind \in ModeKinds : dimension_update(size, kind)
    \/ \E b \in Boxes, c \in Colors : draw_direct(b, c)
    \/ \E b \in Boxes, i \in Indices : draw_indexed(b, i)
    \/ \E i \in Indices, c \in Colors : palette_change(i, c)
    \/ clear_screen
    \/ flush

-----------------------------------------------------------------------------
(* The render thread.                                                      *)

\* Render, once the shaders are loaded.  Its second CopyFrameInto, for a
\* snapshot still without pixels, is not reached: without a texture the first
\* one is forced, and a texture is only made beside a snapshot with pixels.
Render ==
    /\ ready
    /\ LET s == CopyFrameInto(frame, snap, texture = NoTexture)
           t == EnsureFrameTexture(texture, s.size)
       IN  /\ snap' = s
           /\ texture' = IF ~s.valid THEN texture
                         ELSE IF s.dirty THEN UploadFrameTexture(t, s) ELSE t
    /\ frame' = Cleaned(frame)
    /\ UNCHANGED <<guiVars, ready>>

\* The continuation of CreateDeviceDependentResources.
LoadingComplete ==
    /\ ~ready
    /\ ready' = TRUE
    /\ UNCHANGED <<guiVars, frame, snap, texture>>

\* Mutant of ReleaseDeviceDependentResources: the snapshot is kept.
Release_keeps_snapshot ==
    /\ ready
    /\ ready' = FALSE
    /\ texture' = NoTexture
    /\ UNCHANGED <<guiVars, frame, snap>>

\* OnDeviceLost: the texture goes, and the snapshot with it.
ReleaseDeviceDependentResources ==
    /\ ready
    /\ ready' = FALSE
    /\ snap' = NoSnapshot
    /\ texture' = NoTexture
    /\ UNCHANGED <<guiVars, frame>>

RenderStep == Render \/ LoadingComplete \/ ReleaseDeviceDependentResources

Next == EmulatorStep \/ RenderStep

\* The core's timer flushes, and the render loop renders, again and again.
Spec == Init /\ [][Next]_vars /\ WF_vars(flush) /\ WF_vars(Render \/ LoadingComplete)

-----------------------------------------------------------------------------
(* Properties.                                                             *)

IsFrame(f) == f.size \in Sizes /\ f.pixels \in [Pixels(f.size) -> Colors]
BlankFrame == [size |-> <<0, 0>>, pixels |-> NoPixels]

Drawn     == [size |-> fbSize, pixels |-> fb]
Published == [size |-> frame.size, pixels |-> frame.pixels]
Copied    == [size |-> snap.size, pixels |-> snap.pixels]
OnScreen  == [size |-> texture.size, pixels |-> texture.pixels]

TypeOK ==
    /\ \A f \in {Drawn, Published, Copied} : IsFrame(f) \/ f = BlankFrame
    /\ indexed \in BOOLEAN
    /\ idx = NoPixels \/ idx \in [Pixels(fbSize) -> Indices]
    /\ palette \in [Indices -> Colors]
    /\ fbDirty \in BOOLEAN
    /\ frame.valid \in BOOLEAN /\ frame.dirty \in BOOLEAN
    /\ snap.valid \in BOOLEAN /\ snap.dirty \in BOOLEAN
    /\ ready \in BOOLEAN

\* What the framebuffer and the bridge's frame disagree on lies in the GUI's
\* dirty rectangle, so that a flush of that rectangle publishes everything;
\* also right after a mode change, when the rectangle of the old, larger mode
\* is merged with the new one and reaches beyond the framebuffer.
DirtyRectCoversUnpublished ==
    frame.valid =>
        /\ frame.size = fbSize
        /\ \A p \in Pixels(fbSize) :
              fb[p] # frame.pixels[p] => fbDirty /\ InRect(p, fbRect)

\* What the bridge's frame and the renderer's snapshot disagree on lies in the
\* bridge's dirty rectangle, whatever was published between two renders; a
\* snapshot of another size forces a whole copy.
DirtyRectCoversUnshown ==
    snap.valid /\ snap.size = frame.size =>
        \A p \in Pixels(frame.size) :
            snap.pixels[p] # frame.pixels[p] => frame.dirty /\ InRect(p, frame.rect)

\* Neither dirty rectangle on the way from the guest's drawing to the texture
\* (uwp_dx.cc's and the bridge's) misses a pixel: the one is handed over and
\* reset by flush, the other by CopyFrameInto, each from its own thread.
DirtyRectInv == TypeOK /\ DirtyRectCoversUnpublished /\ DirtyRectCoversUnshown

\* The texture a frame is shown as.
ShownAs(f) ==
    IF f = BlankFrame THEN BlankFrame
    ELSE [size |-> UploadTextureSize(f.size),
          pixels |-> BuildScaledPixels(f.size, f.pixels)]

\* The texture is the snapshot, whole, although it is uploaded piecemeal.
TextureIsSnapshot ==
    OnScreen = IF texture = NoTexture THEN BlankFrame ELSE ShownAs(Copied)

\* The dirty rectangles are an optimisation no one can observe: a flush
\* publishes the whole drawing and a render shows the whole published frame.
FrameChannel == INSTANCE FrameSpec WITH
    IsFrame   <- IsFrame,
    NoFrame   <- BlankFrame,
    Shown     <- ShownAs,
    drawn     <- Drawn,
    published <- Published,
    shown     <- OnScreen

ImplementsFrameSpec == FrameChannel!Spec

\* Once the guest stops drawing and the device stays, the screen catches up
\* with the framebuffer, and stays with it.
ScreenCatchesUp ==
    <>[][UNCHANGED <<fb, fbSize, ready>>]_vars
        => <>[](OnScreen = ShownAs(Drawn))

=============================================================================
