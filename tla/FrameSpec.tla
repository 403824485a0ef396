------------------------------ MODULE FrameSpec ------------------------------
(***************************************************************************)
(* What the display path promises: a drawing becomes public as a whole     *)
(* when the core flushes, and what the screen shows is always some         *)
(* published frame as a whole, scaled to the texture limit, never a mix of *)
(* two frames.  Dirty rectangles, snapshots and partial copies are         *)
(* invisible at this level.                                                *)
(***************************************************************************)
CONSTANTS
    IsFrame(_),     \* the frames a guest can draw
    NoFrame,        \* nothing drawn, published or shown yet
    Shown(_)        \* the texture a published frame is shown as

VARIABLES drawn, published, shown

vars == <<drawn, published, shown>>

Init == drawn = NoFrame /\ published = NoFrame /\ shown = NoFrame

Draw == IsFrame(drawn') /\ UNCHANGED <<published, shown>>

\* A flush publishes the whole drawing.
Publish == published' = drawn /\ UNCHANGED <<drawn, shown>>

\* A new mode or a cleared screen is drawn and published in one step.
DrawAndPublish ==
    IsFrame(drawn') /\ published' = drawn' /\ UNCHANGED shown

\* The screen takes the published frame as a whole.
Show == shown' = Shown(published) /\ UNCHANGED <<drawn, published>>

\* The device, and with it the texture, is lost.
Blank == shown' = NoFrame /\ UNCHANGED <<drawn, published>>

Next == Draw \/ Publish \/ DrawAndPublish \/ Show \/ Blank

Spec == Init /\ [][Next]_vars

=============================================================================
