------------------------------ MODULE MCFrame ------------------------------
(* FramePipeline on frames of a few pixels.                                *)
EXTENDS FramePipeline

\* A two-by-two mode and a narrower one, so that a mode change shrinks and
\* grows the frame with a dirty rectangle pending.
SmallSizes == {<<2, 2>>, <<1, 2>>}

\* Single pixels at opposite corners, whose hull is the whole frame, a column
\* and a row that run over the frame's edge.
SomeBoxes == {[x |-> 0, y |-> 0, w |-> 1, h |-> 1],
              [x |-> 1, y |-> 1, w |-> 1, h |-> 1],
              [x |-> 0, y |-> 1, w |-> 2, h |-> 2]}

\* A mode wider than the texture limit, which is shown scaled down.
WideSizes == {<<4, 1>>, <<1, 1>>}
WideBoxes == {[x |-> 0, y |-> 0, w |-> 1, h |-> 1],
              [x |-> 2, y |-> 0, w |-> 2, h |-> 2]}

=============================================================================
