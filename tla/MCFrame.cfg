CONSTANTS
    Sizes <- SmallSizes
    Boxes <- SomeBoxes
    Colors = {0, 1}
    Black = 0
    Indices = {0}
    ModeKinds = {TRUE, FALSE}
    MaxTextureDimension = 4
SPECIFICATION Spec
INVARIANTS DirtyRectInv TextureIsSnapshot
PROPERTIES ImplementsFrameSpec
