CONSTANTS
    Sizes <- WideSizes
    Boxes <- WideBoxes
    Colors = {0, 1}
    Black = 0
    Indices = {0, 1}
    ModeKinds = {TRUE}
    MaxTextureDimension = 2
SPECIFICATION Spec
PROPERTIES ImplementsFrameSpec ScreenCatchesUp
