SPECIFICATION Spec
CONSTANTS
    NumExtents = 2
    ExtentBlocks = 2
    d1 = d1
    d2 = d2
    Data = {d1, d2}
    Zero = 0
    Base <- MCBase
    MaxTransfer = 1
    MaxSaves = 1
    None = None
    Lost = Lost
SYMMETRY Symmetry
VIEW View
INVARIANTS
    PagesInv
    CachedBitmapCurrent
PROPERTIES
    ImplementsDisk
