SPECIFICATION Spec
CONSTANTS
    d1 = d1
    d2 = d2
    Devices = {d1, d2}
    Requests <- MCRequests
    MaxVirtual = 3
    Ratios <- MCRatios
    MaxTime = 4
SYMMETRY Symmetry
VIEW View
INVARIANTS
    AssertionsHold
    NextEventInv
    WakeupAhead
PROPERTIES
    ImplementsTimerSpec
CHECK_DEADLOCK FALSE
