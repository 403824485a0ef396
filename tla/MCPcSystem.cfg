SPECIFICATION Spec
CONSTANTS
    d1 = d1
    d2 = d2
    Devices = {d1, d2}
    ApicTimers <- MCApicTimers
    MaxTimers = 6
    NullInterval = 3
    Requests <- MCRequests
    MaxTicks = 4
    MaxStep = 2
    MaxSessions = 2
INVARIANTS
    CountdownInv
    DeviceHandlesOwned
    NoSlotLeak
PROPERTIES
    HandlersAreAlive
    ImplementsTimerSpec
CHECK_DEADLOCK FALSE
VIEW View
CONSTRAINT NoStartPanicked
