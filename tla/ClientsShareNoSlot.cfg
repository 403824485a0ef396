SPECIFICATION Spec
CONSTANTS
    d1 = d1
    d2 = d2
    Devices = {d1}
    ApicTimers <- MCApicTimers
    MaxTimers = 5
    NullInterval = 3
    Requests <- MCRequests
    MaxTicks = 3
    MaxStep = 2
    MaxSessions = 2
INVARIANT ClientsShareNoSlot
CHECK_DEADLOCK FALSE
