CONSTANTS
    MaxSessions = 2
    MaxPackets = 2
    PacketUnits = 2
    MixUnits = 3
    Rates = {1, 2}
    DefaultRate = 1
    Devices = 2
    MaxCallbacks = 3
    HostLimit = 1
SPECIFICATION Spec
INVARIANTS OneSessionInOrder QueueInv
PROPERTIES FlushEnds EveryPacketGetsOut
CHECK_DEADLOCK FALSE
