SPECIFICATION Spec
CONSTANTS
    Images   = {"brokered", "local", "misfit", "missing"}
    Brokered = {"brokered", "misfit"}
    Writable = {"brokered"}
    Missing  = {"missing"}
    Misfit   = {"misfit"}
    MaxQueue = 1
    MaxHandle = 4
INVARIANTS HandlesInv DriveHoldsNamedImage ChangesSignalled WriteFindsUnprotected
PROPERTIES LockedDiscStays InsertHonoured
