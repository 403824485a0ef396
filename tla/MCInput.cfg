SPECIFICATION Spec
CONSTANTS
    Keys = {"ctrl", "alt", "m"}
    Buttons = {"middle"}
    MaxQueue = 3
INVARIANTS
    CaptureFollowsIntent
    ChordInv
    ModifiersComeUp
