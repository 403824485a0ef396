CONSTANT Displays = {"uwp_dx"}
SPECIFICATION Spec
INVARIANTS TypeOK ObservedMeansParked NoLostWakeup PauseFlagsAgree OneEmulator ExitedMeansCoreOut
           SaveAfterObservedPauseIsQuiescent ShutdownEventIsForThisSession
PROPERTIES RunningCoreStops JoinEnds
