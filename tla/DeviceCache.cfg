CONSTANTS
    NumBytes = 6
    Guesses <- SomeGuesses
    UNINSTALL_DATA_MAX = 3
    Requests <- SomeRequests
    MaxFaults = 2
    MayVanish = TRUE
SPECIFICATION Spec
INVARIANTS
    WritesReachDiskInOrder
    SuccessIsHandedOver
    UndoRestoresDisk
PROPERTIES
    KeepsPromise
    UndoEnds
CHECK_DEADLOCK FALSE
