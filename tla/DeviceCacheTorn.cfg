CONSTANTS
    NumBytes = 6
    Guesses <- SomeGuesses
    UNINSTALL_DATA_MAX = 2
    Requests <- SomeRequests
    MaxFaults = 2
    MayVanish = FALSE
SPECIFICATION Spec
INVARIANT FailedInstallIsReversed
CHECK_DEADLOCK FALSE
