CONSTANTS
    BlockSize = 512
    LbSize = 512
    EntrySize = 512
    NumEntries = 16
    EntryLba1 = 3
    EntryLba2 = 106
    LastLba = 138
    BootloaderFileSize = 19250
    UNINSTALL_DATA_MAX = 256
    UINT32 = 65536
    Numbers = {0, 1, 2, 3, 16, 17, 18}
    Beyond <- Zero
    Starts <- SomeStarts
    MaxFaults = 1
SPECIFICATION Spec
INVARIANTS
    InstallUndone
    TableKept
    ConvertedTable
    PartitionsKept
    StageTwoComplete
    GptStaysValid
CHECK_DEADLOCK FALSE
