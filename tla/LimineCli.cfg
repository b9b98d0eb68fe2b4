CONSTANTS
    Sig <- PlusSig
    HashLen = 3
    Text <- SomeText
    Executable = "limine.sys"
    Starts <- SomeStarts
    LaterLines <- EnrollLines
    Devices = {"disk"}
    NoBios = FALSE
    DataDir = FALSE
    MaxRuns = 2
    MaxFaults = 1
SPECIFICATION Spec
INVARIANTS
    PlaceOfOptionsIrrelevant
    OnlyOneSlotChanges
CHECK_DEADLOCK FALSE
