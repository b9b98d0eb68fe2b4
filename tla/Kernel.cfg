CONSTANTS
    PACKET_COUNT = 10
    FAULTY = 4
    INTER_CAP = 16
    COMPLETION_CAP = 32
    TENSOR_CAP = 2
    TENSOR_ELEMENTS = 1024
    MAX_FRAMES = 3
    Boots <- AllBoots
SPECIFICATION FairSpec
CHECK_DEADLOCK FALSE
INVARIANTS
    TypeOK
    Lineage
    NoDataRace
    FrameOwnership
    SumAgrees
    ErrorsUnreachable
    ConsoleOrder
PROPERTIES
    BatchCompletes
    Halts
