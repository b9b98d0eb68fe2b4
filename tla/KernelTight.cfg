CONSTANTS
    PACKET_COUNT = 4
    FAULTY = 2
    INTER_CAP = 1
    COMPLETION_CAP = 4
    TENSOR_CAP = 1
    TENSOR_ELEMENTS = 1024
    MAX_FRAMES = 2
    Boots <- HealthyBoots
SPECIFICATION FairSpec
CHECK_DEADLOCK FALSE
INVARIANTS
    Lineage
PROPERTIES
    BatchCompletes
