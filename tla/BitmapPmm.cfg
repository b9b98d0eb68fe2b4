CONSTANTS
    BITS = 2
    BITMAP_WORDS = 2
    FRAME_SIZE = 4
    ADDR = 32
    MemoryMaps <- SomeMaps
    Numbers <- SomeNumbers
SPECIFICATION Spec
INVARIANTS
    TypeOK
    CountersAgree
    UsableExact
PROPERTIES
    AllocatorSafety
