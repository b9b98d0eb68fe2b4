CONSTANTS
    WORD = 64
    Sizes = {0, 3, 16, 63}
    Shapes <- SomeShapes
    Pointers = {0, 1, 2}
SPECIFICATION Spec
INVARIANTS
    SliceIsWhole
CHECK_DEADLOCK FALSE
