CONSTANTS
    CAP = 4
    WORD = 8
    Items = {a, b}
    Uninit = Uninit
SPECIFICATION FairSpec
INVARIANTS
    IInv
    NoDataRace
    NoOverwrite
    CheckThenAct
    DropDrains
PROPERTIES
    FifoSafety
    DropEnds
