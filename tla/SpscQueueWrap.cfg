CONSTANTS
    CAP = 3
    WORD = 8
    Items = {a}
    Uninit = Uninit
SPECIFICATION Spec
INVARIANT NoOverwrite
