CONSTANTS
    Seqs = {0, 1, 2, 3, 4, 5, 63, 64, 65, 66, 67, 68}
    Sizes = {0, 1, 3, 63, 65}
SPECIFICATION WindowSpec
INVARIANTS
    WindowInv
    NoReplay
    LateIsAccepted
