\* An allocation whose number of pages does not fit an int of four bits.
SPECIFICATION Spec
CONSTANTS
    Procs = {p, q}
    NoProc = NoProc
    Rgids = {0, 1}
    NumFrames = 3
    INT_MAX = 7
    PAGESZ = 2
    MAX_PGN = 3
    FPN_LIMIT = 4
    Sizes = {33}
    DirectOps = {}
    NoRoom = {}
    MaxBrk = 4
    MaxWrites = 0
INVARIANTS SpaceReserved
