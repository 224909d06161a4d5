\* A process that uses all of RAM and allocates once more.
SPECIFICATION Spec
CONSTANTS
    Procs = {p, q}
    NoProc = NoProc
    Rgids = {0, 1}
    NumFrames = 2
    INT_MAX = 7
    PAGESZ = 2
    MAX_PGN = 4
    FPN_LIMIT = 4
    Sizes = {3}
    DirectOps = {}
    NoRoom = {}
    MaxBrk = 8
    MaxWrites = 0
INVARIANTS AllocBacked
