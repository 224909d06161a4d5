\* Two processes that write while the other allocates, frees and exits.
SPECIFICATION Spec
CONSTANTS
    Procs = {p, q}
    NoProc = NoProc
    Rgids = {0, 1}
    NumFrames = 2
    INT_MAX = 7
    PAGESZ = 2
    MAX_PGN = 2
    FPN_LIMIT = 4
    Sizes = {1, 3}
    DirectOps = {"IO_WRITE"}
    NoRoom = {}
    MaxBrk = 4
    MaxWrites = 2
SYMMETRY Alike
INVARIANTS RegionsDisjoint ReadYourWrites AllReturned
