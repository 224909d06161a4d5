\* Two processes share a pool of two bytes; an int has four bits.
SPECIFICATION MCSpec
CONSTANTS
    Procs = {p, q}
    Rgids = {r, s}
    PoolIds = {0}
    POOL_SIZE = 2
    VBASE = 20
    INT_MAX = 7
    PAGESZ = 2
    Zero = Zero
    Sizes = {2, 33}
    KSizes = {1, 2, 7}
    Aligns = {1, 15}
    Copies <- MCCopies
    MaxBrk = 2
SYMMETRY Alike
CHECK_DEADLOCK FALSE
INVARIANTS TypeOK PoolDisjoint KernelBoundary KnownBytes
