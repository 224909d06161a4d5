\* Two areas compete for three frames and outgrow RAM and the page table.
SPECIFICATION FairSpec
CONSTANTS
    Procs = {p, q}
    NoProc = NoProc
    Rgids = {0}
    NumFrames = 3
    INT_MAX = 7
    PAGESZ = 2
    MAX_PGN = 2
    FPN_LIMIT = 4
    Sizes = {5}
    DirectOps = {"INC", "MAP"}
    NoRoom = {0}
    MaxBrk = 6
    MaxWrites = 0
INVARIANTS TypeOK FrameExclusive FifoIsPresent
PROPERTIES LostOnlyByMap TablesAreFlat LockReleased
