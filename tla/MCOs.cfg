\* Four processes on two CPUs with slices of two slots, or of none that end.
SPECIFICATION FairSpec
CONSTANTS
    p1 = p1  p2 = p2  p3 = p3  p4 = p4
    Procs = {p1, p2, p3, p4}
    CPUs = {c1, c2}
    NoProc = NoProc
    Loader = ld
    MAX_PRIO = 2
    MAX_QUEUE_SIZE = 4
    ConfPrio <- MCPrio
    LoadOrder <- MCLoad
    start_time <- MCStart
    code_size <- MCSize
    TimeSlots = {0, 2}
    MaxTime = 6
INVARIANTS TypeOK RunsToTheEnd NoneStranded
PROPERTIES OncePerSlot AllFinish
