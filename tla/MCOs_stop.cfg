\* One process on two CPUs: does the simulator stop?
SPECIFICATION FairSpec
CONSTANTS
    p1 = p1  p2 = p2  p3 = p3  p4 = p4
    Procs = {p1}
    CPUs = {c1, c2}
    NoProc = NoProc
    Loader = ld
    MAX_PRIO = 2
    MAX_QUEUE_SIZE = 4
    ConfPrio <- MCPrio1
    LoadOrder <- MCLoad1
    start_time <- MCStart1
    code_size <- MCSize1
    TimeSlots = {2}
    MaxTime = 6
PROPERTIES AllStop
