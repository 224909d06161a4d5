\* Three processes on two CPUs; the queues can hold all of them.
SPECIFICATION WaitFairSpec
CONSTANTS
    p1 = p1  p2 = p2  p3 = p3  p4 = p4
    Procs = {p1, p2, p3}
    CPUs = {c1, c2}
    NoProc = NoProc
    MAX_PRIO = 3
    MAX_QUEUE_SIZE = 3
    ConfPrio <- MCConfPrio3
INVARIANTS TypeOK Exclusive NoFreedReference NoneLost FoundByPid BoundedWait
PROPERTIES EveryReadyRuns
