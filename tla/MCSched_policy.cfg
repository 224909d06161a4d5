\* Three processes on two CPUs; the selection rule the README states.
SPECIFICATION Spec
CONSTANTS
    p1 = p1  p2 = p2  p3 = p3  p4 = p4
    Procs = {p1, p2, p3}
    CPUs = {c1, c2}
    NoProc = NoProc
    MAX_PRIO = 3
    MAX_QUEUE_SIZE = 3
    ConfPrio <- MCConfPrio3
PROPERTIES LowestPrioFirst
