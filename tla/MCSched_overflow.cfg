\* Queues of two entries: level 0 and the running list overflow.
SPECIFICATION Spec
CONSTANTS
    p1 = p1  p2 = p2  p3 = p3  p4 = p4
    Procs = {p1, p2, p3, p4}
    CPUs = {c1, c2}
    NoProc = NoProc
    MAX_PRIO = 2
    MAX_QUEUE_SIZE = 2
    ConfPrio <- MCConfPrioCrowd
INVARIANTS Exclusive NoFreedReference
PROPERTIES LostOnlyByOverflow
