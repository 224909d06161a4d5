\* Four pages of a table whose directories have two entries.
SPECIFICATION Spec
CONSTANTS
    D = 2
    MAX_PGN = 32
    Pgns <- MCPgns
    Fpns <- MCFpns
    SwpTyps <- MCSwpTyps
    SwpOffs <- MCSwpOffs
    Garbage <- MCGarbage
CHECK_DEADLOCK FALSE
INVARIANTS TypeOK TreeCounted NothingLeaks
PROPERTY ImplementsFlat
