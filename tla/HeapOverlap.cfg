SPECIFICATION Spec
CONSTANTS
    PAGE_SIZE = 8
    HEADER = 4
    LIMIT = 64
    Memory = {2, 3, 4, 6}
    Requests = {0, 3, 5, 62}
    MaxTotal = 48
INVARIANTS
    MemoryExclusive
CHECK_DEADLOCK FALSE
