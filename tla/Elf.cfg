SPECIFICATION ElfSpec
CONSTANTS
    PAGE_SIZE = 8
    HEADER = 4
    LIMIT = 64
    Memory = {2, 3, 4, 6}
    Requests = {0, 5, 62}
    MaxTotal = 36
    Files <- MCFiles
    EMPTY_SIZE = 8
    FREE_SLOTS = 2
    MaxLoads = 2
INVARIANTS
    TypeOK
    TotalsExact
    RequestFits
    Coalesced
    
CHECK_DEADLOCK FALSE
