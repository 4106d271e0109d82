SPECIFICATION PagingSpec
CONSTANTS
    PAGE_SIZE = 2
    WORD = 4
    BITMAP_WORDS = 2
    RESERVED = 2
    MAX_ADDR = 36
    Boots <- MCBoots
    ENTRIES = 6
    Remapped = {4, 5, 6}
    Frames = {4, 6}
    Flags <- MCFlags
    Callers = {"p", "q"}
INVARIANTS
    PagingTypeOK
    CountersMatch
    OwnedStaysMarked
    KernelKept
    
    TlbCoherent
    TablesKept
PROPERTIES
    IsPool
CHECK_DEADLOCK FALSE
