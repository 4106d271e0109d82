SPECIFICATION DevSpec
CONSTANTS
    WORD = 8
    RATE = 2
    SECOND = 3
    Delays = {0, 2, 3, 5}
    MaxTicks = 13
    Setups <- MCSetups
    Sectors = {1, 2}
    Values = {"v", "w"}
    None = None
INVARIANTS
    DiskSelected
PROPERTIES
    
    SleepEnds
    
CHECK_DEADLOCK FALSE
