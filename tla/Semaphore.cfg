SPECIFICATION FairSpec
CONSTANTS
    N = 3
    Value = 2
INVARIANTS
    TypeOK
    MutualExclusion
PROPERTIES
    LooksAtomic
    WaitsAreServed
