SPECIFICATION FairSpec
CONSTANTS
    MAX_PROCESSES = 4
    QUANTUM = 2
    ExitCodes = {0, 7}
INVARIANTS
    TypeOK
    OneRunning
    ContextIntact
    TssFollowsCurrent
    ExitDoesNotReturn
    NoLostWakeup
    BoundedBypass
PROPERTIES
    TerminatedIsFinal
    NoStarvation
    WaitReturns
