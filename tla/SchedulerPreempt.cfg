SPECIFICATION PreemptSpec
CONSTANTS
    MAX_PROCESSES = 3
    QUANTUM = 2
    ExitCodes = {0}
PROPERTY
    WaiterWakes
