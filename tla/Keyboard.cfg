SPECIFICATION Spec
CONSTANTS
    BUFFER = 4
    Counts = {1, 3}

    
PROPERTIES
    IsQueue
