SPECIFICATION Spec
CONSTANTS
    VGA_WIDTH = 5
    VGA_HEIGHT = 2
    LINE = 3
    MAX_HIST = 2
    Prompt <- MCPrompt
    Chars <- MCChars
    Space <- Blank
    Commands <- MCCommands
    Files <- MCFiles
    Clear <- MCClear
    Outputs <- MCOutputs
    MaxEntered = 3
INVARIANTS
    NavigationInLast
