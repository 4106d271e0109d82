SPECIFICATION Spec
CONSTANTS
    MAX_FILES = 2
    FILE_SECTORS = 2
    Names = {"x", "long", "readme"}
    Long = {"long"}
    Welcome = "readme"
    Contents <- MCContents
    WelcomeText <- MCWelcomeText
    MaxFaults = 2
    MaxBoots = 2
INVARIANTS
    TypeOK
    
    

    
