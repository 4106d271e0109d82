SPECIFICATION Spec
CONSTANTS
    MAX_FILES = 2
    FILE_SECTORS = 2
    Names = {"x", "long", "readme"}
    Long = {"long"}
    Welcome = "readme"
    Contents <- MCContents
    WelcomeText <- MCWelcomeText
    MaxFaults = 0
    MaxBoots = 1
PROPERTIES
    WelcomeOnlyIfEmpty
