SPECIFICATION Spec
CONSTANTS
    Routes = 1
    KIND = "nft"
    CONTROL_TIMEOUT = 2
    GRACE = 3
    MaxLives = 1
    Faults = {}
PROPERTIES
    GraceHonoured
CHECK_DEADLOCK FALSE
