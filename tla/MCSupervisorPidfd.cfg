SPECIFICATION Spec
CONSTANTS
    Routes = 1
    KIND = "nft"
    CONTROL_TIMEOUT = 2
    GRACE = 2
    MaxLives = 1
    Faults = {"pidfd"}
INVARIANTS
    KillsOnlyItsChild
CHECK_DEADLOCK FALSE
