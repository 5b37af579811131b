SPECIFICATION FairSpec
CONSTANTS
    SESSION_LIMIT = 2
    GENERATION_MASK = 2
    QUEUE_LIMIT = 2
    MaxStarts = 3
    Faults = {"enomem", "host", "eio"}
INVARIANTS TypeOK RegistrySound
PROPERTIES CallsEnd
CHECK_DEADLOCK FALSE
