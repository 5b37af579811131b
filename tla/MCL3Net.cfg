SPECIFICATION LiveSpec
CONSTANTS
    TX_QUEUE_LIMIT = 3
    TX_LOW_WATERMARK = 2
    IO_BUDGET = 1
    HOST_ROOM = 1
    MaxTx = 4
    MaxRx = 2
    Faults = {"attach", "write", "mod", "hangup"}
INVARIANTS
    TypeOK
    QueueControl
    IoSound
    TeardownLeavesNothing
PROPERTIES
    L3Progress
CHECK_DEADLOCK FALSE
