SPECIFICATION FairSpec
CONSTANTS
    l1 = l1
    l2 = l2
    c1 = c1
    c2 = c2
    Listener = {l1, l2}
    Conn = {c1, c2}
    MAX_CONNECTIONS = 1
    ACCEPT_BATCH = 2
    MAX_LISTENERS = 2
    WORK_LIMIT = 3
    Timeouts = {"drain", "stop"}
    Faults = {"accept", "bridge", "enomem", "thread"}
INVARIANTS TypeOK BooksExact QueueSound
PROPERTIES ServiceEnds
CHECK_DEADLOCK FALSE
