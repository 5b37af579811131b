SPECIFICATION FairSpec
CONSTANTS
  s1 = s1
  Session = {s1}
  BUFFER_LIMIT = 2
  TOTAL_BUFFER_LIMIT = 3
  DIRECTION_BUDGET = 2
  DISPATCH_BUDGET = 1
  SOCKET_SPACE = 2
  PublicBytes = 2
  HostBytes = 1
  Supply <- MCSupply
  Joined = {s1}
  Faults = {"reset","enomem","cancel"}
INVARIANTS TypeOK PoolExact Delivery NoUseAfterFree
PROPERTIES Finishes
CHECK_DEADLOCK FALSE
