SPECIFICATION MCSpec
CONSTANTS
  s1 = s1
  s2 = s2
  Session = {s1, s2}
  BUFFER_LIMIT = 1
  TOTAL_BUFFER_LIMIT = 1
  DIRECTION_BUDGET = 2
  DISPATCH_BUDGET = 1
  SOCKET_SPACE = 1
  PublicBytes = 1
  HostBytes = 0
  Supply <- MCSupply
  Joined = {}
  Faults = {}
  Bridges = {b1, b2}
  Probe = probe_token
  QUEUE_LIMIT = 2
  MaxSlept = 3
SYMMETRY Symmetry
INVARIANTS NoLostBufferWakeup NoLostDispatch EventsSound
CHECK_DEADLOCK FALSE
