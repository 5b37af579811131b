SPECIFICATION MCSpec
CONSTANTS
  BRIDGE_SESSION_LIMIT = 2
  ACCEPT_BATCH = 2
  MaxRounds = 1
  MaxRss = 2
  Drift = 1
  MaxLate = 2
  MaxRepetitions = 3
  CapacityConnections = 3
INVARIANTS PassedIsEarned DriverSound BenchmarkSound TunTestSound
PROPERTIES HarnessEnds
CHECK_DEADLOCK FALSE
