SPECIFICATION Spec
CONSTANTS
  MaxRepetitions = 3
INVARIANTS TerminalErrnoIsFailure
CHECK_DEADLOCK FALSE
