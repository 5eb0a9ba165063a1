SPECIFICATION Spec
CONSTANTS
  Calls = {}
  MaxCalls = 0
INVARIANT
  StreamsAreAttended
CHECK_DEADLOCK FALSE
