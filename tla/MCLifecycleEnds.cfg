SPECIFICATION FairSpec
CONSTANTS
  Calls = {"stop"}
  MaxCalls = 1
PROPERTIES
  TradeRecoveryEnds
  HaltIsRecorded
CHECK_DEADLOCK FALSE
