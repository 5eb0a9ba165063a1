CONSTANTS
  MaxSlots = 3
  MaxSignals = 1
  Polls = {1, 2}
  MaxRecovery = 1
SPECIFICATION Spec
INVARIANTS
  PollingGoesOn
  OnePerPeer
CHECK_DEADLOCK FALSE
