CONSTANTS
  Width = 2
  Obs = 3
  MaxAge = 1
  MaxLate = 2
  MaxMinute = 11
  Session = {0, 1, 2, 3, 4, 5, 6, 7, 10, 11}
  DayStarts = {9}
  Contested = {1}
  NBars = 6
  Warmup = 1
  Moves <- MCMoves
  Cost = 1
  MaxLoss = 1
  SessionMinutes = 4
  MaxTrouble = 1
  FeatureBars = 1
  SessionWidth = 2
  MaxFills = 4
  MaxPosition = 2
  MaxLost = 1
  End = 4
  MaxSlots = 2
  MaxSignals = 2
  Polls = {1}
  MaxRecovery = 1
  MaxToken = 2
  Instances = {"old", "new"}
  MaxFaults = 2
  MaxSessions = 3
  Viewers = {"ann", "bob"}
  Requests = {"r1", "r2"}
  SessionRows = {1, 2, 3, 4}
  MaxChanges = 1
  Paths = {"a", "b"}
  HostEntries = {0, 1}
  MaxEntries = 3
  MaxGoing = 2
SPECIFICATION SafetySpec
INVARIANTS
  RecoveryInv
  ReplayInv
  ResearchInv
  MigrationInv
  IdentityInv
  PageInv
PROPERTIES
  NeverRetroactive
CHECK_DEADLOCK FALSE
