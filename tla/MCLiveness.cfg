CONSTANTS
  Slots = {s1, s2}
  Budget = 1
  MaxQueue = 1
  MaxInbox = 1
  NRuns = 1
  MaxMinute = 3
  Window = 2
  MinSuffix = 1
  Chunk = 1
  Contested = {2}
  Sparse = {1}
  MaxSlots = 2
  MaxSignals = 1
  Polls = {1}
  MaxRecovery = 1
  MaxToken = 1
  Instances = {"old", "new"}
  MaxFaults = 2
  MaxBars = 3
  MaxFrames = 2
  MaxSessions = 3
  Viewers = {"ann", "bob"}
  Requests = {"r1"}
  Sessions = {1, 2, 3, 4}
  MaxTrouble = 2
SPECIFICATION LivenessSpec
INVARIANTS
  SourceInv
PROPERTIES
  FeedSpec
  StreamsSettle
  WorkerSettles
  
CHECK_DEADLOCK FALSE
