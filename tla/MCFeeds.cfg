CONSTANTS
  NRuns = 2
  MaxMinute = 2
  Window = 2
  MinSuffix = 1
  Chunk = 1
  Contested = {1}
  Sparse = {}
  MaxBars = 3
  MaxFrames = 2
  Stamps = {0, 1, 2, 3}
  MaxExpected = 2
  MaxRows = 3
  DecisionRows = 1
  TapeRows = 2
  Limit = 3
  MaxWrites = 5
SPECIFICATION FeedsSpec
INVARIANTS
  WorkerInv
  StockInv
  TapeInv
PROPERTIES
  LedgerSpec
CHECK_DEADLOCK FALSE
