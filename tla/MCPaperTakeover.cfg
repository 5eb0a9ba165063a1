CONSTANTS
  r1 = r1
  r2 = r2
  i1 = i1
  i2 = i2
  c1 = c1
  Runs = {r1, r2}
  NoRun = NoRun
  LeaseTicks = 1
  Intents = {i1}
  Longs = {i1}
  Reconcilers = {c1}
  MaxReconciles = 0
  GatewayErrors = FALSE
  NoIntent = NoIntent
  NoOne = NoOne
SPECIFICATION FairSpec
INVARIANTS
  LeaseInv
  TokensIdentifyRuns
  LiveRunOwnsLease
  SubmitPinsOwner
  OnePostUnderLease
  StartupResolvesUncertainty
  SettledMeansNoOrder
PROPERTIES
  CheckpointNeverRegresses
  LeaseSpec
  SubmitEnds
CHECK_DEADLOCK FALSE
