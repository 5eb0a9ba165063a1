CONSTANTS
  r1 = r1
  r2 = r2
  i1 = i1
  i2 = i2
  c1 = c1
  Runs = {r1}
  NoRun = NoRun
  LeaseTicks = 1
  Intents = {i1, i2}
  Longs = {i1, i2}
  Reconcilers = {c1}
  MaxReconciles = 0
  GatewayErrors = FALSE
  NoIntent = NoIntent
  NoOne = NoOne
SPECIFICATION Spec
INVARIANT
  PositionIsATarget
CHECK_DEADLOCK FALSE
