SPECIFICATION Spec
CONSTANTS
  Calls = {"stop", "operator", "update"}
  MaxCalls = 1
INVARIANTS
  TypeOK
  ReplacementIsReconciled
  OneConsumer
  StopFreesLease
PROPERTY
  StoppedOpensNothing
CHECK_DEADLOCK FALSE
