SPECIFICATION Spec
CONSTANTS
  Targets = {app}
  Values = {v1, v2}
  MaxPRs = 3
  Window = 1
  RolloutTimeout = 1
  Lookback = 2
  RecheckInterval = 1
  RecheckFor = 2
  MaxRollbacks = 1
  RecordLimit = 4
  Faults = {"list", "read", "save", "call", "crash", "manifest"}
  MaxFaults = 2
  MaxTime = 4
  MaxChanges = 1
INVARIANT TypeOK
INVARIANT MemoryIsCurrent
INVARIANT RollbackFollowsFailure
PROPERTY FailureIsPermanent
PROPERTY VerdictsTakeTheirTime
PROPERTY ImplementsLifecycle
