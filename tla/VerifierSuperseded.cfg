SPECIFICATION Spec
CONSTANTS
  Targets = {app}
  Values = {v1, v2, v3}
  MaxPRs = 4
  Window = 1
  RolloutTimeout = 1
  Lookback = 2
  RecheckInterval = 0
  RecheckFor = 2
  MaxRollbacks = 2
  RecordLimit = 4
  Faults = {}
  MaxFaults = 0
  MaxTime = 3
  MaxChanges = 2
INVARIANT OverwritesItsOwnChange
