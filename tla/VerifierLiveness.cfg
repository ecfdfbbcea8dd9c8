SPECIFICATION FairSpec
CONSTANTS
  Targets = {app}
  Values = {v1, v2}
  MaxPRs = 3
  Window = 1
  RolloutTimeout = 1
  Lookback = 4
  RecheckInterval = 0
  RecheckFor = 2
  MaxRollbacks = 2
  RecordLimit = 4
  Faults = {"list", "save", "call", "crash"}
  MaxFaults = 1
  MaxTime = 4
  MaxChanges = 1
PROPERTY MergedIsJudged
PROPERTY VerifyingEnds
PROPERTY DegradedIsAnswered
PROPERTY MergedRollbackIsRecorded
