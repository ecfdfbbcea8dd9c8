SPECIFICATION Spec
CONSTANTS
  Targets = {app}
  Values = {Unset, v1, v2}
  Unset = Unset
  MaxPRs = 3
  Cooldown = 1
  Faults = {}
  MaxFaults = 0
  MaxTime = 1
INVARIANT MergedTellsTheTruth
