SPECIFICATION FairSpec
CONSTANTS
  Targets = {app}
  Values = {Unset, v1}
  Unset = Unset
  MaxPRs = 3
  Cooldown = 1
  Faults = {"early", "publish", "answer"}
  MaxFaults = 2
  MaxTime = 3
PROPERTY ApprovedIsProposed
