SPECIFICATION Spec
CONSTANTS
  Targets = {app}
  Values = {Unset, v1, v2}
  Unset = Unset
  MaxPRs = 3
  Cooldown = 1
  Faults = {"manifest", "early"}
  MaxFaults = 1
  MaxTime = 2
INVARIANT TypeOK
INVARIANT OneOpenPerBranch
INVARIANT BodiesTellTheBranch
PROPERTY OpensNothingDeclined
PROPERTY CooldownKept
PROPERTY AnswerProposes
