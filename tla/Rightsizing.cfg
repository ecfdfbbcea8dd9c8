SPECIFICATION FairSpec
CONSTANTS
  Requests = {0, 110, 400}
  Counts = {0, 3, 5}
  Usages = {0, 150, 800}
  Certainties = {33, 60}
  MinReplicas = 2
  MaxStepDown = 30
  MinCPU = 50
  MinConfidence = 60
  MaxEvents = 2
INVARIANT TypeOK
PROPERTY FloorsKept
PROPERTY CausesNoThrottling
PROPERTY StepDownCapped
PROPERTY LoopSettles
