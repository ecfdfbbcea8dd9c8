SPECIFICATION FairSpec
CONSTANTS
  Targets = {web}
  MaxCycles = 2
  MaxFaults = 2
INVARIANT TypeOK
INVARIANT ProposalsAreOnRecord
INVARIANT AnswersAreFresh
PROPERTY HaltedGetsNoProposal
PROPERTY SignalEndsTheAgent
