\* A wrapped call under policies that gate its decision, its outcome or both.
CONSTANTS
  Deployments <- SomeDeployments
  CustomSections <- SomeSections
  CallerSections <- Filled
  Subjects <- BothEvents
  MaxAttempts = 3
SPECIFICATION FairSpec
CHECK_DEADLOCK FALSE
INVARIANTS CallTypeOK LastRegisteredWins PassedNoPendingGate AnswerIsRecorded FnRunsOnce
PROPERTIES CallSettles
