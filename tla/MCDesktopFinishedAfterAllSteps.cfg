SPECIFICATION Spec
CONSTANTS
  Builder = builder
  Reviewer = reviewer
  None = None
  Modes = {"human"}
  TurnLimit = 4
  MaxRuns = 2
  MaxTroubles = 1
INVARIANT FinishedAfterAllSteps
