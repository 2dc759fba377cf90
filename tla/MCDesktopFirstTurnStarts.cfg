SPECIFICATION FairSpec
CONSTANTS
  Builder = builder
  Reviewer = reviewer
  None = None
  Modes = {"human"}
  TurnLimit = 4
  MaxRuns = 1
  MaxTroubles = 1
PROPERTY FirstTurnStarts
