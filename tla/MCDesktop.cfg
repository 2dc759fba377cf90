SPECIFICATION MonitorSpec
CONSTANTS
  Builder = builder
  Reviewer = reviewer
  None = None
  Modes = {"human", "supervised"}
  TurnLimit = 4
  MaxRuns = 2
  MaxTroubles = 1
INVARIANTS
  CursorAgrees
  StepsInOrder
  CompletedMeansVerified
PROPERTIES
  HandoffsApproved
  FinalIsKept
  UsesBaton
  LimitStops
