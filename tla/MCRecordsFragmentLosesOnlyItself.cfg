SPECIFICATION Spec
CONSTANTS
  MaxWrites = 6
  MaxStarts = 3
CHECK_DEADLOCK FALSE
INVARIANT FragmentLosesOnlyItself
