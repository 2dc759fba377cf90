SPECIFICATION Spec
CONSTANTS
  MaxWrites = 6
  MaxStarts = 3
INVARIANTS
  AcknowledgedKept
  ReadInOrder
CHECK_DEADLOCK FALSE
