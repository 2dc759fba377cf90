SPECIFICATION Spec
CONSTANTS
  Files = {1, 2}
  Shas = {"a1", "b", "x"}
  NameOf <- MCNameOf
  Folder <- MCFolder
  Arrivals <- MCArrivals
  Bad = Bad
  Nothing = Nothing
  Callers = {c1, c2}
  MaxChanges = 2
  MaxScans = 2
INVARIANTS
  NamesUnique
  RecordTells
PROPERTIES
  FreshAnswer
  NeverBack
SYMMETRY CallersAlike
CHECK_DEADLOCK FALSE
