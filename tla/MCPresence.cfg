SPECIFICATION FairSpec
CONSTANTS
  Clients = {builder, reviewer}
  Keys = {unknown}
  Policies <- MCPolicies
  MaxMinutes = 2
  MaxRejected <- MCRejected
  MaxOpen = 1
INVARIANTS
  NoRejectionForgotten
  TwoLinesAMinute
  LinesTellMore
PROPERTIES
  SilenceReported
CHECK_DEADLOCK FALSE
