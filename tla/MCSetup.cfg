SPECIFICATION Spec
CONSTANTS
  Begin <- MCBegin
  BeginKeys <- MCBeginKeys
  MaxSaves = 2
  AppsQuiet = TRUE
INVARIANTS
PROPERTIES
  DoneMeansReady
  FailedLeavesSettings
  BackedUpFirst
  ReplacedWhenShown
  KeysStay
CHECK_DEADLOCK FALSE
