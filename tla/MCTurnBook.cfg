SPECIFICATION Spec
CONSTANTS
  Clients = {claude, codex}
  Waiters = {codex}
  Outputs = {o1, o2}
  Nobody = Nobody
  Nothing = Nothing
  MaxTurn = 2
  MaxRun = 2
  MaxProposal = 1
  MaxMint = 3
INVARIANTS
  OneAppAtWork
  ReplayAgrees
  NothingSkipped
  InputsReceived
PROPERTIES
  TurnsOnlyAdvance
  HeldUntilResumed
  RunFolderFresh
  KeepsPromise
