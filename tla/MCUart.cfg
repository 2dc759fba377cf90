SPECIFICATION FairSpec
CONSTANTS
  Divisor = 3
  CounterSize = 4
  Bytes <- MCBytes
INVARIANTS
  ReadsTheByte
PROPERTIES
  EveryFrameRead
  KeepsFrames
  FrameEnds
