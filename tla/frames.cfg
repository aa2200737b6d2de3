\* Every way to cut a stream of four frames into segments, pauses, one signal.
CONSTANTS
  Sizes <- MCSizes
  Start <- MCStart
  MaxDataSize = 3
  Timeout = 2
  MaxSignals = 1
SPECIFICATION FairSpec
INVARIANTS
  TypeOK
  FramesIntact
  WaitBounded
PROPERTIES
  WorkReturns
