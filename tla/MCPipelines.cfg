SPECIFICATION FairSpec
CONSTANTS
  FrameSizes = {16, 17, 20, 21, 24}
  MaxFrameSizes = {5, 16}
  HeaderSize = 12
  WordSize = 64
  SequenceSize = 4
  MaxLives = 3
INVARIANTS
  CleanUpIsExact
  ReceivesOnItsOwn
  FailureIsReported
  StarFrameIsSent
PROPERTIES
  UndoneInReverse
  ExitsAfterSignal
