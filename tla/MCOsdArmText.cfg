SPECIFICATION Spec
CONSTANTS
  Messages <- ArmMessages
  Positions <- MCPositions
  MAX_QUEUE_SIZE = 2
  MaxMessages = 2
  MaxTicks = 1
INVARIANT ArmTextIsTrue
