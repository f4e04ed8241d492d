SPECIFICATION FairSpec
CONSTANTS
  Messages <- AllMessages
  Positions <- MCPositions
  MAX_QUEUE_SIZE = 2
  MaxMessages = 3
  MaxTicks = 2
INVARIANTS
  ArmedInStep
  ClockStopsWhenDisarmed
  DistanceMatchesCoordinates
PROPERTIES
  ArmTextIsCleared
