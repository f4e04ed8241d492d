SPECIFICATION Spec
CONSTANTS
  Positions <- EarthPositions
  Second = 3
  Minute = 2
  Hour = 2
  FrameGap = 2
  Boot = 1
  MaxNow = 3
  MaxFrames = 0
  MaxMessages = 3
INVARIANT DistanceEndsAreTrue
