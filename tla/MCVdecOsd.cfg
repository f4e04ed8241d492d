SPECIFICATION Spec
CONSTANTS
  Positions <- OrdinaryPositions
  Second = 2
  Minute = 2
  Hour = 2
  FrameGap = 1
  Boot = 1
  MaxNow = 6
  MaxFrames = 2
  MaxMessages = 4
INVARIANTS
  DistanceFromHome
  LatitudeOfOnePosition
  ClockNotAhead
  EachFrameInOneFigure
