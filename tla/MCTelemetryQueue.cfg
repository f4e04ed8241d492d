SPECIFICATION PathFairSpec
CONSTANTS
  Item = {"i1", "i2"}
  NoItem = NoItem
  MAX_QUEUE_SIZE = 2
  MaxItems = 6
  Frames <- SmallFrames
  MAVLINK_STX = 3
  MAVLINK_STX_MAVLINK1 = 4
  MaxByte = 4
  SIGNATURE_BLOCK_LEN = 2
  MaxFrames = 3
  MaxGaps = 1
INVARIANTS
  TypeOK
  NoLostSignal
  WholeFrameIsTaken
  Resynchronises
PROPERTIES
  QueueIsFifo
  EveryItemTaken
