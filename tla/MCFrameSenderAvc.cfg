SPECIFICATION Spec
CONSTANTS
  Packs <- AvcPacks
  MaxSize = 3
  RtpMode = TRUE
  SeqRange = 5
  MaxNals = 3
  MaxFails = 1
  NetBound = 12
INVARIANTS
  TypeOK
  NeverStartAndEnd
  ReleasedIsCarried
  StopLeavesNoPartialNal
  RtpSequenceContiguous
  DatagramBounded
