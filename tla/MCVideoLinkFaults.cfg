SPECIFICATION LinkSpec
CONSTANTS
  Packs <- SmallAvcPacks
  MaxSize = 3
  RtpMode = FALSE
  SeqRange = 4
  MaxNals = 3
  MaxFails = 0
  NetBound = 2
  RxCap = 19
  MaxLosses = 1
  MaxDups = 1
  Overtake = 1
INVARIANTS
  WholeArrivalIsDelivered
  DamageContained
