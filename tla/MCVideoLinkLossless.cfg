SPECIFICATION LinkFairSpec
CONSTANTS
  Packs <- HevcPacks
  MaxSize = 3
  RtpMode = TRUE
  SeqRange = 4
  MaxNals = 3
  MaxFails = 1
  NetBound = 3
  RxCap = 19
  MaxLosses = 0
  MaxDups = 0
  Overtake = 0
PROPERTIES
  LinkIsFifo
  DeliveredUnlessLost
