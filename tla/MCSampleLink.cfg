SPECIFICATION SampleSpec
CONSTANTS
  Packs <- RelayPacks
  MaxSize = 5
  RtpMode = TRUE
  SeqRange = 5
  MaxNals = 2
  MaxFails = 0
  NetBound = 4
  RxCap = 40
  MAX_SIZE = 3
  OutSeqRange = 5
  PayloadByte = 0
  MaxLosses = 1
  MaxDups = 1
  Overtake = 1
INVARIANTS
  RelayedWhole
  WholeArrivalIsJoined
  FragmentsBounded
  StdoutOpensWithParameterSet
