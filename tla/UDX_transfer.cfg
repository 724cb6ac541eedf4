SPECIFICATION FairSpec
CONSTANTS
  MaxSeq = 10
  WordBits = 3
  CountSpan = 32
  SeqSpan = 16
  CWndMin = 1
  CWndMax = 10
  CWndInitial = 10
  FWndMin = 1
  FWndMax = 9
  PacingMin = 1
  PacingMax = 2
  TimeOutInterval = 9
  AckInterval = 8
  NakInterval = 2
  MaxLatency = 1
  MaxLoss = 2
INVARIANTS
  TypeOK
  MissingAreGaps
  ContigIsReceived
  OnlySentIsNamed
PROPERTIES
  ShrunkWindowsDrain
  OnlyHolesMislead
  GapsAreRepaired
