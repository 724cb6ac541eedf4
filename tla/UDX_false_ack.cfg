SPECIFICATION FairSpec
CONSTANTS
  MaxSeq = 3
  WordBits = 4
  CountSpan = 16
  SeqSpan = 8
  CWndMin = 1
  CWndMax = 8
  CWndInitial = 8
  FWndMin = 1
  FWndMax = 8
  PacingMin = 1
  PacingMax = 1
  TimeOutInterval = 3
  AckInterval = 4
  NakInterval = 2
  MaxLatency = 0
  MaxLoss = 2
PROPERTY EverythingArrives
