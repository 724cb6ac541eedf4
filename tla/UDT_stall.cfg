SPECIFICATION FairSpec
CONSTANTS
  DataCount = 3
  TxMaxSeq = 3
  MinCwnd = 2
  MaxCwnd = 2
  InitialCwnd = 2
  TxInitialFlowWindow = 4
  RxInitialFlowWindow = 4
  TxExp = 3
  MaxPacing = 1
  AckInt = 1
  NakInt = 3
  NakMaxInt = 6
  MaxLatency = 0
  MaxLoss = 1
PROPERTY GapsAreRepaired
