SPECIFICATION FairSpec
CONSTANTS
  DataCount = 4
  TxMaxSeq = 5
  MinCwnd = 2
  MaxCwnd = 4
  InitialCwnd = 2
  TxInitialFlowWindow = 3
  RxInitialFlowWindow = 3
  TxExp = 2
  MaxPacing = 2
  AckInt = 7
  NakInt = 7
  NakMaxInt = 8
  MaxLatency = 1
  MaxLoss = 2
PROPERTY Completes
