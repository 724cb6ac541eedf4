SPECIFICATION FairSpec
CONSTANTS
  DataCount = 4
  TxMaxSeq = 5
  MinCwnd = 5
  MaxCwnd = 5
  InitialCwnd = 5
  TxInitialFlowWindow = 3
  RxInitialFlowWindow = 2
  TxExp = 3
  MaxPacing = 1
  AckInt = 1
  NakInt = 3
  NakMaxInt = 6
  MaxLatency = 1
  MaxLoss = 2
PROPERTIES
  GapsAreRepaired
  ReceiptIsAcknowledged
