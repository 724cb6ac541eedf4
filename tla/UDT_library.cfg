SPECIFICATION Spec
CONSTANTS
  TxMaxSeq = 4
  MinCwnd = 1
  MaxCwnd = 3
  InitialCwnd = 2
  TxInitialFlowWindow = 3
  RxInitialFlowWindow = 2
INVARIANTS
  TypeOK
  AccountsAgree
  ReportsAreTrue
  MissingAreGaps
PROPERTIES
  OnlyNewDataCounts
  QueuedIsNotLost
  RefinesReliableDelivery
