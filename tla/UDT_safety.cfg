SPECIFICATION Spec
CONSTANTS
  DataCount = 4
  TxMaxSeq = 5
  MinCwnd = 2
  MaxCwnd = 5
  InitialCwnd = 2
  TxInitialFlowWindow = 2
  RxInitialFlowWindow = 3
  TxExp = 4
  MaxPacing = 2
  AckInt = 1
  NakInt = 2
  NakMaxInt = 4
  MaxLatency = 2
  MaxLoss = 2
INVARIANTS
  TypeOK
  AccountsAgree
  NoFalseAck
  ReceiverIsExact
  OnlySentIsNamed
  CompleteMeansDelivered
  NoLostWakeup
PROPERTIES
  DuplicateIsIdempotent
  NoOvertaking
  RefinesReliableDelivery
  RefinesLibrary
