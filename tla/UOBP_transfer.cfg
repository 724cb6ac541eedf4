SPECIFICATION Spec
CONSTANTS
  NumBlocks = 2
  LevelSpan = 4
  MaxAckBits = 1
  AckLevelK = 2
  MinInflight = 1
  MaxInflight = 1
  AckTimeout = 3
  InfoResend = 2
  MaxWait = 1
  MaxLatency = 1
  NumObjects = 2
  MaxLoss = 1
INVARIANTS
  TypeOK
  InFlightIsExact
  ConfirmMeansStored
PROPERTY RefinesObjectTransfer
