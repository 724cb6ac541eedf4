SPECIFICATION Spec
CONSTANTS
  NumBlocks = 1
  LevelSpan = 4
  MaxAckBits = 1
  AckLevelK = 1
  MinInflight = 1
  MaxInflight = 2
  AckTimeout = 2
  InfoResend = 1
  MaxWait = 1
  MaxLatency = 2
  NumObjects = 2
  MaxLoss = 0
INVARIANT StopsWithEveryObject
