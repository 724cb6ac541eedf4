SPECIFICATION FairSpec
CONSTANTS
  NumBlocks = 3
  LevelSpan = 4
  MaxAckBits = 1
  AckLevelK = 2
  MinInflight = 1
  MaxInflight = 1
  AckTimeout = 3
  InfoResend = 2
  MaxWait = 1
  MaxLatency = 2
  NumObjects = 1
  MaxLoss = 2
PROPERTIES
  NoOvertaking
  EveryObjectArrives
