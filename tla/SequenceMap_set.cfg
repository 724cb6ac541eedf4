SPECIFICATION FairSpec
CONSTANTS
  MaxSeq = 4
  WordBits = 3
  CountSpan = 16
INVARIANTS
  TypeOK
  CountIsExact
  BoundsCover
PROPERTIES
  RefinesSequenceSet
  NoOvertaking
  NoStarvation
