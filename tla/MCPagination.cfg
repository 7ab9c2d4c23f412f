SPECIFICATION LoopSpec
CONSTANTS
  MaxPages = 3
  MaxItem = 4
INVARIANTS
  TypeOK
  DeliversInOrder
  OnDemand
  PageInfoTruthful
PROPERTY
  KeepsStream
  LoopEnds
