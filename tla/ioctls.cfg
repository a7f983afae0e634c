SPECIFICATION ISpec
CONSTANTS
  AreaBlocks <- ThreeTwoOne
  Requests <- SomeBios
  Discards = {}
  Deletes <- FirstBlocks
  Evictions = {1}
  MaxPages = 2
  TargetSize = 3
  Inserts <- SomeExtents
  Copies <- OneCopy
INVARIANTS
  CountersCautious
  TransformInverts
PROPERTIES
  PriorityForetells
