SPECIFICATION FairSpec
CONSTANTS
  AreaBlocks <- ThreeTwoOne
  Requests <- MixedBios
  Discards = {}
  Deletes <- SomeExtents
  Evictions = {}
  MaxPages = 2
  TargetSize = 16
PROPERTIES
  DeleteWithinRange
