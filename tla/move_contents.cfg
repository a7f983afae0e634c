SPECIFICATION FairSpec
CONSTANTS
  AreaBlocks <- ThreeThreeOne
  Requests <- WritesOfThree
  Discards = {}
  Deletes = {}
  Evictions = {}
  MaxPages = 2
  TargetSize = 16
PROPERTIES
  MoveCarriesData
