SPECIFICATION Spec
CONSTANTS
  AreaBlocks <- ThreeTwoOne
  Requests <- FixedBios
  Discards = {}
  Deletes <- FixedExtents
  Evictions = {1, 3}
  MaxPages = 3
  TargetSize = 16
INVARIANTS
  TypeOK
  Coherent
  BioSafeAtHome
PROPERTIES
  StorageSpec
