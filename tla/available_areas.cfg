SPECIFICATION Spec
CONSTANTS
  AreaBlocks <- FiveTwoOne
INVARIANTS
  ListsAgree
  Unfragmented
PROPERTIES
  FreeSpaceSpec
