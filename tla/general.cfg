SPECIFICATION FairSpec
CONSTANTS
  AreaBlocks <- TwoFourOne
  Requests <- MixedBios
  Discards <- OneDiscard
  Deletes <- SomeExtents
  Evictions = {1, 2}
  MaxPages = 2
  TargetSize = 3
INVARIANTS
  SpacePartition
  BitsMatchAreas
  TierPurity
  Accounting
  RoomWasMade
  JustUsedStays
  NoSharedBlock
  VictimInTree
  NullAreaWasRefused
  AimedRightIfClean
PROPERTIES
  CallsReturn
