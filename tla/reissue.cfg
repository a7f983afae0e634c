SPECIFICATION FairSpec
CONSTANTS
  K = 2
  T = 2
  Tables <- FourTables
  Bios <- AnyBio
INVARIANTS
  EndsAfterTransfers
  GoesHome
  SpillsBehind
PROPERTIES
  BiosEnd
