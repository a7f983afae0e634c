SPECIFICATION Spec
CONSTANTS
  AreaBlocks <- OneEach
  MaxStart = 31
  MaxCount = 48
INVARIANTS
  MoveComplete
  BioSent
PROPERTIES
  MoveInStripe
