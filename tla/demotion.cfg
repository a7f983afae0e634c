SPECIFICATION Spec
CONSTANTS
  c1 = c1
  c2 = c2
  k = k
  Clients = {c1, c2}
  Callers = {k}
  AreaBlocks <- OneTwoOne
  Requests <- TwoWritten
  Deletes = {0}
  Evictions = {1}
  Deferrals = {FALSE}
INVARIANTS
  SpacePartition
  CountersRunAhead
  RunsShortOnlyBesideOthers
  LostOnlyInRaces
  RefusedHasTwin
  MappedIsCurrent
SYMMETRY Symmetry
