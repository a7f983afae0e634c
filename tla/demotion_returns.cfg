SPECIFICATION FairSpec
CONSTANTS
  c1 = c1
  c2 = c2
  k = k
  Clients = {c1, c2}
  Callers = {k}
  AreaBlocks <- OneEach
  Requests <- ThreeRead
  Deletes = {0}
  Evictions = {1}
  Deferrals = {FALSE, TRUE}
PROPERTIES
  BiosReturn
  CallsReturn
