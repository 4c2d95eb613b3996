CONSTANTS
  n1 = n1
  n2 = n2
  n3 = n3
  j1 = j1
  j2 = j2
  NoRef = NoRef
  NoRequest = NoRequest
  Absent = Absent
  NotAsked = NotAsked
  Open = Open
  Lost = Lost
  Nodes = {n1, n2}
  Jobs = {j1}
  Requests <- TwoHomes
  Calm = {}
  MaxCrashes = 0
  MaxLost = 0
  SlowPeers = FALSE
  Overlap = TRUE
SPECIFICATION Spec
CHECK_DEADLOCK FALSE
PROPERTY CreatedOnlyWhenNobodyHasIt
