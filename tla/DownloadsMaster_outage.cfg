CONSTANTS
  n1 = n1
  n2 = n2
  n3 = n3
  j1 = j1
  j2 = j2
  NoRef = NoRef
  NoRequest = NoRequest
  Absent = Absent
  NotAsked = NotAsked
  Open = Open
  Lost = Lost
  Nodes = {n1, n2, n3}
  Jobs = {j1}
  Requests <- TwoHomes
  Calm = {}
  MaxCrashes = 1
  MaxLost = 1
  SlowPeers = FALSE
  Overlap = FALSE
SPECIFICATION Spec
CHECK_DEADLOCK FALSE
INVARIANT OneTrackerPerJob
INVARIANT SettledCachesAgree
