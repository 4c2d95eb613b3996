CONSTANTS
  n1 = n1
  n2 = n2
  n3 = n3
  j1 = j1
  j2 = j2
  NoRef = NoRef
  NoRequest = NoRequest
  Absent = Absent
  NotAsked = NotAsked
  Open = Open
  Lost = Lost
  Nodes = {n1, n2}
  Jobs = {j1, j2}
  Requests <- Mixed
  Calm <- OtherJob
  MaxCrashes = 1
  MaxLost = 0
  SlowPeers = TRUE
  Overlap = TRUE
SPECIFICATION FairSpec
CHECK_DEADLOCK FALSE
INVARIANT SearchCountsDown
INVARIANT OpenRequestsAreHeld
INVARIANT TrackersMatchJobs
PROPERTY ImplementsDirectory
PROPERTY RequestsAreAnswered
