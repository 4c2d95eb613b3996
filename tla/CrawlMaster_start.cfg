CONSTANTS
  u = u
  v = v
  NoClient = NoClient
  Clients = {u, v}
  FirstClient = u
  Commands <- AllCommands
  MaxCommands = 2
  MaxRoutees = 1
  MaxLeaves = 1
  MaxAsks = 2
  MaxReports = 1
SPECIFICATION FairSpec
CHECK_DEADLOCK FALSE
INVARIANT RootRequestedOnce
INVARIANT RootReachesACoordinator
INVARIANT CommandsAreHeld
PROPERTY JobIsKickedOff
PROPERTY KickedOffJobStops
