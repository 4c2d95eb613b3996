CONSTANTS
  None = None
  Handlers <- MCHandlers
  Setups <- MCSetups
  MaxShown = 2
  MaxWraps = 2
  MaxLingering = 2
SPECIFICATION Spec
INVARIANT MirrorsMatch
INVARIANT DomShowsList
PROPERTY GoneIsCleaned
PROPERTY NodesAreKept
