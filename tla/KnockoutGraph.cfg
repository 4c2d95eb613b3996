CONSTANTS
  AllNodes <- MCNodes
  Handlers <- MCHandlers
  Graphs <- MCGraphs
  None = None
  Itself = Itself
SPECIFICATION Spec
INVARIANT NobodyIsStale
INVARIANT SubscribedToWhatItReads
PROPERTY DisposedIsSilent
PROPERTY LimitedIsHeard
