CONSTANTS
  j = j
  k = k
  n1 = n1
  n2 = n2
  Nodes = {n1, n2}
  Jobs = {j, k}
  Starts = {1, 2}
  JobChoices <- SameOrOther
  Homes <- AnyHome
  MaxTrouble = 1
  NoStart = NoStart
  NoJob = NoJob
  NoRef = NoRef
SPECIFICATION FairSpec
CHECK_DEADLOCK FALSE
INVARIANT OneCrawlMasterPerJob
INVARIANT StartsAreKept
PROPERTY StartsAreAnswered
