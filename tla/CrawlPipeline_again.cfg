CONSTANTS
  r = r
  a = a
  b = b
  c1 = c1
  c2 = c2
  c3 = c3
  Unrecorded = Unrecorded
  NoTimeout = NoTimeout
  NoEstimate = NoEstimate
  Documents = {r, a, b}
  RootDocument = r
  Coordinators = {c1, c2, c3}
  Scenarios <- JustOverdue
  MaxReports = 1
  MaxTime = 2
SPECIFICATION Spec
CHECK_DEADLOCK FALSE
PROPERTY ProcessedIsNotHandedOut
