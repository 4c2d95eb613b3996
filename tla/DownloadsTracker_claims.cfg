CONSTANTS
  d1 = d1
  d2 = d2
  Documents = {d1, d2}
  CrawlTimes = {1, 2}
  DefaultCrawlTime = 3
  NoEstimate = NoEstimate
  Unrecorded = Unrecorded
  NoTimeout = NoTimeout
  ClockSteps <- SetBack
  MaxTime = 4
SPECIFICATION Spec
CHECK_DEADLOCK FALSE
PROPERTY ClaimsLast
