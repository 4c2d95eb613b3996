CONSTANTS
  Offers <- MCOffers
  Supported <- MCBrowser
  Calls <- MCCalls
  MaxRedirects = 2
  MaxStarts = 2
  MaxStops = 1
SPECIFICATION Spec
CHECK_DEADLOCK FALSE
INVARIANT LayersAgree
INVARIANT SilenceIsNoticed
INVARIANT CallsAreSettled
INVARIANT CloseIsTold
PROPERTY PromisesSettle
