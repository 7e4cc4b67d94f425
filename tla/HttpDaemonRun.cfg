CONSTANTS
  NumWorkers = 3
  NumRequests = 4
  MaxFail = 2
  Returns = TRUE
  Tls = FALSE
SPECIFICATION FairSpec
INVARIANTS Accounted OwnSlot ServedBeforeReturn
PROPERTIES RunReturns EventuallyServed
