CONSTANTS
  NumWorkers = 2
  NumRequests = 3
  MaxFail = 2
  Returns = TRUE
  Tls = FALSE
SPECIFICATION FairSpec
INVARIANTS ServedBeforeReturn
