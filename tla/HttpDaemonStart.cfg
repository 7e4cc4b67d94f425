CONSTANTS
  NumWorkers = 2
  NumRequests = 3
  MaxFail = 1
  Returns = FALSE
  Tls = TRUE
SPECIFICATION Spec
PROPERTIES ImplementsDispatch
