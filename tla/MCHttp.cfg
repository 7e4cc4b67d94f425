CONSTANTS
  BufSize = 5
  Paths = {"/a", "/b"}
  MaxChanges = 1
  Setups <- MCSetups
  Replies <- MCReplies
SPECIFICATION Spec
INVARIANTS AnswerIsOwn CleanReuse  AnswersFramed
PROPERTIES ServerCloses RequestReturns
CHECK_DEADLOCK FALSE
