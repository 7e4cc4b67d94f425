CONSTANTS
  BufSize = 5
  Paths = {"/a", "/b"}
  MaxChanges = 1
  Setups <- MCOnePost
  Replies <- MCReplies
SPECIFICATION Spec
INVARIANTS ConsumesBody
CHECK_DEADLOCK FALSE
