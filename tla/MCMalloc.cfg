CONSTANTS
  NPages = 3
  PGSIZE = 12
  HDR = 2
  Caches <- MCCaches
  SizeMod = 64
  Sizes = {3, 4, 11}
  Counts = {2}
  MaxLive = 3
SPECIFICATION Spec
INVARIANTS BlocksPartitioned MetadataSafe NoPageLost
PROPERTIES ReuseWholePages ImplementsHeap
CHECK_DEADLOCK FALSE
