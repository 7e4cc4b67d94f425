CONSTANTS
  SectSize = 4
  MemSize = 84
  SectorData = 2
  HighMemory = 64
  LoadStart = 8
  HeapOffset = 24
  HeapEnd = 40
  ByteMod = 8
  PageSize = 6
  KernelHeaders <- MCKernelHeaders
  PhdrSize = 2
  BufSize = 3
  Elves <- MCElves
SPECIFICATION Spec
INVARIANTS SetupInPlace PayloadInPlace SegmentsLoaded TextWhole
CHECK_DEADLOCK FALSE
