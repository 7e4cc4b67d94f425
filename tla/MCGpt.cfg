CONSTANTS
  EntriesPerSector = 2
  MaxLba = 10
  Requests <- MCRequests
SPECIFICATION GptSpec
INVARIANTS PartitionsFit TableExact HeadersValid ClearsInDisk
CHECK_DEADLOCK FALSE
