CONSTANTS
  EntriesPerSector = 4
  MaxLba = 2147483647
  Requests = {}
  U32 = 1073741824
  ENT = 4
  DIRENT = 32
  SectorSizes = {512, 1024, 2048, 4096}
  ClusterSizes = {1, 2, 4, 8, 16, 32, 64, 128}
  Programs = {"installer", "mkgpt"}
  DiskSizes = {1000000, 3145728, 150000000}
  BootMiBs = {0, 1, 2, 64, 128}
  FileSizes <- MCFileSizes
SPECIFICATION Spec
INVARIANTS FilesInPartition BootSectorsMatch CrashesOnlyWhenFull
CHECK_DEADLOCK FALSE
