CONSTANTS
  U32 = 65536
  ENT = 4
  DIRENT = 16
  SectorSizes = {32, 64}
  ClusterSizes = {1, 2, 4, 8}
  Configs <- MCConfigs
  FileSizes = {0, 40, 64, 65, 65576}
  MaxFormats = 2
  MaxCopies = 3
SPECIFICATION Spec
INVARIANTS Contiguous ContentKept Mirrored FreeBeyond AbortsOnlyWhenFull
PROPERTIES ImplementsVolume
CHECK_DEADLOCK FALSE
