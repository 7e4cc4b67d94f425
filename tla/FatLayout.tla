----------------------------- MODULE FatLayout ------------------------------
(***************************************************************************)
(* The arithmetic of a FAT32 volume in src/gpt/fat.c: what createFAT32     *)
(* writes into the BIOS parameter block, and where FAT32SuperInit finds    *)
(* the regions of the volume again.  Sector numbers count from the start   *)
(* of the volume.                                                          *)
(***************************************************************************)
EXTENDS Integers

CONSTANTS
  U32,           \* 2^32: uint32_t arithmetic is modulo this
  ENT,           \* sizeof(fat32_entry_t)
  DIRENT,        \* sizeof(struct FATDirEntry)
  SectorSizes,   \* the bytesPerSector createFAT32 accepts
  ClusterSizes   \* the clusterSize createFAT32 accepts

ASSUME FatLayoutAssumption ==
  /\ U32 \in Nat \ {0} /\ ENT \in Nat \ {0} /\ DIRENT \in Nat \ {0}
  /\ \A n \in SectorSizes : n \in Nat \ {0} /\ n % ENT = 0 /\ n \div ENT >= 8
  /\ ClusterSizes \subseteq Nat \ {0}

CDIV(a, b) == (a + b - 1) \div b

(* The part of BPB that is computed or read back.                          *)
Bpb(cfg) ==
  LET perSector == cfg.bytesPerSector \div ENT
  IN [bytesPerSector |-> cfg.bytesPerSector,
      numSectorPerCluster |-> cfg.clusterSize,
      numReservedSectors |-> 8,
      numAllocTable |-> 2,
      numSectors32 |-> cfg.nSector,
      fatSize32 |-> CDIV(cfg.nSector \div cfg.clusterSize, perSector),
      rootCluster |-> 2]

(* The checks of createFAT32 that return 1, and its assertion.             *)
ConfigOK(cfg) ==
  /\ cfg.nSector >= 16
  /\ cfg.bytesPerSector \in SectorSizes
  /\ cfg.clusterSize \in ClusterSizes

(* Every byte of the volume has an offset in uint32_t, the type in which   *)
(* FAT32SuperGetSector computes it: volumes of up to 4 GiB.                *)
Addressable(cfg) == cfg.nSector * cfg.bytesPerSector <= U32

EnoughClusters(cfg) == cfg.nSector \div cfg.clusterSize > 2

(* numFreeFATEntry.                                                        *)
InitialFree(b) ==
  (b.numAllocTable * b.fatSize32 * (b.bytesPerSector \div ENT) - 3) % U32

(* Mutant: the clusters of the whole volume, not of the data region.       *)
MaxCluster_AllSectors(b, numData) == b.numSectors32 \div b.numSectorPerCluster

MaxCluster(b, numData) == numData \div b.numSectorPerCluster

(* FAT32SuperInit, as far as it is arithmetic.                             *)
FAT32Super(b) ==
  LET numFAT == b.fatSize32 * b.numAllocTable
      numData == (b.numSectors32 - b.numReservedSectors - numFAT) % U32
      bytesPerCluster == b.numSectorPerCluster * b.bytesPerSector
  IN [bytesPerSector |-> b.bytesPerSector,
      bytesPerCluster |-> bytesPerCluster,
      sectorPerCluster |-> b.numSectorPerCluster,
      fatSize |-> b.fatSize32,
      numSector |-> b.numSectors32,
      numReserved |-> b.numReservedSectors,
      numFAT |-> numFAT,
      numData |-> numData,
      maxCluster |-> MaxCluster(b, numData),
      numRootEntry |-> bytesPerCluster \div DIRENT]

(* The first sector of a cluster, as FAT32Copyin computes it.              *)
ClusterSector(sb, c) ==
  (c - 2) * sb.sectorPerCluster + sb.numReserved + sb.numFAT

ClusterSectors(sb, c) ==
  ClusterSector(sb, c) .. ClusterSector(sb, c) + sb.sectorPerCluster - 1

(* The sector of tables[i][c]; i = 0 or 1.                                 *)
EntrySector(sb, i, c) ==
  sb.numReserved + i * sb.fatSize + (c * ENT) \div sb.bytesPerSector

(* The two helpers that state the layout from the BPB alone.               *)
numSectorDataRegion(b) ==
  (b.numSectors32 - (b.numReservedSectors + b.fatSize32 * b.numAllocTable)) % U32

clusterToFATEntry(b, n) ==
  LET fatOffset == (n * ENT) % U32
  IN [sector |-> b.numReservedSectors + fatOffset \div b.bytesPerSector,
      offset |-> fatOffset % b.bytesPerSector]
=============================================================================
