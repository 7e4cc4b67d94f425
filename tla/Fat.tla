-------------------------------- MODULE Fat ---------------------------------
(***************************************************************************)
(* The FAT32 volume of src/gpt/fat.c: createFAT32 formats it, FAT32Copyin  *)
(* puts files into its root directory one after the other.                 *)
(*                                                                         *)
(* The metadata are the variables bpb .. root; data is what the sectors of *)
(* the data region hold.  Sector k of the n-th file copied is <<n, k>>, a  *)
(* zeroed sector is Zero.  Both functions run to their end in one process, *)
(* so a call is one step; an assertion that fails ends the process in the  *)
(* middle of the call.                                                     *)
(***************************************************************************)
EXTENDS FatLayout, Sequences, FiniteSets

CONSTANTS
  Configs,      \* the FATConfigs: [nSector, bytesPerSector, clusterSize]
  FileSizes,    \* st_size of the files to copy
  MaxFormats,   \* bound: calls of createFAT32
  MaxCopies     \* bound: calls of FAT32Copyin that write to a volume

ASSUME FatAssumption ==
  /\ Configs \subseteq [nSector : 0 .. U32 - 1, bytesPerSector : Nat, clusterSize : Nat]
  /\ \A cfg \in Configs : Addressable(cfg)
  /\ FileSizes \subseteq Nat
  /\ MaxFormats \in Nat /\ MaxCopies \in Nat

VARIABLES
  bpb, bpb6,      \* sector 0 and its copy in sector 6
  info, info7,    \* sector 1 (freeCount, nextFree) and its copy in sector 7
  fat,            \* the two allocation tables
  root,           \* the root directory's entries, in order
  data,           \* the sectors of the data region
  phase,          \* "blank", "ok"; an assertion of createFAT32 ("tooFew")
                  \* or of FAT32Copyin ("aborted") failed
  formats, tries, \* calls made
  copied          \* what the successful FAT32Copyins returned, in order

vars == <<bpb, bpb6, info, info7, fat, root, data, phase, formats, tries, copied>>

EOC == -1            \* 0xFFFFFFFF
Media == -2          \* 0xFFFF00 | media
Shut == -3           \* FAT32_CHUNK_SHUT_BITMASK | FAT32_HDR_ERROR_BITMASK
Zero == <<0, 0>>
NoBpb == [bytesPerSector |-> 0, numSectorPerCluster |-> 0, numReservedSectors |-> 0,
          numAllocTable |-> 0, numSectors32 |-> 0, fatSize32 |-> 0, rootCluster |-> 0]

Sectors == UNION {0 .. cfg.nSector - 1 : cfg \in Configs}

Init ==
  /\ bpb = NoBpb /\ bpb6 = NoBpb
  /\ info = [freeCount |-> 0, nextFree |-> 0] /\ info7 = info
  /\ fat = [i \in 0 .. 1 |-> <<>>]
  /\ root = <<>>
  /\ data = [s \in Sectors |-> Zero]
  /\ phase = "blank" /\ formats = 0 /\ tries = 0 /\ copied = <<>>

-----------------------------------------------------------------------------
EmptyTable(b) ==
  [c \in 0 .. b.fatSize32 * (b.bytesPerSector \div ENT) - 1 |->
     CASE c = 0 -> Media [] c = 1 -> Shut [] c = 2 -> EOC [] OTHER -> 0]

(* A config that fails the checks changes nothing.                         *)
createFAT32(cfg) ==
  /\ formats < MaxFormats
  /\ ConfigOK(cfg)
  /\ formats' = formats + 1
  /\ IF EnoughClusters(cfg)
     THEN LET b == Bpb(cfg)
          IN /\ bpb' = b /\ bpb6' = b
             /\ info' = [freeCount |-> InitialFree(b), nextFree |-> 3] /\ info7' = info'
             /\ fat' = [i \in 0 .. 1 |-> EmptyTable(b)]
             /\ root' = <<>>
             /\ data' = [s \in Sectors |->
                           IF s \in ClusterSectors(FAT32Super(b), 2) THEN Zero ELSE data[s]]
             /\ phase' = "ok" /\ copied' = <<>> /\ tries' = 0
     ELSE /\ phase' = "tooFew"
          /\ UNCHANGED <<bpb, bpb6, info, info7, fat, root, data, tries, copied>>

-----------------------------------------------------------------------------
sb == FAT32Super(bpb)

fobjSize(size) == size % U32
allocCluster(size) == CDIV(fobjSize(size), sb.bytesPerCluster)
maxFileSize_Whole == (sb.bytesPerCluster * sb.maxCluster) % U32   \* mutant
maxFileSize == (sb.bytesPerCluster * (sb.maxCluster - info.nextFree)) % U32

(* The loop that chains clusters writes one entry at least.                *)
Chained(size) == IF allocCluster(size) = 0 THEN 1 ELSE allocCluster(size)
LastCluster_Over(size) == info.nextFree + Chained(size)   \* mutant: one too many
LastCluster(size) == info.nextFree + Chained(size) - 1

(* Mutant: the loop runs once too often.                                   *)
FAT32SuperWriteEntry_Over(table, size) ==
  [c \in DOMAIN table |->
     IF c \in info.nextFree .. LastCluster(size) + 1 /\ c < sb.maxCluster
     THEN IF c >= LastCluster(size) THEN EOC ELSE c + 1
     ELSE table[c]]

(* Chain the clusters in a table, up to the entry whose assertion fails.   *)
FAT32SuperWriteEntry(table, size) ==
  [c \in DOMAIN table |->
     IF c \in info.nextFree .. LastCluster(size) /\ c < sb.maxCluster
     THEN IF c = LastCluster(size) THEN EOC ELSE c + 1
     ELSE table[c]]

(* Mutant: the clusters are not zeroed first.                              *)
Filled_NoZero(size, got) ==
  LET first == ClusterSector(sb, info.nextFree)
  IN [s \in Sectors |->
        IF s \in first .. first + CDIV(got, sb.bytesPerSector) - 1
        THEN <<tries + 1, s - first>> ELSE data[s]]

(* The clusters are zeroed, then got bytes are read into them.             *)
Filled(size, got) ==
  LET first == ClusterSector(sb, info.nextFree)
  IN [s \in Sectors |->
        IF s \in first .. first + allocCluster(size) * sb.sectorPerCluster - 1
        THEN IF s - first < CDIV(got, sb.bytesPerSector) THEN <<tries + 1, s - first>> ELSE Zero
        ELSE data[s]]

(* The entry put into the root directory, its name and dates left out.     *)
DirEntry(size) == [file |-> tries + 1, first |-> info.nextFree, size |-> fobjSize(size)]

FAT32SuperFree_Early == bpb6' = bpb /\ info7' = info   \* mutant: before the update

(* SuperFree: the copies of sectors 0 and 1.                               *)
FAT32SuperFree == bpb6' = bpb /\ info7' = info'

Accepts(size) == sb.maxCluster >= info.nextFree /\ fobjSize(size) <= maxFileSize
                 /\ Len(root) < sb.numRootEntry

(* The assertions that follow the directory entry.                         *)
EntriesFit(size) ==
  LastCluster(size) < sb.maxCluster /\ info.freeCount >= allocCluster(size)

CopyinBadFs ==
  /\ phase = "ok"
  /\ sb.maxCluster < info.nextFree
  /\ phase' = "aborted"
  /\ UNCHANGED <<bpb, bpb6, info, info7, fat, root, data, formats, tries, copied>>

CopyinRefused(size) ==
  /\ phase = "ok"
  /\ sb.maxCluster >= info.nextFree
  /\ ~Accepts(size)
  /\ UNCHANGED info
  /\ FAT32SuperFree
  /\ UNCHANGED <<bpb, fat, root, data, phase, formats, tries, copied>>

(* read() returns less than the size fstat reported.                       *)
CopyinShortRead(size, got) ==
  /\ phase = "ok"
  /\ tries < MaxCopies
  /\ Accepts(size)
  /\ got < fobjSize(size)
  /\ data' = Filled(size, got)
  /\ tries' = tries + 1
  /\ UNCHANGED info
  /\ FAT32SuperFree
  /\ UNCHANGED <<bpb, fat, root, phase, formats, copied>>

FAT32Copyin(size) ==
  /\ phase = "ok"
  /\ tries < MaxCopies
  /\ Accepts(size)
  /\ data' = Filled(size, fobjSize(size))
  /\ tries' = tries + 1
  /\ root' = Append(root, DirEntry(size))
  /\ fat' = [i \in 0 .. 1 |-> FAT32SuperWriteEntry(fat[i], size)]
  /\ IF EntriesFit(size)
     THEN /\ info' = [freeCount |-> info.freeCount - allocCluster(size),
                      nextFree |-> LastCluster(size) + 1]
          /\ FAT32SuperFree
          /\ copied' = Append(copied, [size |-> size, ret |-> ClusterSector(sb, info.nextFree)])
          /\ UNCHANGED phase
     ELSE phase' = "aborted" /\ UNCHANGED <<bpb6, info, info7, copied>>
  /\ UNCHANGED <<bpb, formats>>

Next ==
  \/ \E cfg \in Configs : createFAT32(cfg)
  \/ CopyinBadFs
  \/ \E size \in FileSizes :
       \/ CopyinRefused(size)
       \/ FAT32Copyin(size)
       \/ \E got \in {0, bpb.bytesPerSector} : CopyinShortRead(size, got)

Spec == Init /\ [][Next]_vars

-----------------------------------------------------------------------------
Info == [freeCount : 0 .. U32 - 1, nextFree : Nat]

(* The shape of the volume's state.                                        *)
TypeOK ==
  /\ info \in Info /\ info7 \in Info
  /\ \A i \in 0 .. 1 : \A c \in DOMAIN fat[i] : fat[i][c] \in Nat \cup {EOC, Media, Shut}
  /\ \A i \in DOMAIN root : root[i] \in [file : Nat, first : Nat, size : 0 .. U32 - 1]
  /\ phase \in {"blank", "ok", "tooFew", "aborted"}
  /\ formats \in 0 .. MaxFormats /\ tries \in 0 .. MaxCopies
  /\ \A i \in DOMAIN copied : copied[i] \in [size : Nat, ret : Nat]

FileClusters(e) ==
  LET n == CDIV(e.size, sb.bytesPerCluster)
  IN e.first .. e.first + (IF n = 0 THEN 1 ELSE n) - 1

(* Behind the root directory.                                              *)
DataSectors == sb.numReserved + sb.numFAT + sb.sectorPerCluster .. sb.numSector - 1

(* A file occupies consecutive clusters, chained in the table up to an end *)
(* mark (fat.h: "the file is allocated in a continuous block"), inside the *)
(* volume, as are their entries in the tables; no cluster belongs to two   *)
(* files or to the root directory.  The helpers that state the layout from *)
(* the BPB alone agree with it.                                            *)
Contiguous ==
  /\ TypeOK
  /\ phase = "ok" =>
       /\ \A i \in DOMAIN root : \A c \in FileClusters(root[i]) :
            /\ c > 2
            /\ fat[0][c] = IF c + 1 \in FileClusters(root[i]) THEN c + 1 ELSE EOC
            /\ ClusterSectors(sb, c) \subseteq DataSectors
            /\ EntrySector(sb, 0, c) < EntrySector(sb, 1, 0)
            /\ EntrySector(sb, 1, c) < sb.numReserved + sb.numFAT
       /\ \A i, j \in DOMAIN root : i # j => FileClusters(root[i]) \cap FileClusters(root[j]) = {}
       /\ numSectorDataRegion(bpb) = sb.numData /\ sb.numData < sb.numSector
       /\ \A c \in 0 .. sb.maxCluster - 1 :
            clusterToFATEntry(bpb, c).sector = EntrySector(sb, 0, c)

(* The sectors of a file hold its bytes, and zeros up to the end of its    *)
(* last cluster, whatever is copied, refused or cut short after it; they   *)
(* start at the sector FAT32Copyin returned, which the boot code reads.    *)
(* A file whose size fits uint32_t is there whole.                         *)
ContentKept ==
  phase = "ok" =>
    /\ Len(copied) = Len(root)
    /\ \A i \in DOMAIN root :
         LET first == ClusterSector(sb, root[i].first)
             last == first + CDIV(root[i].size, sb.bytesPerCluster) * sb.sectorPerCluster - 1
         IN /\ copied[i].ret = first
            /\ copied[i].size < U32 => root[i].size = copied[i].size
            /\ \A s \in first .. last :
                 data[s] = IF s - first < CDIV(root[i].size, sb.bytesPerSector)
                           THEN <<root[i].file, s - first>> ELSE Zero

(* Between calls the backups agree with what they back up: sectors 0 and   *)
(* 6, 1 and 7, and the two tables.                                         *)
Mirrored ==
  phase = "ok" => bpb6 = bpb /\ info7 = info /\ fat[0] = fat[1]

(* From nextFree on, everything is free: the next file never lands on an   *)
(* entry in use.  nextFree stays within the bound the assertion of         *)
(* FAT32Copyin checks, on volumes with room for one file.                  *)
FreeBeyond ==
  phase = "ok" =>
    /\ \A c \in DOMAIN fat[0] : c >= info.nextFree => fat[0][c] = 0
    /\ sb.maxCluster >= 3 => info.nextFree <= sb.maxCluster

(* An assertion of FAT32Copyin only fails on a volume without a cluster    *)
(* left; the one on freeCount never does.                                  *)
AbortsOnlyWhenFull ==
  phase = "aborted" => info.nextFree >= sb.maxCluster

V == INSTANCE Volume WITH
       layout <- IF bpb = NoBpb THEN [numSectors32 |-> 0] ELSE bpb,
       nextFree <- info.nextFree,
       files <- [i \in DOMAIN root |-> [first |-> root[i].first, size |-> root[i].size]]

(* Tables, copies, refusals, short reads and failed assertions included,   *)
(* the volume behaves as Volume says: createFAT32 empties it, FAT32Copyin  *)
(* adds a file behind the last one or changes nothing a user can see; the  *)
(* assertion that fails after the directory entry was written does so on a *)
(* full volume and leaves an empty file's entry, no other.                 *)
ImplementsVolume ==
  V!VolumeInit /\ [][\/ \E cfg \in Configs : V!Format(cfg)
                    \/ \E size \in FileSizes :
                         V!Store(size % U32) \/ V!StoreAborts(size % U32)]_(V!volumeVars)
=============================================================================
