------------------------------- MODULE Volume -------------------------------
(***************************************************************************)
(* What a FAT32 volume promises its users (src/gpt/fat.h), without tables  *)
(* and sectors: files lie one behind the other in whole clusters, never    *)
(* move, and a copy stores a file behind the last one or leaves the volume *)
(* as it is; but for an empty file, on a volume without a cluster left, it *)
(* leaves an entry in the root directory and ends the process.             *)
(***************************************************************************)
EXTENDS FatLayout, Sequences

VARIABLES
  layout,     \* the BPB, or NoLayout
  nextFree,   \* the first cluster behind the files
  files       \* [first, size] of each entry of the root directory, in order

volumeVars == <<layout, nextFree, files>>

NoLayout == [numSectors32 |-> 0]
super == FAT32Super(layout)

(* An empty file occupies a cluster too.                                   *)
Clusters(size) ==
  LET n == CDIV(size, super.bytesPerCluster) IN IF n = 0 THEN 1 ELSE n

VolumeInit == layout = NoLayout /\ nextFree = 0 /\ files = <<>>

Format(cfg) ==
  /\ ConfigOK(cfg) /\ EnoughClusters(cfg)
  /\ layout' = Bpb(cfg) /\ nextFree' = 3 /\ files' = <<>>

(* A file of this size can be stored.                                      *)
Fits(size) ==
  /\ nextFree + Clusters(size) <= super.maxCluster
  /\ Len(files) < super.numRootEntry

Store(size) ==
  /\ layout # NoLayout
  /\ Fits(size)
  /\ files' = Append(files, [first |-> nextFree, size |-> size])
  /\ nextFree' = nextFree + Clusters(size)
  /\ UNCHANGED layout

(* The entry of an empty file is written before the assertion that finds   *)
(* no cluster for it.                                                      *)
StoreAborts(size) ==
  /\ layout # NoLayout
  /\ size = 0 /\ nextFree = super.maxCluster /\ Len(files) < super.numRootEntry
  /\ files' = Append(files, [first |-> nextFree, size |-> size])
  /\ UNCHANGED <<layout, nextFree>>

(* The sector the file starts at: what FAT32Copyin returns.                *)
StartSector(f) == ClusterSector(super, f.first)
=============================================================================
