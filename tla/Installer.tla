------------------------------ MODULE Installer -----------------------------
(***************************************************************************)
(* The programs that make a bootable disk, src/gpt/installer.c and         *)
(* src/gpt/mkgpt.c, and the boot code that finds its files on it again     *)
(* (src/bootloader/mbr.c, bzimage.S, bzimage.c).                           *)
(*                                                                         *)
(* Composes Gpt, whose steps are those of the call of GPTGenerate, and     *)
(* Volume, the FAT32 volume in the first partition.  Both programs copy    *)
(* the same four files; the boot code reads sectors of the disk whose      *)
(* numbers are written in it.  All numbers are those of the code.          *)
(***************************************************************************)
EXTENDS Gpt, Volume, FiniteSets

CONSTANTS
  Programs,    \* which programs are run: a subset of {"installer", "mkgpt"}
  DiskSizes,   \* bytes of the destination of the installer
  BootMiBs,    \* its option -s
  FileSizes    \* FileSizes[k]: the sizes of the k-th file copied

SECT == 512                  \* GPT_SECTOR_SIZE
MiB == 1024 * 1024
Loader == 1                  \* linuz.bin, the secondary boot loader
Kernel == 2                  \* the bzImage; 3 is busybox, 4 is init
NFiles == 4

ASSUME InstallerAssumption ==
  /\ Programs \subseteq {"installer", "mkgpt"}
  /\ DiskSizes \subseteq Nat /\ BootMiBs \subseteq Nat
  /\ \A k \in 1 .. NFiles : FileSizes[k] \subseteq Nat
  /\ EntriesPerSector >= 2 /\ SECT \in SectorSizes /\ 8 \in ClusterSizes
  /\ 256 * MiB <= U32 /\ \A mib \in BootMiBs : mib * MiB <= U32   \* offsets fit uint32_t

VARIABLES
  program,   \* the program running
  step,      \* "start", "gpt", "format", "copyin", "mbr", "installed" (exit 0),
             \* "failed" (exit 1), "crashed"; then the boot: "loader", "kernel",
             \* "lost" (not the loader's code runs), "die" (die() of bzimage.c)
  placed,    \* the sector each file was reported at, 0 if it was not copied
  bootCode   \* mbr.img is in the first 440 bytes of the disk

installerVars == <<program, step, placed, bootCode, gptVars, volumeVars>>

Init ==
  /\ GptInit /\ VolumeInit
  /\ program \in Programs /\ step = "start"
  /\ placed = <<>> /\ bootCode = FALSE

(* The partitions asked for: the boot partition, and what is left but 5.   *)
Request(volume, boot) == [volume |-> volume, parts |-> <<boot, volume - 5 - boot>>]

(* The disk or the image cannot be opened or mapped.                       *)
CannotOpen ==
  /\ step = "start" /\ step' = "failed"
  /\ UNCHANGED <<program, placed, bootCode, gptVars, volumeVars>>

(* mkpart; main rounds the size of the disk down to pages.                 *)
mkpart(size, mib) ==
  LET disk_size == (size \div 4096) * 4096
  IN /\ program = "installer" /\ step = "start"
     /\ IF mib * MiB + SECT * 64 > disk_size
        THEN step' = "failed" /\ UNCHANGED gptVars
        ELSE step' = "gpt" /\ GPTGenerate(Request(disk_size \div SECT, (mib * MiB) \div SECT))
     /\ UNCHANGED <<program, placed, bootCode, volumeVars>>

(* mkgpt: an image of 256 MiB with a boot partition of 262140 sectors.     *)
mkgpt ==
  /\ program = "mkgpt" /\ step = "start"
  /\ step' = "gpt"
  /\ GPTGenerate(Request((256 * MiB) \div SECT, 262140))
  /\ UNCHANGED <<program, placed, bootCode, volumeVars>>

Partition ==
  /\ step = "gpt"
  /\ GptStep
  /\ UNCHANGED <<program, step, placed, bootCode, volumeVars>>

(* Both check that GPTGenerate made both partitions.                       *)
Partitioned ==
  /\ step = "gpt" /\ gpc \in {"done", "refused"}
  /\ step' = IF gpc = "done" /\ Len(startLBA) = 2 THEN "format" ELSE "failed"
  /\ UNCHANGED <<program, placed, bootCode, gptVars, volumeVars>>

(* Mutant: the volume has the size of the disk.                            *)
FatConfig_Disk == [nSector |-> req.volume, bytesPerSector |-> SECT, clusterSize |-> 8]
FatConfig == [nSector |-> req.parts[1], bytesPerSector |-> SECT, clusterSize |-> 8]

(* Mutant: createFAT32 is not called.                                      *)
FormatBoot_Skip ==
  step = "format" /\ step' = "copyin" /\ UNCHANGED <<program, placed, bootCode, gptVars, volumeVars>>

(* createFAT32; neither program looks at its result.                       *)
FormatBoot ==
  /\ step = "format"
  /\ IF ConfigOK(FatConfig) /\ EnoughClusters(FatConfig)
     THEN Format(FatConfig)
     ELSE UNCHANGED volumeVars
  /\ step' = IF ConfigOK(FatConfig) => EnoughClusters(FatConfig) THEN "copyin" ELSE "crashed"
  /\ UNCHANGED <<program, placed, bootCode, gptVars>>

AfterCopy == IF Len(placed) + 1 = NFiles THEN "mbr" ELSE "copyin"

(* FAT32Copyin stores the next file, its size cut to 32 bits ...           *)
copyin(k, size) ==
  /\ step = "copyin" /\ k = Len(placed) + 1
  /\ Store(size % U32)
  /\ placed' = Append(placed, startLBA[1] + ClusterSector(super, nextFree))
  /\ step' = AfterCopy
  /\ UNCHANGED <<program, bootCode, gptVars>>

(* ... or the file cannot be opened or does not fit: the installer dies,   *)
(* mkgpt goes on ...                                                       *)
CopyinFails ==
  /\ step = "copyin" /\ layout # NoLayout
  /\ IF program = "installer"
     THEN step' = "failed" /\ UNCHANGED placed
     ELSE step' = AfterCopy /\ placed' = Append(placed, 0)
  /\ UNCHANGED <<program, bootCode, gptVars, volumeVars>>

(* ... or it is empty, the volume is full, and an assertion fails behind   *)
(* the directory entry ...                                                 *)
CopyinAborts(k, size) ==
  /\ step = "copyin" /\ k = Len(placed) + 1
  /\ StoreAborts(size % U32)
  /\ step' = "crashed"
  /\ UNCHANGED <<program, placed, bootCode, gptVars>>

(* ... or there is no volume, on a disk that was blank: FAT32SuperInit     *)
(* divides by zero.                                                        *)
CopyinCrashes ==
  /\ step = "copyin"
  /\ layout # NoLayout => super.maxCluster < nextFree
  /\ step' = "crashed"
  /\ UNCHANGED <<program, placed, bootCode, gptVars, volumeVars>>

(* The boot code goes into the first 440 bytes.  The installer dies if     *)
(* mbr.img cannot be read; mkgpt goes on, and dies if the image cannot be  *)
(* written.                                                                *)
WriteMbr ==
  /\ step = "mbr"
  /\ step' \in {"installed", "failed"}
  /\ bootCode' \in BOOLEAN
  /\ program = "installer" => (bootCode' <=> step' = "installed")
  /\ UNCHANGED <<program, placed, gptVars, volumeVars>>

-----------------------------------------------------------------------------
LoaderSector == 3 + 528      \* mbr.c
LoaderSecond == 532          \* bzimage.S
KernelSector_Packed == 540   \* mutant: the loader's sectors are not rounded to clusters
KernelSector == 539          \* bzimage.c

(* The files copied, with their index among the four.                      *)
Stored(k) == Cardinality({j \in 1 .. k : placed[j] # 0})
Copied(k) == k \in DOMAIN placed /\ placed[k] # 0
SizeOf(k) == files[Stored(k)].size

(* Sector lba of the disk is sector j of file k.                           *)
Holds(lba, k, j) == Copied(k) /\ lba = placed[k] + j /\ j * SECT < SizeOf(k)

LoaderThere ==
  /\ Holds(LoaderSector, Loader, 0)
  /\ SizeOf(Loader) > SECT => Holds(LoaderSecond, Loader, 1)

(* mbr.c loads the loader's first sector, bzimage.S its second.            *)
BootLoader ==
  /\ step = "installed"
  /\ step' = IF bootCode /\ LoaderThere THEN "loader" ELSE "lost"
  /\ UNCHANGED <<program, placed, bootCode, gptVars, volumeVars>>

(* bzimage.c reads two sectors and looks for the kernel's header in them.  *)
BootKernel ==
  /\ step = "loader"
  /\ step' = IF Holds(KernelSector, Kernel, 0) THEN "kernel" ELSE "die"
  /\ UNCHANGED <<program, placed, bootCode, gptVars, volumeVars>>

Next ==
  \/ CannotOpen
  \/ \E size \in DiskSizes, mib \in BootMiBs : mkpart(size, mib)
  \/ mkgpt \/ Partition \/ Partitioned \/ FormatBoot
  \/ \E k \in 1 .. NFiles : \E size \in FileSizes[k] : copyin(k, size) \/ CopyinAborts(k, size)
  \/ CopyinFails \/ CopyinCrashes \/ WriteMbr \/ BootLoader \/ BootKernel

Spec == Init /\ [][Next]_installerVars

-----------------------------------------------------------------------------
(* The clusters of the files, which a copy fills with zeros first, lie     *)
(* inside the boot partition, behind the volume's own sectors, one file's  *)
(* behind the other's: neither the second partition nor the partition      *)
(* table nor another file is written over, even by a copy that crashes.    *)
FilesInPartition ==
  \A k \in DOMAIN placed : placed[k] # 0 =>
    LET last == placed[k] + Clusters(SizeOf(k)) * super.sectorPerCluster - 1
    IN /\ placed[k] >= startLBA[1] + super.numReserved + super.numFAT + super.sectorPerCluster
       /\ last < startLBA[1] + req.parts[1] /\ last < startLBA[2]
       /\ \A j \in k + 1 .. Len(placed) : placed[j] # 0 => last < placed[j]

(* The boot code finds the loader and the kernel, if they are not empty,   *)
(* on every disk whose FAT has 256 sectors, as with -s 128 and not with    *)
(* the default of 64, and whose loader fits a cluster: the sectors in      *)
(* mbr.c, bzimage.S and bzimage.c are where FAT32Copyin puts the first two *)
(* files of such a volume.                                                 *)
BootSectorsMatch ==
  step \in {"lost", "die"} =>
    \/ ~bootCode \/ ~Copied(Loader) \/ ~Copied(Kernel)
    \/ layout.fatSize32 # 256
    \/ SizeOf(Loader) \notin 1 .. super.bytesPerCluster \/ SizeOf(Kernel) = 0

(* The result of createFAT32 may be ignored: with a boot partition of a    *)
(* MiB or more, whatever the disk and the files, a volume is there when    *)
(* the files are copied; and then a copy crashes only if the files before  *)
(* it took the last cluster and its own file is empty.                     *)
CrashesOnlyWhenFull ==
  step = "crashed" =>
    \/ req.parts[1] = 0
    \/ /\ layout # NoLayout /\ nextFree = super.maxCluster
       /\ files # <<>> /\ files[Len(files)] = [first |-> nextFree, size |-> 0]
=============================================================================
