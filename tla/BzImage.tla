------------------------------ MODULE BzImage -------------------------------
(***************************************************************************)
(* The loader of a bzImage (src/bootloader/bzimage.c), one sector a step,  *)
(* and getpayload (src/bootloader/getpayload.c), which takes the payload   *)
(* out of the same file when the image is built.                           *)
(***************************************************************************)
EXTENDS BootDisk

CONSTANTS
  LoadStart,    \* X = 0x2000
  HeapOffset,   \* 0x8000: code16, the start of the heap
  HeapEnd,      \* 0x10000: the command line
  ByteMod,      \* 2^8, the width of setup_sects
  PageSize,     \* of the mmap of getpayload
  KernelHeaders \* [setup_sects, syssize, magic, high, version, payload_offset,
                \*  payload_length, file_size]

ASSUME BzAssumption ==
  /\ LoadStart \in Nat /\ HeapOffset \in Nat /\ HeapEnd \in Nat
  /\ ByteMod \in Nat \ {0, 1} /\ PageSize \in Nat \ {0}
  /\ KernelHeaders \subseteq
       [setup_sects : 0 .. ByteMod - 1, syssize : Nat, magic : BOOLEAN, high : BOOLEAN,
        version : BOOLEAN, payload_offset : Nat, payload_length : Nat, file_size : Nat]

(* The buffer for a sector, the setup, the heap and the kernel lie in this *)
(* order, and the memory that is looked at has all of the kernel.          *)
ASSUME LayoutAssumption ==
  /\ SectorData + SectSize <= LoadStart
  /\ LoadStart + ByteMod * SectSize <= HighMemory
  /\ HeapOffset <= HeapEnd /\ LoadStart + HeapEnd < HighMemory
  /\ \A h \in KernelHeaders : HighMemory + h.syssize <= MemSize

VARIABLES
  zpc,           \* "idle", "start", "check", "setup", "kernel", "jump", "dead"
  khdr,          \* the header of the file on the disk
  setup_sects,   \* the loader's
  zi,            \* i
  payload,       \* what getpayload wrote: where from and how much
  extracted      \* "no", "ok", "failed"

bzVars == <<zpc, khdr, setup_sects, zi, payload, extracted>>

CmdLine == -3
Code16 == -4
Patched == -5

BzInit ==
  /\ zpc = "idle" /\ khdr \in KernelHeaders /\ setup_sects = 0 /\ zi = 0
  /\ payload = [offset |-> 0, length |-> 0] /\ extracted = "no"

(* Mutant: the boot sector is not counted.                                 *)
SetupSects_NoBoot(n) == IF n = 0 THEN 4 ELSE n

(* The sectors before the protected-mode kernel, in a uint8_t.             *)
SetupSects(n) == ((IF n = 0 THEN 4 ELSE n) + 1) % ByteMod

__elf_main ==
  /\ zpc = "idle"
  /\ zpc' = "start" /\ zi' = 0
  /\ UNCHANGED <<khdr, setup_sects, payload, extracted, mem, bios, failed>>

(* The boot sector and the first sector of the setup.                      *)
ReadBootSectors ==
  /\ zpc = "start"
  /\ read_disk(LoadStart + zi * SectSize, zi)
  /\ zi' = zi + 1 /\ zpc' = IF zi = 1 THEN "check" ELSE "start"
  /\ UNCHANGED <<khdr, setup_sects, payload, extracted, bios>>

(* A header that was not read is not valid.                                *)
HeaderRead == mem[LoadStart] = 0 /\ mem[LoadStart + SectSize] = SectSize

CheckHeader ==
  /\ zpc = "check"
  /\ setup_sects' = SetupSects(khdr.setup_sects)
  /\ zpc' = IF khdr.magic /\ HeaderRead THEN "setup" ELSE "dead"
  /\ UNCHANGED <<khdr, zi, payload, extracted, mem, bios, failed>>

ReadSetup ==
  /\ zpc = "setup" /\ zi < setup_sects
  /\ read_disk(LoadStart + zi * SectSize, zi)
  /\ zi' = zi + 1
  /\ UNCHANGED <<zpc, khdr, setup_sects, payload, extracted, bios>>

CheckProtocol ==
  /\ zpc = "setup" /\ zi >= setup_sects
  /\ zpc' = IF khdr.high /\ khdr.version THEN "kernel" ELSE "dead"
  /\ zi' = setup_sects
  /\ UNCHANGED <<khdr, setup_sects, payload, extracted, mem, bios, failed>>

(* img_size in sectors: a last sector that is not full is left out.        *)
ImageSectors == (setup_sects * SectSize + khdr.syssize) \div SectSize

ReadKernel ==
  /\ zpc = "kernel" /\ zi < ImageSectors
  /\ read_disk(HighMemory + (zi - setup_sects) * SectSize, zi)
  /\ zi' = zi + 1
  /\ UNCHANGED <<zpc, khdr, setup_sects, payload, extracted, bios>>

(* The header's fields, the command line and code16 are written.           *)
Patch ==
  /\ zpc = "kernel" /\ zi >= ImageSectors
  /\ mem' = [a \in Address |->
               CASE a = LoadStart + SectSize   -> Patched
                 [] a = LoadStart + HeapEnd    -> CmdLine
                 [] a = LoadStart + HeapOffset -> Code16
                 [] OTHER                      -> mem[a]]
  /\ zpc' = "jump"
  /\ UNCHANGED <<khdr, setup_sects, zi, payload, extracted, bios, failed>>

(* getpayload: the file is mapped in whole pages; a write that reaches     *)
(* behind them is short.                                                   *)
BiGetPayload == [offset |-> SetupSects(khdr.setup_sects) * SectSize + khdr.payload_offset,
                 length |-> khdr.payload_length]
Mapped == ((khdr.file_size + PageSize - 1) \div PageSize) * PageSize

getpayload ==
  /\ extracted = "no" /\ zpc = "idle"
  /\ IF khdr.magic /\ BiGetPayload.offset + BiGetPayload.length <= Mapped
     THEN extracted' = "ok" /\ payload' = BiGetPayload
     ELSE extracted' = "failed" /\ UNCHANGED payload
  /\ UNCHANGED <<zpc, khdr, setup_sects, zi, mem, bios, failed>>

BzNext ==
  \/ __elf_main \/ ReadBootSectors \/ CheckHeader \/ ReadSetup \/ CheckProtocol
  \/ ReadKernel \/ Patch \/ getpayload

BzSpec == DiskInit /\ BzInit /\ [][BzNext]_<<mem, bios, failed, bzVars>>

-----------------------------------------------------------------------------
(* The kernel's own numbers: what the file has before the kernel proper.   *)
SetupSize == SectSize * (1 + IF khdr.setup_sects = 0 THEN 4 ELSE khdr.setup_sects)

(* When the loader jumps, the setup lies at X, up to the heap, as it is in *)
(* the file but for the fields the loader fills in; provided no read       *)
(* failed, and the setup is not longer than 255 sectors.                   *)
SetupInPlace ==
  zpc = "jump" /\ ~failed /\ SetupSize < ByteMod * SectSize =>
    \A u \in 0 .. SetupSize - 1 :
      u < HeapOffset /\ u # SectSize => mem[LoadStart + u] = u

(* What getpayload took out of the file is what the loader put where the   *)
(* kernel looks for it, behind 1 MiB, up to the last full sector, by port  *)
(* or through the BIOS; even if both skip the wrong number of sectors.     *)
PayloadInPlace ==
  zpc = "jump" /\ ~failed /\ extracted = "ok" =>
    \A u \in 0 .. payload.length - 1 :
      khdr.payload_offset + u < (khdr.syssize \div SectSize) * SectSize =>
        mem[HighMemory + khdr.payload_offset + u] = payload.offset + u
=============================================================================
