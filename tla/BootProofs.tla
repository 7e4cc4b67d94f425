----------------------------- MODULE BootProofs -----------------------------
(***************************************************************************)
(* What the loader of a bzImage and the loader of an ELF kernel put into   *)
(* memory, for every file and every layout of memory LayoutAssumption and  *)
(* PlacedAssumption allow.                                                 *)
(***************************************************************************)
EXTENDS BzImage, ElfFile, TLAPS

(* The shape of the loader's state, as far as it counts.                   *)
BzTypeOK == khdr \in KernelHeaders /\ setup_sects \in Nat /\ zi \in Nat

(* The loader and getpayload skip the same number of sectors.              *)
SkipInv ==
  /\ zpc \in {"setup", "kernel", "jump"} => setup_sects = SetupSects(khdr.setup_sects)
  /\ extracted = "ok" => payload = BiGetPayload

(* The sectors read so far from the start of the file lie at LoadStart.    *)
SetupInv ==
  /\ zpc = "start" => zi < 2
  /\ zpc \in {"idle", "start", "check", "setup"} /\ ~failed =>
       \A u \in Nat : u < zi * SectSize /\ u < ByteMod * SectSize => mem[LoadStart + u] = u
  /\ zpc = "kernel" /\ ~failed =>
       \A u \in Nat : u < setup_sects * SectSize => mem[LoadStart + u] = u
  /\ zpc = "jump" /\ ~failed =>
       \A u \in Nat : u < setup_sects * SectSize /\ u < HeapOffset /\ u # SectSize =>
         mem[LoadStart + u] = u

(* The sectors of the kernel read so far lie at HighMemory; at the end     *)
(* these are all that are full.                                            *)
KernelInv ==
  /\ zpc = "kernel" => zi >= setup_sects
  /\ zpc = "kernel" /\ ~failed =>
       \A u \in Nat : u < (zi - setup_sects) * SectSize /\ HighMemory + u < MemSize =>
         mem[HighMemory + u] = setup_sects * SectSize + u
  /\ zpc = "jump" /\ ~failed =>
       \A u \in Nat : u < (khdr.syssize \div SectSize) * SectSize =>
         mem[HighMemory + u] = setup_sects * SectSize + u

BzInv == BzTypeOK /\ SkipInv /\ SetupInv /\ KernelInv

-----------------------------------------------------------------------------
(* Multiples of the size of a sector.                                      *)
LEMMA Multiples ==
  ASSUME NEW S \in Nat, NEW a \in Nat, NEW b \in Nat, a <= b
  PROVE  a * S <= b * S /\ b * S = (b - a) * S + a * S /\ a * S \in Nat /\ b * S \in Nat
         /\ (b - a) * S \in Nat
<1>1. b - a \in Nat
  OBVIOUS
<1>2. PICK d \in Nat : d = b - a
  BY Zenon, <1>1
<1>3. b = a + d
  BY <1>2
<1>4. (a + d) * S = a * S + d * S /\ d * S \in Nat /\ a * S \in Nat
  OBVIOUS
<1> QED BY <1>2, <1>3, <1>4

(* The multiple after a multiple.                                          *)
LEMMA NextMultiple == ASSUME NEW S \in Nat, NEW a \in Nat PROVE (a + 1) * S = a * S + S
  OBVIOUS

(* The quotient of a sum whose first part is a multiple.                   *)
LEMMA QuotientOfSum ==
  ASSUME NEW S \in Nat \ {0}, NEW s \in Nat, NEW y \in Nat, NEW z \in Nat,
         z >= (s * S + y) \div S
  PROVE  s <= z => (y \div S) * S <= (z - s) * S /\ (y \div S) * S <= y
<1>0. s * S \in Nat /\ s * S + y \in Nat
  OBVIOUS
<1>1. PICK q \in Nat : q = y \div S
  OBVIOUS
<1>2. PICK D \in Nat : D = (s * S + y) \div S
  BY <1>0
<1>3. q * S <= y
  BY <1>1
<1>4. s * S + y < (D + 1) * S
  BY <1>0, <1>2
<1>5. (s + q) * S = s * S + q * S
  OBVIOUS
<1>6. ~(D + 1 <= s + q)
  <2> SUFFICES ASSUME D + 1 <= s + q PROVE FALSE
    BY Zenon
  <2>1. (D + 1) * S <= (s + q) * S
    BY Multiples
  <2> QED BY <2>1, <1>3, <1>4, <1>5, <1>0
<1>7. ASSUME s <= z PROVE q * S <= (z - s) * S
  <2>1. q <= z - s /\ z - s \in Nat
    BY <1>6, <1>7, <1>2
  <2> QED BY Zenon, <2>1, Multiples
<1> QED BY Zenon, <1>1, <1>3, <1>7

-----------------------------------------------------------------------------
(* A read changes, above the buffer for a sector, the place it is for.     *)
LEMMA ReadAt ==
  ASSUME NEW buf \in Nat, NEW sect \in Nat, NEW a \in Address, a >= SectorData + SectSize
  PROVE  Reading(mem, buf, sect)[a] =
           IF Within(a, buf, SectSize) THEN sect * SectSize + (a - buf) ELSE mem[a]
<1>1. a \in Int /\ SectSize \in Nat /\ SectorData \in Nat
  BY DiskAssumption DEF Address
<1>2. ~Within(a, SectorData, SectSize)
  BY <1>1 DEF Within
<1>3. CASE bios /\ buf >= HighMemory
  BY Zenon, <1>2, <1>3 DEF Reading
<1>4. CASE ~(bios /\ buf >= HighMemory)
  BY Zenon, <1>4 DEF Reading
<1> QED BY Zenon, <1>3, <1>4

(* What the header says, and that the kernel is in the memory looked at.   *)
LEMMA HeaderFields ==
  ASSUME BzTypeOK
  PROVE  /\ khdr.setup_sects \in Nat /\ khdr.syssize \in Nat /\ khdr.payload_offset \in Nat
         /\ khdr.payload_length \in Nat /\ HighMemory + khdr.syssize <= MemSize
         /\ SetupSects(khdr.setup_sects) \in 0 .. ByteMod - 1
<1>1. /\ khdr.setup_sects \in Nat /\ khdr.syssize \in Nat /\ khdr.payload_offset \in Nat
      /\ khdr.payload_length \in Nat /\ HighMemory + khdr.syssize <= MemSize
  BY BzAssumption, LayoutAssumption DEF BzTypeOK
<1>2. \A n \in Nat : n % ByteMod \in 0 .. ByteMod - 1
  BY BzAssumption
<1>3. (IF khdr.setup_sects = 0 THEN 4 ELSE khdr.setup_sects) + 1 \in Nat
  BY <1>1
<1> QED BY Zenon, <1>1, <1>2, <1>3 DEF SetupSects

(* An address at LoadStart is above the buffer, in memory, below the       *)
(* kernel; one at HighMemory is above the buffer.                          *)
LEMMA Places ==
  ASSUME BzTypeOK, NEW u \in Nat
  PROVE  /\ u < ByteMod * SectSize =>
              /\ LoadStart + u \in Address /\ LoadStart + u >= SectorData + SectSize
              /\ LoadStart + u < HighMemory
         /\ HighMemory + u < MemSize =>
              HighMemory + u \in Address /\ HighMemory + u >= SectorData + SectSize
<1>1. ByteMod * SectSize \in Nat
  BY BzAssumption, DiskAssumption
<1>2. HighMemory <= MemSize
  BY HeaderFields, DiskAssumption
<1> QED
  BY <1>1, <1>2, BzAssumption, DiskAssumption, LayoutAssumption DEF Address

(* Before the loader starts nothing is claimed of the memory.              *)
LEMMA BzInitInv == DiskInit /\ BzInit => BzInv
<1> SUFFICES ASSUME DiskInit, BzInit PROVE BzInv
  BY Zenon
<1>1. BzTypeOK /\ SkipInv /\ KernelInv
  BY Zenon DEF BzInit, BzTypeOK, SkipInv, KernelInv
<1>2. 0 * SectSize = 0
  BY DiskAssumption
<1>3. SetupInv
  BY <1>2 DEF BzInit, SetupInv
<1> QED BY Zenon, <1>1, <1>3 DEF BzInv

(* Reading one more sector of the setup.                                   *)
LEMMA SetupGrows ==
  ASSUME BzTypeOK, zi < ByteMod, ~failed',
         read_disk(LoadStart + zi * SectSize, zi), zi' = zi + 1,
         \A u \in Nat : u < zi * SectSize /\ u < ByteMod * SectSize => mem[LoadStart + u] = u
  PROVE  \A u \in Nat : u < zi' * SectSize /\ u < ByteMod * SectSize => mem'[LoadStart + u] = u
<1> DEFINE Z == zi * SectSize
<1>1. Z \in Nat /\ zi' * SectSize = Z + SectSize /\ LoadStart + Z \in Nat
      /\ SectSize \in Nat /\ LoadStart \in Nat /\ zi \in Nat
  BY NextMultiple, BzAssumption, DiskAssumption DEF BzTypeOK
<1>2. mem' = Reading(mem, LoadStart + Z, zi)
  BY Zenon DEF read_disk
<1> SUFFICES ASSUME NEW u \in Nat, u < zi' * SectSize, u < ByteMod * SectSize
             PROVE  mem'[LoadStart + u] = u
  BY Zenon
<1>3. mem'[LoadStart + u] = IF Within(LoadStart + u, LoadStart + Z, SectSize)
                            THEN Z + ((LoadStart + u) - (LoadStart + Z)) ELSE mem[LoadStart + u]
  BY <1>1, <1>2, Places, ReadAt
<1> HIDE DEF Z
<1>4. CASE u < Z
  BY <1>1, <1>3, <1>4 DEF Within, Z
<1>5. CASE u >= Z
  BY <1>1, <1>3, <1>5 DEF Within
<1> QED BY <1>1, <1>4, <1>5

(* Reading one more sector of the kernel, also through the buffer, keeps   *)
(* the setup and the sectors before.                                       *)
LEMMA KernelGrows ==
  ASSUME BzTypeOK, zi >= setup_sects, setup_sects <= ByteMod, ~failed',
         read_disk(HighMemory + (zi - setup_sects) * SectSize, zi)
  PROVE  /\ \A u \in Nat : u < setup_sects * SectSize => mem'[LoadStart + u] = mem[LoadStart + u]
         /\ zi' = zi + 1 /\ setup_sects' = setup_sects
            /\ (\A u \in Nat : u < (zi - setup_sects) * SectSize /\ HighMemory + u < MemSize =>
                  mem[HighMemory + u] = setup_sects * SectSize + u)
            => \A u \in Nat : u < (zi' - setup_sects') * SectSize /\ HighMemory + u < MemSize =>
                 mem'[HighMemory + u] = setup_sects' * SectSize + u
<1> DEFINE K == (zi - setup_sects) * SectSize
           T == setup_sects * SectSize
<1>1. /\ K \in Nat /\ T \in Nat /\ zi * SectSize = K + T /\ T <= ByteMod * SectSize
      /\ ByteMod * SectSize \in Nat
  BY Zenon, Multiples, BzAssumption, DiskAssumption DEF BzTypeOK
<1>2. /\ HighMemory + K \in Nat /\ SectSize \in Nat /\ LoadStart \in Nat /\ zi \in Nat
      /\ setup_sects \in Nat /\ HighMemory \in Nat
  BY <1>1, BzAssumption, DiskAssumption DEF BzTypeOK
<1>3. mem' = Reading(mem, HighMemory + K, zi)
  BY Zenon DEF read_disk
<1>4. ASSUME NEW u \in Nat, u < T PROVE mem'[LoadStart + u] = mem[LoadStart + u]
  <2> HIDE DEF K, T
  <2>1. /\ LoadStart + u \in Address /\ LoadStart + u >= SectorData + SectSize
        /\ LoadStart + u < HighMemory
    BY <1>1, <1>4, Places
  <2>2. ~Within(LoadStart + u, HighMemory + K, SectSize)
    BY <2>1, <1>1, <1>2 DEF Within
  <2> QED BY <2>1, <2>2, <1>2, <1>3, ReadAt
<1>5. ASSUME zi' = zi + 1, setup_sects' = setup_sects,
             \A u \in Nat : u < K /\ HighMemory + u < MemSize => mem[HighMemory + u] = T + u,
             NEW u \in Nat, u < (zi' - setup_sects') * SectSize, HighMemory + u < MemSize
      PROVE  mem'[HighMemory + u] = T + u
  <2>1. zi - setup_sects \in Nat /\ zi' - setup_sects' = (zi - setup_sects) + 1
    BY <1>2, <1>5
  <2>2. u < K + SectSize
    BY Zenon, <2>1, <1>2, <1>5, NextMultiple
  <2>3. mem'[HighMemory + u] = IF Within(HighMemory + u, HighMemory + K, SectSize)
                               THEN zi * SectSize + ((HighMemory + u) - (HighMemory + K))
                               ELSE mem[HighMemory + u]
    <3>1. HighMemory + u \in Address /\ HighMemory + u >= SectorData + SectSize
      BY Zenon, <1>5, Places
    <3> HIDE DEF K, T
    <3> QED BY <3>1, <1>2, <1>3, ReadAt
  <2> HIDE DEF K, T
  <2>4. CASE u < K
    BY <2>3, <2>4, <1>1, <1>2, <1>5 DEF Within
  <2>5. CASE u >= K
    BY <2>2, <2>3, <2>5, <1>1, <1>2 DEF Within
  <2> QED BY <2>4, <2>5, <1>1
<1> QED BY Zenon, <1>4, <1>5

(* What the loader writes into the setup and behind it is elsewhere.       *)
LEMMA PatchKeeps ==
  ASSUME BzTypeOK, setup_sects <= ByteMod, Patch
  PROVE  /\ \A u \in Nat : u < setup_sects * SectSize /\ u < HeapOffset /\ u # SectSize =>
              mem'[LoadStart + u] = mem[LoadStart + u]
         /\ \A u \in Nat : HighMemory + u < MemSize => mem'[HighMemory + u] = mem[HighMemory + u]
<1>1. /\ setup_sects * SectSize \in Nat /\ setup_sects * SectSize <= ByteMod * SectSize
      /\ ByteMod * SectSize \in Nat /\ 2 * SectSize <= ByteMod * SectSize
  BY Multiples, BzAssumption, DiskAssumption DEF BzTypeOK
<1>2. /\ LoadStart \in Nat /\ SectSize \in Nat /\ SectSize > 0 /\ HeapOffset \in Nat
      /\ HeapEnd \in Nat /\ HighMemory \in Nat
  BY BzAssumption, DiskAssumption
<1>3. \A a \in Address : a # LoadStart + SectSize /\ a # LoadStart + HeapEnd /\ a # LoadStart + HeapOffset
        => mem'[a] = mem[a]
  BY Zenon DEF Patch
<1>4. ASSUME NEW u \in Nat, u < setup_sects * SectSize, u < HeapOffset, u # SectSize
      PROVE  mem'[LoadStart + u] = mem[LoadStart + u]
  <2>1. LoadStart + u \in Address
    BY <1>1, <1>4, Places
  <2>2. LoadStart + u # LoadStart + SectSize /\ LoadStart + u # LoadStart + HeapEnd
        /\ LoadStart + u # LoadStart + HeapOffset
    BY <1>2, <1>4, LayoutAssumption
  <2> QED BY Zenon, <2>1, <2>2, <1>3
<1>5. ASSUME NEW u \in Nat, HighMemory + u < MemSize
      PROVE  mem'[HighMemory + u] = mem[HighMemory + u]
  <2>1. HighMemory + u \in Address
    BY Zenon, <1>5, Places
  <2>2. LoadStart + SectSize < HighMemory /\ LoadStart + HeapEnd < HighMemory
        /\ LoadStart + HeapOffset < HighMemory
    BY <1>1, <1>2, LayoutAssumption
  <2>3. HighMemory + u # LoadStart + SectSize /\ HighMemory + u # LoadStart + HeapEnd
        /\ HighMemory + u # LoadStart + HeapOffset
    BY <2>2, <1>2
  <2> QED BY Zenon, <2>1, <2>3, <1>3
<1> QED BY Zenon, <1>4, <1>5

-----------------------------------------------------------------------------
(* Each step of the loader and getpayload keeps the invariant.             *)
LEMMA BzNextInv == BzInv /\ [BzNext]_<<mem, bios, failed, bzVars>> => BzInv'
<1> SUFFICES ASSUME BzInv, [BzNext]_<<mem, bios, failed, bzVars>> PROVE BzInv'
  BY Zenon
<1> USE DEF BzInv
<1>0. /\ BzTypeOK /\ setup_sects \in Nat /\ zi \in Nat /\ SectSize \in Nat /\ ByteMod \in Nat
      /\ SectSize > 0 /\ ByteMod > 1
  BY BzAssumption, DiskAssumption DEF BzTypeOK
<1>00. zpc \in {"setup", "kernel", "jump"} => setup_sects < ByteMod
  BY <1>0, HeaderFields DEF SkipInv
<1>1. CASE __elf_main
  <2>1. 0 * SectSize = 0
    BY <1>0
  <2> QED BY <1>1, <2>1 DEF __elf_main, BzTypeOK, SkipInv, SetupInv, KernelInv, BiGetPayload
<1>2. CASE ReadBootSectors
  <2>1. BzTypeOK' /\ SkipInv' /\ KernelInv'
    BY <1>2, <1>0 DEF ReadBootSectors, BzTypeOK, SkipInv, KernelInv, BiGetPayload
  <2>2. zi < ByteMod /\ zi < 2
    BY <1>2, <1>0 DEF ReadBootSectors, SetupInv
  <2>3. ~failed' => ~failed
    BY Zenon, <1>2 DEF ReadBootSectors, read_disk
  <2>4. ASSUME ~failed'
        PROVE  \A u \in Nat : u < zi' * SectSize /\ u < ByteMod * SectSize => mem'[LoadStart + u] = u
    BY Zenon, <1>2, <1>0, <2>2, <2>3, <2>4, SetupGrows DEF ReadBootSectors, SetupInv
  <2>5. zpc' \in {"start", "check"} /\ (zpc' = "start" => zi' < 2)
    BY <1>2, <1>0, <2>2 DEF ReadBootSectors
  <2>6. SetupInv'
    BY Zenon, <2>4, <2>5 DEF SetupInv
  <2> QED BY Zenon, <2>1, <2>6
<1>3. CASE CheckHeader
  <2>1. SetupSects(khdr.setup_sects) \in Nat
    BY <1>0, HeaderFields, BzAssumption
  <2> QED BY Zenon, <1>3, <2>1 DEF CheckHeader, BzTypeOK, SkipInv, SetupInv, KernelInv, BiGetPayload
<1>4. CASE ReadSetup
  <2>1. BzTypeOK' /\ SkipInv' /\ KernelInv'
    BY <1>4, <1>0 DEF ReadSetup, BzTypeOK, SkipInv, KernelInv, BiGetPayload
  <2>2. zi < ByteMod
    BY <1>4, <1>0, <1>00 DEF ReadSetup
  <2>3. ~failed' => ~failed
    BY Zenon, <1>4 DEF ReadSetup, read_disk
  <2>4. ASSUME ~failed'
        PROVE  \A u \in Nat : u < zi' * SectSize /\ u < ByteMod * SectSize => mem'[LoadStart + u] = u
    BY Zenon, <1>4, <1>0, <2>2, <2>3, <2>4, SetupGrows DEF ReadSetup, SetupInv
  <2>5. zpc' = "setup"
    BY Zenon, <1>4 DEF ReadSetup
  <2>6. SetupInv'
    BY Zenon, <2>4, <2>5 DEF SetupInv
  <2> QED BY Zenon, <2>1, <2>6
<1>5. CASE CheckProtocol
  <2>1. BzTypeOK' /\ SkipInv'
    BY Zenon, <1>5, <1>0 DEF CheckProtocol, BzTypeOK, SkipInv, BiGetPayload
  <2>2. zpc = "setup" /\ setup_sects <= zi /\ setup_sects < ByteMod /\ zi' = setup_sects
        /\ zpc' \in {"kernel", "dead"} /\ UNCHANGED <<setup_sects, mem, failed>>
    BY Zenon, <1>5, <1>0, <1>00 DEF CheckProtocol
  <2>3. /\ setup_sects * SectSize <= zi * SectSize /\ setup_sects * SectSize <= ByteMod * SectSize
        /\ setup_sects * SectSize \in Nat /\ zi * SectSize \in Nat /\ ByteMod * SectSize \in Nat
    BY <2>2, <1>0, Multiples
  <2>4. SetupInv'
    <3>1. ASSUME ~failed, NEW u \in Nat, u < setup_sects * SectSize PROVE mem[LoadStart + u] = u
      <4>1. u < zi * SectSize /\ u < ByteMod * SectSize
        BY <2>3, <3>1
      <4> QED BY Zenon, <4>1, <2>2, <3>1 DEF SetupInv
    <3> QED BY Zenon, <2>2, <3>1 DEF SetupInv
  <2>5. (zi' - setup_sects') * SectSize = 0 /\ zi' >= setup_sects'
    <3>1. zi' - setup_sects' = 0 /\ zi' >= setup_sects'
      BY <2>2, <1>0
    <3>2. 0 * SectSize = 0
      BY <1>0
    <3> QED BY Zenon, <3>1, <3>2
  <2>6. \A u \in Nat : ~(u < (zi' - setup_sects') * SectSize)
    BY <2>5
  <2>7. KernelInv'
    BY Zenon, <2>2, <2>5, <2>6 DEF KernelInv
  <2> QED BY Zenon, <2>1, <2>4, <2>7
<1>6. CASE ReadKernel
  <2>1. BzTypeOK' /\ SkipInv'
    BY <1>6, <1>0 DEF ReadKernel, BzTypeOK, SkipInv, BiGetPayload
  <2>2. /\ zpc = "kernel" /\ zpc' = "kernel" /\ setup_sects' = setup_sects /\ zi' = zi + 1
        /\ zi >= setup_sects /\ zi' >= setup_sects' /\ setup_sects <= ByteMod
        /\ read_disk(HighMemory + (zi - setup_sects) * SectSize, zi)
    BY <1>6, <1>0, <1>00 DEF ReadKernel, KernelInv
  <2>3. ~failed' => ~failed
    BY Zenon, <2>2 DEF read_disk
  <2>4. ASSUME ~failed'
        PROVE  /\ \A u \in Nat : u < setup_sects' * SectSize => mem'[LoadStart + u] = u
               /\ \A u \in Nat : u < (zi' - setup_sects') * SectSize /\ HighMemory + u < MemSize =>
                    mem'[HighMemory + u] = setup_sects' * SectSize + u
    <3>1. \A u \in Nat : u < setup_sects * SectSize => mem'[LoadStart + u] = mem[LoadStart + u]
      BY Zenon, <1>0, <2>2, <2>4, KernelGrows
    <3>2. \A u \in Nat : u < setup_sects * SectSize => mem[LoadStart + u] = u
      BY Zenon, <2>2, <2>3, <2>4 DEF SetupInv
    <3>3. \A u \in Nat : u < (zi - setup_sects) * SectSize /\ HighMemory + u < MemSize =>
            mem[HighMemory + u] = setup_sects * SectSize + u
      BY Zenon, <2>2, <2>3, <2>4 DEF KernelInv
    <3>4. \A u \in Nat : u < (zi' - setup_sects') * SectSize /\ HighMemory + u < MemSize =>
            mem'[HighMemory + u] = setup_sects' * SectSize + u
      BY Zenon, <1>0, <2>2, <2>4, <3>3, KernelGrows
    <3>5. \A u \in Nat : u < setup_sects * SectSize => mem'[LoadStart + u] = u
      BY <3>1, <3>2, Zenon
    <3> QED BY Zenon, <2>2, <3>4, <3>5
  <2>5. SetupInv' /\ KernelInv'
    BY Zenon, <2>2, <2>4 DEF SetupInv, KernelInv
  <2> QED BY Zenon, <2>1, <2>5
<1>7. CASE Patch
  <2>1. BzTypeOK' /\ SkipInv'
    BY <1>7, <1>0, Zenon DEF Patch, BzTypeOK, SkipInv, BiGetPayload
  <2>2. /\ zpc = "kernel" /\ zpc' = "jump" /\ UNCHANGED <<setup_sects, khdr, failed>>
        /\ zi >= ImageSectors
    BY <1>7, Zenon DEF Patch
  <2>3. zi >= setup_sects /\ setup_sects <= ByteMod
    BY <2>2, <1>0, <1>00 DEF KernelInv
  <2>4. /\ \A u \in Nat : u < setup_sects * SectSize /\ u < HeapOffset /\ u # SectSize =>
              mem'[LoadStart + u] = mem[LoadStart + u]
        /\ \A u \in Nat : HighMemory + u < MemSize => mem'[HighMemory + u] = mem[HighMemory + u]
    BY Zenon, <1>0, <1>7, <2>3, PatchKeeps
  <2>5. SetupInv'
    BY Zenon, <2>2, <2>4 DEF SetupInv
  <2>6. khdr.syssize \in Nat /\ HighMemory + khdr.syssize <= MemSize
    BY Zenon, <1>0, HeaderFields
  <2>7. /\ (khdr.syssize \div SectSize) * SectSize <= (zi - setup_sects) * SectSize
        /\ (khdr.syssize \div SectSize) * SectSize <= khdr.syssize
    <3>1. PICK y \in Nat : y = khdr.syssize
      BY Zenon, <2>6
    <3>2. zi >= (setup_sects * SectSize + y) \div SectSize
      BY Zenon, <2>2, <3>1 DEF ImageSectors
    <3>3. SectSize \in Nat \ {0}
      BY Zenon, DiskAssumption
    <3>4. (y \div SectSize) * SectSize <= (zi - setup_sects) * SectSize
          /\ (y \div SectSize) * SectSize <= y
      BY Zenon, <1>0, <2>3, <3>2, <3>3, QuotientOfSum
    <3> QED BY Zenon, <3>1, <3>4
  <2>8. ASSUME ~failed, NEW u \in Nat, u < (khdr.syssize \div SectSize) * SectSize
        PROVE  mem'[HighMemory + u] = setup_sects * SectSize + u
    <3>0. /\ (khdr.syssize \div SectSize) * SectSize \in Int
          /\ (zi - setup_sects) * SectSize \in Int /\ HighMemory \in Nat /\ MemSize \in Nat
      BY <1>0, <2>6, DiskAssumption
    <3>1. u < (zi - setup_sects) * SectSize /\ HighMemory + u < MemSize
      BY <3>0, <2>6, <2>7, <2>8
    <3>2. mem[HighMemory + u] = setup_sects * SectSize + u
      BY Zenon, <3>1, <2>2, <2>8 DEF KernelInv
    <3> QED BY Zenon, <3>1, <3>2, <2>4
  <2>9. KernelInv'
    BY Zenon, <2>2, <2>8 DEF KernelInv
  <2> QED BY Zenon, <2>1, <2>5, <2>9
<1>8. CASE getpayload
  BY Zenon, <1>8 DEF getpayload, BzTypeOK, SkipInv, SetupInv, KernelInv, BiGetPayload
<1>9. CASE UNCHANGED <<mem, bios, failed, bzVars>>
  BY Zenon, <1>9 DEF bzVars, BzTypeOK, SkipInv, SetupInv, KernelInv, BiGetPayload
<1> QED BY Zenon, <1>1, <1>2, <1>3, <1>4, <1>5, <1>6, <1>7, <1>8, <1>9 DEF BzNext

(* At every step, what was read so far lies in its place.                  *)
THEOREM LoaderInv == BzSpec => []BzInv
  BY BzInitInv, BzNextInv, PTL DEF BzSpec

(* For every kernel file: what getpayload takes out of it lies, when the   *)
(* loader jumps, where the kernel looks for it, up to the last full        *)
(* sector, whether the sectors came by port or through the BIOS's buffer.  *)
THEOREM PayloadLoaded == BzSpec => []PayloadInPlace
<1>1. BzInv => PayloadInPlace
  <2> SUFFICES ASSUME BzInv, zpc = "jump", ~failed, extracted = "ok",
                      NEW u \in 0 .. payload.length - 1,
                      khdr.payload_offset + u < (khdr.syssize \div SectSize) * SectSize
               PROVE  mem[HighMemory + khdr.payload_offset + u] = payload.offset + u
    BY Zenon DEF PayloadInPlace
  <2>1. payload.length \in Nat /\ khdr.payload_offset \in Nat
    BY HeaderFields DEF BzInv, SkipInv, BiGetPayload
  <2>2. payload.offset = setup_sects * SectSize + khdr.payload_offset
    BY DEF BzInv, SkipInv, BiGetPayload
  <2>3. setup_sects * SectSize \in Nat /\ HighMemory \in Nat
    BY DiskAssumption DEF BzInv, BzTypeOK
  <2>4. PICK v \in Nat : v = khdr.payload_offset + u
    BY <2>1
  <2>5. mem[HighMemory + v] = setup_sects * SectSize + v
    BY Zenon, <2>4 DEF BzInv, KernelInv
  <2>6. HighMemory + khdr.payload_offset + u = HighMemory + v
        /\ payload.offset + u = setup_sects * SectSize + v
    BY <2>1, <2>2, <2>3, <2>4
  <2> QED BY Zenon, <2>5, <2>6
<1> QED BY <1>1, LoaderInv, PTL

(* The setup lies at X as it is in the file, up to the heap and but for    *)
(* the fields the loader fills in, if its sectors can be counted in the    *)
(* byte setup_sects.                                                       *)
THEOREM SetupLoaded == BzSpec => []SetupInPlace
<1>1. BzInv => SetupInPlace
  <2> SUFFICES ASSUME BzInv, zpc = "jump", ~failed, SetupSize < ByteMod * SectSize,
                      NEW u \in 0 .. SetupSize - 1, u < HeapOffset, u # SectSize
               PROVE  mem[LoadStart + u] = u
    BY Zenon DEF SetupInPlace
  <2>1. PICK n \in Nat : n = IF khdr.setup_sects = 0 THEN 4 ELSE khdr.setup_sects
    BY Zenon, HeaderFields DEF BzInv
  <2>2. SetupSize = SectSize * (1 + n) /\ setup_sects = (n + 1) % ByteMod
    BY Zenon, <2>1 DEF SetupSize, BzInv, SkipInv, SetupSects
  <2>3. SectSize \in Nat /\ ByteMod \in Nat \ {0} /\ SectSize * (1 + n) = (n + 1) * SectSize
        /\ (n + 1) * SectSize \in Nat
    BY DiskAssumption, BzAssumption
  <2>4. n + 1 < ByteMod
    <3> SUFFICES ASSUME ByteMod <= n + 1 PROVE FALSE
      BY <2>3
    <3>1. ByteMod * SectSize <= (n + 1) * SectSize /\ ByteMod * SectSize \in Nat
      BY <2>3, Multiples
    <3> QED BY <3>1, <2>2, <2>3
  <2>5. setup_sects = n + 1
    BY <2>2, <2>3, <2>4
  <2>6. u \in Nat /\ u < setup_sects * SectSize
    BY <2>2, <2>3, <2>5
  <2> QED BY Zenon, <2>6 DEF BzInv, SetupInv
<1> QED BY <1>1, LoaderInv, PTL

-----------------------------------------------------------------------------
(* No read failed, and every program header lies within a sector.          *)
Intact == ~failed /\ \A i \in DOMAIN elf.phdrs : ~Straddles(i - 1)

Byte(p, a) == IF a - p.paddr < p.filesz THEN p.offset + (a - p.paddr) ELSE Zero

(* The segments before the current one are loaded; of the current one,     *)
(* what was copied so far.                                                 *)
SegmentInv ==
  Intact =>
    /\ \A i \in 1 .. pi : Loads(elf.phdrs[i]) =>
         \A a \in Image(elf.phdrs[i]) : mem[a] = Byte(elf.phdrs[i], a)
    /\ epc \in {"copy", "zero"} =>
         /\ phdr = PhdrAt(pi) /\ Loads(phdr)
         /\ fsize \in 0 .. phdr.filesz
         /\ dst = phdr.paddr + (phdr.filesz - fsize) /\ foff = phdr.offset + (phdr.filesz - fsize)
         /\ \A a \in Image(phdr) : a < dst => mem[a] = Byte(phdr, a)
    /\ epc = "zero" => fsize = 0

HeaderInv ==
  /\ elf \in Elves /\ pi \in 0 .. Len(elf.phdrs)
  /\ epc \in {"copy", "zero"} => pi < Len(elf.phdrs)
  /\ epc = "jump" => pi = Len(elf.phdrs)

ElfInv == HeaderInv /\ SegmentInv

(* The fields of a program header.                                         *)
LEMMA PhdrFields ==
  ASSUME HeaderInv, NEW i \in DOMAIN elf.phdrs
  PROVE  /\ elf.phdrs[i].paddr \in Nat /\ elf.phdrs[i].offset \in Nat
         /\ elf.phdrs[i].filesz \in Nat /\ elf.phdrs[i].memsz \in Nat
         /\ DOMAIN elf.phdrs = 1 .. Len(elf.phdrs) /\ Len(elf.phdrs) \in Nat
<1> DEFINE P == [type : Nat, exec : BOOLEAN, paddr : Nat, offset : Nat, filesz : Nat, memsz : Nat]
<1>1. elf.phdrs \in Seq(P)
  BY Zenon, ElfAssumption DEF HeaderInv
<1> HIDE DEF P
<1>2. elf.phdrs[i] \in P /\ DOMAIN elf.phdrs = 1 .. Len(elf.phdrs) /\ Len(elf.phdrs) \in Nat
  BY <1>1
<1> QED BY Zenon, <1>2 DEF P

(* The number of headers.                                                  *)
LEMMA PhdrCount ==
  ASSUME HeaderInv
  PROVE  DOMAIN elf.phdrs = 1 .. Len(elf.phdrs) /\ Len(elf.phdrs) \in Nat
<1>1. elf.phdrs \in Seq([type : Nat, exec : BOOLEAN, paddr : Nat, offset : Nat, filesz : Nat, memsz : Nat])
  BY Zenon, ElfAssumption DEF HeaderInv
<1> QED BY <1>1

(* The header the loader works on is one of the file.                      *)
LEMMA Current ==
  ASSUME HeaderInv, SegmentInv, Intact, epc \in {"copy", "zero"}
  PROVE  /\ pi + 1 \in DOMAIN elf.phdrs /\ phdr = elf.phdrs[pi + 1] /\ Loads(phdr) /\ pi \in Nat
         /\ phdr.paddr \in Nat /\ phdr.offset \in Nat /\ phdr.filesz \in Nat /\ phdr.memsz \in Nat
         /\ phdr.filesz <= phdr.memsz
         /\ \A a \in Image(phdr) : SectorData + SectSize <= a /\ a \in Address
         /\ \A i \in 1 .. pi : Loads(elf.phdrs[i]) =>
              \A a \in Image(elf.phdrs[i]) :
                a \notin Image(phdr) /\ SectorData + SectSize <= a /\ a \in Address
<1>1. pi + 1 \in DOMAIN elf.phdrs /\ pi \in Nat
  BY PhdrCount DEF HeaderInv
<1>2. phdr = elf.phdrs[pi + 1] /\ Loads(phdr)
  BY Zenon DEF SegmentInv, PhdrAt
<1>3. /\ phdr.paddr \in Nat /\ phdr.offset \in Nat /\ phdr.filesz \in Nat /\ phdr.memsz \in Nat
  BY Zenon, <1>1, <1>2, PhdrFields
<1>4. \A i \in DOMAIN elf.phdrs : Loads(elf.phdrs[i]) =>
        \A a \in Image(elf.phdrs[i]) : SectorData + SectSize <= a /\ a \in Address
  <2> SUFFICES ASSUME NEW i \in DOMAIN elf.phdrs, Loads(elf.phdrs[i]), NEW a \in Image(elf.phdrs[i])
               PROVE  SectorData + SectSize <= a /\ a \in Address
    BY Zenon
  <2>1. SectorData + SectSize <= a /\ a < MemSize
    BY Zenon, PlacedAssumption DEF HeaderInv
  <2>2. a \in Nat
    BY PhdrFields DEF Image
  <2> QED BY <2>1, <2>2, DiskAssumption DEF Address
<1>5. phdr.filesz <= phdr.memsz
  BY Zenon, <1>1, <1>2, PlacedAssumption DEF HeaderInv
<1>6. ASSUME NEW i \in 1 .. pi, Loads(elf.phdrs[i]), NEW a \in Image(elf.phdrs[i])
      PROVE  a \notin Image(phdr) /\ SectorData + SectSize <= a /\ a \in Address
  <2>1. i \in DOMAIN elf.phdrs /\ i # pi + 1
    BY <1>1, <1>6, PhdrCount
  <2>2. Image(elf.phdrs[i]) \cap Image(elf.phdrs[pi + 1]) = {}
    BY Zenon, <1>1, <1>2, <1>6, <2>1, PlacedAssumption DEF HeaderInv
  <2> QED BY Zenon, <1>2, <1>4, <1>6, <2>1, <2>2
<1> QED BY Zenon, <1>1, <1>2, <1>3, <1>4, <1>5, <1>6

(* One piece of a segment: foff and dst move on together, whatever part of *)
(* a sector the piece is.                                                  *)
LEMMA PieceCopied ==
  ASSUME HeaderInv, SegmentInv, Intact, epc = "copy", k_readfile, ~failed'
  PROVE  \E nb \in Nat :
           /\ nb <= fsize /\ fsize' = fsize - nb /\ foff' = foff + nb /\ dst' = dst + nb
           /\ \A a \in Address : a >= SectorData + SectSize =>
                mem'[a] = IF Within(a, dst, nb) THEN foff + (a - dst) ELSE mem[a]
<1> DEFINE nb == Least(SectSize - ReadStart, fsize)
<1>1. /\ pi + 1 \in DOMAIN elf.phdrs /\ phdr.paddr \in Nat /\ phdr.offset \in Nat
      /\ phdr.filesz \in Nat /\ phdr.memsz \in Nat /\ phdr.filesz <= phdr.memsz
      /\ \A a \in Image(phdr) : SectorData + SectSize <= a /\ a \in Address
  BY Zenon, Current
<1>2. /\ fsize \in Nat /\ fsize <= phdr.filesz /\ fsize # 0 /\ foff \in Nat /\ dst \in Nat
      /\ phdr.paddr <= dst /\ dst + fsize = phdr.paddr + phdr.filesz
  <2>1. /\ fsize \in 0 .. phdr.filesz
        /\ dst = phdr.paddr + (phdr.filesz - fsize) /\ foff = phdr.offset + (phdr.filesz - fsize)
    BY Zenon DEF SegmentInv
  <2>2. fsize # 0
    BY Zenon DEF k_readfile
  <2> QED BY <1>1, <2>1, <2>2
<1>3. PICK S \in Nat \ {0}, B \in Nat, r \in Nat, q \in Nat :
        /\ S = SectSize /\ B = SectorData /\ r = ReadStart /\ q = foff \div SectSize
        /\ r < S /\ q * S + r = foff /\ q * S \in Nat
  <2>1. SectSize \in Nat \ {0} /\ SectorData \in Nat
    BY Zenon, DiskAssumption
  <2>2. \A x \in Nat, y \in Nat \ {0} :
          x % y \in Nat /\ x % y < y /\ x \div y \in Nat /\ (x \div y) * y + (x % y) = x
    OBVIOUS
  <2>3. /\ foff % SectSize \in Nat /\ foff % SectSize < SectSize /\ foff \div SectSize \in Nat
        /\ (foff \div SectSize) * SectSize + (foff % SectSize) = foff
    BY Zenon, <1>2, <2>1, <2>2
  <2>4. \A x, y \in Nat : x * y \in Nat
    OBVIOUS
  <2> QED BY Zenon, <2>1, <2>3, <2>4 DEF ReadStart
<1>4. nb \in Nat /\ nb <= fsize /\ nb <= S - r
  BY <1>2, <1>3 DEF Least
<1>5. /\ fsize' = fsize - nb /\ foff' = foff + nb /\ dst' = dst + nb
      /\ mem' = [a \in Address |-> IF Within(a, dst, nb)
                                   THEN Reading(mem, SectorData, q)[SectorData + ReadStart + (a - dst)]
                                   ELSE Reading(mem, SectorData, q)[a]]
  BY Zenon, <1>3 DEF k_readfile
<1> HIDE DEF nb
<1>6. B + S <= MemSize
  <2>1. phdr.paddr \in Image(phdr)
    BY <1>1, <1>2 DEF Image
  <2> QED BY <1>1, <1>3, <2>1, DiskAssumption DEF Address
<1>7. ASSUME NEW a \in Address, a >= SectorData + SectSize
      PROVE  mem'[a] = IF Within(a, dst, nb) THEN foff + (a - dst) ELSE mem[a]
  <2>0. a \in Nat
    BY <1>7 DEF Address
  <2>1. CASE Within(a, dst, nb)
    <3>1. PICK k \in Nat : k = a - dst /\ k < nb
      BY <1>2, <1>4, <2>0, <2>1 DEF Within
    <3>2. B + r + k \in Address /\ Within(B + r + k, B, S) /\ (B + r + k) - B = r + k
      BY <1>3, <1>4, <1>6, <3>1, DiskAssumption DEF Address, Within
    <3>3. ~(B >= HighMemory)
      BY <1>3, DiskAssumption
    <3>4. Reading(mem, B, q)[B + r + k] = q * S + (r + k)
      BY Zenon, <1>3, <3>2, <3>3 DEF Reading
    <3>5. mem'[a] = q * S + (r + k)
      BY Zenon, <1>3, <1>5, <1>7, <2>1, <3>1, <3>4
    <3> QED BY <1>3, <2>1, <3>1, <3>5
  <2>2. CASE ~Within(a, dst, nb)
    <3>1. Reading(mem, SectorData, q)[a] = mem[a]
      <4>1. ~Within(a, SectorData, SectSize)
        BY <1>7, <2>0, DiskAssumption DEF Within
      <4> QED BY <1>3, <1>7, <4>1, ReadAt
    <3> QED BY Zenon, <1>5, <1>7, <2>2, <3>1
  <2> QED BY Zenon, <2>1, <2>2
<1> QED BY Zenon, <1>4, <1>5, <1>7

(* The initial state.                                                      *)
LEMMA ElfInitInv == DiskInit /\ ElfInit => ElfInv
<1> SUFFICES ASSUME DiskInit, ElfInit PROVE ElfInv
  BY Zenon
<1>1. elf \in Elves /\ pi = 0 /\ epc = "idle"
  BY Zenon DEF ElfInit
<1>2. elf.phdrs \in Seq([type : Nat, exec : BOOLEAN, paddr : Nat, offset : Nat, filesz : Nat, memsz : Nat])
  BY Zenon, <1>1, ElfAssumption
<1>3. HeaderInv
  <2>1. Len(elf.phdrs) \in Nat
    BY <1>2
  <2> QED BY <1>1, <2>1 DEF HeaderInv
<1>4. SegmentInv
  BY <1>1 DEF SegmentInv
<1> QED BY Zenon, <1>3, <1>4 DEF ElfInv

(* What is loaded stays loaded, when a step leaves memory alone.           *)
LEMMA QuietKeeps ==
  ASSUME ElfInv, UNCHANGED <<mem, elf, pi, phdr, foff, fsize, dst>>, failed => failed',
         \/ epc' = epc
         \/ epc' = "phdr"
         \/ epc' = "jump" /\ pi = Len(elf.phdrs)
         \/ epc = "copy" /\ epc' = "zero" /\ fsize = 0
  PROVE  ElfInv'
<1>1. HeaderInv'
  BY Zenon DEF ElfInv, HeaderInv
<1>2. Intact' => Intact
  BY Zenon DEF Intact, Straddles
<1>3. SegmentInv'
  BY Zenon, <1>2 DEF ElfInv, SegmentInv, PhdrAt
<1> QED BY Zenon, <1>1, <1>3 DEF ElfInv

(* The next header.                                                        *)
LEMMA NextPhdrKeeps == ASSUME ElfInv, NextPhdr PROVE ElfInv'
<1>1. HeaderInv /\ SegmentInv
  BY Zenon DEF ElfInv
<1>2. pi + 1 \in DOMAIN elf.phdrs /\ pi \in Nat /\ Len(elf.phdrs) \in Nat /\ epc = "phdr"
  BY <1>1, PhdrCount DEF HeaderInv, NextPhdr
<1>3. PICK ok \in BOOLEAN : \E p \in PhdrRead(pi, ok) :
        /\ phdr' = p /\ failed' = (failed \/ ~ok)
        /\ IF Loads(p)
           THEN epc' = "copy" /\ dst' = p.paddr /\ foff' = p.offset /\ fsize' = p.filesz /\ UNCHANGED pi
           ELSE pi' = pi + 1 /\ UNCHANGED <<epc, foff, fsize, dst>>
  BY Zenon DEF NextPhdr
<1>4. PICK p \in PhdrRead(pi, ok) :
        /\ phdr' = p /\ failed' = (failed \/ ~ok)
        /\ IF Loads(p)
           THEN epc' = "copy" /\ dst' = p.paddr /\ foff' = p.offset /\ fsize' = p.filesz /\ UNCHANGED pi
           ELSE pi' = pi + 1 /\ UNCHANGED <<epc, foff, fsize, dst>>
  BY Zenon, <1>3
<1>5. UNCHANGED <<elf, mem>>
  BY Zenon DEF NextPhdr
<1>6. HeaderInv'
  <2>1. CASE Loads(p)
    BY Zenon, <1>1, <1>2, <1>4, <1>5, <2>1 DEF HeaderInv, NextPhdr
  <2>2. CASE ~Loads(p)
    BY <1>1, <1>2, <1>4, <1>5, <2>2 DEF HeaderInv, NextPhdr
  <2> QED BY Zenon, <2>1, <2>2
<1>7. ASSUME Intact'
      PROVE  /\ \A i \in 1 .. pi : Loads(elf.phdrs[i]) =>
                  \A a \in Image(elf.phdrs[i]) : mem[a] = Byte(elf.phdrs[i], a)
             /\ p = elf.phdrs[pi + 1]
  <2>1. Intact /\ ok
    BY Zenon, <1>4, <1>5, <1>7 DEF Intact, Straddles
  <2>2. (pi + 1) - 1 = pi
    BY <1>2
  <2>3. ~Straddles(pi)
    BY Zenon, <1>2, <2>1, <2>2 DEF Intact
  <2> QED BY Zenon, <1>1, <1>4, <2>1, <2>3 DEF SegmentInv, PhdrRead, PhdrAt
<1>8. SegmentInv'
  <2> SUFFICES ASSUME Intact' PROVE
        /\ \A i \in 1 .. pi' : Loads(elf.phdrs[i]) =>
             \A a \in Image(elf.phdrs[i]) : mem[a] = Byte(elf.phdrs[i], a)
        /\ epc' \in {"copy", "zero"} =>
             /\ phdr' = elf.phdrs[pi' + 1] /\ Loads(phdr') /\ fsize' \in 0 .. phdr'.filesz
             /\ dst' = phdr'.paddr + (phdr'.filesz - fsize')
             /\ foff' = phdr'.offset + (phdr'.filesz - fsize')
             /\ \A a \in Image(phdr') : a < dst' => mem[a] = Byte(phdr', a)
        /\ epc' # "zero"
    BY Zenon, <1>5 DEF SegmentInv, PhdrAt
  <2>1. CASE Loads(p)
    <3>1. pi' = pi /\ phdr' = p /\ epc' = "copy" /\ dst' = p.paddr /\ foff' = p.offset /\ fsize' = p.filesz
      BY Zenon, <1>4, <2>1
    <3>2. p = elf.phdrs[pi + 1]
      BY Zenon, <1>7
    <3>3. p.paddr \in Nat /\ p.offset \in Nat /\ p.filesz \in Nat /\ p.memsz \in Nat
      BY Zenon, <1>1, <1>2, <3>2, PhdrFields
    <3>4. fsize' \in 0 .. p.filesz /\ dst' = p.paddr + (p.filesz - fsize') /\ foff' = p.offset + (p.filesz - fsize')
      BY <3>1, <3>3
    <3>5. \A a \in Image(p) : ~(a < dst')
      BY <3>1, <3>3 DEF Image
    <3> QED BY Zenon, <1>7, <2>1, <3>1, <3>2, <3>4, <3>5
  <2>2. CASE ~Loads(p)
    <3>1. pi' = pi + 1 /\ epc' = "phdr"
      BY Zenon, <1>2, <1>4, <2>2
    <3>2. \A i \in 1 .. pi + 1 : i \in 1 .. pi \/ i = pi + 1
      BY <1>2
    <3> QED BY Zenon, <1>7, <2>2, <3>1, <3>2
  <2> QED BY Zenon, <2>1, <2>2
<1> QED BY Zenon, <1>6, <1>8 DEF ElfInv

(* A piece of the current segment.                                         *)
LEMMA CopyKeeps == ASSUME ElfInv, k_readfile PROVE ElfInv'
<1>1. HeaderInv /\ SegmentInv /\ epc = "copy" /\ UNCHANGED <<epc, elf, pi, phdr>>
  BY Zenon DEF ElfInv, k_readfile
<1>2. HeaderInv'
  BY Zenon, <1>1 DEF HeaderInv
<1>3. ASSUME Intact' PROVE Intact /\ ~failed'
  <2>1. PICK ok \in BOOLEAN : failed' = (failed \/ ~ok)
    BY Zenon DEF k_readfile
  <2> QED BY Zenon, <1>1, <1>3, <2>1 DEF Intact, Straddles
<1>4. SegmentInv'
  <2> SUFFICES ASSUME Intact' PROVE
        /\ \A i \in 1 .. pi : Loads(elf.phdrs[i]) =>
             \A a \in Image(elf.phdrs[i]) : mem'[a] = Byte(elf.phdrs[i], a)
        /\ phdr = elf.phdrs[pi + 1] /\ Loads(phdr) /\ fsize' \in 0 .. phdr.filesz
        /\ dst' = phdr.paddr + (phdr.filesz - fsize')
        /\ foff' = phdr.offset + (phdr.filesz - fsize')
        /\ \A a \in Image(phdr) : a < dst' => mem'[a] = Byte(phdr, a)
    BY Zenon, <1>1 DEF SegmentInv, PhdrAt
  <2>1. Intact /\ ~failed'
    BY Zenon, <1>3
  <2>2. PICK nb \in Nat :
           /\ nb <= fsize /\ fsize' = fsize - nb /\ foff' = foff + nb /\ dst' = dst + nb
           /\ \A a \in Address : a >= SectorData + SectSize =>
                mem'[a] = IF Within(a, dst, nb) THEN foff + (a - dst) ELSE mem[a]
    BY Zenon, <1>1, <2>1, PieceCopied
  <2>3. /\ phdr = elf.phdrs[pi + 1] /\ Loads(phdr)
        /\ phdr.paddr \in Nat /\ phdr.offset \in Nat /\ phdr.filesz \in Nat /\ phdr.memsz \in Nat
        /\ phdr.filesz <= phdr.memsz
        /\ \A a \in Image(phdr) : SectorData + SectSize <= a /\ a \in Address
        /\ \A i \in 1 .. pi : Loads(elf.phdrs[i]) =>
             \A a \in Image(elf.phdrs[i]) :
               a \notin Image(phdr) /\ SectorData + SectSize <= a /\ a \in Address
    BY Zenon, <1>1, <2>1, Current
  <2>4. /\ fsize \in 0 .. phdr.filesz
        /\ dst = phdr.paddr + (phdr.filesz - fsize) /\ foff = phdr.offset + (phdr.filesz - fsize)
        /\ \A a \in Image(phdr) : a < dst => mem[a] = Byte(phdr, a)
        /\ \A i \in 1 .. pi : Loads(elf.phdrs[i]) =>
             \A a \in Image(elf.phdrs[i]) : mem[a] = Byte(elf.phdrs[i], a)
    BY Zenon, <1>1, <2>1 DEF SegmentInv
  <2>5. SectorData + SectSize \in Nat
    BY DiskAssumption
  <2>6. \A a \in Address : a \in Int
    BY DEF Address
  <2>7. ASSUME NEW i \in 1 .. pi, Loads(elf.phdrs[i]), NEW a \in Image(elf.phdrs[i])
        PROVE  mem'[a] = Byte(elf.phdrs[i], a)
    <3>1. a \notin Image(phdr) /\ a \in Address /\ a >= SectorData + SectSize /\ a \in Int
      BY Zenon, <2>3, <2>5, <2>6, <2>7
    <3>2. ~Within(a, dst, nb)
      BY <2>2, <2>3, <2>4, <3>1 DEF Within, Image
    <3> QED BY Zenon, <2>2, <2>4, <2>7, <3>1, <3>2
  <2>8. ASSUME NEW a \in Image(phdr), a < dst'
        PROVE  mem'[a] = Byte(phdr, a)
    <3>1. a \in Address /\ a >= SectorData + SectSize /\ a \in Int
      BY Zenon, <2>3, <2>5, <2>6, <2>8
    <3>2. CASE a < dst
      <4>1. ~Within(a, dst, nb)
        BY <2>3, <2>4, <3>1, <3>2 DEF Within
      <4> QED BY Zenon, <2>2, <2>4, <3>1, <3>2, <4>1
    <3>3. CASE ~(a < dst)
      <4>1. Within(a, dst, nb)
        BY <2>2, <2>3, <2>4, <2>8, <3>1, <3>3 DEF Within
      <4>2. a - phdr.paddr < phdr.filesz /\ foff + (a - dst) = phdr.offset + (a - phdr.paddr)
        BY <2>2, <2>3, <2>4, <2>8, <3>1, <3>3
      <4> QED BY Zenon, <2>2, <3>1, <4>1, <4>2 DEF Byte
    <3> QED BY Zenon, <3>2, <3>3
  <2>9. /\ fsize' \in 0 .. phdr.filesz /\ dst' = phdr.paddr + (phdr.filesz - fsize')
        /\ foff' = phdr.offset + (phdr.filesz - fsize')
    BY <2>2, <2>3, <2>4
  <2> QED BY Zenon, <2>3, <2>7, <2>8, <2>9
<1> QED BY Zenon, <1>2, <1>4 DEF ElfInv

(* The zeros after the current segment.                                    *)
LEMMA ZeroKeeps == ASSUME ElfInv, k_memzero PROVE ElfInv'
<1>1. /\ HeaderInv /\ SegmentInv /\ epc = "zero" /\ UNCHANGED <<elf, phdr, failed>>
      /\ pi' = pi + 1 /\ epc' = "phdr"
      /\ mem' = [a \in Address |-> IF Within(a, dst, phdr.memsz - phdr.filesz) THEN Zero ELSE mem[a]]
  BY Zenon DEF ElfInv, k_memzero
<1>2. HeaderInv'
  BY <1>1, PhdrCount DEF HeaderInv
<1>3. SegmentInv'
  <2> SUFFICES ASSUME Intact' PROVE
        \A i \in 1 .. pi + 1 : Loads(elf.phdrs[i]) =>
             \A a \in Image(elf.phdrs[i]) : mem'[a] = Byte(elf.phdrs[i], a)
    BY <1>1 DEF SegmentInv
  <2>1. Intact
    BY Zenon, <1>1 DEF Intact, Straddles
  <2>2. /\ phdr = elf.phdrs[pi + 1] /\ pi \in Nat
        /\ phdr.paddr \in Nat /\ phdr.offset \in Nat /\ phdr.filesz \in Nat /\ phdr.memsz \in Nat
        /\ phdr.filesz <= phdr.memsz
        /\ \A a \in Image(phdr) : SectorData + SectSize <= a /\ a \in Address
        /\ \A i \in 1 .. pi : Loads(elf.phdrs[i]) =>
             \A a \in Image(elf.phdrs[i]) :
               a \notin Image(phdr) /\ SectorData + SectSize <= a /\ a \in Address
    BY Zenon, <1>1, <2>1, Current
  <2>3. /\ fsize = 0 /\ dst = phdr.paddr + (phdr.filesz - fsize)
        /\ \A a \in Image(phdr) : a < dst => mem[a] = Byte(phdr, a)
        /\ \A i \in 1 .. pi : Loads(elf.phdrs[i]) =>
             \A a \in Image(elf.phdrs[i]) : mem[a] = Byte(elf.phdrs[i], a)
    BY Zenon, <1>1, <2>1 DEF SegmentInv
  <2>4. dst = phdr.paddr + phdr.filesz
    BY <2>2, <2>3
  <2>5. \A a \in Address : a \in Int
    BY DEF Address
  <2>6. ASSUME NEW i \in 1 .. pi, Loads(elf.phdrs[i]), NEW a \in Image(elf.phdrs[i])
        PROVE  mem'[a] = Byte(elf.phdrs[i], a)
    <3>1. a \notin Image(phdr) /\ a \in Address /\ a \in Int
      BY Zenon, <2>2, <2>5, <2>6
    <3>2. ~Within(a, dst, phdr.memsz - phdr.filesz)
      BY <2>2, <2>4, <3>1 DEF Within, Image
    <3> QED BY Zenon, <1>1, <2>3, <2>6, <3>1, <3>2
  <2>7. ASSUME NEW a \in Image(phdr)
        PROVE  mem'[a] = Byte(phdr, a)
    <3>1. a \in Address /\ a \in Int
      BY Zenon, <2>2, <2>5, <2>7
    <3>2. CASE a < dst
      <4>1. ~Within(a, dst, phdr.memsz - phdr.filesz)
        BY <2>2, <2>4, <3>1, <3>2 DEF Within
      <4> QED BY Zenon, <1>1, <2>3, <3>1, <3>2, <4>1
    <3>3. CASE ~(a < dst)
      <4>1. Within(a, dst, phdr.memsz - phdr.filesz) /\ ~(a - phdr.paddr < phdr.filesz)
        BY <2>2, <2>4, <2>7, <3>1, <3>3 DEF Within, Image
      <4> QED BY Zenon, <1>1, <3>1, <4>1 DEF Byte
    <3> QED BY Zenon, <3>2, <3>3
  <2>8. \A i \in 1 .. pi + 1 : i \in 1 .. pi \/ i = pi + 1
    BY <2>2
  <2> QED BY Zenon, <2>2, <2>6, <2>7, <2>8
<1> QED BY Zenon, <1>2, <1>3 DEF ElfInv

(* Every step of the loader and of gettext.                                *)
LEMMA ElfNextInv == ElfInv /\ [ElfNext]_<<mem, bios, failed, elfVars>> => ElfInv'
<1> SUFFICES ASSUME ElfInv, [ElfNext]_<<mem, bios, failed, elfVars>> PROVE ElfInv'
  BY Zenon
<1>1. CASE elf_main
  <2>1. epc' = "phdr" /\ UNCHANGED <<mem, elf, pi, phdr, foff, fsize, dst>>
    BY Zenon, <1>1 DEF elf_main
  <2>2. failed => failed'
    BY Zenon, <1>1 DEF elf_main
  <2> QED BY Zenon, <2>1, <2>2, QuietKeeps
<1>2. CASE NextPhdr
  BY Zenon, <1>2, NextPhdrKeeps
<1>3. CASE k_readfile
  BY Zenon, <1>3, CopyKeeps
<1>4. CASE k_readfile_Done
  BY Zenon, <1>4, QuietKeeps DEF k_readfile_Done
<1>5. CASE k_memzero
  BY Zenon, <1>5, ZeroKeeps
<1>6. CASE kernel_entry
  BY Zenon, <1>6, QuietKeeps DEF kernel_entry
<1>7. CASE gettext
  BY Zenon, <1>7, QuietKeeps DEF gettext, loaderVars
<1>8. CASE NextSegment
  BY Zenon, <1>8, QuietKeeps DEF NextSegment, loaderVars
<1>9. CASE xfcopy \/ xfcopy_Fails \/ xfcopy_Done \/ gettext_Exit
  <2>1. UNCHANGED <<mem, failed, elf, loaderVars>>
    BY Zenon, <1>9 DEF xfcopy, xfcopy_Fails, xfcopy_Done, gettext_Exit
  <2> QED BY Zenon, <2>1, QuietKeeps DEF loaderVars
<1>10. CASE UNCHANGED <<mem, bios, failed, elfVars>>
  BY Zenon, <1>10, QuietKeeps DEF elfVars
<1> QED BY Zenon, <1>1, <1>2, <1>3, <1>4, <1>5, <1>6, <1>7, <1>8, <1>9, <1>10 DEF ElfNext

(* What the loader of an ELF kernel copied so far lies where the headers   *)
(* say.                                                                    *)
THEOREM ElfLoaderInv == ElfSpec => []ElfInv
<1> QED BY ElfInitInv, ElfNextInv, PTL DEF ElfSpec

(* The kernel is entered with every segment in its place, cut into pieces  *)
(* at the ends of sectors or not, and followed by its zeros.               *)
THEOREM KernelLoaded == ElfSpec => []SegmentsLoaded
<1>1. ElfInv => SegmentsLoaded
  <2> SUFFICES ASSUME ElfInv, epc = "jump", ~failed,
                      \A i \in DOMAIN elf.phdrs : ~Straddles(i - 1),
                      NEW i \in DOMAIN elf.phdrs, elf.phdrs[i].type = PT_LOAD,
                      NEW a \in Image(elf.phdrs[i])
               PROVE  mem[a] = Byte(elf.phdrs[i], a)
    BY Zenon DEF SegmentsLoaded, Segments, Byte
  <2>1. i \in 1 .. pi
    BY Zenon, PhdrCount DEF ElfInv, HeaderInv
  <2>2. Loads(elf.phdrs[i])
    BY DEF Loads, PT_LOAD
  <2> QED BY Zenon, <2>1, <2>2 DEF ElfInv, SegmentInv, Intact
<1> QED BY <1>1, ElfLoaderInv, PTL

-----------------------------------------------------------------------------
(* gettext.                                                                *)
INSTANCE WellFoundedInduction

(* The first n bytes of the i-th segment stand in the output.              *)
Copied(i, n) ==
  \A k \in 1 .. n : text[TextEnd[i - 1] + k] = elf.phdrs[i].offset + k - 1

Written(i) ==
  TextEnd[i] <= Len(text) /\ (Executable(elf.phdrs[i]) => Copied(i, elf.phdrs[i].filesz))

(* The headers done are in the output, and of the current one what         *)
(* precedes the place xfcopy has come to.                                  *)
TextInv ==
  /\ elf \in Elves /\ xi \in 0 .. Len(elf.phdrs) /\ text \in Seq(Nat)
  /\ xpc \in {"idle", "phdr", "exit"} =>
       Len(text) = TextEnd[xi] /\ \A i \in 1 .. xi : Written(i)
  /\ xpc = "copy" =>
       /\ xi # 0 /\ Executable(elf.phdrs[xi]) /\ \A i \in 1 .. xi - 1 : Written(i)
       /\ count \in 0 .. elf.phdrs[xi].filesz
       /\ offset = elf.phdrs[xi].offset + (elf.phdrs[xi].filesz - count)
       /\ Len(text) = TextEnd[xi - 1] + (elf.phdrs[xi].filesz - count)
       /\ Copied(xi, elf.phdrs[xi].filesz - count)
  /\ xpc = "exit" => xi = Len(elf.phdrs)

(* The sums of the first numbers of a list, as a function.                 *)
LEMMA RunningSum ==
  ASSUME NEW N \in Nat, NEW h \in [1 .. N -> Nat]
  PROVE  \E g \in [0 .. N -> Nat] : g = [i \in 0 .. N |-> IF i = 0 THEN 0 ELSE g[i - 1] + h[i]]
<1> DEFINE Sums(n, g) == g[0] = 0 /\ \A i \in 1 .. n : g[i] = g[i - 1] + h[i]
           Bad == {n \in 0 .. N : ~\E g \in [0 .. n -> Nat] : Sums(n, g)}
<1>1. Bad = {}
  <2> SUFFICES ASSUME Bad # {} PROVE FALSE
    BY Zenon
  <2>1. Bad \subseteq Nat
    OBVIOUS
  <2>2. PICK n \in Bad : \A m \in Bad : ~(<<m, n>> \in OpToRel(<, Nat))
    BY Zenon, <2>1, NatLessThanWellFounded, WFMin
  <2>3. \A m \in Bad : ~(m < n)
    BY Zenon, <2>1, <2>2 DEF OpToRel
  <2>4. n \in 0 .. N /\ ~\E g \in [0 .. n -> Nat] : Sums(n, g)
    BY Zenon, <2>2
  <2>5. n # 0
    <3> SUFFICES ASSUME n = 0 PROVE FALSE
      BY Zenon
    <3> DEFINE z == [i \in 0 .. n |-> 0]
    <3>1. z \in [0 .. n -> Nat] /\ z[0] = 0 /\ 1 .. n = {}
      OBVIOUS
    <3>2. Sums(n, z)
      BY Zenon, <3>1
    <3> QED BY Zenon, <2>4, <3>1, <3>2
  <2>6. n - 1 \in 0 .. N /\ n - 1 < n /\ n \in 1 .. N
    BY <2>4, <2>5
  <2>7. PICK g \in [0 .. n - 1 -> Nat] : Sums(n - 1, g)
    BY Zenon, <2>3, <2>6
  <2> DEFINE f == [i \in 0 .. n |-> IF i = n THEN g[n - 1] + h[n] ELSE g[i]]
  <2>8. /\ \A i \in 0 .. n : i = n \/ i \in 0 .. n - 1
        /\ \A i \in 1 .. n : i - 1 \in 0 .. n - 1 /\ i - 1 # n /\ i \in 0 .. n /\ i - 1 \in 0 .. n
        /\ \A i \in 1 .. n : i = n \/ i \in 1 .. n - 1
        /\ 0 \in 0 .. n /\ 0 # n /\ n - 1 \in 0 .. n - 1
        /\ \A x, y \in Nat : x + y \in Nat
    BY <2>6
  <2>9. f \in [0 .. n -> Nat]
    BY Zenon, <2>6, <2>7, <2>8
  <2>10. Sums(n, f)
    <3>1. f[0] = 0
      BY Zenon, <2>7, <2>8
    <3>2. ASSUME NEW i \in 1 .. n PROVE f[i] = f[i - 1] + h[i]
      BY Zenon, <2>7, <2>8
    <3> QED BY Zenon, <3>1, <3>2
  <2> QED BY Zenon, <2>4, <2>9, <2>10
<1>2. PICK g \in [0 .. N -> Nat] : Sums(N, g)
  <2>1. N \in 0 .. N
    OBVIOUS
  <2> QED BY Zenon, <1>1, <2>1
<1>3. \A i \in 0 .. N : i = 0 \/ i \in 1 .. N
  OBVIOUS
<1>4. \A i \in 0 .. N : g[i] = IF i = 0 THEN 0 ELSE g[i - 1] + h[i]
  BY Zenon, <1>2, <1>3
<1> QED BY Zenon, <1>4

(* What gettext writes for the first headers is a sum.                     *)
LEMMA TextEnds ==
  ASSUME elf \in Elves
  PROVE  /\ Len(elf.phdrs) \in Nat /\ DOMAIN elf.phdrs = 1 .. Len(elf.phdrs)
         /\ TextEnd[0] = 0 /\ \A i \in 0 .. Len(elf.phdrs) : TextEnd[i] \in Nat
         /\ \A i \in 1 .. Len(elf.phdrs) :
              /\ TextEnd[i] = TextEnd[i - 1] + CodeSize(elf.phdrs[i])
              /\ elf.phdrs[i].filesz \in Nat /\ elf.phdrs[i].offset \in Nat
<1> DEFINE P == [type : Nat, exec : BOOLEAN, paddr : Nat, offset : Nat, filesz : Nat, memsz : Nat]
           N == Len(elf.phdrs)
           h == [i \in 1 .. N |-> CodeSize(elf.phdrs[i])]
<1>1. elf.phdrs \in Seq(P)
  BY Zenon, ElfAssumption
<1>2. \A p \in P : p.filesz \in Nat /\ p.offset \in Nat
  BY Zenon
<1> HIDE DEF P
<1>3. N \in Nat /\ DOMAIN elf.phdrs = 1 .. N /\ \A i \in 1 .. N : elf.phdrs[i] \in P
  BY <1>1
<1>4. h \in [1 .. N -> Nat]
  <2>1. 0 \in Nat
    OBVIOUS
  <2> QED BY Zenon, <1>2, <1>3, <2>1 DEF CodeSize
<1>5. /\ \A i \in 0 .. N : i = 0 \/ i \in 1 .. N
      /\ \A i \in 1 .. N : i # 0 /\ i \in 0 .. N
      /\ 0 \in 0 .. N
  BY <1>3
<1> HIDE DEF N
<1>6. PICK g \in [0 .. N -> Nat] : g = [i \in 0 .. N |-> IF i = 0 THEN 0 ELSE g[i - 1] + h[i]]
  BY Zenon, <1>3, <1>4, RunningSum
<1>7. g = [i \in 0 .. N |-> IF i = 0 THEN 0 ELSE g[i - 1] + CodeSize(elf.phdrs[i])]
  <2>1. \A i \in 0 .. N : g[i] = IF i = 0 THEN 0 ELSE g[i - 1] + CodeSize(elf.phdrs[i])
    BY Zenon, <1>5, <1>6
  <2> QED BY Zenon, <1>6, <2>1
<1>8. TextEnd = [i \in 0 .. N |-> IF i = 0 THEN 0 ELSE TextEnd[i - 1] + CodeSize(elf.phdrs[i])]
  BY Zenon, <1>7 DEF TextEnd, N
<1>9. \A i \in 1 .. N : TextEnd[i] = TextEnd[i - 1] + CodeSize(elf.phdrs[i])
  BY Zenon, <1>5, <1>8
<1>10. TextEnd[0] = 0
  BY Zenon, <1>5, <1>8
<1>11. \A i \in 1 .. N : CodeSize(elf.phdrs[i]) \in Nat
  BY Zenon, <1>4
<1>12. \A i \in 0 .. N : TextEnd[i] \in Nat
  <2> DEFINE Bad == {i \in 0 .. N : TextEnd[i] \notin Nat}
  <2> SUFFICES ASSUME Bad # {} PROVE FALSE
    BY Zenon
  <2>1. Bad \subseteq Nat
    OBVIOUS
  <2>2. PICK n \in Bad : \A m \in Bad : ~(<<m, n>> \in OpToRel(<, Nat))
    BY Zenon, <2>1, NatLessThanWellFounded, WFMin
  <2>3. \A m \in Bad : ~(m < n)
    BY Zenon, <2>1, <2>2 DEF OpToRel
  <2>4. n \in 0 .. N /\ n # 0
    <3>1. 0 \in Nat
      OBVIOUS
    <3> QED BY Zenon, <1>10, <2>2, <3>1
  <2>5. n \in 1 .. N /\ n - 1 \in 0 .. N /\ n - 1 < n
    <3> HIDE DEF Bad
    <3> QED BY <1>3, <2>4
  <2>6. TextEnd[n - 1] \in Nat
    BY Zenon, <2>3, <2>5
  <2>7. \A x, y \in Nat : x + y \in Nat
    OBVIOUS
  <2> QED BY Zenon, <1>9, <1>11, <2>2, <2>5, <2>6, <2>7
<1> QED BY Zenon, <1>2, <1>3, <1>9, <1>10, <1>12 DEF N

(* gettext has done nothing.                                               *)
LEMMA TextInitInv == ElfInit => TextInv
<1> SUFFICES ASSUME ElfInit PROVE TextInv
  BY Zenon
<1>1. elf \in Elves /\ xi = 0 /\ text = <<>> /\ xpc = "idle"
  BY Zenon DEF ElfInit
<1>2. Len(elf.phdrs) \in Nat /\ TextEnd[0] = 0
  BY Zenon, <1>1, TextEnds
<1>3. xi \in 0 .. Len(elf.phdrs) /\ text \in Seq(Nat) /\ Len(text) = 0 /\ 1 .. xi = {}
  BY <1>1, <1>2
<1> QED BY Zenon, <1>1, <1>2, <1>3 DEF TextInv

(* The loader does not touch what gettext uses.                            *)
LEMMA TextQuiet == ASSUME TextInv, UNCHANGED <<elf, xpc, xi, count, offset, text>> PROVE TextInv'
<1>1. TextEnd' = TextEnd
  BY Zenon DEF TextEnd, CodeSize
<1> QED BY Zenon, <1>1 DEF TextInv, Written, Copied

(* gettext goes on to the next header, or stops.                           *)
LEMMA TextMoves ==
  ASSUME TextInv, UNCHANGED <<elf, xi, text>>,
         \/ xpc \in {"idle", "phdr"} /\ xpc' = "phdr"
         \/ xpc' = "failed"
         \/ xpc = "phdr" /\ xi = Len(elf.phdrs) /\ xpc' = "exit"
  PROVE  TextInv'
<1>1. TextEnd' = TextEnd
  BY Zenon DEF TextEnd, CodeSize
<1> QED BY Zenon, <1>1 DEF TextInv, Written, Copied

(* The next header.                                                        *)
LEMMA SegmentText == ASSUME TextInv, NextSegment PROVE TextInv'
<1>1. /\ xpc = "phdr" /\ UNCHANGED <<elf, text>> /\ xi' = xi + 1 /\ xi < Len(elf.phdrs)
      /\ \/ xpc' = "failed"
         \/ Executable(PhdrAt(xi)) /\ xpc' = "copy" /\ count' = PhdrAt(xi).filesz /\ offset' = PhdrAt(xi).offset
         \/ ~Executable(PhdrAt(xi)) /\ xpc' = "phdr"
  BY Zenon DEF NextSegment
<1>2. TextEnd' = TextEnd
  BY Zenon, <1>1 DEF TextEnd, CodeSize
<1>3. /\ elf \in Elves /\ xi \in 0 .. Len(elf.phdrs) /\ text \in Seq(Nat)
      /\ Len(text) = TextEnd[xi] /\ \A i \in 1 .. xi : Written(i)
  BY Zenon, <1>1 DEF TextInv
<1>4. Len(elf.phdrs) \in Nat
  BY Zenon, <1>3, TextEnds
<1>5. PICK n \in 1 .. Len(elf.phdrs) : n = xi + 1 /\ n - 1 = xi /\ n # 0
  BY <1>1, <1>3, <1>4
<1>6. /\ TextEnd[n] = TextEnd[xi] + CodeSize(elf.phdrs[n]) /\ TextEnd[xi] \in Nat
      /\ elf.phdrs[n].filesz \in Nat /\ elf.phdrs[n].offset \in Nat
  BY Zenon, <1>3, <1>5, TextEnds
<1>7. \A i \in 1 .. n : i \in 1 .. xi \/ i = n
  BY <1>3, <1>5
<1>8. \A i \in 1 .. xi : Written(i)'
  BY Zenon, <1>1, <1>2, <1>3 DEF Written, Copied
<1>9. xi' = n /\ PhdrAt(xi) = elf.phdrs[n] /\ n \in 0 .. Len(elf.phdrs)
  BY <1>1, <1>5 DEF PhdrAt
<1>10. CASE xpc' = "failed"
  BY Zenon, <1>1, <1>3, <1>9, <1>10 DEF TextInv
<1>11. CASE Executable(PhdrAt(xi)) /\ xpc' = "copy" /\ count' = PhdrAt(xi).filesz /\ offset' = PhdrAt(xi).offset
  <2>1. PICK s \in Nat : s = elf.phdrs[n].filesz
    BY Zenon, <1>6
  <2>2. s \in 0 .. s /\ s - s = 0 /\ 1 .. 0 = {} /\ \A x \in Nat : x + 0 = x
    OBVIOUS
  <2>3. Copied(n, s - s)'
    BY Zenon, <2>2 DEF Copied
  <2>4. /\ count' = s /\ offset' = elf.phdrs[n].offset + (s - s) /\ Len(text) = TextEnd[n - 1] + (s - s)
        /\ Executable(elf.phdrs[n])
    BY Zenon, <1>3, <1>5, <1>6, <1>9, <1>11, <2>1, <2>2
  <2>5. \A i \in 1 .. n - 1 : Written(i)'
    BY Zenon, <1>5, <1>8
  <2> QED BY Zenon, <1>1, <1>2, <1>3, <1>5, <1>9, <1>11, <2>1, <2>2, <2>3, <2>4, <2>5 DEF TextInv
<1>12. CASE ~Executable(PhdrAt(xi)) /\ xpc' = "phdr"
  <2>1. TextEnd[n] = TextEnd[xi] + 0
    BY Zenon, <1>6, <1>9, <1>12 DEF CodeSize
  <2>2. TextEnd[n] = Len(text) /\ TextEnd[n] <= Len(text)
    BY <1>3, <1>6, <2>1
  <2>3. Written(n)'
    BY Zenon, <1>1, <1>2, <1>9, <1>12, <2>2 DEF Written, Executable
  <2>4. \A i \in 1 .. n : Written(i)'
    BY Zenon, <1>7, <1>8, <2>3
  <2> QED BY Zenon, <1>1, <1>2, <1>3, <1>9, <1>12, <2>2, <2>4 DEF TextInv
<1> QED BY Zenon, <1>1, <1>10, <1>11, <1>12

(* A piece of n bytes, and the output with a piece added.                  *)
LEMMA PieceIsSeq ==
  ASSUME NEW n \in Nat, NEW o \in Nat
  PROVE  \E s \in Seq(Nat) : /\ s = [i \in 1 .. n |-> o + i - 1] /\ Len(s) = n
                            /\ \A k \in 1 .. n : s[k] = o + k - 1
<1> DEFINE s == [i \in 1 .. n |-> o + i - 1]
<1>1. \A i \in 1 .. n : o + i - 1 \in Nat
  OBVIOUS
<1>2. s \in [1 .. n -> Nat]
  BY Zenon, <1>1
<1>3. s \in Seq(Nat) /\ Len(s) = n
  BY <1>2
<1> QED BY Zenon, <1>3

LEMMA Appended ==
  ASSUME NEW t \in Seq(Nat), NEW s \in Seq(Nat)
  PROVE  /\ t \o s \in Seq(Nat) /\ Len(t \o s) = Len(t) + Len(s) /\ Len(t) \in Nat
         /\ \A j \in 1 .. Len(t) : (t \o s)[j] = t[j]
         /\ \A k \in 1 .. Len(s) : (t \o s)[Len(t) + k] = s[k]
OBVIOUS

(* A piece of the current segment.                                         *)
LEMMA CopyText == ASSUME TextInv, xfcopy PROVE TextInv'
<1>1. /\ xpc = "copy" /\ count # 0 /\ UNCHANGED <<xpc, xi, elf>> /\ xreadat(offset, Piece)
      /\ text' = text \o [i \in 1 .. Piece |-> FileByte(offset + i - 1)]
      /\ count' = count - Piece /\ offset' = offset + Piece
  BY Zenon DEF xfcopy
<1>2. TextEnd' = TextEnd
  BY Zenon, <1>1 DEF TextEnd, CodeSize
<1>3. /\ elf \in Elves /\ xi \in 0 .. Len(elf.phdrs) /\ text \in Seq(Nat)
      /\ xi # 0 /\ Executable(elf.phdrs[xi]) /\ \A i \in 1 .. xi - 1 : Written(i)
      /\ count \in 0 .. elf.phdrs[xi].filesz
      /\ offset = elf.phdrs[xi].offset + (elf.phdrs[xi].filesz - count)
      /\ Len(text) = TextEnd[xi - 1] + (elf.phdrs[xi].filesz - count)
      /\ Copied(xi, elf.phdrs[xi].filesz - count)
  BY Zenon, <1>1 DEF TextInv
<1>4. /\ Len(elf.phdrs) \in Nat
      /\ \A i \in 0 .. Len(elf.phdrs) : TextEnd[i] \in Nat
      /\ \A i \in 1 .. Len(elf.phdrs) :
           /\ TextEnd[i] = TextEnd[i - 1] + CodeSize(elf.phdrs[i])
           /\ elf.phdrs[i].filesz \in Nat /\ elf.phdrs[i].offset \in Nat
  BY Zenon, <1>3, TextEnds
<1>5. xi \in 1 .. Len(elf.phdrs) /\ xi - 1 \in 0 .. Len(elf.phdrs)
  <2>1. PICK m \in Nat : m = Len(elf.phdrs)
    BY Zenon, <1>4
  <2>2. xi \in 0 .. m /\ xi # 0
    BY Zenon, <1>3, <2>1
  <2>3. xi \in 1 .. m /\ xi - 1 \in 0 .. m
    BY <2>1, <2>2
  <2> QED BY Zenon, <2>1, <2>3
<1>6. PICK s \in Nat, b \in Nat, e \in Nat :
        s = elf.phdrs[xi].filesz /\ b = elf.phdrs[xi].offset /\ e = TextEnd[xi - 1]
  BY Zenon, <1>4, <1>5
<1>7. PICK c \in Nat : c = count /\ c <= s /\ c # 0
  <2>1. count \in 0 .. s
    BY Zenon, <1>3, <1>6
  <2> QED BY <1>1, <2>1
<1>8. PICK n \in Nat : n = Piece /\ n <= c
  BY <1>7, ElfAssumption DEF Piece, Least
<1>9. PICK d \in Nat : d = s - c
  BY <1>7
<1>10. offset = b + d /\ offset \in Nat /\ Len(text) = e + d /\ Copied(xi, d)
  <2>1. offset = b + d /\ Len(text) = e + d /\ Copied(xi, d)
    BY Zenon, <1>3, <1>6, <1>7, <1>9
  <2>2. b + d \in Nat
    OBVIOUS
  <2> QED BY Zenon, <2>1, <2>2
<1>11. /\ text' \in Seq(Nat) /\ Len(text') = Len(text) + n /\ Len(text) \in Nat
       /\ \A j \in 1 .. Len(text) : text'[j] = text[j]
       /\ \A k \in 1 .. n : text'[Len(text) + k] = offset + k - 1
  <2>1. text' = text \o [i \in 1 .. n |-> offset + i - 1]
    <3>1. elf.size \in Nat /\ offset + n <= elf.size
      BY Zenon, <1>1, <1>3, <1>8, ElfAssumption DEF xreadat
    <3>2. \A i \in 1 .. n : offset + i - 1 < elf.size
      BY <1>10, <3>1
    <3> QED BY Zenon, <1>1, <1>8, <3>2 DEF FileByte
  <2>2. PICK v \in Seq(Nat) : /\ v = [i \in 1 .. n |-> offset + i - 1] /\ Len(v) = n
                              /\ \A k \in 1 .. n : v[k] = offset + k - 1
    BY Zenon, <1>10, PieceIsSeq
  <2>3. text' = text \o v
    BY Zenon, <2>1, <2>2
  <2>4. /\ text \o v \in Seq(Nat) /\ Len(text \o v) = Len(text) + Len(v) /\ Len(text) \in Nat
        /\ \A j \in 1 .. Len(text) : (text \o v)[j] = text[j]
        /\ \A k \in 1 .. Len(v) : (text \o v)[Len(text) + k] = v[k]
    BY Zenon, <1>3, <2>2, Appended
  <2> QED BY Zenon, <2>2, <2>3, <2>4
<1>12. ASSUME NEW i \in 1 .. xi - 1 PROVE Written(i)'
  <2>1. i \in 1 .. Len(elf.phdrs) /\ i - 1 \in 0 .. Len(elf.phdrs) /\ i \in 0 .. Len(elf.phdrs)
    BY <1>4, <1>5
  <2>2. PICK f \in Nat, l \in Nat, z \in Nat :
          /\ f = TextEnd[i - 1] /\ l = TextEnd[i] /\ z = elf.phdrs[i].filesz
          /\ Executable(elf.phdrs[i]) => l = f + z
    BY Zenon, <1>4, <2>1 DEF CodeSize
  <2>3. l <= Len(text) /\ (Executable(elf.phdrs[i]) => Copied(i, z))
    BY Zenon, <1>3, <2>2 DEF Written
  <2>4. l <= Len(text')
    BY <1>8, <1>11, <2>2, <2>3
  <2>5. ASSUME Executable(elf.phdrs[i]), NEW k \in 1 .. z
        PROVE  text'[f + k] = elf.phdrs[i].offset + k - 1
    <3>1. f + z <= Len(text)
      BY Zenon, <2>2, <2>3, <2>5
    <3>2. f + k \in 1 .. Len(text)
      BY <1>11, <3>1
    <3> QED BY Zenon, <1>11, <2>2, <2>3, <2>5, <3>2 DEF Copied
  <2> QED BY Zenon, <1>1, <1>2, <2>2, <2>4, <2>5 DEF Written, Copied
<1>13. ASSUME NEW k \in 1 .. d + n PROVE text'[e + k] = b + k - 1
  <2>1. CASE k <= d
    <3>1. e + k \in 1 .. Len(text) /\ k \in 1 .. d
      BY <1>10, <2>1
    <3>2. text'[e + k] = text[e + k]
      BY Zenon, <1>11, <3>1
    <3>3. text[e + k] = b + k - 1
      BY Zenon, <1>6, <1>10, <3>1 DEF Copied
    <3> QED BY Zenon, <3>2, <3>3
  <2>2. CASE ~(k <= d)
    <3>1. PICK m \in 1 .. n : k = d + m
      <4>1. k - d \in 1 .. n /\ k = d + (k - d)
        BY <2>2
      <4> QED BY Zenon, <4>1
    <3>2. Len(text) + m = e + k /\ offset + m - 1 = b + k - 1
      BY <1>10, <3>1
    <3>3. text'[Len(text) + m] = offset + m - 1
      BY Zenon, <1>11, <3>1
    <3> QED BY Zenon, <3>2, <3>3
  <2> QED BY Zenon, <2>1, <2>2
<1>14. PICK r \in Nat :
         /\ r = d + n /\ count' \in 0 .. s /\ r = s - count'
         /\ offset' = b + r /\ Len(text') = e + r
  <2>1. count' = c - n /\ offset' = (b + d) + n /\ Len(text') = (e + d) + n
    BY Zenon, <1>1, <1>7, <1>8, <1>10, <1>11
  <2>2. d + n \in Nat /\ count' \in 0 .. s /\ d + n = s - count'
    BY <1>7, <1>8, <1>9, <2>1
  <2>3. offset' = b + (d + n) /\ Len(text') = e + (d + n)
    BY <2>1
  <2> QED BY Zenon, <2>2, <2>3
<1>15. Copied(xi, r)'
  BY Zenon, <1>1, <1>2, <1>6, <1>13, <1>14 DEF Copied
<1> QED BY Zenon, <1>1, <1>2, <1>3, <1>6, <1>11, <1>12, <1>14, <1>15 DEF TextInv

(* The end of the current segment.                                         *)
LEMMA DoneText == ASSUME TextInv, xfcopy_Done PROVE TextInv'
<1>1. xpc = "copy" /\ count = 0 /\ xpc' = "phdr" /\ UNCHANGED <<xi, text, elf>>
  BY Zenon DEF xfcopy_Done
<1>2. TextEnd' = TextEnd
  BY Zenon, <1>1 DEF TextEnd, CodeSize
<1>3. /\ elf \in Elves /\ xi \in 0 .. Len(elf.phdrs) /\ text \in Seq(Nat)
      /\ xi # 0 /\ Executable(elf.phdrs[xi]) /\ \A i \in 1 .. xi - 1 : Written(i)
      /\ Len(text) = TextEnd[xi - 1] + (elf.phdrs[xi].filesz - 0)
      /\ Copied(xi, elf.phdrs[xi].filesz - 0)
  BY Zenon, <1>1 DEF TextInv
<1>4. Len(elf.phdrs) \in Nat
  BY Zenon, <1>3, TextEnds
<1>5. xi \in 1 .. Len(elf.phdrs) /\ xi \in 0 .. Len(elf.phdrs) /\ \A i \in 1 .. xi : i \in 1 .. xi - 1 \/ i = xi
  BY <1>3, <1>4
<1>6. PICK s \in Nat : s = elf.phdrs[xi].filesz /\ s - 0 = s
  <2>1. \A x \in Nat : x - 0 = x
    OBVIOUS
  <2> QED BY Zenon, <1>3, <1>5, <2>1, TextEnds
<1>7. Len(text) = TextEnd[xi]
  BY Zenon, <1>3, <1>5, <1>6, TextEnds DEF CodeSize
<1>8. TextEnd[xi] <= Len(text)
  <2>1. TextEnd[xi] \in Nat
    BY Zenon, <1>3, <1>5, TextEnds
  <2> QED BY <1>7, <2>1
<1>9. \A i \in 1 .. xi : Written(i)
  BY Zenon, <1>3, <1>5, <1>6, <1>8 DEF Written
<1> QED BY Zenon, <1>1, <1>2, <1>3, <1>7, <1>9 DEF TextInv, Written, Copied

(* Every step of the loader and of gettext.                                *)
LEMMA TextNextInv == TextInv /\ [ElfNext]_<<mem, bios, failed, elfVars>> => TextInv'
<1> SUFFICES ASSUME TextInv, [ElfNext]_<<mem, bios, failed, elfVars>> PROVE TextInv'
  BY Zenon
<1>1. CASE elf_main \/ NextPhdr \/ k_readfile
  BY Zenon, <1>1, TextQuiet DEF elf_main, NextPhdr, k_readfile, textVars
<1>2. CASE k_readfile_Done \/ k_memzero \/ kernel_entry
  BY Zenon, <1>2, TextQuiet DEF k_readfile_Done, k_memzero, kernel_entry, textVars
<1>3. CASE gettext \/ xfcopy_Fails \/ gettext_Exit
  BY Zenon, <1>3, TextMoves DEF gettext, xfcopy_Fails, gettext_Exit
<1>4. CASE NextSegment
  BY Zenon, <1>4, SegmentText
<1>5. CASE xfcopy
  BY Zenon, <1>5, CopyText
<1>6. CASE xfcopy_Done
  BY Zenon, <1>6, DoneText
<1>7. CASE UNCHANGED <<mem, bios, failed, elfVars>>
  BY Zenon, <1>7, TextQuiet DEF elfVars
<1> QED BY Zenon, <1>1, <1>2, <1>3, <1>4, <1>5, <1>6, <1>7 DEF ElfNext

(* When gettext exits with 0 the output is the executable segments, one    *)
(* after the other and whole, for every file and every size of the buffer  *)
(* of xfcopy.                                                              *)
THEOREM TextExtracted == ElfSpec => []TextWhole
<1>1. TextInv => TextWhole
  <2> SUFFICES ASSUME TextInv, xpc = "exit" PROVE
        /\ Len(text) = TextEnd[Len(elf.phdrs)]
        /\ \A i \in DOMAIN elf.phdrs : Executable(elf.phdrs[i]) => Copied(i, elf.phdrs[i].filesz)
    BY Zenon DEF TextWhole, Copied
  <2>1. DOMAIN elf.phdrs = 1 .. Len(elf.phdrs)
    BY Zenon, TextEnds DEF TextInv
  <2> QED BY Zenon, <2>1 DEF TextInv, Written
<1> QED BY <1>1, TextInitInv, TextNextInv, PTL DEF ElfSpec
=============================================================================
