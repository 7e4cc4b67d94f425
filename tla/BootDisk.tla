------------------------------ MODULE BootDisk ------------------------------
(***************************************************************************)
(* read_disk of src/bootloader/serial.h, as the boot loaders use it: by    *)
(* port, or through the BIOS (src/bios/bios.S), which reaches only the     *)
(* first megabyte, so that a sector for a higher address goes through a    *)
(* buffer.                                                                 *)
(*                                                                         *)
(* A unit of memory holds the place in the kernel file it was loaded from, *)
(* or one of the values below.  No loader looks at the result of a read,   *)
(* and no property says what becomes of one that went wrong.               *)
(***************************************************************************)
EXTENDS Integers, Sequences

CONSTANTS
  SectSize,     \* SECTSIZE, in units
  MemSize,      \* bound: the memory that is looked at
  SectorData,   \* 0x1000: the buffer for one sector
  HighMemory    \* 0x100000

ASSUME DiskAssumption ==
  /\ SectSize \in Nat \ {0} /\ MemSize \in Nat /\ SectorData \in Nat
  /\ HighMemory \in Nat /\ SectorData + SectSize <= HighMemory

VARIABLES
  mem,
  bios,         \* built with __BIOS__
  failed        \* some read failed

Unknown == -1
Zero == -2
Address == 0 .. MemSize - 1

DiskInit == mem = [a \in Address |-> Unknown] /\ bios \in BOOLEAN /\ failed = FALSE

Within(a, start, size) == start <= a /\ a < start + size

(* Mutant: the buffer is not copied to its place.                          *)
Reading_NotCopied(m, buf, sect) ==
  LET at == IF bios /\ buf >= HighMemory THEN SectorData ELSE buf
  IN [a \in Address |-> IF Within(a, at, SectSize) THEN sect * SectSize + (a - at) ELSE m[a]]

(* Memory m after sector sect of the file was read to buf.                 *)
Reading(m, buf, sect) ==
  LET at == IF bios /\ buf >= HighMemory THEN SectorData ELSE buf
  IN [a \in Address |-> IF Within(a, at, SectSize) THEN sect * SectSize + (a - at)
                        ELSE IF Within(a, buf, SectSize) THEN sect * SectSize + (a - buf)
                        ELSE m[a]]

(* ... and after the read failed: through the BIOS the buffer is as it was *)
(* and is copied; by port whatever inl returns is stored.                  *)
NotReading(m, buf) ==
  [a \in Address |-> IF ~Within(a, buf, SectSize) THEN m[a]
                     ELSE IF ~bios THEN Unknown
                     ELSE IF buf >= HighMemory THEN m[SectorData + (a - buf)]
                     ELSE m[a]]

read_disk(buf, sect) ==
  \/ mem' = Reading(mem, buf, sect) /\ UNCHANGED failed
  \/ mem' = NotReading(mem, buf) /\ failed' = TRUE
=============================================================================
