------------------------------- MODULE MCBoot -------------------------------
(***************************************************************************)
(* The boot programs, each on its own file.                                *)
(***************************************************************************)
EXTENDS BzImage, ElfFile

Header(setup, sys, off, len) ==
  [setup_sects |-> setup, syssize |-> sys, magic |-> TRUE, high |-> TRUE, version |-> TRUE,
   payload_offset |-> off, payload_length |-> len,
   file_size |-> (1 + IF setup = 0 THEN 4 ELSE setup) * SectSize + sys]

(* A setup of every length up to the width of the field, also one that     *)
(* ends at the heap and one that reaches into it; kernels that end within  *)
(* a sector; payloads up to the end; headers that are refused.             *)
MCKernelHeaders ==
  {Header(setup, sys, off, sys - off) : setup \in 0 .. ByteMod - 1, sys \in 8 .. 10, off \in {0, 3}}
  \cup {[Header(1, 8, 0, 4) EXCEPT !.magic = FALSE], [Header(1, 8, 0, 4) EXCEPT !.high = FALSE],
        [Header(1, 8, 0, 4) EXCEPT !.version = FALSE], Header(2, 8, 4, 20), Header(1, 8, 0, 8)}

Segment(type, exec, paddr, off, filesz, memsz) ==
  [type |-> type, exec |-> exec, paddr |-> paddr, offset |-> off, filesz |-> filesz, memsz |-> memsz]
GnuStack == Segment(5, FALSE, 0, 0, 0, 0)      \* odd
Note == Segment(4, FALSE, 64, 4, 3, 3)
Text(off, n) == Segment(1, TRUE, 64, off, n, n)
Data(off, n) == Segment(1, FALSE, 73, off, n, n + 3)

MCElves ==
  {[phoff |-> 2, phdrs |-> phdrs, size |-> 30] :
     phdrs \in {<<Text(o, n), Note, Data(o + n, 4), GnuStack>> : o \in 8 .. 11, n \in {1, 4, 9}}
               \cup {<<Data(10, 5), Text(17, 8), Segment(1, TRUE, 81, 26, 3, 3)>>, <<>>}}
  \cup {[phoff |-> 1, phdrs |-> <<Text(8, 9), Data(17, 4)>>, size |-> 30],
        [phoff |-> 2, phdrs |-> <<Data(10, 5), Text(25, 8)>>, size |-> 30],
        [phoff |-> 2, phdrs |-> <<GnuStack, Text(1, 4), Segment(1, TRUE, 81, 1, 2, 2)>>, size |-> 7]}

Init ==
  /\ DiskInit /\ BzInit /\ ElfInit
  /\ khdr = Header(1, 8, 0, 8) \/ elf.phdrs = <<>>

(* One program runs: on the bzImage or on the ELF file.                    *)
Next ==
  \/ epc = "idle" /\ xpc = "idle" /\ BzNext /\ UNCHANGED elfVars
  \/ zpc = "idle" /\ extracted = "no" /\ ElfNext /\ UNCHANGED bzVars

Spec == Init /\ [][Next]_<<mem, bios, failed, bzVars, elfVars>>
=============================================================================
