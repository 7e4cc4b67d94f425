------------------------------ MODULE ElfFile -------------------------------
(***************************************************************************)
(* The two readers of an ELF file: the loader of an uncompressed kernel    *)
(* (src/bootloader/vmlinux.c), one sector a step, and gettext              *)
(* (src/bootloader/gettext.c), which takes the code of a boot loader out   *)
(* of the linked program.                                                  *)
(***************************************************************************)
EXTENDS BootDisk

CONSTANTS
  PhdrSize,     \* sizeof(Elf64_Phdr)
  BufSize,      \* the buffer of xfcopy
  Elves         \* [phoff, phdrs, size]; a program header is
                \* [type, exec, paddr, offset, filesz, memsz]

ASSUME ElfAssumption ==
  /\ PhdrSize \in Nat \ {0} /\ BufSize \in Nat \ {0}
  /\ \A e \in Elves : e.phoff \in Nat /\ e.size \in Nat /\ e.phdrs \in
       Seq([type : Nat, exec : BOOLEAN, paddr : Nat, offset : Nat, filesz : Nat, memsz : Nat])

VARIABLES
  epc,         \* the loader: "idle", "phdr", "copy", "zero", "jump"
  elf,
  pi,          \* the headers looked at
  phdr,        \* the header as it was read
  foff, fsize, dst,    \* of __k_readfile
  xpc,         \* gettext: "idle", "phdr", "copy", "exit", "failed"
  xi,          \* the headers looked at
  count, offset,       \* of xfcopy
  text         \* the output

elfVars == <<epc, elf, pi, phdr, foff, fsize, dst, xpc, xi, count, offset, text>>
loaderVars == <<epc, pi, phdr, foff, fsize, dst>>
textVars == <<xpc, xi, count, offset, text>>

PT_LOAD == 1
NoPhdr == [type |-> 0, exec |-> FALSE, paddr |-> 0, offset |-> 0, filesz |-> 0, memsz |-> 0]

ElfInit ==
  /\ epc = "idle" /\ elf \in Elves /\ pi = 0 /\ phdr = NoPhdr /\ foff = 0 /\ fsize = 0 /\ dst = 0
  /\ xpc = "idle" /\ xi = 0 /\ count = 0 /\ offset = 0 /\ text = <<>>

(* The header after the i-th; the loader reads one sector for it, so what  *)
(* of it lies in the next sector is whatever was on the stack, as is all   *)
(* of it if the read fails.                                                *)
PhdrAt(i) == elf.phdrs[i + 1]
Straddles(i) == ((elf.phoff + i * PhdrSize) % SectSize) + PhdrSize > SectSize
Garbage(p) == {p, [p EXCEPT !.filesz = 0, !.memsz = 0]}
PhdrRead(i, ok) == IF Straddles(i) \/ ~ok THEN Garbage(PhdrAt(i)) ELSE {PhdrAt(i)}

(* p_type & PT_LOAD: every odd type.                                       *)
Loads(p) == p.type % 2 = 1

Image(p) == p.paddr .. p.paddr + p.memsz - 1

(* A kernel as it is linked: what is loaded lies in memory, above the      *)
(* buffer for a sector, and no two segments overlap.                       *)
ASSUME PlacedAssumption ==
  \A e \in Elves : \A i \in DOMAIN e.phdrs : Loads(e.phdrs[i]) =>
    /\ e.phdrs[i].filesz <= e.phdrs[i].memsz
    /\ \A a \in Image(e.phdrs[i]) : SectorData + SectSize <= a /\ a < MemSize
    /\ \A j \in DOMAIN e.phdrs : i # j /\ Loads(e.phdrs[j]) =>
         Image(e.phdrs[i]) \cap Image(e.phdrs[j]) = {}

(* The first sector, with the ELF header, is read.                         *)
elf_main ==
  /\ epc = "idle" /\ xpc = "idle"
  /\ epc' = "phdr"
  /\ failed' \in {failed, TRUE}
  /\ UNCHANGED <<elf, pi, phdr, foff, fsize, dst, textVars, mem, bios>>

NextPhdr ==
  /\ epc = "phdr" /\ pi < Len(elf.phdrs)
  /\ \E ok \in BOOLEAN : \E p \in PhdrRead(pi, ok) :
       /\ phdr' = p /\ failed' = (failed \/ ~ok)
       /\ IF Loads(p)
          THEN epc' = "copy" /\ dst' = p.paddr /\ foff' = p.offset /\ fsize' = p.filesz /\ UNCHANGED pi
          ELSE pi' = pi + 1 /\ UNCHANGED <<epc, foff, fsize, dst>>
  /\ UNCHANGED <<elf, textVars, mem, bios>>

Least(m, n) == IF m < n THEN m ELSE n

(* Mutant: every piece is taken from the start of its sector.              *)
ReadStart_Zero == 0
ReadStart == foff % SectSize

(* One piece, through the buffer for a sector.                             *)
k_readfile ==
  /\ epc = "copy" /\ fsize # 0
  /\ LET nb == Least(SectSize - ReadStart, fsize)
     IN /\ \E ok \in BOOLEAN :
             LET data == IF ok THEN Reading(mem, SectorData, foff \div SectSize)
                         ELSE NotReading(mem, SectorData)
             IN /\ mem' = [a \in Address |-> IF Within(a, dst, nb)
                                             THEN data[SectorData + ReadStart + (a - dst)]
                                             ELSE data[a]]
                /\ failed' = (failed \/ ~ok)
        /\ fsize' = fsize - nb /\ foff' = foff + nb /\ dst' = dst + nb
  /\ UNCHANGED <<epc, elf, pi, phdr, textVars, bios>>

k_readfile_Done ==
  /\ epc = "copy" /\ fsize = 0 /\ epc' = "zero"
  /\ UNCHANGED <<elf, pi, phdr, foff, fsize, dst, textVars, mem, bios, failed>>

k_memzero ==
  /\ epc = "zero"
  /\ mem' = [a \in Address |-> IF Within(a, dst, phdr.memsz - phdr.filesz) THEN Zero ELSE mem[a]]
  /\ pi' = pi + 1 /\ epc' = "phdr"
  /\ UNCHANGED <<elf, phdr, foff, fsize, dst, textVars, bios, failed>>

kernel_entry ==
  /\ epc = "phdr" /\ pi = Len(elf.phdrs)
  /\ epc' = "jump"
  /\ UNCHANGED <<elf, pi, phdr, foff, fsize, dst, textVars, mem, bios, failed>>

-----------------------------------------------------------------------------
Executable(p) == p.exec /\ p.type = PT_LOAD

gettext ==
  /\ xpc = "idle" /\ epc = "idle"
  /\ xpc' = "phdr"
  /\ UNCHANGED <<elf, loaderVars, xi, count, offset, text, mem, bios, failed>>

xreadat_Any(at, n) == TRUE     \* mutant: the result of read is not looked at

(* xreadat returns: the file has the n bytes.                              *)
xreadat(at, n) == at + n <= elf.size

(* What read stores at its place, or the buffer of xfcopy held before.     *)
FileByte(at) == IF at < elf.size THEN at ELSE Unknown

NextSegment ==
  /\ xpc = "phdr" /\ xi < Len(elf.phdrs)
  /\ xi' = xi + 1
  /\ CASE ~xreadat(elf.phoff + xi * PhdrSize, PhdrSize) ->
            xpc' = "failed" /\ UNCHANGED <<count, offset>>
       [] Executable(PhdrAt(xi)) ->
            xpc' = "copy" /\ count' = PhdrAt(xi).filesz /\ offset' = PhdrAt(xi).offset
       [] OTHER -> UNCHANGED <<xpc, count, offset>>
  /\ UNCHANGED <<elf, loaderVars, text, mem, bios, failed>>

Piece == Least(count, BufSize)

xfcopy ==
  /\ xpc = "copy" /\ count # 0 /\ xreadat(offset, Piece)
  /\ text' = text \o [i \in 1 .. Piece |-> FileByte(offset + i - 1)]
  /\ count' = count - Piece /\ offset' = offset + Piece
  /\ UNCHANGED <<xpc, xi, elf, loaderVars, mem, bios, failed>>

(* The file ends too early, or the output cannot be written.               *)
xfcopy_Fails ==
  /\ xpc = "copy" /\ count # 0
  /\ xpc' = "failed"
  /\ UNCHANGED <<xi, count, offset, text, elf, loaderVars, mem, bios, failed>>

xfcopy_Done ==
  /\ xpc = "copy" /\ count = 0 /\ xpc' = "phdr"
  /\ UNCHANGED <<xi, count, offset, text, elf, loaderVars, mem, bios, failed>>

gettext_Exit ==
  /\ xpc = "phdr" /\ xi = Len(elf.phdrs) /\ xpc' = "exit"
  /\ UNCHANGED <<xi, count, offset, text, elf, loaderVars, mem, bios, failed>>

ElfNext ==
  \/ elf_main \/ NextPhdr \/ k_readfile \/ k_readfile_Done \/ k_memzero \/ kernel_entry
  \/ gettext \/ NextSegment \/ xfcopy \/ xfcopy_Fails \/ xfcopy_Done \/ gettext_Exit

ElfSpec == DiskInit /\ ElfInit /\ [][ElfNext]_<<mem, bios, failed, elfVars>>

-----------------------------------------------------------------------------
Segments == {elf.phdrs[i] : i \in DOMAIN elf.phdrs}

(* When the kernel is entered, every segment that is to be loaded lies     *)
(* where its header says, followed by its zeros, however it begins and     *)
(* ends within a sector, and whatever odd segments without a size there    *)
(* are; provided each header lies within a sector and no read failed.      *)
SegmentsLoaded ==
  epc = "jump" /\ ~failed /\ (\A i \in DOMAIN elf.phdrs : ~Straddles(i - 1)) =>
    \A p \in Segments : p.type = PT_LOAD =>
      \A a \in Image(p) :
        mem[a] = IF a - p.paddr < p.filesz THEN p.offset + (a - p.paddr) ELSE Zero

(* What gettext writes for a header, and how much it has written after the *)
(* first i of them.                                                        *)
CodeSize(p) == IF Executable(p) THEN p.filesz ELSE 0
TextEnd[i \in 0 .. Len(elf.phdrs)] ==
  IF i = 0 THEN 0 ELSE TextEnd[i - 1] + CodeSize(elf.phdrs[i])

(* gettext that exits with 0 wrote the executable segments, whole, one     *)
(* after the other, in whatever pieces they were copied: of a file that    *)
(* ends within a segment it writes a part and fails.                       *)
TextWhole ==
  xpc = "exit" =>
    /\ Len(text) = TextEnd[Len(elf.phdrs)]
    /\ \A i \in DOMAIN elf.phdrs : Executable(elf.phdrs[i]) =>
         \A k \in 1 .. elf.phdrs[i].filesz : text[TextEnd[i - 1] + k] = elf.phdrs[i].offset + k - 1
=============================================================================
