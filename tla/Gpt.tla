-------------------------------- MODULE Gpt ---------------------------------
(***************************************************************************)
(* GPTGenerate of src/gpt/gpt.c, one step per iteration of its loops, and  *)
(* GPTParse, which reads back what it wrote, for readgpt.c.                *)
(*                                                                         *)
(* The disk is the protective MBR in sector 0, the header in sector 1, the *)
(* entry array from sector 2 on, and the backup header in the last sector. *)
(* A checksum is the tuple of what it covers: two contents with the same   *)
(* checksum are the same.                                                  *)
(***************************************************************************)
EXTENDS Integers, Sequences

CONSTANTS
  EntriesPerSector,   \* BLOCK_SIZE / sizeof(struct PartitionEntry)
  MaxLba,             \* UINT32_MAX
  Requests            \* the GPTConfigs: [volume, parts], parts the volumes asked for

ASSUME GptAssumption ==
  /\ EntriesPerSector \in Nat \ {0} /\ MaxLba \in Nat
  /\ Requests \subseteq [volume : Nat, parts : Seq(Nat)]

VARIABLES
  gpc,         \* "idle", "alloc", "entries", "done", "refused"
  req,         \* the config of the call
  startLBA,    \* the startLBA given to each partition so far: ret is its length
  start,       \* the next free sector
  remains,     \* how many are left
  written,     \* entries written so far
  array,       \* the entries from sector 2 on
  mbr, hdr, alt

gptVars == <<gpc, req, startLBA, start, remains, written, array, mbr, hdr, alt>>

nSectorForArray(r) == (EntriesPerSector - 1 + Len(r.parts)) \div EntriesPerSector
ArraySlots(r) == nSectorForArray(r) * EntriesPerSector
nSectorsForFS(r) == r.volume - 4 - nSectorForArray(r)

ZeroEntry == [startLBA |-> 0, endLBA |-> 0]
OldEntry == [startLBA |-> 0, endLBA |-> -1]     \* what the disk held before
NoCrc == <<>>
OldHeader == [numEntries |-> -1]
OldMbr == [signature |-> FALSE, startLBA |-> 0, sizeInLBA |-> 0]

createProtectGPT(nBlock) ==
  [signature |-> TRUE, startLBA |-> 1, sizeInLBA |-> IF nBlock >= MaxLba THEN MaxLba ELSE nBlock - 1]

(* crc32 over a header whose own field is zero.                            *)
Crc(h) == <<h.thisLBA, h.alternateLBA, h.firstUsableLBA, h.lastUsableLBA, h.numEntries,
            h.arrayCrc>>

GptInit ==
  /\ gpc = "idle" /\ req = [volume |-> 0, parts |-> <<>>]
  /\ startLBA = <<>> /\ start = 0 /\ remains = 0 /\ written = 0
  /\ array = <<>> /\ mbr = OldMbr /\ hdr = OldHeader /\ alt = OldHeader

(* The checks, the protective MBR, and the start of the allocation.        *)
GPTGenerate(r) ==
  /\ gpc = "idle"
  /\ req' = r
  /\ IF r.volume < 4 + nSectorForArray(r) \/ nSectorForArray(r) = 0
     THEN gpc' = "refused" /\ UNCHANGED <<start, remains, array, mbr>>
     ELSE /\ gpc' = "alloc"
          /\ mbr' = createProtectGPT(r.volume)
          /\ start' = 2 + nSectorForArray(r)
          /\ remains' = nSectorsForFS(r)
          /\ array' = [k \in 0 .. 2 * ArraySlots(r) - 1 |-> OldEntry]
  /\ UNCHANGED <<startLBA, written, hdr, alt>>

(* Mutant: remains is not looked at.                                       *)
Allocate_NoCheck ==
  /\ gpc = "alloc"
  /\ Len(startLBA) < Len(req.parts)
  /\ remains' = remains - req.parts[Len(startLBA) + 1]
  /\ startLBA' = Append(startLBA, start)
  /\ start' = start + req.parts[Len(startLBA) + 1]
  /\ UNCHANGED <<gpc, req, written, array, mbr, hdr, alt>>

(* A partition takes its sectors from the front of what is left ...        *)
Allocate ==
  /\ gpc = "alloc"
  /\ Len(startLBA) < Len(req.parts) /\ remains >= req.parts[Len(startLBA) + 1]
  /\ remains' = remains - req.parts[Len(startLBA) + 1]
  /\ startLBA' = Append(startLBA, start)
  /\ start' = start + req.parts[Len(startLBA) + 1]
  /\ UNCHANGED <<gpc, req, written, array, mbr, hdr, alt>>

(* ... until one does not fit, or none is left.                            *)
StopAllocating ==
  /\ gpc = "alloc"
  /\ Len(startLBA) < Len(req.parts) => remains < req.parts[Len(startLBA) + 1]
  /\ gpc' = "entries"
  /\ UNCHANGED <<req, startLBA, start, remains, written, array, mbr, hdr, alt>>

Entry(i) == [startLBA |-> startLBA[i], endLBA |-> startLBA[i] + req.parts[i] - 1]

(* Mutant: only the entry itself is zeroed.                                *)
Zeroed_One(k) == k = written
Zeroed(k) == k \in written .. written + ArraySlots(req) - 1

(* The memset of each iteration starts at the entry to write and has the   *)
(* length of the whole array.                                              *)
WriteEntry ==
  /\ gpc = "entries"
  /\ written < Len(startLBA)
  /\ array' = [k \in DOMAIN array |->
                 IF k = written THEN Entry(written + 1)
                 ELSE IF Zeroed(k) THEN ZeroEntry ELSE array[k]]
  /\ written' = written + 1
  /\ UNCHANGED <<gpc, req, startLBA, start, remains, mbr, hdr, alt>>

Header ==
  [thisLBA |-> 1, alternateLBA |-> req.volume - 1, firstUsableLBA |-> start,
   lastUsableLBA |-> req.volume - 2, numEntries |-> Len(startLBA),
   arrayCrc |-> [k \in 1 .. Len(startLBA) |-> array[k - 1]], crc |-> NoCrc]

(* Mutant: the backup is copied with the primary's checksum.               *)
Backup_Copied(h) == [h EXCEPT !.thisLBA = req.volume - 1, !.alternateLBA = 1, !.crc = Crc(h)]
Backup(h) ==
  LET b == [h EXCEPT !.thisLBA = req.volume - 1, !.alternateLBA = 1]
  IN [b EXCEPT !.crc = Crc(b)]

WriteHeaders ==
  /\ gpc = "entries"
  /\ written = Len(startLBA)
  /\ hdr' = [Header EXCEPT !.crc = Crc(Header)]
  /\ alt' = Backup(Header)
  /\ gpc' = "done"
  /\ UNCHANGED <<req, startLBA, start, remains, written, array, mbr>>

GptStep == Allocate \/ StopAllocating \/ WriteEntry \/ WriteHeaders

GptNext == GptStep \/ (\E r \in Requests : GPTGenerate(r))

GptSpec == GptInit /\ [][GptNext]_gptVars

-----------------------------------------------------------------------------
(* The partitions read back from the disk, and those readgpt saves.        *)
GPTParse ==
  [k \in 1 .. hdr.numEntries |->
     [startLBA |-> array[k - 1].startLBA,
      volume |-> array[k - 1].endLBA - array[k - 1].startLBA + 1]]
readgpt == {k \in DOMAIN GPTParse : GPTParse[k].startLBA # 0}

(* The shape of the call's state.                                          *)
GptTypeOK ==
  /\ gpc \in {"idle", "alloc", "entries", "done", "refused"}
  /\ req \in [volume : Nat, parts : Seq(Nat)]
  /\ startLBA \in Seq(Nat) /\ Len(startLBA) <= Len(req.parts)
  /\ start \in Nat /\ remains \in Nat /\ written \in 0 .. Len(startLBA)
  /\ mbr \in [signature : BOOLEAN, startLBA : Nat, sizeInLBA : Nat]

(* Partitions lie behind the entry array and before the reserved sector    *)
(* and the backup header, whatever was asked for, in order, without        *)
(* overlap and without a gap, and start and remains account for every      *)
(* sector in between.                                                      *)
PartitionsFit ==
  gpc \in {"alloc", "entries", "done"} =>
    /\ start + remains = req.volume - 2
    /\ start >= 2 + nSectorForArray(req) /\ start <= req.volume - 2
    /\ \A i \in DOMAIN startLBA :
         /\ startLBA[i] >= 2 + nSectorForArray(req)
         /\ startLBA[i] + req.parts[i] <= req.volume - 2
         /\ startLBA[i] + req.parts[i] =
              IF i + 1 \in DOMAIN startLBA THEN startLBA[i + 1] ELSE start

(* GPTParse finds the partitions GPTGenerate placed, and no more, and      *)
(* readgpt saves each of them.                                             *)
ParseRecovers ==
  gpc = "done" =>
    /\ mbr.signature /\ readgpt = DOMAIN startLBA
    /\ GPTParse = [i \in DOMAIN startLBA |-> [startLBA |-> startLBA[i], volume |-> req.parts[i]]]

(* No entry of an older table survives in the sectors of the array, if a   *)
(* partition was placed: without one nothing is cleared.                   *)
NoStaleEntries ==
  gpc = "done" /\ startLBA # <<>> =>
    \A k \in 0 .. ArraySlots(req) - 1 : k >= Len(startLBA) => array[k] = ZeroEntry

(* GPTParse reads back the partitions that were placed, and the rest of    *)
(* the array holds nothing that was there before.                          *)
TableExact == ParseRecovers /\ NoStaleEntries

(* Both headers carry the checksum of what they say, name each other, and  *)
(* describe the same partitions.                                           *)
HeadersValid ==
  gpc = "done" =>
    /\ hdr.crc = Crc([hdr EXCEPT !.crc = NoCrc]) /\ alt.crc = Crc([alt EXCEPT !.crc = NoCrc])
    /\ hdr.alternateLBA = alt.thisLBA /\ alt.alternateLBA = hdr.thisLBA
    /\ hdr.arrayCrc = alt.arrayCrc /\ hdr.arrayCrc = [k \in 1 .. hdr.numEntries |-> array[k - 1]]

(* The memsets, which begin later in each iteration and are as long as the *)
(* whole array, stay on the disk: if the array has no more than two        *)
(* sectors, or no partition is empty.                                      *)
ClearsInDisk ==
  gpc = "entries" /\ written < Len(startLBA)
  /\ (nSectorForArray(req) <= 2 \/ \A i \in DOMAIN req.parts : req.parts[i] > 0) =>
    \A k \in 0 .. 2 * ArraySlots(req) - 1 :
      Zeroed(k) => 2 * EntriesPerSector + k < req.volume * EntriesPerSector
=============================================================================
