-------------------------- MODULE InstallerProofs ---------------------------
(***************************************************************************)
(* The partition table that GPTGenerate makes and GPTParse reads, for      *)
(* every sector size, disk and list of partitions; and the disk that the   *)
(* installer and mkgpt make, for every disk, boot partition of up to 4 GiB *)
(* and sizes of the files.                                                 *)
(***************************************************************************)
EXTENDS Installer, FatLayoutProofs

Active == gpc \in {"alloc", "entries", "done"}

(* Nothing is placed before the allocation, nothing written before it ends. *)
PhaseInv ==
  /\ gpc = "idle" => startLBA = <<>>
  /\ gpc \in {"idle", "alloc"} => written = 0
  /\ Active => mbr.signature
  /\ gpc = "done" => /\ written = Len(startLBA)
                     /\ hdr.numEntries = Len(startLBA)

(* The entries written are those of the first partitions; from the first   *)
(* one on, the rest of the array is zero.                                  *)
ArrayInv ==
  Active =>
    /\ array = [k \in 0 .. 2 * ArraySlots(req) - 1 |-> array[k]]
    /\ \A k \in 0 .. written - 1 : array[k] = Entry(k + 1)
    /\ written > 0 => \A k \in written .. ArraySlots(req) - 1 : array[k] = ZeroEntry

IInv == GptTypeOK /\ PartitionsFit /\ PhaseInv /\ ArrayInv /\ HeadersValid

-----------------------------------------------------------------------------
(* The division in nSectorForArray rounds up: the sectors of               *)
(* the array have a slot for every partition.                              *)
LEMMA ArrayHasRoom ==
  ASSUME NEW r \in [volume : Nat, parts : Seq(Nat)]
  PROVE  /\ nSectorForArray(r) \in Nat /\ ArraySlots(r) \in Nat
         /\ ArraySlots(r) >= Len(r.parts)
<1> DEFINE E == EntriesPerSector
           a == EntriesPerSector - 1 + Len(r.parts)
<1>1. E \in Nat /\ E > 0 /\ Len(r.parts) \in Nat /\ a \in Nat /\ a = E - 1 + Len(r.parts)
  BY GptAssumption
<1> HIDE DEF E, a
<1>2. /\ a \div E \in Nat /\ (a \div E) * E \in Nat /\ (a \div E) * E > a - E
  BY <1>1, SMT
<1> QED BY <1>1, <1>2 DEF nSectorForArray, ArraySlots, E, a

(* The arithmetic of the call and of an iteration of its loop.             *)
LEMMA FirstFree ==
  ASSUME NEW v \in Nat, NEW a \in Nat, ~(v < 4 + a)
  PROVE  2 + a \in Nat /\ v - 4 - a \in Nat /\ (2 + a) + (v - 4 - a) = v - 2 /\ 2 + a <= v - 2
OBVIOUS

LEMMA TakeFromFront ==
  ASSUME NEW s \in Nat, NEW m \in Nat, NEW p \in Nat, NEW b \in Nat, m >= p, s >= b
  PROVE  /\ s + p \in Nat /\ m - p \in Nat /\ (s + p) + (m - p) = s + m /\ s + p >= b
         /\ s + p <= s + m
OBVIOUS

(* An element of a sequence of numbers is a number.                        *)
LEMMA ElementIsNat ==
  ASSUME NEW s \in Seq(Nat), NEW i \in 1 .. Len(s)
  PROVE  s[i] \in Nat
OBVIOUS

(* Before the call nothing is placed and nothing written.                  *)
LEMMA InitIInv == GptInit => IInv
BY DEF GptInit, IInv, GptTypeOK, PartitionsFit, PhaseInv, ArrayInv, HeadersValid, Active, OldMbr

(* The call: refused without a change, or an empty allocation.             *)
LEMMA GenerateKeeps ==
  ASSUME NEW r \in [volume : Nat, parts : Seq(Nat)], IInv, GPTGenerate(r)
  PROVE  IInv'
<1>1. r \in [volume : Nat, parts : Seq(Nat)]
  BY Zenon
<1>2. /\ nSectorForArray(r) \in Nat /\ ArraySlots(r) \in Nat
      /\ req' = r /\ nSectorForArray(req)' = nSectorForArray(r) /\ ArraySlots(req)' = ArraySlots(r)
  BY Zenon, <1>1, ArrayHasRoom DEF GPTGenerate, nSectorForArray, ArraySlots
<1>3. gpc = "idle" /\ startLBA = <<>> /\ startLBA' = <<>> /\ written = 0 /\ written' = 0
  BY Zenon DEF IInv, PhaseInv, GPTGenerate
<1>4. /\ startLBA' \in Seq(Nat) /\ Len(startLBA') = 0 /\ DOMAIN startLBA' = {}
      /\ Len(r.parts) \in Nat
  BY <1>1, <1>3
<1>5. /\ req' \in [volume : Nat, parts : Seq(Nat)] /\ Len(startLBA') <= Len(req'.parts)
      /\ written' \in 0 .. Len(startLBA')
  BY <1>1, <1>2, <1>3, <1>4
<1>6. CASE r.volume < 4 + nSectorForArray(r) \/ nSectorForArray(r) = 0
  <2>1. gpc' = "refused" /\ start' = start /\ remains' = remains /\ mbr' = mbr
    BY Zenon, <1>6 DEF GPTGenerate
  <2>2. gpc' # "idle" /\ gpc' # "alloc" /\ gpc' # "entries" /\ gpc' # "done"
    BY <2>1
  <2>3. GptTypeOK'
    BY Zenon, <1>4, <1>5, <2>1 DEF IInv, GptTypeOK
  <2>4. PartitionsFit' /\ PhaseInv' /\ ArrayInv' /\ HeadersValid'
    BY Zenon, <2>2 DEF PartitionsFit, PhaseInv, ArrayInv, HeadersValid, Active
  <2> QED BY Zenon, <2>3, <2>4 DEF IInv
<1>7. CASE ~(r.volume < 4 + nSectorForArray(r) \/ nSectorForArray(r) = 0)
  <2>1. /\ gpc' = "alloc" /\ mbr' = createProtectGPT(r.volume)
        /\ start' = 2 + nSectorForArray(r) /\ remains' = r.volume - 4 - nSectorForArray(r)
        /\ array' = [k \in 0 .. 2 * ArraySlots(r) - 1 |-> OldEntry]
    BY Zenon, <1>7 DEF GPTGenerate, nSectorsForFS
  <2>2. /\ start' \in Nat /\ remains' \in Nat /\ start' + remains' = r.volume - 2
        /\ start' <= r.volume - 2
    <3>1. r.volume \in Nat
      BY Zenon, <1>1
    <3> QED BY Zenon, <1>2, <1>7, <2>1, <3>1, FirstFree
  <2>3. mbr' \in [signature : BOOLEAN, startLBA : Nat, sizeInLBA : Nat] /\ mbr'.signature
    <3>1. r.volume \in Nat /\ r.volume - 1 \in Nat
      BY <1>1, <1>2, <1>7
    <3> QED BY Zenon, <2>1, <3>1, GptAssumption DEF createProtectGPT
  <2>4. GptTypeOK' /\ PartitionsFit'
    BY <1>2, <1>4, <1>5, <2>1, <2>2, <2>3 DEF GptTypeOK, PartitionsFit
  <2>6. PhaseInv' /\ HeadersValid'
    BY Zenon, <1>3, <2>1, <2>3 DEF PhaseInv, HeadersValid, Active
  <2>5. ArrayInv'
    BY <1>2, <1>3, <2>1 DEF ArrayInv
  <2> QED BY Zenon, <2>4, <2>5, <2>6 DEF IInv
<1> QED BY Zenon, <1>6, <1>7

(* An iteration of the allocation takes from remains what it adds to       *)
(* start, and the new partition begins where the last one ends.            *)
LEMMA AllocateKeeps ==
  ASSUME IInv, Allocate
  PROVE  IInv'
<1> DEFINE n == Len(startLBA)
<1>1. /\ gpc = "alloc" /\ gpc' = gpc /\ req' = req /\ written' = 0 /\ written = 0
      /\ array' = array /\ mbr' = mbr /\ hdr' = hdr /\ alt' = alt
  BY Zenon DEF IInv, PhaseInv, Allocate
<1>2. /\ req.parts \in Seq(Nat) /\ startLBA \in Seq(Nat) /\ n \in Nat
      /\ start \in Nat /\ remains \in Nat /\ req \in [volume : Nat, parts : Seq(Nat)]
  BY DEF IInv, GptTypeOK
<1>3. req.parts[n + 1] \in Nat /\ n < Len(req.parts)
  BY <1>2 DEF Allocate
<1>4. /\ startLBA' = Append(startLBA, start) /\ Len(startLBA') = n + 1
      /\ DOMAIN startLBA' = 1 .. n + 1 /\ DOMAIN startLBA = 1 .. n
      /\ startLBA' \in Seq(Nat) /\ startLBA'[n + 1] = start
      /\ \A i \in 1 .. n : startLBA'[i] = startLBA[i]
  BY <1>2 DEF Allocate
<1>5. start' = start + req.parts[n + 1] /\ remains' = remains - req.parts[n + 1]
      /\ remains >= req.parts[n + 1]
  BY Zenon DEF Allocate
<1>6. PICK p \in Nat : p = req.parts[n + 1]
  BY Zenon, <1>3
<1>7. start' = start + p /\ remains' = remains - p /\ remains >= p
  BY Zenon, <1>5, <1>6
<1>8. nSectorForArray(req) \in Nat /\ nSectorForArray(req)' = nSectorForArray(req)
      /\ ArraySlots(req)' = ArraySlots(req)
  BY Zenon, <1>1, <1>2, ArrayHasRoom DEF nSectorForArray, ArraySlots
<1>9. GptTypeOK'
  <2>1. start' \in Nat /\ remains' \in Nat
    BY <1>2, <1>7, TakeFromFront
  <2>2. Len(startLBA') <= Len(req'.parts) /\ written' \in 0 .. Len(startLBA')
    BY <1>1, <1>2, <1>3, <1>4
  <2> QED BY Zenon, <1>1, <1>2, <1>4, <2>1, <2>2 DEF IInv, GptTypeOK
<1>10. PartitionsFit'
  <2>1. /\ start + remains = req.volume - 2 /\ start >= 2 + nSectorForArray(req)
        /\ \A i \in 1 .. n :
             /\ startLBA[i] >= 2 + nSectorForArray(req)
             /\ startLBA[i] + req.parts[i] <= req.volume - 2
             /\ startLBA[i] + req.parts[i] = IF i + 1 \in 1 .. n THEN startLBA[i + 1] ELSE start
    BY Zenon, <1>1, <1>4 DEF IInv, PartitionsFit
  <2>2. /\ start' + remains' = req'.volume - 2 /\ start' >= 2 + nSectorForArray(req)
        /\ start' <= req'.volume - 2
    <3>1. 2 + nSectorForArray(req) \in Nat
      BY <1>8
    <3>2. /\ start + p >= 2 + nSectorForArray(req)
          /\ (start + p) + (remains - p) = start + remains /\ start + p <= start + remains
      BY <1>2, <1>7, <2>1, <3>1, TakeFromFront
    <3> QED BY Zenon, <1>1, <1>7, <2>1, <3>2
  <2>3. ASSUME NEW i \in 1 .. n + 1
        PROVE  /\ startLBA'[i] >= 2 + nSectorForArray(req)
               /\ startLBA'[i] + req.parts[i] <= req'.volume - 2
               /\ startLBA'[i] + req.parts[i] =
                    IF i + 1 \in 1 .. n + 1 THEN startLBA'[i + 1] ELSE start'
    <3>1. CASE i = n + 1
      <4>1. startLBA'[i] = start /\ startLBA'[i] + req.parts[i] = start'
        BY Zenon, <1>4, <1>5, <3>1
      <4>2. i + 1 \notin 1 .. n + 1
        BY <1>2, <3>1
      <4> QED BY Zenon, <2>1, <2>2, <4>1, <4>2
    <3>2. CASE i = n
      <4>1. i \in 1 .. n /\ i + 1 \notin 1 .. n /\ i + 1 \in 1 .. n + 1 /\ i + 1 = n + 1
        BY <1>2, <3>2
      <4>2. startLBA'[i] = startLBA[i] /\ startLBA'[i + 1] = start
        BY Zenon, <1>4, <4>1
      <4> QED BY Zenon, <1>1, <2>1, <4>1, <4>2
    <3>3. CASE i < n
      <4>1. i \in 1 .. n /\ i + 1 \in 1 .. n /\ i + 1 \in 1 .. n + 1
        BY <1>2, <3>3
      <4> QED BY Zenon, <1>1, <1>4, <2>1, <4>1
    <3> QED BY <1>2, <3>1, <3>2, <3>3
  <2> QED BY Zenon, <1>1, <1>4, <1>8, <2>2, <2>3 DEF PartitionsFit
<1>11. PhaseInv' /\ HeadersValid'
  BY Zenon, <1>1 DEF IInv, PhaseInv, HeadersValid, Active
<1>12. ArrayInv'
  BY <1>1, <1>8 DEF IInv, ArrayInv, Active
<1> QED BY Zenon, <1>9, <1>10, <1>11, <1>12 DEF IInv

(* The end of the allocation leaves the table and the partitions alone.    *)
LEMMA StopKeeps ==
  ASSUME IInv, StopAllocating
  PROVE  IInv'
<1>1. /\ gpc = "alloc" /\ gpc' = "entries"
      /\ UNCHANGED <<req, startLBA, start, remains, written, array, mbr, hdr, alt>>
  BY Zenon DEF StopAllocating
<1>2. GptTypeOK' /\ PartitionsFit'
  BY Zenon, <1>1 DEF IInv, GptTypeOK, PartitionsFit, nSectorForArray
<1>3. PhaseInv' /\ HeadersValid'
  BY Zenon, <1>1 DEF IInv, PhaseInv, HeadersValid, Active
<1>4. ArrayInv'
  BY Zenon, <1>1 DEF IInv, ArrayInv, Active, ArraySlots, nSectorForArray, Entry
<1> QED BY Zenon, <1>2, <1>3, <1>4 DEF IInv

(* The memset of an iteration starts behind the entries already written.   *)
LEMMA EntryKeeps ==
  ASSUME IInv, WriteEntry
  PROVE  IInv'
<1>1. /\ gpc = "entries" /\ written < Len(startLBA) /\ written' = written + 1
      /\ UNCHANGED <<gpc, req, startLBA, start, remains, mbr, hdr, alt>>
  BY Zenon DEF WriteEntry
<1>2. /\ req \in [volume : Nat, parts : Seq(Nat)] /\ Len(startLBA) \in Nat
      /\ written \in Nat /\ Len(startLBA) <= Len(req.parts) /\ Len(req.parts) \in Nat
  BY DEF IInv, GptTypeOK
<1>3. ArraySlots(req) \in Nat /\ ArraySlots(req) >= Len(req.parts)
  BY Zenon, <1>2, ArrayHasRoom
<1>4. GptTypeOK' /\ PartitionsFit'
  <2>1. written' \in 0 .. Len(startLBA)
    BY <1>1, <1>2
  <2> QED BY Zenon, <1>1, <2>1 DEF IInv, GptTypeOK, PartitionsFit, nSectorForArray
<1>5. PhaseInv' /\ HeadersValid'
  BY Zenon, <1>1 DEF IInv, PhaseInv, HeadersValid, Active
<1>6. ArrayInv'
  <2> DEFINE N == ArraySlots(req)
  <2>1. /\ array = [k \in 0 .. 2 * N - 1 |-> array[k]]
        /\ \A k \in 0 .. written - 1 : array[k] = Entry(k + 1)
    BY Zenon, <1>1 DEF IInv, ArrayInv, Active
  <2>2. DOMAIN array = 0 .. 2 * N - 1
    BY Zenon, <2>1
  <2>3. array' = [k \in 0 .. 2 * N - 1 |->
                    IF k = written THEN Entry(written + 1)
                    ELSE IF Zeroed(k) THEN ZeroEntry ELSE array[k]]
    BY Zenon, <2>2 DEF WriteEntry
  <2>4. array' = [k \in 0 .. 2 * N - 1 |-> array'[k]]
    BY Zenon, <2>3
  <2>5. ArraySlots(req)' = N /\ \A k : Entry(k)' = Entry(k)
    BY Zenon, <1>1 DEF ArraySlots, nSectorForArray, Entry
  <2>6. ASSUME NEW k \in 0 .. written' - 1
        PROVE  array'[k] = Entry(k + 1)
    <3>1. k \in 0 .. 2 * N - 1
      BY <1>1, <1>2, <1>3
    <3>2. CASE k = written
      BY Zenon, <2>3, <3>1, <3>2
    <3>3. CASE k # written
      <4>1. k \in 0 .. written - 1 /\ ~Zeroed(k)
        BY <1>1, <1>2, <1>3, <3>3 DEF Zeroed
      <4> QED BY Zenon, <2>1, <2>3, <3>1, <3>3, <4>1
    <3> QED BY Zenon, <3>2, <3>3
  <2>7. ASSUME NEW k \in written' .. N - 1
        PROVE  array'[k] = ZeroEntry
    <3>1. k \in 0 .. 2 * N - 1 /\ k # written /\ Zeroed(k)
      BY <1>1, <1>2, <1>3 DEF Zeroed
    <3> QED BY Zenon, <2>3, <3>1
  <2> HIDE DEF N
  <2> QED BY Zenon, <2>4, <2>5, <2>6, <2>7 DEF ArrayInv
<1> QED BY Zenon, <1>4, <1>5, <1>6 DEF IInv

(* Each header is summed after its last change.                            *)
LEMMA HeadersKeep ==
  ASSUME IInv, WriteHeaders
  PROVE  IInv'
<1>1. /\ gpc = "entries" /\ gpc' = "done" /\ written = Len(startLBA)
      /\ UNCHANGED <<req, startLBA, start, remains, written, array, mbr>>
      /\ hdr' = [Header EXCEPT !.crc = Crc(Header)] /\ alt' = Backup(Header)
  BY Zenon DEF WriteHeaders
<1>2. GptTypeOK' /\ PartitionsFit'
  BY Zenon, <1>1 DEF IInv, GptTypeOK, PartitionsFit, nSectorForArray
<1>3. ArrayInv'
  BY Zenon, <1>1 DEF IInv, ArrayInv, Active, ArraySlots, nSectorForArray, Entry
<1>4. hdr'.numEntries = Len(startLBA)
  BY Zenon, <1>1 DEF Header
<1>5. PhaseInv'
  BY Zenon, <1>1, <1>4 DEF IInv, PhaseInv, Active
<1>6. HeadersValid'
  BY <1>1 DEF HeadersValid, Header, Backup, Crc, NoCrc
<1> QED BY Zenon, <1>2, <1>3, <1>5, <1>6 DEF IInv

(* A step that changes no variable.                                        *)
LEMMA StutterKeeps ==
  ASSUME IInv, UNCHANGED gptVars
  PROVE  IInv'
<1>1. GptTypeOK' /\ PartitionsFit'
  BY Zenon DEF gptVars, IInv, GptTypeOK, PartitionsFit, nSectorForArray
<1>2. PhaseInv' /\ HeadersValid'
  BY Zenon DEF gptVars, IInv, PhaseInv, HeadersValid, Active, Crc
<1>3. ArrayInv'
  BY Zenon DEF gptVars, IInv, ArrayInv, Active, ArraySlots, nSectorForArray, Entry
<1> QED BY Zenon, <1>1, <1>2, <1>3 DEF IInv

(* Every step of GPTGenerate keeps the invariant.                          *)
LEMMA Inductive == GptSpec => []IInv
<1>1. IInv /\ [GptNext]_gptVars => IInv'
  BY Zenon, GptAssumption, GenerateKeeps, AllocateKeeps, StopKeeps, EntryKeeps, HeadersKeep, StutterKeeps
  DEF GptNext, GptStep
<1> QED BY <1>1, InitIInv, PTL DEF GptSpec

-----------------------------------------------------------------------------
(* The loops of GPTGenerate keep the types of their variables; remains, a  *)
(* size_t in the code, never wraps below zero.                             *)
THEOREM GptTypeCorrect == GptSpec => []GptTypeOK
<1>1. IInv => GptTypeOK
  BY Zenon DEF IInv
<1> QED BY <1>1, Inductive, PTL

(* The allocation loop places partitions behind the array, before the      *)
(* backup header, adjacent and in order.                                   *)
THEOREM PartitionsPlaced == GptSpec => []PartitionsFit
<1>1. IInv => PartitionsFit
  BY Zenon DEF IInv
<1> QED BY <1>1, Inductive, PTL

(* GPTParse returns the start and the length of every partition that       *)
(* GPTGenerate placed, and nothing else.                                   *)
THEOREM ParseRoundTrip == GptSpec => []ParseRecovers
<1>1. IInv => ParseRecovers
  <2> SUFFICES ASSUME IInv, gpc = "done" PROVE ParseRecovers
    BY Zenon DEF ParseRecovers
  <2> DEFINE n == Len(startLBA)
  <2>1. /\ startLBA \in Seq(Nat) /\ n \in Nat /\ DOMAIN startLBA = 1 .. n
        /\ req.parts \in Seq(Nat) /\ n <= Len(req.parts) /\ Len(req.parts) \in Nat
    BY DEF IInv, GptTypeOK
  <2>2. /\ hdr.numEntries = n /\ mbr.signature /\ written = n
        /\ \A k \in 0 .. n - 1 : array[k] = Entry(k + 1)
    BY Zenon DEF IInv, PhaseInv, ArrayInv, Active
  <2>3. ASSUME NEW k \in 1 .. n
        PROVE  /\ array[k - 1].startLBA = startLBA[k]
               /\ array[k - 1].endLBA - array[k - 1].startLBA + 1 = req.parts[k]
    <3>1. k - 1 \in 0 .. n - 1 /\ (k - 1) + 1 = k /\ k \in 1 .. Len(req.parts)
      BY <2>1
    <3>2. array[k - 1] = Entry(k)
      BY Zenon, <2>2, <3>1
    <3>3. startLBA[k] \in Nat /\ req.parts[k] \in Nat
      BY Zenon, <2>1, <3>1, ElementIsNat
    <3>4. PICK s \in Nat, p \in Nat : s = startLBA[k] /\ p = req.parts[k]
      BY Zenon, <3>3
    <3>5. array[k - 1].startLBA = s /\ array[k - 1].endLBA = s + p - 1
      BY <3>2, <3>4 DEF Entry
    <3>6. s + p - 1 - s + 1 = p
      OBVIOUS
    <3> QED BY <3>4, <3>5, <3>6
  <2> HIDE DEF n
  <2>4. GPTParse = [i \in 1 .. n |-> [startLBA |-> startLBA[i], volume |-> req.parts[i]]]
    BY Zenon, <2>2, <2>3 DEF GPTParse
  <2>5. ASSUME NEW k \in 1 .. n
        PROVE  GPTParse[k].startLBA # 0
    <3>1. startLBA[k] \in Nat /\ nSectorForArray(req) \in Nat
      BY Zenon, <2>1, ElementIsNat, ArrayHasRoom DEF IInv, GptTypeOK, n
    <3>2. startLBA[k] >= 2 + nSectorForArray(req)
      BY Zenon, <2>1 DEF IInv, PartitionsFit
    <3> QED BY <2>4, <3>1, <3>2
  <2>6. DOMAIN GPTParse = 1 .. n
    BY Zenon, <2>4
  <2>7. readgpt = 1 .. n
    BY Zenon, <2>5, <2>6 DEF readgpt
  <2> QED BY Zenon, <2>1, <2>2, <2>4, <2>7 DEF ParseRecovers
<1> QED BY <1>1, Inductive, PTL

(* The memsets of GPTGenerate leave no entry of an older table behind.     *)
THEOREM TableClean == GptSpec => []NoStaleEntries
<1>1. IInv => NoStaleEntries
  <2> SUFFICES ASSUME IInv, gpc = "done", startLBA # <<>>,
                      NEW k \in 0 .. ArraySlots(req) - 1, k >= Len(startLBA)
               PROVE  array[k] = ZeroEntry
    BY Zenon DEF NoStaleEntries
  <2>1. startLBA \in Seq(Nat) /\ Len(startLBA) > 0 /\ written = Len(startLBA)
    BY DEF IInv, GptTypeOK, PhaseInv
  <2>2. ArraySlots(req) \in Nat
    BY Zenon, ArrayHasRoom DEF IInv, GptTypeOK
  <2>3. k \in written .. ArraySlots(req) - 1
    BY <2>1, <2>2
  <2> QED BY Zenon, <2>1, <2>3 DEF IInv, ArrayInv, Active
<1> QED BY <1>1, Inductive, PTL

(* GPTGenerate leaves the partitions it placed and nothing of an older     *)
(* table, for every disk and request.                                      *)
THEOREM TableIsExact == GptSpec => []TableExact
<1>1. ParseRecovers /\ NoStaleEntries => TableExact
  BY Zenon DEF TableExact
<1> QED
  BY <1>1, ParseRoundTrip, TableClean, PTL

(* The primary and the backup header are written with valid checksums of   *)
(* the same array.                                                         *)
THEOREM HeadersAgree == GptSpec => []HeadersValid
<1>1. IInv => HeadersValid
  BY Zenon DEF IInv
<1> QED BY <1>1, Inductive, PTL

(* Partitions that are not empty take a sector each.                       *)
RoomInv ==
  Active /\ (\A i \in DOMAIN req.parts : req.parts[i] > 0) =>
    start >= 2 + nSectorForArray(req) + Len(startLBA)

(* The arithmetic of a memset: it begins at the w-th of n entries and has  *)
(* the length of the a sectors of the array, of E entries each.            *)
LEMMA EndOfMemset ==
  ASSUME NEW v \in Nat, NEW E \in Nat \ {0}, NEW a \in Nat, NEW n \in Nat, NEW w \in Nat,
         NEW s \in Nat, NEW m \in Nat, NEW S \in Nat, NEW k \in Nat,
         S = a * E, k <= w + S - 1, w < n, n <= S,
         s + m = v - 2, s >= 2 + a, a <= 2 \/ s >= 2 + a + n
  PROVE  2 * E + k < v * E
<1>1. k < n + S /\ v >= 4 + a
  OBVIOUS
<1>2. CASE a <= 2
  <2>1. a * E <= 2 * E
    BY <1>2
  <2>2. 2 * E + k < (4 + a) * E
    BY <1>1, <2>1
  <2>3. (4 + a) * E <= v * E
    BY <1>1
  <2> QED BY <2>2, <2>3
<1>3. CASE s >= 2 + a + n
  <2>1. v >= 4 + a + n
    BY <1>3
  <2>2. n <= n * E
    OBVIOUS
  <2>3. 2 * E + k < (4 + a + n) * E
    BY <1>1, <2>2
  <2>4. (4 + a + n) * E <= v * E
    BY <2>1
  <2> QED BY <2>3, <2>4
<1> QED BY Zenon, <1>2, <1>3

(* The allocation loop, given the types, keeps RoomInv.                    *)
LEMMA RoomKeeps ==
  ASSUME IInv, IInv', RoomInv, [GptNext]_gptVars
  PROVE  RoomInv'
<1>1. CASE UNCHANGED gptVars
  BY Zenon, <1>1 DEF gptVars, RoomInv, Active, nSectorForArray
<1>2. ASSUME NEW r \in Requests, GPTGenerate(r) PROVE RoomInv'
  <2>1. /\ startLBA' = <<>> /\ Len(startLBA') = 0 /\ req' = r
        /\ nSectorForArray(req)' = nSectorForArray(r) /\ nSectorForArray(r) \in Nat
    BY Zenon, <1>2, ArrayHasRoom, GptAssumption DEF IInv, PhaseInv, GPTGenerate, nSectorForArray
  <2>2. gpc' = "refused" \/ start' = 2 + nSectorForArray(r)
    BY Zenon, <1>2 DEF GPTGenerate
  <2> QED BY <2>1, <2>2 DEF RoomInv, Active
<1>3. CASE Allocate
  <2> SUFFICES ASSUME \A i \in DOMAIN req.parts : req.parts[i] > 0
               PROVE  start' >= 2 + nSectorForArray(req) + Len(startLBA')
    BY Zenon, <1>3 DEF RoomInv, Allocate, nSectorForArray
  <2>1. /\ startLBA \in Seq(Nat) /\ Len(startLBA) \in Nat /\ req.parts \in Seq(Nat)
        /\ start \in Nat /\ nSectorForArray(req) \in Nat
    BY ArrayHasRoom DEF IInv, GptTypeOK
  <2>2. Len(startLBA') = Len(startLBA) + 1 /\ start' = start + req.parts[Len(startLBA) + 1]
    BY <1>3, <2>1 DEF Allocate
  <2>3. req.parts[Len(startLBA) + 1] \in Nat /\ req.parts[Len(startLBA) + 1] > 0
    <3>1. Len(startLBA) + 1 \in 1 .. Len(req.parts) /\ DOMAIN req.parts = 1 .. Len(req.parts)
      BY <1>3, <2>1 DEF Allocate
    <3> QED BY Zenon, <2>1, <3>1, ElementIsNat
  <2>4. start >= 2 + nSectorForArray(req) + Len(startLBA)
    BY Zenon, <1>3 DEF RoomInv, Active, Allocate
  <2> QED BY <2>1, <2>2, <2>3, <2>4
<1>4. CASE StopAllocating \/ WriteEntry \/ WriteHeaders
  BY Zenon, <1>4 DEF StopAllocating, WriteEntry, WriteHeaders, RoomInv, Active, nSectorForArray
<1> QED BY Zenon, <1>1, <1>2, <1>3, <1>4 DEF GptNext, GptStep

(* No memset of GPTGenerate leaves the disk, though each begins an entry   *)
(* later than the one before and none is shorter; for every disk and every *)
(* list of partitions, unless there are empty ones and more than two       *)
(* sectors of entries.                                                     *)
THEOREM MemsetsInDisk == GptSpec => []ClearsInDisk
<1>1. GptInit => RoomInv
  BY Zenon DEF GptInit, RoomInv, Active
<1>2. IInv /\ RoomInv => ClearsInDisk
  <2> SUFFICES ASSUME IInv, RoomInv, gpc = "entries", written < Len(startLBA),
                      nSectorForArray(req) <= 2 \/ \A i \in DOMAIN req.parts : req.parts[i] > 0,
                      NEW k \in 0 .. 2 * ArraySlots(req) - 1, Zeroed(k)
               PROVE  2 * EntriesPerSector + k < req.volume * EntriesPerSector
    BY Zenon DEF ClearsInDisk
  <2>1. /\ req \in [volume : Nat, parts : Seq(Nat)] /\ req.volume \in Nat
        /\ Len(startLBA) \in Nat /\ written \in Nat /\ start \in Nat /\ remains \in Nat
        /\ Len(startLBA) <= Len(req.parts) /\ Len(req.parts) \in Nat
    BY DEF IInv, GptTypeOK
  <2>2. /\ nSectorForArray(req) \in Nat /\ ArraySlots(req) \in Nat
        /\ ArraySlots(req) = nSectorForArray(req) * EntriesPerSector
        /\ ArraySlots(req) >= Len(req.parts) /\ EntriesPerSector \in Nat \ {0}
    BY Zenon, <2>1, ArrayHasRoom, GptAssumption DEF ArraySlots
  <2>3. start + remains = req.volume - 2 /\ start >= 2 + nSectorForArray(req)
    BY Zenon DEF IInv, PartitionsFit
  <2>4. nSectorForArray(req) <= 2 \/ start >= 2 + nSectorForArray(req) + Len(startLBA)
    BY Zenon DEF RoomInv, Active
  <2>5. k \in Nat /\ k <= written + ArraySlots(req) - 1
    BY <2>2 DEF Zeroed
  <2>6. Len(startLBA) <= ArraySlots(req)
    BY <2>1, <2>2
  <2> QED BY Zenon, <2>1, <2>2, <2>3, <2>4, <2>5, <2>6, EndOfMemset
<1> QED BY <1>1, <1>2, Inductive, RoomKeeps, PTL DEF GptSpec

-----------------------------------------------------------------------------
(* The shape of the state.                                                 *)
FileRecord == [first : Nat, size : Nat]

Steps == {"start", "gpt", "format", "copyin", "mbr", "installed", "failed", "crashed",
          "loader", "kernel", "lost", "die"}
InstallerTypeOK ==
  /\ step \in Steps
  /\ placed \in Seq(Nat) /\ files \in Seq(FileRecord) /\ nextFree \in Nat

(* The first partition begins right behind the entry array.                *)
FirstInv ==
  Active => IF startLBA = <<>> THEN start = 2 + nSectorForArray(req)
            ELSE startLBA[1] = 2 + nSectorForArray(req)

(* The partitions asked for; the first is empty or has a MiB or more.      *)
RequestInv ==
  step # "start" /\ gpc # "idle" =>
    /\ Len(req.parts) = 2 /\ req.parts[1] \in Nat /\ req.parts[1] * SECT <= U32
    /\ req.parts[1] = 0 \/ req.parts[1] >= 2048

(* Files are copied to a volume with both partitions there.                *)
PhaseOrder ==
  /\ step = "start" => gpc = "idle"
  /\ step \in {"start", "gpt", "format"} => placed = <<>> /\ layout = NoLayout
  /\ step \notin {"start", "gpt", "failed"} \/ layout # NoLayout =>
       gpc = "done" /\ Len(startLBA) = 2
  /\ step = "copyin" /\ layout = NoLayout => req.parts[1] = 0

(* The volume in the boot partition: its files one behind the other.       *)
EndOf(i) == files[i].first + Clusters(files[i].size)
VolumeInv ==
  /\ layout = NoLayout => files = <<>> /\ placed = <<>>
  /\ layout # NoLayout =>
       /\ layout = Bpb(FatConfig) /\ req.parts[1] >= 2048
       /\ 3 <= nextFree /\ nextFree <= super.maxCluster
       /\ files = <<>> => nextFree = 3
       /\ files # <<>> => files[1].first = 3
       /\ \A i \in DOMAIN files :
            /\ 3 <= files[i].first
            /\ EndOf(i) = IF i + 1 \in DOMAIN files THEN files[i + 1].first ELSE nextFree
            /\ EndOf(i) <= nextFree
            /\ \A j \in DOMAIN files : i < j => EndOf(i) <= files[j].first

(* Every file copied was reported where it lies.                           *)
PlacedInv ==
  /\ Stored(Len(placed)) = Len(files)
  /\ \A k \in DOMAIN placed : placed[k] # 0 =>
       /\ Stored(k) \in DOMAIN files
       /\ placed[k] = startLBA[1] + ClusterSector(super, files[Stored(k)].first)
       /\ \A j \in DOMAIN placed : k < j /\ placed[j] # 0 => Stored(k) < Stored(j)

(* What was not found by the boot code.                                    *)
BootInv ==
  /\ step = "lost" => ~bootCode \/ ~LoaderThere
  /\ step = "die" => ~Holds(KernelSector, Kernel, 0)
  /\ step = "crashed" => req.parts[1] = 0

InstInv == IInv /\ FirstInv /\ InstallerTypeOK /\ RequestInv /\ PhaseOrder /\ VolumeInv /\ PlacedInv /\ BootInv

-----------------------------------------------------------------------------
(* CDIV gives a number.                                                    *)
LEMMA CdivNat == ASSUME NEW a \in Nat, NEW b \in Nat \ {0} PROVE CDIV(a, b) \in Nat
  BY RoundsUp

(* A volume of a MiB or more has room for a cluster behind its root        *)
(* directory.                                                              *)
LEMMA RoomForData ==
  ASSUME NEW n \in Nat, n >= 2048, NEW per \in Nat, per >= 8,
         NEW x \in Nat, x = n \div 8, NEW F \in Nat, F = CDIV(x, per)
  PROVE  n - 8 - 2 * F >= 24 /\ x > 2
<1>1. x * 8 <= n /\ n < x * 8 + 8
  BY Quotient
<1>2. F * per <= x + per - 1 /\ F * per >= x
  BY RoundsUp
<1>3. F # 0
  BY <1>1, <1>2, TimesMonotonic
<1>4. PICK g \in Nat : F = g + 1
  BY <1>3
<1>5. (g + 1) * per = g * per + per /\ g * per \in Nat
  OBVIOUS
<1>6. 8 * g <= per * g /\ per * g = g * per
  BY TimesMonotonic
<1>7. 8 * g <= x - 1
  BY <1>2, <1>4, <1>5, <1>6
<1> QED BY <1>1, <1>4, <1>7

(* The volume that createFAT32 makes of such a partition.                  *)
LEMMA BootVolume ==
  ASSUME NEW n \in Nat, n >= 2048, n * SECT <= U32,
         NEW cfg, cfg = [nSector |-> n, bytesPerSector |-> SECT, clusterSize |-> 8]
  PROVE  /\ ConfigOK(cfg) /\ EnoughClusters(cfg) /\ Bpb(cfg) # NoLayout
         /\ Sound(FAT32Super(Bpb(cfg))) /\ FAT32Super(Bpb(cfg)).maxCluster >= 3
         /\ FAT32Super(Bpb(cfg)).sectorPerCluster = 8
         /\ FAT32Super(Bpb(cfg)).bytesPerSector = SECT
         /\ FAT32Super(Bpb(cfg)).numSector = n
         /\ FAT32Super(Bpb(cfg)).fatSize = Bpb(cfg).fatSize32
<1>1. SECT \in SectorSizes /\ SECT = 512 /\ 8 \in ClusterSizes
  BY InstallerAssumption DEF SECT
<1>2. PICK per \in Nat \ {0} : per = SECT \div ENT /\ per >= 8
  BY <1>1, FatLayoutAssumption
<1>3. PICK x \in Nat : x = n \div 8
  BY Quotient
<1>4. PICK F \in Nat : F = CDIV(x, per)
  <2>1. CDIV(x, per) \in Nat
    BY CdivNat
  <2> QED BY <2>1
<1>5. n - 8 - 2 * F >= 24 /\ x > 2
  BY <1>2, <1>3, <1>4, RoomForData
<1>6. ConfigOK(cfg) /\ EnoughClusters(cfg)
  BY <1>1, <1>3, <1>5 DEF ConfigOK, EnoughClusters
<1>7. cfg \in [nSector : 0 .. U32 - 1, bytesPerSector : Nat, clusterSize : Nat] /\ Addressable(cfg)
  BY <1>1, FatLayoutAssumption DEF Addressable
<1>8. Sound(FAT32Super(Bpb(cfg)))
  BY <1>6, <1>7, SoundLayout
<1>9. Bpb(cfg).numSectors32 = n /\ Bpb(cfg) # NoLayout
  BY DEF Bpb, NoLayout
<1>10. /\ FAT32Super(Bpb(cfg)).sectorPerCluster = 8
       /\ FAT32Super(Bpb(cfg)).bytesPerSector = SECT
       /\ FAT32Super(Bpb(cfg)).numSector = n
       /\ FAT32Super(Bpb(cfg)).fatSize = Bpb(cfg).fatSize32
       /\ FAT32Super(Bpb(cfg)).fatSize = F
       /\ FAT32Super(Bpb(cfg)).maxCluster = FAT32Super(Bpb(cfg)).numData \div 8
  <2>1. /\ Bpb(cfg).fatSize32 = F /\ Bpb(cfg).numSectorPerCluster = 8
        /\ Bpb(cfg).bytesPerSector = SECT
    BY <1>2, <1>3, <1>4 DEF Bpb
  <2> QED BY <1>9, <2>1 DEF FAT32Super, MaxCluster
<1>11. FAT32Super(Bpb(cfg)).numData = n - 8 - 2 * F
  BY <1>4, <1>8, <1>10 DEF Sound
<1>12. FAT32Super(Bpb(cfg)).maxCluster >= 3
  <2>1. PICK d \in Nat : d = FAT32Super(Bpb(cfg)).numData /\ d >= 24
    BY <1>5, <1>11
  <2>2. d \div 8 >= 3
    BY <2>1
  <2> QED BY <1>10, <2>1, <2>2
<1> QED BY <1>6, <1>8, <1>9, <1>10, <1>12

(* ... as the state has it.                                                *)
LEMMA TheVolume ==
  ASSUME InstInv, layout # NoLayout
  PROVE  /\ Sound(super) /\ super.sectorPerCluster = 8 /\ super.bytesPerSector = 512
         /\ super.numSector = req.parts[1] /\ super.fatSize = layout.fatSize32
         /\ super.bytesPerCluster = 4096 /\ super.numReserved = 8
         /\ super.numFAT = 2 * super.fatSize /\ super.fatSize \in Nat
<1>1. /\ layout = Bpb(FatConfig) /\ req.parts[1] >= 2048 /\ req.parts[1] \in Nat
      /\ req.parts[1] * SECT <= U32
  <2>1. layout = Bpb(FatConfig) /\ req.parts[1] >= 2048
    BY DEF InstInv, VolumeInv
  <2>2. gpc = "done" /\ step # "start"
    BY Zenon DEF InstInv, PhaseOrder
  <2> QED BY <2>1, <2>2 DEF InstInv, RequestInv
<1>2. FatConfig = [nSector |-> req.parts[1], bytesPerSector |-> SECT, clusterSize |-> 8]
  BY Zenon DEF FatConfig
<1>3. /\ Sound(FAT32Super(Bpb(FatConfig)))
      /\ FAT32Super(Bpb(FatConfig)).sectorPerCluster = 8
      /\ FAT32Super(Bpb(FatConfig)).bytesPerSector = SECT
      /\ FAT32Super(Bpb(FatConfig)).numSector = req.parts[1]
      /\ FAT32Super(Bpb(FatConfig)).fatSize = Bpb(FatConfig).fatSize32
  BY <1>1, <1>2, BootVolume
<1>4. /\ Sound(super) /\ super.sectorPerCluster = 8 /\ super.bytesPerSector = 512
      /\ super.numSector = req.parts[1] /\ super.fatSize = layout.fatSize32
  BY <1>1, <1>3 DEF super, SECT
<1> QED BY <1>4 DEF Sound

(* The clusters of a file.                                                 *)
LEMMA ClustersPositive ==
  ASSUME InstInv, layout # NoLayout, NEW size \in Nat
  PROVE  Clusters(size) \in Nat \ {0} /\ (size <= 4096 => Clusters(size) = 1)
<1>1. super.bytesPerCluster = 4096
  BY TheVolume
<1>2. CDIV(size, 4096) \in Nat
  BY CdivNat
<1>3. size <= 4096 => CDIV(size, 4096) \in {0, 1}
  <2>1. CDIV(size, 4096) = (size + 4095) \div 4096
    <3>1. size + 4096 - 1 = size + 4095
      OBVIOUS
    <3> QED BY <3>1 DEF CDIV
  <2>2. size <= 4096 => (size + 4095) \div 4096 \in {0, 1}
    OBVIOUS
  <2> QED BY <2>1, <2>2
<1> QED BY <1>1, <1>2, <1>3 DEF Clusters

(* The files among the first k reports of s, and what the theory of       *)
(* finite sets says of them: CountingHolds proves it, and until then it is *)
(* a hypothesis of the lemmas that need it.                                *)
Count(s, k) == Cardinality({j \in 1 .. k : s[j] # 0})
Counting ==
  /\ Cardinality({}) = 0
  /\ \A s : \A k \in Nat :
       Count(s, k + 1) = IF s[k + 1] # 0 THEN Count(s, k) + 1 ELSE Count(s, k)

(* The numbers of the files copied among the four.                         *)
LEMMA StoredNext ==
  ASSUME Counting, NEW k \in Nat
  PROVE  Stored(k + 1) = IF placed[k + 1] # 0 THEN Stored(k) + 1 ELSE Stored(k)
<1>1. \A j : Stored(j) = Count(placed, j)
  BY Zenon DEF Stored, Count
<1> QED BY Zenon, <1>1 DEF Counting

LEMMA StoredNone == ASSUME Counting PROVE Stored(0) = 0
<1>1. {j \in 1 .. 0 : placed[j] # 0} = {}
  OBVIOUS
<1> QED BY Zenon, <1>1 DEF Counting, Stored

(* A file more: those before keep their numbers.                           *)
LEMMA StoredKept ==
  ASSUME Counting, NEW x \in Nat, placed \in Seq(Nat), placed' = Append(placed, x)
  PROVE  /\ \A k \in 0 .. Len(placed) : Stored(k)' = Stored(k)
         /\ \A k \in DOMAIN placed : placed'[k] = placed[k] /\ k \in 1 .. Len(placed) /\ k \in Nat
         /\ DOMAIN placed' = DOMAIN placed \cup {Len(placed) + 1}
         /\ Len(placed') = Len(placed) + 1 /\ placed'[Len(placed) + 1] = x
         /\ placed' \in Seq(Nat) /\ Len(placed) \in Nat
         /\ \A n \in Nat : n = Len(placed) + 1 =>
              Stored(n)' = IF x # 0 THEN Stored(Len(placed)) + 1 ELSE Stored(Len(placed))
<1>1. /\ placed' \in Seq(Nat) /\ Len(placed) \in Nat
      /\ Len(placed') = Len(placed) + 1 /\ placed'[Len(placed) + 1] = x
      /\ DOMAIN placed = 1 .. Len(placed) /\ DOMAIN placed' = 1 .. Len(placed) + 1
      /\ \A k \in 1 .. Len(placed) : placed'[k] = placed[k]
  OBVIOUS
<1>2. ASSUME NEW k \in 0 .. Len(placed)
      PROVE  Stored(k)' = Stored(k)
  <2>1. {j \in 1 .. k : placed'[j] # 0} = {j \in 1 .. k : placed[j] # 0}
    BY <1>1
  <2> QED BY Zenon, <2>1 DEF Stored
<1>3. ASSUME NEW n \in Nat, n = Len(placed) + 1
      PROVE  Stored(n)' = IF x # 0 THEN Stored(Len(placed)) + 1 ELSE Stored(Len(placed))
  <2>1. \A k : Stored(k)' = Count(placed', k)
    BY Zenon DEF Stored, Count
  <2>2. Count(placed', Len(placed)) = Stored(Len(placed))
    <3>1. Len(placed) \in 0 .. Len(placed)
      BY <1>1
    <3> QED BY Zenon, <1>2, <2>1, <3>1
  <2>3. Count(placed', Len(placed) + 1)
          = IF x # 0 THEN Count(placed', Len(placed)) + 1 ELSE Count(placed', Len(placed))
    BY Zenon, <1>1 DEF Counting
  <2> QED BY Zenon, <1>3, <2>1, <2>2, <2>3
<1> QED BY <1>1, <1>2, <1>3

-----------------------------------------------------------------------------
(* Steps that leave the disk and the report alone.                         *)
LEMMA DiskKept ==
  ASSUME InstInv, UNCHANGED <<placed, gptVars, volumeVars>>,
         step' \in Steps, RequestInv', PhaseOrder', BootInv'
  PROVE  InstInv'
<1>1. /\ UNCHANGED <<placed, layout, nextFree, files>>
      /\ UNCHANGED <<gpc, req, startLBA, start, remains, written, array, mbr, hdr, alt>>
  BY Zenon DEF gptVars, volumeVars
<1>2. IInv'
  BY Zenon, StutterKeeps DEF InstInv
<1>3. FirstInv'
  BY Zenon, <1>1 DEF InstInv, FirstInv, Active, nSectorForArray
<1>4. InstallerTypeOK'
  BY Zenon, <1>1 DEF InstInv, InstallerTypeOK
<1>5. super' = super /\ FatConfig' = FatConfig
  BY Zenon, <1>1 DEF super, FatConfig
<1>6. \A size : Clusters(size)' = Clusters(size)
  BY Zenon, <1>5 DEF Clusters
<1>7. VolumeInv'
  BY <1>1, <1>5, <1>6 DEF InstInv, VolumeInv, EndOf
<1>8. PlacedInv'
  <2>1. \A k : Stored(k)' = Stored(k)
    BY Zenon, <1>1 DEF Stored
  <2>2. Stored(Len(placed))' = Stored(Len(placed))
    BY Zenon, <1>1 DEF Stored
  <2> QED BY Zenon, <1>1, <1>5, <2>1, <2>2 DEF InstInv, PlacedInv
<1> QED BY Zenon, <1>2, <1>3, <1>4, <1>7, <1>8 DEF InstInv

(* The initial state.                                                      *)
LEMMA InstInitInv == ASSUME Counting, Init PROVE InstInv
<1>1. gpc = "idle" /\ step = "start" /\ placed = <<>> /\ layout = NoLayout /\ files = <<>> /\ nextFree = 0
  BY Zenon DEF Init, GptInit, VolumeInit
<1>2. IInv
  BY Zenon, InitIInv DEF Init
<1>3. FirstInv /\ RequestInv /\ PhaseOrder /\ BootInv
  BY Zenon, <1>1 DEF FirstInv, RequestInv, PhaseOrder, BootInv, Active
<1>4. InstallerTypeOK
  BY <1>1 DEF InstallerTypeOK, Steps
<1>5. VolumeInv
  BY Zenon, <1>1 DEF VolumeInv
<1>6. PlacedInv
  <2>1. Len(placed) = 0 /\ DOMAIN placed = {} /\ Len(files) = 0
    BY <1>1
  <2> QED BY Zenon, <2>1, StoredNone DEF PlacedInv
<1> QED BY Zenon, <1>2, <1>3, <1>4, <1>5, <1>6 DEF InstInv

(* Steps of the call of GPTGenerate, and the call: nothing is copied yet.  *)
LEMMA TableStep ==
  ASSUME InstInv, UNCHANGED <<placed, volumeVars>>, placed = <<>>, layout = NoLayout,
         IInv', FirstInv', step' \in {"failed", "gpt"}, RequestInv'
  PROVE  InstInv'
<1>1. UNCHANGED <<placed, layout, nextFree, files>> /\ files = <<>>
  BY DEF volumeVars, InstInv, VolumeInv
<1>2. InstallerTypeOK'
  BY Zenon, <1>1 DEF InstInv, InstallerTypeOK, Steps
<1>3. PhaseOrder' /\ BootInv' /\ VolumeInv'
  BY Zenon, <1>1 DEF PhaseOrder, BootInv, VolumeInv
<1>4. PlacedInv'
  <2>1. Stored(Len(placed))' = Stored(Len(placed))
    BY Zenon, <1>1 DEF Stored
  <2>2. DOMAIN placed' = {}
    BY <1>1
  <2> QED BY Zenon, <1>1, <2>1, <2>2 DEF InstInv, PlacedInv
<1> QED BY Zenon, <1>2, <1>3, <1>4 DEF InstInv

(* The call of GPTGenerate with the boot partition b.                      *)
LEMMA CallKeeps ==
  ASSUME InstInv, NEW v \in Nat, NEW b \in Nat, v - 5 - b \in Nat, b * SECT <= U32, b = 0 \/ b >= 2048,
         step = "start", step' = "gpt", GPTGenerate(Request(v, b)), UNCHANGED <<placed, volumeVars>>
  PROVE  InstInv'
<1> DEFINE r == Request(v, b)
<1>1. r \in [volume : Nat, parts : Seq(Nat)] /\ r.parts[1] = b /\ Len(r.parts) = 2
  BY DEF Request
<1>2. IInv'
  BY <1>1, GenerateKeeps DEF InstInv
<1>3. req' = r
  BY Zenon DEF GPTGenerate
<1>4. FirstInv'
  <2>1. startLBA = <<>> /\ startLBA' = <<>>
    BY DEF GPTGenerate, InstInv, PhaseOrder, IInv, PhaseInv
  <2>2. gpc' = "refused" \/ start' = 2 + nSectorForArray(r)
    BY DEF GPTGenerate
  <2>3. nSectorForArray(req)' = nSectorForArray(r)
    BY <1>3 DEF nSectorForArray
  <2> QED BY <2>1, <2>2, <2>3 DEF FirstInv, Active
<1>5. RequestInv'
  BY <1>1, <1>3 DEF RequestInv
<1>6. placed = <<>> /\ layout = NoLayout
  BY Zenon DEF InstInv, PhaseOrder
<1> QED BY <1>2, <1>4, <1>5, <1>6, TableStep

(* The calls that the programs make.                                       *)
LEMMA MkpartKeeps ==
  ASSUME InstInv, NEW size \in DiskSizes, NEW mib \in BootMiBs, mkpart(size, mib)
  PROVE  InstInv'
<1>1. size \in Nat /\ mib \in Nat /\ mib * MiB <= U32
  BY InstallerAssumption
<1>2. PICK ds \in Nat : ds = (size \div 4096) * 4096
  BY <1>1
<1>3. step = "start" /\ UNCHANGED <<placed, volumeVars>>
  BY DEF mkpart
<1>4. CASE mib * MiB + SECT * 64 > ds
  <2>1. step' = "failed" /\ UNCHANGED gptVars
    BY <1>2, <1>4 DEF mkpart
  <2>2. gpc = "idle" /\ gpc' = "idle" /\ placed = <<>> /\ layout = NoLayout /\ layout' = layout
    BY <1>3, <2>1 DEF InstInv, PhaseOrder, gptVars, volumeVars
  <2>3. RequestInv' /\ PhaseOrder' /\ BootInv'
    BY <2>1, <2>2 DEF RequestInv, PhaseOrder, BootInv
  <2> QED BY <1>3, <2>1, <2>3, DiskKept DEF Steps
<1>5. CASE ~(mib * MiB + SECT * 64 > ds)
  <2>1. step' = "gpt" /\ GPTGenerate(Request(ds \div SECT, (mib * MiB) \div SECT))
    BY <1>2, <1>5 DEF mkpart
  <2>2. PICK b \in Nat : b = 2048 * mib
    BY <1>1
  <2>3. (mib * MiB) \div SECT = b /\ mib * MiB = b * SECT
    BY <1>1, <2>2 DEF MiB, SECT
  <2>4. PICK v \in Nat : v = ds \div SECT
    BY <1>2 DEF SECT
  <2>5. v - 5 - b \in Nat
    BY <1>2, <1>5, <2>3, <2>4 DEF SECT
  <2>6. b = 0 \/ b >= 2048
    BY <1>1, <2>2
  <2>7. b * SECT <= U32
    BY <1>1, <2>3
  <2>8. GPTGenerate(Request(v, b))
    BY <2>1, <2>3, <2>4
  <2> QED BY <1>3, <2>1, <2>5, <2>6, <2>7, <2>8, CallKeeps
<1> QED BY <1>4, <1>5

LEMMA MkgptKeeps ==
  ASSUME InstInv, mkgpt
  PROVE  InstInv'
<1>1. /\ step = "start" /\ step' = "gpt" /\ UNCHANGED <<placed, volumeVars>>
      /\ GPTGenerate(Request(524288, 262140))
  <2>1. (256 * MiB) \div SECT = 524288
    BY DEF MiB, SECT
  <2> QED BY <2>1 DEF mkgpt
<1>2. 262140 * SECT <= U32
  BY InstallerAssumption, FatLayoutAssumption DEF MiB, SECT
<1> QED BY <1>1, <1>2, CallKeeps

(* A step of GPTGenerate.                                                  *)
LEMMA PartitionKeeps ==
  ASSUME InstInv, Partition
  PROVE  InstInv'
<1>1. GptStep /\ step = "gpt" /\ step' = "gpt" /\ UNCHANGED <<placed, volumeVars>> /\ IInv
  BY Zenon DEF Partition, InstInv
<1>2. IInv'
  BY Zenon, <1>1, AllocateKeeps, StopKeeps, EntryKeeps, HeadersKeep DEF GptStep
<1>3. req' = req /\ gpc \in {"alloc", "entries"}
  BY Zenon, <1>1 DEF GptStep, Allocate, StopAllocating, WriteEntry, WriteHeaders
<1>4. RequestInv'
  BY <1>1, <1>3 DEF InstInv, RequestInv
<1>5. FirstInv'
  <2>1. nSectorForArray(req)' = nSectorForArray(req)
    BY Zenon, <1>3 DEF nSectorForArray
  <2>2. startLBA \in Seq(Nat)
    BY Zenon, <1>1 DEF IInv, GptTypeOK
  <2>3. IF startLBA = <<>> THEN start = 2 + nSectorForArray(req)
        ELSE startLBA[1] = 2 + nSectorForArray(req)
    BY Zenon, <1>3 DEF InstInv, FirstInv, Active
  <2>4. CASE Allocate
    <3>1. startLBA' = Append(startLBA, start) /\ startLBA' # <<>>
      BY <2>2, <2>4 DEF Allocate
    <3>2. startLBA = <<>> => startLBA'[1] = start
      BY <3>1
    <3>3. startLBA # <<>> => startLBA'[1] = startLBA[1]
      BY <2>2, <3>1
    <3> QED BY Zenon, <2>1, <2>3, <3>1, <3>2, <3>3 DEF FirstInv
  <2>5. CASE StopAllocating \/ WriteEntry \/ WriteHeaders
    <3>1. UNCHANGED <<startLBA, start>>
      BY Zenon, <2>5 DEF StopAllocating, WriteEntry, WriteHeaders
    <3> QED BY Zenon, <2>1, <2>3, <3>1 DEF FirstInv
  <2> QED BY Zenon, <1>1, <2>4, <2>5 DEF GptStep
<1>6. placed = <<>> /\ layout = NoLayout
  BY Zenon, <1>1 DEF InstInv, PhaseOrder
<1> QED BY Zenon, <1>1, <1>2, <1>4, <1>5, <1>6, TableStep

(* Steps of main that only look.                                           *)
LEMMA LookKeeps ==
  ASSUME InstInv, CannotOpen \/ Partitioned \/ CopyinCrashes \/ WriteMbr
  PROVE  InstInv'
<1>1. UNCHANGED <<placed, gptVars, volumeVars>>
  BY Zenon DEF CannotOpen, Partitioned, CopyinCrashes, WriteMbr
<1>2. UNCHANGED <<gpc, req, startLBA, placed, layout, nextFree>>
  BY Zenon, <1>1 DEF gptVars, volumeVars
<1>3. RequestInv /\ PhaseOrder
  BY Zenon DEF InstInv
<1>4. CASE CannotOpen
  <2>1. step = "start" /\ step' = "failed"
    BY Zenon, <1>4 DEF CannotOpen
  <2>2. RequestInv' /\ PhaseOrder' /\ BootInv'
    BY <1>2, <1>3, <2>1 DEF RequestInv, PhaseOrder, BootInv
  <2> QED BY Zenon, <1>1, <2>1, <2>2, DiskKept DEF Steps
<1>5. CASE Partitioned
  <2>1. /\ step = "gpt"
        /\ step' = "failed" \/ (step' = "format" /\ gpc = "done" /\ Len(startLBA) = 2)
    BY Zenon, <1>5 DEF Partitioned
  <2>2. RequestInv' /\ PhaseOrder' /\ BootInv'
    BY <1>2, <1>3, <2>1 DEF RequestInv, PhaseOrder, BootInv
  <2> QED BY Zenon, <1>1, <2>1, <2>2, DiskKept DEF Steps
<1>6. CASE CopyinCrashes
  <2>1. step = "copyin" /\ step' = "crashed"
    BY Zenon, <1>6 DEF CopyinCrashes
  <2>2. layout = NoLayout
    <3> SUFFICES ASSUME layout # NoLayout PROVE FALSE
      BY Zenon
    <3>1. super.maxCluster \in Nat /\ nextFree \in Nat
      BY TheVolume DEF Sound, InstInv, InstallerTypeOK
    <3>2. super.maxCluster < nextFree /\ nextFree <= super.maxCluster
      BY <1>6 DEF CopyinCrashes, InstInv, VolumeInv
    <3> QED BY <3>1, <3>2
  <2>3. RequestInv' /\ PhaseOrder' /\ BootInv'
    BY <1>2, <1>3, <2>1, <2>2 DEF RequestInv, PhaseOrder, BootInv
  <2> QED BY Zenon, <1>1, <2>1, <2>3, DiskKept DEF Steps
<1>7. CASE WriteMbr
  <2>1. step = "mbr" /\ step' \in {"installed", "failed"}
    BY Zenon, <1>7 DEF WriteMbr
  <2>2. RequestInv' /\ PhaseOrder' /\ BootInv'
    BY <1>2, <1>3, <2>1 DEF RequestInv, PhaseOrder, BootInv
  <2> QED BY Zenon, <1>1, <2>1, <2>2, DiskKept DEF Steps
<1> QED BY Zenon, <1>4, <1>5, <1>6, <1>7

(* createFAT32.                                                            *)
LEMMA FormatKeeps ==
  ASSUME InstInv, FormatBoot
  PROVE  InstInv'
<1>1. /\ step = "format" /\ UNCHANGED <<placed, gptVars>>
      /\ gpc = "done" /\ Len(startLBA) = 2 /\ placed = <<>> /\ layout = NoLayout
      /\ files = <<>>
  BY DEF FormatBoot, InstInv, PhaseOrder, VolumeInv
<1>2. UNCHANGED <<gpc, req, startLBA, start>>
  BY Zenon, <1>1 DEF gptVars
<1>3. /\ req.parts[1] \in Nat /\ req.parts[1] * SECT <= U32
      /\ req.parts[1] = 0 \/ req.parts[1] >= 2048
      /\ RequestInv'
  BY <1>1, <1>2 DEF InstInv, RequestInv, FormatBoot
<1>4. FatConfig = [nSector |-> req.parts[1], bytesPerSector |-> SECT, clusterSize |-> 8]
      /\ FatConfig' = FatConfig
  BY Zenon, <1>2 DEF FatConfig
<1>5. CASE req.parts[1] = 0
  <2>1. ~ConfigOK(FatConfig)
    BY <1>4, <1>5 DEF ConfigOK
  <2>2. UNCHANGED volumeVars /\ step' = "copyin"
    BY Zenon, <2>1 DEF FormatBoot
  <2>3. PhaseOrder' /\ BootInv'
    BY Zenon, <1>1, <1>2, <1>5, <2>2 DEF PhaseOrder, BootInv, volumeVars
  <2> QED BY <1>1, <1>3, <2>2, <2>3, DiskKept DEF Steps
<1>6. CASE req.parts[1] >= 2048
  <2>1. /\ ConfigOK(FatConfig) /\ EnoughClusters(FatConfig) /\ Bpb(FatConfig) # NoLayout
        /\ FAT32Super(Bpb(FatConfig)).maxCluster >= 3
        /\ Sound(FAT32Super(Bpb(FatConfig)))
    BY <1>3, <1>4, <1>6, BootVolume
  <2>2. layout' = Bpb(FatConfig) /\ nextFree' = 3 /\ files' = <<>> /\ step' = "copyin"
    BY Zenon, <2>1 DEF FormatBoot, Format
  <2>3. super'.maxCluster >= 3 /\ super'.maxCluster \in Nat
    BY Zenon, <2>1, <2>2 DEF super, Sound
  <2>4. IInv'
    BY Zenon, <1>1, StutterKeeps DEF InstInv
  <2>5. FirstInv'
    BY Zenon, <1>2 DEF InstInv, FirstInv, Active, nSectorForArray
  <2>6. InstallerTypeOK'
    BY Zenon, <1>1, <2>2 DEF InstInv, InstallerTypeOK, Steps
  <2>7. PhaseOrder' /\ BootInv'
    BY Zenon, <1>1, <1>2, <2>1, <2>2 DEF PhaseOrder, BootInv
  <2>8. VolumeInv'
    BY <1>2, <1>4, <1>6, <2>1, <2>2, <2>3 DEF VolumeInv
  <2>9. PlacedInv'
    <3>1. Stored(Len(placed))' = Stored(Len(placed)) /\ DOMAIN placed' = {} /\ Len(files') = Len(files)
      BY <1>1, <2>2 DEF Stored
    <3> QED BY Zenon, <3>1 DEF InstInv, PlacedInv
  <2> QED BY <1>3, <2>4, <2>5, <2>6, <2>7, <2>8, <2>9 DEF InstInv
<1> QED BY <1>3, <1>5, <1>6

(* The size of a file, cut to 32 bits.                                     *)
LEMMA CutSize ==
  ASSUME NEW k \in 1 .. NFiles, NEW size \in FileSizes[k]
  PROVE  size % U32 \in Nat
<1>1. size \in Nat /\ U32 \in Nat \ {0}
  BY Zenon, InstallerAssumption, FatLayoutAssumption
<1> QED BY <1>1

(* FAT32Copyin stores a file behind the others.                            *)
LEMMA StoreKeeps ==
  ASSUME InstInv, NEW k, NEW bytes, copyin(k, bytes), NEW size \in Nat, size = bytes % U32
  PROVE  VolumeInv' /\ files' \in Seq(FileRecord) /\ nextFree' \in Nat /\ super' = super
         /\ UNCHANGED <<layout, gptVars>>
         /\ files' = Append(files, [first |-> nextFree, size |-> size])
<1> DEFINE f == [first |-> nextFree, size |-> size]
<1>1. /\ layout # NoLayout /\ UNCHANGED <<layout, gptVars, req>> /\ step = "copyin"
      /\ files' = Append(files, f) /\ nextFree' = nextFree + Clusters(size)
      /\ nextFree + Clusters(size) <= super.maxCluster
  BY Zenon DEF copyin, Store, Fits, gptVars
<1>3. Clusters(size) \in Nat \ {0}
  BY <1>1, ClustersPositive
<1>4. files \in Seq(FileRecord) /\ nextFree \in Nat /\ f \in FileRecord
  BY Zenon DEF InstInv, InstallerTypeOK, FileRecord
<1>5. /\ super' = super /\ FatConfig' = FatConfig
  BY Zenon, <1>1 DEF super, FatConfig
<1> HIDE DEF f
<1>6. PICK m \in Nat : m = Len(files)
  BY <1>4
<1>7. /\ files' \in Seq(FileRecord) /\ Len(files') = m + 1
      /\ DOMAIN files = 1 .. m /\ DOMAIN files' = 1 .. m + 1 /\ files'[m + 1] = f
      /\ \A i \in 1 .. m : files'[i] = files[i]
      /\ files' # <<>>
  BY <1>1, <1>4, <1>6
<1>8. f.first = nextFree /\ f.size = size
  BY Zenon DEF f
<1>9. /\ layout = Bpb(FatConfig) /\ req.parts[1] >= 2048
      /\ 3 <= nextFree /\ nextFree <= super.maxCluster
      /\ files = <<>> => nextFree = 3
      /\ files # <<>> => files[1].first = 3
  <2>1. layout # NoLayout
    BY Zenon, <1>1
  <2> QED BY <2>1 DEF InstInv, VolumeInv
<1>10. \A i \in 1 .. m :
         /\ 3 <= files[i].first
         /\ EndOf(i) = IF i + 1 \in 1 .. m THEN files[i + 1].first ELSE nextFree
         /\ EndOf(i) <= nextFree
         /\ \A j \in 1 .. m : i < j => EndOf(i) <= files[j].first
  <2>1. DOMAIN files = 1 .. m
    BY Zenon, <1>7
  <2>2. layout # NoLayout
    BY Zenon, <1>1
  <2>3. \A i \in DOMAIN files :
           /\ 3 <= files[i].first
           /\ EndOf(i) = IF i + 1 \in DOMAIN files THEN files[i + 1].first ELSE nextFree
           /\ EndOf(i) <= nextFree
           /\ \A j \in DOMAIN files : i < j => EndOf(i) <= files[j].first
    BY <2>2 DEF InstInv, VolumeInv
  <2> QED BY Zenon, <2>1, <2>3
<1>11. \A i : EndOf(i)' = files'[i].first + Clusters(files'[i].size)
  BY Zenon, <1>5 DEF EndOf, Clusters
<1>12. ASSUME NEW i \in 1 .. m
       PROVE  EndOf(i)' = EndOf(i) /\ EndOf(i) \in Nat /\ files[i].first \in Nat
  <2>1. files[i] \in FileRecord
    BY <1>4, <1>6
  <2>2. PICK z \in Nat : z = files[i].size
    BY Zenon, <2>1 DEF FileRecord
  <2>3. Clusters(z) \in Nat \ {0}
    BY <1>1, ClustersPositive
  <2>4. files[i].first \in Nat
    BY Zenon, <2>1 DEF FileRecord
  <2>5. EndOf(i) = files[i].first + Clusters(z) /\ EndOf(i)' = files[i].first + Clusters(z)
    BY Zenon, <1>7, <1>11, <2>2 DEF EndOf
  <2>6. \A x \in Nat, y \in Nat \ {0} : x + y \in Nat
    OBVIOUS
  <2> QED BY Zenon, <2>3, <2>4, <2>5, <2>6
<1>13. PICK e \in Nat : e = nextFree' /\ e > nextFree /\ e <= super.maxCluster
  BY <1>1, <1>3, <1>4
<1>14. EndOf(m + 1)' = files'[m + 1].first + Clusters(files'[m + 1].size)
  BY Zenon, <1>11
<1>15. files'[m + 1].first + Clusters(files'[m + 1].size) = e
  BY Zenon, <1>1, <1>7, <1>8, <1>13
<1>16. ASSUME NEW i \in 1 .. m + 1
       PROVE  /\ 3 <= files'[i].first
              /\ EndOf(i)' = IF i + 1 \in 1 .. m + 1 THEN files'[i + 1].first ELSE e
              /\ EndOf(i)' <= e
              /\ \A j \in 1 .. m + 1 : i < j => EndOf(i)' <= files'[j].first
  <2>1. CASE i = m + 1
    <3>1. EndOf(i)' = e
      BY Zenon, <1>11, <1>15, <2>1
    <3>2. files'[i].first = nextFree
      BY Zenon, <1>7, <1>8, <2>1
    <3>3. i + 1 \notin 1 .. m + 1 /\ \A j \in 1 .. m + 1 : ~(i < j)
      BY <1>6, <2>1
    <3> QED BY <1>9, <1>10, <3>1, <3>2, <3>3
  <2>2. CASE i # m + 1
    <3>1. i \in 1 .. m
      BY <1>6, <2>2
    <3>2. EndOf(i)' = EndOf(i) /\ EndOf(i) \in Nat /\ files'[i] = files[i]
      BY Zenon, <1>7, <1>12, <3>1
    <3>3. EndOf(i) <= e
      BY <1>4, <1>9, <1>10, <1>13, <3>1, <3>2
    <3>4. EndOf(i) = IF i + 1 \in 1 .. m + 1 THEN files'[i + 1].first ELSE e
      <4>1. CASE i = m
        BY <1>6, <1>7, <1>8, <1>9, <1>10, <3>1, <4>1
      <4>2. CASE i # m
        <5>1. i + 1 \in 1 .. m /\ i + 1 \in 1 .. m + 1
          BY <1>6, <3>1, <4>2
        <5> QED BY <1>7, <1>9, <1>10, <3>1, <5>1
      <4> QED BY Zenon, <4>1, <4>2
    <3>5. ASSUME NEW j \in 1 .. m + 1, i < j
          PROVE  EndOf(i) <= files'[j].first
      <4>1. CASE j = m + 1
        BY <1>7, <1>8, <1>9, <1>10, <3>1, <4>1
      <4>2. CASE j # m + 1
        <5>1. j \in 1 .. m
          BY <1>6, <4>2
        <5> QED BY <1>7, <1>9, <1>10, <3>1, <3>5, <5>1
      <4> QED BY Zenon, <4>1, <4>2
    <3> QED BY <1>9, <1>10, <3>1, <3>2, <3>3, <3>4, <3>5
  <2> QED BY Zenon, <2>1, <2>2
<1>17. files'[1].first = 3
  <2>1. CASE files = <<>>
    <3>1. m = 0
      BY Zenon, <1>6, <2>1
    <3> QED BY <1>7, <1>8, <1>9, <2>1, <3>1
  <2>2. CASE files # <<>>
    <3>1. 1 \in 1 .. m
      BY <1>4, <1>6, <2>2
    <3> QED BY <1>7, <1>9, <2>2, <3>1
  <2> QED BY Zenon, <2>1, <2>2
<1>18. 3 <= e /\ layout' # NoLayout /\ layout' = layout
  BY <1>1, <1>4, <1>9, <1>13
<1>19. VolumeInv'
  <2>1. DOMAIN files' = 1 .. m + 1 /\ files' # <<>>
    BY Zenon, <1>7
  <2>2. layout' = Bpb(FatConfig') /\ req'.parts[1] >= 2048
    BY <1>1, <1>5, <1>9
  <2>3. nextFree' <= super'.maxCluster /\ 3 <= nextFree'
    BY Zenon, <1>5, <1>13, <1>18
  <2> QED BY <1>13, <1>16, <1>17, <1>18, <2>1, <2>2, <2>3 DEF VolumeInv
<1> QED BY Zenon, <1>1, <1>5, <1>7, <1>13, <1>19 DEF f

(* The report of a file: x is the sector it starts at, or 0.               *)
LEMMA ReportKeeps ==
  ASSUME Counting, InstInv, NEW x \in Nat, placed' = Append(placed, x), super' = super, startLBA' = startLBA,
         files \in Seq(FileRecord), files' \in Seq(FileRecord),
         \/ x = 0 /\ files' = files
         \/ /\ x # 0 /\ Len(files') = Len(files) + 1
            /\ \A i \in DOMAIN files : files'[i] = files[i]
            /\ x = startLBA[1] + ClusterSector(super, files'[Len(files) + 1].first)
  PROVE  PlacedInv'
<1>0. placed \in Seq(Nat)
  BY Zenon DEF InstInv, InstallerTypeOK
<1>1. PICK n \in Nat : n = Len(placed) + 1
  BY <1>0
<1>2. PICK m \in Nat : m = Len(files) /\ DOMAIN files = 1 .. m
  OBVIOUS
<1>3. /\ \A k : Stored(k) = Count(placed, k)
      /\ \A k : Stored(k)' = Count(placed', k)
  BY Zenon DEF Stored, Count
<1>4. /\ \A k \in 0 .. n - 1 : Count(placed', k) = Count(placed, k)
      /\ \A k \in DOMAIN placed : placed'[k] = placed[k] /\ k \in 1 .. n - 1
      /\ DOMAIN placed' = DOMAIN placed \cup {n}
      /\ Len(placed') = n /\ placed'[n] = x
      /\ x # 0 => Count(placed', n) = Count(placed, Len(placed)) + 1
      /\ x = 0 => Count(placed', n) = Count(placed, Len(placed))
  BY <1>0, <1>1, <1>3, StoredKept
<1>5. Count(placed, Len(placed)) = m
  BY Zenon, <1>2, <1>3 DEF InstInv, PlacedInv
<1>6. \A k \in DOMAIN placed : placed[k] # 0 =>
        /\ Count(placed, k) \in 1 .. m
        /\ placed[k] = startLBA[1] + ClusterSector(super, files[Count(placed, k)].first)
        /\ \A j \in DOMAIN placed : k < j /\ placed[j] # 0 => Count(placed, k) < Count(placed, j)
  BY Zenon, <1>2, <1>3 DEF InstInv, PlacedInv
<1>7. PICK l \in Nat :
        /\ l = Len(files') /\ DOMAIN files' = 1 .. l /\ m <= l
        /\ x # 0 => l = m + 1
        /\ x = 0 => l = m
        /\ \A i \in 1 .. m : files'[i] = files[i]
        /\ x # 0 => x = startLBA[1] + ClusterSector(super, files'[l].first)
  <2>1. PICK l \in Nat : l = Len(files') /\ DOMAIN files' = 1 .. l
    OBVIOUS
  <2>2. CASE x = 0 /\ files' = files
    BY <1>2, <2>1, <2>2
  <2>3. CASE /\ x # 0 /\ Len(files') = Len(files) + 1
             /\ \A i \in DOMAIN files : files'[i] = files[i]
             /\ x = startLBA[1] + ClusterSector(super, files'[Len(files) + 1].first)
    <3>1. l = m + 1 /\ l = Len(files) + 1 /\ m <= l
      BY <1>2, <2>1, <2>3
    <3>2. \A i \in 1 .. m : files'[i] = files[i]
      BY Zenon, <1>2, <2>3
    <3>3. x = startLBA[1] + ClusterSector(super, files'[l].first)
      BY Zenon, <2>3, <3>1
    <3> QED BY Zenon, <2>1, <2>3, <3>1, <3>2, <3>3
  <2> QED BY Zenon, <2>2, <2>3
<1>8. Count(placed', n) = l
  BY Zenon, <1>4, <1>5, <1>7
<1>9. ASSUME NEW k \in DOMAIN placed', placed'[k] # 0
      PROVE  /\ Count(placed', k) \in 1 .. l
             /\ placed'[k] = startLBA[1] + ClusterSector(super, files'[Count(placed', k)].first)
             /\ \A j \in DOMAIN placed' : k < j /\ placed'[j] # 0 => Count(placed', k) < Count(placed', j)
  <2>1. CASE k = n
    <3>1. x # 0 /\ Count(placed', k) = l /\ l \in 1 .. l
      BY <1>4, <1>7, <1>8, <1>9, <2>1
    <3>2. \A j \in DOMAIN placed' : ~(k < j)
      BY <1>1, <1>4, <2>1
    <3> QED BY Zenon, <1>4, <1>7, <2>1, <3>1, <3>2
  <2>2. CASE k # n
    <3>1. k \in DOMAIN placed /\ placed'[k] = placed[k] /\ k \in 1 .. n - 1
      BY Zenon, <1>4, <2>2
    <3>2. PICK c \in 1 .. m :
            /\ c = Count(placed, k) /\ c = Count(placed', k)
            /\ placed[k] = startLBA[1] + ClusterSector(super, files[c].first)
      <4>1. k \in 0 .. n - 1
        BY <1>1, <3>1
      <4>2. Count(placed', k) = Count(placed, k)
        BY Zenon, <1>4, <4>1
      <4> QED BY Zenon, <1>6, <1>9, <3>1, <4>2
    <3>3. files'[c] = files[c] /\ c \in 1 .. l /\ c <= m
      BY <1>7, <3>2
    <3>4. ASSUME NEW j \in DOMAIN placed', k < j, placed'[j] # 0
          PROVE  c < Count(placed', j)
      <4>1. CASE j = n
        BY <1>4, <1>7, <1>8, <3>3, <3>4, <4>1
      <4>2. CASE j # n
        <5>1. j \in DOMAIN placed /\ placed'[j] = placed[j] /\ j \in 1 .. n - 1
          BY Zenon, <1>4, <4>2
        <5>2. j \in 0 .. n - 1
          BY <1>1, <5>1
        <5>3. Count(placed', j) = Count(placed, j)
          BY Zenon, <1>4, <5>2
        <5> QED BY Zenon, <1>6, <1>9, <3>1, <3>2, <3>4, <5>1, <5>3
      <4> QED BY Zenon, <4>1, <4>2
    <3> QED BY Zenon, <3>1, <3>2, <3>3, <3>4
  <2> QED BY Zenon, <2>1, <2>2
<1>10. Stored(Len(placed))' = l
  BY Zenon, <1>4, <1>8 DEF Stored, Count
<1> QED BY Zenon, <1>3, <1>7, <1>9, <1>10 DEF PlacedInv

(* What a copy leaves alone.                                               *)
LEMMA CopyKeepsRest ==
  ASSUME InstInv, step = "copyin", step' \in {"copyin", "mbr"}, layout # NoLayout,
         UNCHANGED <<layout, gptVars>>, VolumeInv', PlacedInv',
         placed' \in Seq(Nat), files' \in Seq(FileRecord), nextFree' \in Nat
  PROVE  InstInv'
<1>1. UNCHANGED <<gpc, req, startLBA, start>>
  BY Zenon DEF gptVars
<1>2. IInv'
  BY Zenon, StutterKeeps DEF InstInv
<1>3. FirstInv' /\ RequestInv'
  BY <1>1 DEF InstInv, FirstInv, RequestInv, Active, nSectorForArray
<1>4. InstallerTypeOK'
  BY Zenon DEF InstallerTypeOK, Steps
<1>5. PhaseOrder' /\ BootInv'
  BY Zenon, <1>1 DEF InstInv, PhaseOrder, BootInv
<1> QED BY Zenon, <1>2, <1>3, <1>4, <1>5 DEF InstInv

(* FAT32Copyin.                                                            *)
LEMMA CopyinKeeps ==
  ASSUME Counting, InstInv, NEW k \in 1 .. NFiles, NEW size \in FileSizes[k], copyin(k, size)
  PROVE  InstInv'
<1>0. PICK cut \in Nat : cut = size % U32
  BY CutSize
<1>1. /\ VolumeInv' /\ files' \in Seq(FileRecord) /\ nextFree' \in Nat /\ super' = super
      /\ UNCHANGED <<layout, gptVars>>
      /\ files' = Append(files, [first |-> nextFree, size |-> cut])
  BY Zenon, <1>0, StoreKeeps
<1>2. PICK x : x = startLBA[1] + ClusterSector(super, nextFree) /\ placed' = Append(placed, x)
  BY Zenon DEF copyin
<1>3. step = "copyin" /\ step' \in {"copyin", "mbr"} /\ layout # NoLayout
  BY Zenon DEF copyin, Store, AfterCopy
<1>4. startLBA' = startLBA
  BY Zenon, <1>1 DEF gptVars
<1>5. files \in Seq(FileRecord) /\ placed \in Seq(Nat) /\ nextFree \in Nat
  BY Zenon DEF InstInv, InstallerTypeOK
<1>6. x \in Nat /\ x # 0
  <2>1. startLBA[1] \in Nat
    <3>1. startLBA \in Seq(Nat) /\ Len(startLBA) = 2
      BY Zenon, <1>3 DEF InstInv, IInv, GptTypeOK, PhaseOrder
    <3>2. 1 \in 1 .. Len(startLBA)
      BY <3>1
    <3> QED BY Zenon, <3>1, <3>2, ElementIsNat
  <2>2. nextFree >= 3
    BY <1>3 DEF InstInv, VolumeInv
  <2>3. /\ super.sectorPerCluster = 8 /\ super.numReserved = 8
        /\ super.numFAT = 2 * super.fatSize /\ super.fatSize \in Nat
    BY <1>3, TheVolume
  <2>4. x = startLBA[1] + ((nextFree - 2) * 8 + 8 + 2 * super.fatSize)
    BY Zenon, <1>2, <2>3 DEF ClusterSector
  <2>5. \A a, c, f \in Nat : c >= 3 => a + ((c - 2) * 8 + 8 + 2 * f) \in Nat \ {0}
    OBVIOUS
  <2>6. x \in Nat \ {0}
    BY Zenon, <1>5, <2>1, <2>2, <2>3, <2>4, <2>5
  <2> QED BY Zenon, <2>6
<1>7. /\ Len(files') = Len(files) + 1
      /\ \A i \in DOMAIN files : files'[i] = files[i]
      /\ files'[Len(files) + 1].first = nextFree
  <2> DEFINE f == [first |-> nextFree, size |-> cut]
  <2>1. f.first = nextFree
    BY Zenon
  <2> HIDE DEF f
  <2>2. files' = Append(files, f)
    BY Zenon, <1>1 DEF f
  <2> QED BY <1>5, <2>1, <2>2
<1>8. PlacedInv'
  BY Zenon, <1>1, <1>2, <1>4, <1>5, <1>6, <1>7, ReportKeeps
<1>9. placed' \in Seq(Nat)
  BY <1>2, <1>5, <1>6
<1> QED BY Zenon, <1>1, <1>3, <1>8, <1>9, CopyKeepsRest

(* A copy that fails.                                                      *)
LEMMA CopyinFailsKeeps ==
  ASSUME Counting, InstInv, CopyinFails
  PROVE  InstInv'
<1>1. step = "copyin" /\ layout # NoLayout /\ UNCHANGED <<gptVars, volumeVars>>
  BY Zenon DEF CopyinFails
<1>2. UNCHANGED <<gpc, req, startLBA, layout, nextFree, files>>
  BY Zenon, <1>1 DEF gptVars, volumeVars
<1>3. CASE program = "installer"
  <2>1. step' = "failed" /\ UNCHANGED placed
    BY Zenon, <1>3 DEF CopyinFails
  <2>2. RequestInv' /\ PhaseOrder' /\ BootInv'
    BY <1>1, <1>2, <2>1 DEF InstInv, RequestInv, PhaseOrder, BootInv
  <2> QED BY Zenon, <1>1, <2>1, <2>2, DiskKept DEF Steps
<1>4. CASE program # "installer"
  <2>1. placed' = Append(placed, 0) /\ step' \in {"copyin", "mbr"}
    BY Zenon, <1>4 DEF CopyinFails, AfterCopy
  <2>2. files \in Seq(FileRecord) /\ placed \in Seq(Nat) /\ nextFree \in Nat
    BY Zenon DEF InstInv, InstallerTypeOK
  <2>3. super' = super /\ FatConfig' = FatConfig
    BY Zenon, <1>2 DEF super, FatConfig
  <2>4. VolumeInv'
    <3>1. \A z : Clusters(z)' = Clusters(z)
      BY Zenon, <2>3 DEF Clusters
    <3> QED BY <1>1, <1>2, <2>3, <3>1 DEF InstInv, VolumeInv, EndOf
  <2>5. PlacedInv'
    BY Zenon, <1>2, <2>1, <2>2, <2>3, ReportKeeps
  <2>6. placed' \in Seq(Nat)
    BY <2>1, <2>2
  <2> QED BY Zenon, <1>1, <1>2, <2>1, <2>2, <2>4, <2>5, <2>6, CopyKeepsRest
<1> QED BY Zenon, <1>3, <1>4

(* The boot code changes nothing.                                          *)
LEMMA BootKeeps ==
  ASSUME InstInv, BootLoader \/ BootKernel \/ UNCHANGED installerVars
  PROVE  InstInv'
<1>1. UNCHANGED <<placed, bootCode, gptVars, volumeVars>>
  BY Zenon DEF BootLoader, BootKernel, installerVars
<1>2. UNCHANGED <<gpc, req, startLBA, layout, nextFree, files, placed, bootCode>>
  BY Zenon, <1>1 DEF gptVars, volumeVars
<1>3. LoaderThere' = LoaderThere /\ Holds(KernelSector, Kernel, 0)' = Holds(KernelSector, Kernel, 0)
  BY <1>2 DEF LoaderThere, Holds, Copied, SizeOf, Stored, KernelSector, Kernel, LoaderSector, Loader,
     LoaderSecond, SECT
<1>4. step \in Steps
  BY Zenon DEF InstInv, InstallerTypeOK
<1>5. CASE BootLoader
  <2>1. step = "installed" /\ step' = IF bootCode /\ LoaderThere THEN "loader" ELSE "lost"
    BY Zenon, <1>5 DEF BootLoader
  <2>2. RequestInv' /\ PhaseOrder' /\ BootInv'
    BY SMTT(40), <1>2, <1>3, <2>1 DEF InstInv, RequestInv, PhaseOrder, BootInv
  <2> QED BY Zenon, <1>1, <2>1, <2>2, DiskKept DEF Steps
<1>6. CASE BootKernel
  <2>1. step = "loader" /\ step' = IF Holds(KernelSector, Kernel, 0) THEN "kernel" ELSE "die"
    BY Zenon, <1>6 DEF BootKernel
  <2>2. RequestInv' /\ PhaseOrder' /\ BootInv'
    BY <1>2, <1>3, <2>1 DEF InstInv, RequestInv, PhaseOrder, BootInv
  <2> QED BY Zenon, <1>1, <2>1, <2>2, DiskKept DEF Steps
<1>7. CASE UNCHANGED installerVars
  <2>1. step' = step
    BY Zenon, <1>7 DEF installerVars
  <2>2. RequestInv' /\ PhaseOrder' /\ BootInv'
    BY <1>2, <1>3, <2>1 DEF InstInv, RequestInv, PhaseOrder, BootInv
  <2> QED BY Zenon, <1>1, <1>4, <2>1, <2>2, DiskKept
<1> QED BY Zenon, <1>5, <1>6, <1>7

-----------------------------------------------------------------------------
(* A file that was copied: its clusters lie behind the root directory and  *)
(* before the next free one.                                               *)
LEMMA FileFacts ==
  ASSUME InstInv, NEW k \in DOMAIN placed, placed[k] # 0
  PROVE  /\ layout # NoLayout /\ k \in Nat /\ placed[k] \in Nat
         /\ Stored(k) \in DOMAIN files /\ SizeOf(k) \in Nat
         /\ files[Stored(k)].first \in Nat /\ files[Stored(k)].first >= 3
         /\ EndOf(Stored(k)) = files[Stored(k)].first + Clusters(SizeOf(k))
         /\ EndOf(Stored(k)) \in Nat /\ EndOf(Stored(k)) <= super.maxCluster
         /\ placed[k] = startLBA[1] + ((files[Stored(k)].first - 2) * 8 + 8 + super.numFAT)
         /\ startLBA[1] \in Nat /\ Len(startLBA) = 2 /\ gpc = "done"
<1>1. placed # <<>> /\ layout # NoLayout
  <2>1. placed # <<>>
    OBVIOUS
  <2> QED BY <2>1 DEF InstInv, VolumeInv
<1>2. k \in Nat /\ placed[k] \in Nat
  BY DEF InstInv, InstallerTypeOK
<1>3. gpc = "done" /\ Len(startLBA) = 2
  BY Zenon, <1>1 DEF InstInv, PhaseOrder
<1>4. startLBA[1] \in Nat
  <2>1. startLBA \in Seq(Nat)
    BY Zenon DEF InstInv, IInv, GptTypeOK
  <2> QED BY <1>3, <2>1
<1>5. /\ Stored(k) \in DOMAIN files
      /\ placed[k] = startLBA[1] + ClusterSector(super, files[Stored(k)].first)
  BY Zenon DEF InstInv, PlacedInv
<1>6. files[Stored(k)] \in FileRecord
  <2>1. files \in Seq(FileRecord)
    BY Zenon DEF InstInv, InstallerTypeOK
  <2> QED BY <1>5, <2>1
<1>7. files[Stored(k)].first \in Nat /\ SizeOf(k) \in Nat
  BY Zenon, <1>6 DEF FileRecord, SizeOf
<1>8. Clusters(SizeOf(k)) \in Nat \ {0}
  BY <1>1, <1>7, ClustersPositive
<1>9. EndOf(Stored(k)) = files[Stored(k)].first + Clusters(SizeOf(k)) /\ EndOf(Stored(k)) \in Nat
  BY <1>7, <1>8 DEF EndOf, SizeOf
<1>10. files[Stored(k)].first >= 3 /\ EndOf(Stored(k)) <= nextFree /\ nextFree <= super.maxCluster
  BY <1>1, <1>5, <1>7 DEF InstInv, VolumeInv
<1>11. EndOf(Stored(k)) <= super.maxCluster
  <2>1. nextFree \in Nat /\ super.maxCluster \in Nat
    BY <1>1, TheVolume DEF Sound, InstInv, InstallerTypeOK
  <2> QED BY <1>9, <1>10, <2>1
<1>12. super.sectorPerCluster = 8 /\ super.numReserved = 8
  BY <1>1, TheVolume
<1>13. placed[k] = startLBA[1] + ((files[Stored(k)].first - 2) * 8 + 8 + super.numFAT)
  BY Zenon, <1>5, <1>12 DEF ClusterSector
<1> QED BY Zenon, <1>1, <1>2, <1>3, <1>4, <1>5, <1>7, <1>9, <1>10, <1>11, <1>13

LastSector(k) == placed[k] + Clusters(SizeOf(k)) * super.sectorPerCluster - 1

(* A file lies in the partition and before the next.                       *)
LEMMA PlacedInPartition == ASSUME InstInv PROVE FilesInPartition
<1> SUFFICES ASSUME NEW k \in DOMAIN placed, placed[k] # 0
             PROVE  /\ placed[k] >= startLBA[1] + super.numReserved + super.numFAT + super.sectorPerCluster
                    /\ LastSector(k) < startLBA[1] + req.parts[1]
                    /\ LastSector(k) < startLBA[2]
                    /\ \A j \in k + 1 .. Len(placed) : placed[j] # 0 => LastSector(k) < placed[j]
  BY DEF FilesInPartition, LastSector
<1>1. PICK f \in Nat, e \in Nat, s \in Nat, p \in Nat, z \in Nat :
        /\ f = files[Stored(k)].first /\ e = EndOf(Stored(k)) /\ s = startLBA[1] /\ p = placed[k]
        /\ z = SizeOf(k) /\ f >= 3 /\ e = f + Clusters(z) /\ e <= super.maxCluster
        /\ p = s + ((f - 2) * 8 + 8 + super.numFAT)
  <2>1. /\ files[Stored(k)].first \in Nat /\ EndOf(Stored(k)) \in Nat /\ startLBA[1] \in Nat
        /\ placed[k] \in Nat /\ SizeOf(k) \in Nat /\ files[Stored(k)].first >= 3
        /\ EndOf(Stored(k)) = files[Stored(k)].first + Clusters(SizeOf(k))
        /\ EndOf(Stored(k)) <= super.maxCluster
        /\ placed[k] = startLBA[1] + ((files[Stored(k)].first - 2) * 8 + 8 + super.numFAT)
    BY Zenon, FileFacts
  <2> QED BY Zenon, <2>1
<1>2. layout # NoLayout /\ k \in Nat /\ Stored(k) \in DOMAIN files /\ Len(startLBA) = 2 /\ gpc = "done"
  BY FileFacts
<1>3. PICK t \in Nat, M \in Nat, n \in Nat, D \in Nat :
        /\ t = super.numFAT /\ M = super.maxCluster /\ n = super.numSector /\ D = super.numData
        /\ M * 8 <= D /\ D = n - 8 - t /\ super.numReserved = 8 /\ super.sectorPerCluster = 8
        /\ n = req.parts[1]
  <2>1. Sound(super) /\ super.sectorPerCluster = 8 /\ super.numSector = req.parts[1]
    BY <1>2, TheVolume
  <2>2. super.numFAT \in Nat
    BY <2>1 DEF Sound
  <2> QED BY <2>1, <2>2 DEF Sound
<1>4. PICK c \in Nat \ {0}, w \in Nat : c = Clusters(z) /\ w = c * 8 - 1 /\ LastSector(k) = p + w
  <2>1. PICK c \in Nat \ {0} : c = Clusters(z)
    BY <1>1, <1>2, ClustersPositive
  <2>2. PICK w \in Nat : w = c * 8 - 1
    OBVIOUS
  <2>3. LastSector(k) = p + c * 8 - 1
    BY <1>1, <1>3, <2>1 DEF LastSector
  <2> QED BY <2>1, <2>2, <2>3
<1>6. p + w < s + ((e - 2) * 8 + 8 + t)
  BY <1>1, <1>3, <1>4
<1>7. p + w < s + n
  BY <1>1, <1>3, <1>4, <1>6
<1>8. startLBA[2] = s + n
  <2>1. DOMAIN startLBA = 1 .. 2
    <3>1. startLBA \in Seq(Nat)
      BY DEF InstInv, IInv, GptTypeOK
    <3> QED BY <1>2, <3>1
  <2>2. startLBA[1] + req.parts[1] = IF 1 + 1 \in DOMAIN startLBA THEN startLBA[1 + 1] ELSE start
    BY <1>2, <2>1 DEF InstInv, IInv, PartitionsFit
  <2> QED BY <1>1, <1>3, <2>1, <2>2
<1>9. p >= s + 8 + t + 8
  BY <1>1, <1>3
<1>10. ASSUME NEW j \in k + 1 .. Len(placed), placed[j] # 0
       PROVE  p + w < placed[j]
  <2>1. j \in DOMAIN placed /\ k < j
    <3>1. placed \in Seq(Nat)
      BY DEF InstInv, InstallerTypeOK
    <3> QED BY <1>2, <1>10, <3>1
  <2>2. PICK g \in Nat : g = files[Stored(j)].first /\ placed[j] = s + ((g - 2) * 8 + 8 + t)
    BY <1>1, <1>3, <1>10, <2>1, FileFacts
  <2>3. Stored(j) \in DOMAIN files /\ Stored(k) < Stored(j)
    BY <1>10, <2>1, FileFacts DEF InstInv, PlacedInv
  <2>4. e <= g
    <3>1. EndOf(Stored(k)) <= files[Stored(j)].first
      BY <1>2, <2>3 DEF InstInv, VolumeInv
    <3> QED BY <1>1, <2>2, <3>1
  <2>5. s + ((e - 2) * 8 + 8 + t) <= s + ((g - 2) * 8 + 8 + t)
    BY <2>4
  <2>6. p + w < s + ((g - 2) * 8 + 8 + t)
    BY <1>6, <2>5
  <2> QED BY <2>2, <2>6
<1> QED BY <1>1, <1>3, <1>4, <1>7, <1>8, <1>9, <1>10

(* The first file copied begins in cluster 3, and if it fits one cluster   *)
(* the second in cluster 4.                                                *)
LEMMA FirstFiles ==
  ASSUME Counting, InstInv, Copied(Loader)
  PROVE  /\ layout # NoLayout /\ SizeOf(Loader) \in Nat
         /\ placed[1] = 3 + (16 + super.numFAT)
         /\ Copied(Kernel) /\ SizeOf(Loader) <= super.bytesPerCluster =>
              placed[2] = 3 + (24 + super.numFAT) /\ SizeOf(Kernel) \in Nat
<1>1. 1 \in DOMAIN placed /\ placed[1] # 0
  BY Zenon DEF Copied, Loader
<1>3. Stored(1) = 1
  <2>1. Stored(0 + 1) = Stored(0) + 1
    BY <1>1, StoredNext
  <2> QED BY <2>1, StoredNone
<1>4. /\ layout # NoLayout /\ SizeOf(1) \in Nat /\ 1 \in DOMAIN files
      /\ placed[1] = startLBA[1] + ((files[1].first - 2) * 8 + 8 + super.numFAT)
      /\ Len(startLBA) = 2 /\ gpc = "done" /\ EndOf(1) = files[1].first + Clusters(SizeOf(1))
  BY Zenon, <1>1, <1>3, FileFacts
<1>5. files[1].first = 3
  BY <1>4 DEF InstInv, VolumeInv
<1>6. startLBA[1] = 3
  <2>1. startLBA # <<>>
    <3>1. startLBA = <<>> => Len(startLBA) = 0
      OBVIOUS
    <3> QED BY <1>4, <3>1
  <2>2. startLBA[1] = 2 + nSectorForArray(req)
    BY Zenon, <1>4, <2>1 DEF InstInv, FirstInv, Active
  <2>3. Len(req.parts) = 2
    BY Zenon, <1>4 DEF InstInv, RequestInv, PhaseOrder
  <2>4. PICK E \in Nat : E = EntriesPerSector /\ E >= 2
    BY Zenon, InstallerAssumption, GptAssumption
  <2>5. (E - 1 + 2) \div E = 1
    BY <2>4
  <2> QED BY <2>2, <2>3, <2>4, <2>5 DEF nSectorForArray
<1>7. super.numFAT \in Nat /\ super.bytesPerCluster = 4096
  BY <1>4, TheVolume
<1>8. placed[1] = 3 + (16 + super.numFAT)
  BY <1>4, <1>5, <1>6, <1>7
<1>9. ASSUME Copied(Kernel), SizeOf(Loader) <= super.bytesPerCluster
      PROVE  placed[2] = 3 + (24 + super.numFAT) /\ SizeOf(Kernel) \in Nat
  <2>1. 2 \in DOMAIN placed /\ placed[2] # 0
    BY Zenon, <1>9 DEF Copied, Kernel
  <2>2. Stored(2) = 2
    <3>1. Stored(1 + 1) = Stored(1) + 1
      BY <2>1, StoredNext
    <3> QED BY <1>3, <3>1
  <2>3. /\ SizeOf(2) \in Nat /\ 2 \in DOMAIN files
        /\ placed[2] = startLBA[1] + ((files[2].first - 2) * 8 + 8 + super.numFAT)
    BY Zenon, <2>1, <2>2, FileFacts
  <2>4. Clusters(SizeOf(1)) = 1
    <3>1. PICK z \in Nat : z = SizeOf(1) /\ z <= 4096
      BY <1>4, <1>7, <1>9 DEF Loader
    <3>2. Clusters(z) = 1
      BY <1>4, <3>1, ClustersPositive
    <3> QED BY <3>1, <3>2
  <2>5. files[2].first = EndOf(1)
    <3>1. EndOf(1) = IF 1 + 1 \in DOMAIN files THEN files[1 + 1].first ELSE nextFree
      BY <1>4 DEF InstInv, VolumeInv
    <3> QED BY <2>3, <3>1
  <2>6. files[2].first = 4
    BY <1>4, <1>5, <2>4, <2>5
  <2> QED BY <1>6, <1>7, <2>3, <2>6 DEF Kernel
<1> QED BY Zenon, <1>4, <1>8, <1>9 DEF Loader

(* What the loader looks for is there.                                     *)
LEMMA SectorsMatch == ASSUME Counting, InstInv PROVE BootSectorsMatch
<1> SUFFICES ASSUME step \in {"lost", "die"}, bootCode, Copied(Loader), Copied(Kernel),
                    layout.fatSize32 = 256, SizeOf(Loader) \in 1 .. super.bytesPerCluster,
                    SizeOf(Kernel) # 0
             PROVE  FALSE
  BY Zenon DEF BootSectorsMatch
<1>0. SizeOf(Loader) <= super.bytesPerCluster /\ SizeOf(Loader) \in Nat \ {0}
  <2>1. PICK b \in Nat : b = super.bytesPerCluster
    BY FirstFiles, TheVolume
  <2>2. ASSUME NEW z \in 1 .. b PROVE z <= b /\ z \in Nat \ {0}
    OBVIOUS
  <2>3. SizeOf(Loader) \in 1 .. b
    BY Zenon, <2>1
  <2> QED BY Zenon, <2>1, <2>2, <2>3
<1>1. /\ layout # NoLayout /\ SizeOf(Kernel) \in Nat
      /\ placed[1] = 3 + (16 + super.numFAT) /\ placed[2] = 3 + (24 + super.numFAT)
  BY Zenon, <1>0, FirstFiles
<1>2. super.numFAT = 512
  BY <1>1, TheVolume
<1>3. placed[1] = 531 /\ placed[2] = 539
  BY <1>1, <1>2
<1>4. Holds(LoaderSector, Loader, 0)
  BY <1>0, <1>3 DEF Holds, LoaderSector, Loader, SECT
<1>5. SizeOf(Loader) > SECT => Holds(LoaderSecond, Loader, 1)
  BY <1>0, <1>3 DEF Holds, LoaderSecond, Loader, SECT
<1>6. Holds(KernelSector, Kernel, 0)
  BY <1>1, <1>3 DEF Holds, KernelSector, Kernel, SECT
<1>7. LoaderThere
  BY Zenon, <1>4, <1>5 DEF LoaderThere
<1> QED BY Zenon, <1>6, <1>7 DEF InstInv, BootInv

-----------------------------------------------------------------------------
(* A copy of an empty file found no cluster: the files copied before are   *)
(* where they were, and behind their entries is one more.                  *)
AbortInv ==
  /\ step = "crashed" /\ FilesInPartition
  /\ layout # NoLayout /\ nextFree = super.maxCluster
  /\ files # <<>> /\ files[Len(files)] = [first |-> nextFree, size |-> 0]

LEMMA AbortKeepsFiles ==
  ASSUME InstInv, NEW k, NEW size, CopyinAborts(k, size)
  PROVE  AbortInv'
<1> DEFINE f == [first |-> nextFree, size |-> 0]
<1>1. /\ layout # NoLayout /\ nextFree = super.maxCluster /\ files' = Append(files, f)
      /\ UNCHANGED <<layout, nextFree, placed, gptVars>> /\ step' = "crashed"
  BY Zenon DEF CopyinAborts, StoreAborts
<1>2. super' = super /\ UNCHANGED <<startLBA, req>>
  BY Zenon, <1>1 DEF super, gptVars
<1>3. files \in Seq(FileRecord) /\ f \in FileRecord
  BY Zenon DEF InstInv, InstallerTypeOK, FileRecord
<1> HIDE DEF f
<1>4. /\ files' # <<>> /\ files'[Len(files')] = f
      /\ \A i \in DOMAIN files : files'[i] = files[i]
  BY <1>1, <1>3
<1>5. \A j : Stored(j)' = Stored(j)
  BY Zenon, <1>1 DEF Stored
<1>6. ASSUME NEW j \in DOMAIN placed, placed[j] # 0
      PROVE  SizeOf(j)' = SizeOf(j)
  <2>1. Stored(j) \in DOMAIN files
    BY Zenon, <1>6 DEF InstInv, PlacedInv
  <2> QED BY Zenon, <1>4, <1>5, <2>1 DEF SizeOf
<1>7. \A z : Clusters(z)' = Clusters(z)
  BY Zenon, <1>2 DEF Clusters
<1>8. FilesInPartition
  BY Zenon, PlacedInPartition
<1>9. FilesInPartition'
  BY Zenon, <1>1, <1>2, <1>6, <1>7, <1>8 DEF FilesInPartition
<1> QED BY Zenon, <1>1, <1>2, <1>4, <1>9 DEF AbortInv, f

(* Nothing follows a crash.                                                *)
LEMMA CrashIsLast == ASSUME AbortInv, [Next]_installerVars PROVE AbortInv'
<1>1. step = "crashed"
  BY Zenon DEF AbortInv
<1>2. ~Next
  <2>1. ~CannotOpen /\ ~Partition /\ ~Partitioned
    BY Zenon, <1>1 DEF CannotOpen, Partition, Partitioned
  <2>7. ~mkgpt
    BY <1>1, SMT DEF mkgpt
  <2>2. ~FormatBoot
    BY Zenon, <1>1 DEF FormatBoot
  <2>3. \A size, mib : ~mkpart(size, mib)
    BY ZenonT(40), <1>1 DEF mkpart
  <2>4. \A k, size : ~copyin(k, size) /\ ~CopyinAborts(k, size)
    BY Zenon, <1>1 DEF copyin, CopyinAborts
  <2>5. ~CopyinFails /\ ~CopyinCrashes
    BY Zenon, <1>1 DEF CopyinFails, CopyinCrashes
  <2>6. ~WriteMbr /\ ~BootLoader /\ ~BootKernel
    BY Zenon, <1>1 DEF WriteMbr, BootLoader, BootKernel
  <2> QED BY Zenon, <2>1, <2>2, <2>3, <2>4, <2>5, <2>6, <2>7 DEF Next
<1>3. UNCHANGED <<step, placed, layout, nextFree, files, startLBA, req>>
  BY Zenon, <1>2 DEF installerVars, gptVars, volumeVars
<1>4. super' = super
  BY Zenon, <1>3 DEF super
<1>5. /\ \A z : Clusters(z)' = Clusters(z)
      /\ \A j : SizeOf(j)' = SizeOf(j)
  BY Zenon, <1>3, <1>4 DEF Clusters, SizeOf, Stored
<1>6. FilesInPartition'
  BY Zenon, <1>3, <1>4, <1>5 DEF AbortInv, FilesInPartition
<1> QED BY Zenon, <1>3, <1>4, <1>6 DEF AbortInv

(* Every step of the installation and the boot.                            *)
LEMMA InstNextInv ==
  ASSUME Counting, InstInv, [Next]_installerVars
  PROVE  InstInv' \/ AbortInv'
<1>1. CASE \E size \in DiskSizes, mib \in BootMiBs : mkpart(size, mib)
  BY Zenon, <1>1, MkpartKeeps
<1>2. CASE \E k \in 1 .. NFiles : \E size \in FileSizes[k] : copyin(k, size) \/ CopyinAborts(k, size)
  BY Zenon, <1>2, CopyinKeeps, AbortKeepsFiles
<1>3. CASE mkgpt \/ Partition \/ FormatBoot \/ CopyinFails
  BY Zenon, <1>3, MkgptKeeps, PartitionKeeps, FormatKeeps, CopyinFailsKeeps
<1>4. CASE CannotOpen \/ Partitioned \/ CopyinCrashes \/ WriteMbr
  BY Zenon, <1>4, LookKeeps
<1>5. CASE BootLoader \/ BootKernel \/ UNCHANGED installerVars
  BY Zenon, <1>5, BootKeeps
<1> QED BY Zenon, <1>1, <1>2, <1>3, <1>4, <1>5 DEF Next

-----------------------------------------------------------------------------
INSTANCE FiniteSetTheorems

LEMMA CountingHolds == Counting
<1> SUFFICES ASSUME NEW s, NEW k \in Nat
             PROVE  Count(s, k + 1) = IF s[k + 1] # 0 THEN Count(s, k) + 1 ELSE Count(s, k)
  BY Zenon, FS_EmptySet DEF Counting
<1> DEFINE S == {j \in 1 .. k : s[j] # 0}
           T == {j \in 1 .. k + 1 : s[j] # 0}
<1>1. IsFiniteSet(S)
  <2>1. IsFiniteSet(1 .. k)
    BY FS_Interval
  <2> QED BY Zenon, <2>1, FS_Subset
<1>2. CASE s[k + 1] # 0
  <2>1. T = S \cup {k + 1} /\ k + 1 \notin S
    BY <1>2
  <2>2. Cardinality(S \cup {k + 1}) = Cardinality(S) + 1
    BY Zenon, <1>1, <2>1, FS_AddElement
  <2> QED BY Zenon, <1>2, <2>1, <2>2 DEF Count
<1>3. CASE s[k + 1] = 0
  <2>1. T = S
    BY <1>3
  <2> QED BY Zenon, <1>3, <2>1 DEF Count
<1> QED BY Zenon, <1>2, <1>3

(* The strengthened invariant holds of every installation, and of the boot *)
(* behind it, up to a copy that crashes.                                   *)
THEOREM InstallerInductive == Spec => [](InstInv \/ AbortInv)
<1>1. Init => InstInv \/ AbortInv
  BY Zenon, CountingHolds, InstInitInv
<1>2. (InstInv \/ AbortInv) /\ [Next]_installerVars => (InstInv \/ AbortInv)'
  BY Zenon, CountingHolds, InstNextInv, CrashIsLast
<1> QED BY <1>1, <1>2, PTL DEF Spec

(* The clusters of the files lie in the boot partition, behind the tables  *)
(* and the root directory, one file's behind the other's, on every disk.   *)
THEOREM FilesPlaced == Spec => []FilesInPartition
<1>1. InstInv \/ AbortInv => FilesInPartition
  BY Zenon, PlacedInPartition DEF AbortInv
<1> QED BY <1>1, InstallerInductive, PTL

(* With a boot partition of a MiB or more createFAT32 never crashes, and   *)
(* FAT32Copyin only with an empty file and no cluster left, whatever the   *)
(* sizes of the files.                                                     *)
THEOREM CrashesExplained == Spec => []CrashesOnlyWhenFull
<1>1. InstInv \/ AbortInv => CrashesOnlyWhenFull
  BY Zenon DEF InstInv, BootInv, AbortInv, CrashesOnlyWhenFull
<1> QED BY <1>1, InstallerInductive, PTL

(* The sector numbers in mbr.c, bzimage.S and bzimage.c are right for      *)
(* every volume with a FAT of 256 sectors and a loader of one cluster.     *)
THEOREM BootFindsFiles == Spec => []BootSectorsMatch
<1>1. InstInv \/ AbortInv => BootSectorsMatch
  BY Zenon, CountingHolds, SectorsMatch DEF AbortInv, BootSectorsMatch
<1> QED BY <1>1, InstallerInductive, PTL
=============================================================================
