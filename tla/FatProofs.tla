------------------------------ MODULE FatProofs -----------------------------
(***************************************************************************)
(* Proofs about the FAT32 volume of Fat, for every volume of up to 4 GiB   *)
(* and every sequence of files.                                            *)
(***************************************************************************)
EXTENDS Fat, FatLayoutProofs

(* The entries of a sector of the table, and of a table.                   *)
PerSector == sb.bytesPerSector \div ENT
TableLen == sb.fatSize * PerSector

(* The clusters of a directory entry: an empty file has one too.           *)
Span(e) == LET n == CDIV(e.size, sb.bytesPerCluster) IN IF n = 0 THEN 1 ELSE n
End(e) == e.first + Span(e)

Entries == [file : Nat, first : Nat, size : 0 .. U32 - 1]
Copies == [size : Nat, ret : Nat]

(* The shape of the sequences, and that the volume is as createFAT32 left  *)
(* it.                                                                     *)
Formatted ==
  /\ root \in Seq(Entries) /\ copied \in Seq(Copies)
  /\ phase = "ok" => \E cfg \in Configs : ConfigOK(cfg) /\ EnoughClusters(cfg) /\ bpb = Bpb(cfg)

(* The tables are alike, of full length, and free from nextFree on.        *)
TableInv ==
  phase = "ok" =>
    /\ Mirrored
    /\ DOMAIN fat[0] = 0 .. TableLen - 1
    /\ \A c \in DOMAIN fat[0] : c >= info.nextFree => fat[0][c] = 0

(* nextFree is within the volume once there is a file, and freeCount is    *)
(* no less than what is left.                                              *)
CountInv ==
  phase = "ok" =>
    /\ info.nextFree >= 3
    /\ root # <<>> \/ sb.maxCluster >= 3 => info.nextFree <= sb.maxCluster
    /\ info.freeCount + info.nextFree >= TableLen

(* Files lie one behind the other, each chained, up to nextFree.           *)
FilesInv ==
  phase = "ok" =>
    /\ \A i \in DOMAIN root : root[i].first >= 3 /\ End(root[i]) <= info.nextFree
    /\ \A i, j \in DOMAIN root : i < j => End(root[i]) <= root[j].first
    /\ \A i \in DOMAIN root : \A c \in root[i].first .. End(root[i]) - 1 :
         fat[0][c] = IF c = End(root[i]) - 1 THEN EOC ELSE c + 1

FatInv ==
  /\ TypeOK /\ Formatted /\ TableInv /\ CountInv /\ FilesInv /\ ContentKept
  /\ AbortsOnlyWhenFull

-----------------------------------------------------------------------------
(* The arithmetic of a formatted volume.                                   *)
LEMMA SoundVolume ==
  ASSUME NEW cfg \in Configs, ConfigOK(cfg), EnoughClusters(cfg), bpb = Bpb(cfg)
  PROVE  Sound(sb) /\ sb.numSector = cfg.nSector
<1>1. cfg \in [nSector : 0 .. U32 - 1, bytesPerSector : Nat, clusterSize : Nat] /\ Addressable(cfg)
  BY Zenon, FatAssumption
<1>2. Sound(FAT32Super(Bpb(cfg)))
  BY Zenon, <1>1, SoundLayout
<1>3. FAT32Super(Bpb(cfg)).numSector = cfg.nSector
  BY Zenon DEF FAT32Super, Bpb
<1> QED BY Zenon, <1>2, <1>3 DEF sb

(* A formatted volume is sound.                                            *)
LEMMA SoundSb == ASSUME Formatted, phase = "ok" PROVE Sound(sb)
  BY Zenon, SoundVolume DEF Formatted

(* The fields of a directory entry.                                        *)
LEMMA EntryType ==
  ASSUME Formatted, NEW i \in DOMAIN root
  PROVE  /\ root[i] \in Entries
         /\ root[i].first \in Nat /\ root[i].size \in Nat /\ root[i].file \in Nat
<1>1. root \in Seq(Entries)
  BY Zenon DEF Formatted
<1>2. root[i] \in Entries
  BY <1>1
<1> QED BY <1>2, FatLayoutAssumption DEF Entries

(* The types of what is computed from it.                                  *)
LEMMA SoundTypes ==
  ASSUME Sound(sb)
  PROVE  /\ sb.bytesPerCluster \in Nat \ {0} /\ PerSector \in Nat /\ TableLen \in Nat
         /\ sb.maxCluster <= TableLen /\ sb.numFAT \in Nat
<1>1. /\ sb.sectorPerCluster \in Nat \ {0} /\ sb.bytesPerSector \in Nat \ {0} /\ sb.fatSize \in Nat
      /\ sb.bytesPerCluster = sb.sectorPerCluster * sb.bytesPerSector /\ sb.numFAT = 2 * sb.fatSize
      /\ sb.maxCluster <= sb.fatSize * (sb.bytesPerSector \div ENT)
  BY Zenon DEF Sound
<1>2. \A a, b \in Nat \ {0} : a * b \in Nat \ {0}
  OBVIOUS
<1>3. \A a, b \in Nat : a * b \in Nat
  OBVIOUS
<1>4. PerSector \in Nat
  BY Zenon, <1>1, FatLayoutAssumption, Quotient DEF PerSector
<1> QED BY <1>1, <1>2, <1>3, <1>4 DEF TableLen, PerSector

(* A file takes one cluster at least.                                      *)
LEMMA SpanType ==
  ASSUME Sound(sb), NEW e, e.size \in Nat
  PROVE  Span(e) \in Nat \ {0}
<1>1. CDIV(e.size, sb.bytesPerCluster) \in Nat
  BY Zenon, SoundTypes, RoundsUp
<1> QED BY <1>1 DEF Span

(* The sectors of a cluster lie behind those of the one before.            *)
LEMMA ClusterOrder ==
  ASSUME Sound(sb), NEW c \in Nat, NEW d \in Nat, 2 <= c, c <= d
  PROVE  /\ ClusterSector(sb, c) \in Nat
         /\ ClusterSector(sb, d) = ClusterSector(sb, c) + (d - c) * sb.sectorPerCluster
         /\ (d - c) * sb.sectorPerCluster \in Nat
<1>1. sb.sectorPerCluster \in Nat /\ sb.numFAT \in Nat /\ sb.numReserved = 8
  BY Zenon, SoundTypes DEF Sound
<1>2. PICK s \in Nat, f \in Nat : s = sb.sectorPerCluster /\ f = sb.numFAT
  BY Zenon, <1>1
<1>3. (d - 2) * s = (c - 2) * s + (d - c) * s /\ (c - 2) * s \in Nat /\ (d - c) * s \in Nat
  <2>1. PICK k \in Nat, m \in Nat : k = c - 2 /\ m = d - c
    OBVIOUS
  <2>2. (k + m) * s = k * s + m * s /\ k * s \in Nat /\ m * s \in Nat
    OBVIOUS
  <2>3. d - 2 = k + m
    BY <2>1
  <2> QED BY Zenon, <2>1, <2>2, <2>3
<1> QED BY <1>1, <1>2, <1>3 DEF ClusterSector

(* Clusters below maxCluster end within the volume.                        *)
LEMMA ClusterInVolume ==
  ASSUME Sound(sb), NEW c \in Nat, 3 <= c, c <= sb.maxCluster
  PROVE  /\ ClusterSector(sb, c) <= sb.numSector
         /\ ClusterSector(sb, c) >= sb.numReserved + sb.numFAT + sb.sectorPerCluster
<1>1. PICK s \in Nat, f \in Nat, M \in Nat, D \in Nat, N \in Nat :
        /\ s = sb.sectorPerCluster /\ f = sb.numFAT /\ M = sb.maxCluster /\ D = sb.numData
        /\ N = sb.numSector
  BY Zenon, SoundTypes DEF Sound
<1>2. M * s <= D /\ D = N - 8 - f /\ sb.numReserved = 8
  BY Zenon, <1>1 DEF Sound
<1>3. (c - 2) * s <= M * s /\ s <= (c - 2) * s /\ (c - 2) * s \in Nat /\ M * s \in Nat
  <2>1. c - 2 \in Nat /\ c - 2 <= M /\ 1 <= c - 2
    BY <1>1
  <2>2. (c - 2) * s <= M * s /\ 1 * s <= (c - 2) * s /\ (c - 2) * s \in Nat /\ M * s \in Nat
    BY Zenon, <2>1, TimesMonotonic
  <2> QED BY <2>2
<1>4. ClusterSector(sb, c) = (c - 2) * s + 8 + f
  BY Zenon, <1>1, <1>2 DEF ClusterSector
<1> QED BY <1>1, <1>2, <1>3, <1>4

-----------------------------------------------------------------------------
(* What an accepted file takes is left: maxFileSize may be cut to 32 bits, *)
(* which makes it smaller.                                                 *)
LEMMA Accepted ==
  ASSUME TypeOK, Sound(sb), info.nextFree >= 3, NEW size \in FileSizes, Accepts(size)
  PROVE  /\ fobjSize(size) \in 0 .. U32 - 1
         /\ allocCluster(size) \in Nat
         /\ info.nextFree \in Nat /\ info.freeCount \in Nat
         /\ info.nextFree + allocCluster(size) <= sb.maxCluster
         /\ Chained(size) \in Nat \ {0} /\ Chained(size) >= allocCluster(size)
         /\ LastCluster(size) \in Nat /\ LastCluster(size) + 1 = info.nextFree + Chained(size)
         /\ \A e : e.size = fobjSize(size) => Span(e) = Chained(size)
<1>1. info.nextFree \in Nat /\ info.freeCount \in Nat /\ sb.maxCluster \in Nat
      /\ info.nextFree <= sb.maxCluster
  <2>1. info \in Info
    BY Zenon DEF TypeOK
  <2>2. info.nextFree \in Nat /\ info.freeCount \in Nat
    BY <2>1, FatLayoutAssumption DEF Info
  <2> QED BY Zenon, <2>2 DEF Sound, Accepts
<1>2. fobjSize(size) \in 0 .. U32 - 1
  BY FatAssumption, FatLayoutAssumption DEF fobjSize
<1>3. PICK b \in Nat \ {0}, k \in Nat : b = sb.bytesPerCluster /\ k = sb.maxCluster - info.nextFree
  BY <1>1, SoundTypes
<1>4. b * k \in Nat /\ b * k = k * b
  OBVIOUS
<1>5. (b * k) % U32 <= b * k
  BY <1>4, FatLayoutAssumption
<1>6. fobjSize(size) <= (b * k) % U32
  BY Zenon, <1>3 DEF Accepts, maxFileSize
<1>7. fobjSize(size) <= k * b /\ fobjSize(size) \in Nat
  BY <1>2, <1>4, <1>5, <1>6, FatLayoutAssumption
<1>8. allocCluster(size) \in Nat /\ allocCluster(size) <= k
  <2>1. allocCluster(size) = CDIV(fobjSize(size), b)
    BY Zenon, <1>3 DEF allocCluster
  <2>2. CDIV(fobjSize(size), b) \in Nat
    BY Zenon, <1>7, RoundsUp
  <2>3. CDIV(fobjSize(size), b) <= k
    BY Zenon, <1>7, RoundsUpWithin
  <2> QED BY Zenon, <2>1, <2>2, <2>3
<1>9. Chained(size) \in Nat \ {0} /\ Chained(size) >= allocCluster(size)
  BY <1>8 DEF Chained
<1>10. LastCluster(size) \in Nat /\ LastCluster(size) + 1 = info.nextFree + Chained(size)
  BY <1>1, <1>9 DEF LastCluster
<1>11. \A e : e.size = fobjSize(size) => Span(e) = Chained(size)
  BY Zenon DEF Span, Chained, allocCluster
<1> QED BY <1>1, <1>2, <1>3, <1>8, <1>9, <1>10, <1>11

(* The clusters of the files before are not written to.                    *)
LEMMA DataKept ==
  ASSUME TypeOK, Formatted, FilesInv, CountInv, phase = "ok",
         NEW size \in FileSizes, Accepts(size), NEW got,
         NEW i \in DOMAIN root, NEW s \in Nat,
         s < ClusterSector(sb, root[i].first)
               + CDIV(root[i].size, sb.bytesPerCluster) * sb.sectorPerCluster
  PROVE  Filled(size, got)[s] = data[s]
<1> DEFINE e == root[i]
<1>1. Sound(sb) /\ info.nextFree >= 3
  BY Zenon, SoundSb DEF CountInv
<1>2. e.first \in Nat /\ e.size \in Nat /\ e.first >= 3 /\ End(e) <= info.nextFree
  BY Zenon, EntryType DEF FilesInv
<1>3. PICK n \in Nat : n = CDIV(e.size, sb.bytesPerCluster)
  BY Zenon, <1>1, <1>2, SoundTypes, RoundsUp
<1>4. Span(e) \in Nat /\ n <= Span(e)
  BY <1>3 DEF Span
<1>5. PICK nf \in Nat : nf = info.nextFree /\ nf <= sb.maxCluster /\ nf >= 3
  BY Zenon, <1>1, Accepted DEF Accepts
<1>6. e.first + n <= nf /\ n <= nf - e.first /\ nf - e.first \in Nat
  BY <1>2, <1>4, <1>5 DEF End
<1>7. PICK spc \in Nat : spc = sb.sectorPerCluster
  BY Zenon, <1>1 DEF Sound
<1>8. n * spc <= (nf - e.first) * spc /\ n * spc \in Nat /\ (nf - e.first) * spc \in Nat
  BY Zenon, <1>6, TimesMonotonic
<1>9. /\ ClusterSector(sb, nf) = ClusterSector(sb, e.first) + (nf - e.first) * spc
      /\ ClusterSector(sb, e.first) \in Nat /\ ClusterSector(sb, nf) \in Nat
  <2>1. 2 <= e.first /\ e.first <= nf
    BY <1>2, <1>6
  <2>2. 2 <= nf
    BY <1>5
  <2> QED BY <1>1, <1>2, <1>7, <2>1, <2>2, ClusterOrder
<1>10. s < ClusterSector(sb, nf)
  <2>1. s < ClusterSector(sb, e.first) + n * spc
    BY Zenon, <1>3, <1>7
  <2> HIDE DEF e
  <2> QED BY <1>8, <1>9, <2>1
<1>11. s \in Sectors
  <2>1. ClusterSector(sb, nf) <= sb.numSector
    BY Zenon, <1>1, <1>5, ClusterInVolume
  <2>2. PICK cfg \in Configs : ConfigOK(cfg) /\ EnoughClusters(cfg) /\ bpb = Bpb(cfg)
    BY Zenon DEF Formatted
  <2>3. sb.numSector = cfg.nSector /\ cfg.nSector \in Nat
    BY <2>2, SoundVolume, FatAssumption
  <2>4. s \in 0 .. cfg.nSector - 1
    BY <1>9, <1>10, <2>1, <2>3
  <2> QED BY Zenon, <2>4 DEF Sectors
<1>12. \A last : s \notin ClusterSector(sb, nf) .. last
  BY <1>9, <1>10
<1> QED BY Zenon, <1>5, <1>11, <1>12 DEF Filled

-----------------------------------------------------------------------------
(* Before the first createFAT32.                                           *)
LEMMA InitInv == Init => FatInv
<1> SUFFICES ASSUME Init PROVE FatInv
  BY Zenon
<1>1. TypeOK
  BY FatAssumption, FatLayoutAssumption DEF Init, TypeOK, Info
<1>2. Formatted
  BY DEF Init, Formatted
<1>3. TableInv /\ CountInv /\ FilesInv /\ ContentKept /\ AbortsOnlyWhenFull
  BY Zenon DEF Init, TableInv, CountInv, FilesInv, ContentKept, AbortsOnlyWhenFull
<1> QED BY Zenon, <1>1, <1>2, <1>3 DEF FatInv

(* A new table, its entry for every cluster behind the root's free.        *)
LEMMA NewTable ==
  ASSUME NEW b, NEW c \in DOMAIN EmptyTable(b)
  PROVE  /\ EmptyTable(b)[c] \in Nat \cup {EOC, Media, Shut}
         /\ c >= 3 => EmptyTable(b)[c] = 0
<1>1. c \in 0 .. b.fatSize32 * (b.bytesPerSector \div ENT) - 1
  BY Zenon DEF EmptyTable
<1>2. EmptyTable(b)[c] = IF c = 0 THEN Media ELSE IF c = 1 THEN Shut ELSE IF c = 2 THEN EOC ELSE 0
  BY <1>1 DEF EmptyTable
<1>3. c >= 3 => c # 0 /\ c # 1 /\ c # 2
  OBVIOUS
<1> QED BY <1>2, <1>3

(* Formatting: an empty volume, which has room in its tables for every     *)
(* cluster, and counts more free entries than there are.                   *)
LEMMA FormatInv ==
  ASSUME FatInv, NEW cfg \in Configs, createFAT32(cfg)
  PROVE  FatInv'
<1> DEFINE b == Bpb(cfg)
<1>1. CASE ~EnoughClusters(cfg)
  <2>1. /\ phase' = "tooFew" /\ formats' = formats + 1 /\ formats < MaxFormats
        /\ UNCHANGED <<bpb, bpb6, info, info7, fat, root, data, tries, copied>>
    BY Zenon, <1>1 DEF createFAT32
  <2>2. TypeOK'
    BY <2>1, FatAssumption DEF FatInv, TypeOK
  <2> QED BY Zenon, <2>1, <2>2 DEF FatInv, Formatted, TableInv, CountInv, FilesInv, ContentKept,
                              AbortsOnlyWhenFull
<1>2. CASE EnoughClusters(cfg)
  <2>1. /\ ConfigOK(cfg) /\ formats < MaxFormats /\ formats' = formats + 1
        /\ bpb' = b /\ bpb6' = b
        /\ info' = [freeCount |-> InitialFree(b), nextFree |-> 3] /\ info7' = info'
        /\ fat' = [i \in 0 .. 1 |-> EmptyTable(b)]
        /\ root' = <<>> /\ phase' = "ok" /\ copied' = <<>> /\ tries' = 0
    BY Zenon, <1>2 DEF createFAT32
  <2> HIDE DEF b
  <2>2. sb' = FAT32Super(b)
    BY Zenon, <2>1 DEF sb
  <2>3. Sound(sb')
    BY Zenon, <1>2, <2>1, <2>2, FatAssumption, SoundLayout DEF b
  <2>4. /\ sb'.fatSize = b.fatSize32 /\ sb'.bytesPerSector = b.bytesPerSector /\ b.numAllocTable = 2
    BY Zenon, <2>2 DEF FAT32Super, b, Bpb
  <2>5. PICK t \in Nat : t = b.fatSize32 * (b.bytesPerSector \div ENT)
    <3>1. b.fatSize32 \in Nat /\ b.bytesPerSector \in Nat
      BY Zenon, <2>3, <2>4 DEF Sound
    <3>2. b.bytesPerSector \div ENT \in Nat
      BY Zenon, <3>1, FatLayoutAssumption, Quotient
    <3> QED BY <3>1, <3>2
  <2>6. TableLen' = t
    BY Zenon, <2>4, <2>5 DEF TableLen, PerSector
  <2>7. InitialFree(b) = 2 * t - 3 /\ InitialFree(b) \in 0 .. U32 - 1 /\ t >= 3
    BY <1>2, <2>1, <2>5, FatAssumption, FreeEntries DEF b
  <2>8. TypeOK'
    <3>1. info' \in Info /\ info7' \in Info
      BY Zenon, <2>1, <2>7 DEF Info
    <3>2. \A i \in 0 .. 1 : \A c \in DOMAIN fat'[i] : fat'[i][c] \in Nat \cup {EOC, Media, Shut}
      BY Zenon, <2>1, NewTable
    <3> QED BY <2>1, <3>1, <3>2, FatAssumption DEF TypeOK, FatInv
  <2>9. Formatted'
    BY <1>2, <2>1 DEF Formatted, b
  <2>10. TableInv'
    <3>1. Mirrored'
      BY <2>1 DEF Mirrored
    <3>2. DOMAIN fat'[0] = 0 .. t - 1
      BY <2>1, <2>5 DEF EmptyTable
    <3>3. \A c \in DOMAIN fat'[0] : c >= 3 => fat'[0][c] = 0
      BY <2>1, NewTable
    <3> QED BY Zenon, <2>1, <2>6, <3>1, <3>2, <3>3 DEF TableInv
  <2>11. CountInv'
    <3>1. sb'.maxCluster \in Nat
      BY Zenon, <2>3 DEF Sound
    <3>2. info'.nextFree = 3 /\ info'.freeCount = 2 * t - 3
      BY Zenon, <2>1, <2>7
    <3> QED BY <2>1, <2>6, <2>7, <3>1, <3>2 DEF CountInv
  <2>12. FilesInv' /\ ContentKept' /\ AbortsOnlyWhenFull'
    BY <2>1 DEF FilesInv, ContentKept, AbortsOnlyWhenFull
  <2> QED BY Zenon, <2>8, <2>9, <2>10, <2>11, <2>12 DEF FatInv
<1> QED BY Zenon, <1>1, <1>2

(* Calls that stop before the tables.                                      *)
LEMMA EarlyInv ==
  ASSUME FatInv, CopyinBadFs \/ (\E size \in FileSizes : CopyinRefused(size))
  PROVE  FatInv'
<1>1. CASE CopyinBadFs
  <2>1. TypeOK'
    BY Zenon, <1>1 DEF CopyinBadFs, FatInv, TypeOK
  <2>2. AbortsOnlyWhenFull'
    <3>1. info.nextFree \in Int /\ sb.maxCluster \in Int
      BY <1>1, SoundSb DEF CopyinBadFs, FatInv, TypeOK, Info, Sound
    <3> QED BY <1>1, <3>1 DEF CopyinBadFs, AbortsOnlyWhenFull, sb
  <2> QED BY Zenon, <1>1, <2>1, <2>2 DEF CopyinBadFs, FatInv, Formatted, TableInv, CountInv, FilesInv, ContentKept
<1>2. CASE \E size \in FileSizes : CopyinRefused(size)
  <2>1. UNCHANGED vars
    BY Zenon, <1>2 DEF CopyinRefused, FAT32SuperFree, FatInv, TableInv, Mirrored, vars
  <2> QED BY <2>1 DEF vars, FatInv, TypeOK, Formatted, TableInv, Mirrored, CountInv, FilesInv,
               ContentKept, AbortsOnlyWhenFull, sb, TableLen, PerSector, Span, End
<1> QED BY Zenon, <1>1, <1>2

(* The files are kept as long as the sectors of each are.                  *)
LEMMA ContentSame ==
  ASSUME ContentKept, phase = "ok", UNCHANGED <<root, copied, phase>>, sb' = sb,
         \A i \in DOMAIN root :
           \A s \in ClusterSector(sb, root[i].first) ..
                    ClusterSector(sb, root[i].first)
                      + CDIV(root[i].size, sb.bytesPerCluster) * sb.sectorPerCluster - 1 :
             data'[s] = data[s]
  PROVE  ContentKept'
  BY DEF ContentKept

(* A short read leaves what it read behind, in clusters that stay free.    *)
LEMMA ShortReadInv ==
  ASSUME FatInv, NEW size \in FileSizes, NEW got, CopyinShortRead(size, got)
  PROVE  FatInv'
<1>1. /\ phase = "ok" /\ Accepts(size) /\ data' = Filled(size, got) /\ tries' = tries + 1
      /\ tries < MaxCopies /\ UNCHANGED <<bpb, info, fat, root, phase, formats, copied>>
      /\ bpb6' = bpb /\ info7' = info /\ bpb6 = bpb /\ info7 = info
  BY Zenon DEF CopyinShortRead, FAT32SuperFree, FatInv, TableInv, Mirrored
<1>2. sb' = sb /\ UNCHANGED <<bpb6, info7>>
  BY Zenon, <1>1 DEF sb
<1>3. TypeOK'
  BY <1>1, <1>2, FatAssumption DEF FatInv, TypeOK
<1>4. Formatted' /\ TableInv' /\ CountInv' /\ FilesInv' /\ AbortsOnlyWhenFull'
  BY <1>1, <1>2 DEF FatInv, Formatted, TableInv, Mirrored, CountInv, FilesInv, AbortsOnlyWhenFull,
                    TableLen, PerSector, Span, End
<1>5. ContentKept'
  <2> SUFFICES ASSUME NEW i \in DOMAIN root,
                      NEW s \in ClusterSector(sb, root[i].first) ..
                                ClusterSector(sb, root[i].first)
                                  + CDIV(root[i].size, sb.bytesPerCluster) * sb.sectorPerCluster - 1
               PROVE  data'[s] = data[s]
    BY Zenon, <1>1, <1>2, ContentSame DEF FatInv
  <2>1. Sound(sb)
    BY Zenon, <1>1, SoundSb DEF FatInv
  <2>2. root[i].first \in Nat /\ root[i].first >= 3 /\ root[i].size \in Nat
    BY Zenon, <1>1, EntryType DEF FatInv, FilesInv
  <2>3. ClusterSector(sb, root[i].first) \in Nat
    <3>1. 2 <= root[i].first /\ root[i].first <= root[i].first
      BY <2>2
    <3> QED BY Zenon, <2>1, <2>2, <3>1, ClusterOrder
  <2>4. CDIV(root[i].size, sb.bytesPerCluster) * sb.sectorPerCluster \in Nat
    <3>1. CDIV(root[i].size, sb.bytesPerCluster) \in Nat /\ sb.sectorPerCluster \in Nat
      BY Zenon, <2>1, <2>2, SoundTypes, RoundsUp DEF Sound
    <3> QED BY <3>1
  <2>5. s \in Nat /\ s < ClusterSector(sb, root[i].first)
               + CDIV(root[i].size, sb.bytesPerCluster) * sb.sectorPerCluster
    BY <2>3, <2>4
  <2> QED BY Zenon, <1>1, <2>5, DataKept DEF FatInv
<1> QED BY Zenon, <1>3, <1>4, <1>5 DEF FatInv

(* FAT32Copyin that fails an assertion: nextFree is at the end.            *)
LEMMA CopyAbortInv ==
  ASSUME FatInv, NEW size \in FileSizes, FAT32Copyin(size), ~EntriesFit(size)
  PROVE  FatInv'
<1>1. /\ phase = "ok" /\ Accepts(size) /\ phase' = "aborted" /\ tries' = tries + 1
      /\ tries < MaxCopies /\ UNCHANGED <<bpb, bpb6, info, info7, formats, copied>>
      /\ fat' = [i \in 0 .. 1 |-> FAT32SuperWriteEntry(fat[i], size)]
      /\ root' = Append(root, DirEntry(size))
  BY Zenon DEF FAT32Copyin
<1>2. sb' = sb
  BY Zenon, <1>1 DEF sb
<1>3. Sound(sb) /\ info.nextFree >= 3 /\ info.freeCount + info.nextFree >= TableLen
  BY Zenon, <1>1, SoundSb DEF FatInv, CountInv
<1>4. /\ fobjSize(size) \in 0 .. U32 - 1 /\ allocCluster(size) \in Nat
      /\ info.nextFree \in Nat /\ info.freeCount \in Nat
      /\ info.nextFree + allocCluster(size) <= sb.maxCluster
      /\ LastCluster(size) \in Nat /\ LastCluster(size) + 1 = info.nextFree + Chained(size)
  BY Zenon, <1>1, <1>3, Accepted DEF FatInv
<1>5. info.nextFree >= sb.maxCluster
  <2>1. sb.maxCluster \in Nat /\ TableLen \in Nat /\ sb.maxCluster <= TableLen
    BY Zenon, <1>3, SoundTypes DEF Sound
  <2>2. info.freeCount >= allocCluster(size)
    BY <1>3, <1>4, <2>1
  <2>3. LastCluster(size) >= sb.maxCluster
    BY <1>4, <2>1, <2>2 DEF EntriesFit
  <2>4. CASE allocCluster(size) = 0
    BY <1>4, <2>1, <2>3, <2>4 DEF Chained
  <2>5. CASE allocCluster(size) # 0
    BY <1>4, <2>1, <2>3, <2>5 DEF Chained
  <2> QED BY Zenon, <2>4, <2>5
<1>6. DirEntry(size) \in Entries
  BY <1>4, FatAssumption DEF DirEntry, Entries, FatInv, TypeOK
<1>7. Formatted'
  BY <1>1, <1>6 DEF FatInv, Formatted
<1>8. TypeOK'
  <2>1. \A i \in 0 .. 1 : \A c \in DOMAIN fat'[i] : fat'[i][c] \in Nat \cup {EOC, Media, Shut}
    <3> SUFFICES ASSUME NEW i \in 0 .. 1, NEW c \in DOMAIN fat'[i]
                 PROVE  fat'[i][c] \in Nat \cup {EOC, Media, Shut}
      BY Zenon
    <3>1. c \in DOMAIN fat[i] /\ fat[i][c] \in Nat \cup {EOC, Media, Shut}
      BY Zenon, <1>1 DEF FAT32SuperWriteEntry, FatInv, TypeOK
    <3>2. c \in info.nextFree .. LastCluster(size) => c + 1 \in Nat
      BY <1>4
    <3> QED BY Zenon, <1>1, <3>1, <3>2 DEF FAT32SuperWriteEntry
  <2>2. \A i \in DOMAIN root' : root'[i] \in Entries
    BY <1>7 DEF Formatted
  <2> QED BY <1>1, <2>1, <2>2, FatAssumption DEF FatInv, TypeOK, Entries
<1>9. AbortsOnlyWhenFull'
  BY Zenon, <1>1, <1>2, <1>5 DEF AbortsOnlyWhenFull
<1> QED BY Zenon, <1>1, <1>7, <1>8, <1>9 DEF FatInv, TableInv, CountInv, FilesInv, ContentKept

(* FAT32Copyin that succeeds: the file lies behind the others.             *)
LEMMA CopyInv ==
  ASSUME FatInv, NEW size \in FileSizes, FAT32Copyin(size), EntriesFit(size)
  PROVE  FatInv'
<1> DEFINE nf == info.nextFree
           last == LastCluster(size)
           new == DirEntry(size)
           n == Len(root) + 1
<1>1. /\ phase = "ok" /\ Accepts(size) /\ phase' = "ok" /\ tries' = tries + 1 /\ tries < MaxCopies
      /\ UNCHANGED <<bpb, bpb6, formats>> /\ bpb6 = bpb
      /\ fat' = [i \in 0 .. 1 |-> FAT32SuperWriteEntry(fat[i], size)]
      /\ root' = Append(root, new)
      /\ data' = Filled(size, fobjSize(size))
      /\ info' = [freeCount |-> info.freeCount - allocCluster(size), nextFree |-> last + 1]
      /\ info7' = info'
      /\ copied' = Append(copied, [size |-> size, ret |-> ClusterSector(sb, nf)])
  BY Zenon DEF FAT32Copyin, FAT32SuperFree, FatInv, TableInv, Mirrored
<1>2. sb' = sb
  BY Zenon, <1>1 DEF sb
<1>3. /\ Sound(sb) /\ nf >= 3 /\ info.freeCount + nf >= TableLen
      /\ sb.maxCluster \in Nat /\ TableLen \in Nat /\ sb.maxCluster <= TableLen
  BY Zenon, <1>1, SoundSb, SoundTypes DEF FatInv, CountInv, Sound
<1>4. /\ fobjSize(size) \in 0 .. U32 - 1 /\ allocCluster(size) \in Nat
      /\ nf \in Nat /\ info.freeCount \in Nat
      /\ nf + allocCluster(size) <= sb.maxCluster
      /\ Chained(size) \in Nat \ {0} /\ Chained(size) >= allocCluster(size)
      /\ last \in Nat /\ last + 1 = nf + Chained(size)
      /\ \A e : e.size = fobjSize(size) => Span(e) = Chained(size)
  BY Zenon, <1>1, <1>3, Accepted DEF FatInv
<1>5. last < sb.maxCluster /\ info.freeCount >= allocCluster(size) /\ nf <= last
  <2>1. last < sb.maxCluster /\ info.freeCount >= allocCluster(size)
    BY Zenon DEF EntriesFit
  <2> HIDE DEF nf, last
  <2> QED BY <1>4, <2>1
<1>6. /\ new \in Entries /\ new.file = tries + 1 /\ new.first = nf /\ new.size = fobjSize(size)
      /\ Span(new) = Chained(size) /\ End(new) = last + 1
  <2>1. new \in Entries /\ new.file = tries + 1 /\ new.first = nf /\ new.size = fobjSize(size)
    BY <1>4, FatAssumption DEF DirEntry, Entries, FatInv, TypeOK
  <2>2. Span(new) = Chained(size)
    BY Zenon, <1>4, <2>1
  <2> QED BY Zenon, <1>4, <2>1, <2>2 DEF End
<1>7. /\ root \in Seq(Entries) /\ copied \in Seq(Copies) /\ Len(copied) = Len(root)
      /\ n \in Nat /\ DOMAIN root = 1 .. Len(root) /\ DOMAIN root' = 1 .. n
      /\ root'[n] = new /\ \A i \in DOMAIN root : i < n /\ i # n /\ root'[i] = root[i]
      /\ \A i \in DOMAIN root' : i = n \/ i \in DOMAIN root
      /\ \A i, j \in DOMAIN root' : i < j => i \in DOMAIN root
  BY <1>1, <1>6 DEF FatInv, Formatted, ContentKept
<1>8. ClusterSector(sb, nf) \in Nat
  <2>1. 2 <= nf /\ nf <= nf
    BY <1>3, <1>4
  <2> HIDE DEF nf
  <2> QED BY Zenon, <1>3, <1>4, <2>1, ClusterOrder
<1>9. /\ [size |-> size, ret |-> ClusterSector(sb, nf)] \in Copies /\ Len(copied') = Len(root')
      /\ copied'[n] = [size |-> size, ret |-> ClusterSector(sb, nf)]
      /\ \A i \in DOMAIN root : copied'[i] = copied[i]
  <2>1. [size |-> size, ret |-> ClusterSector(sb, nf)] \in Copies
    BY Zenon, <1>8, FatAssumption DEF Copies
  <2> QED BY SMTT(40), <1>1, <1>7, <2>1
<1> HIDE DEF nf, last, new, n
<1>10. Formatted'
  BY <1>1, <1>6, <1>7, <1>9 DEF FatInv, Formatted
<1>11. info' \in Info /\ info'.nextFree = last + 1 /\ info'.freeCount = info.freeCount - allocCluster(size)
  <2>1. info.freeCount \in 0 .. U32 - 1 /\ U32 \in Nat
    BY Zenon, FatLayoutAssumption DEF FatInv, TypeOK, Info
  <2> QED BY <1>1, <1>4, <1>5, <2>1 DEF Info
<1>12. \A c \in DOMAIN fat[0] :
         fat'[0][c] = IF c \in nf .. last THEN IF c = last THEN EOC ELSE c + 1 ELSE fat[0][c]
  <2> SUFFICES ASSUME NEW c \in DOMAIN fat[0]
               PROVE  fat'[0][c] = IF c \in nf .. last THEN IF c = last THEN EOC ELSE c + 1 ELSE fat[0][c]
    BY Zenon
  <2>1. fat'[0][c] = IF c \in nf .. last /\ c < sb.maxCluster
                     THEN IF c = last THEN EOC ELSE c + 1 ELSE fat[0][c]
    BY <1>1 DEF FAT32SuperWriteEntry, nf, last
  <2>2. c \in nf .. last => c < sb.maxCluster
    BY <1>3, <1>4, <1>5
  <2> QED BY Zenon, <2>1, <2>2
<1>13. DOMAIN fat'[0] = DOMAIN fat[0] /\ fat'[0] = fat'[1] /\ DOMAIN fat[0] = 0 .. TableLen - 1
  BY <1>1 DEF FAT32SuperWriteEntry, FatInv, TableInv, Mirrored
<1>14. TypeOK'
  <2>1. \A c \in DOMAIN fat'[0] : fat'[0][c] \in Nat \cup {EOC, Media, Shut}
    <3> SUFFICES ASSUME NEW c \in DOMAIN fat[0]
                 PROVE  fat'[0][c] \in Nat \cup {EOC, Media, Shut}
      BY Zenon, <1>13
    <3>1. fat[0][c] \in Nat \cup {EOC, Media, Shut}
      BY DEF FatInv, TypeOK
    <3>2. c \in nf .. last => c + 1 \in Nat
      BY <1>4
    <3> QED BY Zenon, <1>12, <3>1, <3>2
  <2>2. \A i \in 0 .. 1 : fat'[i] = fat'[0]
    BY <1>13
  <2>3. \A i \in DOMAIN root' : root'[i] \in Entries
    BY <1>10 DEF Formatted
  <2>4. \A i \in DOMAIN copied' : copied'[i] \in Copies
    BY <1>10 DEF Formatted
  <2>5. formats' \in 0 .. MaxFormats /\ tries' \in 0 .. MaxCopies
    BY <1>1, FatAssumption DEF FatInv, TypeOK
  <2> QED BY Zenon, <1>1, <1>11, <2>1, <2>2, <2>3, <2>4, <2>5 DEF TypeOK, Entries, Copies
<1>15. TableInv'
  <2>1. Mirrored'
    BY Zenon, <1>1, <1>13 DEF Mirrored
  <2>2. \A c \in DOMAIN fat'[0] : c >= info'.nextFree => fat'[0][c] = 0
    <3> SUFFICES ASSUME NEW c \in DOMAIN fat[0], c >= last + 1
                 PROVE  fat'[0][c] = 0
      BY Zenon, <1>11, <1>13
    <3>1. c \in Nat /\ c \notin nf .. last /\ c >= nf
      BY <1>4, <1>5, <1>13
    <3>2. fat[0][c] = 0
      BY Zenon, <1>1, <3>1 DEF FatInv, TableInv, nf
    <3> QED BY Zenon, <1>12, <3>1, <3>2
  <2> QED BY Zenon, <1>2, <1>13, <2>1, <2>2 DEF TableInv, TableLen, PerSector
<1>16. CountInv'
  <2>1. TableLen' = TableLen
    BY Zenon, <1>2 DEF TableLen, PerSector
  <2>2. last + 1 >= 3 /\ last + 1 <= sb.maxCluster
        /\ info.freeCount - allocCluster(size) + (last + 1) >= TableLen
    BY <1>3, <1>4, <1>5
  <2> QED BY Zenon, <1>2, <1>11, <2>1, <2>2 DEF CountInv
<1>17. \A e : End(e)' = End(e)
  BY Zenon, <1>2 DEF End, Span
<1>18. FilesInv'
  <2> SUFFICES
        /\ \A i \in DOMAIN root' : root'[i].first >= 3 /\ End(root'[i]) <= last + 1
        /\ \A i, j \in DOMAIN root' : i < j => End(root'[i]) <= root'[j].first
        /\ \A i \in DOMAIN root' : \A c \in root'[i].first .. End(root'[i]) - 1 :
             fat'[0][c] = IF c = End(root'[i]) - 1 THEN EOC ELSE c + 1
    BY Zenon, <1>2, <1>11 DEF FilesInv, End, Span
  <2>1. \A i \in DOMAIN root :
          /\ root[i].first \in Nat /\ End(root[i]) \in Nat /\ root[i].first < End(root[i])
          /\ root[i].first >= 3 /\ End(root[i]) <= nf
    <3> SUFFICES ASSUME NEW i \in DOMAIN root
                 PROVE  /\ root[i].first \in Nat /\ End(root[i]) \in Nat
                        /\ root[i].first < End(root[i])
                        /\ root[i].first >= 3 /\ End(root[i]) <= nf
      BY Zenon
    <3>1. root[i].first \in Nat /\ root[i].size \in Nat
      BY Zenon, EntryType DEF FatInv
    <3>2. Span(root[i]) \in Nat \ {0}
      BY Zenon, <1>3, <3>1, SpanType
    <3> QED BY <1>1, <3>1, <3>2 DEF End, FatInv, FilesInv, nf
  <2>2. ASSUME NEW i \in DOMAIN root' PROVE root'[i].first >= 3 /\ End(root'[i]) <= last + 1
    <3>1. CASE i = n
      BY <1>3, <1>4, <1>6, <1>7, <3>1
    <3>2. CASE i \in DOMAIN root
      BY <1>4, <1>5, <1>7, <2>1, <3>2
    <3> QED BY Zenon, <1>7, <2>2, <3>1, <3>2
  <2>3. ASSUME NEW i \in DOMAIN root', NEW j \in DOMAIN root', i < j
        PROVE  End(root'[i]) <= root'[j].first
    <3>1. i \in DOMAIN root
      BY Zenon, <1>7, <2>3
    <3>2. CASE j = n
      BY Zenon, <1>6, <1>7, <2>1, <3>1, <3>2
    <3>3. CASE j \in DOMAIN root
      BY Zenon, <1>1, <1>7, <2>3, <3>1, <3>3 DEF FatInv, FilesInv
    <3> QED BY Zenon, <1>7, <2>3, <3>2, <3>3
  <2>4. ASSUME NEW i \in DOMAIN root', NEW c \in root'[i].first .. End(root'[i]) - 1
        PROVE  fat'[0][c] = IF c = End(root'[i]) - 1 THEN EOC ELSE c + 1
    <3>1. CASE i = n
      <4>1. root'[i].first = nf /\ End(root'[i]) = last + 1
        BY Zenon, <1>6, <1>7, <3>1
      <4>2. c \in nf .. last /\ c \in DOMAIN fat[0]
        BY <1>3, <1>4, <1>5, <1>13, <2>4, <4>1
      <4>3. End(root'[i]) - 1 = last
        BY <1>4, <4>1
      <4> QED BY Zenon, <1>12, <4>2, <4>3
    <3>2. CASE i \in DOMAIN root
      <4>1. root'[i] = root[i]
        BY Zenon, <1>7, <3>2
      <4>2. c \in Nat /\ c < nf /\ c \in DOMAIN fat[0]
        <5>1. PICK f \in Nat, e \in Nat : f = root[i].first /\ e = End(root[i]) /\ e <= nf
          BY Zenon, <2>1, <3>2
        <5>2. c \in f .. e - 1
          BY Zenon, <2>4, <4>1, <5>1
        <5>3. c \in Nat /\ c < nf /\ c \in 0 .. TableLen - 1
          BY <1>3, <1>4, <1>5, <5>1, <5>2
        <5> QED BY Zenon, <1>13, <5>3
      <4>3. fat'[0][c] = fat[0][c]
        BY <1>4, <1>12, <4>2
      <4> QED BY Zenon, <1>1, <2>4, <3>2, <4>1, <4>3 DEF FatInv, FilesInv
    <3> QED BY Zenon, <1>7, <2>4, <3>1, <3>2
  <2> QED BY Zenon, <2>2, <2>3, <2>4
<1>19. ContentKept'
  <2> DEFINE from(e) == ClusterSector(sb, e.first)
             to(e) == from(e) + CDIV(e.size, sb.bytesPerCluster) * sb.sectorPerCluster - 1
             Holds(d, e) == \A s \in from(e) .. to(e) :
                              d[s] = IF s - from(e) < CDIV(e.size, sb.bytesPerSector)
                                     THEN <<e.file, s - from(e)>> ELSE Zero
  <2>1. SUFFICES ASSUME NEW i \in DOMAIN root'
                 PROVE  /\ copied'[i].ret = from(root'[i])
                        /\ copied'[i].size < U32 => root'[i].size = copied'[i].size
                        /\ Holds(data', root'[i])
    BY Zenon, <1>2, <1>9 DEF ContentKept
  <2>2. CASE i = n
    <3>1. PICK spc \in Nat, a \in Nat, first \in Nat :
            spc = sb.sectorPerCluster /\ a = allocCluster(size) /\ first = ClusterSector(sb, nf)
      BY Zenon, <1>3, <1>4, <1>8 DEF Sound
    <3>2. a * spc \in Nat
      OBVIOUS
    <3>3. first + a * spc <= sb.numSector /\ sb.numSector \in Nat
      <4>1. nf + a \in Nat /\ 2 <= nf /\ 3 <= nf + a /\ nf <= nf + a /\ nf + a <= sb.maxCluster
            /\ (nf + a) - nf = a
        BY <1>3, <1>4, <3>1
      <4>2. ClusterSector(sb, nf + a) = first + a * spc
        <5>1. ClusterSector(sb, nf + a)
                = ClusterSector(sb, nf) + ((nf + a) - nf) * sb.sectorPerCluster
          BY Zenon, <1>3, <1>4, <4>1, ClusterOrder
        <5> QED BY Zenon, <3>1, <4>1, <5>1
      <4>3. ClusterSector(sb, nf + a) <= sb.numSector
        BY Zenon, <1>3, <4>1, ClusterInVolume
      <4> QED BY Zenon, <1>3, <4>2, <4>3 DEF Sound
    <3>4. \A s \in first .. first + a * spc - 1 : s \in Sectors
      <4>1. PICK cfg \in Configs : ConfigOK(cfg) /\ EnoughClusters(cfg) /\ bpb = Bpb(cfg)
        BY Zenon, <1>1 DEF FatInv, Formatted
      <4>2. sb.numSector = cfg.nSector
        BY Zenon, <4>1, SoundVolume
      <4>3. \A s \in first .. first + a * spc - 1 : s \in 0 .. cfg.nSector - 1
        BY <3>2, <3>3, <4>2
      <4> QED BY Zenon, <4>3 DEF Sectors
    <3>5. \A s \in first .. first + a * spc - 1 :
            data'[s] = IF s - first < CDIV(fobjSize(size), sb.bytesPerSector)
                       THEN <<tries + 1, s - first>> ELSE Zero
      BY Zenon, <1>1, <3>1, <3>4 DEF Filled, nf
    <3>6. from(new) = first /\ to(new) = first + a * spc - 1
      BY Zenon, <1>6, <3>1 DEF allocCluster
    <3>7. Holds(data', new)
      BY Zenon, <1>6, <3>5, <3>6
    <3>8. size < U32 => fobjSize(size) = size
      BY FatAssumption, FatLayoutAssumption DEF fobjSize
    <3> HIDE DEF from, Holds
    <3> QED BY <1>6, <1>7, <1>9, <2>2, <3>1, <3>6, <3>7, <3>8
  <2>3. CASE i \in DOMAIN root
    <3>1. root'[i] = root[i] /\ copied'[i] = copied[i]
      BY Zenon, <1>7, <1>9, <2>3
    <3>2. /\ copied[i].ret = from(root[i])
          /\ copied[i].size < U32 => root[i].size = copied[i].size
          /\ Holds(data, root[i])
      BY Zenon, <1>1, <2>3 DEF FatInv, ContentKept
    <3>3. ASSUME NEW s \in from(root[i]) .. to(root[i]) PROVE data'[s] = data[s]
      <4>1. root[i].first \in Nat /\ root[i].first >= 3 /\ root[i].size \in Nat
        BY Zenon, <1>1, <2>3, EntryType DEF FatInv, FilesInv
      <4>2. ClusterSector(sb, root[i].first) \in Nat
        <5>1. 2 <= root[i].first /\ root[i].first <= root[i].first
          BY <4>1
        <5> QED BY Zenon, <1>3, <4>1, <5>1, ClusterOrder
      <4>3. CDIV(root[i].size, sb.bytesPerCluster) * sb.sectorPerCluster \in Nat
        <5>1. CDIV(root[i].size, sb.bytesPerCluster) \in Nat /\ sb.sectorPerCluster \in Nat
          BY Zenon, <1>3, <4>1, SoundTypes, RoundsUp DEF Sound
        <5> QED BY <5>1
      <4>4. s \in Nat /\ s < ClusterSector(sb, root[i].first)
                   + CDIV(root[i].size, sb.bytesPerCluster) * sb.sectorPerCluster
        BY <3>3, <4>2, <4>3
      <4> QED BY Zenon, <1>1, <2>3, <4>4, DataKept DEF FatInv
    <3>4. Holds(data', root[i])
      BY Zenon, <3>2, <3>3
    <3> HIDE DEF from, Holds
    <3> QED BY Zenon, <3>1, <3>2, <3>4
  <2> QED BY Zenon, <1>7, <2>1, <2>2, <2>3
<1>20. AbortsOnlyWhenFull'
  BY Zenon, <1>1 DEF AbortsOnlyWhenFull
<1> QED BY Zenon, <1>10, <1>14, <1>15, <1>16, <1>18, <1>19, <1>20 DEF FatInv

(* FatInv is inductive.                                                    *)
LEMMA NextInv == FatInv /\ [Next]_vars => FatInv'
<1> SUFFICES ASSUME FatInv, [Next]_vars PROVE FatInv'
  BY Zenon
<1>1. CASE \E cfg \in Configs : createFAT32(cfg)
  BY Zenon, <1>1, FormatInv
<1>2. CASE CopyinBadFs \/ (\E size \in FileSizes : CopyinRefused(size))
  BY Zenon, <1>2, EarlyInv
<1>3. CASE \E size \in FileSizes : FAT32Copyin(size)
  BY Zenon, <1>3, CopyInv, CopyAbortInv
<1>4. CASE \E size \in FileSizes : \E got \in {0, bpb.bytesPerSector} : CopyinShortRead(size, got)
  BY Zenon, <1>4, ShortReadInv
<1>5. CASE UNCHANGED vars
  BY <1>5 DEF vars, FatInv, TypeOK, Formatted, TableInv, Mirrored, CountInv, FilesInv, ContentKept,
              AbortsOnlyWhenFull, TableLen, PerSector, Span, End, sb
<1> QED BY Zenon, <1>1, <1>2, <1>3, <1>4, <1>5 DEF Next

-----------------------------------------------------------------------------
(* What the inductive invariant says of a volume.                          *)
THEOREM Inductive == Spec => []FatInv
<1> QED BY InitInv, NextInv, PTL DEF Spec

(* Behind nextFree everything is free, and nextFree stays in the volume.   *)
THEOREM FreeBeyondHolds == Spec => []FreeBeyond
<1>1. FatInv => FreeBeyond
  BY Zenon DEF FatInv, TableInv, CountInv, FreeBeyond
<1> QED BY <1>1, Inductive, PTL

(* Between calls the backups agree with what they back up.                 *)
THEOREM MirroredHolds == Spec => []Mirrored
<1>1. FatInv => Mirrored
  BY Zenon DEF FatInv, TableInv, Mirrored
<1> QED BY <1>1, Inductive, PTL

(* The sectors of a file keep its bytes.                                   *)
THEOREM ContentKeptHolds == Spec => []ContentKept
<1>1. FatInv => ContentKept
  BY Zenon DEF FatInv
<1> QED BY <1>1, Inductive, PTL

(* An assertion of FAT32Copyin fails on a full volume only.                *)
THEOREM AbortsOnlyWhenFullHolds == Spec => []AbortsOnlyWhenFull
<1>1. FatInv => AbortsOnlyWhenFull
  BY Zenon DEF FatInv
<1> QED BY <1>1, Inductive, PTL

(* The entry of a cluster lies in its table, and clusterToFATEntry finds   *)
(* the same sector.                                                        *)
LEMMA EntryInTable ==
  ASSUME Formatted, phase = "ok", NEW c \in 0 .. sb.maxCluster - 1
  PROVE  /\ EntrySector(sb, 0, c) < EntrySector(sb, 1, 0)
         /\ EntrySector(sb, 1, c) < sb.numReserved + sb.numFAT
         /\ clusterToFATEntry(bpb, c).sector = EntrySector(sb, 0, c)
<1>1. Sound(sb)
  BY Zenon, SoundSb
<1>2. PICK b \in Nat \ {0}, f \in Nat, M \in Nat, per \in Nat, N \in Nat :
        /\ b = sb.bytesPerSector /\ f = sb.fatSize /\ M = sb.maxCluster /\ N = sb.numSector
        /\ per = PerSector
  BY Zenon, <1>1, SoundTypes DEF Sound
<1>3. M <= f * per /\ f * per \in Nat /\ N * b <= U32 /\ sb.numReserved = 8 /\ sb.numFAT = 2 * f
  BY Zenon, <1>1, <1>2, SoundTypes DEF Sound, TableLen
<1>4. b = per * ENT /\ ENT \in Nat \ {0} /\ U32 \in Nat \ {0} /\ per >= 8
  <2>1. b \in SectorSizes
    <3>1. PICK cfg \in Configs : ConfigOK(cfg) /\ bpb = Bpb(cfg)
      BY Zenon DEF Formatted
    <3>2. b = bpb.bytesPerSector
      BY Zenon, <1>2 DEF sb, FAT32Super
    <3>3. bpb.bytesPerSector = cfg.bytesPerSector
      BY Zenon, <3>1 DEF Bpb
    <3> QED BY Zenon, <3>1, <3>2, <3>3 DEF ConfigOK
  <2>2. b % ENT = 0 /\ ENT \in Nat \ {0} /\ U32 \in Nat \ {0} /\ b \div ENT >= 8
    BY Zenon, <2>1, FatLayoutAssumption
  <2>3. b = ENT * (b \div ENT) + (b % ENT) /\ b \div ENT \in Nat
    BY <2>2
  <2> QED BY <1>2, <2>2, <2>3 DEF PerSector
<1>5. c \in Nat /\ c < M /\ c < f * per
  BY <1>2, <1>3
<1>6. c * ENT \in Nat /\ c * ENT < f * b
  <2>1. (f * per) * ENT = f * b
    BY <1>4
  <2>2. \A x, y \in Nat : x < y => x * ENT \in Nat /\ x * ENT < y * ENT
    BY <1>4
  <2> QED BY Zenon, <1>3, <1>5, <2>1, <2>2
<1>7. (c * ENT) \div b \in Nat /\ (c * ENT) \div b < f
  BY Zenon, <1>2, <1>6, Quotient, QuotientBelow
<1>8. (0 * ENT) \div b = 0
  BY <1>2, <1>4
<1>9. EntrySector(sb, 0, c) = 8 + (c * ENT) \div b /\ EntrySector(sb, 1, 0) = 8 + f
      /\ EntrySector(sb, 1, c) = 8 + f + (c * ENT) \div b
  BY <1>2, <1>3, <1>7, <1>8 DEF EntrySector
<1>10. (c * ENT) % U32 = c * ENT
  <2>1. f * b <= N * b
    <3>1. f <= N
      BY <1>1, <1>2, <1>3 DEF Sound
    <3> QED BY Zenon, <1>2, <3>1, TimesMonotonic
  <2>2. c * ENT < U32
    <3>1. f * b \in Nat /\ N * b \in Nat
      BY <1>2
    <3> QED BY <1>3, <1>4, <1>6, <2>1, <3>1
  <2> QED BY <1>4, <1>6, <2>2
<1>11. clusterToFATEntry(bpb, c).sector = 8 + (c * ENT) \div b
  <2>1. bpb.numReservedSectors = 8 /\ bpb.bytesPerSector = b
    BY Zenon, <1>2, <1>3 DEF sb, FAT32Super
  <2> QED BY Zenon, <1>10, <2>1 DEF clusterToFATEntry
<1> QED BY <1>2, <1>3, <1>7, <1>9, <1>11

(* Files are whole, chained, apart from each other and inside the volume.  *)
THEOREM ContiguousHolds == Spec => []Contiguous
<1>1. FatInv => Contiguous
  <2> SUFFICES ASSUME FatInv, phase = "ok"
               PROVE  Contiguous
    BY Zenon DEF FatInv, Contiguous
  <2>1. Sound(sb) /\ TypeOK
    BY Zenon, SoundSb DEF FatInv
  <2>2. PICK nf \in Nat, M \in Nat : nf = info.nextFree /\ M = sb.maxCluster
    <3>1. info \in Info
      BY Zenon, <2>1 DEF TypeOK
    <3> QED BY Zenon, <2>1, <3>1 DEF Info, Sound
  <2>3. ASSUME NEW i \in DOMAIN root
        PROVE  /\ root[i].first \in Nat /\ End(root[i]) \in Nat /\ root[i].first < End(root[i])
               /\ root[i].first >= 3 /\ End(root[i]) <= nf /\ nf <= M
               /\ FileClusters(root[i]) = root[i].first .. End(root[i]) - 1
    <3>1. root[i].first \in Nat /\ root[i].size \in Nat
      BY Zenon, <2>3, EntryType DEF FatInv
    <3>2. Span(root[i]) \in Nat \ {0}
      BY Zenon, <2>1, <3>1, SpanType
    <3>3. FileClusters(root[i]) = root[i].first .. End(root[i]) - 1
      <4>1. \A e : FileClusters(e) = e.first .. e.first + Span(e) - 1
        BY Zenon DEF FileClusters, Span
      <4> QED BY <3>1, <3>2, <4>1 DEF End
    <3>4. root # <<>>
      BY <2>3
    <3> QED BY <2>2, <3>1, <3>2, <3>3, <3>4 DEF End, FatInv, FilesInv, CountInv
  <2>4. ASSUME NEW i \in DOMAIN root, NEW c \in FileClusters(root[i])
        PROVE  /\ c > 2
               /\ fat[0][c] = IF c + 1 \in FileClusters(root[i]) THEN c + 1 ELSE EOC
               /\ ClusterSectors(sb, c) \subseteq DataSectors
               /\ EntrySector(sb, 0, c) < EntrySector(sb, 1, 0)
               /\ EntrySector(sb, 1, c) < sb.numReserved + sb.numFAT
    <3>1. PICK f \in Nat, e \in Nat :
            /\ f = root[i].first /\ e = End(root[i]) /\ f >= 3 /\ e <= M
            /\ FileClusters(root[i]) = f .. e - 1
      BY <2>2, <2>3, <2>4
    <3>2. c \in Nat /\ c >= 3 /\ c < M /\ c \in f .. e - 1
      BY <2>2, <2>4, <3>1
    <3>3. fat[0][c] = IF c + 1 \in f .. e - 1 THEN c + 1 ELSE EOC
      <4>1. fat[0][c] = IF c = e - 1 THEN EOC ELSE c + 1
        BY Zenon, <2>4, <3>1, <3>2 DEF FatInv, FilesInv
      <4>2. c + 1 \in f .. e - 1 <=> c # e - 1
        BY <3>1, <3>2
      <4> QED BY Zenon, <4>1, <4>2
    <3>4. ClusterSectors(sb, c) \subseteq DataSectors
      <4>1. PICK spc \in Nat, N \in Nat : spc = sb.sectorPerCluster /\ N = sb.numSector
        BY Zenon, <2>1 DEF Sound
      <4>2. 2 <= c /\ c <= c + 1 /\ (c + 1) - c = 1 /\ c + 1 \in Nat /\ 3 <= c + 1 /\ c + 1 <= M
            /\ c <= M
        BY <3>2
      <4>3. ClusterSector(sb, c) \in Nat /\ ClusterSector(sb, c + 1) = ClusterSector(sb, c) + 1 * spc
        <5>1. /\ ClusterSector(sb, c) \in Nat
              /\ ClusterSector(sb, c + 1) = ClusterSector(sb, c) + ((c + 1) - c) * sb.sectorPerCluster
          BY Zenon, <2>1, <3>2, <4>2, ClusterOrder
        <5> QED BY Zenon, <4>1, <4>2, <5>1
      <4>4. ClusterSector(sb, c + 1) <= N
        BY Zenon, <2>1, <2>2, <4>1, <4>2, ClusterInVolume
      <4>5. ClusterSector(sb, c) >= sb.numReserved + sb.numFAT + spc
        BY Zenon, <2>1, <2>2, <3>2, <4>1, <4>2, ClusterInVolume
      <4>6. sb.numReserved + sb.numFAT + spc \in Nat
        BY <2>1, <4>1, SoundTypes DEF Sound
      <4>7. ClusterSector(sb, c) .. ClusterSector(sb, c) + spc - 1
              \subseteq sb.numReserved + sb.numFAT + spc .. N - 1
        BY <4>1, <4>3, <4>4, <4>5, <4>6
      <4> QED BY Zenon, <4>1, <4>7 DEF ClusterSectors, DataSectors
    <3>5. c \in 0 .. sb.maxCluster - 1
      BY <2>2, <3>2
    <3> QED BY <3>1, <3>2, <3>3, <3>4, <3>5, EntryInTable DEF FatInv
  <2>5. ASSUME NEW i \in DOMAIN root, NEW j \in DOMAIN root, i # j
        PROVE  FileClusters(root[i]) \cap FileClusters(root[j]) = {}
    <3>1. i \in Nat /\ j \in Nat
      BY <2>5 DEF FatInv, Formatted
    <3>2. \A k, l \in DOMAIN root : k < l => FileClusters(root[k]) \cap FileClusters(root[l]) = {}
      <4> SUFFICES ASSUME NEW k \in DOMAIN root, NEW l \in DOMAIN root, k < l
                   PROVE  FileClusters(root[k]) \cap FileClusters(root[l]) = {}
        BY Zenon
      <4>1. End(root[k]) <= root[l].first
        BY Zenon DEF FatInv, FilesInv
      <4>2. /\ root[k].first \in Nat /\ End(root[k]) \in Nat
            /\ FileClusters(root[k]) = root[k].first .. End(root[k]) - 1
        BY Zenon, <2>3
      <4>3. /\ root[l].first \in Nat /\ End(root[l]) \in Nat
            /\ FileClusters(root[l]) = root[l].first .. End(root[l]) - 1
        BY Zenon, <2>3
      <4> QED BY <4>1, <4>2, <4>3
    <3> QED BY <2>5, <3>1, <3>2
  <2>6. numSectorDataRegion(bpb) = sb.numData /\ sb.numData < sb.numSector
    <3>1. sb.numData < sb.numSector
      BY <2>1, SoundTypes DEF Sound
    <3>2. PICK n \in Nat, r \in Nat, f \in Nat :
            n = bpb.numSectors32 /\ r = bpb.numReservedSectors
            /\ f = bpb.fatSize32 * bpb.numAllocTable
      BY Zenon, <2>1, SoundTypes DEF sb, FAT32Super, Sound
    <3>3. n - (r + f) = n - r - f
      OBVIOUS
    <3>4. sb.numData = (n - r - f) % U32
      BY Zenon, <3>2 DEF sb, FAT32Super
    <3> QED BY Zenon, <3>1, <3>2, <3>3, <3>4 DEF numSectorDataRegion
  <2>7. \A c \in 0 .. sb.maxCluster - 1 : clusterToFATEntry(bpb, c).sector = EntrySector(sb, 0, c)
    BY Zenon, EntryInTable DEF FatInv
  <2> QED BY Zenon, <2>1, <2>4, <2>5, <2>6, <2>7 DEF Contiguous
<1> QED BY <1>1, Inductive, PTL

-----------------------------------------------------------------------------
(* A formatted volume is not the volume there is before: its BPB counts    *)
(* reserved sectors.                                                       *)
LEMMA FormattedBpb ==
  ASSUME NEW cfg
  PROVE  Bpb(cfg) # NoBpb /\ Bpb(cfg) # [numSectors32 |-> 0]
<1>1. Bpb(cfg).numReservedSectors = 8 /\ NoBpb.numReservedSectors = 0
  BY Zenon DEF Bpb, NoBpb
<1>2. "numReservedSectors" \in DOMAIN Bpb(cfg)
      /\ "numReservedSectors" \notin DOMAIN [numSectors32 |-> 0]
  BY Zenon DEF Bpb
<1> QED BY <1>1, <1>2

(* A step of the volume is a step of Volume, or changes nothing it shows.  *)
LEMMA StepRefines ==
  ASSUME FatInv, [Next]_vars
  PROVE  [\/ \E cfg \in Configs : V!Format(cfg)
          \/ \E size \in FileSizes :
               V!Store(size % U32) \/ V!StoreAborts(size % U32)]_(V!volumeVars)
<1> DEFINE layoutOf == IF bpb = NoBpb THEN [numSectors32 |-> 0] ELSE bpb
           filesOf == [i \in DOMAIN root |-> [first |-> root[i].first, size |-> root[i].size]]
<1>1. ASSUME UNCHANGED <<bpb, root>>, info'.nextFree = info.nextFree
      PROVE  UNCHANGED V!volumeVars
  BY Zenon, <1>1 DEF V!volumeVars
<1>2. CASE \E cfg \in Configs : createFAT32(cfg)
  <2>1. PICK cfg \in Configs : createFAT32(cfg)
    BY Zenon, <1>2
  <2>2. CASE EnoughClusters(cfg)
    <3>1. /\ ConfigOK(cfg) /\ bpb' = Bpb(cfg) /\ info'.nextFree = 3 /\ root' = <<>>
      BY <2>1, <2>2 DEF createFAT32
    <3>2. layoutOf' = Bpb(cfg) /\ filesOf' = <<>>
      BY <3>1, FormattedBpb
    <3>3. V!ConfigOK(cfg) /\ V!EnoughClusters(cfg) /\ V!Bpb(cfg) = Bpb(cfg)
      BY Zenon, <2>2, <3>1 DEF V!ConfigOK, V!EnoughClusters, V!Bpb, V!CDIV, ConfigOK, EnoughClusters, Bpb, CDIV
    <3>4. V!Format(cfg)
      BY Zenon, <3>1, <3>2, <3>3 DEF V!Format
    <3> QED BY Zenon, <3>4
  <2>3. CASE ~EnoughClusters(cfg)
    BY Zenon, <1>1, <2>1, <2>3 DEF createFAT32
  <2> QED BY Zenon, <2>2, <2>3
<1>3. CASE \E size \in FileSizes : FAT32Copyin(size)
  <2>1. PICK size \in FileSizes : FAT32Copyin(size)
    BY Zenon, <1>3
  <2>2. /\ phase = "ok" /\ Accepts(size) /\ bpb' = bpb /\ root' = Append(root, DirEntry(size))
        /\ Len(copied) = Len(root) /\ root \in Seq(Entries) /\ copied \in Seq(Copies)
    BY Zenon, <2>1 DEF FAT32Copyin, FatInv, ContentKept, Formatted
  <2>3. layoutOf = bpb /\ layoutOf' = bpb /\ bpb # [numSectors32 |-> 0]
    BY Zenon, <2>2, FormattedBpb DEF FatInv, Formatted
  <2>4. V!super = sb
    BY Zenon, <2>3 DEF V!super, V!FAT32Super, V!MaxCluster, sb, FAT32Super, MaxCluster
  <2>5. /\ info.nextFree \in Nat /\ Chained(size) \in Nat /\ LastCluster(size) \in Nat
        /\ LastCluster(size) + 1 = info.nextFree + Chained(size) /\ sb.maxCluster \in Nat
    <3>1. Sound(sb) /\ TypeOK /\ info.nextFree >= 3
      BY Zenon, <2>2, SoundSb DEF FatInv, CountInv
    <3> QED BY Zenon, <2>2, <3>1, Accepted DEF Sound
  <2>6. filesOf' = Append(filesOf, [first |-> info.nextFree, size |-> size % U32])
        /\ Len(filesOf) = Len(root)
    <3>1. /\ DOMAIN root = 1 .. Len(root) /\ DOMAIN root' = 1 .. Len(root) + 1 /\ Len(root) \in Nat
          /\ root'[Len(root) + 1] = DirEntry(size) /\ \A i \in DOMAIN root : root'[i] = root[i]
      BY <2>2
    <3>2. filesOf \in Seq([first : Nat, size : Nat]) /\ Len(filesOf) = Len(root)
      <4>1. \A i \in 1 .. Len(root) : root[i].first \in Nat /\ root[i].size \in Nat
        BY <2>2, EntryType DEF FatInv
      <4> QED BY <3>1, <4>1
    <3> QED BY <3>1, <3>2 DEF DirEntry, fobjSize
  <2>7. Len(filesOf) < sb.numRootEntry
    BY Zenon, <2>2, <2>6 DEF Accepts
  <2>8. CASE ~EntriesFit(size)
    <3>1. phase' = "aborted" /\ info' = info
      BY Zenon, <2>1, <2>8 DEF FAT32Copyin
    <3>2. info.nextFree = sb.maxCluster
      <4>1. info.nextFree >= sb.maxCluster
        <5>1. FatInv' /\ sb' = sb
          BY Zenon, <2>1, <2>2, <2>8, CopyAbortInv DEF sb
        <5> QED BY Zenon, <3>1, <5>1 DEF FatInv, AbortsOnlyWhenFull
      <4> QED BY <2>2, <2>5, <4>1 DEF Accepts
    <3>3. size % U32 = 0
      <4>1. size \in Nat /\ U32 \in Nat \ {0} /\ sb.bytesPerCluster \in Nat
        <5>1. sb.bytesPerCluster \in Nat \ {0}
          BY Zenon, <2>2, SoundSb, SoundTypes DEF FatInv
        <5> QED BY <5>1, FatAssumption, FatLayoutAssumption
      <4>2. sb.bytesPerCluster * (sb.maxCluster - info.nextFree) = 0
        BY <2>5, <3>2, <4>1
      <4>3. size % U32 <= 0 % U32
        BY Zenon, <2>2, <4>2 DEF Accepts, maxFileSize, fobjSize
      <4> QED BY <4>1, <4>3
    <3>4. V!StoreAborts(size % U32)
      BY Zenon, <2>3, <2>4, <2>6, <2>7, <3>1, <3>2, <3>3 DEF V!StoreAborts, V!NoLayout
    <3> QED BY Zenon, <3>4
  <2>9. CASE EntriesFit(size)
    <3>1. info'.nextFree = LastCluster(size) + 1 /\ LastCluster(size) < sb.maxCluster
      BY <2>1, <2>9 DEF FAT32Copyin, EntriesFit
    <3>2. V!Clusters(size % U32) = Chained(size)
      BY Zenon, <2>4 DEF V!Clusters, V!CDIV, CDIV, Chained, allocCluster, fobjSize
    <3>3. info'.nextFree = info.nextFree + V!Clusters(size % U32)
      BY Zenon, <2>5, <3>1, <3>2
    <3>4. info.nextFree + V!Clusters(size % U32) <= sb.maxCluster
      BY <2>5, <3>1, <3>2
    <3>5. V!Fits(size % U32)
      BY Zenon, <2>4, <2>7, <3>4 DEF V!Fits
    <3>6. V!Store(size % U32)
      BY Zenon, <2>3, <2>6, <3>3, <3>5 DEF V!Store, V!NoLayout
    <3> QED BY Zenon, <3>6
  <2> QED BY Zenon, <2>8, <2>9
<1>4. CASE CopyinBadFs \/ (\E size \in FileSizes : CopyinRefused(size))
  BY Zenon, <1>1, <1>4 DEF CopyinBadFs, CopyinRefused
<1>5. CASE \E size \in FileSizes : \E got \in {0, bpb.bytesPerSector} : CopyinShortRead(size, got)
  BY Zenon, <1>1, <1>5 DEF CopyinShortRead
<1>6. CASE UNCHANGED vars
  BY Zenon, <1>1, <1>6 DEF vars
<1> QED BY Zenon, <1>2, <1>3, <1>4, <1>5, <1>6 DEF Next

(* Fat implements Volume.                                                  *)
THEOREM Refinement == Spec => ImplementsVolume
<1>1. Init => V!VolumeInit
  BY DEF Init, V!VolumeInit, V!NoLayout
<1>2. FatInv /\ [Next]_vars =>
        [\/ \E cfg \in Configs : V!Format(cfg)
         \/ \E size \in FileSizes :
              V!Store(size % U32) \/ V!StoreAborts(size % U32)]_(V!volumeVars)
  BY Zenon, StepRefines
<1> QED BY <1>1, <1>2, Inductive, PTL DEF Spec, ImplementsVolume
=============================================================================
