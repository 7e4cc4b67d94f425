-------------------------- MODULE FatLayoutProofs ---------------------------
(***************************************************************************)
(* Facts about the arithmetic of a FAT32 volume, for every size of sector, *)
(* cluster and volume that createFAT32 accepts.                            *)
(***************************************************************************)
EXTENDS FatLayout, TLAPS

(* Products keep the order of their factors.                               *)
LEMMA TimesMonotonic ==
  ASSUME NEW a \in Nat, NEW b \in Nat, NEW c \in Nat, a <= b
  PROVE  a * c <= b * c /\ a * c \in Nat /\ b * c \in Nat
<1>1. PICK d \in Nat : b = a + d
  OBVIOUS
<1>2. (a + d) * c = a * c + d * c /\ d * c \in Nat /\ a * c \in Nat
  OBVIOUS
<1> QED BY <1>1, <1>2

(* A quotient and its remainder.                                           *)
LEMMA Quotient ==
  ASSUME NEW a \in Nat, NEW b \in Nat \ {0}
  PROVE  a \div b \in Nat /\ (a \div b) * b <= a /\ a < (a \div b) * b + b
  OBVIOUS

(* A quotient is bounded by any number whose product exceeds the dividend. *)
LEMMA QuotientBelow ==
  ASSUME NEW a \in Nat, NEW b \in Nat \ {0}, NEW q \in Nat, a < q * b
  PROVE  a \div b < q
<1>1. PICK d \in Nat : d = a \div b
  OBVIOUS
<1>2. d * b <= a
  BY Zenon, <1>1, Quotient
<1>3. q <= d => q * b <= d * b
  BY Zenon, TimesMonotonic
<1>4. q * b \in Nat /\ d * b \in Nat
  OBVIOUS
<1> QED BY <1>1, <1>2, <1>3, <1>4

(* CDIV rounds up.                                                         *)
LEMMA RoundsUp ==
  ASSUME NEW a \in Nat, NEW b \in Nat \ {0}
  PROVE  /\ CDIV(a, b) \in Nat
         /\ CDIV(a, b) * b >= a
         /\ CDIV(a, b) * b <= a + b - 1
         /\ CDIV(a, b) = 0 <=> a = 0
<1>1. a + b - 1 \in Nat
  OBVIOUS
<1>2. PICK q \in Nat : q = (a + b - 1) \div b
  BY Zenon, <1>1, Quotient
<1>3. q * b <= a + b - 1 /\ a + b - 1 < q * b + b
  BY Zenon, <1>1, <1>2, Quotient
<1>4. q * b \in Nat
  OBVIOUS
<1>5. q = 0 => q * b = 0
  OBVIOUS
<1>6. q >= 1 => q * b >= b
  BY TimesMonotonic, 1 * b = b
<1>7. q = 0 <=> a = 0
  BY <1>3, <1>4, <1>5, <1>6
<1> QED BY <1>2, <1>3, <1>4, <1>7 DEF CDIV

(* What fits k units needs k of them at most.                              *)
LEMMA RoundsUpWithin ==
  ASSUME NEW a \in Nat, NEW b \in Nat \ {0}, NEW k \in Nat, a <= k * b
  PROVE  CDIV(a, b) <= k
<1>1. PICK q \in Nat : q = CDIV(a, b) /\ q * b <= a + b - 1
  BY Zenon, RoundsUp
<1>2. k + 1 <= q => (k + 1) * b <= q * b
  BY TimesMonotonic
<1>3. (k + 1) * b = k * b + b /\ k * b \in Nat /\ q * b \in Nat
  OBVIOUS
<1> QED BY <1>1, <1>2, <1>3

(* The sectors of k whole clusters hold what the clusters do.              *)
LEMMA SectorsOfClusters ==
  ASSUME NEW size \in Nat, NEW spc \in Nat \ {0}, NEW bps \in Nat \ {0}
  PROVE  CDIV(size, bps) <= CDIV(size, spc * bps) * spc
<1>1. spc * bps \in Nat \ {0}
  OBVIOUS
<1>2. PICK k \in Nat : k = CDIV(size, spc * bps) /\ k * (spc * bps) >= size
  BY Zenon, <1>1, RoundsUp
<1>3. k * (spc * bps) = (k * spc) * bps /\ k * spc \in Nat
  OBVIOUS
<1>4. CDIV(size, bps) <= k * spc
  BY Zenon, <1>2, <1>3, RoundsUpWithin
<1> QED BY Zenon, <1>2, <1>4

-----------------------------------------------------------------------------
(* Where the parts of a volume of n sectors end: cs sectors to a cluster,  *)
(* per entries to a sector of the table.  The reserved sectors and both    *)
(* tables leave room, and a table has an entry for every cluster.          *)
LEMMA TableSize ==
  ASSUME NEW n \in Nat, n >= 16, NEW cs \in Nat \ {0}, NEW per \in Nat, per >= 8,
         NEW x \in Nat, x = n \div cs, x > 0, NEW F \in Nat, F = CDIV(x, per)
  PROVE  F >= 1 /\ 2 * F + 8 <= n /\ x <= F * per /\ F * per <= n + per /\ x <= n
<1>1. x * cs <= n
  BY Zenon, Quotient
<1>2. x <= n
  <2>1. 1 * x <= cs * x
    BY TimesMonotonic
  <2>2. cs * x = x * cs /\ 1 * x = x /\ x * cs \in Nat
    OBVIOUS
  <2> QED BY <1>1, <2>1, <2>2
<1>3. F * per >= x /\ F * per <= x + per - 1 /\ F # 0
  <2>1. per \in Nat \ {0}
    OBVIOUS
  <2>2. CDIV(x, per) * per >= x /\ CDIV(x, per) * per <= x + per - 1 /\ CDIV(x, per) # 0
    <3>1. \A a \in Nat, b \in Nat \ {0} :
            CDIV(a, b) * b >= a /\ CDIV(a, b) * b <= a + b - 1 /\ (CDIV(a, b) = 0 <=> a = 0)
      BY Zenon, RoundsUp
    <3>2. x # 0
      OBVIOUS
    <3> QED BY <2>1, <3>1, <3>2, Zenon
  <2> QED BY Zenon, <2>2
<1>4. PICK f \in Nat : F = f + 1
  BY <1>3
<1>5. (f + 1) * per = f * per + per /\ f * per \in Nat
  OBVIOUS
<1>6. f * 8 <= f * per
  BY TimesMonotonic, 8 * f <= per * f, 8 * f = f * 8, per * f = f * per
<1>7. f * 8 <= n - 1
  BY <1>2, <1>3, <1>4, <1>5, <1>6
<1>8. 2 * F + 8 <= n
  BY <1>4, <1>7
<1>9. F * per \in Nat
  OBVIOUS
<1> QED BY <1>2, <1>3, <1>4, <1>8, <1>9

(* What the other proofs use of the regions of a volume.                   *)
Sound(s) ==
  /\ s.bytesPerSector \in Nat \ {0} /\ s.sectorPerCluster \in Nat \ {0}
  /\ s.bytesPerCluster = s.sectorPerCluster * s.bytesPerSector
  /\ s.numReserved = 8 /\ s.fatSize \in Nat /\ s.numFAT = 2 * s.fatSize
  /\ s.numSector \in Nat /\ s.numData \in Nat /\ s.numData = s.numSector - 8 - s.numFAT
  /\ s.maxCluster \in Nat /\ s.maxCluster * s.sectorPerCluster <= s.numData
  /\ s.maxCluster <= s.fatSize * (s.bytesPerSector \div ENT)
  /\ s.numSector * s.bytesPerSector <= U32

(* A volume that createFAT32 formats is sound.                             *)
LEMMA SoundLayout ==
  ASSUME NEW cfg \in [nSector : 0 .. U32 - 1, bytesPerSector : Nat, clusterSize : Nat],
         ConfigOK(cfg), EnoughClusters(cfg), Addressable(cfg)
  PROVE  Sound(FAT32Super(Bpb(cfg)))
<1> DEFINE n == cfg.nSector
           bps == cfg.bytesPerSector
           cs == cfg.clusterSize
           per == bps \div ENT
           x == n \div cs
           F == CDIV(x, per)
           D == n - 8 - 2 * F
           s == FAT32Super(Bpb(cfg))
<1>1. /\ n \in Nat /\ n < U32 /\ n >= 16 /\ n * bps <= U32
      /\ bps \in Nat \ {0} /\ cs \in Nat \ {0} /\ per \in Nat /\ per >= 8 /\ U32 \in Nat
  BY FatLayoutAssumption DEF ConfigOK, Addressable
<1>2. x \in Nat /\ x > 0
  <2> HIDE DEF n, cs
  <2>1. x \in Nat
    BY Zenon, <1>1, Quotient
  <2>2. x > 2
    BY Zenon DEF EnoughClusters, n, cs
  <2> QED BY <2>1, <2>2
<1>3. F \in Nat
  <2> HIDE DEF x, per
  <2>1. per \in Nat \ {0}
    BY <1>1
  <2> QED BY Zenon, <1>2, <2>1, RoundsUp
<1>4. F >= 1 /\ 2 * F + 8 <= n /\ x <= F * per
  <2> HIDE DEF n, cs, per, F
  <2> QED BY Zenon, <1>1, <1>2, <1>3, TableSize DEF F
<1>5. D \in Nat /\ D < U32 /\ D <= n
  BY <1>1, <1>3, <1>4
<1>6. (n - 8 - F * 2) % U32 = D
  BY <1>1, <1>3, <1>5
<1>7. /\ s.bytesPerSector = bps /\ s.sectorPerCluster = cs /\ s.bytesPerCluster = cs * bps
      /\ s.numReserved = 8 /\ s.fatSize = F /\ s.numFAT = F * 2 /\ s.numSector = n
      /\ s.numData = (n - 8 - F * 2) % U32 /\ s.maxCluster = s.numData \div cs
  BY Zenon DEF FAT32Super, Bpb, MaxCluster
<1> HIDE DEF n, bps, cs, s
<1>8. PICK M \in Nat : M = D \div cs
  BY Zenon, <1>1, <1>5, Quotient
<1>9. M * cs <= D
  BY Zenon, <1>1, <1>5, <1>8, Quotient
<1>10. M <= x
  <2>1. n < x * cs + cs
    BY Zenon, <1>1, Quotient
  <2>2. (x + 1) * cs = x * cs + cs /\ M * cs \in Nat /\ x * cs \in Nat
    BY <1>1, <1>2
  <2>3. x + 1 <= M => (x + 1) * cs <= M * cs
    BY <1>1, <1>2, TimesMonotonic
  <2> HIDE DEF x
  <2> QED BY <1>1, <1>2, <1>5, <1>9, <2>1, <2>2, <2>3
<1>11. M <= F * per
  <2> HIDE DEF x, per, F
  <2>1. F * per \in Nat
    BY <1>1, <1>3
  <2> QED BY <2>1, <1>2, <1>4, <1>10
<1>12. s.maxCluster = M /\ s.numData = D
  BY Zenon, <1>6, <1>7, <1>8
<1> HIDE DEF D, x, per, F
<1>13. D = n - 8 - 2 * F /\ F * 2 = 2 * F
  BY <1>3 DEF D
<1>14. s.maxCluster <= s.fatSize * (s.bytesPerSector \div ENT)
  BY Zenon, <1>7, <1>11, <1>12 DEF per
<1>15. Sound(s)
  BY Zenon, <1>1, <1>3, <1>5, <1>7, <1>9, <1>12, <1>13, <1>14 DEF Sound
<1> QED BY Zenon, <1>15 DEF s

(* Twice the entries of a table, in the units of the volume's bytes.       *)
LEMMA EntriesCount ==
  ASSUME NEW n \in Nat, n >= 16, NEW per \in Nat, per >= 8, NEW bps \in Nat, per <= bps,
         NEW U \in Nat, n * bps <= U, NEW F \in Nat, F >= 1, F * per <= n + per
  PROVE  F * per >= 8 /\ 2 * (F * per) <= U
<1>1. 8 * n <= bps * n /\ 16 * bps <= n * bps /\ 1 * per <= F * per
  BY TimesMonotonic
<1>2. bps * n = n * bps /\ n * bps \in Nat /\ F * per \in Nat /\ 1 * per = per
  OBVIOUS
<1> QED BY <1>1, <1>2

(* The count of free entries that createFAT32 writes: those of both tables *)
(* but three.                                                              *)
LEMMA FreeEntries ==
  ASSUME NEW cfg \in [nSector : 0 .. U32 - 1, bytesPerSector : Nat, clusterSize : Nat],
         ConfigOK(cfg), EnoughClusters(cfg), Addressable(cfg), NEW t,
         t = Bpb(cfg).fatSize32 * (Bpb(cfg).bytesPerSector \div ENT)
  PROVE  t >= 8 /\ InitialFree(Bpb(cfg)) = 2 * t - 3 /\ InitialFree(Bpb(cfg)) \in 0 .. U32 - 1
<1> DEFINE n == cfg.nSector
           bps == cfg.bytesPerSector
           cs == cfg.clusterSize
           per == bps \div ENT
           x == n \div cs
           F == CDIV(x, per)
<1>1. /\ n \in Nat /\ n >= 16 /\ n * bps <= U32
      /\ bps \in Nat \ {0} /\ cs \in Nat \ {0} /\ per \in Nat /\ per >= 8 /\ U32 \in Nat
  BY FatLayoutAssumption DEF ConfigOK, Addressable
<1>2. x \in Nat /\ x > 0
  <2> HIDE DEF n, cs
  <2>1. x \in Nat
    BY Zenon, <1>1, Quotient
  <2>2. x > 2
    BY Zenon DEF EnoughClusters, n, cs
  <2> QED BY <2>1, <2>2
<1>3. F \in Nat
  <2> HIDE DEF x, per
  <2>1. per \in Nat \ {0}
    BY <1>1
  <2> QED BY Zenon, <1>2, <2>1, RoundsUp
<1>4. F >= 1 /\ F * per <= n + per
  <2> HIDE DEF n, cs, per, F
  <2> QED BY Zenon, <1>1, <1>2, <1>3, TableSize DEF F
<1>5. per <= bps
  <2> HIDE DEF bps
  <2>1. per * ENT <= bps /\ ENT \in Nat /\ 1 <= ENT
    BY <1>1, FatLayoutAssumption, Quotient
  <2>2. 1 * per <= ENT * per
    BY Zenon, <1>1, <2>1, TimesMonotonic
  <2> HIDE DEF per
  <2>3. ENT * per = per * ENT /\ 1 * per = per /\ per * ENT \in Nat
    BY <1>1, <2>1
  <2> QED BY <1>1, <2>1, <2>2, <2>3
<1>6. t = F * per
  BY Zenon DEF Bpb
<1>7. InitialFree(Bpb(cfg)) = (2 * F * per - 3) % U32
  BY Zenon DEF Bpb, InitialFree
<1> HIDE DEF n, bps, cs, per, x, F
<1>8. F * per >= 8 /\ 2 * (F * per) <= U32
  BY Zenon, <1>1, <1>3, <1>4, <1>5, EntriesCount
<1>9. 2 * F * per = 2 * (F * per) /\ F * per \in Nat
  BY <1>1, <1>3
<1> QED BY <1>1, <1>6, <1>7, <1>8, <1>9
=============================================================================
