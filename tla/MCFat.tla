------------------------------- MODULE MCFat --------------------------------
(* Sectors of 32 bytes hold 8 table entries or 2 directory entries.        *)
EXTENDS Fat

Config(n, b, c) == [nSector |-> n, bytesPerSector |-> b, clusterSize |-> c]

(* A volume of 6 files' clusters; one of one-sector clusters, with entries *)
(* in two table sectors; one without room for a file; one with two         *)
(* clusters in all; two that createFAT32 refuses.                          *)
MCConfigs == {Config(28, 32, 2), Config(26, 32, 1), Config(16, 32, 4), Config(16, 32, 8),
              Config(15, 32, 1), Config(28, 16, 2)}
=============================================================================
