----------------------------- MODULE MCInstaller ----------------------------
EXTENDS Installer

(* The loader has one or two sectors, or more than a cluster; the kernel,  *)
(* busybox and init do or do not fit a boot partition of 1 or 2 MiB, or    *)
(* fill the 251 clusters of the smaller one to the last; files are empty,  *)
(* or larger than U32.                                                     *)
MCFileSizes == <<{0, 500, 1024, 5000}, {0, 40000, 1024000}, {0, U32 + 1, 700000}, {0, 4097}>>
=============================================================================
