------------------------------ MODULE MCMalloc ------------------------------
(* A scaled-down allocator: pages of 12 bytes with a 2-byte header, arenas *)
(* of 3- and 4-byte blocks (3 and 2 blocks to a page).                     *)
EXTENDS Malloc

MCCaches == <<3, 4>>
=============================================================================
