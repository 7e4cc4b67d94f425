------------------------------- MODULE MCGpt --------------------------------
EXTENDS Gpt

(* Up to three partitions of up to three sectors, on disks from too small  *)
(* to larger than they need; and six small ones, whose array has three     *)
(* sectors.                                                                *)
MCRequests ==
  [volume : 4 .. 14,
   parts : UNION {[1 .. n -> 0 .. 3] : n \in 0 .. 3} \cup [1 .. 6 -> 0 .. 1]]
=============================================================================
