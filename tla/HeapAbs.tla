------------------------------ MODULE HeapAbs -------------------------------
(***************************************************************************)
(* What an allocator promises its users, whatever it keeps inside: the     *)
(* memory it hands out is disjoint from all the memory in use, and what is *)
(* in use stays where it is until its own user frees or resizes it.        *)
(***************************************************************************)
EXTENDS Integers

CONSTANT PGSIZE

VARIABLE live   \* allocations in use: [pt, size, api], pt = <<page, offset>>

Start(l) == l.pt[1] * PGSIZE + l.pt[2]

Disjoint(k, l) ==
  /\ Start(k) # Start(l)
  /\ Start(k) + k.size <= Start(l) \/ Start(l) + l.size <= Start(k)

Init == live = {}

Allocate ==
  \E l \in live' \ live :
    /\ live' = live \cup {l}
    /\ \A k \in live : Disjoint(k, l)

Free == \E l \in live : live' = live \ {l}

(* The user of l resizes it in place: it stays off the others.             *)
Resize ==
  \E l \in live, n \in live' \ live :
    /\ n.pt = l.pt
    /\ live' = (live \ {l}) \cup {n}
    /\ \A k \in live \ {l} : Disjoint(k, n)

(* The user of l gets another place for it.  Its bytes are copied there    *)
(* while l is still in use, so the two are disjoint.                       *)
Move ==
  \E l \in live, n \in live' \ live :
    /\ live' = (live \ {l}) \cup {n}
    /\ \A k \in live : Disjoint(k, n)

Next == Allocate \/ Free \/ Resize \/ Move

Spec == Init /\ [][Next]_live
=============================================================================
