------------------------------- MODULE Malloc -------------------------------
(***************************************************************************)
(* The slab allocator of src/tlibc/malloc.c.                               *)
(*                                                                         *)
(* A page holds one page_header and blocks of one size, that of its arena. *)
(* A block is in the hands of the user, on the free list of its page, or   *)
(* on the free list of its arena.  An arena refills its list from a whole  *)
(* page only: the blocks freed meanwhile gather on the list of their page  *)
(* until the page is complete, when it becomes the arena's idle page or is *)
(* given back to the system.                                               *)
(*                                                                         *)
(* An address is a pair <<page, offset>>, so block_to_page is the first    *)
(* component.  The linked lists are sequences, head first (the code pushes *)
(* and pops at the head).  The code is sequential (malloc.h:14), so each   *)
(* call is one step; mmap may fail, and may return any free run of pages.  *)
(***************************************************************************)
EXTENDS Integers, Sequences, FiniteSets

CONSTANTS
  NPages,    \* pages of the address space
  PGSIZE,    \* bytes of a page
  HDR,       \* sizeof(struct page_header)
  Caches,    \* block_size of each arena, in the order of caches[]
  SizeMod,   \* 2^64: size_t arithmetic is modulo this
  Sizes,     \* the sizes users ask for
  Counts,    \* the nmemb of calloc
  MaxLive    \* bound: allocations a user holds at a time

NULL == -1
Page == 0 .. NPages - 1
Arena == 1 .. Len(Caches)
Addr == Page \X (0 .. PGSIZE - 1)
NullPt == <<NULL, 0>>

(* The largest slab block: the literal 1024 of mymalloc and cpp_alloc.     *)
MaxSmall == Caches[Len(Caches)]

(* page_header_init: the first block starts at the first multiple of the   *)
(* block size past the header, and blocks fill the page.                   *)
FirstOff_OverHeader(a) == 0 * a   \* mutant: blocks start at the page
FirstOff(a) == ((HDR + Caches[a] - 1) \div Caches[a]) * Caches[a]
NBlocks(a) == (PGSIZE - FirstOff(a) + Caches[a] - 1) \div Caches[a]
BlockOff(a, k) == FirstOff(a) + k * Caches[a]
Blocks(p, a) == {<<p, BlockOff(a, k)>> : k \in 0 .. NBlocks(a) - 1}

ASSUME ConstantsAssumption ==
  /\ NPages \in Nat \ {0}
  /\ PGSIZE \in Nat \ {0}
  /\ HDR \in 1 .. PGSIZE - 1
  /\ Caches \in Seq(Nat \ {0})
  /\ Len(Caches) > 0
  /\ SizeMod \in Nat \ {0}
  /\ Sizes \subseteq Nat
  /\ Counts \subseteq Nat
  /\ MaxLive \in Nat

(* Block sizes divide the page, and a page has two blocks or more (the     *)
(* assertion of page_header_init).                                         *)
ASSUME BlockSizeAssumption ==
  \A a \in Arena : PGSIZE % Caches[a] = 0 /\ NBlocks(a) > 1

(* caches[] is in increasing order.                                        *)
ASSUME CachesIncrease ==
  \A a, b \in Arena : a < b => Caches[a] < Caches[b]

(* No request is within a page of SIZE_MAX, where size + HDR wraps.        *)
ASSUME NoWrap ==
  \A s \in Sizes, n \in Counts \cup {1} : n * s + HDR + PGSIZE <= SizeMod

VARIABLES
  heap,   \* [pg, mapped, freelist, idle]: page headers, mapped pages, arenas
  live,   \* allocations in the user's hands: [pt, size, api]
  phase   \* "run", "aborted" (abort() in myfree), "exited" (malloc_fini ran)

vars == <<heap, live, phase>>

(* A page as mmap returns it.                                              *)
ZeroPage == [are |-> NULL, fl |-> <<>>, avail |-> 0, total |-> 0,
             magic |-> FALSE, npages |-> 0]

Run(m, n) == m .. m + n - 1

(* The results of mmap for n pages: the start of a free run, or failure.   *)
Mmap(h, n) ==
  {NULL} \cup {m \in Page : n > 0 /\ Run(m, n) \subseteq Page \ h.mapped}

alloc_page(h, m, n) == [h EXCEPT !.mapped = @ \cup Run(m, n)]

(* What an unmapped page held is gone: mmap returns zeroed pages.          *)
free_page(h, p, n) ==
  [h EXCEPT !.mapped = @ \ Run(p, n),
            !.pg = [q \in Page |-> IF q \in Run(p, n) THEN ZeroPage ELSE h.pg[q]]]

-----------------------------------------------------------------------------
(* freelist_free pushes each block of the page, so the last one is first.  *)
InitialList(p, a) ==
  [i \in 1 .. NBlocks(a) |-> <<p, BlockOff(a, NBlocks(a) - i)>>]

page_header_init(h, a, p) ==
  [h EXCEPT !.pg[p] = [are |-> a, fl |-> InitialList(p, a), avail |-> NBlocks(a),
                       total |-> NBlocks(a), magic |-> TRUE, npages |-> 0]]

(* Mutant: freelist_init of the page is forgotten.                         *)
Seize_KeepList(h, a) ==
  LET p == h.idle[a]
  IN [h EXCEPT !.pg[p].avail = 0, !.freelist[a] = h.pg[p].fl \o @, !.idle[a] = NULL]

(* The arena takes every block of its idle page.                           *)
Seize(h, a) ==
  LET p == h.idle[a]
  IN [h EXCEPT !.pg[p].avail = 0,
               !.pg[p].fl = <<>>,
               !.freelist[a] = h.pg[p].fl \o @,
               !.idle[a] = NULL]

NeedsPage(h, a) == h.freelist[a] = <<>> /\ h.idle[a] = NULL

WithIdle(h, a, m) ==
  IF NeedsPage(h, a)
  THEN [page_header_init(alloc_page(h, m, 1), a, m) EXCEPT !.idle[a] = m]
  ELSE h

Refill(h, a, m) ==
  IF h.freelist[a] = <<>> THEN Seize(WithIdle(h, a, m), a) ELSE h

arena_alloc(h, a, m) ==
  IF NeedsPage(h, a) /\ m = NULL
  THEN [heap |-> h, pt |-> NullPt]
  ELSE LET r == Refill(h, a, m)
       IN [heap |-> [r EXCEPT !.freelist[a] = Tail(@)], pt |-> Head(r.freelist[a])]

(* Mutant: a second idle page is neither kept nor unmapped.                *)
arena_add_idle_Leak(h, a, p) ==
  IF h.idle[a] # NULL THEN h ELSE [h EXCEPT !.idle[a] = p]

arena_add_idle(h, a, p) ==
  IF h.idle[a] # NULL THEN free_page(h, p, 1) ELSE [h EXCEPT !.idle[a] = p]

-----------------------------------------------------------------------------
LargePages(size) == ((((size + HDR) % SizeMod) + PGSIZE - 1) % SizeMod) \div PGSIZE
RawPages(size) == ((size + PGSIZE - 1) % SizeMod) \div PGSIZE

(* The smallest arena whose blocks hold the request.                       *)
ArenaFor(size) ==
  CHOOSE a \in Arena : Caches[a] >= size /\ \A b \in Arena : b < a => Caches[b] < size

large_alloc(h, n, m) ==
  IF m = NULL
  THEN [heap |-> h, pt |-> NullPt]
  ELSE [heap |-> [alloc_page(h, m, n) EXCEPT !.pg[m].magic = TRUE, !.pg[m].npages = n],
        pt |-> <<m, HDR>>]

mymalloc(h, size, m) ==
  IF size > MaxSmall THEN large_alloc(h, LargePages(size), m)
                     ELSE arena_alloc(h, ArenaFor(size), m)

(* Pages the next mymalloc(size) asks of mmap, if it does.                 *)
MallocPages(size) == IF size > MaxSmall THEN LargePages(size) ELSE 1

(* A large new[] has no header.                                            *)
cpp_alloc(h, size, m) ==
  IF size > MaxSmall
  THEN IF m = NULL THEN [heap |-> h, pt |-> NullPt]
                   ELSE [heap |-> alloc_page(h, m, RawPages(size)), pt |-> <<m, 0>>]
  ELSE mymalloc(h, size, m)

CppPages(size) == IF size > MaxSmall THEN RawPages(size) ELSE 1

block_to_page(pt) == pt[1]

(* Mutant: a page with a free block counts as complete.                    *)
slab_free_Partial(h, pt) ==
  LET p == block_to_page(pt)
      a == h.pg[p].are
      r == [h EXCEPT !.pg[p].avail = @ + 1, !.pg[p].fl = <<pt>> \o @]
  IN IF h.idle[a] = NULL THEN arena_add_idle(r, a, p) ELSE r

(* A block returns to its page; a complete page is idle or unmapped.       *)
slab_free(h, pt) ==
  LET p == block_to_page(pt)
      a == h.pg[p].are
      r == [h EXCEPT !.pg[p].avail = @ + 1, !.pg[p].fl = <<pt>> \o @]
  IN IF r.pg[p].avail = r.pg[p].total THEN arena_add_idle(r, a, p) ELSE r

(* The heap after myfree of a pointer whose page header has its magic.     *)
myfree(h, pt) ==
  LET p == block_to_page(pt)
  IN IF h.pg[p].are = NULL THEN free_page(h, p, h.pg[p].npages) ELSE slab_free(h, pt)

cpp_free(h, pt, size) ==
  IF size > MaxSmall THEN free_page(h, pt[1], RawPages(size)) ELSE myfree(h, pt)

(* Bytes a pointer from mymalloc can hold.                                 *)
Usable(h, pt) ==
  LET ph == h.pg[block_to_page(pt)]
  IN IF ph.are = NULL THEN ph.npages * PGSIZE - HDR ELSE Caches[ph.are]

-----------------------------------------------------------------------------
Alloc(pt, size, api) == [pt |-> pt, size |-> size, api |-> api]

(* The user holds what a call returned, unless it returned NULL.           *)
Hand(l, pt, size, api) ==
  IF pt = NullPt THEN l ELSE l \cup {Alloc(pt, size, api)}

Init ==
  /\ heap = [pg |-> [p \in Page |-> ZeroPage], mapped |-> {},
             freelist |-> [a \in Arena |-> <<>>], idle |-> [a \in Arena |-> NULL]]
  /\ live = {}
  /\ phase = "run"

Malloc(size) ==
  /\ phase = "run"
  /\ Cardinality(live) < MaxLive
  /\ \E m \in Mmap(heap, MallocPages(size)) :
       LET r == mymalloc(heap, size, m)
       IN heap' = r.heap /\ live' = Hand(live, r.pt, size, "malloc")
  /\ UNCHANGED phase

(* calloc: the request is the product, in size_t.                          *)
Calloc(nmemb, size) == Malloc((nmemb * size) % SizeMod)

CppAlloc(size) ==
  /\ phase = "run"
  /\ Cardinality(live) < MaxLive
  /\ \E m \in Mmap(heap, CppPages(size)) :
       LET r == cpp_alloc(heap, size, m)
       IN heap' = r.heap /\ live' = Hand(live, r.pt, size, "cpp")
  /\ UNCHANGED phase

(* myfree of a pointer: without its magic the process aborts.              *)
FreeOrAbort(l, h) ==
  IF heap.pg[block_to_page(l.pt)].magic
  THEN heap' = h /\ live' = live \ {l} /\ UNCHANGED phase
  ELSE phase' = "aborted" /\ UNCHANGED <<heap, live>>

Free(l) ==
  /\ phase = "run"
  /\ l.api = "malloc"
  /\ FreeOrAbort(l, myfree(heap, l.pt))

CppFree(l) ==
  /\ phase = "run"
  /\ l.api = "cpp"
  /\ IF l.size > MaxSmall
     THEN heap' = cpp_free(heap, l.pt, l.size) /\ live' = live \ {l} /\ UNCHANGED phase
     ELSE FreeOrAbort(l, cpp_free(heap, l.pt, l.size))

(* The block stays if it is large enough; else a new one is taken and, if  *)
(* there is one, the old one is freed after the copy.                      *)
Realloc(l, size) ==
  /\ phase = "run"
  /\ l.api = "malloc"
  /\ \/ /\ size <= Usable(heap, l.pt)
        /\ live' = (live \ {l}) \cup {Alloc(l.pt, size, "malloc")}
        /\ UNCHANGED <<heap, phase>>
     \/ /\ size > Usable(heap, l.pt)
        /\ \E m \in Mmap(heap, MallocPages(size)) :
             LET r == mymalloc(heap, size, m)
             IN IF r.pt = NullPt
                THEN heap' = r.heap /\ UNCHANGED <<live, phase>>
                ELSE IF r.heap.pg[block_to_page(l.pt)].magic
                THEN /\ heap' = myfree(r.heap, l.pt)
                     /\ live' = (live \ {l}) \cup {Alloc(r.pt, size, "malloc")}
                     /\ UNCHANGED phase
                ELSE heap' = r.heap /\ phase' = "aborted" /\ UNCHANGED live

(* The destructor gives the idle pages back; nothing runs after it.        *)
malloc_fini ==
  /\ phase = "run"
  /\ heap' = [heap EXCEPT !.mapped = @ \ {heap.idle[a] : a \in Arena}]
  /\ phase' = "exited"
  /\ UNCHANGED live

Next ==
  \/ \E s \in Sizes : Malloc(s) \/ CppAlloc(s)
  \/ \E s \in Sizes, n \in Counts : Calloc(n, s)
  \/ \E l \in live : Free(l) \/ CppFree(l) \/ (\E s \in Sizes : Realloc(l, s))
  \/ malloc_fini

Spec == Init /\ [][Next]_vars

-----------------------------------------------------------------------------
Header == [are : Arena \cup {NULL}, fl : Seq(Addr), avail : Nat, total : Nat,
           magic : BOOLEAN, npages : Nat]

(* The shape of the allocator's state.                                     *)
TypeOK ==
  /\ heap \in [pg : [Page -> Header], mapped : SUBSET Page,
               freelist : [Arena -> Seq(Addr)], idle : [Arena -> Page \cup {NULL}]]
  /\ live \subseteq [pt : Addr, size : Nat, api : {"malloc", "cpp"}]
  /\ phase \in {"run", "aborted", "exited"}

Elems(s) == {s[i] : i \in DOMAIN s}
Distinct(s) == \A i, j \in DOMAIN s : s[i] = s[j] => i = j

Held == {l.pt : l \in live}
SlabPages(h) == {p \in h.mapped : h.pg[p].magic /\ h.pg[p].are # NULL}

(* Every block of a mapped slab page is in exactly one place: with the     *)
(* user, on its page's list, or on its arena's list; no list holds a block *)
(* twice.  Frees (myfree) and refills (arena_alloc) move blocks between    *)
(* these three places without losing or doubling one.                      *)
BlocksPartitioned ==
  /\ TypeOK
  /\ phase = "run" =>
       \A p \in SlabPages(heap) :
         LET a == heap.pg[p].are
             onPage == Elems(heap.pg[p].fl)
             onArena == Elems(heap.freelist[a]) \cap Blocks(p, a)
             held == Held \cap ({p} \X (0 .. PGSIZE - 1))
         IN /\ onPage \cup onArena \cup held = Blocks(p, a)
            /\ onPage \cap onArena = {} /\ onPage \cap held = {} /\ onArena \cap held = {}
            /\ Distinct(heap.pg[p].fl) /\ Distinct(heap.freelist[a])
            /\ heap.pg[p].avail = Len(heap.pg[p].fl)

(* The bytes the user may touch: size of them from the pointer on.         *)
Extent(l) ==
  LET first == l.pt[1] * PGSIZE + l.pt[2]
  IN {<<b \div PGSIZE, b % PGSIZE>> : b \in first .. first + l.size - 1}

(* Writes of the user stay off the allocator's own memory: the headers of  *)
(* live pages and the next pointers kept in free blocks.  They land in     *)
(* mapped pages.  So no pointer a user holds is refused: myfree finds its  *)
(* magic.                                                                  *)
MetadataSafe ==
  /\ phase # "aborted"
  /\ phase = "run" =>
       LET free == UNION ({Elems(heap.pg[p].fl) : p \in SlabPages(heap)}
                            \cup {Elems(heap.freelist[a]) : a \in Arena})
       IN \A l \in live : \A c \in Extent(l) :
            /\ c[1] \in heap.mapped
            /\ heap.pg[c[1]].magic => c[2] >= HDR
            /\ c \notin free

(* No mapped slab page is lost: it is the idle page of its arena, or the   *)
(* arena is still handing out its blocks, or the user holds one of them.   *)
(* A page all of whose blocks are free is the idle one (malloc.c:143, "at  *)
(* most one at any given time").                                           *)
NoPageLost ==
  phase = "run" =>
    \A p \in SlabPages(heap) :
      LET a == heap.pg[p].are
      IN \/ heap.idle[a] = p
         \/ Elems(heap.freelist[a]) \cap Blocks(p, a) # {}
         \/ \E l \in live : l.pt[1] = p

(* A block given back is not handed out again before every block of its    *)
(* page is back: blocks leave a page's list only all together.             *)
ReuseWholePages ==
  [][\A p \in SlabPages(heap) :
       heap'.pg[p].fl # heap.pg[p].fl /\ p \in heap'.mapped =>
         \/ heap'.pg[p].fl # <<>> /\ Tail(heap'.pg[p].fl) = heap.pg[p].fl
         \/ Elems(heap.pg[p].fl) = Blocks(p, heap.pg[p].are)]_vars

H == INSTANCE HeapAbs

(* Malloc, calloc, new, free, delete and realloc keep the promise of       *)
(* HeapAbs: no two users ever share a byte, and realloc's copy never       *)
(* overlaps the block it copies from.                                      *)
ImplementsHeap == H!Spec
=============================================================================
