----------------------------- MODULE MallocSteps ----------------------------
(***************************************************************************)
(* The invariant of the slab allocator, and that each of the few ways in   *)
(* which its calls change the heap keeps it: a page is mapped for an arena *)
(* or unmapped, a list is seized, a block is popped or pushed, a large     *)
(* block appears, disappears or is resized.                                *)
(*                                                                         *)
(* The invariant is about a heap and the allocations in use, as two        *)
(* arguments, since realloc takes a block and gives one back in one call.  *)
(***************************************************************************)
EXTENDS Malloc, TLAPS

Heaps == [pg : [Page -> Header], mapped : SUBSET Page,
          freelist : [Arena -> Seq(Addr)], idle : [Arena -> Page \cup {NULL}]]
Allocs == [pt : Addr, size : Nat, api : {"malloc", "cpp"}]

(* A page is of a slab, the first of a large block, or neither; only the   *)
(* first two have a header.                                                *)
PageInv(h) ==
  \A p \in Page :
    /\ p \notin h.mapped => h.pg[p].are = NULL /\ h.pg[p].npages = 0
    /\ h.pg[p].magic <=> h.pg[p].are # NULL \/ h.pg[p].npages # 0
    /\ h.pg[p].are # NULL => h.pg[p].npages = 0

(* What an arena has is of its own pages.                                  *)
ArenaInv(h) ==
  \A a \in Arena :
    /\ Distinct(h.freelist[a])
    /\ \A b \in Elems(h.freelist[a]) :
         b[1] \in Page /\ h.pg[b[1]].are = a /\ b \in Blocks(b[1], a)
    /\ h.idle[a] # NULL => h.pg[h.idle[a]].are = a

HeldBy(L) == {l.pt : l \in L}

(* The three places a block of page p may be in.                           *)
OnPage(h, p) == Elems(h.pg[p].fl)
OnArena(h, p) == Elems(h.freelist[h.pg[p].are])

SlabPageInv(h, L, p) ==
  /\ Distinct(h.pg[p].fl) /\ OnPage(h, p) \subseteq Blocks(p, h.pg[p].are)
  /\ h.pg[p].avail = Len(h.pg[p].fl) /\ h.pg[p].total = NBlocks(h.pg[p].are)
  /\ \A b \in Blocks(p, h.pg[p].are) :
       /\ b \in OnPage(h, p) \/ b \in OnArena(h, p) \/ b \in HeldBy(L)
       /\ b \in OnPage(h, p) => b \notin OnArena(h, p) /\ b \notin HeldBy(L)
       /\ b \in OnArena(h, p) => b \notin HeldBy(L)
SlabInv(h, L) == \A p \in Page : h.pg[p].are # NULL => SlabPageInv(h, L, p)

(* A page is complete exactly when it is the idle page of its arena.       *)
IdlePageInv(h, p) == OnPage(h, p) = Blocks(p, h.pg[p].are) <=> h.idle[h.pg[p].are] = p
IdleInv(h) == \A p \in Page : h.pg[p].are # NULL => IdlePageInv(h, p)

(* The pages an allocation outside of the slabs has for itself.            *)
Width(h, l) == IF h.pg[l.pt[1]].npages # 0 THEN h.pg[l.pt[1]].npages ELSE RawPages(l.size)
Span(h, l) == Run(l.pt[1], Width(h, l))
Big(h, l) == h.pg[l.pt[1]].are = NULL

SmallInv(h, l) ==
  l.pt \in Blocks(l.pt[1], h.pg[l.pt[1]].are) /\ l.size <= Caches[h.pg[l.pt[1]].are]

BigInv(h, l) ==
  /\ IF h.pg[l.pt[1]].npages # 0
     THEN l.pt[2] = HDR /\ l.api = "malloc"
     ELSE l.pt[2] = 0 /\ l.api = "cpp" /\ l.size > MaxSmall
  /\ l.pt[2] + l.size <= Width(h, l) * PGSIZE
  /\ l.pt[1] \in Span(h, l) /\ Span(h, l) \subseteq h.mapped
  /\ \A q \in Span(h, l) : h.pg[q].are = NULL /\ (q # l.pt[1] => h.pg[q].npages = 0)

LiveInv(h, L) ==
  /\ \A l \in L : IF Big(h, l) THEN BigInv(h, l) ELSE SmallInv(h, l)
  /\ \A k, l \in L : k # l =>
       k.pt # l.pt /\ (Big(h, k) /\ Big(h, l) => Span(h, k) \cap Span(h, l) = {})

Inv(h, L) ==
  /\ h \in Heaps /\ L \subseteq Allocs
  /\ PageInv(h) /\ ArenaInv(h) /\ SlabInv(h, L) /\ IdleInv(h) /\ LiveInv(h, L)

(* What the calls need of finite sets: a list of distinct blocks of a page *)
(* has them all once it is as long as they are many, and one of the caches *)
(* that hold a request is the smallest.  It holds (CountingHolds in        *)
(* MallocProofs, from the theorems on finite sets).                        *)
Counting ==
  /\ \A p \in Page, a \in Arena, s \in Seq(Addr) :
       Distinct(s) /\ Elems(s) \subseteq Blocks(p, a) =>
         (Len(s) = NBlocks(a) <=> Elems(s) = Blocks(p, a))
  /\ \A size \in Nat : size <= MaxSmall =>
       \E a \in Arena : Caches[a] >= size /\ \A b \in Arena : b < a => Caches[b] < size

HeapInv == TypeOK /\ phase # "aborted" /\ (phase = "run" => Inv(heap, live))

-----------------------------------------------------------------------------
(* Arithmetic of blocks and pages.                                         *)

LEMMA DivUp ==
  ASSUME NEW n \in Int, NEW c \in Nat \ {0}, NEW r \in 0 .. c - 1
  PROVE  (n * c + r) \div c = n
OBVIOUS

LEMMA Ceiling ==
  ASSUME NEW x \in Nat, NEW c \in Nat \ {0}
  PROVE  /\ (x + c - 1) \div c \in Nat
         /\ ((x + c - 1) \div c) * c >= x
OBVIOUS

LEMMA DivMod ==
  ASSUME NEW x \in Nat, NEW c \in Nat \ {0}
  PROVE  x = (x \div c) * c + (x % c) /\ x \div c \in Nat
OBVIOUS

LEMMA Header0 == HDR \in Nat \ {0} /\ PGSIZE \in Nat \ {0} /\ HDR < PGSIZE
BY ConstantsAssumption

LEMMA CacheType ==
  ASSUME NEW a \in Arena
  PROVE  Caches[a] \in Nat \ {0}
BY ConstantsAssumption DEF Arena

(* A page is d block sizes long, the header takes e of them.               *)
LEMMA PageDivision ==
  ASSUME NEW a \in Arena
  PROVE  \E d, e \in Nat :
           /\ PGSIZE = d * Caches[a] /\ FirstOff(a) = e * Caches[a]
           /\ e * Caches[a] >= HDR /\ NBlocks(a) = d - e /\ d - e > 1
<1>. PICK c \in Nat \ {0} : c = Caches[a]
  BY Zenon, CacheType
<1>1. PGSIZE % c = 0 /\ NBlocks(a) > 1
  BY Zenon, BlockSizeAssumption
<1>2. PICK d \in Nat : PGSIZE = d * c
  <2>1. PGSIZE = (PGSIZE \div c) * c + (PGSIZE % c) /\ PGSIZE \div c \in Nat
    BY Zenon, DivMod, Header0
  <2>. QED  BY <2>1, <1>1, Header0
<1>3. PICK e \in Nat : e = (HDR + c - 1) \div c /\ e * c >= HDR
  BY Zenon, Ceiling, Header0
<1>4. FirstOff(a) = e * c
  BY Zenon, <1>3 DEF FirstOff
<1>5. NBlocks(a) = (d * c - e * c + c - 1) \div c
  BY Zenon, <1>4, <1>2 DEF NBlocks
<1>6. d * c - e * c + c - 1 = (d - e) * c + (c - 1)
  BY <1>2, <1>3
<1>7. NBlocks(a) = d - e
  <2>. PICK n \in Int, r \in 0 .. c - 1 : n = d - e /\ r = c - 1
    OBVIOUS
  <2>1. (n * c + r) \div c = n
    BY Zenon, DivUp
  <2>. QED  BY Zenon, <1>5, <1>6, <2>1
<1>. QED  BY Zenon, <1>1, <1>2, <1>3, <1>4, <1>7

LEMMA NBlocksType ==
  ASSUME NEW a \in Arena
  PROVE  NBlocks(a) \in Nat /\ NBlocks(a) > 1
BY PageDivision

(* Blocks are past the header, inside the page, and do not overlap.        *)
LEMMA BlockPlace ==
  ASSUME NEW a \in Arena, NEW k \in 0 .. NBlocks(a) - 1
  PROVE  /\ BlockOff(a, k) \in Nat /\ BlockOff(a, k) >= HDR
         /\ BlockOff(a, k) + Caches[a] <= PGSIZE
         /\ \A j \in 0 .. NBlocks(a) - 1 :
              j < k => BlockOff(a, j) + Caches[a] <= BlockOff(a, k)
<1>. PICK c \in Nat \ {0} : c = Caches[a]
  BY Zenon, CacheType
<1>1. PICK d, e \in Nat : /\ PGSIZE = d * c /\ FirstOff(a) = e * c
                          /\ e * c >= HDR /\ NBlocks(a) = d - e /\ d - e > 1
  BY Zenon, PageDivision
<1>2. k \in Nat /\ k + 1 <= d - e
  BY <1>1
<1>3. BlockOff(a, k) = e * c + k * c
  BY Zenon, <1>1 DEF BlockOff
<1>4. k * c \in Nat /\ e * c \in Nat
  BY <1>2
<1>5. e * c + k * c + c <= d * c
  <2>1. (e + k + 1) * c <= d * c
    BY <1>1, <1>2
  <2>. QED  BY <2>1, <1>2
<1>6. ASSUME NEW j \in 0 .. NBlocks(a) - 1, j < k
      PROVE  BlockOff(a, j) + c <= BlockOff(a, k)
  <2>1. j \in Nat /\ j + 1 <= k
    BY <1>6, <1>1
  <2>2. (j + 1) * c <= k * c
    BY <2>1, <1>2
  <2>3. BlockOff(a, j) = e * c + j * c
    BY Zenon, <1>1 DEF BlockOff
  <2>. QED  BY <2>1, <2>2, <2>3, <1>3, <1>4
<1>. PICK x, y \in Nat : x = k * c /\ y = e * c
  BY Zenon, <1>4
<1>7. /\ BlockOff(a, k) \in Nat /\ BlockOff(a, k) >= HDR
      /\ BlockOff(a, k) + c <= PGSIZE
  BY <1>1, <1>3, <1>5, Header0
<1>. QED  BY Zenon, <1>6, <1>7

LEMMA BlocksPlace ==
  ASSUME NEW a \in Arena, NEW p \in Page, NEW b \in Blocks(p, a)
  PROVE  /\ b \in Addr /\ b = <<p, b[2]>> /\ b[1] = p /\ b[2] \in Nat /\ b[2] >= HDR
         /\ b[2] + Caches[a] <= PGSIZE
         /\ \A c \in Blocks(p, a) :
              b # c => b[2] + Caches[a] <= c[2] \/ c[2] + Caches[a] <= b[2]
<1>1. PICK k \in 0 .. NBlocks(a) - 1 : b = <<p, BlockOff(a, k)>>
  BY Zenon DEF Blocks
<1>2. /\ BlockOff(a, k) \in Nat /\ BlockOff(a, k) >= HDR
      /\ BlockOff(a, k) + Caches[a] <= PGSIZE
  BY Zenon, BlockPlace
<1>3. ASSUME NEW c \in Blocks(p, a), b # c
      PROVE  b[2] + Caches[a] <= c[2] \/ c[2] + Caches[a] <= b[2]
  <2>1. PICK j \in 0 .. NBlocks(a) - 1 : c = <<p, BlockOff(a, j)>>
    BY Zenon DEF Blocks
  <2>2. j # k
    BY Zenon, <2>1, <1>1, <1>3
  <2>3. j < k \/ k < j
    BY <2>2, NBlocksType
  <2>4. CASE j < k
    BY Zenon, <2>4, <2>1, <1>1, BlockPlace
  <2>5. CASE k < j
    BY Zenon, <2>5, <2>1, <1>1, BlockPlace
  <2>. QED  BY Zenon, <2>3, <2>4, <2>5
<1>. PICK o \in Nat : o = BlockOff(a, k)
  BY Zenon, <1>2
<1>4. Caches[a] \in Nat \ {0} /\ o \in 0 .. PGSIZE - 1
  BY <1>2, CacheType, ConstantsAssumption
<1>5. b \in Addr /\ b = <<p, b[2]>> /\ b[1] = p /\ b[2] = o
  BY Zenon, <1>1, <1>4 DEF Addr
<1>. QED  BY Zenon, <1>2, <1>3, <1>5

-----------------------------------------------------------------------------
(* Free lists: what a push, a pop and a full list hold.                    *)

LEMMA Push ==
  ASSUME NEW S, NEW s \in Seq(S), NEW x \in S
  PROVE  /\ <<x>> \o s \in Seq(S) /\ Len(<<x>> \o s) = Len(s) + 1
         /\ Elems(<<x>> \o s) = {x} \cup Elems(s)
         /\ Tail(<<x>> \o s) = s /\ <<x>> \o s # <<>>
         /\ Distinct(s) /\ x \notin Elems(s) => Distinct(<<x>> \o s)
<1>. DEFINE t == <<x>> \o s
<1>1. /\ t \in Seq(S) /\ Len(t) = Len(s) + 1 /\ Len(s) \in Nat
      /\ t[1] = x /\ \A i \in 1 .. Len(s) : t[i + 1] = s[i]
  OBVIOUS
<1>2. DOMAIN t = 1 .. Len(s) + 1 /\ DOMAIN s = 1 .. Len(s)
  BY <1>1
<1>3. \A i \in DOMAIN t : i = 1 \/ (i - 1 \in DOMAIN s /\ t[i] = s[i - 1])
  BY <1>1, <1>2
<1>4. Tail(t) = s
  OBVIOUS
<1>. HIDE DEF t
<1>5. Elems(t) = {x} \cup Elems(s)
  <2>1. \A e \in Elems(t) : e = x \/ e \in Elems(s)
    BY <1>1, <1>3 DEF Elems
  <2>2. x \in Elems(t)
    BY <1>1, <1>2 DEF Elems
  <2>3. ASSUME NEW e \in Elems(s)
        PROVE  e \in Elems(t)
    <3>1. PICK i \in 1 .. Len(s) : e = s[i]
      BY Zenon, <1>2 DEF Elems
    <3>2. i + 1 \in DOMAIN t /\ t[i + 1] = e
      BY <1>1, <1>2, <3>1
    <3>. QED  BY Zenon, <3>2 DEF Elems
  <2>. QED  BY Zenon, <2>1, <2>2, <2>3
<1>6. ASSUME Distinct(s), x \notin Elems(s)
      PROVE  Distinct(t)
  <2>. SUFFICES ASSUME NEW i \in DOMAIN t, NEW j \in DOMAIN t, t[i] = t[j]
                PROVE  i = j
    BY Zenon DEF Distinct
  <2>0. i \in Nat /\ j \in Nat
    BY <1>1, <1>2
  <2>1. CASE i = 1 \/ j = 1
    BY Zenon, <2>1, <1>1, <1>3, <1>6 DEF Elems
  <2>2. CASE i # 1 /\ j # 1
    <3>1. i - 1 \in DOMAIN s /\ j - 1 \in DOMAIN s /\ s[i - 1] = s[j - 1]
      BY Zenon, <2>2, <1>3
    <3>2. i - 1 = j - 1
      BY Zenon, <3>1, <1>6 DEF Distinct
    <3>. QED  BY <3>2, <2>0
  <2>. QED  BY Zenon, <2>1, <2>2
<1>7. t # <<>>
  BY <1>1, <1>2
<1>. QED  BY Zenon, <1>1, <1>4, <1>5, <1>6, <1>7 DEF t

LEMMA Pop ==
  ASSUME NEW S, NEW s \in Seq(S), s # <<>>, Distinct(s)
  PROVE  /\ Tail(s) \in Seq(S) /\ Head(s) \in S /\ Head(s) \in Elems(s)
         /\ Elems(Tail(s)) = Elems(s) \ {Head(s)}
         /\ Distinct(Tail(s))
<1>1. /\ Len(s) \in Nat \ {0} /\ Head(s) = s[1] /\ Tail(s) \in Seq(S) /\ Head(s) \in S
      /\ Len(Tail(s)) = Len(s) - 1 /\ \A i \in 1 .. Len(s) - 1 : Tail(s)[i] = s[i + 1]
  OBVIOUS
<1>2. DOMAIN s = 1 .. Len(s) /\ DOMAIN Tail(s) = 1 .. Len(s) - 1
  BY <1>1
<1>3. Head(s) \in Elems(s)
  BY <1>1, <1>2 DEF Elems
<1>4. ASSUME NEW e \in Elems(Tail(s))
      PROVE  e \in Elems(s) /\ e # Head(s)
  <2>1. PICK i \in 1 .. Len(s) - 1 : e = Tail(s)[i]
    BY Zenon, <1>2 DEF Elems
  <2>2. i + 1 \in DOMAIN s /\ 1 \in DOMAIN s /\ i + 1 # 1 /\ e = s[i + 1]
    BY <2>1, <1>1, <1>2
  <2>. QED  BY Zenon, <2>2, <1>1 DEF Elems, Distinct
<1>5. ASSUME NEW e \in Elems(s), e # Head(s)
      PROVE  e \in Elems(Tail(s))
  <2>1. PICK i \in 1 .. Len(s) : e = s[i]
    BY Zenon, <1>2 DEF Elems
  <2>2. i - 1 \in DOMAIN Tail(s) /\ Tail(s)[i - 1] = e
    BY <2>1, <1>1, <1>2, <1>5
  <2>. QED  BY Zenon, <2>2 DEF Elems
<1>6. Distinct(Tail(s))
  <2>. SUFFICES ASSUME NEW i \in DOMAIN Tail(s), NEW j \in DOMAIN Tail(s),
                       Tail(s)[i] = Tail(s)[j]
                PROVE  i = j
    BY Zenon DEF Distinct
  <2>1. i + 1 \in DOMAIN s /\ j + 1 \in DOMAIN s /\ s[i + 1] = s[j + 1]
    BY <1>1, <1>2
  <2>2. i + 1 = j + 1
    BY Zenon, <2>1 DEF Distinct
  <2>. QED  BY <2>2, <1>1, <1>2
<1>. QED  BY Zenon, <1>1, <1>3, <1>4, <1>5, <1>6

LEMMA NewPageList ==
  ASSUME NEW a \in Arena, NEW p \in Page
  PROVE  /\ InitialList(p, a) \in Seq(Addr) /\ Len(InitialList(p, a)) = NBlocks(a)
         /\ Distinct(InitialList(p, a)) /\ Elems(InitialList(p, a)) = Blocks(p, a)
<1>. PICK n \in Nat \ {0} : n = NBlocks(a)
  BY NBlocksType
<1>. DEFINE s == InitialList(p, a)
<1>1. s = [i \in 1 .. n |-> <<p, BlockOff(a, n - i)>>]
  BY Zenon DEF InitialList
<1>2. \A i \in 1 .. n : n - i \in 0 .. n - 1
  OBVIOUS
<1>3. \A i \in 1 .. n : s[i] \in Blocks(p, a)
  BY Zenon, <1>1, <1>2 DEF Blocks
<1>4. \A i \in 1 .. n : s[i] \in Addr
  BY Zenon, <1>3, BlocksPlace
<1>5. s \in Seq(Addr) /\ Len(s) = n /\ DOMAIN s = 1 .. n
  BY <1>1, <1>4
<1>6. Elems(s) \subseteq Blocks(p, a)
  BY Zenon, <1>3, <1>5 DEF Elems
<1>7. Distinct(s)
  <2>. SUFFICES ASSUME NEW i \in 1 .. n, NEW j \in 1 .. n, s[i] = s[j]
                PROVE  i = j
    BY Zenon, <1>5 DEF Distinct
  <2>. PICK x, y \in 0 .. n - 1 : x = n - i /\ y = n - j
    BY Zenon, <1>2
  <2>1. BlockOff(a, x) = BlockOff(a, y)
    BY <1>1
  <2>2. /\ BlockOff(a, x) \in Nat /\ Caches[a] \in Nat \ {0}
        /\ x < y => BlockOff(a, x) + Caches[a] <= BlockOff(a, y)
        /\ y < x => BlockOff(a, y) + Caches[a] <= BlockOff(a, x)
    BY Zenon, BlockPlace, CacheType
  <2>3. x = y
    BY <2>1, <2>2
  <2>. QED  BY <2>3
<1>. HIDE DEF s
<1>8. Elems(s) = Blocks(p, a)
  <2>1. ASSUME NEW b \in Blocks(p, a)
        PROVE  b \in Elems(s)
    <3>1. PICK k \in 0 .. n - 1 : b = <<p, BlockOff(a, k)>>
      BY Zenon DEF Blocks
    <3>2. PICK i \in 1 .. n : k = n - i
      <4>1. n - k \in 1 .. n /\ k = n - (n - k)
        OBVIOUS
      <4>. QED  BY Zenon, <4>1
    <3>3. s[i] = b
      BY Zenon, <1>1, <3>1, <3>2 DEF s
    <3>. QED  BY Zenon, <1>5, <3>3 DEF Elems
  <2>. QED  BY Zenon, <1>6, <2>1
<1>. QED  BY Zenon, <1>5, <1>7, <1>8 DEF s

-----------------------------------------------------------------------------
(* What a request gets: blocks and runs of pages that hold it.             *)

(* A request that size + HDR does not wrap around, as NoWrap has them all. *)
Request == {s \in Nat : s + HDR + PGSIZE <= SizeMod}

LEMMA Requests ==
  /\ \A s \in Sizes : s \in Request
  /\ \A s \in Sizes, n \in Counts : (n * s) % SizeMod \in Request
<1>1. ASSUME NEW s \in Sizes
      PROVE  s \in Request
  <2>1. s \in Nat /\ 1 * s + HDR + PGSIZE <= SizeMod
    BY Zenon, NoWrap, ConstantsAssumption
  <2>. QED  BY <2>1 DEF Request
<1>2. ASSUME NEW s \in Sizes, NEW n \in Counts
      PROVE  (n * s) % SizeMod \in Request
  <2>1. n * s \in Nat /\ n * s + HDR + PGSIZE <= SizeMod
    BY NoWrap, ConstantsAssumption
  <2>. PICK x \in Nat : x = n * s
    BY Zenon, <2>1
  <2>2. x < SizeMod /\ SizeMod \in Nat \ {0}
    BY <2>1, Header0, ConstantsAssumption
  <2>3. x % SizeMod = x
    BY <2>2
  <2>. QED  BY Zenon, <2>1, <2>3 DEF Request
<1>. QED  BY Zenon, <1>1, <1>2

LEMMA Largest ==
  /\ MaxSmall \in Nat \ {0}
  /\ \A a \in Arena : Caches[a] <= MaxSmall
<1>1. Len(Caches) \in Arena
  BY ConstantsAssumption DEF Arena
<1>2. ASSUME NEW a \in Arena
      PROVE  Caches[a] <= MaxSmall
  <2>1. a = Len(Caches) \/ a < Len(Caches)
    BY ConstantsAssumption DEF Arena
  <2>2. Caches[a] \in Nat /\ Caches[Len(Caches)] \in Nat
    BY Zenon, <1>1, CacheType
  <2>. QED  BY <2>1, <2>2, <1>1, CachesIncrease DEF MaxSmall
<1>. QED  BY Zenon, <1>1, <1>2, CacheType DEF MaxSmall

LEMMA ArenaForFits ==
  ASSUME Counting, NEW size \in Nat, size <= MaxSmall
  PROVE  ArenaFor(size) \in Arena /\ size <= Caches[ArenaFor(size)]
<1>1. \E a \in Arena : Caches[a] >= size /\ \A b \in Arena : b < a => Caches[b] < size
  BY Zenon DEF Counting
<1>2. ArenaFor(size) \in Arena /\ Caches[ArenaFor(size)] >= size
  BY Zenon, <1>1 DEF ArenaFor
<1>. QED  BY Zenon, <1>2, CacheType

LEMMA PagesUp ==
  ASSUME NEW x \in Nat \ {0}, x + PGSIZE <= SizeMod
  PROVE  /\ ((x + PGSIZE - 1) % SizeMod) \div PGSIZE \in Nat \ {0}
         /\ (((x + PGSIZE - 1) % SizeMod) \div PGSIZE) * PGSIZE >= x
<1>. PICK c \in Nat \ {0}, M \in Nat \ {0} : c = PGSIZE /\ M = SizeMod
  BY Zenon, Header0, ConstantsAssumption
<1>. PICK y \in Nat : y = x + c - 1
  OBVIOUS
<1>1. y % M = y
  <2>1. y < M
    OBVIOUS
  <2>. QED  BY <2>1
<1>2. y \div c \in Nat /\ (y \div c) * c >= x
  BY Zenon, Ceiling
<1>. PICK n \in Nat : n = y \div c
  BY Zenon, <1>2
<1>3. n # 0
  BY <1>2
<1>. QED  BY Zenon, <1>1, <1>2, <1>3

LEMMA LargeFits ==
  ASSUME NEW size \in Request
  PROVE  LargePages(size) \in Nat \ {0} /\ HDR + size <= LargePages(size) * PGSIZE
<1>1. size \in Nat /\ size + HDR \in Nat \ {0} /\ (size + HDR) + PGSIZE <= SizeMod
  BY Header0 DEF Request
<1>. PICK x \in Nat \ {0} : x = size + HDR
  BY Zenon, <1>1
<1>2. x % SizeMod = x
  <2>1. x < SizeMod /\ SizeMod \in Nat \ {0}
    BY <1>1, Header0, ConstantsAssumption
  <2>. QED  BY <2>1
<1>3. /\ ((x + PGSIZE - 1) % SizeMod) \div PGSIZE \in Nat \ {0}
      /\ (((x + PGSIZE - 1) % SizeMod) \div PGSIZE) * PGSIZE >= x
  BY Zenon, <1>1, PagesUp
<1>4. LargePages(size) = ((x + PGSIZE - 1) % SizeMod) \div PGSIZE
  BY Zenon, <1>2 DEF LargePages
<1>. HIDE DEF LargePages
<1>. PICK n \in Nat \ {0} : n = LargePages(size)
  BY Zenon, <1>3, <1>4
<1>5. n * PGSIZE >= x
  BY Zenon, <1>3, <1>4
<1>. QED  BY <1>1, <1>5, Header0

LEMMA RawFits ==
  ASSUME NEW size \in Request, size > MaxSmall
  PROVE  RawPages(size) \in Nat \ {0} /\ size <= RawPages(size) * PGSIZE
<1>1. size \in Nat \ {0} /\ size + PGSIZE <= SizeMod
  BY Header0, Largest, ConstantsAssumption DEF Request
<1>2. /\ ((size + PGSIZE - 1) % SizeMod) \div PGSIZE \in Nat \ {0}
      /\ (((size + PGSIZE - 1) % SizeMod) \div PGSIZE) * PGSIZE >= size
  BY Zenon, <1>1, PagesUp
<1>. PICK n \in Nat \ {0} : n = RawPages(size)
  BY Zenon, <1>2 DEF RawPages
<1>3. n * PGSIZE >= size
  BY Zenon, <1>2 DEF RawPages
<1>. QED  BY Zenon, <1>1, <1>3, Header0

LEMMA RawType ==
  ASSUME NEW size \in Nat
  PROVE  RawPages(size) \in Nat
<1>. PICK c \in Nat \ {0}, M \in Nat \ {0} : c = PGSIZE /\ M = SizeMod
  BY Zenon, Header0, ConstantsAssumption
<1>1. (size + c - 1) % M \in Nat
  OBVIOUS
<1>2. \A x \in Nat : x \div c \in Nat
  BY Zenon, DivMod
<1>. QED  BY Zenon, <1>1, <1>2 DEF RawPages

-----------------------------------------------------------------------------
(* Facts about any heap of the invariant.                                  *)

LEMMA HeapFields ==
  ASSUME NEW h \in Heaps
  PROVE  /\ h.pg \in [Page -> Header] /\ h.mapped \subseteq Page
         /\ h.freelist \in [Arena -> Seq(Addr)] /\ h.idle \in [Arena -> Page \cup {NULL}]
BY Zenon DEF Heaps

LEMMA HeaderFields ==
  ASSUME NEW h \in Heaps, NEW p \in Page
  PROVE  /\ h.pg[p] \in Header
         /\ h.pg[p].are \in Arena \cup {NULL} /\ h.pg[p].fl \in Seq(Addr)
         /\ h.pg[p].avail \in Nat /\ h.pg[p].total \in Nat
         /\ h.pg[p].magic \in BOOLEAN /\ h.pg[p].npages \in Nat
<1>1. h.pg[p] \in Header
  BY Zenon, HeapFields
<1>. QED  BY Zenon, <1>1 DEF Header

LEMMA ListType ==
  ASSUME NEW h \in Heaps, NEW a \in Arena
  PROVE  h.freelist[a] \in Seq(Addr) /\ h.idle[a] \in Page \cup {NULL}
BY Zenon, HeapFields

LEMMA NullApart == NULL \notin Arena /\ NULL \notin Page
BY DEF NULL, Arena, Page

LEMMA AllocFields ==
  ASSUME NEW l \in Allocs
  PROVE  /\ l.pt \in Addr /\ l.pt[1] \in Page /\ l.pt[2] \in 0 .. PGSIZE - 1
         /\ l.pt = <<l.pt[1], l.pt[2]>>
         /\ l.size \in Nat /\ l.api \in {"malloc", "cpp"}
<1>1. l.pt \in Addr /\ l.size \in Nat /\ l.api \in {"malloc", "cpp"}
  BY Zenon DEF Allocs
<1>. QED  BY <1>1 DEF Addr

LEMMA WidthType ==
  ASSUME NEW h \in Heaps, NEW l \in Allocs
  PROVE  Width(h, l) \in Nat
BY Zenon, HeaderFields, AllocFields, RawType DEF Width

(* A page of a slab has its header and is mapped.                          *)
LEMMA SlabMapped ==
  ASSUME NEW h \in Heaps, PageInv(h), NEW p \in Page, h.pg[p].are # NULL
  PROVE  /\ h.pg[p].are \in Arena /\ p \in h.mapped
         /\ h.pg[p].magic /\ h.pg[p].npages = 0
<1>1. h.pg[p].are \in Arena
  BY Zenon, HeaderFields
<1>2. p \in h.mapped /\ h.pg[p].npages = 0
  BY Zenon DEF PageInv
<1>3. h.pg[p].magic
  BY Zenon DEF PageInv
<1>. QED  BY Zenon, <1>1, <1>2, <1>3

LEMMA SlabPagesAre ==
  ASSUME NEW h \in Heaps, PageInv(h)
  PROVE  SlabPages(h) = {p \in Page : h.pg[p].are # NULL}
<1>1. \A p \in SlabPages(h) : p \in Page /\ h.pg[p].are # NULL
  BY Zenon, HeapFields DEF SlabPages
<1>2. ASSUME NEW p \in Page, h.pg[p].are # NULL
      PROVE  p \in SlabPages(h)
  <2>1. p \in h.mapped /\ h.pg[p].magic
    BY Zenon, <1>2, SlabMapped
  <2>. QED  BY Zenon, <2>1, <1>2 DEF SlabPages
<1>. QED  BY Zenon, <1>1, <1>2

(* What an arena has on its list is in pages of its own.                   *)
LEMMA OnListOf ==
  ASSUME NEW h \in Heaps, ArenaInv(h), NEW a \in Arena, NEW b \in Elems(h.freelist[a])
  PROVE  b[1] \in Page /\ h.pg[b[1]].are = a /\ b \in Blocks(b[1], a)
BY Zenon DEF ArenaInv

(* The page of an allocation, and all its pages, are mapped.               *)
LEMMA LiveMapped ==
  ASSUME NEW h \in Heaps, PageInv(h), NEW L \in SUBSET Allocs, LiveInv(h, L), NEW l \in L
  PROVE  /\ l.pt[1] \in h.mapped
         /\ Big(h, l) => Span(h, l) \subseteq h.mapped
<1>1. l \in Allocs /\ l.pt[1] \in Page
  BY Zenon, AllocFields
<1>2. CASE Big(h, l)
  BY Zenon, <1>2 DEF LiveInv, BigInv
<1>3. CASE ~ Big(h, l)
  BY Zenon, <1>1, <1>3, SlabMapped DEF Big
<1>. QED  BY Zenon, <1>2, <1>3

LEMMA NoElems == Elems(<<>>) = {} /\ Distinct(<<>>)
BY DEF Elems, Distinct

LEMMA BlocksNonempty ==
  ASSUME NEW a \in Arena, NEW p \in Page
  PROVE  Blocks(p, a) # {}
<1>1. 0 \in 0 .. NBlocks(a) - 1
  BY NBlocksType
<1>. QED  BY Zenon, <1>1 DEF Blocks

(* Blocks of two pages differ.                                             *)
LEMMA BlocksOwn ==
  ASSUME NEW a \in Arena, NEW c \in Arena, NEW p \in Page, NEW q \in Page, p # q
  PROVE  Blocks(p, a) \cap Blocks(q, c) = {}
BY Zenon, BlocksPlace

(* An allocation keeps its place while its pages keep their headers.       *)
LEMMA AllocFrame ==
  ASSUME NEW h \in Heaps, NEW g \in Heaps, NEW l \in Allocs,
         IF Big(h, l) THEN BigInv(h, l) ELSE SmallInv(h, l),
         g.pg[l.pt[1]].are = h.pg[l.pt[1]].are,
         g.pg[l.pt[1]].npages = h.pg[l.pt[1]].npages,
         Big(h, l) => /\ Span(h, l) \subseteq g.mapped
                      /\ \A q \in Span(h, l) : /\ g.pg[q].are = h.pg[q].are
                                               /\ g.pg[q].npages = h.pg[q].npages
  PROVE  /\ Big(g, l) <=> Big(h, l)
         /\ Span(g, l) = Span(h, l)
         /\ IF Big(g, l) THEN BigInv(g, l) ELSE SmallInv(g, l)
<1>1. Big(g, l) <=> Big(h, l)
  BY Zenon DEF Big
<1>2. Width(g, l) = Width(h, l)
  BY Zenon DEF Width
<1>3. Span(g, l) = Span(h, l)
  BY Zenon, <1>2 DEF Span
<1>4. CASE Big(h, l)
  BY Zenon, <1>1, <1>2, <1>3, <1>4 DEF BigInv
<1>5. CASE ~ Big(h, l)
  <2>1. SmallInv(h, l)
    BY Zenon, <1>5
  <2>2. SmallInv(g, l)
    BY Zenon, <2>1 DEF SmallInv
  <2>. QED  BY <1>1, <1>3, <1>5, <2>2, Zenon
<1>. QED  BY Zenon, <1>1, <1>3, <1>4, <1>5

LEMMA LiveFrame ==
  ASSUME NEW h \in Heaps, NEW g \in Heaps, NEW L \in SUBSET Allocs, PageInv(h), LiveInv(h, L),
         h.mapped \subseteq g.mapped,
         \A q \in h.mapped : /\ g.pg[q].are = h.pg[q].are
                             /\ g.pg[q].npages = h.pg[q].npages
  PROVE  /\ LiveInv(g, L)
         /\ \A l \in L : (Big(g, l) <=> Big(h, l)) /\ Span(g, l) = Span(h, l)
<1>1. ASSUME NEW l \in L
      PROVE  /\ Big(g, l) <=> Big(h, l)
             /\ Span(g, l) = Span(h, l)
             /\ IF Big(g, l) THEN BigInv(g, l) ELSE SmallInv(g, l)
  <2>1. l \in Allocs /\ (IF Big(h, l) THEN BigInv(h, l) ELSE SmallInv(h, l))
    BY Zenon DEF LiveInv
  <2>2. l.pt[1] \in h.mapped /\ (Big(h, l) => Span(h, l) \subseteq h.mapped)
    BY Zenon, LiveMapped
  <2>. QED  BY Zenon, <2>1, <2>2, AllocFrame
<1>2. ASSUME NEW k \in L, NEW l \in L, k # l
      PROVE  k.pt # l.pt /\ (Big(g, k) /\ Big(g, l) => Span(g, k) \cap Span(g, l) = {})
  BY Zenon, <1>1, <1>2 DEF LiveInv
<1>. QED  BY Zenon, <1>1, <1>2 DEF LiveInv

-----------------------------------------------------------------------------
(* arena_alloc, in its three steps.                                        *)

(* A page is mapped and made the idle page of an arena that has nothing.   *)
NewPage(h, g, a, m) ==
  /\ g.mapped = h.mapped \cup {m} /\ g.freelist = h.freelist
  /\ g.idle[a] = m /\ \A c \in Arena : c # a => g.idle[c] = h.idle[c]
  /\ \A q \in Page : q # m => g.pg[q] = h.pg[q]
  /\ g.pg[m].are = a /\ g.pg[m].fl = InitialList(m, a)
  /\ g.pg[m].avail = NBlocks(a) /\ g.pg[m].total = NBlocks(a)
  /\ g.pg[m].magic = TRUE /\ g.pg[m].npages = 0

LEMMA NewPageKeeps ==
  ASSUME NEW h, NEW L, Inv(h, L), NEW a \in Arena, NEW m \in Page, m \notin h.mapped,
         h.freelist[a] = <<>>, h.idle[a] = NULL,
         NEW g \in Heaps, NewPage(h, g, a, m)
  PROVE  Inv(g, L)
<1>. USE NullApart
<1>1. /\ h \in Heaps /\ L \subseteq Allocs /\ PageInv(h) /\ ArenaInv(h) /\ SlabInv(h, L)
      /\ IdleInv(h) /\ LiveInv(h, L)
  BY Zenon DEF Inv
<1>2. h.pg[m].are = NULL
  BY Zenon, <1>1 DEF PageInv
<1>0. /\ g.mapped = h.mapped \cup {m} /\ g.freelist = h.freelist
      /\ g.idle[a] = m /\ \A c \in Arena : c # a => g.idle[c] = h.idle[c]
      /\ \A q \in Page : q # m => g.pg[q] = h.pg[q]
  BY Zenon DEF NewPage
<1>. USE <1>0
<1>3. /\ g.pg[m].are = a /\ g.pg[m].fl = InitialList(m, a) /\ g.pg[m].avail = NBlocks(a)
      /\ g.pg[m].total = NBlocks(a) /\ g.pg[m].magic /\ g.pg[m].npages = 0
  BY Zenon DEF NewPage
<1>4. PageInv(g)
  <2>. SUFFICES ASSUME NEW p \in Page
                PROVE  /\ p \notin g.mapped => g.pg[p].are = NULL /\ g.pg[p].npages = 0
                       /\ g.pg[p].magic <=> g.pg[p].are # NULL \/ g.pg[p].npages # 0
                       /\ g.pg[p].are # NULL => g.pg[p].npages = 0
    BY Zenon DEF PageInv
  <2>1. CASE p = m
    BY Zenon, <2>1, <1>3
  <2>2. CASE p # m
    <3>1. g.pg[p] = h.pg[p] /\ (p \in g.mapped <=> p \in h.mapped)
      BY Zenon, <2>2
    <3>2. /\ p \notin h.mapped => h.pg[p].are = NULL /\ h.pg[p].npages = 0
          /\ h.pg[p].magic <=> h.pg[p].are # NULL \/ h.pg[p].npages # 0
          /\ h.pg[p].are # NULL => h.pg[p].npages = 0
      BY Zenon, <1>1 DEF PageInv
    <3>. QED  BY <3>1, <3>2, Zenon
  <2>. QED  BY Zenon, <2>1, <2>2
<1>5. ArenaInv(g)
  <2>. SUFFICES ASSUME NEW c \in Arena
                PROVE  /\ Distinct(g.freelist[c])
                       /\ \A b \in Elems(g.freelist[c]) :
                            b[1] \in Page /\ g.pg[b[1]].are = c /\ b \in Blocks(b[1], c)
                       /\ g.idle[c] # NULL => g.pg[g.idle[c]].are = c
    BY Zenon DEF ArenaInv
  <2>1. Distinct(g.freelist[c])
    BY Zenon, <1>1 DEF ArenaInv
  <2>2. ASSUME NEW b \in Elems(g.freelist[c])
        PROVE  b[1] \in Page /\ g.pg[b[1]].are = c /\ b \in Blocks(b[1], c)
    <3>1. b[1] \in Page /\ h.pg[b[1]].are = c /\ b \in Blocks(b[1], c)
      BY Zenon, <1>1, OnListOf
    <3>2. b[1] # m
      BY Zenon, <3>1, <1>2
    <3>. QED  BY Zenon, <3>1, <3>2
  <2>3. ASSUME g.idle[c] # NULL
        PROVE  g.pg[g.idle[c]].are = c
    <3>1. CASE c = a
      BY Zenon, <3>1, <1>1, <1>3, HeapFields
    <3>2. CASE c # a
      <4>1. g.idle[c] = h.idle[c] /\ h.idle[c] \in Page
        BY <3>2, <2>3, <1>1, HeapFields
      <4>2. h.pg[h.idle[c]].are = c
        BY Zenon, <4>1, <2>3, <1>1 DEF ArenaInv
      <4>3. h.idle[c] # m
        BY Zenon, <4>2, <1>2
      <4>. QED  BY Zenon, <4>1, <4>2, <4>3
    <3>. QED  BY Zenon, <3>1, <3>2
  <2>. QED  BY Zenon, <2>1, <2>2, <2>3
<1>6. \A l \in L : l.pt[1] # m
  BY Zenon, <1>1, LiveMapped
<1>7. SlabInv(g, L)
  <2>. SUFFICES ASSUME NEW p \in Page, g.pg[p].are # NULL
                PROVE  SlabPageInv(g, L, p)
    BY Zenon DEF SlabInv
  <2>1. CASE p = m
    <3>1. /\ OnPage(g, p) = Blocks(p, a) /\ Distinct(g.pg[p].fl)
          /\ Len(g.pg[p].fl) = NBlocks(a)
      BY <2>1, <1>3, NewPageList DEF OnPage
    <3>2. OnArena(g, p) = {}
      BY Zenon, <2>1, <1>3, NoElems DEF OnArena
    <3>3. \A b \in Blocks(p, a) : b \notin HeldBy(L)
      BY <2>1, <1>6, BlocksPlace DEF HeldBy
    <3>. QED  BY <2>1, <1>3, <3>1, <3>2, <3>3 DEF SlabPageInv
  <2>2. CASE p # m
    <3>1. g.pg[p] = h.pg[p]
      BY Zenon, <2>2
    <3>2. SlabPageInv(h, L, p)
      BY Zenon, <3>1, <1>1 DEF SlabInv
    <3>3. OnPage(g, p) = OnPage(h, p) /\ OnArena(g, p) = OnArena(h, p)
      BY Zenon, <3>1 DEF OnPage, OnArena
    <3>. QED  BY Zenon, <3>1, <3>2, <3>3 DEF SlabPageInv
  <2>. QED  BY Zenon, <2>1, <2>2
<1>8. IdleInv(g)
  <2>. SUFFICES ASSUME NEW p \in Page, g.pg[p].are # NULL
                PROVE  IdlePageInv(g, p)
    BY Zenon DEF IdleInv
  <2>0. h.idle \in [Arena -> Page \cup {NULL}]
    BY Zenon, <1>1, HeapFields
  <2>1. CASE p = m
    BY <2>0, <2>1, <1>3, NewPageList DEF IdlePageInv, OnPage
  <2>2. CASE p # m
    <3>1. g.pg[p] = h.pg[p] /\ h.pg[p].are \in Arena
      BY Zenon, <2>2, <1>1, HeaderFields
    <3>2. IdlePageInv(h, p)
      BY Zenon, <3>1, <1>1 DEF IdleInv
    <3>3. g.idle[h.pg[p].are] = p <=> h.idle[h.pg[p].are] = p
      BY Zenon, <2>0, <2>2, <3>1
    <3>. QED  BY Zenon, <3>1, <3>2, <3>3 DEF IdlePageInv, OnPage
  <2>. QED  BY Zenon, <2>1, <2>2
<1>9. LiveInv(g, L)
  <2>1. \A q \in h.mapped : q \in Page /\ g.pg[q] = h.pg[q]
    BY Zenon, <1>1, HeapFields
  <2>. QED  BY Zenon, <2>1, <1>1, LiveFrame
<1>. QED  BY Zenon, <1>1, <1>4, <1>5, <1>7, <1>8, <1>9 DEF Inv

(* The arena seizes the blocks of its idle page.                           *)
Seized(h, g, a, i) ==
  /\ g.mapped = h.mapped /\ g.freelist[a] = h.pg[i].fl /\ g.idle[a] = NULL
  /\ \A c \in Arena : c # a => g.freelist[c] = h.freelist[c] /\ g.idle[c] = h.idle[c]
  /\ \A q \in Page : q # i => g.pg[q] = h.pg[q]
  /\ g.pg[i].avail = 0 /\ g.pg[i].fl = <<>>
  /\ g.pg[i].are = h.pg[i].are /\ g.pg[i].total = h.pg[i].total
  /\ g.pg[i].magic = h.pg[i].magic /\ g.pg[i].npages = h.pg[i].npages

LEMMA SeizeKeeps ==
  ASSUME NEW h, NEW L, Inv(h, L), NEW a \in Arena, NEW i \in Page,
         h.freelist[a] = <<>>, h.idle[a] = i,
         NEW g \in Heaps, Seized(h, g, a, i)
  PROVE  /\ Inv(g, L) /\ g.freelist[a] # <<>>
         /\ h.pg[i].are = a /\ Elems(h.pg[i].fl) = Blocks(i, a)
<1>. USE NullApart
<1>1. /\ h \in Heaps /\ L \subseteq Allocs /\ PageInv(h) /\ ArenaInv(h) /\ SlabInv(h, L)
      /\ IdleInv(h) /\ LiveInv(h, L)
  BY Zenon DEF Inv
<1>2. h.pg[i].are = a
  BY Zenon, <1>1 DEF ArenaInv
<1>3. SlabPageInv(h, L, i) /\ Elems(h.pg[i].fl) = Blocks(i, a)
  <2>1. SlabPageInv(h, L, i) /\ IdlePageInv(h, i)
    BY Zenon, <1>1, <1>2 DEF SlabInv, IdleInv
  <2>. QED  BY Zenon, <2>1, <1>2 DEF IdlePageInv, OnPage
<1>4. /\ g.pg[i].are = a /\ g.pg[i].fl = <<>> /\ g.pg[i].avail = 0
      /\ g.pg[i].total = h.pg[i].total /\ g.pg[i].magic = h.pg[i].magic
      /\ g.pg[i].npages = h.pg[i].npages
  BY Zenon, <1>2 DEF Seized
<1>0. g.mapped = h.mapped /\ \A q \in Page : q # i => g.pg[q] = h.pg[q]
  BY Zenon DEF Seized
<1>. USE <1>0
<1>5. \A q \in Page : /\ g.pg[q].are = h.pg[q].are /\ g.pg[q].magic = h.pg[q].magic
                      /\ g.pg[q].npages = h.pg[q].npages
  BY Zenon, <1>2, <1>4
<1>6. PageInv(g)
  BY Zenon, <1>1, <1>5 DEF PageInv
<1>7. h.freelist \in [Arena -> Seq(Addr)] /\ h.idle \in [Arena -> Page \cup {NULL}]
  BY Zenon, <1>1, HeapFields
<1>8. /\ g.freelist[a] = h.pg[i].fl /\ g.idle[a] = NULL
      /\ \A c \in Arena : c # a => g.freelist[c] = h.freelist[c] /\ g.idle[c] = h.idle[c]
  BY Zenon DEF Seized
<1>9. ArenaInv(g)
  <2>. SUFFICES ASSUME NEW c \in Arena
                PROVE  /\ Distinct(g.freelist[c])
                       /\ \A b \in Elems(g.freelist[c]) :
                            b[1] \in Page /\ g.pg[b[1]].are = c /\ b \in Blocks(b[1], c)
                       /\ g.idle[c] # NULL => g.pg[g.idle[c]].are = c
    BY Zenon DEF ArenaInv
  <2>1. CASE c = a
    <3>1. Distinct(g.freelist[c]) /\ Elems(g.freelist[c]) = Blocks(i, a)
      BY Zenon, <2>1, <1>3, <1>8 DEF SlabPageInv
    <3>2. \A b \in Blocks(i, a) : b[1] = i
      BY BlocksPlace
    <3>3. ASSUME NEW b \in Elems(g.freelist[c])
          PROVE  b[1] \in Page /\ g.pg[b[1]].are = c /\ b \in Blocks(b[1], c)
      <4>1. b \in Blocks(i, a) /\ b[1] = i
        BY Zenon, <3>1, <3>2
      <4>. QED  BY Zenon, <2>1, <1>4, <4>1
    <3>. QED  BY Zenon, <2>1, <1>8, <3>1, <3>3
  <2>2. CASE c # a
    <3>1. /\ Distinct(h.freelist[c])
          /\ \A b \in Elems(h.freelist[c]) :
               b[1] \in Page /\ h.pg[b[1]].are = c /\ b \in Blocks(b[1], c)
          /\ h.idle[c] # NULL => h.pg[h.idle[c]].are = c
      BY Zenon, <1>1 DEF ArenaInv
    <3>2. g.freelist[c] = h.freelist[c] /\ g.idle[c] = h.idle[c]
      BY Zenon, <2>2, <1>8
    <3>3. \A b \in Elems(h.freelist[c]) : g.pg[b[1]].are = c
      BY Zenon, <3>1, <1>5
    <3>4. h.idle[c] # NULL => g.pg[h.idle[c]].are = c
      BY <3>1, <1>5, <1>7
    <3>. QED  BY Zenon, <3>1, <3>2, <3>3, <3>4
  <2>. QED  BY Zenon, <2>1, <2>2
<1>10. SlabInv(g, L)
  <2>. SUFFICES ASSUME NEW p \in Page, g.pg[p].are # NULL
                PROVE  SlabPageInv(g, L, p)
    BY Zenon DEF SlabInv
  <2>0. SlabPageInv(h, L, p) /\ g.pg[p].are = h.pg[p].are /\ h.pg[p].are \in Arena
    BY Zenon, <1>1, <1>5, HeaderFields DEF SlabInv
  <2>1. CASE p = i
    <3>1. /\ OnPage(g, p) = {} /\ OnArena(g, p) = Blocks(p, a)
          /\ Distinct(g.pg[p].fl) /\ Len(g.pg[p].fl) = 0
      BY Zenon, <2>1, <1>3, <1>4, <1>8, NoElems DEF OnPage, OnArena
    <3>2. \A b \in Blocks(p, a) : b \notin HeldBy(L)
      BY <2>0, <2>1, <1>2, <1>3 DEF SlabPageInv, OnPage
    <3>3. h.pg[p].total = NBlocks(a)
      BY Zenon, <2>0, <2>1, <1>2 DEF SlabPageInv
    <3>. QED  BY Zenon, <2>1, <1>4, <3>1, <3>2, <3>3 DEF SlabPageInv
  <2>2. CASE p # i
    <3>1. g.pg[p] = h.pg[p] /\ OnPage(g, p) = OnPage(h, p)
      BY Zenon, <2>2 DEF OnPage
    <3>2. \A b \in Blocks(p, h.pg[p].are) : b \in OnArena(g, p) <=> b \in OnArena(h, p)
      <4>1. CASE h.pg[p].are = a
        <5>1. OnArena(h, p) = {} /\ OnArena(g, p) = Blocks(i, a)
          BY Zenon, <4>1, <2>0, <1>3, <1>8, NoElems DEF OnArena
        <5>. QED  BY <5>1, <4>1, <2>2, BlocksOwn
      <4>2. CASE h.pg[p].are # a
        BY Zenon, <4>2, <2>0, <1>8 DEF OnArena
      <4>. QED  BY Zenon, <4>1, <4>2
    <3>. QED  BY Zenon, <2>0, <3>1, <3>2 DEF SlabPageInv
  <2>. QED  BY Zenon, <2>1, <2>2
<1>11. IdleInv(g)
  <2>. SUFFICES ASSUME NEW p \in Page, g.pg[p].are # NULL
                PROVE  IdlePageInv(g, p)
    BY Zenon DEF IdleInv
  <2>0. IdlePageInv(h, p) /\ g.pg[p].are = h.pg[p].are /\ h.pg[p].are \in Arena
    BY Zenon, <1>1, <1>5, HeaderFields DEF IdleInv
  <2>1. CASE p = i
    <3>1. OnPage(g, p) = {} /\ Blocks(p, g.pg[p].are) # {}
      BY Zenon, <2>0, <2>1, <1>4, NoElems, BlocksNonempty DEF OnPage
    <3>2. g.idle[g.pg[p].are] # p
      BY Zenon, <2>1, <1>4, <1>8
    <3>. QED  BY Zenon, <3>1, <3>2 DEF IdlePageInv
  <2>2. CASE p # i
    <3>1. g.pg[p] = h.pg[p] /\ OnPage(g, p) = OnPage(h, p)
      BY Zenon, <2>2 DEF OnPage
    <3>2. g.idle[h.pg[p].are] = p <=> h.idle[h.pg[p].are] = p
      BY Zenon, <2>0, <2>2, <1>8
    <3>. QED  BY Zenon, <2>0, <3>1, <3>2 DEF IdlePageInv
  <2>. QED  BY Zenon, <2>1, <2>2
<1>12. LiveInv(g, L)
  <2>1. \A q \in h.mapped : q \in Page
    BY Zenon, <1>1, HeapFields
  <2>. QED  BY Zenon, <2>1, <1>1, <1>5, LiveFrame
<1>13. g.freelist[a] # <<>>
  BY <1>3, <1>8, NoElems, BlocksNonempty
<1>. QED  BY Zenon, <1>1, <1>2, <1>3, <1>6, <1>9, <1>10, <1>11, <1>12, <1>13 DEF Inv

(* The first block of an arena's list goes to the user.                    *)
LEMMA PopKeeps ==
  ASSUME NEW h, NEW L, Inv(h, L), NEW a \in Arena, h.freelist[a] # <<>>,
         NEW n \in Allocs, n.pt = Head(h.freelist[a]), n.size <= Caches[a],
         NEW g \in Heaps, g.mapped = h.mapped, g.pg = h.pg, g.idle = h.idle,
         g.freelist[a] = Tail(h.freelist[a]),
         \A c \in Arena : c # a => g.freelist[c] = h.freelist[c]
  PROVE  Inv(g, L \cup {n}) /\ \A k \in L : k.pt # n.pt
<1>. USE NullApart
<1>1. /\ h \in Heaps /\ L \subseteq Allocs /\ PageInv(h) /\ ArenaInv(h) /\ SlabInv(h, L)
      /\ IdleInv(h) /\ LiveInv(h, L)
  BY Zenon DEF Inv
<1>2. h.freelist \in [Arena -> Seq(Addr)]
  BY Zenon, <1>1, HeapFields
<1>3. /\ n.pt \in Elems(h.freelist[a])
      /\ Elems(g.freelist[a]) = Elems(h.freelist[a]) \ {n.pt}
      /\ Distinct(g.freelist[a])
      /\ \A c \in Arena : c # a => g.freelist[c] = h.freelist[c]
  <2>1. Distinct(h.freelist[a]) /\ h.freelist[a] \in Seq(Addr)
    BY Zenon, <1>1, <1>2 DEF ArenaInv
  <2>2. g.freelist[a] = Tail(h.freelist[a])
    BY Zenon, <1>2
  <2>. QED  BY <2>1, <2>2, <1>2, Pop
<1>. PICK p \in Page : p = n.pt[1]
  BY Zenon, AllocFields
<1>4. h.pg[p].are = a /\ n.pt \in Blocks(p, a)
  BY <1>1, <1>3, OnListOf
<1>5. n.pt \notin OnPage(h, p) /\ n.pt \notin HeldBy(L)
  <2>1. SlabPageInv(h, L, p)
    BY Zenon, <1>1, <1>4 DEF SlabInv
  <2>. QED  BY Zenon, <2>1, <1>3, <1>4 DEF SlabPageInv, OnArena
<1>6. HeldBy(L \cup {n}) = HeldBy(L) \cup {n.pt}
  BY Zenon DEF HeldBy
<1>7. PageInv(g)
  BY <1>1 DEF PageInv
<1>8. ArenaInv(g)
  <2>1. \A c \in Arena : /\ Distinct(g.freelist[c])
                         /\ Elems(g.freelist[c]) \subseteq Elems(h.freelist[c])
    BY Zenon, <1>1, <1>3 DEF ArenaInv
  <2>. SUFFICES ASSUME NEW c \in Arena
                PROVE  /\ Distinct(g.freelist[c])
                       /\ \A b \in Elems(g.freelist[c]) :
                            b[1] \in Page /\ g.pg[b[1]].are = c /\ b \in Blocks(b[1], c)
                       /\ g.idle[c] # NULL => g.pg[g.idle[c]].are = c
    BY Zenon DEF ArenaInv
  <2>. QED  BY <2>1, <1>1 DEF ArenaInv
<1>9. SlabInv(g, L \cup {n})
  <2>. SUFFICES ASSUME NEW q \in Page, g.pg[q].are # NULL
                PROVE  SlabPageInv(g, L \cup {n}, q)
    BY Zenon DEF SlabInv
  <2>1. SlabPageInv(h, L, q) /\ OnPage(g, q) = OnPage(h, q) /\ h.pg[q].are \in Arena
    BY Zenon, <1>1, HeaderFields DEF SlabInv, OnPage
  <2>2. ASSUME NEW b \in Blocks(q, h.pg[q].are)
        PROVE  /\ b \in OnPage(g, q) \/ b \in OnArena(g, q) \/ b \in HeldBy(L \cup {n})
               /\ b \in OnPage(g, q) => b \notin OnArena(g, q) /\ b \notin HeldBy(L \cup {n})
               /\ b \in OnArena(g, q) => b \notin HeldBy(L \cup {n})
    <3>1. /\ b \in OnPage(h, q) \/ b \in OnArena(h, q) \/ b \in HeldBy(L)
          /\ b \in OnPage(h, q) => b \notin OnArena(h, q) /\ b \notin HeldBy(L)
          /\ b \in OnArena(h, q) => b \notin HeldBy(L)
      BY Zenon, <2>1 DEF SlabPageInv
    <3>2. CASE b = n.pt
      <4>1. q = p
        BY <3>2, <2>1, BlocksPlace
      <4>2. b \notin OnPage(g, q) /\ b \notin OnArena(g, q) /\ b \in HeldBy(L \cup {n})
        BY Zenon, <4>1, <3>2, <2>1, <1>3, <1>4, <1>5, <1>6 DEF OnArena
      <4>. QED  BY Zenon, <4>2
    <3>3. CASE b # n.pt
      <4>1. b \in OnArena(g, q) <=> b \in OnArena(h, q)
        BY Zenon, <3>3, <2>1, <1>3 DEF OnArena
      <4>2. b \in HeldBy(L \cup {n}) <=> b \in HeldBy(L)
        BY Zenon, <3>3, <1>6
      <4>. QED  BY Zenon, <4>1, <4>2, <3>1, <2>1
    <3>. QED  BY Zenon, <3>2, <3>3
  <2>. QED  BY Zenon, <2>1, <2>2 DEF SlabPageInv
<1>10. IdleInv(g)
  BY Zenon, <1>1 DEF IdleInv, IdlePageInv, OnPage
<1>11. LiveInv(g, L)
  BY Zenon, <1>1, LiveFrame
<1>12. \A k \in L : k.pt # n.pt
  BY Zenon, <1>5 DEF HeldBy
<1>13. ~ Big(g, n) /\ SmallInv(g, n)
  BY Zenon, <1>4 DEF Big, SmallInv
<1>14. LiveInv(g, L \cup {n})
  BY Zenon, <1>11, <1>12, <1>13 DEF LiveInv
<1>. QED  BY Zenon, <1>1, <1>7, <1>8, <1>9, <1>10, <1>12, <1>14 DEF Inv

-----------------------------------------------------------------------------
(* A run of fresh pages goes to the user: a large malloc, whose first page *)
(* has a header, or a large new, which has none.                           *)
Grown(h, g, m, w, n) ==
  /\ g.mapped = h.mapped \cup Run(m, w) /\ g.freelist = h.freelist /\ g.idle = h.idle
  /\ \A q \in Page : q # m => g.pg[q] = h.pg[q]
  /\ g.pg[m].are = NULL /\ (g.pg[m].magic <=> g.pg[m].npages # 0)
  /\ n.pt[1] = m /\ Width(g, n) = w
  /\ IF g.pg[m].npages # 0
     THEN n.pt[2] = HDR /\ n.api = "malloc"
     ELSE n.pt[2] = 0 /\ n.api = "cpp" /\ n.size > MaxSmall
  /\ n.pt[2] + n.size <= w * PGSIZE

LEMMA GrowKeeps ==
  ASSUME NEW h, NEW L, Inv(h, L), NEW m \in Page, NEW w \in Nat \ {0},
         Run(m, w) \subseteq Page \ h.mapped,
         NEW g \in Heaps, NEW n \in Allocs, Grown(h, g, m, w, n)
  PROVE  Inv(g, L \cup {n}) /\ \A k \in L : k.pt # n.pt
<1>. USE NullApart
<1>1. /\ h \in Heaps /\ L \subseteq Allocs /\ PageInv(h) /\ ArenaInv(h) /\ SlabInv(h, L)
      /\ IdleInv(h) /\ LiveInv(h, L)
  BY Zenon DEF Inv
<1>0. /\ g.mapped = h.mapped \cup Run(m, w) /\ g.freelist = h.freelist /\ g.idle = h.idle
      /\ \A q \in Page : q # m => g.pg[q] = h.pg[q]
      /\ g.pg[m].are = NULL /\ n.pt[1] = m /\ Width(g, n) = w
  BY Zenon DEF Grown
<1>. USE <1>0
<1>2. m \in Run(m, w) /\ \A q \in Run(m, w) : h.pg[q].are = NULL /\ h.pg[q].npages = 0
  <2>1. m \in Run(m, w)
    BY DEF Run, Page
  <2>. QED  BY Zenon, <2>1, <1>1 DEF PageInv
<1>3. \A q \in Page : g.pg[q].are = h.pg[q].are
  BY Zenon, <1>2
<1>4. PageInv(g)
  <2>. SUFFICES ASSUME NEW p \in Page
                PROVE  /\ p \notin g.mapped => g.pg[p].are = NULL /\ g.pg[p].npages = 0
                       /\ g.pg[p].magic <=> g.pg[p].are # NULL \/ g.pg[p].npages # 0
                       /\ g.pg[p].are # NULL => g.pg[p].npages = 0
    BY Zenon DEF PageInv
  <2>1. CASE p = m
    <3>1. p \in g.mapped
      BY Zenon, <2>1, <1>2
    <3>2. g.pg[m].magic <=> g.pg[m].npages # 0
      BY Zenon DEF Grown
    <3>. QED  BY <2>1, <3>1, <3>2, Zenon
  <2>2. CASE p # m
    <3>1. g.pg[p] = h.pg[p] /\ (p \notin g.mapped => p \notin h.mapped)
      BY Zenon, <2>2
    <3>2. /\ p \notin h.mapped => h.pg[p].are = NULL /\ h.pg[p].npages = 0
          /\ h.pg[p].magic <=> h.pg[p].are # NULL \/ h.pg[p].npages # 0
          /\ h.pg[p].are # NULL => h.pg[p].npages = 0
      BY Zenon, <1>1 DEF PageInv
    <3>. QED  BY <3>1, <3>2, Zenon
  <2>. QED  BY Zenon, <2>1, <2>2
<1>5. ArenaInv(g)
  <2>1. h.idle \in [Arena -> Page \cup {NULL}]
    BY Zenon, <1>1, HeapFields
  <2>. QED  BY <2>1, <1>1, <1>3 DEF ArenaInv
<1>6. SlabInv(g, L \cup {n})
  <2>. SUFFICES ASSUME NEW p \in Page, g.pg[p].are # NULL
                PROVE  SlabPageInv(g, L \cup {n}, p)
    BY Zenon DEF SlabInv
  <2>1. p # m /\ g.pg[p] = h.pg[p] /\ h.pg[p].are \in Arena
    BY Zenon, <1>1, HeaderFields
  <2>2. SlabPageInv(h, L, p)
    BY Zenon, <2>1, <1>1 DEF SlabInv
  <2>3. OnPage(g, p) = OnPage(h, p) /\ OnArena(g, p) = OnArena(h, p)
    BY Zenon, <2>1 DEF OnPage, OnArena
  <2>4. \A b \in Blocks(p, h.pg[p].are) : b # n.pt
    BY <2>1, BlocksPlace
  <2>5. \A b \in Blocks(p, h.pg[p].are) : b \in HeldBy(L \cup {n}) <=> b \in HeldBy(L)
    BY <2>4 DEF HeldBy
  <2>. QED  BY Zenon, <2>1, <2>2, <2>3, <2>5 DEF SlabPageInv
<1>7. IdleInv(g)
  <2>. SUFFICES ASSUME NEW p \in Page, g.pg[p].are # NULL
                PROVE  IdlePageInv(g, p)
    BY Zenon DEF IdleInv
  <2>1. p # m /\ g.pg[p] = h.pg[p]
    BY Zenon
  <2>2. IdlePageInv(h, p)
    BY Zenon, <2>1, <1>1 DEF IdleInv
  <2>. QED  BY Zenon, <2>1, <2>2 DEF IdlePageInv, OnPage
<1>8. /\ LiveInv(g, L)
      /\ \A l \in L : (Big(g, l) <=> Big(h, l)) /\ Span(g, l) = Span(h, l)
  <2>1. \A q \in h.mapped : q \in Page /\ g.pg[q] = h.pg[q]
    BY <1>1, <1>2, HeapFields
  <2>. QED  BY <2>1, <1>1, LiveFrame
<1>9. \A k \in L : /\ k.pt[1] \in h.mapped
                   /\ Big(h, k) => Span(h, k) \subseteq h.mapped
  BY Zenon, <1>1, LiveMapped
<1>10. Span(g, n) = Run(m, w)
  BY Zenon DEF Span
<1>11. Big(g, n) /\ BigInv(g, n)
  <2>1. Big(g, n)
    BY Zenon DEF Big
  <2>2. Span(g, n) \subseteq g.mapped /\ n.pt[1] \in Span(g, n)
    BY Zenon, <1>2, <1>10
  <2>3. \A q \in Span(g, n) : g.pg[q].are = NULL /\ (q # n.pt[1] => g.pg[q].npages = 0)
    BY <1>2, <1>10
  <2>4. /\ IF g.pg[m].npages # 0
           THEN n.pt[2] = HDR /\ n.api = "malloc"
           ELSE n.pt[2] = 0 /\ n.api = "cpp" /\ n.size > MaxSmall
        /\ n.pt[2] + n.size <= w * PGSIZE
    BY Zenon DEF Grown
  <2>. QED  BY Zenon, <2>1, <2>2, <2>3, <2>4 DEF BigInv
<1>12. \A k \in L : k.pt # n.pt
  BY Zenon, <1>2, <1>9
<1>13. ASSUME NEW k \in L, Big(g, k)
       PROVE  Span(g, k) \cap Span(g, n) = {}
  BY <1>8, <1>9, <1>10, <1>13
<1>14. LiveInv(g, L \cup {n})
  <2>1. ASSUME NEW k \in L \cup {n}, NEW l \in L \cup {n}, k # l
        PROVE  k.pt # l.pt /\ (Big(g, k) /\ Big(g, l) => Span(g, k) \cap Span(g, l) = {})
    <3>1. CASE k \in L /\ l \in L
      BY Zenon, <3>1, <2>1, <1>8 DEF LiveInv
    <3>2. CASE k = n
      BY Zenon, <3>2, <2>1, <1>12, <1>13
    <3>3. CASE l = n
      BY Zenon, <3>3, <2>1, <1>12, <1>13
    <3>. QED  BY Zenon, <3>1, <3>2, <3>3
  <2>2. \A l \in L \cup {n} : IF Big(g, l) THEN BigInv(g, l) ELSE SmallInv(g, l)
    BY Zenon, <1>8, <1>11 DEF LiveInv
  <2>. QED  BY Zenon, <2>1, <2>2 DEF LiveInv
<1>. QED  BY Zenon, <1>1, <1>4, <1>5, <1>6, <1>7, <1>12, <1>14 DEF Inv

-----------------------------------------------------------------------------
(* The frees.                                                              *)

(* Pages that no list and no allocation is in may be unmapped.             *)
LEMMA UnmapKeeps ==
  ASSUME NEW h \in Heaps, NEW L \in SUBSET Allocs, NEW R \in SUBSET Page,
         PageInv(h), ArenaInv(h), SlabInv(h, L), LiveInv(h, L),
         \A p \in Page \ R : h.pg[p].are # NULL => IdlePageInv(h, p),
         \A a \in Arena : h.idle[a] \notin R /\ \A b \in Elems(h.freelist[a]) : b[1] \notin R,
         \A l \in L : l.pt[1] \notin R /\ (Big(h, l) => Span(h, l) \cap R = {}),
         NEW g \in Heaps, g.mapped = h.mapped \ R,
         g.freelist = h.freelist, g.idle = h.idle,
         \A q \in Page : g.pg[q] = IF q \in R THEN ZeroPage ELSE h.pg[q]
  PROVE  Inv(g, L)
<1>. USE NullApart
<1>1. \A q \in R : g.pg[q].are = NULL /\ g.pg[q].npages = 0 /\ g.pg[q].magic = FALSE
  BY DEF ZeroPage
<1>2. PageInv(g)
  <2>. SUFFICES ASSUME NEW p \in Page
                PROVE  /\ p \notin g.mapped => g.pg[p].are = NULL /\ g.pg[p].npages = 0
                       /\ g.pg[p].magic <=> g.pg[p].are # NULL \/ g.pg[p].npages # 0
                       /\ g.pg[p].are # NULL => g.pg[p].npages = 0
    BY Zenon DEF PageInv
  <2>1. CASE p \in R
    BY Zenon, <2>1, <1>1
  <2>2. CASE p \notin R
    <3>1. g.pg[p] = h.pg[p] /\ (p \notin g.mapped => p \notin h.mapped)
      BY Zenon, <2>2
    <3>2. /\ p \notin h.mapped => h.pg[p].are = NULL /\ h.pg[p].npages = 0
          /\ h.pg[p].magic <=> h.pg[p].are # NULL \/ h.pg[p].npages # 0
          /\ h.pg[p].are # NULL => h.pg[p].npages = 0
      BY Zenon DEF PageInv
    <3>. QED  BY <3>1, <3>2, Zenon
  <2>. QED  BY Zenon, <2>1, <2>2
<1>3. ArenaInv(g)
  <2>. SUFFICES ASSUME NEW a \in Arena
                PROVE  /\ Distinct(g.freelist[a])
                       /\ \A b \in Elems(g.freelist[a]) :
                            b[1] \in Page /\ g.pg[b[1]].are = a /\ b \in Blocks(b[1], a)
                       /\ g.idle[a] # NULL => g.pg[g.idle[a]].are = a
    BY Zenon DEF ArenaInv
  <2>1. Distinct(g.freelist[a])
    BY Zenon DEF ArenaInv
  <2>2. ASSUME NEW b \in Elems(g.freelist[a])
        PROVE  b[1] \in Page /\ g.pg[b[1]].are = a /\ b \in Blocks(b[1], a)
    <3>1. b[1] \in Page /\ h.pg[b[1]].are = a /\ b \in Blocks(b[1], a) /\ b[1] \notin R
      BY OnListOf
    <3>. QED  BY Zenon, <3>1
  <2>3. ASSUME g.idle[a] # NULL
        PROVE  g.pg[g.idle[a]].are = a
    <3>1. h.idle[a] \in Page /\ h.idle[a] \notin R /\ h.pg[h.idle[a]].are = a
      BY <2>3, ListType DEF ArenaInv
    <3>. QED  BY Zenon, <3>1
  <2>. QED  BY Zenon, <2>1, <2>2, <2>3
<1>4. ASSUME NEW p \in Page, g.pg[p].are # NULL
      PROVE  /\ p \notin R /\ g.pg[p] = h.pg[p]
             /\ OnPage(g, p) = OnPage(h, p) /\ OnArena(g, p) = OnArena(h, p)
  <2>1. p \notin R /\ g.pg[p] = h.pg[p]
    BY Zenon, <1>1, <1>4
  <2>. QED  BY Zenon, <2>1 DEF OnPage, OnArena
<1>5. SlabInv(g, L)
  <2>. SUFFICES ASSUME NEW p \in Page, g.pg[p].are # NULL
                PROVE  SlabPageInv(g, L, p)
    BY Zenon DEF SlabInv
  <2>1. SlabPageInv(h, L, p)
    BY Zenon, <1>4 DEF SlabInv
  <2>. QED  BY Zenon, <2>1, <1>4 DEF SlabPageInv
<1>6. IdleInv(g)
  <2>. SUFFICES ASSUME NEW p \in Page, g.pg[p].are # NULL
                PROVE  IdlePageInv(g, p)
    BY Zenon DEF IdleInv
  <2>1. IdlePageInv(h, p)
    BY Zenon, <1>4
  <2>. QED  BY Zenon, <2>1, <1>4 DEF IdlePageInv
<1>7. ASSUME NEW l \in L
      PROVE  /\ Big(g, l) <=> Big(h, l)
             /\ Span(g, l) = Span(h, l)
             /\ IF Big(g, l) THEN BigInv(g, l) ELSE SmallInv(g, l)
  <2>1. l \in Allocs /\ l.pt[1] \in Page
    BY Zenon, AllocFields
  <2>2. IF Big(h, l) THEN BigInv(h, l) ELSE SmallInv(h, l)
    BY Zenon DEF LiveInv
  <2>3. g.pg[l.pt[1]] = h.pg[l.pt[1]]
    BY Zenon, <2>1
  <2>4. Big(h, l) => /\ Span(h, l) \subseteq g.mapped
                     /\ \A q \in Span(h, l) : g.pg[q] = h.pg[q]
    BY Zenon, LiveMapped, HeapFields
  <2>. QED  BY Zenon, <2>1, <2>2, <2>3, <2>4, AllocFrame
<1>8. ASSUME NEW k \in L, NEW l \in L, k # l
      PROVE  k.pt # l.pt /\ (Big(g, k) /\ Big(g, l) => Span(g, k) \cap Span(g, l) = {})
  BY Zenon, <1>7, <1>8 DEF LiveInv
<1>9. LiveInv(g, L)
  BY Zenon, <1>7, <1>8 DEF LiveInv
<1>. QED  BY Zenon, <1>2, <1>3, <1>5, <1>6, <1>9 DEF Inv

(* The user gives back an allocation that is not of a slab.                *)
LEMMA FreeBigKeeps ==
  ASSUME NEW h, NEW L, Inv(h, L), NEW l \in L, Big(h, l),
         NEW g \in Heaps, g.mapped = h.mapped \ Span(h, l),
         g.freelist = h.freelist, g.idle = h.idle,
         \A q \in Page : g.pg[q] = IF q \in Span(h, l) THEN ZeroPage ELSE h.pg[q]
  PROVE  Inv(g, L \ {l})
<1>. USE NullApart
<1>1. /\ h \in Heaps /\ L \subseteq Allocs /\ PageInv(h) /\ ArenaInv(h) /\ SlabInv(h, L)
      /\ IdleInv(h) /\ LiveInv(h, L)
  BY Zenon DEF Inv
<1>. DEFINE M == L \ {l}
            R == Span(h, l)
<1>2. /\ l \in Allocs /\ l.pt[1] \in Page /\ l.pt[1] \in R /\ R \subseteq Page
      /\ \A q \in R : h.pg[q].are = NULL
  BY Zenon, <1>1, AllocFields, HeapFields DEF LiveInv, BigInv
<1>3. SlabInv(h, M)
  <2>. SUFFICES ASSUME NEW p \in Page, h.pg[p].are # NULL
                PROVE  SlabPageInv(h, M, p)
    BY Zenon DEF SlabInv
  <2>1. SlabPageInv(h, L, p) /\ h.pg[p].are \in Arena
    BY Zenon, <1>1, HeaderFields DEF SlabInv
  <2>2. \A b \in Blocks(p, h.pg[p].are) : b # l.pt
    BY <2>1, <1>2, BlocksPlace
  <2>3. \A b \in Blocks(p, h.pg[p].are) : b \in HeldBy(M) <=> b \in HeldBy(L)
    BY Zenon, <2>2 DEF HeldBy
  <2>. QED  BY Zenon, <2>1, <2>3 DEF SlabPageInv
<1>4. LiveInv(h, M)
  BY Zenon, <1>1 DEF LiveInv
<1>5. ASSUME NEW a \in Arena
      PROVE  h.idle[a] \notin R /\ \A b \in Elems(h.freelist[a]) : b[1] \notin R
  <2>1. h.idle[a] \notin R
    BY <1>1, <1>2 DEF ArenaInv
  <2>2. \A b \in Elems(h.freelist[a]) : b[1] \notin R
    BY <1>1, <1>2, OnListOf
  <2>. QED  BY Zenon, <2>1, <2>2
<1>6. ASSUME NEW k \in M
      PROVE  k.pt[1] \notin R /\ (Big(h, k) => Span(h, k) \cap R = {})
  <2>1. Big(h, k) => k.pt[1] \in Span(h, k) /\ Span(h, k) \cap R = {}
    BY Zenon, <1>1 DEF LiveInv, BigInv
  <2>2. ~ Big(h, k) => k.pt[1] \notin R
    BY Zenon, <1>2 DEF Big
  <2>. QED  BY Zenon, <2>1, <2>2
<1>7. \A p \in Page \ R : h.pg[p].are # NULL => IdlePageInv(h, p)
  BY Zenon, <1>1 DEF IdleInv
<1>. HIDE DEF M, R
<1>8. M \in SUBSET Allocs /\ R \in SUBSET Page
  BY Zenon, <1>1, <1>2 DEF M
<1>9. /\ g.mapped = h.mapped \ R
      /\ \A q \in Page : g.pg[q] = IF q \in R THEN ZeroPage ELSE h.pg[q]
  BY Zenon DEF R
<1>10. Inv(g, M)
  BY Zenon, <1>1, <1>3, <1>4, <1>5, <1>6, <1>7, <1>8, <1>9, UnmapKeeps
<1>. QED  BY Zenon, <1>10 DEF M

(* The user gives back a block of a slab.  Until slab_free has looked at   *)
(* the count, the page may be complete without being idle.                 *)
Pushed(h, g, p, x) ==
  /\ g.mapped = h.mapped /\ g.freelist = h.freelist /\ g.idle = h.idle
  /\ \A q \in Page : q # p => g.pg[q] = h.pg[q]
  /\ g.pg[p].avail = h.pg[p].avail + 1 /\ g.pg[p].fl = <<x>> \o h.pg[p].fl
  /\ g.pg[p].are = h.pg[p].are /\ g.pg[p].total = h.pg[p].total
  /\ g.pg[p].magic = h.pg[p].magic /\ g.pg[p].npages = h.pg[p].npages

BlockBack(g, M, p, a) ==
  /\ PageInv(g) /\ ArenaInv(g) /\ SlabInv(g, M) /\ LiveInv(g, M)
  /\ \A q \in Page \ {p} : g.pg[q].are # NULL => IdlePageInv(g, q)
  /\ g.pg[p].are = a /\ g.idle[a] # p
  /\ OnPage(g, p) = Blocks(p, a) <=> g.pg[p].avail = g.pg[p].total

LEMMA PushKeeps ==
  ASSUME Counting, NEW h, NEW L, Inv(h, L), NEW l \in L, NEW p \in Page, p = l.pt[1],
         NEW a \in Arena, h.pg[p].are = a,
         NEW g \in Heaps, Pushed(h, g, p, l.pt)
  PROVE  BlockBack(g, L \ {l}, p, a)
<1>. USE NullApart
<1>1. /\ h \in Heaps /\ L \subseteq Allocs /\ PageInv(h) /\ ArenaInv(h) /\ SlabInv(h, L)
      /\ IdleInv(h) /\ LiveInv(h, L)
  BY Zenon DEF Inv
<1>. DEFINE M == L \ {l}
<1>2. l \in Allocs /\ l.pt \in Addr /\ l.pt \in Blocks(p, a)
  BY Zenon, <1>1, AllocFields DEF LiveInv, Big, SmallInv
<1>3. SlabPageInv(h, L, p)
  BY Zenon, <1>1 DEF SlabInv
<1>4. l.pt \notin OnPage(h, p) /\ l.pt \notin OnArena(h, p)
  BY Zenon, <1>2, <1>3 DEF SlabPageInv, HeldBy
<1>5. h.pg[p].fl \in Seq(Addr) /\ h.pg[p] \in Header
  BY Zenon, <1>1, HeaderFields
<1>6. /\ g.pg[p].are = a /\ g.pg[p].fl = <<l.pt>> \o h.pg[p].fl
      /\ g.pg[p].avail = h.pg[p].avail + 1 /\ g.pg[p].total = h.pg[p].total
      /\ g.pg[p].magic = h.pg[p].magic /\ g.pg[p].npages = h.pg[p].npages
  BY Zenon DEF Pushed
<1>0. /\ g.mapped = h.mapped /\ g.freelist = h.freelist /\ g.idle = h.idle
      /\ \A q \in Page : q # p => g.pg[q] = h.pg[q]
  BY Zenon DEF Pushed
<1>. USE <1>0
<1>7. /\ OnPage(g, p) = OnPage(h, p) \cup {l.pt} /\ Distinct(g.pg[p].fl)
      /\ Len(g.pg[p].fl) = Len(h.pg[p].fl) + 1 /\ g.pg[p].fl \in Seq(Addr)
  <2>1. Distinct(h.pg[p].fl)
    BY Zenon, <1>3 DEF SlabPageInv
  <2>2. l.pt \notin Elems(h.pg[p].fl)
    BY Zenon, <1>4 DEF OnPage
  <2>3. PICK s \in Seq(Addr), x \in Addr : s = h.pg[p].fl /\ x = l.pt
    BY Zenon, <1>2, <1>5
  <2>4. /\ <<x>> \o s \in Seq(Addr) /\ Len(<<x>> \o s) = Len(s) + 1
        /\ Elems(<<x>> \o s) = {x} \cup Elems(s)
        /\ Distinct(<<x>> \o s)
    BY <2>1, <2>2, <2>3, Push
  <2>5. g.pg[p].fl = <<x>> \o s
    BY Zenon, <2>3, <1>6
  <2>. QED  BY Zenon, <2>3, <2>4, <2>5 DEF OnPage
<1>8. \A q \in Page : /\ g.pg[q].are = h.pg[q].are /\ g.pg[q].magic = h.pg[q].magic
                      /\ g.pg[q].npages = h.pg[q].npages
  BY Zenon, <1>6
<1>9. PageInv(g)
  BY <1>1, <1>8 DEF PageInv
<1>10. ArenaInv(g)
  <2>1. h.idle \in [Arena -> Page \cup {NULL}]
    BY Zenon, <1>1, HeapFields
  <2>. QED  BY <2>1, <1>1, <1>8 DEF ArenaInv
<1>11. HeldBy(M) = HeldBy(L) \ {l.pt}
  <2>1. \A k \in M : k.pt # l.pt
    BY Zenon, <1>1 DEF LiveInv
  <2>. QED  BY Zenon, <2>1 DEF HeldBy
<1>. HIDE DEF M
<1>12. SlabInv(g, M)
  <2>. SUFFICES ASSUME NEW q \in Page, g.pg[q].are # NULL
                PROVE  SlabPageInv(g, M, q)
    BY Zenon DEF SlabInv
  <2>1. SlabPageInv(h, L, q) /\ g.pg[q].are = h.pg[q].are /\ h.pg[q].are \in Arena
    BY Zenon, <1>1, <1>8, HeaderFields DEF SlabInv
  <2>2. OnArena(g, q) = OnArena(h, q)
    BY Zenon, <2>1 DEF OnArena
  <2>3. CASE q = p
    <3>1. /\ OnPage(g, q) \subseteq Blocks(q, a) /\ g.pg[q].avail = Len(g.pg[q].fl)
          /\ g.pg[q].total = NBlocks(a)
      BY Zenon, <2>1, <2>3, <1>2, <1>6, <1>7 DEF SlabPageInv
    <3>2. ASSUME NEW b \in Blocks(q, a)
          PROVE  /\ b \in OnPage(g, q) \/ b \in OnArena(g, q) \/ b \in HeldBy(M)
                 /\ b \in OnPage(g, q) => b \notin OnArena(g, q) /\ b \notin HeldBy(M)
                 /\ b \in OnArena(g, q) => b \notin HeldBy(M)
      <4>1. /\ b \in OnPage(h, q) \/ b \in OnArena(h, q) \/ b \in HeldBy(L)
            /\ b \in OnPage(h, q) => b \notin OnArena(h, q) /\ b \notin HeldBy(L)
            /\ b \in OnArena(h, q) => b \notin HeldBy(L)
        BY Zenon, <2>1, <2>3 DEF SlabPageInv
      <4>. QED  BY Zenon, <4>1, <2>2, <2>3, <1>4, <1>7, <1>11
    <3>. QED  BY Zenon, <2>3, <1>6, <1>7, <3>1, <3>2 DEF SlabPageInv
  <2>4. CASE q # p
    <3>1. g.pg[q] = h.pg[q] /\ OnPage(g, q) = OnPage(h, q)
      BY Zenon, <2>4 DEF OnPage
    <3>2. \A b \in Blocks(q, h.pg[q].are) : b # l.pt
      BY <2>1, <2>4, BlocksPlace
    <3>3. \A b \in Blocks(q, h.pg[q].are) : b \in HeldBy(M) <=> b \in HeldBy(L)
      BY Zenon, <3>2, <1>11
    <3>. QED  BY Zenon, <2>1, <2>2, <3>1, <3>3 DEF SlabPageInv
  <2>. QED  BY Zenon, <2>3, <2>4
<1>13. LiveInv(g, M)
  <2>1. \A q \in h.mapped : q \in Page
    BY Zenon, <1>1, HeapFields
  <2>2. LiveInv(h, M)
    BY Zenon, <1>1 DEF LiveInv, M
  <2>3. M \in SUBSET Allocs
    BY Zenon, <1>1 DEF M
  <2>. QED  BY Zenon, <2>1, <2>2, <2>3, <1>1, <1>8, LiveFrame
<1>14. \A q \in Page \ {p} : g.pg[q].are # NULL => IdlePageInv(g, q)
  BY Zenon, <1>1 DEF IdleInv, IdlePageInv, OnPage
<1>15. g.idle[a] # p
  <2>1. IdlePageInv(h, p)
    BY Zenon, <1>1 DEF IdleInv
  <2>. QED  BY Zenon, <2>1, <1>2, <1>4 DEF IdlePageInv
<1>16. OnPage(g, p) = Blocks(p, a) <=> g.pg[p].avail = g.pg[p].total
  <2>1. SlabPageInv(g, M, p)
    <3>1. g.pg[p].are # NULL
      BY Zenon, <1>6
    <3>. QED  BY Zenon, <3>1, <1>12 DEF SlabInv
  <2>2. /\ g.pg[p].avail = Len(g.pg[p].fl) /\ g.pg[p].total = NBlocks(a)
        /\ Elems(g.pg[p].fl) \subseteq Blocks(p, a)
    BY Zenon, <2>1, <1>6 DEF SlabPageInv, OnPage
  <2>3. Len(g.pg[p].fl) = NBlocks(a) <=> Elems(g.pg[p].fl) = Blocks(p, a)
    BY Zenon, <2>2, <1>7 DEF Counting
  <2>. QED  BY Zenon, <2>2, <2>3 DEF OnPage
<1>. QED  BY Zenon, <1>6, <1>9, <1>10, <1>12, <1>13, <1>14, <1>15, <1>16 DEF M, BlockBack

(* The complete page becomes the idle page of an arena without one.        *)
MadeIdle(h, g, p, a) ==
  /\ g.mapped = h.mapped /\ g.freelist = h.freelist /\ g.pg = h.pg
  /\ g.idle[a] = p /\ \A c \in Arena : c # a => g.idle[c] = h.idle[c]

LEMMA MakeIdleKeeps ==
  ASSUME NEW h \in Heaps, NEW L \in SUBSET Allocs, NEW p \in Page, NEW a \in Arena,
         BlockBack(h, L, p, a), h.pg[p].avail = h.pg[p].total, h.idle[a] = NULL,
         NEW g \in Heaps, MadeIdle(h, g, p, a)
  PROVE  Inv(g, L)
<1>0. /\ PageInv(h) /\ ArenaInv(h) /\ SlabInv(h, L) /\ LiveInv(h, L)
      /\ \A q \in Page \ {p} : h.pg[q].are # NULL => IdlePageInv(h, q)
      /\ h.pg[p].are = a /\ h.idle[a] # p /\ OnPage(h, p) = Blocks(p, a)
  BY Zenon DEF BlockBack
<1>. USE <1>0, NullApart
<1>1. /\ g.mapped = h.mapped /\ g.freelist = h.freelist /\ g.pg = h.pg
      /\ g.idle[a] = p /\ \A c \in Arena : c # a => g.idle[c] = h.idle[c]
  BY Zenon DEF MadeIdle
<1>2. PageInv(g)
  BY <1>1 DEF PageInv
<1>3. ArenaInv(g)
  BY <1>1 DEF ArenaInv
<1>4. SlabInv(g, L)
  BY Zenon, <1>1 DEF SlabInv, SlabPageInv, OnPage, OnArena
<1>5. ASSUME NEW q \in Page, g.pg[q].are # NULL
      PROVE  IdlePageInv(g, q)
  <2>1. h.pg[q].are \in Arena
    BY Zenon, <1>1, <1>5, HeaderFields
  <2>2. CASE q = p
    BY Zenon, <2>2, <1>1 DEF IdlePageInv, OnPage
  <2>3. CASE q # p
    <3>1. IdlePageInv(h, q)
      BY Zenon, <2>3, <1>1, <1>5
    <3>2. g.idle[h.pg[q].are] = q <=> h.idle[h.pg[q].are] = q
      BY Zenon, <2>1, <2>3, <1>1
    <3>. QED  BY Zenon, <3>1, <3>2, <1>1 DEF IdlePageInv, OnPage
  <2>. QED  BY Zenon, <2>2, <2>3
<1>6. LiveInv(g, L)
  BY Zenon, <1>1, LiveFrame
<1>. QED  BY Zenon, <1>2, <1>3, <1>4, <1>5, <1>6 DEF Inv, IdleInv

(* A second complete page goes back to the system.                         *)
LEMMA DropPageKeeps ==
  ASSUME NEW h \in Heaps, NEW L \in SUBSET Allocs, NEW p \in Page, NEW a \in Arena,
         BlockBack(h, L, p, a), h.pg[p].avail = h.pg[p].total,
         NEW g \in Heaps, g.mapped = h.mapped \ {p}, g.freelist = h.freelist,
         g.idle = h.idle,
         \A q \in Page : g.pg[q] = IF q \in {p} THEN ZeroPage ELSE h.pg[q]
  PROVE  Inv(g, L)
<1>0. /\ PageInv(h) /\ ArenaInv(h) /\ SlabInv(h, L) /\ LiveInv(h, L)
      /\ \A q \in Page \ {p} : h.pg[q].are # NULL => IdlePageInv(h, q)
      /\ h.pg[p].are = a /\ h.idle[a] # p /\ OnPage(h, p) = Blocks(p, a)
  BY Zenon DEF BlockBack
<1>. USE <1>0, NullApart
<1>1. SlabPageInv(h, L, p)
  BY Zenon DEF SlabInv
<1>2. ASSUME NEW c \in Arena
      PROVE  h.idle[c] \notin {p} /\ \A b \in Elems(h.freelist[c]) : b[1] \notin {p}
  <2>1. h.idle[c] # p
    BY DEF ArenaInv
  <2>2. ASSUME NEW b \in Elems(h.freelist[c]), b[1] = p
        PROVE  FALSE
    <3>1. c = a /\ b \in Blocks(p, a)
      BY <2>2, OnListOf
    <3>2. b \in OnPage(h, p) /\ b \in OnArena(h, p)
      BY Zenon, <2>2, <3>1 DEF OnArena
    <3>. QED  BY Zenon, <1>1, <3>1, <3>2 DEF SlabPageInv
  <2>. QED  BY Zenon, <2>1, <2>2
<1>3. ASSUME NEW k \in L
      PROVE  k.pt[1] \notin {p} /\ (Big(h, k) => Span(h, k) \cap {p} = {})
  <2>1. ASSUME k.pt[1] = p
        PROVE  FALSE
    <3>1. k.pt \in Blocks(p, a)
      BY Zenon, <2>1 DEF LiveInv, Big, SmallInv
    <3>. QED  BY Zenon, <1>1, <3>1 DEF SlabPageInv, HeldBy
  <2>2. Big(h, k) => p \notin Span(h, k)
    BY Zenon DEF LiveInv, BigInv
  <2>. QED  BY Zenon, <2>1, <2>2
<1>4. {p} \in SUBSET Page /\ \A q \in Page \ {p} : h.pg[q].are # NULL => IdlePageInv(h, q)
  BY Zenon
<1>. QED  BY Zenon, <1>2, <1>3, <1>4, UnmapKeeps

(* The user resizes an allocation in place.                                *)
LEMMA ResizeKeeps ==
  ASSUME NEW h, NEW L, Inv(h, L), NEW l \in L, l.api = "malloc",
         NEW n \in Allocs, n.pt = l.pt, n.api = "malloc",
         n.size <= Usable(h, l.pt)
  PROVE  Inv(h, (L \ {l}) \cup {n})
<1>1. /\ h \in Heaps /\ L \subseteq Allocs /\ PageInv(h) /\ ArenaInv(h) /\ SlabInv(h, L)
      /\ IdleInv(h) /\ LiveInv(h, L)
  BY Zenon DEF Inv
<1>. DEFINE M == (L \ {l}) \cup {n}
<1>2. HeldBy(M) = HeldBy(L)
  BY Zenon DEF HeldBy
<1>3. SlabInv(h, M)
  BY Zenon, <1>1, <1>2 DEF SlabInv, SlabPageInv
<1>. PICK p \in Page : p = l.pt[1]
  BY Zenon, <1>1, AllocFields
<1>4. /\ Big(h, n) <=> Big(h, l)
      /\ Big(h, l) => h.pg[p].npages # 0 /\ Span(h, n) = Span(h, l)
  <2>1. Big(h, l) => h.pg[p].npages # 0
    BY Zenon, <1>1 DEF LiveInv, BigInv
  <2>. QED  BY Zenon, <2>1 DEF Big, Span, Width
<1>5. IF Big(h, n) THEN BigInv(h, n) ELSE SmallInv(h, n)
  <2>1. CASE Big(h, l)
    <3>1. BigInv(h, l) /\ h.pg[p].npages # 0 /\ h.pg[p].npages \in Nat
      BY Zenon, <2>1, <1>1, <1>4, HeaderFields DEF LiveInv
    <3>2. Width(h, n) = h.pg[p].npages /\ Width(h, l) = h.pg[p].npages
      BY Zenon, <3>1 DEF Width
    <3>3. n.size <= h.pg[p].npages * PGSIZE - HDR
      BY Zenon, <2>1 DEF Usable, Big, block_to_page
    <3>4. n.size \in Nat /\ h.pg[p].npages * PGSIZE \in Nat /\ HDR \in Nat
      BY <3>1, AllocFields, Header0
    <3>. PICK x, y \in Nat : x = n.size /\ y = h.pg[p].npages * PGSIZE
      BY Zenon, <3>4
    <3>5. HDR + x <= y
      BY <3>3, <3>4
    <3>6. n.pt[2] = HDR /\ n.pt[2] + n.size <= Width(h, n) * PGSIZE
      BY Zenon, <3>1, <3>2, <3>5 DEF BigInv
    <3>7. BigInv(h, n)
      BY Zenon, <2>1, <3>1, <3>2, <3>6, <1>4 DEF BigInv
    <3>. QED  BY Zenon, <2>1, <3>7, <1>4
  <2>2. CASE ~ Big(h, l)
    <3>1. SmallInv(h, l)
      BY Zenon, <2>2, <1>1 DEF LiveInv
    <3>2. n.size <= Caches[h.pg[p].are]
      BY Zenon, <2>2 DEF Usable, Big, block_to_page
    <3>3. SmallInv(h, n)
      BY Zenon, <3>1, <3>2 DEF SmallInv
    <3>. QED  BY Zenon, <2>2, <3>3, <1>4
  <2>. QED  BY Zenon, <2>1, <2>2
<1>6. ASSUME NEW k \in L \ {l}
      PROVE  /\ k.pt # n.pt
             /\ Big(h, k) /\ Big(h, n) => /\ Span(h, k) \cap Span(h, n) = {}
                                          /\ Span(h, n) \cap Span(h, k) = {}
  BY Zenon, <1>1, <1>4 DEF LiveInv
<1>7. LiveInv(h, M)
  <2>1. \A k \in M : IF Big(h, k) THEN BigInv(h, k) ELSE SmallInv(h, k)
    BY Zenon, <1>1, <1>5 DEF LiveInv
  <2>2. ASSUME NEW j \in M, NEW k \in M, j # k
        PROVE  j.pt # k.pt /\ (Big(h, j) /\ Big(h, k) => Span(h, j) \cap Span(h, k) = {})
    <3>1. CASE j \in L \ {l} /\ k \in L \ {l}
      BY Zenon, <3>1, <2>2, <1>1 DEF LiveInv
    <3>2. CASE j = n
      BY Zenon, <3>2, <2>2, <1>6
    <3>3. CASE k = n
      BY Zenon, <3>3, <2>2, <1>6
    <3>. QED  BY Zenon, <3>1, <3>2, <3>3
  <2>. QED  BY Zenon, <2>1, <2>2 DEF LiveInv
<1>. QED  BY Zenon, <1>1, <1>3, <1>7 DEF Inv
=============================================================================
