---------------------------- MODULE MallocProofs ----------------------------
(***************************************************************************)
(* The slab allocator keeps its blocks apart, for every size of pages and  *)
(* headers, every table of arenas and every sequence of calls.  Each call  *)
(* is taken apart into the steps of MallocSteps.                           *)
(***************************************************************************)
EXTENDS MallocSteps

-----------------------------------------------------------------------------
(* The operations themselves.                                              *)

(* A block leaves the list of its page only with all the others.           *)
ListsKept(h, g) ==
  \A p \in Page : h.pg[p].are # NULL =>
    /\ p \in g.mapped /\ g.pg[p].are = h.pg[p].are
    /\ g.pg[p].fl = h.pg[p].fl \/ Elems(h.pg[p].fl) = Blocks(p, h.pg[p].are)

LEMMA RunOne ==
  ASSUME NEW m \in Page
  PROVE  Run(m, 1) = {m}
BY DEF Run, Page

LEMMA WithIdleKeeps ==
  ASSUME NEW h, NEW L, Inv(h, L), NEW a \in Arena, NEW m \in Mmap(h, 1),
         h.freelist[a] = <<>>, NeedsPage(h, a) => m # NULL,
         NEW g, g = WithIdle(h, a, m)
  PROVE  /\ Inv(g, L) /\ g.freelist = h.freelist /\ g.idle[a] \in Page
         /\ \A p \in Page : h.pg[p].are # NULL => g.pg[p] = h.pg[p] /\ p \in g.mapped
<1>. USE NullApart
<1>1. h \in Heaps /\ PageInv(h)
  BY Zenon DEF Inv
<1>2. CASE NeedsPage(h, a)
  <2>1. m \in Page /\ m \notin h.mapped
    BY Zenon, <1>2, RunOne DEF Mmap
  <2>2. h.idle[a] = NULL
    BY Zenon, <1>2 DEF NeedsPage
  <2>. DEFINE x == [are |-> a, fl |-> InitialList(m, a), avail |-> NBlocks(a),
                    total |-> NBlocks(a), magic |-> TRUE, npages |-> 0]
  <2>3. x \in Header
    BY Zenon, <2>1, NewPageList, NBlocksType DEF Header
  <2>4. g = [pg |-> [h.pg EXCEPT ![m] = x], mapped |-> h.mapped \cup {m},
             freelist |-> h.freelist, idle |-> [h.idle EXCEPT ![a] = m]]
    BY Zenon, <1>1, <1>2, <2>1, RunOne DEF WithIdle, page_header_init, alloc_page, Heaps
  <2>. HIDE DEF x
  <2>5. g.pg = [h.pg EXCEPT ![m] = x] /\ g.mapped = h.mapped \cup {m}
        /\ g.freelist = h.freelist /\ g.idle = [h.idle EXCEPT ![a] = m]
    BY <2>4
  <2>6. g \in Heaps
    BY Zenon, <2>1, <2>3, <2>4, <1>1, HeapFields DEF Heaps
  <2>7. g.pg[m] = x /\ \A q \in Page : q # m => g.pg[q] = h.pg[q]
    BY Zenon, <2>1, <2>5, <1>1, HeapFields
  <2>8. g.idle[a] = m /\ \A c \in Arena : c # a => g.idle[c] = h.idle[c]
    BY <2>5, <1>1, HeapFields
  <2>9. Inv(g, L)
    <3>1. NewPage(h, g, a, m)
      BY <2>5, <2>7, <2>8 DEF x, NewPage
    <3>. QED  BY Zenon, <2>1, <2>2, <2>6, <3>1, NewPageKeeps
  <2>10. \A p \in Page : h.pg[p].are # NULL => p # m /\ p \in h.mapped
    BY Zenon, <2>1, <1>1, SlabMapped
  <2>. QED  BY Zenon, <2>1, <2>5, <2>7, <2>8, <2>9, <2>10
<1>3. CASE ~ NeedsPage(h, a)
  <2>1. g = h
    BY Zenon, <1>3 DEF WithIdle
  <2>2. g.idle[a] \in Page
    BY Zenon, <2>1, <1>1, <1>3, ListType DEF NeedsPage
  <2>. QED  BY Zenon, <2>1, <2>2, <1>1, SlabMapped
<1>. QED  BY Zenon, <1>2, <1>3

LEMMA SeizeWhole ==
  ASSUME NEW h, NEW L, Inv(h, L), NEW a \in Arena, h.freelist[a] = <<>>, h.idle[a] \in Page,
         NEW g, g = Seize(h, a)
  PROVE  Inv(g, L) /\ g.freelist[a] # <<>> /\ ListsKept(h, g)
<1>. USE NullApart
<1>1. h \in Heaps /\ PageInv(h)
  BY Zenon DEF Inv
<1>2. PICK i \in Page : i = h.idle[a]
  BY Zenon
<1>3. h.pg[i] \in Header /\ h.pg[i].fl \in Seq(Addr)
  BY Zenon, <1>1, HeaderFields
<1>. DEFINE x == [h.pg[i] EXCEPT !.avail = 0, !.fl = <<>>]
<1>4. x \in Header
  <2>. PICK y \in Header : y = h.pg[i]
    BY Zenon, <1>3
  <2>1. <<>> \in Seq(Addr) /\ 0 \in Nat
    OBVIOUS
  <2>2. [y EXCEPT !.avail = 0, !.fl = <<>>] \in Header
    BY Zenon, <2>1 DEF Header
  <2>. QED  BY Zenon, <2>2
<1>5. h.pg[i].fl \o <<>> = h.pg[i].fl
  BY <1>3
<1>6. g = [pg |-> [h.pg EXCEPT ![i] = x], mapped |-> h.mapped,
           freelist |-> [h.freelist EXCEPT ![a] = h.pg[i].fl],
           idle |-> [h.idle EXCEPT ![a] = NULL]]
  <2>1. h.freelist[a] = <<>>
    BY Zenon
  <2>2. g = [h EXCEPT !.pg[i].avail = 0, !.pg[i].fl = <<>>,
                      !.freelist[a] = h.pg[i].fl \o @, !.idle[a] = NULL]
    BY Zenon, <1>2 DEF Seize
  <2>3. g = [pg |-> [h.pg EXCEPT ![i].avail = 0, ![i].fl = <<>>], mapped |-> h.mapped,
             freelist |-> [h.freelist EXCEPT ![a] = h.pg[i].fl \o @],
             idle |-> [h.idle EXCEPT ![a] = NULL]]
    BY Zenon, <1>1, <2>2 DEF Heaps
  <2>4. [h.pg EXCEPT ![i].avail = 0, ![i].fl = <<>>] = [h.pg EXCEPT ![i] = x]
    BY Zenon, <1>1, HeapFields
  <2>5. [h.freelist EXCEPT ![a] = h.pg[i].fl \o @] = [h.freelist EXCEPT ![a] = h.pg[i].fl]
    BY Zenon, <1>5, <2>1
  <2>. QED  BY Zenon, <2>3, <2>4, <2>5
<1>. HIDE DEF x
<1>7. /\ g.pg = [h.pg EXCEPT ![i] = x] /\ g.mapped = h.mapped
      /\ g.freelist = [h.freelist EXCEPT ![a] = h.pg[i].fl]
      /\ g.idle = [h.idle EXCEPT ![a] = NULL]
  BY <1>6
<1>8. g \in Heaps
  BY Zenon, <1>1, <1>3, <1>4, <1>6, HeapFields DEF Heaps
<1>9. g.pg[i] = x /\ \A q \in Page : q # i => g.pg[q] = h.pg[q]
  BY Zenon, <1>1, <1>7, HeapFields
<1>10. /\ Inv(g, L) /\ g.freelist[a] # <<>>
       /\ h.pg[i].are = a /\ Elems(h.pg[i].fl) = Blocks(i, a)
  <2>1. /\ g.pg[i].avail = 0 /\ g.pg[i].fl = <<>>
        /\ g.pg[i].are = h.pg[i].are /\ g.pg[i].total = h.pg[i].total
        /\ g.pg[i].magic = h.pg[i].magic /\ g.pg[i].npages = h.pg[i].npages
    BY Zenon, <1>3, <1>9 DEF x, Header
  <2>2. /\ h.idle[a] = i /\ g.freelist[a] = h.pg[i].fl /\ g.idle[a] = NULL
        /\ \A c \in Arena : c # a => g.freelist[c] = h.freelist[c] /\ g.idle[c] = h.idle[c]
    BY <1>1, <1>2, <1>7, HeapFields
  <2>3. Seized(h, g, a, i)
    BY Zenon, <2>1, <2>2, <1>7, <1>9 DEF Seized
  <2>. QED  BY <2>2, <2>3, <1>8, SeizeKeeps
<1>11. g.pg[i].are = h.pg[i].are
  BY Zenon, <1>3, <1>9 DEF x, Header
<1>12. ListsKept(h, g)
  BY Zenon, <1>1, <1>7, <1>9, <1>10, <1>11, SlabMapped DEF ListsKept
<1>. QED  BY Zenon, <1>10, <1>12

LEMMA ArenaAllocKeeps ==
  ASSUME NEW h, NEW L, Inv(h, L), NEW a \in Arena, NEW m \in Mmap(h, 1),
         ~ (NeedsPage(h, a) /\ m = NULL),
         NEW size \in Nat, size <= Caches[a], NEW api \in {"malloc", "cpp"},
         NEW r, r = arena_alloc(h, a, m)
  PROVE  /\ r.pt \in Addr /\ Inv(r.heap, L \cup {Alloc(r.pt, size, api)})
         /\ \A k \in L : k.pt # r.pt
         /\ ListsKept(h, r.heap)
<1>. USE NullApart
<1>1. PICK f : f = Refill(h, a, m)
  BY Zenon
<1>2. Inv(f, L) /\ f.freelist[a] # <<>> /\ ListsKept(h, f)
  <2>0. h \in Heaps /\ PageInv(h)
    BY Zenon DEF Inv
  <2>1. CASE h.freelist[a] = <<>>
    <3>1. PICK w : w = WithIdle(h, a, m)
      BY Zenon
    <3>2. /\ Inv(w, L) /\ w.freelist = h.freelist /\ w.idle[a] \in Page
          /\ \A p \in Page : h.pg[p].are # NULL => w.pg[p] = h.pg[p] /\ p \in w.mapped
      BY <2>1, <3>1, WithIdleKeeps
    <3>3. f = Seize(w, a)
      BY Zenon, <1>1, <2>1, <3>1 DEF Refill
    <3>4. Inv(f, L) /\ f.freelist[a] # <<>> /\ ListsKept(w, f)
      BY Zenon, <2>1, <3>2, <3>3, SeizeWhole
    <3>5. ListsKept(h, f)
      BY Zenon, <3>2, <3>4 DEF ListsKept
    <3>. QED  BY Zenon, <3>4, <3>5
  <2>2. CASE h.freelist[a] # <<>>
    <3>1. f = h
      BY Zenon, <1>1, <2>2 DEF Refill
    <3>. QED  BY Zenon, <2>0, <2>2, <3>1, SlabMapped DEF ListsKept
  <2>. QED  BY Zenon, <2>1, <2>2
<1>3. f \in Heaps /\ ArenaInv(f)
  BY Zenon, <1>2 DEF Inv
<1>4. r = [heap |-> [f EXCEPT !.freelist[a] = Tail(@)], pt |-> Head(f.freelist[a])]
  BY Zenon, <1>1 DEF arena_alloc
<1>5. r.heap = [f EXCEPT !.freelist[a] = Tail(@)] /\ r.pt = Head(f.freelist[a])
  BY <1>4
<1>6. PICK g : g = r.heap
  BY Zenon
<1>7. f.freelist[a] \in Seq(Addr) /\ Distinct(f.freelist[a])
  BY Zenon, <1>3, ListType DEF ArenaInv
<1>8. Tail(f.freelist[a]) \in Seq(Addr) /\ Head(f.freelist[a]) \in Addr
  BY Zenon, <1>2, <1>7, Pop
<1>9. g = [pg |-> f.pg, mapped |-> f.mapped, idle |-> f.idle,
           freelist |-> [f.freelist EXCEPT ![a] = Tail(f.freelist[a])]]
  BY Zenon, <1>3, <1>5, <1>6 DEF Heaps
<1>10. g \in Heaps
  BY Zenon, <1>3, <1>8, <1>9, HeapFields DEF Heaps
<1>11. PICK n : n = Alloc(r.pt, size, api)
  BY Zenon
<1>12. n \in Allocs /\ n.pt = Head(f.freelist[a]) /\ n.size <= Caches[a] /\ n.pt = r.pt
  BY Zenon, <1>5, <1>8, <1>11 DEF Alloc, Allocs
<1>13. /\ g.mapped = f.mapped /\ g.pg = f.pg /\ g.idle = f.idle
       /\ g.freelist[a] = Tail(f.freelist[a])
       /\ \A c \in Arena : c # a => g.freelist[c] = f.freelist[c]
  BY Zenon, <1>3, <1>9, HeapFields
<1>14. Inv(g, L \cup {n}) /\ \A k \in L : k.pt # n.pt
  BY <1>2, <1>10, <1>12, <1>13, PopKeeps
<1>15. ListsKept(h, g)
  BY Zenon, <1>2, <1>13 DEF ListsKept
<1>. QED  BY Zenon, <1>5, <1>6, <1>8, <1>11, <1>12, <1>14, <1>15

LEMMA MmapRun ==
  ASSUME NEW h \in Heaps, NEW w, NEW m \in Mmap(h, w), m # NULL
  PROVE  m \in Page /\ Run(m, w) \subseteq Page \ h.mapped
BY Zenon DEF Mmap

LEMMA AllocPageFields ==
  ASSUME NEW h \in Heaps, NEW m, NEW w, Run(m, w) \subseteq Page,
         NEW g, g = alloc_page(h, m, w)
  PROVE  /\ g \in Heaps /\ g.pg = h.pg /\ g.mapped = h.mapped \cup Run(m, w)
         /\ g.freelist = h.freelist /\ g.idle = h.idle
<1>1. g = [pg |-> h.pg, mapped |-> h.mapped \cup Run(m, w),
           freelist |-> h.freelist, idle |-> h.idle]
  BY Zenon DEF alloc_page, Heaps
<1>. QED  BY <1>1, HeapFields DEF Heaps

LEMMA LargeAllocKeeps ==
  ASSUME NEW h, NEW L, Inv(h, L), NEW size \in Request, size > MaxSmall,
         NEW m \in Mmap(h, LargePages(size)), m # NULL,
         NEW r, r = large_alloc(h, LargePages(size), m)
  PROVE  /\ r.pt \in Addr /\ Inv(r.heap, L \cup {Alloc(r.pt, size, "malloc")})
         /\ \A k \in L : k.pt # r.pt
         /\ ListsKept(h, r.heap)
<1>. USE NullApart
<1>1. h \in Heaps /\ PageInv(h)
  BY Zenon DEF Inv
<1>2. PICK w \in Nat \ {0} : w = LargePages(size) /\ HDR + size <= w * PGSIZE
  BY Zenon, LargeFits
<1>3. m \in Page /\ Run(m, w) \subseteq Page \ h.mapped
  BY Zenon, <1>1, <1>2, MmapRun
<1>4. PICK y \in Header : y = h.pg[m]
  BY Zenon, <1>1, <1>3, HeapFields
<1>5. m \in Run(m, w) /\ y.are = NULL
  <2>1. m \in Run(m, w)
    BY <1>3 DEF Run, Page
  <2>. QED  BY Zenon, <2>1, <1>1, <1>3, <1>4 DEF PageInv
<1>6. PICK x \in Header : /\ x = [y EXCEPT !.magic = TRUE, !.npages = w]
                          /\ x.are = NULL /\ x.magic = TRUE /\ x.npages = w
  <2>1. [y EXCEPT !.magic = TRUE, !.npages = w] \in Header
    BY Zenon DEF Header
  <2>. QED  BY Zenon, <2>1, <1>5 DEF Header
<1>7. PICK g : g = r.heap
  BY Zenon
<1>8. /\ r = [heap |-> [alloc_page(h, m, w) EXCEPT !.pg[m].magic = TRUE, !.pg[m].npages = w],
              pt |-> <<m, HDR>>]
  BY Zenon, <1>2 DEF large_alloc
<1>9. g = [pg |-> [h.pg EXCEPT ![m] = x], mapped |-> h.mapped \cup Run(m, w),
           freelist |-> h.freelist, idle |-> h.idle]
  <2>1. [h.pg EXCEPT ![m].magic = TRUE, ![m].npages = w] = [h.pg EXCEPT ![m] = x]
    BY Zenon, <1>1, <1>3, <1>4, <1>6, HeapFields
  <2>3. PICK f \in Heaps : /\ f = alloc_page(h, m, w) /\ f.pg = h.pg
                          /\ f.mapped = h.mapped \cup Run(m, w)
                          /\ f.freelist = h.freelist /\ f.idle = h.idle
    BY <1>1, <1>3, AllocPageFields
  <2>4. g = [f EXCEPT !.pg[m].magic = TRUE, !.pg[m].npages = w]
    BY <1>7, <1>8, <2>3
  <2>5. g = [pg |-> [f.pg EXCEPT ![m].magic = TRUE, ![m].npages = w],
             mapped |-> f.mapped, freelist |-> f.freelist, idle |-> f.idle]
    BY Zenon, <2>4 DEF Heaps
  <2>. QED  BY Zenon, <2>1, <2>3, <2>5
<1>10. g \in Heaps
  BY Zenon, <1>1, <1>3, <1>6, <1>9, HeapFields DEF Heaps
<1>11. /\ g.mapped = h.mapped \cup Run(m, w) /\ g.freelist = h.freelist /\ g.idle = h.idle
       /\ \A q \in Page : q # m => g.pg[q] = h.pg[q]
       /\ g.pg[m] = x
  BY Zenon, <1>1, <1>3, <1>9, HeapFields
<1>12. PICK n : n = Alloc(r.pt, size, "malloc")
  BY Zenon
<1>13. r.pt = <<m, HDR>> /\ r.pt \in Addr /\ size \in Nat
  BY <1>3, <1>8, Header0 DEF Addr, Request
<1>14. /\ n \in Allocs /\ n.pt = r.pt /\ n.pt[1] = m /\ n.pt[2] = HDR
       /\ n.api = "malloc" /\ n.size = size
  BY <1>12, <1>13 DEF Alloc, Allocs
<1>15. Width(g, n) = w
  BY Zenon, <1>2, <1>6, <1>11, <1>14 DEF Width
<1>16. /\ g.pg[m].are = NULL /\ (g.pg[m].magic <=> g.pg[m].npages # 0)
       /\ g.pg[m].npages # 0
  BY Zenon, <1>2, <1>6, <1>11
<1>17. n.pt[2] + n.size <= w * PGSIZE
  BY Zenon, <1>2, <1>14
<1>18. Inv(g, L \cup {n}) /\ \A k \in L : k.pt # n.pt
  <2>1. Grown(h, g, m, w, n)
    BY Zenon, <1>11, <1>14, <1>15, <1>16, <1>17 DEF Grown
  <2>. QED  BY <2>1, <1>3, <1>10, <1>14, GrowKeeps
<1>19. ListsKept(h, g)
  BY Zenon, <1>1, <1>4, <1>5, <1>11, SlabMapped DEF ListsKept
<1>. QED  BY Zenon, <1>7, <1>12, <1>13, <1>14, <1>18, <1>19

LEMMA RawAllocKeeps ==
  ASSUME NEW h, NEW L, Inv(h, L), NEW size \in Request, size > MaxSmall,
         NEW m \in Mmap(h, RawPages(size)), m # NULL,
         NEW g, g = alloc_page(h, m, RawPages(size)),
         NEW pt, pt = <<m, 0>>
  PROVE  /\ pt \in Addr /\ Inv(g, L \cup {Alloc(pt, size, "cpp")})
         /\ \A k \in L : k.pt # pt
         /\ ListsKept(h, g)
<1>. USE NullApart
<1>1. h \in Heaps /\ PageInv(h)
  BY Zenon DEF Inv
<1>2. PICK w \in Nat \ {0} : w = RawPages(size) /\ size <= w * PGSIZE
  BY Zenon, RawFits
<1>3. m \in Page /\ Run(m, w) \subseteq Page \ h.mapped
  BY Zenon, <1>1, <1>2, MmapRun
<1>4. m \in Run(m, w)
  BY <1>3 DEF Run, Page
<1>5. h.pg[m].are = NULL /\ h.pg[m].npages = 0 /\ h.pg[m].magic = FALSE
  <2>1. h.pg[m].are = NULL /\ h.pg[m].npages = 0
    BY Zenon, <1>1, <1>3, <1>4 DEF PageInv
  <2>2. h.pg[m].magic <=> h.pg[m].are # NULL \/ h.pg[m].npages # 0
    BY Zenon, <1>1, <1>3 DEF PageInv
  <2>3. h.pg[m].magic \in BOOLEAN
    BY Zenon, <1>1, <1>3, HeaderFields
  <2>. QED  BY Zenon, <2>1, <2>2, <2>3
<1>8. /\ g \in Heaps /\ g.pg = h.pg /\ g.mapped = h.mapped \cup Run(m, w)
      /\ g.freelist = h.freelist /\ g.idle = h.idle
  BY <1>1, <1>2, <1>3, AllocPageFields
<1>9. PICK n : n = Alloc(pt, size, "cpp")
  BY Zenon
<1>10. pt \in Addr /\ size \in Nat
  BY <1>3, Header0 DEF Addr, Request
<1>11. /\ n \in Allocs /\ n.pt = pt /\ n.pt[1] = m /\ n.pt[2] = 0
       /\ n.api = "cpp" /\ n.size = size
  BY Zenon, <1>9, <1>10 DEF Alloc, Allocs
<1>12. Width(g, n) = w
  BY Zenon, <1>2, <1>5, <1>8, <1>11 DEF Width
<1>13. /\ g.pg[m].are = NULL /\ (g.pg[m].magic <=> g.pg[m].npages # 0)
       /\ g.pg[m].npages = 0
  BY Zenon, <1>5, <1>8
<1>14. n.pt[2] + n.size <= w * PGSIZE
  BY <1>2, <1>10, <1>11
<1>15. Inv(g, L \cup {n}) /\ \A k \in L : k.pt # n.pt
  <2>1. Grown(h, g, m, w, n)
    BY Zenon, <1>8, <1>11, <1>12, <1>13, <1>14 DEF Grown
  <2>. QED  BY <2>1, <1>3, <1>8, <1>11, GrowKeeps
<1>16. ListsKept(h, g)
  BY Zenon, <1>1, <1>8, SlabMapped DEF ListsKept
<1>. QED  BY Zenon, <1>9, <1>10, <1>11, <1>15, <1>16

(* What an allocation gives: nothing, and the heap is as it was, or memory *)
(* that no one else has.                                                   *)
Allocated(h, L, r, size, api) ==
  IF r.pt = NullPt
  THEN r.heap = h
  ELSE /\ r.pt \in Addr /\ Inv(r.heap, L \cup {Alloc(r.pt, size, api)})
       /\ \A k \in L : k.pt # r.pt
       /\ ListsKept(h, r.heap)

LEMMA NullPtApart == NullPt \notin Addr
BY DEF NullPt, Addr, NULL, Page

LEMMA MallocKeeps ==
  ASSUME Counting, NEW h, NEW L, Inv(h, L), NEW size \in Request, NEW api \in {"malloc", "cpp"},
         size > MaxSmall => api = "malloc",
         NEW m \in Mmap(h, MallocPages(size)),
         NEW r, r = mymalloc(h, size, m)
  PROVE  Allocated(h, L, r, size, api)
<1>0. size \in Nat /\ MaxSmall \in Nat
  BY Zenon, Largest DEF Request
<1>1. CASE size > MaxSmall /\ m = NULL
  BY Zenon, <1>1 DEF mymalloc, large_alloc, Allocated
<1>2. CASE size > MaxSmall /\ m # NULL
  <2>1. r = large_alloc(h, LargePages(size), m) /\ m \in Mmap(h, LargePages(size))
    BY Zenon, <1>2 DEF mymalloc, MallocPages
  <2>2. /\ r.pt \in Addr /\ Inv(r.heap, L \cup {Alloc(r.pt, size, "malloc")})
        /\ \A k \in L : k.pt # r.pt
        /\ ListsKept(h, r.heap)
    BY Zenon, <1>2, <2>1, LargeAllocKeeps
  <2>. QED  BY Zenon, <1>2, <2>2, NullPtApart DEF Allocated
<1>3. CASE ~ (size > MaxSmall)
  <2>1. PICK a \in Arena : a = ArenaFor(size) /\ size <= Caches[a]
    BY <1>0, <1>3, ArenaForFits
  <2>2. r = arena_alloc(h, a, m) /\ m \in Mmap(h, 1)
    BY Zenon, <1>3, <2>1 DEF mymalloc, MallocPages
  <2>3. CASE NeedsPage(h, a) /\ m = NULL
    BY <2>2, <2>3 DEF arena_alloc, Allocated
  <2>4. CASE ~ (NeedsPage(h, a) /\ m = NULL)
    <3>1. /\ r.pt \in Addr /\ Inv(r.heap, L \cup {Alloc(r.pt, size, api)})
          /\ \A k \in L : k.pt # r.pt
          /\ ListsKept(h, r.heap)
      BY Zenon, <1>0, <2>1, <2>2, <2>4, ArenaAllocKeeps
    <3>. QED  BY Zenon, <3>1, NullPtApart DEF Allocated
  <2>. QED  BY Zenon, <2>3, <2>4
<1>. QED  BY Zenon, <1>1, <1>2, <1>3

LEMMA CppAllocKeeps ==
  ASSUME Counting, NEW h, NEW L, Inv(h, L), NEW size \in Request,
         NEW m \in Mmap(h, CppPages(size)),
         NEW r, r = cpp_alloc(h, size, m)
  PROVE  Allocated(h, L, r, size, "cpp")
<1>1. CASE size > MaxSmall /\ m = NULL
  BY Zenon, <1>1 DEF cpp_alloc, Allocated
<1>2. CASE size > MaxSmall /\ m # NULL
  <2>1. /\ r.heap = alloc_page(h, m, RawPages(size)) /\ r.pt = <<m, 0>>
        /\ m \in Mmap(h, RawPages(size))
    BY Zenon, <1>2 DEF cpp_alloc, CppPages
  <2>2. /\ r.pt \in Addr /\ Inv(r.heap, L \cup {Alloc(r.pt, size, "cpp")})
        /\ \A k \in L : k.pt # r.pt
        /\ ListsKept(h, r.heap)
    BY Zenon, <1>2, <2>1, RawAllocKeeps
  <2>. QED  BY Zenon, <2>2, NullPtApart DEF Allocated
<1>3. CASE ~ (size > MaxSmall)
  <2>1. r = mymalloc(h, size, m) /\ m \in Mmap(h, MallocPages(size))
    BY Zenon, <1>3 DEF cpp_alloc, CppPages, MallocPages
  <2>. QED  BY Zenon, <1>3, <2>1, MallocKeeps
<1>. QED  BY Zenon, <1>1, <1>2, <1>3

(* A free adds to the list of a page that stays mapped, at its head.       *)
ListsPushed(h, g) ==
  \A p \in Page : h.pg[p].are # NULL /\ p \in g.mapped =>
    \/ g.pg[p].fl = h.pg[p].fl
    \/ g.pg[p].fl # <<>> /\ Tail(g.pg[p].fl) = h.pg[p].fl

LEMMA FreePageFields ==
  ASSUME NEW h \in Heaps, NEW p, NEW w, NEW g, g = free_page(h, p, w)
  PROVE  /\ g \in Heaps /\ g.mapped = h.mapped \ Run(p, w)
         /\ g.freelist = h.freelist /\ g.idle = h.idle
         /\ \A q \in Page : g.pg[q] = IF q \in Run(p, w) THEN ZeroPage ELSE h.pg[q]
<1>. DEFINE f == [q \in Page |-> IF q \in Run(p, w) THEN ZeroPage ELSE h.pg[q]]
<1>1. g = [pg |-> f, mapped |-> h.mapped \ Run(p, w),
           freelist |-> h.freelist, idle |-> h.idle]
  BY Zenon DEF free_page, Heaps
<1>2. ZeroPage \in Header
  BY NullApart DEF ZeroPage, Header
<1>3. f \in [Page -> Header]
  BY Zenon, <1>2, HeapFields
<1>4. \A q \in Page : f[q] = IF q \in Run(p, w) THEN ZeroPage ELSE h.pg[q]
  BY Zenon
<1>. HIDE DEF f
<1>5. g \in Heaps
  BY Zenon, <1>1, <1>3, HeapFields DEF Heaps
<1>. QED  BY <1>1, <1>4, <1>5

LEMMA BigFree ==
  ASSUME NEW h, NEW L, Inv(h, L), NEW l \in L, Big(h, l), NEW w, w = Width(h, l),
         NEW g, g = free_page(h, l.pt[1], w)
  PROVE  Inv(g, L \ {l}) /\ ListsPushed(h, g)
<1>1. h \in Heaps
  BY Zenon DEF Inv
<1>2. Span(h, l) = Run(l.pt[1], w)
  BY Zenon DEF Span
<1>3. /\ g \in Heaps /\ g.mapped = h.mapped \ Span(h, l)
      /\ g.freelist = h.freelist /\ g.idle = h.idle
      /\ \A q \in Page : g.pg[q] = IF q \in Span(h, l) THEN ZeroPage ELSE h.pg[q]
  BY <1>1, <1>2, FreePageFields
<1>4. Inv(g, L \ {l})
  BY <1>3, FreeBigKeeps
<1>. QED  BY Zenon, <1>3, <1>4 DEF ListsPushed

LEMMA SlabFreeKeeps ==
  ASSUME Counting, NEW h, NEW L, Inv(h, L), NEW l \in L, ~ Big(h, l),
         NEW g, g = slab_free(h, l.pt)
  PROVE  Inv(g, L \ {l}) /\ ListsPushed(h, g)
<1>. DEFINE p == block_to_page(l.pt)
            a == h.pg[p].are
            r == [h EXCEPT !.pg[p].avail = @ + 1, !.pg[p].fl = <<l.pt>> \o @]
<1>0. g = IF r.pg[p].avail = r.pg[p].total THEN arena_add_idle(r, a, p) ELSE r
  BY Zenon DEF slab_free
<1>1. h \in Heaps /\ L \subseteq Allocs
  BY Zenon DEF Inv
<1>2. p \in Page /\ p = l.pt[1] /\ l.pt \in Addr
  BY Zenon, <1>1, AllocFields DEF block_to_page
<1>3. a \in Arena /\ a = h.pg[p].are
  BY Zenon, <1>1, <1>2, HeaderFields DEF Big
<1>8. r = [h EXCEPT !.pg[p].avail = @ + 1, !.pg[p].fl = <<l.pt>> \o @]
  BY Zenon
<1>. HIDE DEF r, a, p
<1>. USE <1>2, <1>3, NullApart
<1>4. PICK y \in Header : y = h.pg[p]
  BY Zenon, <1>1, HeapFields
<1>5. y.fl \in Seq(Addr) /\ y.avail \in Nat
  BY Zenon DEF Header
<1>6. <<l.pt>> \o y.fl \in Seq(Addr) /\ Tail(<<l.pt>> \o y.fl) = y.fl /\ <<l.pt>> \o y.fl # <<>>
  BY Zenon, <1>2, <1>5, Push
<1>7. PICK x \in Header : /\ x = [y EXCEPT !.avail = @ + 1, !.fl = <<l.pt>> \o @]
                          /\ x.avail = y.avail + 1 /\ x.fl = <<l.pt>> \o y.fl
                          /\ x.are = y.are /\ x.total = y.total
                          /\ x.magic = y.magic /\ x.npages = y.npages
  <2>1. y.avail + 1 \in Nat
    BY <1>5
  <2>2. [y EXCEPT !.avail = @ + 1, !.fl = <<l.pt>> \o @] \in Header
    BY Zenon, <1>6, <2>1 DEF Header
  <2>. QED  BY Zenon, <2>2 DEF Header
<1>9. r = [pg |-> [h.pg EXCEPT ![p] = x], mapped |-> h.mapped,
           freelist |-> h.freelist, idle |-> h.idle]
  <2>1. [h.pg EXCEPT ![p].avail = @ + 1, ![p].fl = <<l.pt>> \o @] = [h.pg EXCEPT ![p] = x]
    BY Zenon, <1>1, <1>4, <1>7, HeapFields
  <2>2. r = [pg |-> [h.pg EXCEPT ![p].avail = @ + 1, ![p].fl = <<l.pt>> \o @],
             mapped |-> h.mapped, freelist |-> h.freelist, idle |-> h.idle]
    BY Zenon, <1>1, <1>8 DEF Heaps
  <2>. QED  BY Zenon, <2>1, <2>2
<1>10. r \in Heaps
  BY Zenon, <1>1, <1>9, HeapFields DEF Heaps
<1>11. Pushed(h, r, p, l.pt)
  BY Zenon, <1>1, <1>4, <1>7, <1>9, HeapFields DEF Pushed
<1>. PICK M \in SUBSET Allocs : M = L \ {l}
  BY Zenon, <1>1
<1>11a. BlockBack(r, M, p, a)
  <2>1. BlockBack(r, L \ {l}, p, a)
    BY Zenon, <1>10, <1>11, PushKeeps
  <2>. QED  BY Zenon, <2>1
<1>12. /\ PageInv(r) /\ ArenaInv(r) /\ SlabInv(r, M) /\ LiveInv(r, M)
       /\ \A q \in Page \ {p} : r.pg[q].are # NULL => IdlePageInv(r, q)
       /\ r.pg[p].are = a /\ r.idle[a] # p
       /\ OnPage(r, p) = Blocks(p, a) <=> r.pg[p].avail = r.pg[p].total
  BY Zenon, <1>11a DEF BlockBack
<1>13. /\ r.pg[p].fl # <<>> /\ Tail(r.pg[p].fl) = h.pg[p].fl
       /\ \A q \in Page : q # p => r.pg[q] = h.pg[q]
  BY Zenon, <1>4, <1>6, <1>11 DEF Pushed
<1>15. CASE r.pg[p].avail # r.pg[p].total
  <2>1. g = r
    BY Zenon, <1>0, <1>15
  <2>2. IdlePageInv(r, p)
    BY Zenon, <1>12, <1>15 DEF IdlePageInv
  <2>3. Inv(g, M)
    BY Zenon, <2>1, <2>2, <1>10, <1>12 DEF Inv, IdleInv
  <2>. QED  BY Zenon, <2>1, <2>3, <1>13 DEF ListsPushed
<1>16. CASE r.pg[p].avail = r.pg[p].total /\ r.idle[a] = NULL
  <2>1. g = [r EXCEPT !.idle[a] = p]
    BY Zenon, <1>0, <1>16 DEF arena_add_idle
  <2>2. g = [pg |-> r.pg, mapped |-> r.mapped, freelist |-> r.freelist,
             idle |-> [r.idle EXCEPT ![a] = p]]
    BY Zenon, <2>1, <1>10 DEF Heaps
  <2>3. /\ g \in Heaps /\ g.mapped = r.mapped /\ g.freelist = r.freelist /\ g.pg = r.pg
        /\ g.idle[a] = p /\ \A c \in Arena : c # a => g.idle[c] = r.idle[c]
    BY <2>2, <1>10, HeapFields DEF Heaps
  <2>4. Inv(g, M)
    <3>1. MadeIdle(r, g, p, a)
      BY Zenon, <2>3 DEF MadeIdle
    <3>. QED  BY Zenon, <2>3, <3>1, <1>10, <1>11a, <1>16, MakeIdleKeeps
  <2>. QED  BY Zenon, <2>3, <2>4, <1>13 DEF ListsPushed
<1>17. CASE r.pg[p].avail = r.pg[p].total /\ r.idle[a] # NULL
  <2>1. g = free_page(r, p, 1) /\ Run(p, 1) = {p}
    BY Zenon, <1>0, <1>17, RunOne DEF arena_add_idle
  <2>2. /\ g \in Heaps /\ g.mapped = r.mapped \ {p}
        /\ g.freelist = r.freelist /\ g.idle = r.idle
        /\ \A q \in Page : g.pg[q] = IF q \in {p} THEN ZeroPage ELSE r.pg[q]
    BY <2>1, <1>10, FreePageFields
  <2>3. Inv(g, M)
    BY <2>2, <1>10, <1>11a, <1>17, DropPageKeeps
  <2>. QED  BY <2>2, <2>3, <1>13 DEF ListsPushed
<1>. QED  BY Zenon, <1>15, <1>16, <1>17

(* Which allocations are of a slab: all but the large ones.                *)
LEMMA BigSizes ==
  ASSUME NEW h, NEW L, Inv(h, L), NEW l \in L
  PROVE  /\ l.api = "cpp" => (Big(h, l) <=> l.size > MaxSmall)
         /\ Big(h, l) /\ l.api = "cpp" => Width(h, l) = RawPages(l.size)
         /\ Big(h, l) /\ l.api = "malloc" => Width(h, l) = h.pg[l.pt[1]].npages
         /\ l.api = "malloc" \/ ~ Big(h, l) => h.pg[l.pt[1]].magic
<1>. USE NullApart
<1>1. /\ h \in Heaps /\ L \subseteq Allocs /\ PageInv(h) /\ LiveInv(h, L)
  BY Zenon DEF Inv
<1>2. l \in Allocs /\ l.size \in Nat
  BY Zenon, <1>1, AllocFields
<1>. PICK p \in Page : p = l.pt[1]
  BY Zenon, <1>2, AllocFields
<1>3. CASE Big(h, l)
  <2>1. BigInv(h, l)
    BY Zenon, <1>1, <1>3 DEF LiveInv
  <2>2. l.api = "cpp" => h.pg[p].npages = 0 /\ l.size > MaxSmall
    BY Zenon, <2>1 DEF BigInv
  <2>3. l.api = "malloc" => h.pg[p].npages # 0
    BY Zenon, <2>1 DEF BigInv
  <2>4. h.pg[p].npages # 0 => h.pg[p].magic
    BY Zenon, <1>1 DEF PageInv
  <2>. QED  BY Zenon, <1>3, <2>2, <2>3, <2>4 DEF Width
<1>4. CASE ~ Big(h, l)
  <2>1. SmallInv(h, l) /\ h.pg[p].are \in Arena /\ h.pg[p].magic
    BY Zenon, <1>1, <1>4, SlabMapped DEF LiveInv, Big
  <2>2. l.size <= Caches[h.pg[p].are] /\ Caches[h.pg[p].are] <= MaxSmall
    BY Zenon, <2>1, Largest DEF SmallInv
  <2>3. Caches[h.pg[p].are] \in Nat /\ MaxSmall \in Nat
    BY Zenon, <2>1, CacheType, Largest
  <2>4. ~ (l.size > MaxSmall)
    BY <2>2, <2>3, <1>2
  <2>. QED  BY Zenon, <1>4, <2>1, <2>4
<1>. QED  BY Zenon, <1>3, <1>4

LEMMA MyFreeKeeps ==
  ASSUME Counting, NEW h, NEW L, Inv(h, L), NEW l \in L, l.api = "malloc" \/ ~ Big(h, l),
         NEW g, g = myfree(h, l.pt)
  PROVE  h.pg[l.pt[1]].magic /\ Inv(g, L \ {l}) /\ ListsPushed(h, g)
<1>1. h.pg[l.pt[1]].magic
  BY Zenon, BigSizes
<1>2. CASE Big(h, l)
  <2>1. g = free_page(h, l.pt[1], h.pg[l.pt[1]].npages)
    BY Zenon, <1>2 DEF myfree, block_to_page, Big
  <2>2. Width(h, l) = h.pg[l.pt[1]].npages
    BY Zenon, <1>2, BigSizes
  <2>. QED  BY Zenon, <1>1, <1>2, <2>1, <2>2, BigFree
<1>3. CASE ~ Big(h, l)
  <2>1. g = slab_free(h, l.pt)
    BY Zenon, <1>3 DEF myfree, block_to_page, Big
  <2>. QED  BY Zenon, <1>1, <1>3, <2>1, SlabFreeKeeps
<1>. QED  BY Zenon, <1>2, <1>3

-----------------------------------------------------------------------------
(* The steps of the allocator, by what they do to the memory in use.       *)

NothingGiven == UNCHANGED vars

Given ==
  \E n \in Allocs :
    /\ live' = live \cup {n} /\ Inv(heap', live') /\ \A k \in live : k.pt # n.pt
    /\ ListsKept(heap, heap') /\ UNCHANGED phase

Returned ==
  \E l \in live :
    /\ live' = live \ {l} /\ Inv(heap', live')
    /\ ListsPushed(heap, heap') /\ UNCHANGED phase

Resized ==
  \E l \in live, n \in Allocs :
    /\ n.pt = l.pt /\ live' = (live \ {l}) \cup {n} /\ Inv(heap', live')
    /\ UNCHANGED <<heap, phase>>

(* In between, both the old memory and the new one are in use.             *)
Moved ==
  \E l \in live, n \in Allocs, g \in Heaps :
    /\ Inv(g, live \cup {n}) /\ \A k \in live : k.pt # n.pt
    /\ live' = (live \ {l}) \cup {n} /\ Inv(heap', live')
    /\ ListsKept(heap, g) /\ ListsPushed(g, heap') /\ UNCHANGED phase

Ended == phase' = "exited" /\ heap' \in Heaps /\ heap'.pg = heap.pg /\ UNCHANGED live

Outcome == NothingGiven \/ Given \/ Returned \/ Resized \/ Moved \/ Ended

LEMMA TypeAs == TypeOK <=> /\ heap \in Heaps /\ live \subseteq Allocs
                           /\ phase \in {"run", "aborted", "exited"}
BY Zenon DEF TypeOK, Heaps, Allocs

(* The heap and the live set after a call that allocates.                  *)
LEMMA AllocatedOutcome ==
  ASSUME NEW r, NEW size \in Request, NEW api \in {"malloc", "cpp"},
         Allocated(heap, live, r, size, api),
         heap' = r.heap, live' = Hand(live, r.pt, size, api), UNCHANGED phase
  PROVE  NothingGiven \/ Given
<1>1. CASE r.pt = NullPt
  BY Zenon, <1>1 DEF Allocated, Hand, NothingGiven, vars
<1>2. CASE r.pt # NullPt
  <2>1. /\ r.pt \in Addr /\ Inv(r.heap, live \cup {Alloc(r.pt, size, api)})
        /\ \A k \in live : k.pt # r.pt
        /\ ListsKept(heap, r.heap)
    BY Zenon, <1>2 DEF Allocated
  <2>2. PICK n : n = Alloc(r.pt, size, api)
    BY Zenon
  <2>3. n \in Allocs /\ n.pt = r.pt
    BY Zenon, <2>1, <2>2 DEF Alloc, Allocs, Request
  <2>4. live' = live \cup {n}
    BY Zenon, <1>2, <2>2 DEF Hand
  <2>5. Inv(heap', live') /\ ListsKept(heap, heap') /\ \A k \in live : k.pt # n.pt
    BY Zenon, <2>1, <2>2, <2>3, <2>4
  <2>6. Given
    BY Zenon, <2>3, <2>4, <2>5 DEF Given
  <2>. QED  BY Zenon, <2>6
<1>. QED  BY Zenon, <1>1, <1>2

LEMMA MallocOutcome ==
  ASSUME Counting, HeapInv, NEW size \in Request, Malloc(size)
  PROVE  NothingGiven \/ Given
<1>1. Inv(heap, live)
  BY Zenon DEF HeapInv, Malloc
<1>2. PICK m \in Mmap(heap, MallocPages(size)) :
        /\ heap' = mymalloc(heap, size, m).heap
        /\ live' = Hand(live, mymalloc(heap, size, m).pt, size, "malloc")
  BY Zenon DEF Malloc
<1>3. PICK r : r = mymalloc(heap, size, m)
  BY Zenon
<1>4. Allocated(heap, live, r, size, "malloc")
  BY Zenon, <1>1, <1>3, MallocKeeps
<1>5. /\ heap' = r.heap /\ live' = Hand(live, r.pt, size, "malloc") /\ UNCHANGED phase
  BY Zenon, <1>2, <1>3 DEF Malloc
<1>. QED  BY Zenon, <1>4, <1>5, AllocatedOutcome

LEMMA CppAllocOutcome ==
  ASSUME Counting, HeapInv, NEW size \in Request, CppAlloc(size)
  PROVE  NothingGiven \/ Given
<1>1. Inv(heap, live)
  BY Zenon DEF HeapInv, CppAlloc
<1>2. PICK m \in Mmap(heap, CppPages(size)) :
        /\ heap' = cpp_alloc(heap, size, m).heap
        /\ live' = Hand(live, cpp_alloc(heap, size, m).pt, size, "cpp")
  BY Zenon DEF CppAlloc
<1>3. PICK r : r = cpp_alloc(heap, size, m)
  BY Zenon
<1>4. Allocated(heap, live, r, size, "cpp")
  BY Zenon, <1>1, <1>3, CppAllocKeeps
<1>5. /\ heap' = r.heap /\ live' = Hand(live, r.pt, size, "cpp") /\ UNCHANGED phase
  BY Zenon, <1>2, <1>3 DEF CppAlloc
<1>. QED  BY Zenon, <1>4, <1>5, AllocatedOutcome

(* A user's pointer has its magic, so myfree does not abort.               *)
LEMMA FreeOutcome ==
  ASSUME Counting, Inv(heap, live), NEW l \in live, l.api = "malloc" \/ ~ Big(heap, l),
         FreeOrAbort(l, myfree(heap, l.pt))
  PROVE  Returned
<1>1. PICK g : g = myfree(heap, l.pt)
  BY Zenon
<1>2. heap.pg[l.pt[1]].magic /\ Inv(g, live \ {l}) /\ ListsPushed(heap, g)
  BY Zenon, <1>1, MyFreeKeeps
<1>3. heap' = g /\ live' = live \ {l} /\ UNCHANGED phase
  BY Zenon, <1>1, <1>2 DEF FreeOrAbort, block_to_page
<1>. QED  BY Zenon, <1>2, <1>3 DEF Returned

LEMMA CppFreeOutcome ==
  ASSUME Counting, HeapInv, NEW l \in live, CppFree(l)
  PROVE  Returned
<1>1. Inv(heap, live) /\ l.api = "cpp"
  BY Zenon DEF HeapInv, CppFree
<1>2. CASE l.size > MaxSmall
  <2>1. Big(heap, l) /\ Width(heap, l) = RawPages(l.size)
    BY Zenon, <1>1, <1>2, BigSizes
  <2>2. PICK g : g = free_page(heap, l.pt[1], RawPages(l.size))
    BY Zenon
  <2>3. heap' = g /\ live' = live \ {l} /\ UNCHANGED phase
    BY Zenon, <1>2, <2>2 DEF CppFree, cpp_free
  <2>4. Inv(g, live \ {l}) /\ ListsPushed(heap, g)
    BY Zenon, <1>1, <2>1, <2>2, BigFree
  <2>. QED  BY Zenon, <2>3, <2>4 DEF Returned
<1>3. CASE ~ (l.size > MaxSmall)
  <2>1. ~ Big(heap, l)
    BY Zenon, <1>1, <1>3, BigSizes
  <2>2. FreeOrAbort(l, cpp_free(heap, l.pt, l.size))
    BY Zenon, <1>3 DEF CppFree
  <2>3. cpp_free(heap, l.pt, l.size) = myfree(heap, l.pt)
    BY Zenon, <1>3 DEF cpp_free
  <2>4. FreeOrAbort(l, myfree(heap, l.pt))
    BY Zenon, <2>2, <2>3 DEF FreeOrAbort
  <2>. QED  BY Zenon, <1>1, <2>1, <2>4, FreeOutcome
<1>. QED  BY Zenon, <1>2, <1>3

LEMMA ReallocOutcome ==
  ASSUME Counting, HeapInv, NEW l \in live, NEW size \in Request, Realloc(l, size)
  PROVE  NothingGiven \/ Resized \/ Moved
<1>1. Inv(heap, live) /\ l.api = "malloc" /\ live \subseteq Allocs /\ size \in Nat
  BY Zenon DEF HeapInv, Realloc, Inv, Request
<1>2. CASE /\ size <= Usable(heap, l.pt)
           /\ live' = (live \ {l}) \cup {Alloc(l.pt, size, "malloc")}
           /\ UNCHANGED <<heap, phase>>
  <2>1. PICK n : n = Alloc(l.pt, size, "malloc")
    BY Zenon
  <2>2. l.pt \in Addr
    BY Zenon, <1>1, AllocFields
  <2>3. n \in Allocs /\ n.pt = l.pt /\ n.api = "malloc" /\ n.size = size
    BY Zenon, <1>1, <2>1, <2>2 DEF Alloc, Allocs
  <2>4. Inv(heap, (live \ {l}) \cup {n})
    BY Zenon, <1>1, <1>2, <2>3, ResizeKeeps
  <2>5. live' = (live \ {l}) \cup {n} /\ heap' = heap
    BY Zenon, <1>2, <2>1
  <2>6. Inv(heap', live')
    BY Zenon, <2>4, <2>5
  <2>. QED  BY Zenon, <1>2, <2>3, <2>5, <2>6 DEF Resized
<1>3. ASSUME NEW m \in Mmap(heap, MallocPages(size)), NEW r, r = mymalloc(heap, size, m),
             IF r.pt = NullPt
             THEN heap' = r.heap /\ UNCHANGED <<live, phase>>
             ELSE IF r.heap.pg[block_to_page(l.pt)].magic
             THEN /\ heap' = myfree(r.heap, l.pt)
                  /\ live' = (live \ {l}) \cup {Alloc(r.pt, size, "malloc")}
                  /\ UNCHANGED phase
             ELSE heap' = r.heap /\ phase' = "aborted" /\ UNCHANGED live
      PROVE  NothingGiven \/ Moved
  <2>1. Allocated(heap, live, r, size, "malloc")
    BY Zenon, <1>1, <1>3, MallocKeeps
  <2>2. CASE r.pt = NullPt
    BY Zenon, <1>3, <2>1, <2>2 DEF Allocated, NothingGiven, vars
  <2>3. CASE r.pt # NullPt
    <3>1. /\ r.pt \in Addr /\ Inv(r.heap, live \cup {Alloc(r.pt, size, "malloc")})
          /\ \A k \in live : k.pt # r.pt
          /\ ListsKept(heap, r.heap)
      BY Zenon, <2>1, <2>3 DEF Allocated
    <3>2. PICK n : n = Alloc(r.pt, size, "malloc")
      BY Zenon
    <3>3. n \in Allocs /\ n.pt = r.pt
      BY Zenon, <1>1, <3>1, <3>2 DEF Alloc, Allocs
    <3>4. PICK g : g = r.heap
      BY Zenon
    <3>5. PICK f : f = myfree(g, l.pt)
      BY Zenon
    <3>6. PICK L : L = live \cup {n}
      BY Zenon
    <3>7. Inv(g, L) /\ l \in L /\ g \in Heaps
      BY Zenon, <3>1, <3>2, <3>4, <3>6 DEF Inv
    <3>8. g.pg[l.pt[1]].magic /\ Inv(f, L \ {l}) /\ ListsPushed(g, f)
      BY Zenon, <1>1, <3>5, <3>7, MyFreeKeeps
    <3>9. heap' = f /\ live' = (live \ {l}) \cup {n} /\ UNCHANGED phase
      BY Zenon, <1>3, <2>3, <3>2, <3>4, <3>5, <3>8 DEF block_to_page
    <3>10. n # l /\ \A k \in live : k.pt # n.pt
      BY Zenon, <3>1, <3>3
    <3>11. live' = L \ {l}
      BY Zenon, <3>6, <3>9, <3>10
    <3>12. Inv(heap', live') /\ Inv(g, live \cup {n})
      BY Zenon, <3>6, <3>7, <3>8, <3>9, <3>11
    <3>13. ListsKept(heap, g) /\ ListsPushed(g, heap')
      BY Zenon, <3>1, <3>4, <3>8, <3>9
    <3>. QED  BY Zenon, <3>3, <3>7, <3>9, <3>10, <3>12, <3>13 DEF Moved
  <2>. QED  BY Zenon, <2>2, <2>3
<1>. QED  BY Zenon, <1>2, <1>3 DEF Realloc

LEMMA FiniOutcome ==
  ASSUME HeapInv, malloc_fini
  PROVE  Ended
<1>1. heap \in Heaps
  BY Zenon, TypeAs DEF HeapInv
<1>2. heap' = [heap EXCEPT !.mapped = @ \ {heap.idle[a] : a \in Arena}]
  BY Zenon DEF malloc_fini
<1>. PICK S \in SUBSET Page : S = heap.mapped \ {heap.idle[a] : a \in Arena}
  BY Zenon, <1>1, HeapFields
<1>3. heap' = [pg |-> heap.pg, mapped |-> S, freelist |-> heap.freelist, idle |-> heap.idle]
  BY Zenon, <1>1, <1>2 DEF Heaps
<1>4. heap' \in Heaps /\ heap'.pg = heap.pg
  BY Zenon, <1>1, <1>3, HeapFields DEF Heaps
<1>. QED  BY Zenon, <1>4 DEF Ended, malloc_fini

LEMMA StepOutcome ==
  ASSUME Counting, HeapInv, Next
  PROVE  Outcome /\ phase = "run"
<1>1. ASSUME NEW s \in Sizes, Malloc(s) \/ CppAlloc(s)
      PROVE  Outcome /\ phase = "run"
  <2>1. s \in Request
    BY Zenon, Requests
  <2>2. CASE Malloc(s)
    BY Zenon, <2>1, <2>2, MallocOutcome DEF Outcome, Malloc
  <2>3. CASE CppAlloc(s)
    BY Zenon, <2>1, <2>3, CppAllocOutcome DEF Outcome, CppAlloc
  <2>. QED  BY Zenon, <1>1, <2>2, <2>3
<1>2. ASSUME NEW s \in Sizes, NEW n \in Counts, Calloc(n, s)
      PROVE  Outcome /\ phase = "run"
  <2>1. PICK x \in Request : x = (n * s) % SizeMod
    BY Zenon, Requests
  <2>2. Malloc(x)
    BY Zenon, <1>2, <2>1 DEF Calloc
  <2>. QED  BY Zenon, <2>2, MallocOutcome DEF Outcome, Malloc
<1>3. ASSUME NEW l \in live, Free(l)
      PROVE  Outcome /\ phase = "run"
  <2>1. /\ phase = "run" /\ Inv(heap, live) /\ l.api = "malloc"
        /\ FreeOrAbort(l, myfree(heap, l.pt))
    BY Zenon, <1>3 DEF HeapInv, Free
  <2>. QED  BY Zenon, <2>1, FreeOutcome DEF Outcome
<1>4. ASSUME NEW l \in live, CppFree(l)
      PROVE  Outcome /\ phase = "run"
  <2>1. phase = "run"
    BY Zenon, <1>4 DEF CppFree
  <2>. QED  BY Zenon, <1>4, <2>1, CppFreeOutcome DEF Outcome
<1>5. ASSUME NEW l \in live, NEW s \in Sizes, Realloc(l, s)
      PROVE  Outcome /\ phase = "run"
  <2>1. s \in Request
    BY Zenon, Requests
  <2>2. phase = "run"
    BY Zenon, <1>5 DEF Realloc
  <2>. QED  BY Zenon, <1>5, <2>1, <2>2, ReallocOutcome DEF Outcome
<1>6. CASE malloc_fini
  BY Zenon, <1>6, FiniOutcome DEF Outcome, malloc_fini
<1>. QED  BY Zenon, <1>1, <1>2, <1>3, <1>4, <1>5, <1>6 DEF Next

LEMMA InitHeapInv == Init => HeapInv
<1>. SUFFICES ASSUME Init
              PROVE  HeapInv
  BY Zenon
<1>. USE NullApart
<1>1. heap = [pg |-> [p \in Page |-> ZeroPage], mapped |-> {},
              freelist |-> [a \in Arena |-> <<>>], idle |-> [a \in Arena |-> NULL]]
      /\ live = {} /\ phase = "run"
  BY Zenon DEF Init
<1>2. /\ heap.pg = [p \in Page |-> ZeroPage] /\ heap.mapped = {}
      /\ heap.freelist = [a \in Arena |-> <<>>] /\ heap.idle = [a \in Arena |-> NULL]
  BY Zenon, <1>1
<1>3. ZeroPage \in Header /\ <<>> \in Seq(Addr)
  BY DEF ZeroPage, Header
<1>4. heap \in Heaps
  BY Zenon, <1>1, <1>3 DEF Heaps
<1>5. \A p \in Page : /\ heap.pg[p].are = NULL /\ heap.pg[p].npages = 0
                      /\ heap.pg[p].magic = FALSE
  BY <1>2 DEF ZeroPage
<1>6. PageInv(heap)
  BY Zenon, <1>5 DEF PageInv
<1>7. ArenaInv(heap)
  BY Zenon, <1>2, NoElems DEF ArenaInv
<1>8. SlabInv(heap, live) /\ IdleInv(heap)
  BY Zenon, <1>5 DEF SlabInv, IdleInv
<1>9. LiveInv(heap, live)
  BY Zenon, <1>1 DEF LiveInv
<1>10. Inv(heap, live)
  BY Zenon, <1>1, <1>4, <1>6, <1>7, <1>8, <1>9 DEF Inv
<1>11. TypeOK
  BY Zenon, <1>1, <1>4, TypeAs
<1>. QED  BY Zenon, <1>1, <1>10, <1>11 DEF HeapInv

LEMMA NextHeapInv ==
  ASSUME Counting, HeapInv, Next
  PROVE  HeapInv'
<1>. USE TypeAs
<1>1. Outcome /\ phase = "run" /\ Inv(heap, live) /\ TypeOK
  BY Zenon, StepOutcome DEF HeapInv
<1>2. ASSUME Inv(heap', live'), phase' = "run"
      PROVE  HeapInv'
  <2>1. heap' \in Heaps /\ live' \subseteq Allocs
    BY Zenon, <1>2 DEF Inv
  <2>2. TypeOK'
    BY Zenon, <1>2, <2>1 DEF TypeOK, Heaps, Allocs
  <2>. QED  BY Zenon, <1>2, <2>2 DEF HeapInv
<1>3. CASE NothingGiven
  BY Zenon, <1>1, <1>2, <1>3 DEF NothingGiven, vars
<1>4. CASE Given
  BY Zenon, <1>1, <1>2, <1>4 DEF Given
<1>5. CASE Returned
  BY Zenon, <1>1, <1>2, <1>5 DEF Returned
<1>6. CASE Resized
  BY Zenon, <1>1, <1>2, <1>6 DEF Resized
<1>7. CASE Moved
  BY Zenon, <1>1, <1>2, <1>7 DEF Moved
<1>8. CASE Ended
  <2>1. /\ heap' \in Heaps /\ live' \subseteq Allocs /\ phase' = "exited"
    BY Zenon, <1>1, <1>8 DEF Ended, Inv
  <2>2. TypeOK'
    BY Zenon, <2>1 DEF TypeOK, Heaps, Allocs
  <2>. QED  BY Zenon, <2>1, <2>2 DEF HeapInv
<1>. QED  BY Zenon, <1>1, <1>3, <1>4, <1>5, <1>6, <1>7, <1>8 DEF Outcome

-----------------------------------------------------------------------------
(* What the invariant gives.                                               *)

LEMMA SlabHeld ==
  ASSUME NEW h, NEW L, Inv(h, L), NEW p \in Page, h.pg[p].are # NULL,
         NEW l \in L, l.pt[1] = p
  PROVE  l.pt \in Blocks(p, h.pg[p].are)
BY Zenon DEF Inv, LiveInv, Big, SmallInv

LEMMA BlocksKept == HeapInv => BlocksPartitioned
<1>. SUFFICES ASSUME HeapInv
              PROVE  BlocksPartitioned
  BY Zenon
<1>. USE NullApart
<1>1. TypeOK
  BY Zenon DEF HeapInv
<1>2. ASSUME phase = "run", NEW p \in SlabPages(heap)
      PROVE  LET a == heap.pg[p].are
                 onPage == Elems(heap.pg[p].fl)
                 onArena == Elems(heap.freelist[a]) \cap Blocks(p, a)
                 held == Held \cap ({p} \X (0 .. PGSIZE - 1))
             IN /\ onPage \cup onArena \cup held = Blocks(p, a)
                /\ onPage \cap onArena = {} /\ onPage \cap held = {} /\ onArena \cap held = {}
                /\ Distinct(heap.pg[p].fl) /\ Distinct(heap.freelist[a])
                /\ heap.pg[p].avail = Len(heap.pg[p].fl)
  <2>0. PICK a, onPage, onArena, held :
          /\ a = heap.pg[p].are /\ onPage = Elems(heap.pg[p].fl)
          /\ onArena = Elems(heap.freelist[a]) \cap Blocks(p, a)
          /\ held = Held \cap ({p} \X (0 .. PGSIZE - 1))
    BY Zenon
  <2>1. /\ Inv(heap, live) /\ heap \in Heaps /\ PageInv(heap) /\ ArenaInv(heap)
        /\ SlabInv(heap, live)
    BY Zenon, <1>2 DEF HeapInv, Inv
  <2>2. p \in Page /\ a # NULL /\ a \in Arena
    BY <1>2, <2>0, <2>1, SlabPagesAre, HeaderFields
  <2>3. SlabPageInv(heap, live, p)
    BY Zenon, <2>0, <2>1, <2>2 DEF SlabInv
  <2>4. /\ onPage = OnPage(heap, p)
        /\ \A b \in Blocks(p, a) : b \in onArena <=> b \in OnArena(heap, p)
        /\ onArena \subseteq Blocks(p, a)
    BY Zenon, <2>0 DEF OnPage, OnArena
  <2>5. \A b \in Blocks(p, a) : b \in held <=> b \in HeldBy(live)
    <3>1. \A b \in Blocks(p, a) : b \in {p} \X (0 .. PGSIZE - 1)
      BY <2>2, BlocksPlace DEF Addr
    <3>. QED  BY Zenon, <2>0, <3>1 DEF Held, HeldBy
  <2>6. held \subseteq Blocks(p, a)
    <3>1. ASSUME NEW b \in held
          PROVE  b \in Blocks(p, a)
      <4>1. PICK l \in live : b = l.pt
        BY Zenon, <2>0 DEF Held
      <4>2. l.pt[1] = p
        BY Zenon, <2>0, <4>1
      <4>. QED  BY Zenon, <2>0, <2>1, <2>2, <4>1, <4>2, SlabHeld
    <3>. QED  BY Zenon, <3>1
  <2>7. /\ onPage \subseteq Blocks(p, a)
        /\ Distinct(heap.pg[p].fl) /\ heap.pg[p].avail = Len(heap.pg[p].fl)
        /\ \A b \in Blocks(p, a) :
             /\ b \in onPage \/ b \in onArena \/ b \in held
             /\ b \in onPage => b \notin onArena /\ b \notin held
             /\ b \in onArena => b \notin held
    BY Zenon, <2>0, <2>3, <2>4, <2>5 DEF SlabPageInv
  <2>8. Distinct(heap.freelist[a])
    BY Zenon, <2>1, <2>2 DEF ArenaInv
  <2>9. onPage \cup onArena \cup held = Blocks(p, a)
    BY Zenon, <2>4, <2>6, <2>7
  <2>10. onPage \cap onArena = {} /\ onPage \cap held = {} /\ onArena \cap held = {}
    BY Zenon, <2>4, <2>7
  <2>. QED  BY Zenon, <2>0, <2>7, <2>8, <2>9, <2>10
<1>. QED  BY Zenon, <1>1, <1>2 DEF BlocksPartitioned

LEMMA PagesKept == HeapInv => NoPageLost
<1>. SUFFICES ASSUME HeapInv, phase = "run", NEW p \in SlabPages(heap),
                     NEW a, a = heap.pg[p].are,
                     heap.idle[a] # p, Elems(heap.freelist[a]) \cap Blocks(p, a) = {},
                     \A l \in live : l.pt[1] # p
              PROVE  FALSE
  BY Zenon DEF NoPageLost
<1>. USE NullApart
<1>1. /\ Inv(heap, live) /\ heap \in Heaps /\ PageInv(heap)
      /\ SlabInv(heap, live) /\ IdleInv(heap)
  BY Zenon DEF HeapInv, Inv
<1>2. p \in Page /\ a # NULL /\ a \in Arena
  BY <1>1, SlabPagesAre, HeaderFields
<1>3. SlabPageInv(heap, live, p) /\ IdlePageInv(heap, p)
  BY Zenon, <1>1, <1>2 DEF SlabInv, IdleInv
<1>4. \A b \in Blocks(p, a) : b \notin HeldBy(live)
  BY <1>2, BlocksPlace DEF HeldBy
<1>5. \A b \in Blocks(p, a) : b \in OnPage(heap, p)
  BY Zenon, <1>3, <1>4 DEF SlabPageInv, OnArena
<1>6. OnPage(heap, p) = Blocks(p, a)
  BY Zenon, <1>3, <1>5 DEF SlabPageInv
<1>. QED  BY Zenon, <1>3, <1>6 DEF IdlePageInv

ReuseStep ==
  \A p \in SlabPages(heap) :
    heap'.pg[p].fl # heap.pg[p].fl /\ p \in heap'.mapped =>
      \/ heap'.pg[p].fl # <<>> /\ Tail(heap'.pg[p].fl) = heap.pg[p].fl
      \/ Elems(heap.pg[p].fl) = Blocks(p, heap.pg[p].are)

LEMMA ReuseKept == Counting /\ HeapInv /\ [Next]_vars => [ReuseStep]_vars
<1>. SUFFICES ASSUME Counting, HeapInv, Next, NEW p \in SlabPages(heap),
                     heap'.pg[p].fl # heap.pg[p].fl, p \in heap'.mapped
              PROVE  \/ heap'.pg[p].fl # <<>> /\ Tail(heap'.pg[p].fl) = heap.pg[p].fl
                     \/ Elems(heap.pg[p].fl) = Blocks(p, heap.pg[p].are)
  BY Zenon DEF ReuseStep
<1>1. Outcome /\ Inv(heap, live) /\ heap \in Heaps /\ PageInv(heap)
  BY Zenon, StepOutcome DEF HeapInv, Inv
<1>2. p \in Page /\ heap.pg[p].are # NULL
  BY Zenon, <1>1, SlabPagesAre
<1>3. heap'.pg # heap.pg
  BY Zenon
<1>4. CASE NothingGiven \/ Resized \/ Ended
  BY Zenon, <1>3, <1>4 DEF NothingGiven, vars, Resized, Ended
<1>5. CASE Given
  BY Zenon, <1>2, <1>5 DEF Given, ListsKept
<1>6. CASE Returned
  BY Zenon, <1>2, <1>6 DEF Returned, ListsPushed
<1>7. CASE Moved
  <2>1. PICK g \in Heaps : ListsKept(heap, g) /\ ListsPushed(g, heap')
    BY Zenon, <1>7 DEF Moved
  <2>2. /\ g.pg[p].are = heap.pg[p].are
        /\ g.pg[p].fl = heap.pg[p].fl \/ Elems(heap.pg[p].fl) = Blocks(p, heap.pg[p].are)
    BY Zenon, <1>2, <2>1 DEF ListsKept
  <2>3. \/ heap'.pg[p].fl = g.pg[p].fl
        \/ heap'.pg[p].fl # <<>> /\ Tail(heap'.pg[p].fl) = g.pg[p].fl
    BY Zenon, <1>2, <2>1, <2>2 DEF ListsPushed
  <2>. QED  BY Zenon, <2>2, <2>3
<1>. QED  BY Zenon, <1>1, <1>4, <1>5, <1>6, <1>7 DEF Outcome

-----------------------------------------------------------------------------
(* The bytes of an allocation.                                             *)

(* The pages of an allocation: its run of them, or its slab page.          *)
Pages(h, l) == IF Big(h, l) THEN Width(h, l) ELSE 1

LEMMA AllocPlace ==
  ASSUME NEW h, NEW L, Inv(h, L), NEW l \in L
  PROVE  /\ Pages(h, l) \in Nat \ {0}
         /\ l.pt[1] \in Nat /\ l.pt[2] \in Nat /\ l.size \in Nat /\ l.pt[2] < PGSIZE
         /\ l.pt[2] + l.size <= Pages(h, l) * PGSIZE
         /\ Run(l.pt[1], Pages(h, l)) \subseteq h.mapped
         /\ Big(h, l) => Run(l.pt[1], Pages(h, l)) = Span(h, l)
<1>1. h \in Heaps /\ L \subseteq Allocs /\ PageInv(h) /\ LiveInv(h, L)
  BY Zenon DEF Inv
<1>2. /\ l \in Allocs /\ l.pt[1] \in Page /\ l.pt[1] \in Nat /\ l.pt[2] \in Nat
      /\ l.size \in Nat /\ l.pt[2] < PGSIZE
  BY <1>1, AllocFields, Header0 DEF Page
<1>3. CASE Big(h, l)
  <2>1. BigInv(h, l) /\ Width(h, l) \in Nat
    BY Zenon, <1>1, <1>2, <1>3, WidthType DEF LiveInv
  <2>2. Pages(h, l) = Width(h, l) /\ Span(h, l) = Run(l.pt[1], Pages(h, l))
    BY Zenon, <1>3 DEF Pages, Span
  <2>3. l.pt[1] \in Run(l.pt[1], Width(h, l))
    BY Zenon, <2>1, <2>2 DEF BigInv
  <2>4. Width(h, l) # 0
    BY <1>2, <2>3 DEF Run
  <2>. QED  BY Zenon, <1>2, <2>1, <2>2, <2>4 DEF BigInv
<1>4. CASE ~ Big(h, l)
  <2>1. PICK a \in Arena : a = h.pg[l.pt[1]].are /\ l.pt[1] \in h.mapped
    BY Zenon, <1>1, <1>2, <1>4, SlabMapped DEF Big
  <2>2. l.pt \in Blocks(l.pt[1], a) /\ l.size <= Caches[a] /\ Caches[a] \in Nat
    BY Zenon, <1>1, <1>4, <2>1, CacheType DEF LiveInv, SmallInv
  <2>3. l.pt[2] + Caches[a] <= PGSIZE
    BY Zenon, <1>2, <2>2, BlocksPlace
  <2>4. l.pt[2] + l.size <= PGSIZE /\ PGSIZE = 1 * PGSIZE
    BY <1>2, <2>2, <2>3, Header0
  <2>. QED  BY <1>2, <1>4, <2>1, <2>4, RunOne DEF Pages
<1>. QED  BY Zenon, <1>3, <1>4

LEMMA RunsApart ==
  ASSUME NEW p \in Nat, NEW q \in Nat, NEW v \in Nat \ {0}, NEW w \in Nat \ {0},
         Run(p, v) \cap Run(q, w) = {}
  PROVE  p + v <= q \/ q + w <= p
<1>. SUFFICES ASSUME q < p + v, p < q + w
              PROVE  \E x \in Int : x \in Run(p, v) /\ x \in Run(q, w)
  OBVIOUS
<1>1. CASE p <= q
  BY <1>1 DEF Run
<1>2. CASE q < p
  BY <1>2 DEF Run
<1>. QED  BY <1>1, <1>2

(* Memory in pages before those of other memory is before it.              *)
LEMMA BytesBefore ==
  ASSUME NEW p \in Nat, NEW q \in Nat, NEW w \in Nat \ {0}, p + w <= q,
         NEW x \in Nat, NEW y \in Nat, NEW s \in Nat, x < PGSIZE, x + s <= w * PGSIZE
  PROVE  /\ p * PGSIZE + x < q * PGSIZE + y
         /\ (p * PGSIZE + x) + s <= q * PGSIZE + y
<1>. PICK c \in Nat \ {0} : c = PGSIZE
  BY Zenon, Header0
<1>1. (p + w) * c <= q * c /\ c <= w * c
  OBVIOUS
<1>2. p * c + w * c <= q * c /\ p * c \in Nat /\ w * c \in Nat /\ q * c \in Nat
  BY <1>1
<1>. PICK i, j, k \in Nat : i = p * c /\ j = w * c /\ k = q * c
  BY Zenon, <1>2
<1>. QED  BY <1>1, <1>2

LEMMA Apart ==
  ASSUME NEW h, NEW L, Inv(h, L), NEW k \in L, NEW l \in L, k # l
  PROVE  H!Disjoint(k, l)
<1>1. /\ LiveInv(h, L) /\ h \in Heaps /\ L \subseteq Allocs
      /\ k.pt # l.pt /\ (Big(h, k) /\ Big(h, l) => Span(h, k) \cap Span(h, l) = {})
  BY Zenon DEF Inv, LiveInv
<1>2. PICK v \in Nat \ {0} : /\ v = Pages(h, k) /\ k.pt[2] + k.size <= v * PGSIZE
                             /\ Big(h, k) => Run(k.pt[1], v) = Span(h, k)
  BY Zenon, AllocPlace
<1>3. PICK w \in Nat \ {0} : /\ w = Pages(h, l) /\ l.pt[2] + l.size <= w * PGSIZE
                             /\ Big(h, l) => Run(l.pt[1], w) = Span(h, l)
  BY Zenon, AllocPlace
<1>4. /\ k.pt[1] \in Nat /\ k.pt[2] \in Nat /\ k.size \in Nat /\ k.pt[2] < PGSIZE
      /\ l.pt[1] \in Nat /\ l.pt[2] \in Nat /\ l.size \in Nat /\ l.pt[2] < PGSIZE
  BY Zenon, AllocPlace
<1>5. k.pt[1] \in Page /\ l.pt[1] \in Page
  BY Zenon, <1>1, AllocFields
<1>6. CASE Run(k.pt[1], v) \cap Run(l.pt[1], w) = {}
  <2>1. k.pt[1] + v <= l.pt[1] \/ l.pt[1] + w <= k.pt[1]
    BY Zenon, <1>4, <1>6, RunsApart
  <2>. PICK i, j \in Nat : i = H!Start(k) /\ j = H!Start(l)
    <3>1. \A x, y, z \in Nat : x * y + z \in Nat
      OBVIOUS
    <3>2. H!Start(k) \in Nat /\ H!Start(l) \in Nat
      BY Zenon, <1>4, <3>1, Header0 DEF H!Start
    <3>. QED  BY Zenon, <3>2
  <2>2. CASE k.pt[1] + v <= l.pt[1]
    <3>1. i < j /\ i + k.size <= j
      BY Zenon, <1>2, <1>4, <2>2, BytesBefore DEF H!Start
    <3>. QED  BY <3>1 DEF H!Disjoint
  <2>3. CASE l.pt[1] + w <= k.pt[1]
    <3>1. j < i /\ j + l.size <= i
      BY Zenon, <1>3, <1>4, <2>3, BytesBefore DEF H!Start
    <3>. QED  BY <3>1 DEF H!Disjoint
  <2>. QED  BY Zenon, <2>1, <2>2, <2>3
<1>7. CASE Run(k.pt[1], v) \cap Run(l.pt[1], w) # {}
  <2>1. ~ Big(h, k) /\ ~ Big(h, l) /\ k.pt[1] = l.pt[1]
    <3>1. ~ (Big(h, k) /\ Big(h, l))
      BY Zenon, <1>1, <1>2, <1>3, <1>7
    <3>2. ASSUME Big(h, k), ~ Big(h, l)
          PROVE  FALSE
      <4>1. Run(l.pt[1], w) = {l.pt[1]}
        BY Zenon, <1>3, <1>5, <3>2, RunOne DEF Pages
      <4>2. l.pt[1] \in Span(h, k)
        BY Zenon, <1>2, <1>7, <3>2, <4>1
      <4>3. h.pg[l.pt[1]].are = NULL
        BY Zenon, <1>1, <3>2, <4>2 DEF LiveInv, BigInv
      <4>. QED  BY Zenon, <3>2, <4>3 DEF Big
    <3>3. ASSUME ~ Big(h, k), Big(h, l)
          PROVE  FALSE
      <4>1. Run(k.pt[1], v) = {k.pt[1]}
        BY Zenon, <1>2, <1>5, <3>3, RunOne DEF Pages
      <4>2. k.pt[1] \in Span(h, l)
        BY Zenon, <1>3, <1>7, <3>3, <4>1
      <4>3. h.pg[k.pt[1]].are = NULL
        BY Zenon, <1>1, <3>3, <4>2 DEF LiveInv, BigInv
      <4>. QED  BY Zenon, <3>3, <4>3 DEF Big
    <3>4. ~ Big(h, k) /\ ~ Big(h, l)
      BY Zenon, <3>1, <3>2, <3>3
    <3>5. Run(k.pt[1], v) = {k.pt[1]} /\ Run(l.pt[1], w) = {l.pt[1]}
      BY Zenon, <1>2, <1>3, <1>5, <3>4, RunOne DEF Pages
    <3>. QED  BY <1>7, <3>4, <3>5
  <2>2. PICK p \in Page : p = k.pt[1] /\ p = l.pt[1]
    BY Zenon, <1>5, <2>1
  <2>3. PICK a \in Arena : a = h.pg[p].are
    BY Zenon, <1>1, <2>1, <2>2, HeaderFields DEF Big
  <2>4. /\ k.pt \in Blocks(p, a) /\ k.size <= Caches[a]
        /\ l.pt \in Blocks(p, a) /\ l.size <= Caches[a]
    BY Zenon, <1>1, <2>1, <2>2, <2>3 DEF LiveInv, SmallInv
  <2>5. k.pt[2] + Caches[a] <= l.pt[2] \/ l.pt[2] + Caches[a] <= k.pt[2]
    BY Zenon, <1>1, <2>4, BlocksPlace
  <2>6. Caches[a] \in Nat \ {0}
    BY Zenon, CacheType
  <2>7. PICK z \in Nat : z = p * PGSIZE
    BY <1>4, <2>2, Header0
  <2>8. H!Start(k) = z + k.pt[2] /\ H!Start(l) = z + l.pt[2]
    BY Zenon, <2>2, <2>7 DEF H!Start
  <2>. QED  BY <1>4, <2>4, <2>5, <2>6, <2>8 DEF H!Disjoint
<1>. QED  BY Zenon, <1>6, <1>7

LEMMA HeapStep == Counting /\ HeapInv /\ [Next]_vars => [H!Next]_live
<1>. SUFFICES ASSUME Counting, HeapInv, Next, live' # live
              PROVE  H!Next
  BY Zenon DEF vars
<1>1. Outcome /\ Inv(heap, live)
  BY Zenon, StepOutcome DEF HeapInv
<1>2. CASE NothingGiven \/ Ended
  BY Zenon, <1>2 DEF NothingGiven, Ended, vars
<1>3. CASE Given
  <2>1. PICK n \in Allocs : /\ live' = live \cup {n} /\ Inv(heap', live')
                            /\ \A k \in live : k.pt # n.pt
    BY Zenon, <1>3 DEF Given
  <2>2. n \in live' \ live
    BY Zenon, <2>1
  <2>3. \A k \in live : H!Disjoint(k, n)
    BY Zenon, <2>1, <2>2, Apart
  <2>. QED  BY Zenon, <2>1, <2>2, <2>3 DEF H!Next, H!Allocate
<1>4. CASE Returned
  BY Zenon, <1>4 DEF Returned, H!Next, H!Free
<1>5. CASE Resized
  <2>1. PICK l \in live, n \in Allocs :
          /\ n.pt = l.pt /\ live' = (live \ {l}) \cup {n} /\ Inv(heap', live')
    BY Zenon, <1>5 DEF Resized
  <2>2. n # l
    BY Zenon, <2>1
  <2>3. n \notin live
    BY Zenon, <1>1, <2>1, <2>2 DEF Inv, LiveInv
  <2>4. \A k \in live \ {l} : H!Disjoint(k, n)
    BY Zenon, <2>1, <2>3, Apart
  <2>. QED  BY Zenon, <2>1, <2>3, <2>4 DEF H!Next, H!Resize
<1>6. CASE Moved
  <2>1. PICK l \in live, n \in Allocs, g \in Heaps :
          /\ Inv(g, live \cup {n}) /\ \A k \in live : k.pt # n.pt
          /\ live' = (live \ {l}) \cup {n}
    BY Zenon, <1>6 DEF Moved
  <2>2. n \in live' \ live
    BY Zenon, <2>1
  <2>3. \A k \in live : H!Disjoint(k, n)
    BY <2>1, <2>2, Apart
  <2>. QED  BY Zenon, <2>1, <2>2, <2>3 DEF H!Next, H!Move
<1>. QED  BY Zenon, <1>1, <1>2, <1>3, <1>4, <1>5, <1>6 DEF Outcome

(* The page and the offset of a byte of an allocation.                     *)
LEMMA ByteAt ==
  ASSUME NEW p \in Nat, NEW x \in Nat, NEW s \in Nat, NEW w \in Nat, x + s <= w * PGSIZE,
         NEW b \in (p * PGSIZE + x) .. (p * PGSIZE + x) + s - 1
  PROVE  /\ b \div PGSIZE \in Run(p, w)
         /\ b \div PGSIZE = p => b % PGSIZE >= x /\ b % PGSIZE < x + s /\ b % PGSIZE \in Nat
<1>. PICK c \in Nat \ {0} : c = PGSIZE
  BY Zenon, Header0
<1>1. p * c \in Nat /\ w * c \in Nat
  OBVIOUS
<1>2. PICK i, j \in Nat : i = p * c /\ j = w * c
  BY Zenon, <1>1
<1>3. b \in Nat /\ i + x <= b /\ b < i + x + s /\ x + s <= j
  BY <1>2
<1>4. PICK d, r \in Nat : d = b \div c /\ r = b % c /\ b = d * c + r /\ r < c
  <2>1. b \div c \in Nat /\ b % c \in Nat /\ b % c < c /\ b = (b \div c) * c + (b % c)
    BY <1>3, DivMod
  <2>. QED  BY Zenon, <2>1
<1>5. p <= d
  <2>. SUFFICES ASSUME d + 1 <= p
                PROVE  FALSE
    BY <1>4
  <2>1. (d + 1) * c <= p * c
    BY <1>4
  <2>2. d * c + c <= i
    BY <2>1, <1>2, <1>4
  <2>. QED  BY <2>2, <1>3, <1>4
<1>6. d < p + w
  <2>. SUFFICES ASSUME p + w <= d
                PROVE  FALSE
    BY <1>4
  <2>1. (p + w) * c <= d * c
    BY <1>4
  <2>2. i + j <= d * c
    BY <2>1, <1>2, <1>4
  <2>. QED  BY <2>2, <1>2, <1>3, <1>4
<1>7. d = p => r >= x /\ r < x + s
  BY <1>2, <1>3, <1>4
<1>. QED  BY <1>4, <1>5, <1>6, <1>7 DEF Run

LEMMA MetadataKept == HeapInv => MetadataSafe
<1>. SUFFICES ASSUME HeapInv
              PROVE  MetadataSafe
  BY Zenon
<1>. USE NullApart
<1>1. phase # "aborted"
  BY Zenon DEF HeapInv
<1>. DEFINE free == UNION ({Elems(heap.pg[p].fl) : p \in SlabPages(heap)}
                             \cup {Elems(heap.freelist[a]) : a \in Arena})
<1>2. ASSUME phase = "run", NEW l \in live, NEW c \in Extent(l)
      PROVE  /\ c[1] \in heap.mapped
             /\ heap.pg[c[1]].magic => c[2] >= HDR
             /\ c \notin free
  <2>1. /\ Inv(heap, live) /\ heap \in Heaps /\ live \subseteq Allocs /\ PageInv(heap)
        /\ ArenaInv(heap) /\ SlabInv(heap, live) /\ LiveInv(heap, live)
    BY Zenon, <1>2 DEF HeapInv, Inv
  <2>2. /\ l.pt[1] \in Nat /\ l.pt[2] \in Nat /\ l.size \in Nat
        /\ l.pt[1] \in Page /\ l.pt = <<l.pt[1], l.pt[2]>>
    BY Zenon, <2>1, AllocPlace, AllocFields
  <2>3. PICK w \in Nat \ {0} : /\ w = Pages(heap, l) /\ l.pt[2] + l.size <= w * PGSIZE
                               /\ Run(l.pt[1], w) \subseteq heap.mapped
                               /\ Big(heap, l) => Run(l.pt[1], w) = Span(heap, l)
    BY Zenon, <2>1, AllocPlace
  <2>4. PICK b \in (l.pt[1] * PGSIZE + l.pt[2])
                     .. (l.pt[1] * PGSIZE + l.pt[2]) + l.size - 1 :
               c = <<b \div PGSIZE, b % PGSIZE>>
    BY Zenon, <1>2 DEF Extent
  <2>5. /\ c[1] \in Run(l.pt[1], w)
        /\ c[1] = l.pt[1] => c[2] >= l.pt[2] /\ c[2] < l.pt[2] + l.size /\ c[2] \in Nat
    BY Zenon, <2>2, <2>3, <2>4, ByteAt
  <2>6. c[1] \in heap.mapped /\ c[1] \in Page
    BY Zenon, <2>1, <2>3, <2>5, HeapFields
  <2>7. ASSUME c \in free
        PROVE  /\ heap.pg[c[1]].are \in Arena /\ c \in Blocks(c[1], heap.pg[c[1]].are)
               /\ c \notin HeldBy(live)
    <3>1. CASE \E p \in SlabPages(heap) : c \in Elems(heap.pg[p].fl)
      <4>1. PICK p \in SlabPages(heap) : c \in Elems(heap.pg[p].fl)
        BY Zenon, <3>1
      <4>2. p \in Page /\ heap.pg[p].are \in Arena /\ heap.pg[p].are # NULL
        BY <2>1, SlabPagesAre, HeaderFields
      <4>3. SlabPageInv(heap, live, p)
        BY Zenon, <2>1, <4>2 DEF SlabInv
      <4>4. c \in Blocks(p, heap.pg[p].are) /\ c \notin HeldBy(live)
        BY Zenon, <4>1, <4>3 DEF SlabPageInv, OnPage
      <4>5. c[1] = p
        BY <4>2, <4>4, BlocksPlace
      <4>. QED  BY Zenon, <4>2, <4>4, <4>5
    <3>2. CASE \E a \in Arena : c \in Elems(heap.freelist[a])
      <4>1. PICK a \in Arena : c \in Elems(heap.freelist[a])
        BY Zenon, <3>2
      <4>2. c[1] \in Page /\ heap.pg[c[1]].are = a /\ c \in Blocks(c[1], a)
        BY Zenon, <2>1, <4>1, OnListOf
      <4>3. SlabPageInv(heap, live, c[1])
        BY Zenon, <2>1, <4>2 DEF SlabInv
      <4>. QED  BY Zenon, <4>1, <4>2, <4>3 DEF SlabPageInv, OnArena
    <3>. QED  BY Zenon, <2>7, <3>1, <3>2
  <2>8. CASE Big(heap, l)
    <3>1. BigInv(heap, l) /\ c[1] \in Span(heap, l)
      BY Zenon, <2>1, <2>3, <2>5, <2>8 DEF LiveInv
    <3>2. heap.pg[c[1]].are = NULL /\ (c[1] # l.pt[1] => heap.pg[c[1]].npages = 0)
      BY Zenon, <3>1 DEF BigInv
    <3>3. c \notin free
      BY Zenon, <2>7, <3>2
    <3>4. heap.pg[c[1]].magic => heap.pg[c[1]].npages # 0
      BY Zenon, <2>1, <2>6, <3>2 DEF PageInv
    <3>5. heap.pg[c[1]].npages # 0 => c[1] = l.pt[1] /\ l.pt[2] = HDR
      BY Zenon, <3>1, <3>2 DEF BigInv
    <3>6. heap.pg[c[1]].npages # 0 => c[2] >= HDR
      BY Zenon, <2>5, <3>5
    <3>. QED  BY Zenon, <2>6, <3>3, <3>4, <3>6
  <2>9. CASE ~ Big(heap, l)
    <3>1. c[1] = l.pt[1]
      BY <2>2, <2>3, <2>5, <2>9, RunOne DEF Pages
    <3>2. PICK a \in Arena : a = heap.pg[l.pt[1]].are
      BY Zenon, <2>1, <2>2, <2>9, HeaderFields DEF Big
    <3>3. l.pt \in Blocks(l.pt[1], a) /\ l.size <= Caches[a] /\ Caches[a] \in Nat \ {0}
      BY Zenon, <2>1, <2>9, <3>2, CacheType DEF LiveInv, SmallInv
    <3>4. /\ l.pt[2] >= HDR
          /\ \A d \in Blocks(l.pt[1], a) :
               l.pt # d => l.pt[2] + Caches[a] <= d[2] \/ d[2] + Caches[a] <= l.pt[2]
      BY <2>2, <3>3, BlocksPlace
    <3>5. c[2] \in Nat /\ c[2] >= l.pt[2] /\ c[2] < l.pt[2] + l.size
      BY Zenon, <2>5, <3>1
    <3>6. c[2] >= HDR
      BY <2>2, <3>4, <3>5, Header0
    <3>7. c \notin free
      <4>. SUFFICES ASSUME c \in free
                    PROVE  FALSE
        BY Zenon
      <4>1. c \in Blocks(l.pt[1], a) /\ c # l.pt
        BY Zenon, <2>7, <3>1, <3>2 DEF HeldBy
      <4>. QED  BY <2>2, <3>3, <3>4, <3>5, <4>1
    <3>. QED  BY Zenon, <2>6, <3>6, <3>7
  <2>. QED  BY Zenon, <2>8, <2>9
<1>. QED  BY Zenon, <1>1, <1>2 DEF MetadataSafe

-----------------------------------------------------------------------------
(* Finite sets.                                                            *)

INSTANCE FiniteSetTheorems

LEMMA BlocksCount ==
  ASSUME NEW a \in Arena, NEW p \in Page
  PROVE  IsFiniteSet(Blocks(p, a)) /\ Cardinality(Blocks(p, a)) = NBlocks(a)
<1>. DEFINE K == 0 .. NBlocks(a) - 1
            f == [k \in K |-> <<p, BlockOff(a, k)>>]
<1>0. NBlocks(a) \in Nat /\ NBlocks(a) > 1
  BY Zenon, NBlocksType
<1>1. IsFiniteSet(K) /\ Cardinality(K) = NBlocks(a)
  <2>1. /\ IsFiniteSet(0 .. NBlocks(a) - 1)
        /\ Cardinality(0 .. NBlocks(a) - 1)
             = IF 0 > NBlocks(a) - 1 THEN 0 ELSE NBlocks(a) - 1 - 0 + 1
    BY <1>0, FS_Interval
  <2>. QED  BY <2>1, <1>0
<1>2. ASSUME NEW j \in K, NEW k \in K, f[j] = f[k]
      PROVE  j = k
  <2>1. BlockOff(a, j) = BlockOff(a, k)
    BY Zenon, <1>2
  <2>2. /\ BlockOff(a, j) \in Nat /\ Caches[a] \in Nat \ {0}
        /\ j < k => BlockOff(a, j) + Caches[a] <= BlockOff(a, k)
        /\ k < j => BlockOff(a, k) + Caches[a] <= BlockOff(a, j)
    BY Zenon, BlockPlace, CacheType
  <2>. QED  BY <2>1, <2>2, <1>0
<1>3. f \in [K -> Blocks(p, a)] /\ \A b \in Blocks(p, a) : \E k \in K : f[k] = b
  BY Zenon DEF Blocks
<1>4. f \in Bijection(K, Blocks(p, a))
  BY Zenon, <1>2, <1>3 DEF Bijection, Injection, Surjection, IsInjective
<1>5. ExistsBijection(K, Blocks(p, a))
  BY Zenon, <1>4 DEF ExistsBijection
<1>. HIDE DEF K
<1>. QED  BY Zenon, <1>1, <1>5, FS_Bijection

(* A list of distinct members of B has them all once it is as long as B.   *)
LEMMA FullList ==
  ASSUME NEW S, NEW s \in Seq(S), Distinct(s), NEW B, IsFiniteSet(B), Elems(s) \subseteq B
  PROVE  Len(s) = Cardinality(B) <=> Elems(s) = B
<1>1. IsFiniteSet(1 .. Len(s)) /\ Cardinality(1 .. Len(s)) = Len(s)
  <2>1. /\ Len(s) \in Nat /\ 1 \in Int /\ Len(s) \in Int
    OBVIOUS
  <2>2. /\ IsFiniteSet(1 .. Len(s))
        /\ Cardinality(1 .. Len(s)) = IF 1 > Len(s) THEN 0 ELSE Len(s) - 1 + 1
    BY Zenon, <2>1, FS_Interval
  <2>. QED  BY <2>1, <2>2
<1>2. s \in Bijection(1 .. Len(s), Elems(s))
  <2>1. DOMAIN s = 1 .. Len(s) /\ s \in [1 .. Len(s) -> Elems(s)]
    BY DEF Elems
  <2>. QED  BY Zenon, <2>1 DEF Bijection, Injection, Surjection, IsInjective, Elems, Distinct
<1>3. ExistsBijection(1 .. Len(s), Elems(s))
  BY Zenon, <1>2 DEF ExistsBijection
<1>4. IsFiniteSet(Elems(s)) /\ Cardinality(Elems(s)) = Len(s)
  BY Zenon, <1>1, <1>3, FS_Bijection
<1>5. Cardinality(B) = Cardinality(Elems(s)) => B = Elems(s)
  BY Zenon, FS_Subset
<1>. QED  BY Zenon, <1>4, <1>5

LEMMA CountingHolds == Counting
<1>1. ASSUME NEW p \in Page, NEW a \in Arena, NEW s \in Seq(Addr),
             Distinct(s), Elems(s) \subseteq Blocks(p, a)
      PROVE  Len(s) = NBlocks(a) <=> Elems(s) = Blocks(p, a)
  <2>1. IsFiniteSet(Blocks(p, a)) /\ Cardinality(Blocks(p, a)) = NBlocks(a)
    BY Zenon, BlocksCount
  <2>2. Len(s) = Cardinality(Blocks(p, a)) <=> Elems(s) = Blocks(p, a)
    BY Zenon, <1>1, <2>1, FullList
  <2>. QED  BY Zenon, <2>1, <2>2
<1>2. ASSUME NEW size \in Nat, size <= MaxSmall
      PROVE  \E a \in Arena : /\ Caches[a] >= size
                              /\ \A b \in Arena : b < a => Caches[b] < size
  <2>. DEFINE T == {a \in Arena : Caches[a] >= size}
  <2>1. T \subseteq Nat /\ Len(Caches) \in T
    BY <1>2, ConstantsAssumption DEF Arena, MaxSmall
  <2>2. IsWellFoundedOn(OpToRel(<, Nat), Nat)
    BY Zenon, NatLessThanWellFounded
  <2>3. PICK a \in T : \A b \in T : ~ (<<b, a>> \in OpToRel(<, Nat))
    BY Zenon, <2>1, <2>2, WFMin
  <2>4. \A b \in T : ~ (b < a)
    BY Zenon, <2>1, <2>3 DEF OpToRel
  <2>5. \A b \in Arena : b < a => Caches[b] < size
    BY <2>4, CacheType
  <2>. QED  BY Zenon, <2>3, <2>5
<1>. QED  BY Zenon, <1>1, <1>2 DEF Counting

-----------------------------------------------------------------------------
(* The theorems.                                                           *)

(* The invariant the allocator keeps: each page is of one slab, of one     *)
(* large block or of neither, each block of a slab page is on one list or  *)
(* in one user's hands, a page is complete exactly when it is the idle one *)
(* of its arena, and what users hold is theirs alone (malloc.c).           *)
THEOREM HeapInductive == Spec => []HeapInv
<1>1. HeapInv /\ [Next]_vars => HeapInv'
  <2>. SUFFICES ASSUME HeapInv, [Next]_vars
                PROVE  HeapInv'
    BY Zenon
  <2>1. CASE Next
    BY Zenon, <2>1, CountingHolds, NextHeapInv
  <2>2. CASE UNCHANGED vars
    BY Zenon, <2>2 DEF vars, HeapInv, TypeOK
  <2>. QED  BY Zenon, <2>1, <2>2
<1>. QED  BY <1>1, InitHeapInv, PTL DEF Spec

(* Every block of a mapped slab page is with the user, on its page's list  *)
(* or on its arena's, and in one of these places only (arena_alloc and     *)
(* slab_free move it from one to the next).                                *)
THEOREM BlocksNeverLost == Spec => []BlocksPartitioned
BY HeapInductive, BlocksKept, PTL

(* A mapped slab page is never lost: it is idle, or its arena still has a  *)
(* block of it, or a user does (arena_add_idle, malloc.c:143).             *)
THEOREM PagesNeverLost == Spec => []NoPageLost
BY HeapInductive, PagesKept, PTL

(* The user's bytes are in mapped pages, off the headers and off the free  *)
(* blocks, whose first bytes are the links of a free list, so that myfree  *)
(* never finds the magic of a user's pointer destroyed (malloc.c:256).     *)
THEOREM MetadataUntouched == Spec => []MetadataSafe
BY HeapInductive, MetadataKept, PTL

(* A freed block stays on the list of its page until the whole page is     *)
(* back (slab_free pushes at the head, arena_alloc seizes a complete list, *)
(* and nothing else touches it).                                           *)
THEOREM PagesReusedWhole == Spec => ReuseWholePages
<1>1. HeapInv /\ [Next]_vars => [ReuseStep]_vars
  BY Zenon, CountingHolds, ReuseKept
<1>2. Spec => [][ReuseStep]_vars
  BY <1>1, HeapInductive, PTL DEF Spec
<1>. QED  BY Zenon, <1>2 DEF ReuseWholePages, ReuseStep

(* Malloc, calloc, new, free, delete and realloc implement HeapAbs: what   *)
(* they hand out is disjoint from all memory in use, and what is in use    *)
(* stays put until its own user frees, resizes or moves it.                *)
THEOREM AllocatorRefinement == Spec => ImplementsHeap
<1>1. Init => H!Init
  BY Zenon DEF Init, H!Init
<1>2. HeapInv /\ [Next]_vars => [H!Next]_live
  BY Zenon, CountingHolds, HeapStep
<1>. QED  BY <1>1, <1>2, HeapInductive, PTL DEF Spec, ImplementsHeap, H!Spec
=============================================================================
