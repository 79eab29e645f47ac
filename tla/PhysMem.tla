------------------------------ MODULE PhysMem -------------------------------
(***************************************************************************)
(* src/kernel/pmm.cpp, the physical page allocator, with the two calls of  *)
(* the boot that shape what it hands out: pmm_init, which builds the       *)
(* bitmap from the multiboot memory map, and heap_init (heap.cpp), its     *)
(* only caller of pmm_alloc_contiguous.                                    *)
(*                                                                         *)
(* page_bitmap is the set of pages whose bit is 1.  Addresses are counted  *)
(* in units of 1/PageSize page, so that a region that does not start or    *)
(* end on a page boundary is rounded the way the code rounds it.           *)
(***************************************************************************)
EXTENDS Integers, FiniteSets, FiniteSetsExt

CONSTANTS PageSize,         \* PAGE_SIZE, in units
          MemoryMaps,       \* the maps a boot loader may pass: sets of regions
          KernelStart,      \* 0x100000 / PAGE_SIZE
          BitmapPage,       \* the page the bitmap is placed at, past the kernel
          PagesPerBitmapPage,  \* pages that one page of bitmap describes
          InitialHeapPages, \* INITIAL_HEAP_PAGES
          LeastHeapPages    \* 16: heap_init halves its request no further

Regions == UNION MemoryMaps    \* [base, length, available], in units

\* The first whole page of a region and the page its last whole page is before.
StartPage(r) == (r.base + PageSize - 1) \div PageSize
EndPage(r)   == (r.base + r.length) \div PageSize
PagesIn(r)   == StartPage(r) .. (EndPage(r) - 1)

Available(map) == {r \in map : r.available}

\* total_pages: up to the highest address, but at most twice the usable memory.
TotalPages(map) ==
  LET highest == Max({r.base + r.length : r \in map} \union {0})
      usable  == MapThenSumSet(LAMBDA r : r.length, Available(map))
  IN  IF highest > usable * 2 THEN (usable * 2) \div PageSize
                              ELSE highest \div PageSize

ASSUME SizesAssumption ==
  /\ {PageSize, PagesPerBitmapPage, LeastHeapPages} \subseteq Nat \ {0}
  /\ {KernelStart, BitmapPage, InitialHeapPages} \subseteq Nat

\* What the loader promises and pmm_init does not check: no two regions of a
\* map share a page that both say is available.
ASSUME MapsAssumption ==
  \A map \in MemoryMaps :
     /\ TotalPages(map) \in Nat
     /\ \A r \in map : r.base \in Nat /\ r.length \in Nat
     /\ \A r, s \in Available(map) : r # s => PagesIn(r) \intersect PagesIn(s) = {}

\* Without a map pmm_init gives up and total_pages stays 0: the empty map.
VARIABLES memory_map, total_pages, page_bitmap, used_pages,
          boot,   \* "heap" until heap_init has run
          held    \* the blocks <<first page, pages>> handed out and not freed

vars == <<memory_map, total_pages, page_bitmap, used_pages, boot, held>>

Pages == 0..(total_pages - 1)
Block(b) == b[1] .. (b[1] + b[2] - 1)

-----------------------------------------------------------------------------

\* The pages pmm_init keeps for the kernel image and the bitmap: from the
\* kernel's first to bitmap_end_page, that one included.
BitmapEnd(total) == BitmapPage + (total + PagesPerBitmapPage - 1) \div PagesPerBitmapPage
KernelImageOnly(total) == KernelStart .. (BitmapPage - 1)
KernelPages(total) == KernelStart .. BitmapEnd(total)

\* pmm_init's clearing loop: one step for each page of each available region.
Cleared(map, total) == {c \in Available(map) \X (0..(total - 1)) : c[2] \in PagesIn(c[1])}

\* A marking loop that counts every page, also one that is marked already.
UsedAfterBlindMarking(total, cleared) ==
  total - Cardinality(cleared) + Cardinality(KernelPages(total) \intersect (0..(total - 1)))

UsedAfterMarking(total, cleared) ==
  LET free == {c[2] : c \in cleared}
  IN  total - Cardinality(cleared) + Cardinality(KernelPages(total) \intersect free)

Init ==
  /\ memory_map \in MemoryMaps
  /\ total_pages = TotalPages(memory_map)
  /\ LET cleared == Cleared(memory_map, total_pages)
         free    == {c[2] : c \in cleared}
     IN  /\ page_bitmap = (Pages \ free) \union (Pages \intersect KernelPages(total_pages))
         /\ used_pages = UsedAfterMarking(total_pages, cleared)
  /\ boot = "heap"
  /\ held = {}

-----------------------------------------------------------------------------

\* Both allocators scan from page 1, so that no block is at address 0.
Scanned == Pages \ {0}

(***************************************************************************)
(* pmm_alloc_contiguous(n) returns at the first page where `run`, the      *)
(* pages since the last used one, reaches n.  RunEnds are the pages where  *)
(* run >= n; a scan that does not reset run counts free pages instead.     *)
(***************************************************************************)
RunEndsNeverReset(n) == {i \in Scanned : Cardinality((1..i) \ page_bitmap) >= n}

RunEnds(n) ==
  {i \in Scanned : \E last \in 0..i :
     /\ last = 0 \/ last \in page_bitmap
     /\ ((last + 1)..i) \intersect page_bitmap = {}
     /\ i - last >= n}

\* It returns the address of page s; with n = 0 or no run it is nullptr.
FirstIn(ends, n, s) == /\ n # 0
                       /\ s + n - 1 \in ends
                       /\ \A i \in ends : s + n - 1 <= i
FirstRun(n, s) == FirstIn(RunEnds(n), n, s)

AllocateFirstPageOnly(b) == /\ page_bitmap' = page_bitmap \union {b[1]}
                            /\ used_pages' = used_pages + 1
                            /\ held' = held \union {b}

\* The pages of the block are marked and counted, one after the other.
Allocate(b) == /\ page_bitmap' = page_bitmap \union Block(b)
               /\ used_pages' = used_pages + b[2]
               /\ held' = held \union {b}

\* heap_init's requests: the full size, then halved down to the least.
HeapRequests ==
  {InitialHeapPages} \union
  {n \in LeastHeapPages..InitialHeapPages :
     \E k \in 1..InitialHeapPages : n = InitialHeapPages \div 2^k}

\* heap_init takes the first of its requests, the largest, that is granted.
HeapInit ==
  /\ boot = "heap"
  /\ boot' = "run"
  /\ \/ \E n \in HeapRequests : \E s \in Scanned :
          /\ FirstRun(n, s)
          /\ \A m \in HeapRequests : m > n => RunEnds(m) = {}
          /\ Allocate(<<s, n>>)
     \/ /\ \A n \in HeapRequests : n = 0 \/ RunEnds(n) = {}
        /\ UNCHANGED <<page_bitmap, used_pages, held>>
  /\ UNCHANGED <<memory_map, total_pages>>

\* pmm_alloc_page: the first page whose bit is 0
AllocPageIs(p) ==
  /\ boot = "run"
  /\ p \in Scanned \ page_bitmap
  /\ \A q \in Scanned \ page_bitmap : p <= q
  /\ Allocate(<<p, 1>>)
  /\ UNCHANGED <<memory_map, total_pages, boot>>

AllocPage == \E p \in Scanned : AllocPageIs(p)

\* pmm_free_page of a page its caller was given; a page out of range or with
\* its bit 0 already is refused and changes nothing.
FreePage(b) ==
  /\ b[1] < total_pages
  /\ b[1] \in page_bitmap
  /\ page_bitmap' = page_bitmap \ {b[1]}
  /\ used_pages' = used_pages - 1
  /\ held' = held \ {b}
  /\ UNCHANGED <<memory_map, total_pages, boot>>

Next == \/ HeapInit
        \/ AllocPage
        \/ \E b \in held : b[2] = 1 /\ boot = "run" /\ FreePage(b)

Spec == Init /\ [][Next]_vars

-----------------------------------------------------------------------------

(* Every variable has its type.                                            *)
TypeOK == /\ memory_map \in MemoryMaps
          /\ total_pages \in Nat
          /\ page_bitmap \subseteq Pages
          /\ used_pages \in 0..total_pages
          /\ boot \in {"heap", "run"}
          /\ held \subseteq Nat \X Nat

(* used_pages, from which the Memory command and the System Monitor        *)
(* compute what is free, is the number of 1 bits: the counting done in     *)
(* four places of pmm.cpp never drifts from the bitmap.                    *)
UsedPagesCounted == used_pages = Cardinality(page_bitmap)

(* A page that was handed out is marked, and belongs to one block: neither *)
(* a second pmm_alloc_page nor the heap gets it before it is freed.        *)
HandedOutOnce == /\ \A b \in held : Block(b) \subseteq page_bitmap
                 /\ \A b, c \in held : b # c => Block(b) \intersect Block(c) = {}

(* A page that was handed out is not page 0, whose address is nullptr,     *)
(* lies wholly in a region the loader says is available, and holds nothing *)
(* of the kernel or of the bitmap.                                         *)
OnlyUsablePages ==
  \A b \in held : \A p \in Block(b) :
    /\ p # 0
    /\ \E r \in Available(memory_map) :
         r.base <= p * PageSize /\ (p + 1) * PageSize <= r.base + r.length
    /\ p < KernelStart \/ p >= BitmapEnd(total_pages)

(* "Returns the address of the first page, or nullptr if no run of N free  *)
(* pages exists": the scan finds the first run, whatever the bitmap is.    *)
FirstRunFound ==
  \A n \in 1..(InitialHeapPages + 1) :
    LET ends == RunEnds(n)
        free == {t \in Scanned : /\ t + n <= total_pages
                                 /\ Block(<<t, n>>) \intersect page_bitmap = {}}
    IN  \A s \in Scanned : FirstIn(ends, n, s) <=> s \in free /\ \A t \in free : s <= t
=============================================================================
