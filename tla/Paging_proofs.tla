--------------------------- MODULE Paging_proofs ---------------------------
(***************************************************************************)
(* The page allocator, for every memory map that MapsAssumption admits:    *)
(* used_pages is the number of marked pages, a page that was handed out    *)
(* belongs to one block, it is one the boot left usable, and the scan for  *)
(* a run of free pages finds the first.  The invariants are proved with    *)
(* what ties them to the boot: every page that is clear, or held, is one   *)
(* that pmm_init cleared and did not mark again.                           *)
(*                                                                         *)
(* And paging.cpp, which uses the allocator as PhysMem says its callers    *)
(* do, so that those theorems hold of the two together: the tables are a   *)
(* tree, for every set of addresses, and a walk ends at what was mapped    *)
(* last.                                                                   *)
(***************************************************************************)
EXTENDS Paging, FiniteSetTheorems, FunctionTheorems, WellFoundedInduction, TLAPS

-----------------------------------------------------------------------------
(* The page allocator.                                                     *)

Cleared_ == Cleared(memory_map, total_pages)
Freed == {c[2] : c \in Cleared_}

\* What may ever be handed out
Usable == Freed \ KernelPages(total_pages)

Typed == /\ memory_map \in MemoryMaps
         /\ total_pages = TotalPages(memory_map)
         /\ total_pages \in Nat
         /\ page_bitmap \subseteq Pages
         /\ boot \in {"heap", "run"}
         /\ held \subseteq Nat \X Nat

HeldIsUsable == \A b \in held : Block(b) \subseteq Usable \ {0}
ClearIsUsable == Pages \ page_bitmap \subseteq Usable

IInv == Typed /\ UsedPagesCounted /\ HandedOutOnce /\ HeldIsUsable /\ ClearIsUsable

-----------------------------------------------------------------------------

(* A range of pages is finite and has the size one expects. *)
LEMMA PagesFinite ==
  ASSUME NEW n \in Nat
  PROVE  IsFiniteSet(0..(n - 1)) /\ Cardinality(0..(n - 1)) = n
<1>1. 0 \in Int /\ n - 1 \in Int
  OBVIOUS
<1>2. /\ IsFiniteSet(0..(n - 1))
      /\ Cardinality(0..(n - 1)) = IF 0 > n - 1 THEN 0 ELSE (n - 1) - 0 + 1
  BY <1>1, FS_Interval
<1> QED
  BY <1>2

(* When the regions of a map are disjoint, each page is cleared in one step:  *)
(* pmm_init counts down once for every bit it clears.                      *)
LEMMA ClearedOncePerPage ==
  ASSUME NEW map \in MemoryMaps, NEW total \in Nat
  PROVE  LET cleared == Cleared(map, total)
             free == {c[2] : c \in cleared}
         IN  /\ free \subseteq 0..(total - 1)
             /\ IsFiniteSet(free)
             /\ Cardinality(cleared) = Cardinality(free)
<1> DEFINE cleared == Cleared(map, total)
           free == {c[2] : c \in cleared}
           step == [p \in free |-> CHOOSE c \in cleared : c[2] = p]
<1>1. free \subseteq 0..(total - 1)
  BY DEF Cleared
<1>2. IsFiniteSet(free)
  BY <1>1, PagesFinite, FS_Subset
<1>3. \A c, d \in cleared : c[2] = d[2] => c = d
  <2> SUFFICES ASSUME NEW c \in cleared, NEW d \in cleared, c[2] = d[2]
               PROVE  c = d
    OBVIOUS
  <2>1. /\ c[1] \in Available(map) /\ d[1] \in Available(map)
        /\ c = <<c[1], c[2]>> /\ d = <<d[1], d[2]>>
        /\ c[2] \in PagesIn(c[1]) /\ d[2] \in PagesIn(d[1])
    BY DEF Cleared
  <2>2. c[1] = d[1]
    BY <2>1, MapsAssumption
  <2> QED
    BY <2>1, <2>2
<1>4. \A p \in free : step[p] \in cleared /\ step[p][2] = p
  OBVIOUS
<1>5. step \in [free -> cleared]
  BY <1>4
<1>6. \A c \in cleared : c[2] \in free /\ step[c[2]] = c
  BY <1>3, <1>4
<1>7. step \in Bijection(free, cleared)
  <2>1. \A p, q \in free : step[p] = step[q] => p = q
    BY <1>4
  <2>2. \A c \in cleared : \E p \in free : step[p] = c
    BY <1>6
  <2> HIDE DEF free, cleared, step
  <2> QED
    BY <1>5, <2>1, <2>2, Fun_IsBij
<1> QED
  BY <1>1, <1>2, <1>7, FS_Bijection DEF ExistsBijection

(* The first run of n pages is n pages the bitmap has free, none of them   *)
(* page 0.                                                                 *)
LEMMA FirstRunIsFree ==
  ASSUME total_pages \in Nat, NEW n \in Nat, NEW s \in Scanned, FirstRun(n, s)
  PROVE  /\ Block(<<s, n>>) \subseteq Scanned
         /\ Block(<<s, n>>) \intersect page_bitmap = {}
<1>0. PICK i : i = s + n - 1
  OBVIOUS
<1>00. i \in RunEnds(n)
  BY <1>0 DEF FirstRun, FirstIn
<1>1. PICK last \in 0..i : /\ ((last + 1)..i) \intersect page_bitmap = {}
                           /\ i - last >= n
  BY <1>00 DEF RunEnds
<1>2. s + n - 1 \in Scanned
  BY <1>0, <1>00 DEF RunEnds
<1>3. s \in Nat /\ s >= 1 /\ last \in Nat /\ last + 1 <= s
  BY <1>0, <1>1 DEF Scanned, Pages
<1>4. Block(<<s, n>>) = s..(s + n - 1)
  BY DEF Block
<1>5. s..(s + n - 1) \subseteq (last + 1)..(s + n - 1)
  BY <1>3
<1>6. s..(s + n - 1) \subseteq Scanned
  BY <1>2, <1>3 DEF Scanned, Pages
<1> QED
  BY <1>0, <1>1, <1>4, <1>5, <1>6

-----------------------------------------------------------------------------

(* pmm_init establishes the invariant. *)
LEMMA Initialised == Init => IInv
<1> SUFFICES ASSUME Init PROVE IInv
  OBVIOUS
<1> DEFINE kernel == KernelPages(total_pages)
<1>1. /\ memory_map \in MemoryMaps
      /\ total_pages = TotalPages(memory_map)
      /\ page_bitmap = (Pages \ Freed) \union (Pages \intersect kernel)
      /\ used_pages = total_pages - Cardinality(Cleared_) + Cardinality(kernel \intersect Freed)
      /\ boot = "heap"
      /\ held = {}
  BY DEF Init, Freed, Cleared_, UsedAfterMarking
<1>2. total_pages \in Nat
  BY <1>1, MapsAssumption
<1>3. /\ Freed \subseteq Pages
      /\ IsFiniteSet(Freed)
      /\ Cardinality(Cleared_) = Cardinality(Freed)
  BY <1>1, <1>2, ClearedOncePerPage DEF Freed, Cleared_, Pages
<1>4. IsFiniteSet(Pages) /\ Cardinality(Pages) = total_pages
  BY <1>2, PagesFinite DEF Pages
<1>5. UsedPagesCounted
  <2>1. page_bitmap = (Pages \ Freed) \union (kernel \intersect Freed)
    BY <1>1, <1>3
  <2>2. /\ IsFiniteSet(Pages \ Freed)
        /\ Cardinality(Pages \ Freed) = Cardinality(Pages) - Cardinality(Pages \intersect Freed)
    BY <1>4, FS_Difference
  <2>3. Pages \intersect Freed = Freed
    BY <1>3
  <2>4. IsFiniteSet(kernel \intersect Freed)
    BY <1>3, FS_Intersection
  <2>5. (Pages \ Freed) \intersect (kernel \intersect Freed) = {}
    OBVIOUS
  <2>6. Cardinality(page_bitmap) =
          Cardinality(Pages \ Freed) + Cardinality(kernel \intersect Freed) - Cardinality({})
    BY <2>1, <2>2, <2>4, <2>5, FS_Union
  <2>7. /\ Cardinality(Freed) \in Nat
        /\ Cardinality(kernel \intersect Freed) \in Nat
        /\ Cardinality({}) = 0
    BY <1>3, <2>4, FS_CardinalityType, FS_EmptySet
  <2>8. /\ used_pages = total_pages - Cardinality(Freed) + Cardinality(kernel \intersect Freed)
        /\ Cardinality(Pages \ Freed) = total_pages - Cardinality(Freed)
    BY <1>1, <1>3, <1>4, <2>2, <2>3
  <2> QED
    BY <1>2, <2>6, <2>7, <2>8 DEF UsedPagesCounted
<1>6. Typed
  BY <1>1, <1>2 DEF Typed
<1>7. HandedOutOnce /\ HeldIsUsable
  BY <1>1 DEF HandedOutOnce, HeldIsUsable
<1>8. ClearIsUsable
  BY <1>1 DEF ClearIsUsable, Usable
<1> QED
  BY <1>5, <1>6, <1>7, <1>8 DEF IInv

(* Marking a block of free pages, none of them page 0, and handing it out  *)
(* preserves the invariant: what both allocators do.                       *)
LEMMA AllocateStep ==
  ASSUME IInv, NEW s \in Nat, NEW n \in Nat, Allocate(<<s, n>>),
         Block(<<s, n>>) \subseteq Scanned,
         Block(<<s, n>>) \intersect page_bitmap = {},
         boot' \in {"heap", "run"},
         UNCHANGED <<memory_map, total_pages>>
  PROVE  IInv'
<1> DEFINE b == <<s, n>>
<1>1. /\ page_bitmap' = page_bitmap \union Block(b)
      /\ used_pages' = used_pages + n
      /\ held' = held \union {b}
      /\ memory_map' = memory_map /\ total_pages' = total_pages
      /\ Pages' = Pages /\ Usable' = Usable
  BY DEF Allocate, Pages, Usable, Freed, Cleared_
<1>2. Block(b) \subseteq Pages /\ 0 \notin Block(b)
  BY DEF Scanned
<1>3. \A c : Block(c)' = Block(c)
  BY DEF Block
<1>4. Typed'
  BY <1>1, <1>2 DEF IInv, Typed
<1>5. UsedPagesCounted'
  <2>1. Block(b) = s..(s + n - 1)
    BY DEF Block
  <2>2. /\ IsFiniteSet(Block(b))
        /\ Cardinality(Block(b)) = IF s > s + n - 1 THEN 0 ELSE (s + n - 1) - s + 1
    <3>1. s \in Int /\ s + n - 1 \in Int
      OBVIOUS
    <3> QED
      BY <2>1, <3>1, FS_Interval
  <2>3. Cardinality(Block(b)) = n
    BY <2>2
  <2>4. IsFiniteSet(Pages) /\ page_bitmap \subseteq Pages
    BY PagesFinite DEF IInv, Typed, Pages
  <2>5. IsFiniteSet(page_bitmap) /\ Cardinality(page_bitmap) \in Nat
    BY <2>4, FS_Subset, FS_CardinalityType
  <2>6. Cardinality(page_bitmap \union Block(b)) =
          Cardinality(page_bitmap) + Cardinality(Block(b)) - Cardinality(page_bitmap \intersect Block(b))
    BY <2>2, <2>5, FS_Union
  <2>7. page_bitmap \intersect Block(b) = {}
    OBVIOUS
  <2>8. Cardinality(page_bitmap \union Block(b)) = Cardinality(page_bitmap) + n
    <3>1. Cardinality({}) = 0
      BY FS_EmptySet
    <3>2. Cardinality(page_bitmap \intersect Block(b)) = 0
      BY <2>7, <3>1
    <3> QED
      BY <2>3, <2>5, <2>6, <3>2
  <2> QED
    BY <1>1, <2>8 DEF IInv, UsedPagesCounted
<1>6. HandedOutOnce'
  <2>1. \A c \in held' : Block(c) \subseteq page_bitmap'
    BY <1>1 DEF IInv, HandedOutOnce
  <2>2. \A c, d \in held' : c # d => Block(c) \intersect Block(d) = {}
    <3>1. \A c \in held : Block(c) \intersect Block(b) = {}
      BY DEF IInv, HandedOutOnce
    <3> QED
      BY <1>1, <3>1 DEF IInv, HandedOutOnce
  <2> QED
    BY <1>3, <2>1, <2>2 DEF HandedOutOnce
<1>7. HeldIsUsable'
  <2>1. Block(b) \subseteq Usable \ {0}
    BY <1>2 DEF IInv, ClearIsUsable
  <2> QED
    BY <1>1, <1>3, <2>1 DEF IInv, HeldIsUsable
<1>8. ClearIsUsable'
  BY <1>1 DEF IInv, ClearIsUsable
<1> QED
  BY <1>4, <1>5, <1>6, <1>7, <1>8 DEF IInv

(* heap_init preserves the invariant. *)
LEMMA HeapInitStep == IInv /\ HeapInit => IInv'
<1> SUFFICES ASSUME IInv, HeapInit PROVE IInv'
  OBVIOUS
<1>1. boot' = "run" /\ UNCHANGED <<memory_map, total_pages>>
  BY DEF HeapInit
<1>2. CASE \E n \in HeapRequests : \E s \in Scanned : FirstRun(n, s) /\ Allocate(<<s, n>>)
  <2>1. PICK n \in HeapRequests, s \in Scanned : FirstRun(n, s) /\ Allocate(<<s, n>>)
    BY <1>2
  <2>2. n \in Nat
    BY SizesAssumption DEF HeapRequests
  <2>3. s \in Nat /\ total_pages \in Nat
    BY DEF IInv, Typed, Scanned, Pages
  <2> QED
    BY <1>1, <2>1, <2>2, <2>3, FirstRunIsFree, AllocateStep
<1>3. CASE UNCHANGED <<page_bitmap, used_pages, held>>
  BY <1>1, <1>3 DEF IInv, Typed, UsedPagesCounted, HandedOutOnce, HeldIsUsable,
                    ClearIsUsable, Usable, Freed, Cleared_, Pages, Block
<1> QED
  BY <1>2, <1>3 DEF HeapInit

(* pmm_alloc_page preserves the invariant. *)
LEMMA AllocPageStep == IInv /\ AllocPage => IInv'
<1> SUFFICES ASSUME IInv, AllocPage PROVE IInv'
  OBVIOUS
<1>1. PICK p \in Scanned \ page_bitmap : Allocate(<<p, 1>>)
  BY DEF AllocPage, AllocPageIs
<1>2. p \in Nat
  BY DEF IInv, Typed, Scanned, Pages
<1>3. Block(<<p, 1>>) = {p}
  BY <1>2 DEF Block
<1>4. boot' \in {"heap", "run"} /\ UNCHANGED <<memory_map, total_pages>>
  BY DEF AllocPage, AllocPageIs, IInv, Typed
<1> QED
  BY <1>1, <1>2, <1>3, <1>4, AllocateStep

(* pmm_free_page of a page that was handed out preserves the invariant. *)
LEMMA FreePageStep ==
  ASSUME IInv, NEW b \in held, b[2] = 1, FreePage(b)
  PROVE  IInv'
<1>1. /\ page_bitmap' = page_bitmap \ {b[1]}
      /\ used_pages' = used_pages - 1
      /\ held' = held \ {b}
      /\ b[1] \in page_bitmap
      /\ memory_map' = memory_map /\ total_pages' = total_pages /\ boot' = boot
      /\ Pages' = Pages /\ Usable' = Usable
  BY DEF FreePage, Pages, Usable, Freed, Cleared_
<1>2. Block(b) = {b[1]}
  BY DEF Block, IInv, Typed
<1>3. \A c : Block(c)' = Block(c)
  BY DEF Block
<1>4. Typed'
  BY <1>1 DEF IInv, Typed
<1>5. UsedPagesCounted'
  <2>1. IsFiniteSet(Pages) /\ page_bitmap \subseteq Pages
    BY PagesFinite DEF IInv, Typed, Pages
  <2>2. IsFiniteSet(page_bitmap)
    BY <2>1, FS_Subset
  <2>3. Cardinality(page_bitmap \ {b[1]}) = Cardinality(page_bitmap) - 1
    BY <1>1, <2>2, FS_RemoveElement
  <2> QED
    BY <1>1, <2>3 DEF IInv, UsedPagesCounted
<1>6. HandedOutOnce'
  <2>1. \A c \in held' : Block(c) \subseteq page_bitmap'
    BY <1>1, <1>2 DEF IInv, HandedOutOnce
  <2>2. \A c, d \in held' : c # d => Block(c) \intersect Block(d) = {}
    BY <1>1 DEF IInv, HandedOutOnce
  <2> QED
    BY <1>3, <2>1, <2>2 DEF HandedOutOnce
<1>7. HeldIsUsable'
  BY <1>1, <1>3 DEF IInv, HeldIsUsable
<1>8. ClearIsUsable'
  <2>1. b[1] \in Usable
    BY <1>2 DEF IInv, HeldIsUsable
  <2> QED
    BY <1>1, <2>1 DEF IInv, ClearIsUsable
<1> QED
  BY <1>4, <1>5, <1>6, <1>7, <1>8 DEF IInv

(* The invariant is inductive. *)
LEMMA Inductive == Spec => []IInv
<1>1. Init => IInv
  BY Initialised
<1>2. IInv /\ [Next]_vars => IInv'
  <2> SUFFICES ASSUME IInv, [Next]_vars PROVE IInv'
    OBVIOUS
  <2>1. CASE HeapInit
    BY <2>1, HeapInitStep
  <2>2. CASE AllocPage
    BY <2>2, AllocPageStep
  <2>3. CASE \E b \in held : b[2] = 1 /\ boot = "run" /\ FreePage(b)
    BY <2>3, FreePageStep
  <2>4. CASE UNCHANGED vars
    BY <2>4 DEF vars, IInv, Typed, UsedPagesCounted, HandedOutOnce, HeldIsUsable,
                ClearIsUsable, Usable, Freed, Cleared_, Pages, Block
  <2> QED
    BY <2>1, <2>2, <2>3, <2>4 DEF Next
<1> QED
  BY <1>1, <1>2, PTL DEF Spec

-----------------------------------------------------------------------------

(* The variables keep their types; used_pages stays within the pages.      *)
THEOREM TypeCorrect == Spec => []TypeOK
<1>1. IInv => TypeOK
  <2> SUFFICES ASSUME IInv PROVE TypeOK
    OBVIOUS
  <2>1. IsFiniteSet(Pages) /\ Cardinality(Pages) = total_pages
    BY PagesFinite DEF IInv, Typed, Pages
  <2>2. /\ Cardinality(page_bitmap) \in Nat
        /\ Cardinality(page_bitmap) <= total_pages
    BY <2>1, FS_Subset, FS_CardinalityType DEF IInv, Typed
  <2> QED
    BY <2>2 DEF IInv, Typed, TypeOK, UsedPagesCounted
<1> QED
  BY <1>1, Inductive, PTL

(* used_pages is the number of pages marked in the bitmap, always: the     *)
(* count in pmm_init and those of the two allocators and of pmm_free_page  *)
(* agree with the bits they set and clear.                                 *)
THEOREM Accounting == Spec => []UsedPagesCounted
<1>1. IInv => UsedPagesCounted
  BY DEF IInv
<1> QED
  BY <1>1, Inductive, PTL

(* No page is handed out to two owners at a time.                          *)
THEOREM Exclusive == Spec => []HandedOutOnce
<1>1. IInv => HandedOutOnce
  BY DEF IInv
<1> QED
  BY <1>1, Inductive, PTL

(* No page is handed out that is page 0, part of the kernel or the bitmap, *)
(* or not wholly inside a region of available memory.                      *)
THEOREM UsableOnly == Spec => []OnlyUsablePages
<1>1. IInv => OnlyUsablePages
  <2> SUFFICES ASSUME IInv, NEW b \in held, NEW p \in Block(b)
               PROVE  /\ p # 0
                      /\ \E r \in Available(memory_map) :
                           r.base <= p * PageSize /\ (p + 1) * PageSize <= r.base + r.length
                      /\ p < KernelStart \/ p >= BitmapEnd(total_pages)
    BY DEF OnlyUsablePages
  <2>1. p # 0 /\ p \in Freed /\ p \notin KernelPages(total_pages)
    BY DEF IInv, HeldIsUsable, Usable
  <2>2. PICK r \in Available(memory_map) : p \in 0..(total_pages - 1) /\ p \in PagesIn(r)
    BY <2>1 DEF Freed, Cleared_, Cleared
  <2>3. /\ r.base <= p * PageSize
        /\ (p + 1) * PageSize <= r.base + r.length
    <3>1. /\ r.base \in Nat /\ r.length \in Nat
          /\ PageSize \in Nat \ {0} /\ p \in Nat
      BY <2>2, SizesAssumption, MapsAssumption DEF IInv, Typed, Available
    <3>2. StartPage(r) \in Int /\ EndPage(r) \in Int
      BY <3>1 DEF StartPage, EndPage
    <3>3. StartPage(r) <= p /\ p + 1 <= EndPage(r)
      BY <2>2, <3>1, <3>2 DEF PagesIn
    <3> QED
      BY <3>1, <3>3 DEF StartPage, EndPage
  <2>4. p < KernelStart \/ p >= BitmapEnd(total_pages)
    BY <2>1, <2>2, SizesAssumption DEF KernelPages, BitmapEnd, IInv, Typed
  <2> QED
    BY <2>1, <2>2, <2>3, <2>4
<1> QED
  BY <1>1, Inductive, PTL

-----------------------------------------------------------------------------

LessThan == {p \in Nat \X Nat : p[1] < p[2]}

(* A set of naturals has a least element, and a greatest if it is bounded. *)
LEMMA Least ==
  ASSUME NEW S \in SUBSET Nat, S # {}
  PROVE  \E m \in S : \A k \in S : m <= k
<1>1. IsWellFoundedOn(LessThan, Nat)
  <2>1. OpToRel(<, Nat) = LessThan
    BY DEF OpToRel, LessThan
  <2> QED
    BY <2>1, NatLessThanWellFounded
<1>2. PICK m \in S : \A k \in S : <<k, m>> \notin LessThan
  BY <1>1, WFMin
<1>3. ASSUME NEW k \in S PROVE m <= k
  <2>1. <<k, m>> \in Nat \X Nat /\ <<k, m>> \notin LessThan
    BY <1>2
  <2>2. ~(<<k, m>>[1] < <<k, m>>[2])
    BY <2>1 DEF LessThan
  <2> QED
    BY <2>2
<1> QED
  BY <1>3

LEMMA Greatest ==
  ASSUME NEW S \in SUBSET Nat, S # {}, NEW n \in Nat, \A k \in S : k <= n
  PROVE  \E m \in S : \A k \in S : k <= m
<1> DEFINE Depths == {d \in Nat : n - d \in S}
<1>1. Depths \in SUBSET Nat /\ Depths # {}
  <2>1. PICK k \in S : TRUE
    OBVIOUS
  <2>2. n - k \in Depths
    BY <2>1
  <2> QED
    BY <2>2
<1>2. PICK d \in Depths : \A e \in Depths : d <= e
  <2> HIDE DEF Depths
  <2> QED
    BY <1>1, Least
<1>3. n - d \in S /\ d \in Nat
  OBVIOUS
<1>4. ASSUME NEW k \in S PROVE k <= n - d
  <2>1. n - k \in Depths
    OBVIOUS
  <2>2. d <= n - k
    BY <1>2, <2>1
  <2> QED
    BY <2>2, <1>3
<1> QED
  BY <1>3, <1>4

(* The scan's pages with run >= n are the last pages of the runs of n free *)
(* pages: it overlooks none, and what it finds is one.                     *)
LEMMA RunsAreFound ==
  ASSUME total_pages \in Nat, page_bitmap \subseteq Pages, NEW n \in Nat \ {0}, NEW i \in Int
  PROVE  i \in RunEnds(n) <=> /\ i - n + 1 \in Scanned
                              /\ i + 1 <= total_pages
                              /\ ((i - n + 1)..i) \intersect page_bitmap = {}
<1>0. page_bitmap \subseteq Nat /\ Scanned = 1..(total_pages - 1)
  BY DEF Pages, Scanned
<1>1. ASSUME i \in RunEnds(n)
      PROVE  /\ i - n + 1 \in Scanned
             /\ i + 1 <= total_pages
             /\ ((i - n + 1)..i) \intersect page_bitmap = {}
  <2>1. i \in Scanned
    BY <1>1 DEF RunEnds
  <2>2. PICK last \in 0..i : ((last + 1)..i) \intersect page_bitmap = {} /\ i - last >= n
    BY <1>1 DEF RunEnds
  <2>3. ((i - n + 1)..i) \subseteq ((last + 1)..i)
    BY <2>2
  <2> QED
    BY <1>0, <2>1, <2>2, <2>3
<1>2. ASSUME i - n + 1 \in Scanned, i + 1 <= total_pages,
             ((i - n + 1)..i) \intersect page_bitmap = {}
      PROVE  i \in RunEnds(n)
  <2> DEFINE Used == {0} \union {p \in page_bitmap : p <= i - n}
  <2>1. Used \in SUBSET Nat /\ 0 \in Used /\ i - n \in Nat /\ \A p \in Used : p <= i - n
    <3>1. i - n + 1 \in Nat \ {0} /\ n \in Nat
      BY <1>0, <1>2
    <3>2. i - n \in Nat
      BY <3>1
    <3>3. 0 \in Used /\ \A p \in Used : p \in {0} \/ p \in page_bitmap
      OBVIOUS
    <3>5. ASSUME NEW p \in Used PROVE p \in Nat
      <4>1. p \in {0} \/ p \in page_bitmap
        BY <3>3
      <4>2. CASE p \in {0}
        BY <4>2
      <4>3. CASE p \in page_bitmap
        BY <1>0, <4>3
      <4> QED
        BY <4>1, <4>2, <4>3
    <3>4. ASSUME NEW p \in Used PROVE p <= i - n
      <4>1. p = 0 \/ p <= i - n
        OBVIOUS
      <4> QED
        BY <3>2, <4>1
    <3> QED
      BY <3>2, <3>3, <3>4, <3>5
  <2>2. PICK last \in Used : \A p \in Used : p <= last
    <3> HIDE DEF Used
    <3> QED
      BY <2>1, Greatest
  <2>3. last \in Nat /\ last <= i - n /\ (last = 0 \/ last \in page_bitmap)
    BY <2>1
  <2>4. ASSUME NEW p \in (last + 1)..i, p \in page_bitmap PROVE FALSE
    <3>1. p \notin (i - n + 1)..i
      BY <1>2, <2>4
    <3>2. p \in Nat /\ p <= i - n
      BY <1>0, <2>3, <2>4, <3>1
    <3>3. p \in Used
      BY <2>4, <3>2
    <3> QED
      BY <2>2, <2>3, <2>4, <3>2, <3>3
  <2>5. i \in Scanned /\ last \in 0..i
    BY <1>0, <1>2, <2>3
  <2>6. i - last >= n
    BY <2>3
  <2> HIDE DEF Used
  <2> QED
    BY <2>3, <2>4, <2>5, <2>6 DEF RunEnds
<1> QED
  BY <1>1, <1>2

(* pmm_alloc_contiguous finds the first run of n free pages, or knows that *)
(* there is none, for every n and every bitmap calls can lead to.          *)
THEOREM RunsAreNotMissed == Spec => []FirstRunFound
<1>1. IInv => FirstRunFound
  <2> SUFFICES ASSUME IInv, NEW n \in 1..(InitialHeapPages + 1)
               PROVE  LET ends == RunEnds(n)
                          free == {t \in Scanned : /\ t + n <= total_pages
                                                   /\ Block(<<t, n>>) \intersect page_bitmap = {}}
                      IN  \A s \in Scanned :
                            FirstIn(ends, n, s) <=> s \in free /\ \A t \in free : s <= t
    BY DEF FirstRunFound
  <2> DEFINE free == {t \in Scanned : /\ t + n <= total_pages
                                      /\ Block(<<t, n>>) \intersect page_bitmap = {}}
  <2>1. total_pages \in Nat /\ page_bitmap \subseteq Pages /\ n \in Nat \ {0}
    BY SizesAssumption DEF IInv, Typed
  <2>2. Scanned \subseteq Nat /\ RunEnds(n) \subseteq Nat
    BY <2>1 DEF Scanned, Pages, RunEnds
  <2>3. ASSUME NEW t \in Scanned PROVE t \in free <=> t + n - 1 \in RunEnds(n)
    <3>1. Block(<<t, n>>) = t..(t + n - 1)
      BY DEF Block
    <3>2. PICK i \in Int : i = t + n - 1
      BY <2>1, <2>2
    <3>3. i - n + 1 = t /\ i + 1 = t + n
      BY <2>1, <2>2, <3>2
    <3>4. i \in RunEnds(n) <=> t \in Scanned /\ t + n <= total_pages /\ (t..i) \intersect page_bitmap = {}
      BY <2>1, <3>3, RunsAreFound
    <3> QED
      BY <3>1, <3>2, <3>4
  <2>4. ASSUME NEW i \in RunEnds(n) PROVE i - n + 1 \in free /\ i - n + 1 \in Nat
    <3>1. i \in Int
      BY <2>2
    <3>2. i - n + 1 \in Scanned
      BY <2>1, <3>1, RunsAreFound
    <3>3. i - n + 1 + n - 1 = i
      BY <2>1, <3>1
    <3> QED
      BY <2>2, <2>3, <3>2, <3>3
  <2>5. free \subseteq Nat
    BY <2>2
  <2> HIDE DEF free
  <2>6. ASSUME NEW s \in Scanned
        PROVE  FirstIn(RunEnds(n), n, s) <=> s \in free /\ \A t \in free : s <= t
    <3>1. s \in Nat /\ (s \in free <=> s + n - 1 \in RunEnds(n))
      BY <2>2, <2>3
    <3>2. ASSUME \A i \in RunEnds(n) : s + n - 1 <= i, NEW t \in free PROVE s <= t
      <4>1. t \in Scanned /\ t \in Nat
        BY <2>5 DEF free
      <4>2. s + n - 1 <= t + n - 1
        BY <2>3, <3>2, <4>1
      <4> QED
        BY <2>1, <3>1, <4>1, <4>2
    <3>3. ASSUME \A t \in free : s <= t, NEW i \in RunEnds(n) PROVE s + n - 1 <= i
      <4>1. s <= i - n + 1 /\ i \in Nat
        BY <2>2, <2>4, <3>3
      <4> QED
        BY <2>1, <3>1, <4>1
    <3> QED
      BY <2>1, <3>1, <3>2, <3>3 DEF FirstIn
  <2> QED
    BY <2>6 DEF free
<1> QED
  BY <1>1, Inductive, PTL

-----------------------------------------------------------------------------
(* The page tables.                                                        *)

\* A step of paging.cpp is a step of the allocator or leaves it alone.
LEMMA PagingStep == [PagingNext]_pagingVars => [Next]_vars
<1> SUFFICES ASSUME [PagingNext]_pagingVars PROVE [Next]_vars
  OBVIOUS
<1>1. CASE UNCHANGED pagingVars
  BY <1>1 DEF pagingVars
<1>2. CASE \E v \in Virtual, f \in Frames, present \in BOOLEAN : Map(v, f, present)
  BY <1>2 DEF Map
<1>3. CASE Descend
  BY <1>3 DEF Descend
<1>4. CASE CreateTable
  BY <1>4 DEF CreateTable, AllocPage, Next
<1>5. CASE OutOfPages
  BY <1>5 DEF OutOfPages
<1>6. CASE StoreEntry
  BY <1>6 DEF StoreEntry
<1>7. CASE \E v \in Virtual : Unmap(v)
  BY <1>7 DEF Unmap
<1>8. CASE OtherPages
  BY <1>8 DEF OtherPages, Next
<1> QED
  BY <1>1, <1>2, <1>3, <1>4, <1>5, <1>6, <1>7, <1>8 DEF PagingNext

(* paging.cpp over pmm.cpp is a use of pmm.cpp: every behaviour of the two *)
(* is one of the allocator alone.                                          *)
THEOREM PagingUsesTheAllocator == PagingSpec => Spec
<1>1. PagingInit => Init
  BY DEF PagingInit
<1> QED
  BY <1>1, PagingStep, PTL DEF PagingSpec, Spec

(* While tables are created, and pages allocated and freed by others, no   *)
(* page is handed out twice, the count of used pages is that of the bitmap *)
(* and no table or page is outside the usable memory.                      *)
THEOREM PagesKeptByPaging ==
  PagingSpec => []UsedPagesCounted /\ []HandedOutOnce /\ []OnlyUsablePages
BY PagingUsesTheAllocator, Accounting, Exclusive, UsableOnly, PTL

-----------------------------------------------------------------------------
(* The tables e and their levels.                                          *)

LinkedIn(e, T) == {e[l[1]][l[2]].to : l \in {l \in T \X Indices : e[l[1]][l[2]].present}}

Level2(e) == LinkedIn(e, {P4})
Level3(e) == LinkedIn(e, Level2(e))
Level4(e) == LinkedIn(e, Level3(e))
Inner(e) == {P4} \union Level2(e) \union Level3(e)

Level(e, k) == IF k = 1 THEN {P4} ELSE IF k = 2 THEN Level2(e)
               ELSE IF k = 3 THEN Level3(e) ELSE Level4(e)

Under(e, t, i) == IF t # None /\ e[t][i].present THEN e[t][i].to ELSE None

\* The table the walk for v is at on level k
Reached(e, v, k) ==
  IF k = 1 THEN P4
  ELSE IF k = 2 THEN Under(e, P4, v[1])
  ELSE IF k = 3 THEN Under(e, Under(e, P4, v[1]), v[2])
  ELSE Under(e, Under(e, Under(e, P4, v[1]), v[2]), v[3])

Physical(e, v) == Under(e, Reached(e, v, 4), v[4])

TableEntries == [to : Nat \union Frames, present : BOOLEAN]

TablesTyped(e) == e \in [DOMAIN e -> [Indices -> TableEntries]]

LevelsApart(e) == /\ DOMAIN e = Inner(e) \union Level4(e)
                  /\ P4 \notin Level2(e) \union Level3(e) \union Level4(e)
                  /\ Level2(e) \intersect (Level3(e) \union Level4(e)) = {}
                  /\ Level3(e) \intersect Level4(e) = {}

LinkedOnce(e) == \A t, u \in Inner(e), i, j \in Indices :
                   e[t][i].present /\ e[u][j].present /\ e[t][i].to = e[u][j].to
                   => t = u /\ i = j

Tree(e) == TablesTyped(e) /\ LevelsApart(e) /\ LinkedOnce(e) /\ None \notin DOMAIN e

\* Every table but the boot's own was handed out.
TablesTaken == \A t \in DOMAIN entries : /\ t \in page_bitmap
                                         /\ t \notin {P4, P3} => <<t, 1>> \in held

CallReached ==
  call # Idle =>
    /\ call \in [level : 1..4, at : DOMAIN entries, v : Virtual, frame : Frames, present : BOOLEAN]
    /\ call.at = Reached(entries, call.v, call.level)

Mapped == /\ mapped \in [Virtual -> Frames \union {None}]
          /\ \A v \in Virtual : Physical(entries, v) = mapped[v]

PagingInv == Tree(entries) /\ TablesTaken /\ CallReached /\ Mapped

-----------------------------------------------------------------------------

(* A table is linked from T when an entry of T leads to it. *)
LEMMA Links ==
  ASSUME NEW e, NEW T, NEW x
  PROVE  x \in LinkedIn(e, T) <=> \E t \in T, i \in Indices : e[t][i].present /\ e[t][i].to = x
<1>1. ASSUME NEW t \in T, NEW i \in Indices, e[t][i].present
      PROVE  e[t][i].to \in LinkedIn(e, T)
  <2>1. <<t, i>> \in {l \in T \X Indices : e[l[1]][l[2]].present}
    BY <1>1
  <2> QED
    BY <2>1 DEF LinkedIn
<1>2. ASSUME x \in LinkedIn(e, T)
      PROVE  \E t \in T, i \in Indices : e[t][i].present /\ e[t][i].to = x
  BY <1>2 DEF LinkedIn
<1> QED
  BY <1>1, <1>2

(* The walk stays in the tree: below a table of one level is one of the    *)
(* next, or nothing.                                                       *)
LEMMA WalkGoesDown ==
  ASSUME NEW e, NEW v \in Virtual, NEW k \in 1..4, Reached(e, v, k) # None
  PROVE  Reached(e, v, k) \in Level(e, k)
<1>1. v[1] \in Indices /\ v[2] \in Indices /\ v[3] \in Indices
  BY VirtualAssumption
<1>2. ASSUME NEW T, NEW t \in T, NEW i \in Indices, Under(e, t, i) # None
      PROVE  Under(e, t, i) \in LinkedIn(e, T)
  BY <1>2, Links DEF Under
<1>3. ASSUME NEW i \in Indices PROVE Under(e, None, i) = None
  BY DEF Under
<1>4. Reached(e, v, 2) # None => Reached(e, v, 2) \in Level2(e)
  <2>1. Reached(e, v, 2) = Under(e, P4, v[1]) /\ P4 \in {P4}
    BY DEF Reached
  <2> QED
    BY <1>1, <1>2, <2>1 DEF Level2
<1>5. Reached(e, v, 3) # None => Reached(e, v, 3) \in Level3(e)
  <2>1. Reached(e, v, 3) = Under(e, Reached(e, v, 2), v[2])
    BY DEF Reached
  <2> QED
    BY <1>1, <1>2, <1>3, <1>4, <2>1 DEF Level3
<1>6. Reached(e, v, 4) # None => Reached(e, v, 4) \in Level4(e)
  <2>1. Reached(e, v, 4) = Under(e, Reached(e, v, 3), v[3])
    BY DEF Reached
  <2> QED
    BY <1>1, <1>2, <1>3, <1>5, <2>1 DEF Level4
<1>7. Reached(e, v, 1) \in {P4}
  BY DEF Reached
<1> QED
  BY <1>4, <1>5, <1>6, <1>7 DEF Level

(* Two virtual pages in one last-level table, at one index, are the same.  *)
LEMMA WalksMeetOnce ==
  ASSUME NEW e, Tree(e), NEW v \in Virtual, NEW w \in Virtual,
         Reached(e, v, 4) = Reached(e, w, 4), Reached(e, v, 4) # None, v[4] = w[4]
  PROVE  v = w
<1>1. /\ v \in [1..4 -> Indices] /\ w \in [1..4 -> Indices]
      /\ \A i \in 1..4 : i = 1 \/ i = 2 \/ i = 3 \/ i = 4
      /\ v[1] \in Indices /\ v[2] \in Indices /\ v[3] \in Indices
      /\ w[1] \in Indices /\ w[2] \in Indices /\ w[3] \in Indices
  BY VirtualAssumption
<1> DEFINE R(x, k) == Reached(e, x, k)
<1>2. ASSUME NEW x \in Virtual
      PROVE  /\ R(x, 1) = P4
             /\ R(x, 2) = Under(e, R(x, 1), x[1])
             /\ R(x, 3) = Under(e, R(x, 2), x[2])
             /\ R(x, 4) = Under(e, R(x, 3), x[3])
  BY DEF Reached
<1>3. ASSUME NEW x \in Virtual, R(x, 4) # None
      PROVE  {R(x, 1), R(x, 2), R(x, 3)} \subseteq Inner(e) /\ R(x, 2) # None /\ R(x, 3) # None
  <2>1. R(x, 3) # None /\ R(x, 2) # None
    BY <1>2, <1>3 DEF Under
  <2>2. R(x, 3) \in Level3(e) /\ R(x, 2) \in Level2(e)
    BY <2>1, WalkGoesDown DEF Level
  <2> QED
    BY <1>2, <2>1, <2>2 DEF Inner
<1>4. ASSUME NEW t \in Inner(e), NEW u \in Inner(e), NEW i \in Indices, NEW j \in Indices,
             Under(e, t, i) = Under(e, u, j), Under(e, t, i) # None
      PROVE  t = u /\ i = j
  BY <1>4 DEF Under, Tree, LinkedOnce
<1>5. /\ {R(v, 1), R(v, 2), R(v, 3), R(w, 1), R(w, 2), R(w, 3)} \subseteq Inner(e)
      /\ R(v, 2) # None /\ R(v, 3) # None
  BY <1>3
<1> HIDE DEF R
<1>6. R(v, 3) = R(w, 3) /\ v[3] = w[3]
  <2>1. /\ Under(e, R(v, 3), v[3]) = Under(e, R(w, 3), w[3])
        /\ Under(e, R(v, 3), v[3]) # None
    BY <1>2 DEF R
  <2> QED
    BY <1>1, <1>4, <1>5, <2>1
<1>7. R(v, 2) = R(w, 2) /\ v[2] = w[2]
  <2>1. /\ Under(e, R(v, 2), v[2]) = Under(e, R(w, 2), w[2])
        /\ Under(e, R(v, 2), v[2]) # None
    BY <1>2, <1>5, <1>6
  <2> QED
    BY <1>1, <1>4, <1>5, <2>1
<1>8. v[1] = w[1]
  <2>1. /\ Under(e, R(v, 1), v[1]) = Under(e, R(w, 1), w[1])
        /\ Under(e, R(v, 1), v[1]) # None
    BY <1>2, <1>5, <1>7
  <2> QED
    BY <1>1, <1>4, <1>5, <2>1
<1>9. \A i \in 1..4 : v[i] = w[i]
  BY <1>1, <1>6, <1>7, <1>8
<1> QED
  BY <1>1, <1>9

(* A table is linked from the same entries when they are unchanged.        *)
LEMMA LinksKept ==
  ASSUME NEW e, NEW f, NEW T, \A t \in T : f[t] = e[t]
  PROVE  LinkedIn(f, T) = LinkedIn(e, T)
<1>1. ASSUME NEW x PROVE x \in LinkedIn(f, T) <=> x \in LinkedIn(e, T)
  BY Links
<1> QED
  BY <1>1

-----------------------------------------------------------------------------

\* The tables after paging_map's or paging_unmap's last step, and after
\* get_or_create_pte has linked the new table p.
Written(e, t, i, entry) == [e EXCEPT ![t][i] = entry]

Linked(e, q, i, p) == [t \in DOMAIN e \union {p} |->
                         IF t = p THEN NewTable(p)
                         ELSE IF t = q THEN [e[t] EXCEPT ![i] = Entry(p, TRUE)] ELSE e[t]]

(* An entry of a last-level table is written: the tree is the same, and    *)
(* one virtual page at most leads elsewhere.                               *)
LEMMA LeafWritten ==
  ASSUME NEW e, Tree(e), NEW t \in Level4(e), NEW i \in Indices,
         NEW entry \in TableEntries
  PROVE  /\ Tree(Written(e, t, i, entry)) /\ DOMAIN Written(e, t, i, entry) = DOMAIN e
         /\ \A v \in Virtual :
              /\ \A k \in 1..4 : Reached(Written(e, t, i, entry), v, k) = Reached(e, v, k)
              /\ Physical(Written(e, t, i, entry), v) =
                   IF Reached(e, v, 4) = t /\ v[4] = i
                   THEN IF entry.present THEN entry.to ELSE None
                   ELSE Physical(e, v)
<1> DEFINE f == Written(e, t, i, entry)
<1>1. t \in DOMAIN e /\ t # None /\ e[t] \in [Indices -> TableEntries]
  BY DEF Tree, LevelsApart, TablesTyped
<1>2. /\ f \in [DOMAIN e -> [Indices -> TableEntries]]
      /\ f[t][i] = entry
      /\ \A j \in Indices : j # i => f[t][j] = e[t][j]
      /\ \A u \in DOMAIN e : u # t => f[u] = e[u]
  BY <1>1 DEF Tree, TablesTyped, Written
<1> HIDE DEF f
<1>3. t \notin Inner(e) /\ Inner(e) \subseteq DOMAIN e
  BY DEF Tree, LevelsApart, Inner
<1>4. \A u \in Inner(e) : f[u] = e[u]
  BY <1>2, <1>3
<1>5. Level2(f) = Level2(e)
  BY <1>4, LinksKept DEF Level2, Inner
<1>6. Level3(f) = Level3(e)
  BY <1>4, <1>5, LinksKept DEF Level3, Inner
<1>7. Level4(f) = Level4(e)
  BY <1>4, <1>6, LinksKept DEF Level4, Inner
<1>8. DOMAIN f = DOMAIN e /\ Inner(f) = Inner(e)
  BY <1>2, <1>5, <1>6 DEF Inner
<1>9. Tree(f)
  <2>1. TablesTyped(f) /\ LevelsApart(f) /\ None \notin DOMAIN f
    BY <1>2, <1>5, <1>6, <1>7, <1>8 DEF Tree, TablesTyped, LevelsApart
  <2>2. LinkedOnce(f)
    BY <1>4, <1>8 DEF Tree, LinkedOnce
  <2> QED
    BY <2>1, <2>2 DEF Tree
<1>10. ASSUME NEW v \in Virtual
       PROVE  /\ \A k \in 1..4 : Reached(f, v, k) = Reached(e, v, k)
              /\ Physical(f, v) = IF Reached(e, v, 4) = t /\ v[4] = i
                                  THEN IF entry.present THEN entry.to ELSE None
                                  ELSE Physical(e, v)
  <2>1. v[1] \in Indices /\ v[2] \in Indices /\ v[3] \in Indices /\ v[4] \in Indices
    BY VirtualAssumption
  <2>2. ASSUME NEW u \in Inner(e) \union {None}, NEW j \in Indices
        PROVE  Under(f, u, j) = Under(e, u, j)
    BY <1>4 DEF Under
  <2>3. /\ Reached(e, v, 1) \in Inner(e) \union {None}
        /\ Reached(e, v, 2) \in Inner(e) \union {None}
        /\ Reached(e, v, 3) \in Inner(e) \union {None}
        /\ Reached(e, v, 4) \in Level4(e) \union {None}
    <3>1. \A k \in 1..4 : Reached(e, v, k) # None => Reached(e, v, k) \in Level(e, k)
      BY WalkGoesDown
    <3> QED
      BY <3>1 DEF Inner, Level
  <2>4. Reached(f, v, 1) = Reached(e, v, 1)
    BY DEF Reached
  <2>5. Reached(f, v, 2) = Reached(e, v, 2)
    BY <2>1, <2>2, <2>3 DEF Reached
  <2>6. Reached(f, v, 3) = Reached(e, v, 3)
    BY <2>1, <2>2, <2>3, <2>5 DEF Reached
  <2>7. Reached(f, v, 4) = Reached(e, v, 4)
    BY <2>1, <2>2, <2>3, <2>6 DEF Reached
  <2>8. \A k \in 1..4 : k = 1 \/ k = 2 \/ k = 3 \/ k = 4
    OBVIOUS
  <2>9. Physical(f, v) = IF Reached(e, v, 4) = t /\ v[4] = i
                         THEN IF entry.present THEN entry.to ELSE None
                         ELSE Physical(e, v)
    <3>1. Level4(e) \subseteq DOMAIN e
      BY DEF Tree, LevelsApart
    <3> QED
      BY <1>1, <1>2, <2>1, <2>3, <2>7, <3>1 DEF Physical, Under
  <2> QED
    BY <2>4, <2>5, <2>6, <2>7, <2>8, <2>9
<1> QED
  BY <1>8, <1>9, <1>10 DEF f

(* A table is on one level only. *)
LEMMA OneLevel ==
  ASSUME NEW e, Tree(e), NEW j \in 1..4, NEW k \in 1..4, NEW t, t \in Level(e, j), t \in Level(e, k)
  PROVE  j = k /\ t \in DOMAIN e /\ t # None
<1>1. /\ j = 1 \/ j = 2 \/ j = 3 \/ j = 4
      /\ k = 1 \/ k = 2 \/ k = 3 \/ k = 4
  OBVIOUS
<1>2. t \in DOMAIN e /\ t # None
  BY DEF Tree, LevelsApart, Inner, Level
<1>3. j = k
  BY <1>1 DEF Tree, LevelsApart, Level
<1> QED
  BY <1>2, <1>3

(* A fresh, empty table is linked from an entry of another that led        *)
(* nowhere: it joins the tree one level below, and no virtual page leads   *)
(* elsewhere than before.                                                  *)
LEMMA TableLinked ==
  ASSUME NEW e, Tree(e), NEW k \in 1..3, NEW q \in Level(e, k), NEW i \in Indices,
         ~e[q][i].present, NEW p \in Nat \ {0}, p \notin DOMAIN e
  PROVE  /\ Tree(Linked(e, q, i, p)) /\ DOMAIN Linked(e, q, i, p) = DOMAIN e \union {p}
         /\ \A v \in Virtual :
              /\ Physical(Linked(e, q, i, p), v) = Physical(e, v)
              /\ Reached(e, v, k) = q /\ v[k] = i => Reached(Linked(e, q, i, p), v, k + 1) = p
<1> DEFINE f == Linked(e, q, i, p)
<1>1. /\ e \in [DOMAIN e -> [Indices -> TableEntries]]
      /\ q \in DOMAIN e /\ q # None /\ q # p
  BY OneLevel DEF Tree, TablesTyped
<1>2. Entry(p, TRUE) \in TableEntries /\ Absent \in TableEntries
  BY DEF Entry, Absent, TableEntries, None
<1>3. /\ f \in [DOMAIN e \union {p} -> [Indices -> TableEntries]]
      /\ \A j \in Indices : ~f[p][j].present
      /\ f[q][i].to = p /\ f[q][i].present
      /\ \A j \in Indices : j # i => f[q][j] = e[q][j]
      /\ \A t \in DOMAIN e : t # q => f[t] = e[t]
  <2>1. NewTable(p) \in [Indices -> TableEntries] /\ \A j \in Indices : NewTable(p)[j] = Absent
    BY <1>2 DEF NewTable
  <2>2. [e[q] EXCEPT ![i] = Entry(p, TRUE)] \in [Indices -> TableEntries]
    BY <1>1, <1>2
  <2>3. f \in [DOMAIN e \union {p} -> [Indices -> TableEntries]]
    BY <1>1, <2>1, <2>2 DEF Linked
  <2>4. f[p] = NewTable(p) /\ f[q] = [e[q] EXCEPT ![i] = Entry(p, TRUE)]
    BY <1>1 DEF Linked
  <2>5. \A t \in DOMAIN e : t # q => f[t] = e[t]
    BY DEF Linked
  <2>6. \A j \in Indices : ~f[p][j].present
    BY <2>1, <2>4 DEF Absent
  <2>7. f[q][i] = Entry(p, TRUE)
    BY <1>1, <2>4
  <2>8. f[q][i].to = p /\ f[q][i].present
    BY <2>7 DEF Entry
  <2>9. \A j \in Indices : j # i => f[q][j] = e[q][j]
    BY <1>1, <2>4
  <2> QED
    BY <2>3, <2>5, <2>6, <2>8, <2>9
<1> HIDE DEF f
<1>4. /\ \A T : T \subseteq DOMAIN e /\ q \notin T => LinkedIn(f, T) = LinkedIn(e, T)
      /\ \A T : T \subseteq DOMAIN e /\ q \in T => LinkedIn(f, T) = LinkedIn(e, T) \union {p}
      /\ \A T : T \subseteq DOMAIN e => LinkedIn(f, T \union {p}) = LinkedIn(f, T)
  <2>1. ASSUME NEW T, T \subseteq DOMAIN e, q \notin T PROVE LinkedIn(f, T) = LinkedIn(e, T)
    BY <1>3, <2>1, LinksKept
  <2>2. ASSUME NEW T, T \subseteq DOMAIN e, q \in T
        PROVE  LinkedIn(f, T) = LinkedIn(e, T) \union {p}
    <3>1. ASSUME NEW x \in LinkedIn(f, T) PROVE x \in LinkedIn(e, T) \union {p}
      <4>1. PICK t \in T, j \in Indices : f[t][j].present /\ f[t][j].to = x
        BY <3>1, Links
      <4>2. (t = q /\ j = i) \/ f[t][j] = e[t][j]
        BY <1>3, <2>2
      <4> QED
        BY <1>3, <4>1, <4>2, Links
    <3>2. ASSUME NEW x \in LinkedIn(e, T) PROVE x \in LinkedIn(f, T)
      <4>1. PICK t \in T, j \in Indices : e[t][j].present /\ e[t][j].to = x
        BY <3>2, Links
      <4>2. f[t][j] = e[t][j]
        BY <1>3, <2>2, <4>1
      <4> QED
        BY <4>1, <4>2, Links
    <3>3. p \in LinkedIn(f, T)
      BY <1>3, <2>2, Links
    <3> QED
      BY <3>1, <3>2, <3>3
  <2>3. ASSUME NEW T, T \subseteq DOMAIN e PROVE LinkedIn(f, T \union {p}) = LinkedIn(f, T)
    <3>1. ASSUME NEW x PROVE x \in LinkedIn(f, T \union {p}) <=> x \in LinkedIn(f, T)
      BY <1>3, Links
    <3> QED
      BY <3>1
  <2> QED
    BY <2>1, <2>2, <2>3
<1>5. /\ {P4} \union Level2(e) \union Level3(e) \union Level4(e) = DOMAIN e
      /\ P4 \notin Level2(e) \union Level3(e) \union Level4(e)
      /\ Level2(e) \intersect (Level3(e) \union Level4(e)) = {}
      /\ Level3(e) \intersect Level4(e) = {}
  BY DEF Tree, LevelsApart, Inner
<1>6. /\ Level2(f) = IF k = 1 THEN Level2(e) \union {p} ELSE Level2(e)
      /\ Level3(f) = IF k = 2 THEN Level3(e) \union {p} ELSE Level3(e)
      /\ Level4(f) = IF k = 3 THEN Level4(e) \union {p} ELSE Level4(e)
  <2>1. /\ q \in {P4} <=> k = 1
        /\ q \in Level2(e) <=> k = 2
        /\ q \in Level3(e) <=> k = 3
    BY OneLevel DEF Level
  <2>2. Level2(f) = IF k = 1 THEN Level2(e) \union {p} ELSE Level2(e)
    BY <1>4, <1>5, <2>1 DEF Level2
  <2>3. LinkedIn(f, Level2(f)) = LinkedIn(f, Level2(e))
    BY <1>4, <1>5, <2>2
  <2>4. Level3(f) = IF k = 2 THEN Level3(e) \union {p} ELSE Level3(e)
    <3>1. Level3(f) = LinkedIn(f, Level2(e))
      BY <2>3 DEF Level3
    <3>2. Level3(e) = LinkedIn(e, Level2(e))
      BY DEF Level3
    <3> QED
      BY <1>4, <1>5, <2>1, <3>1, <3>2
  <2>5. LinkedIn(f, Level3(f)) = LinkedIn(f, Level3(e))
    BY <1>4, <1>5, <2>4
  <2>6. Level4(f) = IF k = 3 THEN Level4(e) \union {p} ELSE Level4(e)
    <3>1. Level4(f) = LinkedIn(f, Level3(e))
      BY <2>5 DEF Level4
    <3>2. Level4(e) = LinkedIn(e, Level3(e))
      BY DEF Level4
    <3> QED
      BY <1>4, <1>5, <2>1, <3>1, <3>2
  <2> QED
    BY <2>2, <2>4, <2>6
<1>7. k = 1 \/ k = 2 \/ k = 3
  OBVIOUS
<1>8. DOMAIN f = DOMAIN e \union {p}
  BY <1>3
<1>9. Tree(f)
  <2>1. TablesTyped(f) /\ None \notin DOMAIN f
    BY <1>3, <1>8 DEF Tree, TablesTyped, None
  <2>2. LevelsApart(f)
    BY <1>5, <1>6, <1>7, <1>8 DEF LevelsApart, Inner
  <2>3. LinkedOnce(f)
    <3>1. Inner(f) \subseteq Inner(e) \union {p}
      BY <1>6 DEF Inner
    <3> SUFFICES ASSUME NEW t \in Inner(f), NEW u \in Inner(f), NEW j \in Indices, NEW m \in Indices,
                        f[t][j].present, f[u][m].present, f[t][j].to = f[u][m].to
                 PROVE  t = u /\ j = m
      BY DEF LinkedOnce
    <3>2. t # p /\ u # p
      BY <1>3
    <3>3. t \in Inner(e) /\ u \in Inner(e)
      BY <3>1, <3>2
    <3>4. ASSUME NEW x \in Inner(e), NEW n \in Indices
          PROVE  (x = q /\ n = i) \/ f[x][n] = e[x][n]
      BY <1>3, <1>5 DEF Inner
    <3>5. ASSUME NEW x \in Inner(e), NEW n \in Indices, e[x][n].present PROVE e[x][n].to # p
      <4>1. e[x][n].to \in LinkedIn(e, {P4}) \union LinkedIn(e, Level2(e)) \union LinkedIn(e, Level3(e))
        BY <3>5, Links DEF Inner
      <4> QED
        BY <1>5, <4>1 DEF Level2, Level3, Level4
    <3>6. CASE t = q /\ j = i
      BY <1>3, <3>3, <3>4, <3>5, <3>6
    <3>7. CASE u = q /\ m = i
      BY <1>3, <3>3, <3>4, <3>5, <3>7
    <3>8. CASE ~(t = q /\ j = i) /\ ~(u = q /\ m = i)
      BY <3>3, <3>4, <3>8 DEF Tree, LinkedOnce
    <3> QED
      BY <3>6, <3>7, <3>8
  <2> QED
    BY <2>1, <2>2, <2>3 DEF Tree
<1>10. ASSUME NEW v \in Virtual
       PROVE  /\ Physical(f, v) = Physical(e, v)
              /\ Reached(e, v, k) = q /\ v[k] = i => Reached(f, v, k + 1) = p
  <2> DEFINE Same(j) == \/ Reached(f, v, j) = Reached(e, v, j)
                        \/ j = k + 1 /\ Reached(e, v, j) = None /\ Reached(f, v, j) = p
  <2>1. \A j \in 1..4 : v[j] \in Indices
    BY VirtualAssumption
  <2>2. ASSUME NEW t \in DOMAIN e, t # None, NEW j \in Indices, ~(t = q /\ j = i)
        PROVE  Under(f, t, j) = Under(e, t, j)
    BY <1>3, <2>2 DEF Under
  <2>3. Under(f, q, i) = p /\ Under(e, q, i) = None
    BY <1>1, <1>3 DEF Under
  <2>4. ASSUME NEW j \in Indices
        PROVE  Under(f, p, j) = None /\ Under(f, None, j) = None /\ Under(e, None, j) = None
    BY <1>3 DEF Under
  <2>5. ASSUME NEW j \in 1..4, Reached(e, v, j) # None
        PROVE  /\ Reached(e, v, j) \in Level(e, j) /\ Reached(e, v, j) \in DOMAIN e
               /\ Reached(e, v, j) = q => j = k
    <3>1. Reached(e, v, j) \in Level(e, j)
      BY <2>5, WalkGoesDown
    <3>2. k \in 1..4
      OBVIOUS
    <3> QED
      BY <3>1, <3>2, OneLevel
  <2>6. ASSUME NEW j \in 1..4, Same(j)
        PROVE  /\ \/ Under(f, Reached(f, v, j), v[j]) = Under(e, Reached(e, v, j), v[j])
                  \/ /\ j = k /\ Under(e, Reached(e, v, j), v[j]) = None
                     /\ Under(f, Reached(f, v, j), v[j]) = p
    <3>1. CASE Reached(e, v, j) = None
      BY <2>1, <2>4, <2>6, <3>1
    <3>2. CASE Reached(e, v, j) # None /\ ~(Reached(e, v, j) = q /\ v[j] = i)
      BY <2>1, <2>2, <2>5, <2>6, <3>2
    <3>3. CASE Reached(e, v, j) = q /\ v[j] = i
      BY <1>1, <2>3, <2>5, <2>6, <3>3
    <3> QED
      BY <3>1, <3>2, <3>3
  <2>7. /\ \A x : /\ Reached(x, v, 2) = Under(x, Reached(x, v, 1), v[1])
                  /\ Reached(x, v, 3) = Under(x, Reached(x, v, 2), v[2])
                  /\ Reached(x, v, 4) = Under(x, Reached(x, v, 3), v[3])
                  /\ Reached(x, v, 1) = P4
    BY DEF Reached
  <2>8. Same(1)
    BY <2>7
  <2> HIDE DEF Same
  <2>9. Same(2)
    <3>1. Under(f, Reached(f, v, 1), v[1]) = Under(e, Reached(e, v, 1), v[1])
          \/ (1 = k /\ Under(e, Reached(e, v, 1), v[1]) = None /\ Under(f, Reached(f, v, 1), v[1]) = p)
      BY <2>6, <2>8
    <3> QED
      BY <2>7, <3>1 DEF Same
  <2>10. Same(3)
    <3>1. Under(f, Reached(f, v, 2), v[2]) = Under(e, Reached(e, v, 2), v[2])
          \/ (2 = k /\ Under(e, Reached(e, v, 2), v[2]) = None /\ Under(f, Reached(f, v, 2), v[2]) = p)
      BY <2>6, <2>9
    <3> QED
      BY <2>7, <3>1 DEF Same
  <2>11. Same(4)
    <3>1. Under(f, Reached(f, v, 3), v[3]) = Under(e, Reached(e, v, 3), v[3])
          \/ (3 = k /\ Under(e, Reached(e, v, 3), v[3]) = None /\ Under(f, Reached(f, v, 3), v[3]) = p)
      BY <2>6, <2>10
    <3> QED
      BY <2>7, <3>1 DEF Same
  <2>12. Physical(f, v) = Physical(e, v)
    <3>1. 4 # k
      BY <1>7
    <3> QED
      BY <2>6, <2>11, <3>1 DEF Physical
  <2>13. ASSUME Reached(e, v, k) = q, v[k] = i PROVE Reached(f, v, k + 1) = p
    <3>1. Same(k) /\ k \in 1..4
      BY <1>7, <2>8, <2>9, <2>10
    <3>2. Reached(f, v, k) = q
      BY <1>1, <2>13, <3>1 DEF Same
    <3>3. Reached(f, v, k + 1) = Under(f, Reached(f, v, k), v[k])
      BY <1>7, <2>7
    <3> QED
      BY <2>3, <2>13, <3>2, <3>3
  <2> QED
    BY <2>12, <2>13
<1> QED
  BY <1>8, <1>9, <1>10 DEF f

-----------------------------------------------------------------------------

\* paging_init: the boot's two tables
LEMMA PagingInitialised == PagingInit => PagingInv
<1> SUFFICES ASSUME PagingInit PROVE PagingInv
  OBVIOUS
<1>1. /\ DOMAIN entries = {P4, P3}
      /\ entries \in [{P4, P3} -> [Indices -> TableEntries]]
      /\ \A i \in Indices : entries[P4][i] = IF i = 0 THEN Entry(P3, TRUE) ELSE Absent
      /\ \A i \in Indices : entries[P3][i] = Absent
  <2>1. Absent \in TableEntries
    BY DEF Absent, TableEntries, None
  <2>2. Entry(P3, TRUE) \in TableEntries
    BY BootTablesAssumption DEF PagingInit, Init, Entry, TableEntries
  <2> QED
    BY <2>1, <2>2, VirtualAssumption DEF PagingInit
<1>2. {P4, P3} \subseteq page_bitmap \ {0} /\ {P4, P3} \subseteq Nat
  <2>1. /\ memory_map \in MemoryMaps /\ total_pages = TotalPages(memory_map)
        /\ Pages \intersect KernelPages(total_pages) \subseteq page_bitmap
        /\ total_pages \in Nat
    BY MapsAssumption DEF PagingInit, Init
  <2>2. BitmapEnd(total_pages) \in Int /\ BitmapEnd(total_pages) >= BitmapPage
    <3>1. total_pages + PagesPerBitmapPage - 1 \in Nat /\ PagesPerBitmapPage \in Nat \ {0}
      BY <2>1, SizesAssumption
    <3>2. (total_pages + PagesPerBitmapPage - 1) \div PagesPerBitmapPage \in Nat
      BY <3>1
    <3> QED
      BY <3>2, SizesAssumption DEF BitmapEnd
  <2>3. {P4, P3} \subseteq (KernelStart..(BitmapPage - 1)) \intersect (1..(total_pages - 1))
    BY <2>1, BootTablesAssumption
  <2>4. {P4, P3} \subseteq Pages /\ {P4, P3} \subseteq KernelPages(total_pages)
    BY <2>1, <2>2, <2>3, SizesAssumption DEF Pages, KernelPages
  <2> QED
    BY <2>1, <2>3, <2>4
<1>3. P4 # P3 /\ 0 \in Indices /\ None \notin {P4, P3}
  BY <1>2, VirtualAssumption DEF None
<1>4. ASSUME NEW x PROVE x \in Level2(entries) <=> x = P3
  <2>1. entries[P4][0].present /\ entries[P4][0].to = P3
    BY <1>1, <1>3 DEF Entry
  <2>2. \A i \in Indices : entries[P4][i].present => entries[P4][i].to = P3
    BY <1>1 DEF Entry, Absent
  <2> QED
    BY <1>3, <2>1, <2>2, Links DEF Level2
<1>5. ASSUME NEW x PROVE x \notin Level3(entries)
  <2>1. \A t \in Level2(entries), i \in Indices : ~entries[t][i].present
    BY <1>1, <1>4 DEF Absent
  <2> QED
    BY <2>1, Links DEF Level3
<1>6. ASSUME NEW x PROVE x \notin Level4(entries)
  BY <1>5, Links DEF Level4
<1>7. Level2(entries) = {P3} /\ Level3(entries) = {} /\ Level4(entries) = {}
  BY <1>4, <1>5, <1>6
<1>8. Tree(entries)
  <2>1. TablesTyped(entries) /\ None \notin DOMAIN entries
    BY <1>1, <1>3 DEF TablesTyped
  <2>2. LevelsApart(entries)
    BY <1>1, <1>3, <1>7 DEF LevelsApart, Inner
  <2>3. LinkedOnce(entries)
    <3>1. Inner(entries) = {P4, P3}
      BY <1>7 DEF Inner
    <3>2. ASSUME NEW t \in Inner(entries), NEW i \in Indices, ~(t = P4 /\ i = 0)
          PROVE  ~entries[t][i].present
      <4>1. entries[t][i] = Absent
        BY <1>1, <3>1, <3>2
      <4> QED
        BY <4>1 DEF Absent
    <3> QED
      BY <3>2 DEF LinkedOnce
  <2> QED
    BY <2>1, <2>2, <2>3 DEF Tree
<1>9. TablesTaken
  BY <1>1, <1>2 DEF TablesTaken
<1>10. CallReached
  BY DEF CallReached, PagingInit
<1>11. Mapped
  <2>1. mapped = [v \in Virtual |-> None]
    BY DEF PagingInit
  <2>2. ASSUME NEW v \in Virtual PROVE Physical(entries, v) = None
    <3>1. Reached(entries, v, 4) = None
      BY <1>7, WalkGoesDown DEF Level
    <3> QED
      BY <3>1 DEF Physical, Under
  <2> QED
    BY <2>1, <2>2 DEF Mapped
<1> QED
  BY <1>8, <1>9, <1>10, <1>11 DEF PagingInv

\* The table a call is at is on the level it has come to.
LEMMA CallLevel ==
  ASSUME PagingInv, call # Idle
  PROVE  /\ call.level \in 1..4 /\ call.v \in Virtual
         /\ call.v[call.level] \in Indices
         /\ call.at \in Level(entries, call.level)
         /\ call.at \in DOMAIN entries /\ call.at # None
<1>1. /\ call.level \in 1..4 /\ call.v \in Virtual
      /\ call.at \in DOMAIN entries /\ call.at # None
      /\ call.at = Reached(entries, call.v, call.level)
  BY DEF PagingInv, CallReached, Tree
<1>2. call.v[call.level] \in Indices
  BY <1>1, VirtualAssumption
<1> QED
  BY <1>1, <1>2, WalkGoesDown

\* get_or_create_pte goes on to a table there is.
LEMMA DescendStep ==
  ASSUME PagingInv, Descend
  PROVE  PagingInv'
<1> DEFINE k == call.level
<1>1. /\ k \in 1..3 /\ At.present
      /\ call' = [call EXCEPT !.level = @ + 1, !.at = At.to]
      /\ UNCHANGED <<vars, entries, mapped>>
      /\ call # Idle
  BY DEF Descend, Idle
<1>2. /\ call \in [level : 1..4, at : DOMAIN entries, v : Virtual, frame : Frames, present : BOOLEAN]
      /\ call.at = Reached(entries, call.v, k)
  BY <1>1 DEF PagingInv, CallReached
<1>3. /\ call.at \in Level(entries, k) /\ call.at # None
      /\ call.v[k] \in Indices
  BY <1>1, CallLevel
<1>4. At.to = Reached(entries, call.v, k + 1)
  <2>1. Reached(entries, call.v, k + 1) = Under(entries, Reached(entries, call.v, k), call.v[k])
    BY <1>1 DEF Reached
  <2> QED
    BY <1>1, <1>2, <1>3, <2>1 DEF Under, At
<1>5. At.to \in DOMAIN entries
  <2>1. At.to \in LinkedIn(entries, Level(entries, k))
    BY <1>1, <1>3, Links DEF At
  <2>2. LinkedIn(entries, Level(entries, k)) = Level(entries, k + 1)
    BY <1>1 DEF Level, Level2, Level3, Level4
  <2> QED
    BY <1>1, <2>1, <2>2 DEF PagingInv, Tree, LevelsApart, Inner, Level
<1>6. CallReached'
  <2> DEFINE c == [level |-> k, at |-> call.at, v |-> call.v, frame |-> call.frame,
                   present |-> call.present]
  <2>0. call = c
    BY <1>2
  <2>1. /\ call' = [level |-> k + 1, at |-> At.to, v |-> call.v, frame |-> call.frame,
                    present |-> call.present]
    BY <1>1, <2>0
  <2>2. /\ k + 1 \in 1..4 /\ call.v \in Virtual /\ call.frame \in Frames
        /\ call.present \in BOOLEAN
    BY <1>1, <1>2
  <2> QED
    BY <1>1, <1>4, <1>5, <2>1, <2>2 DEF CallReached
<1> QED
  BY <1>1, <1>6 DEF PagingInv, TablesTaken, Mapped, vars

\* alloc_page_table, and its link
LEMMA CreateTableStep ==
  ASSUME PagingInv, IInv, CreateTable
  PROVE  PagingInv'
<1> DEFINE k == call.level
           q == call.at
<1>1. PICK p \in Scanned :
        /\ AllocPageIs(p)
        /\ entries' = [t \in DOMAIN entries \union {p} |->
                         IF t = p THEN NewTable(p)
                         ELSE IF t = q THEN [entries[t] EXCEPT ![call.v[k]] = Entry(p, TRUE)]
                         ELSE entries[t]]
        /\ call' = [call EXCEPT !.level = @ + 1, !.at = p]
  BY DEF CreateTable
<1>2. k \in 1..3 /\ ~At.present /\ mapped' = mapped /\ call # Idle
  BY DEF CreateTable, Idle
<1>3. /\ call \in [level : 1..4, at : DOMAIN entries, v : Virtual, frame : Frames, present : BOOLEAN]
      /\ q = Reached(entries, call.v, k)
  BY <1>2 DEF PagingInv, CallReached
<1>4. q \in Level(entries, k) /\ call.v[k] \in Indices /\ ~entries[q][call.v[k]].present
  BY <1>2, CallLevel DEF At
<1>5. /\ p \in Nat \ {0} /\ p \notin page_bitmap
      /\ page_bitmap' = page_bitmap \union {p}
      /\ held' = held \union {<<p, 1>>}
  <2>1. total_pages \in Nat
    BY DEF IInv, Typed
  <2>2. p \in Nat \ {0}
    BY <2>1 DEF Scanned, Pages
  <2>3. Block(<<p, 1>>) = {p}
    BY <2>2 DEF Block
  <2> QED
    BY <1>1, <2>2, <2>3 DEF AllocPageIs, Allocate
<1>6. p \notin DOMAIN entries
  BY <1>5 DEF PagingInv, TablesTaken
<1>7. /\ Tree(entries') /\ DOMAIN entries' = DOMAIN entries \union {p}
      /\ \A v \in Virtual :
           /\ Physical(entries', v) = Physical(entries, v)
           /\ Reached(entries, v, k) = q /\ v[k] = call.v[k] => Reached(entries', v, k + 1) = p
  <2>1. Tree(entries)
    BY DEF PagingInv
  <2>2. entries' = Linked(entries, q, call.v[k], p)
    BY <1>1 DEF Linked
  <2> DEFINE i == call.v[k]
             f == Linked(entries, q, i, p)
  <2>3. i \in Indices /\ ~entries[q][i].present /\ p \in Nat \ {0} /\ k \in 1..3
    BY <1>2, <1>4, <1>5
  <2>4. q \in Level(entries, k)
    BY <1>4
  <2> HIDE DEF k, q, i
  <2>5. /\ Tree(f) /\ DOMAIN f = DOMAIN entries \union {p}
        /\ \A v \in Virtual :
             /\ Physical(f, v) = Physical(entries, v)
             /\ Reached(entries, v, k) = q /\ v[k] = i => Reached(f, v, k + 1) = p
    <3> DEFINE P(e, j, t, n, u) ==
                 /\ Tree(Linked(e, t, n, u)) /\ DOMAIN Linked(e, t, n, u) = DOMAIN e \union {u}
                 /\ \A v \in Virtual :
                      /\ Physical(Linked(e, t, n, u), v) = Physical(e, v)
                      /\ Reached(e, v, j) = t /\ v[j] = n
                         => Reached(Linked(e, t, n, u), v, j + 1) = u
    <3>1. \A e : Tree(e) => \A j \in 1..3 : \A t \in Level(e, j) : \A n \in Indices :
            ~e[t][n].present => \A u \in Nat \ {0} : u \notin DOMAIN e => P(e, j, t, n, u)
      BY TableLinked
    <3> HIDE DEF P
    <3>2. P(entries, k, q, i, p)
      BY <1>6, <2>1, <2>3, <2>4, <3>1
    <3> QED
      BY <3>2 DEF P
  <2> QED
    BY <2>2, <2>5 DEF i
<1>8. TablesTaken'
  BY <1>5, <1>7 DEF PagingInv, TablesTaken
<1>9. CallReached'
  <2> DEFINE c == [level |-> k, at |-> q, v |-> call.v, frame |-> call.frame,
                   present |-> call.present]
  <2>0. call = c
    BY <1>3
  <2>1. /\ call' = [level |-> k + 1, at |-> p, v |-> call.v, frame |-> call.frame,
                    present |-> call.present]
    BY <1>1, <2>0
  <2>2. /\ k + 1 \in 1..4 /\ call.v \in Virtual /\ call.frame \in Frames
        /\ call.present \in BOOLEAN /\ p \in DOMAIN entries'
    BY <1>2, <1>3, <1>7
  <2>3. Reached(entries', call.v, k + 1) = p
    BY <1>3, <1>7
  <2> QED
    BY <2>1, <2>2, <2>3 DEF CallReached
<1>10. Mapped'
  BY <1>2, <1>7 DEF PagingInv, Mapped
<1> QED
  BY <1>7, <1>8, <1>9, <1>10 DEF PagingInv

\* The last level of paging_map
LEMMA StoreEntryStep ==
  ASSUME PagingInv, StoreEntry
  PROVE  PagingInv'
<1> DEFINE v == call.v
           entry == Entry(call.frame, call.present)
<1>1. /\ call.level = 4 /\ call # Idle
      /\ entries' = [entries EXCEPT ![call.at][v[4]] = entry]
      /\ mapped' = [mapped EXCEPT ![v] = IF call.present THEN call.frame ELSE None]
      /\ call' = Idle
      /\ UNCHANGED vars
  BY DEF StoreEntry, Idle
<1>2. /\ v \in Virtual /\ v[4] \in Indices /\ call.at \in Level4(entries) /\ call.at # None
      /\ call.at = Reached(entries, v, 4)
      /\ call.frame \in Frames /\ call.present \in BOOLEAN
  BY <1>1, CallLevel DEF PagingInv, CallReached, Level
<1>3. entry \in TableEntries /\ entry.to = call.frame /\ entry.present = call.present
  BY <1>2 DEF Entry, TableEntries
<1>4. /\ Tree(entries') /\ DOMAIN entries' = DOMAIN entries
      /\ \A w \in Virtual : Physical(entries', w) = IF Reached(entries, w, 4) = call.at /\ w[4] = v[4]
                                                    THEN IF entry.present THEN entry.to ELSE None
                                                    ELSE Physical(entries, w)
  <2>1. Tree(entries)
    BY DEF PagingInv
  <2>2. entries' = Written(entries, call.at, v[4], entry)
    BY <1>1 DEF Written
  <2> HIDE DEF v, entry
  <2> QED
    BY <1>2, <1>3, <2>1, <2>2, LeafWritten
<1>5. ASSUME NEW w \in Virtual
      PROVE  Reached(entries, w, 4) = call.at /\ w[4] = v[4] <=> w = v
  BY <1>2, WalksMeetOnce DEF PagingInv
<1>6. Mapped'
  BY <1>1, <1>2, <1>3, <1>4, <1>5 DEF PagingInv, Mapped
<1>7. TablesTaken'
  BY <1>1, <1>4 DEF PagingInv, TablesTaken, vars
<1>8. CallReached'
  BY <1>1 DEF CallReached
<1> QED
  BY <1>4, <1>6, <1>7, <1>8 DEF PagingInv

\* paging_unmap
LEMMA UnmapStep ==
  ASSUME PagingInv, NEW v \in Virtual, Unmap(v)
  PROVE  PagingInv'
<1>1. LeafTable(v) = Reached(entries, v, 4)
  BY DEF LeafTable, Below, Reached, Under
<1> DEFINE t == Reached(entries, v, 4)
<1>2. /\ t # None
      /\ entries' = [entries EXCEPT ![t][v[4]] = Absent]
      /\ mapped' = [mapped EXCEPT ![v] = None]
      /\ call = Idle /\ call' = Idle
      /\ UNCHANGED vars
  BY <1>1 DEF Unmap
<1>3. t \in Level4(entries) /\ v[4] \in Indices
  BY <1>2, WalkGoesDown, VirtualAssumption DEF Level
<1>4. Absent \in TableEntries /\ ~Absent.present
  BY DEF Absent, TableEntries, None
<1> HIDE DEF t
<1>5. /\ Tree(entries') /\ DOMAIN entries' = DOMAIN entries
      /\ \A w \in Virtual : Physical(entries', w) = IF Reached(entries, w, 4) = t /\ w[4] = v[4]
                                                    THEN None ELSE Physical(entries, w)
  <2>1. Tree(entries)
    BY DEF PagingInv
  <2>2. entries' = Written(entries, t, v[4], Absent)
    BY <1>2 DEF Written
  <2>3. /\ Tree(entries') /\ DOMAIN entries' = DOMAIN entries
        /\ \A w \in Virtual :
             Physical(entries', w) = IF Reached(entries, w, 4) = t /\ w[4] = v[4]
                                     THEN IF Absent.present THEN Absent.to ELSE None
                                     ELSE Physical(entries, w)
    BY <1>3, <1>4, <2>1, <2>2, LeafWritten
  <2> QED
    BY <1>4, <2>3
<1>6. ASSUME NEW w \in Virtual
      PROVE  Reached(entries, w, 4) = t /\ w[4] = v[4] <=> w = v
  BY <1>2, WalksMeetOnce DEF PagingInv, t
<1>7. Mapped'
  BY <1>2, <1>5, <1>6 DEF PagingInv, Mapped
<1>8. TablesTaken'
  BY <1>2, <1>5 DEF PagingInv, TablesTaken, vars
<1>9. CallReached'
  BY <1>2 DEF CallReached
<1> QED
  BY <1>5, <1>7, <1>8, <1>9 DEF PagingInv

\* The allocator's other users take pages, and give back none of a table.
LEMMA OtherPagesStep ==
  ASSUME PagingInv, IInv, OtherPages
  PROVE  PagingInv'
<1>1. UNCHANGED <<entries, mapped, call>>
  BY DEF OtherPages
<1>2. CASE HeapInit \/ AllocPage
  <2>1. page_bitmap \subseteq page_bitmap' /\ held \subseteq held'
    BY <1>2 DEF HeapInit, AllocPage, AllocPageIs, Allocate
  <2> QED
    BY <1>1, <2>1 DEF PagingInv, TablesTaken, CallReached, Mapped
<1>3. CASE \E b \in held : b[2] = 1 /\ b[1] \notin DOMAIN entries /\ boot = "run" /\ FreePage(b)
  <2>1. PICK b \in held : b[1] \notin DOMAIN entries /\ FreePage(b)
    BY <1>3
  <2>2. page_bitmap' = page_bitmap \ {b[1]} /\ held' = held \ {b}
    BY <2>1 DEF FreePage
  <2>3. \A t \in DOMAIN entries : t # b[1] /\ <<t, 1>> # b
    BY <2>1
  <2> QED
    BY <1>1, <2>2, <2>3 DEF PagingInv, TablesTaken, CallReached, Mapped
<1> QED
  BY <1>2, <1>3 DEF OtherPages

LEMMA PagingInductive == PagingSpec => []PagingInv
<1>1. PagingInit => PagingInv
  BY PagingInitialised
<1>2. PagingInv /\ IInv /\ [PagingNext]_pagingVars => PagingInv'
  <2> SUFFICES ASSUME PagingInv, IInv, [PagingNext]_pagingVars PROVE PagingInv'
    OBVIOUS
  <2>1. ASSUME NEW v \in Virtual, NEW f \in Frames, NEW present \in BOOLEAN, Map(v, f, present)
        PROVE  PagingInv'
    <3>1. /\ call' = [level |-> 1, at |-> P4, v |-> v, frame |-> f, present |-> present]
          /\ UNCHANGED <<vars, entries, mapped>>
      BY <2>1 DEF Map
    <3>2. P4 \in DOMAIN entries
      BY DEF PagingInv, Tree, LevelsApart, Inner
    <3>3. CallReached'
      BY <3>1, <3>2 DEF CallReached, Reached
    <3> QED
      BY <3>1, <3>3 DEF PagingInv, TablesTaken, Mapped, vars
  <2>2. CASE OutOfPages
    BY <2>2 DEF OutOfPages, PagingInv, TablesTaken, CallReached, Mapped, vars
  <2>3. CASE UNCHANGED pagingVars
    BY <2>3 DEF pagingVars, PagingInv, TablesTaken, CallReached, Mapped, vars
  <2> QED
    BY <2>1, <2>2, <2>3, DescendStep, CreateTableStep, StoreEntryStep, UnmapStep, OtherPagesStep
       DEF PagingNext
<1> QED
  BY <1>1, <1>2, PagingUsesTheAllocator, Inductive, PTL DEF PagingSpec

-----------------------------------------------------------------------------

(* A virtual page leads to the frame paging_map was last told, and to none *)
(* after paging_unmap, whatever was mapped, refused, freed and allocated   *)
(* in between.                                                             *)
THEOREM TranslationIsTheLastMap == PagingSpec => []Translates
<1>1. PagingInv => Translates
  <2>1. \A t, i : Below(t, i) = Under(entries, t, i)
    BY DEF Below, Under
  <2>2. \A v : GetPhysical(v) = Physical(entries, v)
    BY <2>1 DEF GetPhysical, LeafTable, Physical, Reached
  <2> QED
    BY <2>2 DEF PagingInv, Mapped, Translates
<1> QED
  BY <1>1, PagingInductive, PTL

(* The tables are a tree of four levels out of pages that are marked as    *)
(* used, and none of them is lost or another's.                            *)
THEOREM TablesAreATree == PagingSpec => []TablesApart
<1>1. PagingInv => TablesApart
  <2> SUFFICES ASSUME PagingInv PROVE TablesApart
    OBVIOUS
  <2>1. \A T : LinkedFrom(T) = LinkedIn(entries, T)
    BY DEF LinkedFrom, LinksFrom, LinkedIn
  <2>2. /\ LinkedFrom({P4}) = Level2(entries)
        /\ LinkedFrom(Level2(entries)) = Level3(entries)
        /\ LinkedFrom(Level3(entries)) = Level4(entries)
    BY <2>1 DEF Level2, Level3, Level4
  <2>3. DOMAIN entries = {P4} \union Level2(entries) \union Level3(entries) \union Level4(entries)
    BY DEF PagingInv, Tree, LevelsApart, Inner
  <2>4. \A k, l \in LinksFrom(Inner(entries)) :
          entries[k[1]][k[2]] = entries[l[1]][l[2]] => k = l
    <3> SUFFICES ASSUME NEW k \in LinksFrom(Inner(entries)), NEW l \in LinksFrom(Inner(entries)),
                        entries[k[1]][k[2]] = entries[l[1]][l[2]]
                 PROVE  k = l
      OBVIOUS
    <3>1. /\ k = <<k[1], k[2]>> /\ l = <<l[1], l[2]>>
          /\ k[1] \in Inner(entries) /\ l[1] \in Inner(entries)
          /\ k[2] \in Indices /\ l[2] \in Indices
          /\ entries[k[1]][k[2]].present /\ entries[l[1]][l[2]].present
      BY DEF LinksFrom
    <3>2. k[1] = l[1] /\ k[2] = l[2]
      BY <3>1 DEF PagingInv, Tree, LinkedOnce
    <3> QED
      BY <3>1, <3>2
  <2>5. /\ \A t \in DOMAIN entries \ {P4, P3} : <<t, 1>> \in held
        /\ \A t \in DOMAIN entries : t \in page_bitmap
    BY DEF PagingInv, TablesTaken
  <2> QED
    BY <2>2, <2>3, <2>4, <2>5 DEF TablesApart, Inner
<1> QED
  BY <1>1, PagingInductive, PTL
=============================================================================
