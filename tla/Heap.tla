-------------------------------- MODULE Heap --------------------------------
(***************************************************************************)
(* src/kernel/heap.cpp, the kernel heap: kmalloc, kfree and krealloc over  *)
(* the blocks heap_init starts with one of.                                *)
(*                                                                         *)
(* A block is its header's address; header[b] holds the header's fields.   *)
(* size does not count the header, and next is 0 at the end of the list    *)
(* (the heap begins at an address other than 0).  given is what the        *)
(* clients know: for each pointer they hold, the bytes they asked for.     *)
(***************************************************************************)
EXTENDS Integers, FiniteSets

CONSTANTS Start,      \* the address of heap_start
          HeapSize,   \* heap_size
          HeaderSize, \* sizeof(heap_block)
          Alignment,  \* 8
          Requests    \* the sizes asked for

ASSUME SizesAssumption == /\ {Start, HeaderSize, Alignment} \subseteq Nat \ {0}
                          /\ HeapSize \in Nat /\ HeapSize > HeaderSize
                          /\ Requests \subseteq Nat \ {0}

VARIABLES header, given

vars == <<header, given>>

End == Start + HeapSize
Blocks == DOMAIN header
Size(b) == header[b].size
Free(b) == header[b].is_free
Following(b) == header[b].next
Pointer(b) == b + HeaderSize

Header(size, free, next) == [size |-> size, is_free |-> free, next |-> next]

\* heap_init
Init == /\ header = [b \in {Start} |-> Header(HeapSize - HeaderSize, TRUE, 0)]
        /\ given = [p \in {} |-> 0]

-----------------------------------------------------------------------------

\* kmalloc's rounding, and one that rounds down
RoundedDown(size) == (size \div Alignment) * Alignment
Rounded(size) == ((size + Alignment - 1) \div Alignment) * Alignment

\* A split that forgets the new header when it computes what is left
SplitHeaderless(h, b, size) ==
  LET new == b + HeaderSize + size
  IN  [c \in DOMAIN h \union {new} |->
         IF c = b THEN Header(size, FALSE, new)
         ELSE IF c = new THEN Header(h[b].size - size, TRUE, h[b].next)
         ELSE h[c]]

Split(h, b, size) ==
  LET new == b + HeaderSize + size
  IN  [c \in DOMAIN h \union {new} |->
         IF c = b THEN Header(size, FALSE, new)
         ELSE IF c = new THEN Header(h[b].size - size - HeaderSize, TRUE, h[b].next)
         ELSE h[c]]

\* Block b is taken, and split when what is left can hold a header and 8 bytes.
Taken(h, b, size) ==
  IF h[b].size >= size + HeaderSize + Alignment THEN Split(h, b, size)
  ELSE [h EXCEPT ![b].is_free = FALSE]

\* The free blocks kmalloc may take.  It takes the first in the list, which is
\* the one with the least address (Tiled).
Fitting(size) == {b \in Blocks : Free(b) /\ Size(b) >= size}
FirstFit(size) == {b \in Fitting(size) : \A c \in Fitting(size) : b <= c}

\* Block n disappears into b, the one before it.
Merged(h, b, n) ==
  [c \in DOMAIN h \ {n} |->
     IF c = b THEN Header(h[b].size + HeaderSize + h[n].size, h[b].is_free, h[n].next)
     ELSE h[c]]

MergedWithNext(h, b) ==
  IF h[b].next # 0 /\ h[h[b].next].is_free THEN Merged(h, b, h[b].next) ELSE h

MergedWithPrevious(h, b) ==
  IF \E c \in DOMAIN h : h[c].next = b /\ h[c].is_free
  THEN Merged(h, CHOOSE c \in DOMAIN h : h[c].next = b, b)
  ELSE h

\* kfree that looks at one neighbour only
FreedForwardOnly(h, b) == MergedWithNext([h EXCEPT ![b].is_free = TRUE], b)

\* kfree
Freed(h, b) == MergedWithPrevious(MergedWithNext([h EXCEPT ![b].is_free = TRUE], b), b)

Giving(g, p, size) == [q \in DOMAIN g \union {p} |-> IF q = p THEN size ELSE g[q]]
Without(g, p) == [q \in DOMAIN g \ {p} |-> g[q]]

\* kmalloc(size), when there is a block
Kmalloc(size) == \E b \in FirstFit(Rounded(size)) :
                   /\ header' = Taken(header, b, Rounded(size))
                   /\ given' = Giving(given, Pointer(b), size)

\* kfree(p)
Kfree(p) == /\ header' = Freed(header, p - HeaderSize)
            /\ given' = Without(given, p)

\* krealloc(p, size): in place when the block is large enough, elsewhere when
\* kmalloc finds a block; otherwise it returns nullptr and p stays valid.
Krealloc(p, size) ==
  LET block == p - HeaderSize
  IN  \/ /\ Size(block) >= size
         /\ given' = [given EXCEPT ![p] = size]
         /\ UNCHANGED header
      \/ /\ Size(block) < size
         /\ \E b \in FirstFit(Rounded(size)) :
              /\ header' = Freed(Taken(header, b, Rounded(size)), block)
              /\ given' = Giving(Without(given, p), Pointer(b), size)

Next == \/ \E size \in Requests : \/ Kmalloc(size)
                                  \/ \E p \in DOMAIN given : Krealloc(p, size)
        \/ \E p \in DOMAIN given : Kfree(p)

Spec == Init /\ [][Next]_vars

-----------------------------------------------------------------------------

(* Every variable has its type.                                            *)
TypeOK == /\ Blocks \subseteq Start..End
          /\ header \in [Blocks -> [size : 0..HeapSize, is_free : BOOLEAN, next : 0..End]]
          /\ DOMAIN given \subseteq Start..End
          /\ given \in [DOMAIN given -> Nat]

(* The list is the heap, in address order and without a gap: every block   *)
(* ends where the next begins, and the last where the heap ends.           *)
Tiled == /\ TypeOK
         /\ Start \in Blocks
         /\ \A b \in Blocks : LET end == Pointer(b) + Size(b)
                              IN  IF Following(b) = 0 THEN end = End
                                  ELSE end = Following(b) /\ Following(b) \in Blocks

(* What two clients were given does not overlap, nor does it reach over a  *)
(* header or the end of the heap, after any sequence of calls.             *)
Bytes(p) == p..(p + given[p] - 1)
HeaderBytes(b) == b..(b + HeaderSize - 1)
AllocationsApart ==
  \A p \in DOMAIN given :
    /\ Bytes(p) \subseteq Start..(End - 1)
    /\ \A q \in DOMAIN given \ {p} : Bytes(p) \intersect Bytes(q) = {}
    /\ \A b \in Blocks : Bytes(p) \intersect HeaderBytes(b) = {}

(* Freeing merges in both directions, so two free blocks are never         *)
(* neighbours: memory given back in any order is one block again, and a    *)
(* request that fits once everything is freed succeeds.                    *)
Coalesced == /\ \A b \in Blocks : Free(b) /\ Following(b) # 0 => ~Free(Following(b))
             /\ DOMAIN given = {} => Blocks = {Start} /\ Size(Start) = HeapSize - HeaderSize
=============================================================================
