---------------------------- MODULE Parts_proofs ----------------------------
(***************************************************************************)
(* The kernel's parts that keep state of their own, for every value of     *)
(* their constants: the heap, the contents of VFS files in it, the disk    *)
(* driver, the scan of the PCI bus, the character screens, and drawing.    *)
(*                                                                         *)
(* The heap.  Tiled is not inductive: a block outside the list would       *)
(* satisfy it and be merged with one inside.  List adds that no block      *)
(* reaches into another, from which it follows that a block is the next of *)
(* one block at most.  Merging needs that no two free blocks are           *)
(* neighbours, and that the blocks in use are those the clients were given.*)
(*                                                                         *)
(* The contents.  TextKept needs the heap's invariant, as what makes a     *)
(* copy safe is that no other block reaches into the new buffer, and that  *)
(* a node without a buffer has no text.                                    *)
(*                                                                         *)
(* The driver.  TrueMeansDone is about the end of a call; InStep says for  *)
(* each wait of the driver what the drive was asked before it, and what it *)
(* has done of it by then.                                                 *)
(*                                                                         *)
(* The scan.  EachFunctionOnce needs that a device whose functions 1-7 the *)
(* loops are at has the multi-function bit, as such a device does not      *)
(* answer to numbers of functions it does not have.                        *)
(*                                                                         *)
(* The screens.  TerminalRight is about the screen between two calls of    *)
(* gui_term_putc; TermInv says of each place inside one that the screen is *)
(* the end of the text once what is left of the call is done.              *)
(*                                                                         *)
(* Drawing.  FramebufferInv adds to ClipExact that nothing is on the       *)
(* screen before it is shown.  The cell of a pixel is one of its own, so a *)
(* call keeps the invariant if it stores in the cells of its pixels that   *)
(* are on the screen, and in no others (CallDraws).                        *)
(***************************************************************************)
EXTENDS Contents, Ata, Pci, Terminal, Framebuffer, FiniteSetTheorems, SequenceTheorems, NaturalsInduction,
        WellFoundedInduction, TLAPS

(* The heap.                                                               *)

EndOf(h, b) == b + HeaderSize + h[b].size

Typed(h) == /\ DOMAIN h \subseteq Nat \ {0}
            /\ h \in [DOMAIN h -> [size : Nat, is_free : BOOLEAN, next : Nat]]

InHeap(h) == /\ Start \in DOMAIN h
             /\ \A b \in DOMAIN h : Start <= b /\ EndOf(h, b) <= End

Chained(h) == \A b \in DOMAIN h :
                IF h[b].next = 0 THEN EndOf(h, b) = End
                ELSE h[b].next \in DOMAIN h /\ h[b].next = EndOf(h, b)

Disjoint(h) == \A b, c \in DOMAIN h : b < c => EndOf(h, b) <= c

List(h) == Typed(h) /\ InHeap(h) /\ Chained(h) /\ Disjoint(h)

\* b and the block behind it are free.
FreePair(h, b) == h[b].is_free /\ h[b].next # 0 /\ h[h[b].next].is_free

NoFreePair(h) == \A b \in DOMAIN h : ~FreePair(h, b)

Used(h) == {b \in DOMAIN h : ~h[b].is_free}

\* What the clients hold is what is in use, and each block is large enough.
Owned(h, g) == /\ g \in [{Pointer(b) : b \in Used(h)} -> Nat]
               /\ \A b \in Used(h) : g[Pointer(b)] \in 1..h[b].size

Sound(h, g) == List(h) /\ NoFreePair(h) /\ Owned(h, g)

HeapInv == Sound(header, given)

-----------------------------------------------------------------------------

(* kmalloc's rounding never gives less than was asked for. *)
LEMMA RoundedIsEnough ==
  ASSUME NEW size \in Nat
  PROVE  Rounded(size) \in Nat /\ Rounded(size) >= size
<1> DEFINE n == size + Alignment - 1
<1>1. n \in Nat /\ Alignment \in Nat \ {0}
  BY SizesAssumption
<1>2. /\ n \div Alignment \in Nat
      /\ n = Alignment * (n \div Alignment) + (n % Alignment)
      /\ n % Alignment \in 0..(Alignment - 1)
  BY <1>1
<1> DEFINE q == n \div Alignment
           r == n % Alignment
<1>3. q * Alignment = Alignment * q /\ Alignment * q \in Nat
  BY <1>1, <1>2
<1> HIDE DEF q, r
<1>4. Alignment * q = size + Alignment - 1 - r /\ r \in 0..(Alignment - 1)
  BY <1>1, <1>2, <1>3 DEF q, r
<1>5. Rounded(size) = q * Alignment
  BY DEF Rounded, q
<1> QED
  BY <1>1, <1>3, <1>4, <1>5

(* In a list, a block is the next of one block at most. *)
LEMMA OnePrevious ==
  ASSUME NEW h, List(h), NEW b \in DOMAIN h, NEW c \in DOMAIN h,
         h[b].next = h[c].next, h[b].next # 0
  PROVE  b = c
<1>1. /\ b \in Nat /\ c \in Nat /\ h[b].size \in Nat /\ h[c].size \in Nat
      /\ HeaderSize \in Nat \ {0}
  BY SizesAssumption DEF List, Typed
<1>2. EndOf(h, b) = EndOf(h, c)
  BY DEF List, Chained
<1>3. ~(b < c) /\ ~(c < b)
  BY <1>1, <1>2 DEF List, Disjoint, EndOf
<1> QED
  BY <1>1, <1>3

(* Taking a free block, split or whole, keeps the list; the block behind   *)
(* the rest of a split is in use, because the block itself was free.       *)
LEMMA TakenKeepsTheList ==
  ASSUME NEW h, List(h), NoFreePair(h), NEW b \in DOMAIN h, h[b].is_free,
         NEW size \in Nat, h[b].size >= size
  PROVE  LET t == Taken(h, b, size)
         IN  /\ List(t) /\ NoFreePair(t)
             /\ Used(t) = Used(h) \union {b}
             /\ t[b].size >= size
             /\ \A c \in Used(h) : t[c].size = h[c].size
<1> DEFINE t == Taken(h, b, size)
<1>1. /\ HeaderSize \in Nat \ {0} /\ Alignment \in Nat \ {0} /\ Start \in Nat \ {0} /\ End \in Nat
      /\ DOMAIN h \subseteq Nat \ {0}
      /\ \A c \in DOMAIN h : h[c].size \in Nat /\ h[c].is_free \in BOOLEAN /\ h[c].next \in Nat
  BY SizesAssumption DEF List, Typed, End
<1>0. \A c \in DOMAIN h : EndOf(h, c) \in Nat
  BY <1>1 DEF EndOf
<1>2. CASE h[b].size >= size + HeaderSize + Alignment
  <2> DEFINE new == b + HeaderSize + size
  <2>1. t = Split(h, b, size)
    BY <1>2 DEF Taken
  <2>2. new \in Nat \ {0} /\ b < new /\ new < EndOf(h, b)
    BY <1>1, <1>2 DEF EndOf
  <2>3. new \notin DOMAIN h /\ new # b
    <3>1. ASSUME new \in DOMAIN h PROVE FALSE
      <4>1. EndOf(h, b) <= new
        BY <2>2, <3>1 DEF List, Disjoint
      <4> QED
        BY <4>1, <2>2, <1>1 DEF EndOf
    <3> QED
      BY <3>1, <2>2
  <2> HIDE DEF new
  <2>4. /\ DOMAIN t = DOMAIN h \union {new}
        /\ t[b] = Header(size, FALSE, new)
        /\ t[new] = Header(h[b].size - size - HeaderSize, TRUE, h[b].next)
        /\ \A c \in DOMAIN h : c # b => t[c] = h[c]
    BY <2>1, <2>3 DEF Split, new
  <2>5. /\ t[b].size = size /\ t[b].is_free = FALSE /\ t[b].next = new
        /\ t[new].size = h[b].size - size - HeaderSize
        /\ t[new].is_free = TRUE /\ t[new].next = h[b].next
        /\ t[new].size \in Nat
    BY <2>4, <1>1, <1>2 DEF Header
  <2>6. /\ EndOf(t, b) = new
        /\ EndOf(t, new) = EndOf(h, b)
        /\ \A c \in DOMAIN h : c # b => EndOf(t, c) = EndOf(h, c)
    <3>1. EndOf(t, b) = new
      BY <2>5 DEF EndOf, new
    <3>2. EndOf(t, new) = EndOf(h, b)
      <4>1. EndOf(t, new) = b + HeaderSize + size + HeaderSize + (h[b].size - size - HeaderSize)
        BY <2>5 DEF EndOf, new
      <4> QED
        BY <4>1, <1>1 DEF EndOf
    <3> QED
      BY <3>1, <3>2, <2>4 DEF EndOf
  <2>7. t = [c \in DOMAIN t |-> t[c]]
    BY <2>1 DEF Split
  <2> HIDE DEF t
  <2>8. Typed(t)
    <3>1. ASSUME NEW c \in DOMAIN t PROVE t[c] \in [size : Nat, is_free : BOOLEAN, next : Nat]
      <4>1. CASE c = b
        BY <4>1, <2>4, <2>2 DEF Header
      <4>2. CASE c = new
        BY <4>2, <2>4, <2>5, <1>1 DEF Header
      <4>3. CASE c # b /\ c # new
        BY <4>3, <2>4 DEF List, Typed
      <4> QED
        BY <4>1, <4>2, <4>3
    <3>2. DOMAIN t \subseteq Nat \ {0}
      BY <2>2, <2>4, <1>1
    <3> QED
      BY <3>1, <3>2, <2>7 DEF Typed
  <2>9. InHeap(t)
    <3>1. Start \in DOMAIN h /\ \A c \in DOMAIN h : Start <= c /\ EndOf(h, c) <= End
      BY DEF List, InHeap
    <3>2. Start <= new /\ new <= End
      BY <3>1, <1>0, <1>1, <2>2
    <3>3. \A c \in DOMAIN t : c = b \/ c = new \/ (c \in DOMAIN h /\ c # b)
      BY <2>4
    <3> QED
      BY <3>1, <3>2, <3>3, <2>4, <2>6 DEF InHeap
  <2>10. Chained(t)
    <3>1. \A c \in DOMAIN h : IF h[c].next = 0 THEN EndOf(h, c) = End
                             ELSE h[c].next \in DOMAIN h /\ h[c].next = EndOf(h, c)
      BY DEF List, Chained
    <3> SUFFICES ASSUME NEW c \in DOMAIN t
                 PROVE  IF t[c].next = 0 THEN EndOf(t, c) = End
                        ELSE t[c].next \in DOMAIN t /\ t[c].next = EndOf(t, c)
      BY DEF Chained
    <3>2. CASE c = b
      BY <3>2, <2>2, <2>4, <2>5, <2>6
    <3>3. CASE c = new
      BY <3>1, <3>3, <2>4, <2>5, <2>6
    <3>4. CASE c # b /\ c # new
      BY <3>1, <3>4, <2>4, <2>6
    <3> QED
      BY <3>2, <3>3, <3>4
  <2>11. Disjoint(t)
    <3> SUFFICES ASSUME NEW c \in DOMAIN t, NEW d \in DOMAIN t, c < d
                 PROVE  EndOf(t, c) <= d
      BY DEF Disjoint
    <3>0. \A x, y \in DOMAIN h : x < y => EndOf(h, x) <= y
      BY DEF List, Disjoint
    <3>1. CASE c = new
      <4>1. d \in DOMAIN h /\ b < d
        BY <3>1, <1>1, <2>2, <2>4
      <4> QED
        BY <4>1, <3>0, <3>1, <2>6
    <3>2. CASE c = b
      <4>1. d = new \/ (d \in DOMAIN h /\ EndOf(h, b) <= d)
        BY <3>2, <3>0, <2>4
      <4> QED
        BY <4>1, <3>2, <1>0, <1>1, <2>2, <2>6
    <3>3. CASE c # new /\ c # b /\ d = new
      <4>1. c \in DOMAIN h /\ (c < b \/ b < c)
        BY <3>3, <1>1, <2>4
      <4>2. CASE c < b
        BY <4>1, <4>2, <3>0, <3>3, <1>0, <1>1, <2>2, <2>6
      <4>3. CASE b < c
        <5>1. EndOf(h, b) <= c
          BY <4>1, <4>3, <3>0
        <5> QED
          BY <5>1, <4>1, <3>3, <1>0, <1>1, <2>2
      <4> QED
        BY <4>1, <4>2, <4>3
    <3>4. CASE c # new /\ c # b /\ d # new
      BY <3>4, <3>0, <2>4, <2>6
    <3> QED
      BY <3>1, <3>2, <3>3, <3>4
  <2>12. NoFreePair(t)
    <3> SUFFICES ASSUME NEW c \in DOMAIN t, FreePair(t, c) PROVE FALSE
      BY DEF NoFreePair
    <3>1. c # b
      BY <2>5 DEF FreePair
    <3>2. CASE c = new
      BY <3>2, <2>3, <2>4, <2>5, <1>1 DEF FreePair, NoFreePair, List, Chained
    <3>3. CASE c # new
      <4>1. c \in DOMAIN h /\ t[c] = h[c] /\ h[c].next # 0 /\ h[c].next \in DOMAIN h
        BY <3>1, <3>3, <2>4 DEF FreePair, List, Chained
      <4>2. h[c].next # b
        BY <4>1, <2>5 DEF FreePair
      <4> QED
        BY <4>1, <4>2, <2>4 DEF FreePair, NoFreePair
    <3> QED
      BY <3>2, <3>3
  <2>13. Used(t) = Used(h) \union {b}
    BY <2>3, <2>4, <2>5 DEF Used
  <2>14. \A c \in Used(h) : t[c].size = h[c].size
    BY <2>4 DEF Used
  <2> QED
    BY <2>5, <2>8, <2>9, <2>10, <2>11, <2>12, <2>13, <2>14, <1>1 DEF List, t
<1>3. CASE ~(h[b].size >= size + HeaderSize + Alignment)
  <2>1. t = [h EXCEPT ![b].is_free = FALSE]
    BY <1>3 DEF Taken
  <2>2. /\ DOMAIN t = DOMAIN h
        /\ t[b].is_free = FALSE
        /\ \A c \in DOMAIN h : /\ t[c].size = h[c].size /\ t[c].next = h[c].next
                               /\ c # b => t[c] = h[c]
    BY <2>1 DEF List, Typed
  <2>3. Typed(t)
    <3>1. h \in [DOMAIN h -> [size : Nat, is_free : BOOLEAN, next : Nat]]
      BY DEF List, Typed
    <3>2. t \in [DOMAIN h -> [size : Nat, is_free : BOOLEAN, next : Nat]]
      BY <3>1, <2>1
    <3> QED
      BY <3>2, <2>2, <1>1 DEF Typed
  <2> HIDE DEF t
  <2>4. \A c \in DOMAIN h : EndOf(t, c) = EndOf(h, c)
    BY <2>2 DEF EndOf
  <2>5. InHeap(t) /\ Chained(t) /\ Disjoint(t)
    BY <2>2, <2>4 DEF List, InHeap, Chained, Disjoint
  <2>6. NoFreePair(t)
    <3> SUFFICES ASSUME NEW c \in DOMAIN h, FreePair(t, c) PROVE FALSE
      BY <2>2 DEF NoFreePair
    <3>1. h[c].next # 0 /\ h[c].next \in DOMAIN h
      BY <2>2 DEF FreePair, List, Chained
    <3> QED
      BY <3>1, <2>2 DEF FreePair, NoFreePair
  <2>7. Used(t) = Used(h) \union {b} /\ \A c \in Used(h) : t[c].size = h[c].size
    BY <2>2 DEF Used
  <2> QED
    BY <2>2, <2>3, <2>5, <2>6, <2>7 DEF List, t
<1> QED
  BY <1>2, <1>3

(* A block that disappears into the one before it leaves a list.           *)
LEMMA MergedKeepsTheList ==
  ASSUME NEW h, List(h), NEW b \in DOMAIN h, NEW n, n = h[b].next, n # 0
  PROVE  LET m == Merged(h, b, n)
         IN  /\ List(m)
             /\ n \in DOMAIN h /\ n # b /\ DOMAIN m = DOMAIN h \ {n}
             /\ m[b].size >= h[b].size /\ m[b].is_free = h[b].is_free /\ m[b].next = h[n].next
             /\ \A c \in DOMAIN m : c # b => m[c] = h[c] /\ h[c].next # n
<1> DEFINE m == Merged(h, b, n)
<1>1. /\ HeaderSize \in Nat \ {0} /\ Start \in Nat \ {0} /\ End \in Nat
      /\ DOMAIN h \subseteq Nat \ {0}
      /\ \A c \in DOMAIN h : h[c].size \in Nat /\ h[c].is_free \in BOOLEAN /\ h[c].next \in Nat
  BY SizesAssumption DEF List, Typed, End
<1>2. \A c \in DOMAIN h : EndOf(h, c) \in Nat /\ c < EndOf(h, c)
  BY <1>1 DEF EndOf
<1>3. n \in DOMAIN h /\ n = EndOf(h, b) /\ b < n
  BY <1>2 DEF List, Chained
<1>4. /\ DOMAIN m = DOMAIN h \ {n}
      /\ m[b] = Header(h[b].size + HeaderSize + h[n].size, h[b].is_free, h[n].next)
      /\ \A c \in DOMAIN h : c # b /\ c # n => m[c] = h[c]
      /\ m = [c \in DOMAIN m |-> m[c]]
  BY <1>1, <1>3 DEF Merged
<1>5. /\ m[b].size = h[b].size + HeaderSize + h[n].size
      /\ m[b].is_free = h[b].is_free /\ m[b].next = h[n].next
  BY <1>4 DEF Header
<1>6. EndOf(m, b) = EndOf(h, n)
  <2>1. EndOf(m, b) = b + HeaderSize + (h[b].size + HeaderSize + h[n].size)
    BY <1>5 DEF EndOf
  <2> QED
    BY <2>1, <1>1, <1>3 DEF EndOf
<1> HIDE DEF m
<1>7. \A c \in DOMAIN h : c # b /\ c # n => EndOf(m, c) = EndOf(h, c)
  BY <1>4 DEF EndOf
<1>8. \A c \in DOMAIN h : c # b => h[c].next # n
  BY OnePrevious
<1>9. Typed(m)
  <2>1. ASSUME NEW c \in DOMAIN m PROVE m[c] \in [size : Nat, is_free : BOOLEAN, next : Nat]
    <3>1. CASE c = b
      BY <3>1, <1>1, <1>3, <1>4 DEF Header
    <3>2. CASE c # b
      BY <3>2, <1>4 DEF List, Typed
    <3> QED
      BY <3>1, <3>2
  <2> QED
    BY <2>1, <1>1, <1>4 DEF Typed
<1>10. InHeap(m)
  <2>1. Start \in DOMAIN h /\ \A c \in DOMAIN h : Start <= c /\ EndOf(h, c) <= End
    BY DEF List, InHeap
  <2>2. Start # n
    BY <2>1, <1>1, <1>3
  <2> QED
    BY <2>1, <2>2, <1>3, <1>4, <1>6, <1>7 DEF InHeap
<1>11. Chained(m)
  <2>1. \A c \in DOMAIN h : IF h[c].next = 0 THEN EndOf(h, c) = End
                           ELSE h[c].next \in DOMAIN h /\ h[c].next = EndOf(h, c)
    BY DEF List, Chained
  <2>2. h[n].next # n
    BY <2>1, <1>1, <1>2, <1>3
  <2> SUFFICES ASSUME NEW c \in DOMAIN m
               PROVE  IF m[c].next = 0 THEN EndOf(m, c) = End
                      ELSE m[c].next \in DOMAIN m /\ m[c].next = EndOf(m, c)
    BY DEF Chained
  <2>3. CASE c = b
    BY <2>1, <2>2, <2>3, <1>3, <1>4, <1>5, <1>6
  <2>4. CASE c # b
    BY <2>1, <2>4, <1>4, <1>7, <1>8
  <2> QED
    BY <2>3, <2>4
<1>12. Disjoint(m)
  <2>1. \A x, y \in DOMAIN h : x < y => EndOf(h, x) <= y
    BY DEF List, Disjoint
  <2> SUFFICES ASSUME NEW c \in DOMAIN m, NEW d \in DOMAIN m, c < d
               PROVE  EndOf(m, c) <= d
    BY DEF Disjoint
  <2>2. CASE c = b
    <3>1. d \in DOMAIN h /\ n <= d /\ d # n
      BY <2>1, <2>2, <1>3, <1>4
    <3>2. n < d
      BY <3>1, <1>1, <1>3
    <3> QED
      BY <3>1, <3>2, <2>1, <2>2, <1>3, <1>6
  <2>3. CASE c # b
    BY <2>1, <2>3, <1>4, <1>7
  <2> QED
    BY <2>2, <2>3
<1>13. m[b].size >= h[b].size
  BY <1>1, <1>3, <1>5
<1> QED
  BY <1>1, <1>3, <1>4, <1>5, <1>8, <1>9, <1>10, <1>11, <1>12, <1>13 DEF List, m

(* kfree of a block in use: it is merged with a free block behind it, then *)
(* with one before it, and no two free blocks are left side by side.       *)
LEMMA FreedKeepsTheList ==
  ASSUME NEW h, List(h), NoFreePair(h), NEW b \in DOMAIN h, ~h[b].is_free
  PROVE  LET f == Freed(h, b)
         IN  /\ List(f) /\ NoFreePair(f)
             /\ Used(f) = Used(h) \ {b}
             /\ \A c \in Used(f) : f[c].size = h[c].size
<1> DEFINE h1 == [h EXCEPT ![b].is_free = TRUE]
           h2 == MergedWithNext(h1, b)
           f  == MergedWithPrevious(h2, b)
<1>1. /\ DOMAIN h1 = DOMAIN h
      /\ h1[b].is_free = TRUE
      /\ \A c \in DOMAIN h : /\ h1[c].size = h[c].size /\ h1[c].next = h[c].next
                             /\ c # b => h1[c] = h[c]
  BY DEF List, Typed
<1>2. List(h1)
  <2>1. h \in [DOMAIN h -> [size : Nat, is_free : BOOLEAN, next : Nat]] /\ DOMAIN h \subseteq Nat \ {0}
    BY DEF List, Typed
  <2>2. h1 \in [DOMAIN h -> [size : Nat, is_free : BOOLEAN, next : Nat]]
    BY <2>1
  <2>3. \A c \in DOMAIN h : EndOf(h1, c) = EndOf(h, c)
    BY <1>1 DEF EndOf
  <2> HIDE DEF h1
  <2>4. Typed(h1)
    BY <1>1, <2>1, <2>2 DEF Typed
  <2>5. InHeap(h1) /\ Chained(h1) /\ Disjoint(h1)
    BY <1>1, <2>3 DEF List, InHeap, Chained, Disjoint
  <2> QED
    BY <2>4, <2>5 DEF List
<1> HIDE DEF h1
<1>3. \A c \in DOMAIN h1 : h1[c].next = 0 \/ h1[c].next \in DOMAIN h1
  BY <1>2 DEF List, Chained
<1>4. \A c \in DOMAIN h1 : FreePair(h1, c) => c = b \/ h1[c].next = b
  <2> SUFFICES ASSUME NEW c \in DOMAIN h1, FreePair(h1, c), c # b, h1[c].next # b PROVE FALSE
    OBVIOUS
  <2> QED
    BY <1>1, <1>3 DEF FreePair, NoFreePair
<1>5. /\ List(h2)
      /\ b \in DOMAIN h2 /\ h2[b].is_free
      /\ \A c \in DOMAIN h2 : FreePair(h2, c) => h2[c].next = b
      /\ Used(h2) = Used(h) \ {b}
      /\ \A c \in Used(h2) : h2[c].size = h[c].size
  <2>1. CASE h1[b].next # 0 /\ h1[h1[b].next].is_free
    <3> DEFINE n == h1[b].next
    <3>1. h2 = Merged(h1, b, n) /\ b \in DOMAIN h1 /\ n = h1[b].next /\ n # 0
      BY <1>1, <2>1 DEF MergedWithNext
    <3> HIDE DEF h2, n
    <3>2. /\ List(h2)
          /\ n \in DOMAIN h1 /\ n # b /\ DOMAIN h2 = DOMAIN h1 \ {n}
          /\ h2[b].is_free = h1[b].is_free /\ h2[b].next = h1[n].next
          /\ \A c \in DOMAIN h2 : c # b => h2[c] = h1[c] /\ h1[c].next # n
      BY <1>2, <3>1, MergedKeepsTheList
    <3>3. h2[b].next = 0 \/ h2[b].next \in DOMAIN h2
      BY <3>2, <1>1 DEF List, Chained
    <3>4. ~FreePair(h2, b)
      <4> SUFFICES ASSUME FreePair(h2, b) PROVE FALSE
        OBVIOUS
      <4>1. h2[b].next # 0 /\ h2[b].next \in DOMAIN h2 /\ h2[h2[b].next].is_free
        BY <3>3 DEF FreePair
      <4>2. CASE h2[b].next = b
        \* b would be behind the block n, which is behind b
        <5>1. h1[n].next = b /\ h1[b].next = n
          BY <4>2, <3>2 DEF n
        <5>2. b = EndOf(h1, n) /\ n = EndOf(h1, b)
          BY <5>1, <4>1, <4>2, <3>2, <2>1, <1>2 DEF List, Chained, n
        <5>3. EndOf(h1, n) > n /\ EndOf(h1, b) > b /\ n \in Nat /\ b \in Nat
          <6>1. HeaderSize \in Nat \ {0} /\ \A c \in DOMAIN h1 : c \in Nat /\ h1[c].size \in Nat
            BY <1>2, SizesAssumption DEF List, Typed
          <6> QED
            BY <6>1, <3>1, <3>2 DEF EndOf
        <5> QED
          BY <5>2, <5>3
      <4>3. CASE h2[b].next # b
        <5>1. h1[n].is_free /\ h1[n].next # 0 /\ h1[h1[n].next].is_free
          BY <4>1, <4>3, <3>2, <2>1 DEF n
        <5>2. FreePair(h1, n)
          BY <5>1 DEF FreePair
        <5> QED
          BY <5>2, <4>3, <3>2, <1>4
      <4> QED
        BY <4>2, <4>3
    <3>5. ASSUME NEW c \in DOMAIN h2, FreePair(h2, c) PROVE h2[c].next = b
      <4>1. c # b /\ c \in DOMAIN h1 /\ h2[c] = h1[c] /\ h1[c].next # n
        BY <3>2, <3>4, <3>5
      <4>2. SUFFICES ASSUME h2[c].next # b PROVE FALSE
        OBVIOUS
      <4>3. h1[c].next \in DOMAIN h1 /\ h2[h1[c].next] = h1[h1[c].next]
        BY <4>1, <4>2, <3>2, <3>5, <1>3 DEF FreePair
      <4>4. FreePair(h1, c)
        BY <4>1, <4>3, <3>5 DEF FreePair
      <4> QED
        BY <4>1, <4>2, <4>4, <1>4
    <3>6. Used(h2) = Used(h) \ {b} /\ \A c \in Used(h2) : h2[c].size = h[c].size
      <4>1. n \in DOMAIN h /\ n # b /\ h[n].is_free
        BY <2>1, <3>2, <1>1 DEF n
      <4> QED
        BY <4>1, <3>2, <1>1 DEF Used
    <3> QED
      BY <3>2, <3>5, <3>6, <1>1
  <2>2. CASE ~(h1[b].next # 0 /\ h1[h1[b].next].is_free)
    <3>1. h2 = h1
      BY <2>2 DEF MergedWithNext
    <3> HIDE DEF h2
    <3>2. ~FreePair(h1, b)
      BY <2>2 DEF FreePair
    <3>3. Used(h1) = Used(h) \ {b} /\ \A c \in Used(h1) : h1[c].size = h[c].size
      BY <1>1 DEF Used
    <3> QED
      BY <3>1, <3>2, <3>3, <1>1, <1>2, <1>4
  <2> QED
    BY <2>1, <2>2
<1>6. f = Freed(h, b)
  BY DEF Freed, h1
<1> HIDE DEF h2
<1>7. CASE \E c \in DOMAIN h2 : h2[c].next = b /\ h2[c].is_free
  <2>1. PICK c \in DOMAIN h2 : h2[c].next = b /\ h2[c].is_free
    BY <1>7
  <2>2. b # 0
    BY <1>1 DEF List, Typed
  <2>3. \A d \in DOMAIN h2 : h2[d].next = b => d = c
    BY <2>1, <2>2, <1>5, OnePrevious
  <2>4. (CHOOSE d \in DOMAIN h2 : h2[d].next = b) = c
    BY <2>1, <2>3
  <2>5. f = Merged(h2, c, b)
    BY <1>7, <2>4 DEF MergedWithPrevious
  <2> HIDE DEF f
  <2>6. /\ List(f)
        /\ b # c /\ DOMAIN f = DOMAIN h2 \ {b}
        /\ f[c].is_free = h2[c].is_free /\ f[c].next = h2[b].next
        /\ \A d \in DOMAIN f : d # c => f[d] = h2[d] /\ h2[d].next # b
    <3>1. List(h2) /\ c \in DOMAIN h2 /\ b = h2[c].next /\ b # 0
      BY <2>1, <2>2, <1>5
    <3>2. /\ List(f)
          /\ b \in DOMAIN h2 /\ b # c /\ DOMAIN f = DOMAIN h2 \ {b}
          /\ f[c].is_free = h2[c].is_free /\ f[c].next = h2[b].next
          /\ \A d \in DOMAIN f : d # c => f[d] = h2[d] /\ h2[d].next # b
      <4>1. LET m == Merged(h2, c, b)
            IN  /\ List(m)
                /\ b \in DOMAIN h2 /\ b # c /\ DOMAIN m = DOMAIN h2 \ {b}
                /\ m[c].is_free = h2[c].is_free /\ m[c].next = h2[b].next
                /\ \A d \in DOMAIN m : d # c => m[d] = h2[d] /\ h2[d].next # b
        BY <3>1, MergedKeepsTheList
      <4> QED
        BY <4>1, <2>5
    <3> QED
      BY <3>2
  <2>7. NoFreePair(f)
    <3> SUFFICES ASSUME NEW d \in DOMAIN f, FreePair(f, d) PROVE FALSE
      BY DEF NoFreePair
    <3>1. f[d].next # 0 /\ f[d].next \in DOMAIN f /\ f[f[d].next].is_free
      BY <2>6 DEF FreePair, List, Chained
    <3>2. \A x \in DOMAIN f : f[x].is_free = h2[x].is_free
      BY <2>6
    <3>3. CASE d = c
      <4>1. FreePair(h2, b)
        BY <3>1, <3>2, <3>3, <2>6, <1>5 DEF FreePair
      <4>2. h2[b].next = b
        BY <4>1, <1>5
      <4> QED
        BY <4>2, <3>1, <3>3, <2>6
    <3>4. CASE d # c
      <4>1. FreePair(h2, d)
        BY <3>1, <3>2, <3>4, <2>6 DEF FreePair
      <4> QED
        BY <4>1, <3>4, <2>6, <1>5
    <3> QED
      BY <3>3, <3>4
  <2>8. Used(f) = Used(h2) /\ \A d \in Used(f) : f[d].size = h2[d].size
    BY <2>1, <2>6, <1>5 DEF Used
  <2>9. Used(f) = Used(h) \ {b} /\ \A d \in Used(f) : f[d].size = h[d].size
    BY <2>8, <1>5
  <2> QED
    BY <2>6, <2>7, <2>9, <1>6
<1>8. CASE ~\E c \in DOMAIN h2 : h2[c].next = b /\ h2[c].is_free
  <2>1. f = h2
    BY <1>8 DEF MergedWithPrevious
  <2>2. NoFreePair(h2)
    BY <1>5, <1>8 DEF NoFreePair, FreePair
  <2> QED
    BY <2>1, <2>2, <1>5, <1>6
<1> QED
  BY <1>7, <1>8

-----------------------------------------------------------------------------

(* kmalloc gives a block nobody has. *)
LEMMA KmallocKeeps ==
  ASSUME NEW h, NEW g, Sound(h, g), NEW size \in Nat \ {0},
         NEW b \in DOMAIN h, h[b].is_free, h[b].size >= Rounded(size)
  PROVE  /\ Sound(Taken(h, b, Rounded(size)), Giving(g, Pointer(b), size))
         /\ Pointer(b) \in Nat \ {0} /\ Pointer(b) \notin DOMAIN g
<1>1. size >= 1 /\ Rounded(size) \in Nat /\ Rounded(size) >= size
  BY SizesAssumption, RoundedIsEnough
<1>2. PICK h2, g2 : h2 = Taken(h, b, Rounded(size)) /\ g2 = Giving(g, Pointer(b), size)
  OBVIOUS
<1>3. /\ List(h2) /\ NoFreePair(h2)
      /\ Used(h2) = Used(h) \union {b}
      /\ h2[b].size >= Rounded(size)
      /\ \A c \in Used(h) : h2[c].size = h[c].size
  BY <1>1, <1>2, TakenKeepsTheList DEF Sound
<1>4. HeaderSize \in Nat /\ b \in Nat \ {0} /\ h2[b].size \in Nat /\ \A c \in Used(h) : c \in Nat
  BY <1>3, SizesAssumption DEF Sound, List, Typed, Used
<1>5. \A c \in Used(h) : c # b /\ Pointer(c) # Pointer(b)
  BY <1>4 DEF Used, Pointer
<1>6. g \in [{Pointer(c) : c \in Used(h)} -> Nat]
  BY DEF Sound, Owned
<1>7. Pointer(b) \in Nat \ {0} /\ Pointer(b) \notin DOMAIN g
  BY <1>4, <1>5, <1>6 DEF Pointer
<1>8. g2 = [q \in DOMAIN g \union {Pointer(b)} |-> IF q = Pointer(b) THEN size ELSE g[q]]
  BY <1>2 DEF Giving
<1>9. {Pointer(c) : c \in Used(h2)} = {Pointer(c) : c \in Used(h)} \union {Pointer(b)}
  BY <1>3
<1>10. g2 \in [{Pointer(c) : c \in Used(h2)} -> Nat]
  BY <1>1, <1>6, <1>8, <1>9
<1>11. g2[Pointer(b)] \in 1..h2[b].size
  BY <1>1, <1>3, <1>4, <1>8
<1>12. \A c \in Used(h) : g2[Pointer(c)] \in 1..h2[c].size
  BY <1>3, <1>5, <1>6, <1>8 DEF Sound, Owned
<1>13. Owned(h2, g2)
  BY <1>3, <1>10, <1>11, <1>12 DEF Owned
<1> QED
  BY <1>2, <1>3, <1>7, <1>13 DEF Sound

(* kfree takes back what one client had. *)
LEMMA KfreeKeeps ==
  ASSUME NEW h, NEW g, Sound(h, g), NEW p \in DOMAIN g
  PROVE  Sound(Freed(h, p - HeaderSize), Without(g, p))
<1>1. PICK b \in Used(h) : p = Pointer(b)
  BY DEF Sound, Owned
<1>2. HeaderSize \in Nat /\ \A c \in Used(h) : c \in Nat
  BY SizesAssumption DEF Sound, List, Typed, Used
<1>3. p - HeaderSize = b
  BY <1>1, <1>2 DEF Pointer
<1>4. PICK h2, g2 : h2 = Freed(h, p - HeaderSize) /\ g2 = Without(g, p)
  OBVIOUS
<1>5. /\ List(h2) /\ NoFreePair(h2)
      /\ Used(h2) = Used(h) \ {b}
      /\ \A c \in Used(h2) : h2[c].size = h[c].size
  BY <1>1, <1>3, <1>4, FreedKeepsTheList DEF Sound, Used
<1>6. Owned(h2, g2)
  <2>1. \A c \in Used(h) : Pointer(c) = p <=> c = b
    BY <1>1, <1>2 DEF Pointer
  <2>2. g \in [{Pointer(c) : c \in Used(h)} -> Nat] /\ g2 = [q \in DOMAIN g \ {p} |-> g[q]]
    BY <1>4 DEF Sound, Owned, Without
  <2>3. {Pointer(c) : c \in Used(h2)} = {Pointer(c) : c \in Used(h)} \ {p}
    BY <1>5, <2>1
  <2>4. g2 \in [{Pointer(c) : c \in Used(h2)} -> Nat]
    BY <2>2, <2>3
  <2>5. ASSUME NEW c \in Used(h2) PROVE g2[Pointer(c)] \in 1..h2[c].size
    <3>1. g2[Pointer(c)] = g[Pointer(c)]
      BY <2>2, <2>3
    <3> QED
      BY <3>1, <1>5 DEF Sound, Owned
  <2> QED
    BY <2>4, <2>5 DEF Owned
<1> QED
  BY <1>4, <1>5, <1>6 DEF Sound

(* A block is taken for a client, and the one it had before is freed. *)
LEMMA MovedKeeps ==
  ASSUME NEW h, NEW g, Sound(h, g), NEW size \in Nat \ {0}, NEW p \in DOMAIN g,
         NEW b \in DOMAIN h, h[b].is_free, h[b].size >= Rounded(size)
  PROVE  /\ Sound(Freed(Taken(h, b, Rounded(size)), p - HeaderSize),
                  Giving(Without(g, p), Pointer(b), size))
         /\ Pointer(b) \in Nat \ {0} /\ Pointer(b) \notin DOMAIN g
<1> DEFINE t == Taken(h, b, Rounded(size))
           gt == Giving(g, Pointer(b), size)
<1>1. Sound(t, gt) /\ Pointer(b) \in Nat \ {0} /\ Pointer(b) \notin DOMAIN g
  BY KmallocKeeps
<1>2. p \in DOMAIN gt
  BY DEF Giving
<1> HIDE DEF t
<1>3. Sound(Freed(t, p - HeaderSize), Without(gt, p))
  <2> HIDE DEF gt
  <2> QED
    BY <1>1, <1>2, KfreeKeeps
<1>4. Without(gt, p) = Giving(Without(g, p), Pointer(b), size)
  <2>1. p # Pointer(b)
    BY <1>1
  <2> QED
    BY <2>1 DEF Giving, Without
<1> QED
  BY <1>1, <1>3, <1>4 DEF t

\* What FirstFit finds
LEMMA Fits ==
  ASSUME NEW size, NEW b \in FirstFit(size)
  PROVE  b \in DOMAIN header /\ header[b].is_free /\ header[b].size >= size
BY DEF FirstFit, Fitting, Blocks, Free, Size

LEMMA KmallocStep ==
  ASSUME HeapInv, NEW size \in Nat \ {0}, Kmalloc(size)
  PROVE  HeapInv'
BY KmallocKeeps, Fits DEF Kmalloc, HeapInv

LEMMA KfreeStep ==
  ASSUME HeapInv, NEW p \in DOMAIN given, Kfree(p)
  PROVE  HeapInv'
BY KfreeKeeps DEF Kfree, HeapInv

LEMMA KreallocStep ==
  ASSUME HeapInv, NEW size \in Nat \ {0}, NEW p \in DOMAIN given, Krealloc(p, size)
  PROVE  HeapInv'
<1>1. PICK b \in Used(header) : p = Pointer(b)
  BY DEF HeapInv, Sound, Owned
<1>2. HeaderSize \in Nat /\ \A c \in DOMAIN header : c \in Nat /\ header[c].size \in Nat
  BY SizesAssumption DEF HeapInv, Sound, List, Typed
<1>3. p - HeaderSize = b /\ b \in DOMAIN header
  BY <1>1, <1>2 DEF Pointer, Used
<1>4. CASE Size(b) >= size /\ given' = [given EXCEPT ![p] = size] /\ UNCHANGED header
  <2>1. given \in [{Pointer(c) : c \in Used(header)} -> Nat]
    BY DEF HeapInv, Sound, Owned
  <2>2. \A c \in Used(header) : Pointer(c) = Pointer(b) <=> c = b
    BY <1>2 DEF Pointer, Used
  <2>3. given' \in [{Pointer(c) : c \in Used(header')} -> Nat]
    BY <1>4, <2>1
  <2>4. ASSUME NEW c \in Used(header) PROVE given'[Pointer(c)] \in 1..header[c].size
    <3>1. CASE c = b
      BY <3>1, <1>1, <1>2, <1>3, <1>4, <2>1 DEF Size
    <3>2. CASE c # b
      BY <3>2, <1>1, <1>4, <2>1, <2>2 DEF HeapInv, Sound, Owned
    <3> QED
      BY <3>1, <3>2
  <2> QED
    BY <2>3, <2>4, <1>4 DEF HeapInv, Sound, Owned
<1>5. CASE \E n \in FirstFit(Rounded(size)) :
             /\ header' = Freed(Taken(header, n, Rounded(size)), p - HeaderSize)
             /\ given' = Giving(Without(given, p), Pointer(n), size)
  BY <1>5, MovedKeeps, Fits DEF HeapInv
<1> QED
  BY <1>3, <1>4, <1>5 DEF Krealloc

(* The bytes two clients asked for are apart, inside the heap, and none is  *)
(* a header's.                                                             *)
LEMMA Apart ==
  ASSUME NEW h, NEW g, Sound(h, g)
  PROVE  \A p \in DOMAIN g :
           /\ p \in Nat \ {0} /\ g[p] \in Nat \ {0}
           /\ p..(p + g[p] - 1) \subseteq Start..(End - 1)
           /\ \A q \in DOMAIN g \ {p} : (p..(p + g[p] - 1)) \intersect (q..(q + g[q] - 1)) = {}
           /\ \A b \in DOMAIN h : (p..(p + g[p] - 1)) \intersect (b..(b + HeaderSize - 1)) = {}
<1> DEFINE Span(p) == p..(p + g[p] - 1)
<1>1. /\ Start \in Nat \ {0} /\ HeaderSize \in Nat \ {0} /\ End \in Nat
      /\ \A c \in DOMAIN h : c \in Nat /\ h[c].size \in Nat
                              /\ Start <= c /\ EndOf(h, c) <= End
      /\ \A c, d \in DOMAIN h : c < d => EndOf(h, c) <= d
  BY SizesAssumption DEF Sound, List, Typed, InHeap, Disjoint, End
<1>2. ASSUME NEW b \in Used(h)
      PROVE  /\ b \in DOMAIN h
             /\ Pointer(b) \in Nat \ {0} /\ g[Pointer(b)] \in Nat \ {0}
             /\ Span(Pointer(b)) \subseteq (b + HeaderSize)..(EndOf(h, b) - 1)
  <2>1. b \in DOMAIN h /\ g[Pointer(b)] \in 1..h[b].size
    BY DEF Sound, Owned, Used
  <2>2. b \in Nat /\ h[b].size \in Nat /\ EndOf(h, b) = b + HeaderSize + h[b].size
    BY <1>1, <2>1 DEF EndOf
  <2> QED
    BY <1>1, <2>1, <2>2 DEF Pointer
<1> SUFFICES ASSUME NEW p \in DOMAIN g
             PROVE  /\ p \in Nat \ {0} /\ g[p] \in Nat \ {0}
                    /\ Span(p) \subseteq Start..(End - 1)
                    /\ \A q \in DOMAIN g \ {p} : Span(p) \intersect Span(q) = {}
                    /\ \A b \in DOMAIN h : Span(p) \intersect (b..(b + HeaderSize - 1)) = {}
  OBVIOUS
<1> HIDE DEF Span
<1>3. PICK b \in Used(h) : p = Pointer(b)
  BY DEF Sound, Owned
<1>4. /\ b \in Nat /\ EndOf(h, b) \in Nat /\ Start <= b /\ EndOf(h, b) <= End
      /\ Span(p) \subseteq (b + HeaderSize)..(EndOf(h, b) - 1)
  BY <1>1, <1>2, <1>3 DEF EndOf
<1>5. Span(p) \subseteq Start..(End - 1)
  BY <1>1, <1>4
<1>6. ASSUME NEW q \in DOMAIN g \ {p} PROVE Span(p) \intersect Span(q) = {}
  <2>1. PICK c \in Used(h) : q = Pointer(c)
    BY DEF Sound, Owned
  <2>2. b # c
    BY <1>3, <2>1
  <2>3. /\ c \in Nat /\ EndOf(h, c) \in Nat
        /\ EndOf(h, b) <= c \/ EndOf(h, c) <= b
    BY <1>1, <1>2, <2>2 DEF EndOf
  <2> QED
    BY <1>1, <1>2, <1>4, <2>1, <2>3
<1>7. ASSUME NEW c \in DOMAIN h PROVE Span(p) \intersect (c..(c + HeaderSize - 1)) = {}
  <2>1. /\ c \in Nat /\ c + HeaderSize <= EndOf(h, c)
        /\ EndOf(h, c) \in Nat
        /\ c = b \/ EndOf(h, b) <= c \/ EndOf(h, c) <= b
    BY <1>1, <1>2, <1>3 DEF EndOf
  <2> QED
    BY <1>1, <1>4, <2>1
<1> QED
  BY <1>2, <1>3, <1>5, <1>6, <1>7

LEMMA HeapBegins == Init => HeapInv
<1> SUFFICES ASSUME Init PROVE HeapInv
  OBVIOUS
<1> DEFINE whole == Header(HeapSize - HeaderSize, TRUE, 0)
<1>1. /\ DOMAIN header = {Start} /\ header[Start] = whole
      /\ header = [b \in {Start} |-> whole]
  BY DEF Init
<1>2. /\ Start \in Nat \ {0} /\ HeaderSize \in Nat /\ HeapSize - HeaderSize \in Nat
      /\ HeapSize \in Nat
  BY SizesAssumption
<1>3. whole \in [size : Nat, is_free : BOOLEAN, next : Nat]
  BY <1>2 DEF Header
<1>4. whole.size = HeapSize - HeaderSize /\ whole.is_free = TRUE /\ whole.next = 0
  BY DEF Header
<1> HIDE DEF whole
<1>5. EndOf(header, Start) = End
  BY <1>1, <1>2, <1>4 DEF EndOf, End
<1>6. Typed(header)
  BY <1>1, <1>2, <1>3 DEF Typed
<1>7. InHeap(header) /\ Chained(header) /\ NoFreePair(header)
  BY <1>1, <1>2, <1>4, <1>5 DEF InHeap, Chained, NoFreePair, FreePair, End
<1>8. Disjoint(header)
  BY <1>1, <1>2 DEF Disjoint
<1>9. Owned(header, given)
  <2>1. Used(header) = {}
    BY <1>1, <1>4 DEF Used
  <2> QED
    BY <2>1 DEF Owned, Init
<1> QED
  BY <1>6, <1>7, <1>8, <1>9 DEF HeapInv, Sound, List

LEMMA HeapInductive == Spec => []HeapInv
<1>1. HeapInv /\ [Next]_vars => HeapInv'
  <2> SUFFICES ASSUME HeapInv, [Next]_vars PROVE HeapInv'
    OBVIOUS
  <2>1. ASSUME NEW size \in Requests, Kmalloc(size) PROVE HeapInv'
    BY <2>1, KmallocStep, SizesAssumption
  <2>2. ASSUME NEW size \in Requests, NEW p \in DOMAIN given, Krealloc(p, size) PROVE HeapInv'
    BY <2>2, KreallocStep, SizesAssumption
  <2>3. ASSUME NEW p \in DOMAIN given, Kfree(p) PROVE HeapInv'
    BY <2>3, KfreeStep
  <2>4. CASE UNCHANGED vars
    BY <2>4 DEF vars, HeapInv
  <2> QED
    BY <2>1, <2>2, <2>3, <2>4 DEF Next
<1> QED
  BY <1>1, HeapBegins, PTL DEF Spec

(* The blocks are the heap from its first byte to its last, whatever the   *)
(* clients ask for, give back and resize.                                  *)
THEOREM TheHeapIsTiled == Spec => []Tiled
<1>1. HeapInv => Tiled
  <2> SUFFICES ASSUME HeapInv PROVE Tiled
    OBVIOUS
  <2>1. /\ Start \in Nat \ {0} /\ HeaderSize \in Nat \ {0} /\ HeapSize \in Nat /\ End \in Nat
        /\ End = Start + HeapSize
        /\ DOMAIN header \subseteq Nat
        /\ header \in [DOMAIN header -> [size : Nat, is_free : BOOLEAN, next : Nat]]
    BY SizesAssumption DEF HeapInv, Sound, List, Typed, End
  <2>2. ASSUME NEW b \in DOMAIN header
        PROVE  /\ b \in Start..End /\ header[b].size \in 0..HeapSize /\ header[b].next \in 0..End
               /\ Pointer(b) \in Start..End
               /\ EndOf(header, b) = Pointer(b) + Size(b)
    <3>1. b \in Nat /\ header[b].size \in Nat /\ header[b].next \in Nat
      BY <2>1
    <3>2. Start <= b /\ EndOf(header, b) <= End
      BY DEF HeapInv, Sound, List, InHeap
    <3>3. header[b].next = 0 \/ header[b].next = EndOf(header, b)
      BY DEF HeapInv, Sound, List, Chained
    <3>4. EndOf(header, b) = b + HeaderSize + header[b].size
      BY DEF EndOf
    <3>5. b \in Start..End /\ header[b].size \in 0..HeapSize /\ b + HeaderSize \in Start..End
      BY <2>1, <3>1, <3>2, <3>4
    <3>6. header[b].next \in 0..End
      BY <2>1, <3>1, <3>2, <3>3
    <3> QED
      BY <3>4, <3>5, <3>6 DEF Pointer, Size
  <2>3. header \in [DOMAIN header -> [size : 0..HeapSize, is_free : BOOLEAN, next : 0..End]]
    BY <2>1, <2>2
  <2>4. /\ DOMAIN given \subseteq Start..End
        /\ given \in [DOMAIN given -> Nat]
    BY <2>2 DEF HeapInv, Sound, Owned, Used
  <2>5. TypeOK
    BY <2>2, <2>3, <2>4 DEF TypeOK, Blocks
  <2>6. \A b \in DOMAIN header : IF header[b].next = 0 THEN EndOf(header, b) = End
                                 ELSE header[b].next \in DOMAIN header /\ header[b].next = EndOf(header, b)
    BY DEF HeapInv, Sound, List, Chained
  <2>7. Start \in Blocks
    BY DEF HeapInv, Sound, List, InHeap, Blocks
  <2> QED
    BY <2>2, <2>5, <2>6, <2>7 DEF Tiled, Blocks, Following
<1> QED
  BY <1>1, HeapInductive, PTL

(* No two clients of the heap share a byte, and none has a byte of a       *)
(* header or one outside the heap.                                         *)
THEOREM AllocationsNeverOverlap == Spec => []AllocationsApart
<1>1. HeapInv => AllocationsApart
  BY Apart DEF HeapInv, AllocationsApart, Bytes, HeaderBytes, Blocks
<1> QED
  BY <1>1, HeapInductive, PTL

(* What is freed is merged on both sides; when all is freed, the heap is   *)
(* one block again.                                                        *)
THEOREM FreedMemoryIsMerged == Spec => []Coalesced
<1>1. HeapInv => Coalesced
  <2> SUFFICES ASSUME HeapInv PROVE Coalesced
    OBVIOUS
  <2>1. /\ Start \in Nat \ {0} /\ HeaderSize \in Nat \ {0} /\ HeapSize \in Nat /\ End = Start + HeapSize
        /\ Start \in DOMAIN header
        /\ \A c \in DOMAIN header : c \in Nat /\ header[c].size \in Nat /\ header[c].is_free \in BOOLEAN
                                    /\ Start <= c /\ EndOf(header, c) <= End
        /\ \A c, d \in DOMAIN header : c < d => EndOf(header, c) <= d
    BY SizesAssumption DEF HeapInv, Sound, List, Typed, InHeap, Disjoint, End
  <2>2. \A b \in Blocks : Free(b) /\ Following(b) # 0 => ~Free(Following(b))
    BY DEF HeapInv, Sound, NoFreePair, FreePair, Blocks, Free, Following
  <2>3. ASSUME DOMAIN given = {}
        PROVE  Blocks = {Start} /\ Size(Start) = HeapSize - HeaderSize
    <3>1. Used(header) = {}
      BY <2>3 DEF HeapInv, Sound, Owned
    <3>2. \A b \in DOMAIN header : header[b].is_free
      BY <3>1 DEF Used
    <3>3. header[Start].next = 0
      BY <2>1, <3>2 DEF HeapInv, Sound, NoFreePair, FreePair, List, Chained
    <3>4. EndOf(header, Start) = End
      BY <2>1, <3>3 DEF HeapInv, Sound, List, Chained
    <3>5. ASSUME NEW c \in DOMAIN header, c # Start PROVE FALSE
      <4>1. End <= c
        BY <2>1, <3>4, <3>5
      <4> QED
        BY <2>1, <4>1 DEF EndOf
    <3>6. header[Start].size = HeapSize - HeaderSize
      BY <2>1, <3>4 DEF EndOf
    <3> QED
      BY <2>1, <3>5, <3>6 DEF Blocks, Size
  <2> QED
    BY <2>2, <2>3 DEF Coalesced
<1> QED
  BY <1>1, HeapInductive, PTL

-----------------------------------------------------------------------------
(* Doubling.                                                               *)

LessThan == {p \in Nat \X Nat : p[1] < p[2]}

(* A set of naturals has a least element. *)
LEMMA LeastOf ==
  ASSUME NEW S \in SUBSET Nat, S # {}
  PROVE  \E m \in S : \A k \in S : m <= k
<1>1. IsWellFoundedOn(LessThan, Nat)
  <2>1. OpToRel(<, Nat) = LessThan
    BY DEF OpToRel, LessThan
  <2> QED
    BY <2>1, NatLessThanWellFounded
<1>2. PICK m \in S : \A k \in S : <<k, m>> \notin LessThan
  BY <1>1, WFMin
<1>3. ASSUME NEW k \in S PROVE m <= k
  <2>1. <<k, m>> \in Nat \X Nat /\ <<k, m>> \notin LessThan
    BY <1>2
  <2>2. ~(<<k, m>>[1] < <<k, m>>[2])
    BY <2>1 DEF LessThan
  <2> QED
    BY <2>2
<1> QED
  BY <1>3

\* f is the result of the loop from each capacity on, as the code has it, and
\* a function on the naturals that is so from m on.
Doubles(f, need) == f = [c \in Nat |-> IF c >= need THEN c ELSE f[2 * c]]
DoublesFrom(f, need, m) ==
  /\ f \in [Nat -> Nat]
  /\ \A c \in Nat : c >= m => f[c] = IF c >= need THEN c ELSE f[2 * c]

(* There is such a function: it is extended downwards, one capacity at a   *)
(* time.                                                                   *)
LEMMA DoublingExists ==
  ASSUME NEW need \in Nat
  PROVE  \E f : Doubles(f, need)
<1> DEFINE S == {m \in Nat : \E f : DoublesFrom(f, need, m)}
<1>1. need \in S
  <2>1. DoublesFrom([c \in Nat |-> c], need, need)
    BY DEF DoublesFrom
  <2> QED
    BY <2>1
<1>2. PICK m \in S : \A k \in S : m <= k
  <2> HIDE DEF S
  <2>1. S \subseteq Nat
    BY DEF S
  <2> QED
    BY <1>1, <2>1, LeastOf
<1>3. PICK f : DoublesFrom(f, need, m)
  OBVIOUS
<1>4. CASE m = 0
  <2>1. f = [c \in Nat |-> f[c]]
    BY <1>3 DEF DoublesFrom
  <2>2. \A c \in Nat : f[c] = IF c >= need THEN c ELSE f[2 * c]
    BY <1>3, <1>4 DEF DoublesFrom
  <2> QED
    BY <2>1, <2>2 DEF Doubles
<1>5. CASE m # 0
  <2>1. PICK k \in Nat : m = k + 1
    BY <1>5
  <2> DEFINE v == IF k >= need THEN k ELSE f[2 * k]
             g == [f EXCEPT ![k] = v]
  <2>2. f \in [Nat -> Nat] /\ 2 * k \in Nat
    BY <1>3 DEF DoublesFrom
  <2>3. v \in Nat
    BY <2>2
  <2>4. g \in [Nat -> Nat] /\ g[k] = v /\ \A c \in Nat : c # k => g[c] = f[c]
    BY <2>2, <2>3
  <2> HIDE DEF g
  <2>5. ASSUME NEW c \in Nat, c >= k PROVE g[c] = IF c >= need THEN c ELSE g[2 * c]
    <3>1. CASE c = k
      <4>1. CASE k = 0
        BY <2>4, <3>1, <4>1
      <4>2. CASE k # 0
        <5>1. 2 * k # k /\ 2 * k \in Nat
          BY <4>2
        <5> QED
          BY <2>4, <3>1, <5>1
      <4> QED
        BY <4>1, <4>2
    <3>2. CASE c # k
      <4>1. c >= m /\ 2 * c \in Nat /\ 2 * c # k
        BY <2>1, <2>5, <3>2
      <4>2. f[c] = IF c >= need THEN c ELSE f[2 * c]
        BY <1>3, <4>1 DEF DoublesFrom
      <4> QED
        BY <2>4, <3>2, <4>1, <4>2
    <3> QED
      BY <3>1, <3>2
  <2>6. DoublesFrom(g, need, k)
    BY <2>4, <2>5 DEF DoublesFrom
  <2>7. k \in S
    BY <2>6
  <2> QED
    BY <1>2, <2>1, <2>7
<1> QED
  BY <1>4, <1>5

(* ensure_cap's loop ends with a capacity that is enough. *)
LEMMA DoubledIsEnough ==
  ASSUME NEW cap \in Nat, NEW need \in Nat
  PROVE  Doubled(cap, need) \in Nat \ {0} /\ Doubled(cap, need) >= need
<1>1. PICK f : f = CHOOSE g : Doubles(g, need)
  OBVIOUS
<1>2. Doubles(f, need)
  BY <1>1, DoublingExists
<1>3. \A c \in Nat : f[c] = IF c >= need THEN c ELSE f[2 * c]
  BY <1>2 DEF Doubles
<1> DEFINE Good(c) == f[c] \in Nat \ {0} /\ f[c] >= need
           T == {j \in Nat : \E c \in Nat \ {0} : c + j = need /\ ~Good(c)}
<1>4. T = {}
  <2> SUFFICES ASSUME T # {} PROVE FALSE
    OBVIOUS
  <2>1. PICK j \in T : \A k \in T : j <= k
    <3>1. T \in SUBSET Nat
      OBVIOUS
    <3> HIDE DEF T
    <3> QED
      BY <3>1, LeastOf
  <2>2. PICK c \in Nat \ {0} : c + j = need /\ ~Good(c)
    BY <2>1
  <2>3. c < need /\ f[c] = f[2 * c]
    BY <1>3, <2>2
  <2>4. 2 * c \in Nat \ {0} /\ 2 * c > c /\ ~Good(2 * c)
    BY <2>2, <2>3
  <2>5. CASE 2 * c >= need
    BY <1>3, <2>4, <2>5
  <2>6. CASE 2 * c < need
    <3>1. need - 2 * c \in Nat /\ 2 * c + (need - 2 * c) = need
      BY <2>4, <2>6
    <3>2. need - 2 * c \in T
      BY <2>4, <3>1
    <3>3. j = need - c /\ need - 2 * c < j
      BY <2>2, <2>4, <3>1
    <3> QED
      BY <2>1, <3>1, <3>2, <3>3
  <2> QED
    BY <2>4, <2>5, <2>6
<1>5. ASSUME NEW c \in Nat \ {0} PROVE Good(c)
  <2>1. CASE c >= need
    BY <1>3, <2>1
  <2>2. CASE c < need
    <3>1. need - c \in Nat /\ c + (need - c) = need
      BY <2>2
    <3> QED
      BY <1>4, <3>1
  <2> QED
    BY <2>1, <2>2
<1> HIDE DEF Good
<1>6. PICK first \in Nat \ {0} : first = IF cap = 0 THEN FirstCap ELSE cap
  BY ContentsAssumption
<1>7. Doubled(cap, need) = f[first]
  BY <1>1, <1>6 DEF Doubled, Doubles
<1> QED
  BY <1>5, <1>7 DEF Good

-----------------------------------------------------------------------------
(* The contents of files.                                                  *)

Span(g, p) == p..(p + g[p] - 1)

Nodes == [content : Nat, len : Nat, cap : Nat]

\* Node n holds the text w, in memory m of a heap with the blocks g.
Holds(g, m, n, w) ==
  /\ n.len = Len(w)
  /\ n.content # Null =>
       /\ n.content \in DOMAIN g /\ g[n.content] = n.cap
       /\ \A i \in 1..n.len : m[n.content + i - 1] = w[i]
       /\ n.len < n.cap /\ m[n.content + n.len] = Nul
  /\ n.content = Null => n.len = 0 /\ n.cap = 0

ContentsTyped == /\ DOMAIN memory = Start..(End - 1)
                 /\ file \in [Files -> Nodes]
                 /\ written \in [Files -> Seq(Characters)]

OwnBuffers == \A f \in Files : \A g \in Files \ {f} :
                file[f].content = Null \/ file[g].content # file[f].content

TextsHeld == \A f \in Files : Holds(given, memory, file[f], written[f])

ClientsKept == \A p \in ClientBlocks : \A a \in Span(given, p) : memory[a] = Other

ContentsInv == HeapInv /\ ContentsTyped /\ OwnBuffers /\ TextsHeld /\ ClientsKept

LEMMA HeldIsKept == ContentsInv => TextKept
<1> SUFFICES ASSUME ContentsInv PROVE TextKept
  OBVIOUS
<1>1. ASSUME NEW f \in Files, file[f].content # Null
      PROVE  file[f].content + file[f].len \in Bytes(file[f].content)
  <2>1. file[f].content \in Nat /\ file[f].len \in Nat /\ file[f].cap \in Nat
    BY DEF ContentsInv, ContentsTyped, Nodes
  <2>2. file[f].len < file[f].cap /\ given[file[f].content] = file[f].cap
    BY <1>1 DEF ContentsInv, TextsHeld, Holds
  <2> QED
    BY <2>1, <2>2 DEF Bytes
<1>2. \A f \in Files : Holds(given, memory, file[f], written[f])
  BY DEF ContentsInv, TextsHeld
<1>3. \A f \in Files : \A g \in Files \ {f} :
        file[f].content = Null \/ file[g].content # file[f].content
  BY DEF ContentsInv, OwnBuffers
<1>4. \A p \in ClientBlocks : \A a \in Bytes(p) : memory[a] = Other
  BY DEF ContentsInv, ClientsKept, Span, Bytes
<1> QED
  BY <1>1, <1>2, <1>3, <1>4 DEF TextKept, Holds

(* A text is held as long as its bytes and its block stay. *)
LEMMA HoldsLocal ==
  ASSUME NEW g, NEW m, NEW n \in Nodes, NEW w, Holds(g, m, n, w),
         NEW g2, NEW m2,
         n.content # Null => /\ n.content \in DOMAIN g2 /\ g2[n.content] = g[n.content]
                             /\ \A a \in Span(g, n.content) : m2[a] = m[a]
  PROVE  Holds(g2, m2, n, w)
<1>1. CASE n.content = Null
  BY <1>1 DEF Holds
<1>2. CASE n.content # Null
  <2>1. n.content \in Nat /\ n.len \in Nat /\ n.cap \in Nat
    BY DEF Nodes
  <2>2. n.len < n.cap /\ g[n.content] = n.cap
    BY <1>2 DEF Holds
  <2>3. /\ \A i \in 1..n.len : n.content + i - 1 \in Span(g, n.content)
        /\ n.content + n.len \in Span(g, n.content)
    BY <2>1, <2>2 DEF Span
  <2> QED
    BY <1>2, <2>3 DEF Holds
<1> QED
  BY <1>1, <1>2

(* What ensure_cap leaves when it returns true: a buffer that is large     *)
(* enough, with the text in it, and everything of the others as it was.    *)
Others(f) == DOMAIN given \ {file[f].content}

Ready(f, e, need) ==
  /\ Sound(e.header, e.given)
  /\ DOMAIN e.memory = Start..(End - 1)
  /\ e.node \in Nodes /\ e.node.content # Null
  /\ e.node.len = file[f].len /\ e.node.cap >= need
  /\ e.node.content \in DOMAIN e.given /\ e.given[e.node.content] = e.node.cap
  /\ \A i \in 1..e.node.len : e.memory[e.node.content + i - 1] = written[f][i]
  /\ e.node.content \notin Others(f)
  /\ DOMAIN e.given = Others(f) \union {e.node.content}
  /\ \A p \in Others(f) : /\ e.given[p] = given[p]
                          /\ \A a \in Span(given, p) : e.memory[a] = memory[a]

LEMMA EnsuredIsReady ==
  ASSUME ContentsInv, NEW f \in Files, NEW need \in Nat \ {0}, NEW e \in Ensured(f, need)
  PROVE  Ready(f, e, need)
<1>1. PICK n, cap : n = file[f] /\ cap = Doubled(n.cap, need)
  OBVIOUS
<1>2. /\ n \in Nodes /\ n.content \in Nat /\ n.len \in Nat /\ n.cap \in Nat
      /\ Holds(given, memory, n, written[f])
  BY <1>1 DEF ContentsInv, ContentsTyped, TextsHeld, Nodes
<1>3. CASE n.cap >= need
  <2>1. e = [header |-> header, given |-> given, memory |-> memory, node |-> n]
    BY <1>1, <1>3 DEF Ensured
  <2>2. e.header = header /\ e.given = given /\ e.memory = memory /\ e.node = n
    BY <2>1
  <2>3. n.content # Null
    BY <1>2, <1>3 DEF Holds
  <2>4. n.content \in DOMAIN given /\ given[n.content] = n.cap
        /\ \A i \in 1..n.len : memory[n.content + i - 1] = written[f][i]
    BY <1>2, <2>3 DEF Holds
  <2>5. Sound(e.header, e.given) /\ DOMAIN e.memory = Start..(End - 1)
    BY <2>2 DEF ContentsInv, HeapInv, ContentsTyped
  <2>6. DOMAIN e.given = Others(f) \union {e.node.content} /\ e.node.content \notin Others(f)
    BY <1>1, <2>2, <2>4 DEF Others
  <2>7. \A p \in Others(f) : /\ e.given[p] = given[p]
                             /\ \A a \in Span(given, p) : e.memory[a] = memory[a]
    BY <2>2
  <2> QED
    BY <1>1, <1>2, <1>3, <2>2, <2>3, <2>4, <2>5, <2>6, <2>7 DEF Ready
<1>4. CASE ~(n.cap >= need)
  <2>1. PICK b \in FirstFit(Rounded(cap)) :
          e = [header |-> Released(Taken(header, b, Rounded(cap)), n),
               given  |-> Giving(Without(given, n.content), Pointer(b), cap),
               memory |-> Copied(memory, n.content, Pointer(b), n.len),
               node   |-> Node(Pointer(b), n.len, cap)]
    BY <1>1, <1>4 DEF Ensured
  <2>2. PICK to : to = Pointer(b)
    OBVIOUS
  <2>3. /\ e.header = Released(Taken(header, b, Rounded(cap)), n)
        /\ e.given = Giving(Without(given, n.content), to, cap)
        /\ e.memory = Copied(memory, n.content, to, n.len)
        /\ e.node = Node(to, n.len, cap)
    BY <2>1, <2>2
  <2>4. cap \in Nat \ {0} /\ cap >= need
    BY <1>1, <1>2, DoubledIsEnough
  <2>5. b \in DOMAIN header /\ header[b].is_free /\ header[b].size >= Rounded(cap)
    BY Fits
  <2>6. Sound(header, given)
    BY DEF ContentsInv, HeapInv
  <2>7. Sound(e.header, e.given) /\ to \in Nat \ {0} /\ to \notin DOMAIN given
    <3>1. CASE n.content = Null
      <4>1. Sound(Taken(header, b, Rounded(cap)), Giving(given, to, cap))
            /\ to \in Nat \ {0} /\ to \notin DOMAIN given
        BY <2>2, <2>4, <2>5, <2>6, KmallocKeeps
      <4>2. Null \notin DOMAIN given
        BY <2>6, Apart DEF Null
      <4>3. Giving(Without(given, n.content), to, cap) = Giving(given, to, cap)
        BY <3>1, <4>2 DEF Giving, Without
      <4> QED
        BY <2>3, <3>1, <4>1, <4>3 DEF Released
    <3>2. CASE n.content # Null
      <4>1. n.content \in DOMAIN given
        BY <1>2, <3>2 DEF Holds
      <4>2. Sound(Freed(Taken(header, b, Rounded(cap)), n.content - HeaderSize),
                  Giving(Without(given, n.content), to, cap))
            /\ to \in Nat \ {0} /\ to \notin DOMAIN given
        BY <2>2, <2>4, <2>5, <2>6, <4>1, MovedKeeps
      <4> QED
        BY <2>3, <3>2, <4>2 DEF Released
    <3> QED
      BY <3>1, <3>2
  <2>8. e.node \in Nodes /\ e.node.content = to /\ e.node.len = n.len /\ e.node.cap = cap
    BY <1>2, <2>3, <2>4, <2>7 DEF Node, Nodes
  <2>9. /\ DOMAIN e.given = Others(f) \union {to} /\ e.given[to] = cap
        /\ \A p \in Others(f) : e.given[p] = given[p]
    BY <1>1, <2>3, <2>7 DEF Giving, Without, Others
  <2>10. n.len <= cap
    BY <1>2, <1>4, <2>4 DEF Holds
  <2>11. Span(e.given, to) \subseteq Start..(End - 1)
    BY <2>7, <2>9, Apart DEF Span
  <2>12. e.memory = [a \in Start..(End - 1) |->
                       IF a \in to..(to + n.len - 1) THEN memory[n.content + a - to] ELSE memory[a]]
    BY <2>3 DEF Copied, ContentsInv, ContentsTyped
  <2>13. ASSUME NEW i \in 1..n.len PROVE e.memory[to + i - 1] = written[f][i]
    <3>1. n.content # Null
      BY <1>2, <2>13 DEF Holds
    <3>2. to + i - 1 \in to..(to + n.len - 1) /\ to + i - 1 \in Span(e.given, to)
      BY <1>2, <2>4, <2>7, <2>9, <2>10, <2>13 DEF Span
    <3>3. n.content + (to + i - 1) - to = n.content + i - 1
      BY <1>2, <2>7, <2>13
    <3> QED
      BY <1>2, <2>11, <2>12, <2>13, <3>1, <3>2, <3>3 DEF Holds
  <2>14. ASSUME NEW p \in Others(f), NEW a \in Span(given, p) PROVE e.memory[a] = memory[a]
    <3>1. p \in DOMAIN e.given /\ p # to /\ e.given[p] = given[p]
      BY <2>7, <2>9 DEF Others
    <3>2. Span(e.given, p) \intersect Span(e.given, to) = {} /\ Span(e.given, p) \subseteq Start..(End - 1)
      BY <2>7, <2>9, <3>1, Apart DEF Span
    <3>3. a \in Span(e.given, p)
      BY <3>1 DEF Span
    <3>4. to..(to + n.len - 1) \subseteq Span(e.given, to)
      BY <1>2, <2>4, <2>7, <2>9, <2>10 DEF Span
    <3> QED
      BY <2>12, <3>2, <3>3, <3>4
  <2>15. DOMAIN e.memory = Start..(End - 1)
    BY <2>12
  <2>16. Null \notin {to} /\ to \notin Others(f)
    BY <2>7 DEF Null, Others
  <2> QED
    BY <1>1, <2>4, <2>7, <2>8, <2>9, <2>13, <2>14, <2>15, <2>16 DEF Ready
<1> QED
  BY <1>3, <1>4

(* A text that fits is stored behind the first len characters of the old   *)
(* one, which gives new.                                                   *)
Replaces(f, need, len, text, new) ==
  /\ len \in Nat /\ len <= file[f].len
  /\ text \in Seq(Characters) /\ len + Len(text) + 1 <= need
  /\ new \in Seq(Characters) /\ Len(new) = len + Len(text)
  /\ \A i \in 1..len : new[i] = written[f][i]
  /\ \A i \in 1..Len(text) : new[len + i] = text[i]
  /\ written' = [written EXCEPT ![f] = new]

LEMMA StoreStep ==
  ASSUME ContentsInv, NEW f \in Files, NEW need \in Nat \ {0}, NEW e, Ready(f, e, need),
         NEW len, NEW text, NEW new, Replaces(f, need, len, text, new), Store(f, e, len, text)
  PROVE  ContentsInv'
<1>0. /\ len \in Nat /\ len <= file[f].len
      /\ text \in Seq(Characters) /\ len + Len(text) + 1 <= need
      /\ new \in Seq(Characters) /\ Len(new) = len + Len(text)
      /\ \A i \in 1..len : new[i] = written[f][i]
      /\ \A i \in 1..Len(text) : new[len + i] = text[i]
      /\ written' = [written EXCEPT ![f] = new]
  BY DEF Replaces
<1>1. PICK to, n : to = e.node.content /\ n = [e.node EXCEPT !.len = len + Len(text)]
  OBVIOUS
<1>2. /\ header' = e.header /\ given' = e.given
      /\ memory' = Stored(e.memory, to + len, text)
      /\ file' = [file EXCEPT ![f] = n]
  BY <1>0, <1>1 DEF Store
<1>3. /\ n \in Nodes /\ n.content = to /\ n.len = len + Len(text) /\ n.cap = e.node.cap
      /\ to \in Nat /\ to # Null /\ n.cap \in Nat /\ n.len \in Nat /\ n.len < n.cap
  <2>1. /\ e.node \in Nodes /\ e.node.content # Null /\ e.node.cap >= need
    BY <1>0 DEF Ready
  <2>2. len + Len(text) \in Nat
    BY <1>0
  <2>3. n = [content |-> e.node.content, len |-> len + Len(text), cap |-> e.node.cap]
    BY <1>0, <1>1, <2>1 DEF Nodes
  <2>4. e.node.content \in Nat /\ e.node.cap \in Nat
    BY <1>0, <2>1 DEF Nodes
  <2>5. len + Len(text) < e.node.cap
    BY <1>0, <2>1, <2>2, <2>4
  <2> QED
    BY <1>0, <1>1, <2>1, <2>2, <2>3, <2>4, <2>5 DEF Nodes
<1>4. Sound(header', given')
  BY <1>0, <1>2 DEF Ready
<1>5. /\ to \in DOMAIN given' /\ given'[to] = n.cap /\ to \notin Others(f)
      /\ DOMAIN given' = Others(f) \union {to}
      /\ \A p \in Others(f) : given'[p] = given[p]
  BY <1>0, <1>1, <1>2, <1>3 DEF Ready
<1>6. Span(given', to) \subseteq Start..(End - 1) /\ Span(given', to) = to..(to + n.cap - 1)
  BY <1>0, <1>4, <1>5, Apart DEF Span
<1>7. memory' = [a \in Start..(End - 1) |->
                   IF a \in (to + len)..(to + len + Len(text) - 1) THEN text[a - (to + len) + 1]
                   ELSE IF a = to + len + Len(text) THEN Nul ELSE e.memory[a]]
  BY <1>0, <1>2 DEF Stored, Ready
<1>8. ContentsTyped'
  <2>1. DOMAIN memory' = Start..(End - 1)
    BY <1>0, <1>7
  <2>2. file' \in [Files -> Nodes]
    BY <1>0, <1>2, <1>3 DEF ContentsInv, ContentsTyped
  <2>3. written' \in [Files -> Seq(Characters)]
    BY <1>0 DEF ContentsInv, ContentsTyped
  <2> QED
    BY <1>0, <2>1, <2>2, <2>3 DEF ContentsTyped
<1>9. file'[f] = n /\ written'[f] = new
      /\ \A g \in Files \ {f} : file'[g] = file[g] /\ written'[g] = written[g]
  BY <1>0, <1>2 DEF ContentsInv, ContentsTyped
\* What is outside the buffer is as it was before ensure_cap.
<1>10. ASSUME NEW p \in Others(f), NEW a \in Span(given, p) PROVE memory'[a] = memory[a]
  <2>1. p \in DOMAIN given' /\ p # to /\ given'[p] = given[p]
    BY <1>0, <1>5
  <2>2. Span(given', p) \intersect Span(given', to) = {} /\ Span(given', p) \subseteq Start..(End - 1)
    BY <1>0, <1>4, <1>5, <2>1, Apart DEF Span
  <2>3. a \in Span(given', p)
    BY <1>0, <2>1 DEF Span
  <2>4. a \notin (to + len)..(to + len + Len(text) - 1) /\ a # to + len + Len(text)
    BY <1>0, <1>3, <1>6, <2>2, <2>3
  <2>5. e.memory[a] = memory[a]
    BY <1>0 DEF Ready
  <2> QED
    BY <1>0, <1>7, <2>2, <2>3, <2>4, <2>5
<1>11. Holds(given', memory', n, new)
  <2>1. ASSUME NEW i \in 1..n.len PROVE memory'[to + i - 1] = new[i]
    <3>1. to + i - 1 \in Start..(End - 1)
      <4>1. i \in Nat /\ 1 <= i /\ i < n.cap
        BY <1>0, <1>3, <2>1
      <4>2. to + i - 1 \in to..(to + n.cap - 1)
        BY <1>0, <1>3, <4>1
      <4> QED
        BY <1>0, <1>6, <4>2
    <3>2. CASE i <= len
      <4>1. to + i - 1 \notin (to + len)..(to + len + Len(text) - 1) /\ to + i - 1 # to + len + Len(text)
        BY <1>0, <1>3, <2>1, <3>2
      <4>2. e.memory[to + i - 1] = written[f][i]
        BY <1>0, <1>1, <2>1, <3>2 DEF Ready, ContentsInv, ContentsTyped, Nodes
      <4> QED
        BY <1>0, <1>7, <2>1, <3>1, <3>2, <4>1, <4>2
    <3>3. CASE i > len
      <4>1. PICK j \in 1..Len(text) : i = len + j
        <5>1. i - len \in 1..Len(text) /\ i = len + (i - len)
          BY <1>0, <1>3, <2>1, <3>3
        <5> QED
          BY <1>0, <5>1
      <4>2. to + i - 1 \in (to + len)..(to + len + Len(text) - 1) /\ (to + i - 1) - (to + len) + 1 = j
        BY <1>0, <1>3, <4>1
      <4> QED
        BY <1>0, <1>7, <3>1, <4>1, <4>2
    <3> QED
      BY <1>0, <2>1, <3>2, <3>3
  <2>2. memory'[to + n.len] = Nul
    <3>1. to + n.len \in Start..(End - 1) /\ to + n.len = to + len + Len(text)
          /\ to + n.len \notin (to + len)..(to + len + Len(text) - 1)
      BY <1>0, <1>3, <1>6, SMTT(30)
    <3> QED
      BY <1>0, <1>7, <3>1
  <2> QED
    BY <1>0, <1>3, <1>5, <2>1, <2>2 DEF Holds
<1>12. ASSUME NEW g \in Files \ {f}
       PROVE  /\ file[g].content # Null => file[g].content \in Others(f)
              /\ file[g].content # to
  <2>1. file[g].content # Null => file[g].content \in DOMAIN given /\ file[g].content # file[f].content
    BY <1>0 DEF ContentsInv, TextsHeld, Holds, OwnBuffers
  <2> QED
    BY <1>0, <1>3, <1>5, <2>1 DEF Others
<1>13. TextsHeld'
  <2>1. ASSUME NEW g \in Files \ {f} PROVE Holds(given', memory', file[g], written[g])
    <3>1. file[g] \in Nodes /\ Holds(given, memory, file[g], written[g])
      BY <1>0 DEF ContentsInv, ContentsTyped, TextsHeld
    <3>2. file[g].content # Null =>
            /\ file[g].content \in DOMAIN given' /\ given'[file[g].content] = given[file[g].content]
            /\ \A a \in Span(given, file[g].content) : memory'[a] = memory[a]
      BY <1>0, <1>5, <1>10, <1>12
    <3>3. PICK n2, w2, g2, m2 : n2 = file[g] /\ w2 = written[g] /\ g2 = given' /\ m2 = memory'
      OBVIOUS
    <3>4. PICK g1, m1 : g1 = given /\ m1 = memory
      OBVIOUS
    <3>5. n2 \in Nodes /\ Holds(g1, m1, n2, w2)
      BY <3>1, <3>3, <3>4
    <3>6. n2.content # Null => /\ n2.content \in DOMAIN g2 /\ g2[n2.content] = g1[n2.content]
                               /\ \A a \in Span(g1, n2.content) : m2[a] = m1[a]
      BY <3>2, <3>3, <3>4
    <3>7. Holds(g2, m2, n2, w2)
      BY <3>5, <3>6, HoldsLocal
    <3> QED
      BY <3>3, <3>7
  <2> QED
    BY <1>0, <1>9, <1>11, <2>1 DEF TextsHeld
<1>14. OwnBuffers'
  <2> SUFFICES ASSUME NEW g \in Files, NEW g2 \in Files \ {g}
               PROVE  file'[g].content = Null \/ file'[g2].content # file'[g].content
    BY <1>0 DEF OwnBuffers
  <2>1. CASE g = f
    BY <1>0, <1>3, <1>9, <1>12, <2>1
  <2>2. CASE g2 = f
    BY <1>0, <1>3, <1>9, <1>12, <2>2
  <2>3. CASE g # f /\ g2 # f
    BY <1>0, <1>9, <2>3 DEF ContentsInv, OwnBuffers
  <2> QED
    BY <1>0, <2>1, <2>2, <2>3
<1>15. ClientsKept'
  <2>1. ASSUME NEW p \in ClientBlocks', NEW a \in Span(given', p) PROVE memory'[a] = Other
    <3>1. p \in DOMAIN given' /\ (p = Null \/ \A g \in Files : p # file'[g].content)
      BY <1>0 DEF ClientBlocks, Buffers
    <3>2. p # Null
      BY <1>0, <1>4, <3>1, Apart DEF Null
    <3>3. p # to
      BY <1>0, <1>3, <1>9, <3>1, <3>2
    <3>4. p \in Others(f) /\ given'[p] = given[p]
      BY <1>0, <1>5, <3>1, <3>3
    <3>5. p \in ClientBlocks
      <4>1. \A g \in Files \ {f} : p # file[g].content
        BY <1>0, <1>9, <3>1, <3>2
      <4> QED
        BY <1>0, <3>4, <4>1 DEF Others, ClientBlocks, Buffers
    <3>6. a \in Span(given, p)
      BY <1>0, <3>4 DEF Span
    <3> QED
      BY <1>0, <1>10, <3>4, <3>5, <3>6 DEF ContentsInv, ClientsKept
  <2> QED
    BY <1>0, <2>1 DEF ClientsKept
<1> QED
  BY <1>0, <1>4, <1>8, <1>13, <1>14, <1>15 DEF ContentsInv, HeapInv

(* write_file's loop, mkfile_at and diskfs_init: the text replaces the old one. *)
LEMMA VfsWriteStep ==
  ASSUME ContentsInv, NEW f \in Files, NEW text \in Texts, VfsWrite(f, text)
  PROVE  ContentsInv'
<1>1. PICK need : need = Needed(Len(text))
  OBVIOUS
<1>2. text \in Seq(Characters) /\ Len(text) \in Nat
  BY ContentsAssumption
<1>3. need \in Nat \ {0} /\ 0 + Len(text) + 1 <= need
  BY <1>1, <1>2 DEF Needed
<1>4. PICK e \in Ensured(f, need) : Store(f, e, 0, text) /\ written' = [written EXCEPT ![f] = text]
  BY <1>1 DEF VfsWrite
<1>5. Ready(f, e, need)
  BY <1>3, EnsuredIsReady
<1>6. 0 <= file[f].len
  BY DEF ContentsInv, ContentsTyped, Nodes
<1>7. Len(text) = 0 + Len(text) /\ \A i \in 1..Len(text) : text[0 + i] = text[i]
  BY <1>2
<1>8. Replaces(f, need, 0, text, text)
  BY <1>2, <1>3, <1>4, <1>6, <1>7 DEF Replaces
<1> QED
  BY <1>3, <1>4, <1>5, <1>8, StoreStep

(* A character goes behind the text. *)
LEMMA VfsAppendCharStep ==
  ASSUME ContentsInv, NEW f \in Files, NEW c \in Letters, VfsAppendChar(f, c)
  PROVE  ContentsInv'
<1>1. PICK need, old, len : need = Needed(file[f].len + 1) /\ old = written[f] /\ len = file[f].len
  OBVIOUS
<1>2. old \in Seq(Characters) /\ len \in Nat /\ len = Len(old)
  BY <1>1 DEF ContentsInv, ContentsTyped, TextsHeld, Holds, Nodes
<1>3. PICK text, new : text = <<c>> /\ new = Append(old, c)
  OBVIOUS
<1>4. c \in Characters
  BY DEF Characters
<1>5. /\ text \in Seq(Characters) /\ Len(text) = 1 /\ text[1] = c
      /\ new \in Seq(Characters) /\ Len(new) = len + Len(text)
      /\ \A i \in 1..len : new[i] = old[i]
      /\ \A i \in 1..Len(text) : new[len + i] = text[i]
  BY <1>2, <1>3, <1>4
<1>6. need \in Nat \ {0} /\ len + Len(text) + 1 <= need
  BY <1>1, <1>2, <1>5 DEF Needed
<1>7. PICK e \in Ensured(f, need) : Store(f, e, len, text) /\ written' = [written EXCEPT ![f] = new]
  BY <1>1, <1>3 DEF VfsAppendChar
<1>8. Ready(f, e, need)
  BY <1>6, EnsuredIsReady
<1>9. Replaces(f, need, len, text, new)
  BY <1>1, <1>2, <1>5, <1>6, <1>7 DEF Replaces
<1> QED
  BY <1>6, <1>7, <1>8, <1>9, StoreStep

(* What leaves the heap and the other nodes alone *)
LEMMA VfsPopCharStep ==
  ASSUME ContentsInv, NEW f \in Files, VfsPopChar(f)
  PROVE  ContentsInv'
<1>1. PICK n, old, at : n = file[f] /\ old = written[f] /\ at = file[f].content
  OBVIOUS
<1>2. /\ n \in Nodes /\ n.content = at /\ at \in Nat /\ n.len \in Nat \ {0} /\ n.cap \in Nat
      /\ Holds(given, memory, n, old) /\ old \in Seq(Characters)
  BY <1>1 DEF VfsPopChar, ContentsInv, ContentsTyped, TextsHeld, Nodes
<1>3. /\ at # Null /\ at \in DOMAIN given /\ given[at] = n.cap /\ n.len < n.cap /\ n.len = Len(old)
      /\ \A i \in 1..n.len : memory[at + i - 1] = old[i]
  BY <1>2 DEF Holds
<1>4. PICK n2, new : n2 = [n EXCEPT !.len = @ - 1] /\ new = SubSeq(old, 1, Len(old) - 1)
  OBVIOUS
<1>5. /\ n2 \in Nodes /\ n2.content = at /\ n2.len = n.len - 1 /\ n2.cap = n.cap
  BY <1>2, <1>4 DEF Nodes
<1>6. /\ new \in Seq(Characters) /\ Len(new) = n2.len /\ \A i \in 1..n2.len : new[i] = old[i]
  <2>1. PICK k \in Nat : k = Len(old) - 1 /\ k <= Len(old) /\ n2.len = k
    BY <1>2, <1>3, <1>5
  <2>2. new = SubSeq(old, 1, k)
    BY <1>4, <2>1
  <2>3. \A i \in 1..k : old[i] \in Characters
    BY <1>2, <2>1
  <2>4. /\ new \in Seq(Characters) /\ Len(new) = (IF 1 <= k THEN k - 1 + 1 ELSE 0)
        /\ \A i \in 1..(k - 1 + 1) : new[i] = old[1 + i - 1]
    BY <2>2, <2>3, SubSeqProperties
  <2>5. \A i \in 1..k : i \in 1..(k - 1 + 1) /\ 1 + i - 1 = i
    OBVIOUS
  <2> QED
    BY <2>1, <2>4, <2>5
<1>7. /\ file' = [file EXCEPT ![f] = n2] /\ written' = [written EXCEPT ![f] = new]
      /\ memory' = Stored(memory, at + n.len - 1, <<>>) /\ given' = given /\ header' = header
  BY <1>1, <1>4 DEF VfsPopChar, vars
<1>8. DOMAIN memory = Start..(End - 1)
  BY DEF ContentsInv, ContentsTyped
<1>9. memory' = [a \in Start..(End - 1) |-> IF a = at + n.len - 1 THEN Nul ELSE memory[a]]
  <2>1. \A a \in Start..(End - 1) : a \notin (at + n.len - 1)..(at + n.len - 1 + Len(<<>>) - 1)
    BY <1>2
  <2>2. at + n.len - 1 + Len(<<>>) = at + n.len - 1
    BY <1>2
  <2> QED
    BY <1>7, <1>8, <2>1, <2>2 DEF Stored
<1>10. Sound(header', given') /\ Sound(header, given)
  BY <1>7 DEF ContentsInv, HeapInv
<1>11. Span(given, at) \subseteq Start..(End - 1) /\ at + n.len - 1 \in Span(given, at)
  BY <1>2, <1>3, <1>10, Apart DEF Span
<1>12. ContentsTyped'
  <2>1. DOMAIN memory' = Start..(End - 1)
    BY <1>9
  <2>2. file' \in [Files -> Nodes] /\ written' \in [Files -> Seq(Characters)]
    BY <1>5, <1>6, <1>7 DEF ContentsInv, ContentsTyped
  <2> QED
    BY <2>1, <2>2 DEF ContentsTyped
<1>13. file'[f] = n2 /\ written'[f] = new
       /\ \A g \in Files \ {f} : file'[g] = file[g] /\ written'[g] = written[g]
  BY <1>7 DEF ContentsInv, ContentsTyped
<1>14. \A g \in Files : file'[g].content = file[g].content
  BY <1>1, <1>2, <1>5, <1>13
<1>15. ASSUME NEW p \in DOMAIN given \ {at}, NEW a \in Span(given, p) PROVE memory'[a] = memory[a]
  <2>1. Span(given, p) \intersect Span(given, at) = {} /\ Span(given, p) \subseteq Start..(End - 1)
    BY <1>3, <1>10, Apart DEF Span
  <2> QED
    BY <1>9, <1>11, <2>1
<1>16. Holds(given', memory', n2, new)
  <2>1. ASSUME NEW i \in 1..n2.len PROVE memory'[at + i - 1] = new[i]
    <3>1. at + i - 1 \in Span(given, at) /\ at + i - 1 # at + n.len - 1 /\ i \in 1..n.len
      BY <1>2, <1>3, <1>5, <2>1 DEF Span
    <3> QED
      BY <1>3, <1>6, <1>9, <1>11, <2>1, <3>1
  <2>2. at + n2.len = at + n.len - 1 /\ n2.len < n2.cap
    BY <1>2, <1>3, <1>5
  <2>3. memory'[at + n2.len] = Nul
    BY <1>9, <1>11, <2>2
  <2> QED
    BY <1>3, <1>5, <1>6, <1>7, <2>1, <2>2, <2>3 DEF Holds
<1>17. TextsHeld'
  <2>1. ASSUME NEW g \in Files \ {f} PROVE Holds(given', memory', file[g], written[g])
    <3>1. file[g] \in Nodes /\ Holds(given, memory, file[g], written[g])
          /\ (at = Null \/ file[g].content # at)
      BY <1>1, <1>2 DEF ContentsInv, ContentsTyped, TextsHeld, OwnBuffers
    <3>2. file[g].content # Null => file[g].content \in DOMAIN given
      BY <3>1 DEF Holds
    <3>3. PICK n3, w3, g1, m1, m2 :
            n3 = file[g] /\ w3 = written[g] /\ g1 = given /\ m1 = memory /\ m2 = memory'
      OBVIOUS
    <3>4. n3 \in Nodes /\ Holds(g1, m1, n3, w3)
      BY <3>1, <3>3
    <3>5. n3.content # Null => /\ n3.content \in DOMAIN g1
                               /\ \A a \in Span(g1, n3.content) : m2[a] = m1[a]
      BY <1>3, <1>15, <3>1, <3>2, <3>3
    <3>6. Holds(g1, m2, n3, w3)
      BY <3>4, <3>5, HoldsLocal
    <3> QED
      BY <1>7, <3>3, <3>6
  <2> QED
    BY <1>13, <1>16, <2>1 DEF TextsHeld
<1>18. OwnBuffers'
  BY <1>14 DEF ContentsInv, OwnBuffers
<1>19. ClientsKept'
  <2>1. ClientBlocks' = ClientBlocks
    BY <1>7, <1>14 DEF ClientBlocks, Buffers
  <2>2. at \notin ClientBlocks /\ ClientBlocks \subseteq DOMAIN given
    BY <1>1, <1>3 DEF ClientBlocks, Buffers
  <2>3. \A p \in ClientBlocks : \A a \in Span(given, p) : memory'[a] = Other
    BY <1>15, <2>2 DEF ContentsInv, ClientsKept
  <2> QED
    BY <1>7, <2>1, <2>3 DEF ClientsKept, Span
<1> QED
  BY <1>10, <1>12, <1>17, <1>18, <1>19 DEF ContentsInv, HeapInv

(* Another client's block is none of the nodes', before and after. *)
LEMMA ClientTakesStep ==
  ASSUME ContentsInv, ClientTakes
  PROVE  ContentsInv'
<1>1. ClientSize \in Nat \ {0} /\ Sound(header, given)
  BY ContentsAssumption DEF ContentsInv, HeapInv
<1>2. PICK b \in FirstFit(Rounded(ClientSize)) :
        /\ header' = Taken(header, b, Rounded(ClientSize))
        /\ given' = Giving(given, Pointer(b), ClientSize)
  BY DEF ClientTakes, Kmalloc
<1>3. PICK to : to = Pointer(b)
  OBVIOUS
<1>4. /\ Sound(header', given') /\ to \in Nat \ {0} /\ to \notin DOMAIN given
  BY <1>1, <1>2, <1>3, Fits, KmallocKeeps
<1>5. /\ DOMAIN given' = DOMAIN given \union {to} /\ given'[to] = ClientSize
      /\ \A p \in DOMAIN given : given'[p] = given[p]
  BY <1>2, <1>3, <1>4 DEF Giving
<1>6. UNCHANGED <<file, written>> /\ ClientBlocks = {}
  BY DEF ClientTakes
<1>7. memory' = [a \in Start..(End - 1) |->
                   IF a \in to..(to + ClientSize - 1) THEN Other ELSE memory[a]]
  <2>1. DOMAIN given' \ DOMAIN given = {to}
    BY <1>4, <1>5
  <2> QED
    BY <2>1 DEF ClientTakes, ContentsInv, ContentsTyped
<1>8. /\ Span(given', to) \subseteq Start..(End - 1) /\ Span(given', to) = to..(to + ClientSize - 1)
  BY <1>4, <1>5, Apart DEF Span
<1>9. ASSUME NEW p \in DOMAIN given, NEW a \in Span(given, p) PROVE memory'[a] = memory[a]
  <2>1. p \in DOMAIN given' /\ p # to /\ Span(given', p) = Span(given, p)
    BY <1>4, <1>5 DEF Span
  <2>2. Span(given', p) \intersect Span(given', to) = {} /\ Span(given', p) \subseteq Start..(End - 1)
    BY <1>4, <1>5, <2>1, Apart DEF Span
  <2> QED
    BY <1>7, <1>8, <2>1, <2>2
<1>10. ContentsTyped'
  BY <1>6, <1>7 DEF ContentsInv, ContentsTyped
<1>11. OwnBuffers'
  BY <1>6 DEF ContentsInv, OwnBuffers
<1>12. TextsHeld'
  <2>1. ASSUME NEW g \in Files PROVE Holds(given', memory', file[g], written[g])
    <3>1. file[g] \in Nodes /\ Holds(given, memory, file[g], written[g])
      BY DEF ContentsInv, ContentsTyped, TextsHeld
    <3>2. file[g].content # Null => file[g].content \in DOMAIN given
      BY <3>1 DEF Holds
    <3>3. PICK n2, w2, g2, m2 : n2 = file[g] /\ w2 = written[g] /\ g2 = given' /\ m2 = memory'
      OBVIOUS
    <3>4. Holds(g2, m2, n2, w2)
      BY <1>5, <1>9, <3>1, <3>2, <3>3, HoldsLocal
    <3> QED
      BY <3>3, <3>4
  <2> QED
    BY <1>6, <2>1 DEF TextsHeld
<1>13. ClientsKept'
  <2>1. ClientBlocks' \subseteq {to}
    BY <1>5, <1>6 DEF ClientBlocks, Buffers
  <2>2. \A a \in Span(given', to) : memory'[a] = Other
    BY <1>7, <1>8
  <2> QED
    BY <2>1, <2>2 DEF ClientsKept
<1> QED
  BY <1>4, <1>10, <1>11, <1>12, <1>13 DEF ContentsInv, HeapInv

LEMMA ClientFreesStep ==
  ASSUME ContentsInv, ClientFrees
  PROVE  ContentsInv'
<1>1. PICK p \in ClientBlocks : Kfree(p) /\ UNCHANGED contents
  BY DEF ClientFrees
<1>2. /\ p \in DOMAIN given /\ \A g \in Files : file[g].content = Null \/ file[g].content # p
  BY DEF ClientBlocks, Buffers
<1>3. HeapInv'
  BY <1>1, <1>2, KfreeStep DEF ContentsInv
<1>4. /\ DOMAIN given' = DOMAIN given \ {p}
      /\ \A q \in DOMAIN given \ {p} : given'[q] = given[q]
  BY <1>1 DEF Kfree, Without
<1>5. file' = file /\ memory' = memory /\ written' = written
  BY <1>1 DEF contents
<1>6. ContentsTyped' /\ OwnBuffers'
  BY <1>5 DEF ContentsInv, ContentsTyped, OwnBuffers
<1>7. TextsHeld'
  BY <1>2, <1>4, <1>5 DEF ContentsInv, TextsHeld, Holds
<1>8. ClientsKept'
  BY <1>4, <1>5 DEF ContentsInv, ClientsKept, ClientBlocks, Buffers, Span
<1> QED
  BY <1>3, <1>6, <1>7, <1>8 DEF ContentsInv

LEMMA ContentsInductive == ContentsSpec => []ContentsInv
<1>1. ContentsInit => ContentsInv
  <2> SUFFICES ASSUME ContentsInit PROVE ContentsInv
    OBVIOUS
  <2>1. HeapInv /\ DOMAIN given = {}
    BY HeapBegins DEF ContentsInit, Init
  <2>2. \A f \in Files : file[f] = Node(Null, 0, 0) /\ written[f] = <<>>
    BY DEF ContentsInit
  <2>3. \A f \in Files : file[f] = [content |-> 0, len |-> 0, cap |-> 0]
    BY <2>2 DEF Node, Null
  <2>4. ContentsTyped
    <3>1. DOMAIN memory = Start..(End - 1) /\ written \in [Files -> Seq(Characters)]
      BY DEF ContentsInit
    <3>2. Node(Null, 0, 0) \in Nodes
      BY DEF Node, Null, Nodes
    <3>3. file \in [Files -> Nodes]
      BY <3>2 DEF ContentsInit
    <3> QED
      BY <3>1, <3>3 DEF ContentsTyped
  <2>5. OwnBuffers
    BY <2>3 DEF OwnBuffers, Null
  <2>6. TextsHeld
    BY <2>2, <2>3 DEF TextsHeld, Holds, Null
  <2>7. ClientsKept
    BY <2>1 DEF ClientsKept, ClientBlocks
  <2> QED
    BY <2>1, <2>4, <2>5, <2>6, <2>7 DEF ContentsInv
<1>2. ContentsInv /\ [ContentsNext]_<<vars, contents>> => ContentsInv'
  <2> SUFFICES ASSUME ContentsInv, [ContentsNext]_<<vars, contents>> PROVE ContentsInv'
    OBVIOUS
  <2>1. CASE UNCHANGED <<vars, contents>>
    BY <2>1 DEF vars, contents, ContentsInv, HeapInv, ContentsTyped, OwnBuffers, TextsHeld,
                ClientsKept, ClientBlocks, Buffers
  <2> QED
    BY <2>1, VfsWriteStep, VfsAppendCharStep, VfsPopCharStep, ClientTakesStep, ClientFreesStep
       DEF ContentsNext
<1> QED
  BY <1>1, <1>2, PTL DEF ContentsSpec

(* A file's content is the text written to it, in a block of its own and   *)
(* with its NUL, whatever the heap moved, freed and gave to others in      *)
(* between: ensure_cap's growth, write_file and the editor's keys in       *)
(* vfs.cpp.                                                                *)
THEOREM TextsAreKept == ContentsSpec => []TextKept
BY ContentsInductive, HeldIsKept, PTL

-----------------------------------------------------------------------------
(* The disk driver and the drive are in step: what the drive works on is   *)
(* the call in progress, unless a wait gave up on it.                      *)

Transfers == [op : {"identify", "read", "write"}, lba : Sectors \union {AnySector},
              data : Sector \union {Blank}, ok : BOOLEAN]
DriveCommands == [op : {"identify", "read", "write", "store", "flush"},
                  lba : Sectors \union {AnySector}, data : Sector \union {Blank}, ok : BOOLEAN]

\* Types, and that only a drive that is there is waited for after ata_init
DriverTyped ==
  /\ present \in BOOLEAN /\ abandoned \in BOOLEAN /\ rejected \in BOOLEAN
  /\ cache \in [Sectors -> Sector \union {Blank}]
  /\ platter \in [Sectors -> Sector \union {Blank}]
  /\ call \in Transfers
  /\ command \in DriveCommands
  /\ pc \in {"identify", "out", "not busy", "data", "written", "flushed"}
  /\ call.op # "identify" => call.lba \in Sectors
  /\ command.op # "identify" => command.lba \in Sectors
  /\ pc \in {"written", "flushed"} => call.op = "write"
  /\ pc \in {"not busy", "data", "written", "flushed"} => present /\ call.op # "identify"

\* Where each wait finds the drive
InStep ==
  ~abandoned /\ ~rejected =>
    /\ pc = "identify" =>
         ~present /\ call.op = "identify" /\ command.op = "identify" /\ cache = platter
    /\ pc = "out" =>
         /\ present => status \in {"ready", "ERR"}
         /\ ~present => ~call.ok /\ command.op = "identify"
         /\ cache = platter
         /\ call.ok /\ call.op = "read" => call.data = cache[call.lba]
         /\ call.ok /\ call.op = "write" => cache[call.lba] = call.data
    /\ pc = "not busy" => status \in {"ready", "ERR"} /\ cache = platter
    /\ pc = "data" => status # "ready" /\ command = call /\ cache = platter
    /\ pc = "written" =>
         \/ status = "BSY" /\ command = [call EXCEPT !.op = "store"]
         \/ status = "ready" /\ cache[call.lba] = call.data
    /\ pc = "flushed" =>
         /\ cache[call.lba] = call.data
         /\ \/ status = "BSY" /\ command = [call EXCEPT !.op = "flush"]
            \/ status = "ready" /\ cache = platter

AtaInv == DriverTyped /\ InStep

LEMMA AtaInitInv == AtaInit => AtaInv
<1> SUFFICES ASSUME AtaInit PROVE AtaInv
  OBVIOUS
<1>1. call = [op |-> "identify", lba |-> AnySector, data |-> Blank, ok |-> FALSE] /\ command = call
  BY DEF AtaInit, Call
<1>2. DriverTyped
  <2>1. call \in Transfers /\ call.op = "identify"
    BY <1>1 DEF Transfers
  <2>2. command \in DriveCommands
        /\ command.op = "identify"
    BY <1>1 DEF DriveCommands
  <2>3. cache \in [Sectors -> Sector \union {Blank}] /\ platter = cache
    BY DEF AtaInit
  <2> QED
    BY <2>1, <2>2, <2>3 DEF AtaInit, DriverTyped
<1>3. InStep
  BY <1>1 DEF AtaInit, InStep
<1> QED
  BY <1>2, <1>3 DEF AtaInv

(* The calls of diskfs.cpp and gui.cpp are of one sector. *)
LEMMA CallsAre ==
  ASSUME NEW c \in Calls
  PROVE  /\ c \in [op : {"read", "write"}, lba : Sectors, data : Sector \union {Blank}, ok : BOOLEAN]
         /\ ~c.ok
<1>1. CASE \E lba \in Sectors : c = Call("read", lba, Blank)
  BY <1>1 DEF Call
<1>2. CASE \E lba \in Sectors, data \in Sector : c = Call("write", lba, data)
  BY <1>2 DEF Call
<1> QED
  BY <1>1, <1>2 DEF Calls

\* A call that answers
LEMMA Answered ==
  ASSUME AtaInv, NEW ok \in BOOLEAN, Return(ok)
  PROVE  /\ pc' = "out"
         /\ call' \in Transfers
         /\ call'.op = call.op /\ call'.lba = call.lba /\ call'.data = call.data /\ call'.ok = ok
BY DEF AtaInv, DriverTyped, Transfers, Return

LEMMA GivesUpStep == AtaInv /\ (GivesUp \/ SeesError \/ NotADisk) => AtaInv'
<1> SUFFICES ASSUME AtaInv, GivesUp \/ SeesError \/ NotADisk PROVE AtaInv'
  OBVIOUS
<1>1. /\ Return(FALSE)
      /\ UNCHANGED <<present, status, command, cache, platter, rejected>>
      /\ abandoned' \in BOOLEAN /\ (abandoned => abandoned')
  BY DEF GivesUp, SeesError, NotADisk, drive, AtaInv, DriverTyped
<1>2. DriverTyped'
  BY <1>1, Answered DEF AtaInv, DriverTyped
<1>3. InStep'
  <2>1. CASE GivesUp
    BY <2>1 DEF GivesUp, InStep
  <2>2. CASE SeesError
    <3>1. pc \in {"identify", "data"} /\ status = "ERR" /\ abandoned' = abandoned
      BY <2>2 DEF SeesError
    <3>2. pc' = "out" /\ ~call'.ok
      BY <1>1, Answered
    <3>3. ~abandoned /\ ~rejected => /\ cache = platter
                                     /\ ~present => command.op = "identify"
      BY <3>1 DEF AtaInv, InStep, DriverTyped
    <3> QED
      BY <1>1, <3>1, <3>2, <3>3 DEF InStep
  <2>3. CASE NotADisk
    <3>1. pc = "identify" /\ abandoned' = abandoned
      BY <2>3 DEF NotADisk
    <3>2. pc' = "out" /\ ~call'.ok
      BY <1>1, Answered
    <3>3. ~abandoned /\ ~rejected => cache = platter /\ ~present /\ command.op = "identify"
      BY <3>1 DEF AtaInv, InStep
    <3> QED
      BY <1>1, <3>1, <3>2, <3>3 DEF InStep
  <2> QED
    BY <2>1, <2>2, <2>3
<1> QED
  BY <1>2, <1>3 DEF AtaInv

LEMMA IdentifiedStep == AtaInv /\ Identified => AtaInv'
<1> SUFFICES ASSUME AtaInv, Identified PROVE AtaInv'
  OBVIOUS
<1>1. /\ pc = "identify" /\ present' = TRUE /\ Return(TRUE) /\ status' = "ready"
      /\ UNCHANGED <<abandoned, command, cache, platter, rejected>>
  BY DEF Identified
<1>2. DriverTyped'
  BY <1>1, Answered DEF AtaInv, DriverTyped
<1>3. call.op = "identify" \/ abandoned \/ rejected
  BY <1>1 DEF AtaInv, InStep
<1>4. InStep'
  BY <1>1, <1>3, Answered DEF AtaInv, InStep
<1> QED
  BY <1>2, <1>4 DEF AtaInv

LEMMA CalledStep ==
  ASSUME AtaInv, NEW c \in Calls, Refused(c) \/ Begin(c)
  PROVE  AtaInv'
<1>1. /\ pc = "out" /\ call' = c
      /\ \/ ~present /\ pc' = pc
         \/ present /\ pc' = "not busy"
      /\ UNCHANGED <<present, abandoned, status, command, cache, platter, rejected>>
  BY DEF Refused, Begin, drive
<1>2. DriverTyped'
  <2>1. c \in Transfers /\ c.lba \in Sectors /\ c.op # "identify"
    BY CallsAre DEF Transfers
  <2>2. pc' \in {"identify", "out", "not busy", "data", "written", "flushed"}
    BY <1>1
  <2> QED
    BY <1>1, <2>1, <2>2 DEF AtaInv, DriverTyped
<1>3. InStep'
  BY <1>1, CallsAre DEF AtaInv, InStep
<1> QED
  BY <1>2, <1>3 DEF AtaInv

LEMMA SendCommandStep == AtaInv /\ SendCommand => AtaInv'
<1> SUFFICES ASSUME AtaInv, SendCommand PROVE AtaInv'
  OBVIOUS
<1>1. /\ pc = "not busy" /\ status # "BSY" /\ pc' = "data"
      /\ \/ status = "DRQ" /\ UNCHANGED <<status, command>>
         \/ status # "DRQ" /\ status' = "BSY" /\ command' = call
      /\ UNCHANGED <<present, call, abandoned, cache, platter, rejected>>
  BY DEF SendCommand, Issue
<1>2. DriverTyped'
  <2>1. call \in DriveCommands
    BY DEF AtaInv, DriverTyped, Transfers, DriveCommands
  <2>2. command' \in DriveCommands /\ (command'.op # "identify" => command'.lba \in Sectors)
    BY <1>1, <2>1 DEF AtaInv, DriverTyped
  <2> QED
    BY <1>1, <2>2 DEF AtaInv, DriverTyped
<1>3. InStep'
  BY <1>1 DEF AtaInv, InStep
<1> QED
  BY <1>2, <1>3 DEF AtaInv

LEMMA ReadSectorStep == AtaInv /\ ReadSector => AtaInv'
<1> SUFFICES ASSUME AtaInv, ReadSector PROVE AtaInv'
  OBVIOUS
<1>1. PICK data \in IF command.op = "read" THEN {cache[command.lba]} ELSE Sector :
        call' = [call EXCEPT !.ok = TRUE, !.data = data]
  BY DEF ReadSector
<1>2. /\ pc = "data" /\ status = "DRQ" /\ call.op = "read" /\ pc' = "out"
      /\ status' = IF command.op = "read" THEN "ready" ELSE "DRQ"
      /\ UNCHANGED <<present, abandoned, command, cache, platter, rejected>>
  BY DEF ReadSector
<1>3. data \in Sector \union {Blank}
  BY <1>1 DEF AtaInv, DriverTyped
<1>4. /\ call' \in Transfers
      /\ call'.op = call.op /\ call'.lba = call.lba /\ call'.data = data /\ call'.ok = TRUE
  BY <1>1, <1>3 DEF AtaInv, DriverTyped, Transfers
<1>5. DriverTyped'
  BY <1>2, <1>4 DEF AtaInv, DriverTyped
<1>6. ~abandoned /\ ~rejected => command = call /\ present /\ cache = platter
  BY <1>2 DEF AtaInv, InStep, DriverTyped
<1>7. ~abandoned /\ ~rejected => status' = "ready" /\ data = cache[call.lba]
  BY <1>1, <1>2, <1>6
<1>8. InStep'
  BY <1>2, <1>4, <1>6, <1>7 DEF InStep
<1> QED
  BY <1>5, <1>8 DEF AtaInv

\* What the drive is told of a call
LEMMA Renamed ==
  ASSUME AtaInv, NEW op \in {"store", "flush"}, call.op = "write"
  PROVE  LET c == [call EXCEPT !.op = op]
         IN  /\ c \in DriveCommands
             /\ c.op = op /\ c.lba = call.lba /\ c.data = call.data /\ c.lba \in Sectors
BY DEF AtaInv, DriverTyped, Transfers, DriveCommands

LEMMA WriteSectorStep == AtaInv /\ WriteSector => AtaInv'
<1> SUFFICES ASSUME AtaInv, WriteSector PROVE AtaInv'
  OBVIOUS
<1>1. /\ pc = "data" /\ call.op = "write" /\ pc' = "written"
      /\ UNCHANGED <<present, call, abandoned, cache, platter, rejected>>
      /\ \/ /\ command.op = "write" /\ status' = "BSY"
            /\ command' = [command EXCEPT !.op = "store", !.data = call.data]
         \/ command.op # "write" /\ UNCHANGED <<status, command>>
  BY DEF WriteSector
<1>2. command' \in DriveCommands
      /\ (command'.op # "identify" => command'.lba \in Sectors)
  BY <1>1 DEF AtaInv, DriverTyped, Transfers, DriveCommands
<1>3. DriverTyped'
  BY <1>1, <1>2 DEF AtaInv, DriverTyped
<1>4. ASSUME ~abandoned, ~rejected PROVE status' = "BSY" /\ command' = [call EXCEPT !.op = "store"]
  <2>1. command = call
    BY <1>1, <1>4 DEF AtaInv, InStep
  <2>2. [call EXCEPT !.op = "store", !.data = call.data] = [call EXCEPT !.op = "store"]
    BY DEF AtaInv, DriverTyped, Transfers
  <2> QED
    BY <1>1, <2>1, <2>2
<1>5. InStep'
  BY <1>1, <1>4 DEF AtaInv, InStep
<1> QED
  BY <1>3, <1>5 DEF AtaInv

LEMMA SendFlushStep == AtaInv /\ SendFlush => AtaInv'
<1> SUFFICES ASSUME AtaInv, SendFlush PROVE AtaInv'
  OBVIOUS
<1> DEFINE flush == [call EXCEPT !.op = "flush"]
<1>1. /\ pc = "written" /\ status # "BSY" /\ pc' = "flushed"
      /\ \/ status = "DRQ" /\ UNCHANGED <<status, command>>
         \/ status # "DRQ" /\ status' = "BSY" /\ command' = flush
      /\ UNCHANGED <<present, call, abandoned, cache, platter, rejected>>
  BY DEF SendFlush, Issue
<1>2. flush \in DriveCommands
  BY DEF AtaInv, DriverTyped, Transfers, DriveCommands
<1>4. ~abandoned /\ ~rejected => /\ status = "ready" /\ cache[call.lba] = call.data
                                 /\ call.op = "write" /\ present
  BY <1>1 DEF AtaInv, InStep, DriverTyped
<1>3. DriverTyped'
  <2>1. command' = command \/ command' = flush
    BY <1>1
  <2>2. flush.lba = call.lba /\ flush.op = "flush"
    BY DEF AtaInv, DriverTyped, Transfers
  <2>3. call.op # "identify" => flush.lba \in Sectors
    BY <2>2 DEF AtaInv, DriverTyped
  <2> HIDE DEF flush
  <2>4. command' \in DriveCommands
    BY <1>2, <2>1 DEF AtaInv, DriverTyped
  <2>5. command'.op # "identify" => command'.lba \in Sectors
    BY <1>1, <2>1, <2>3 DEF AtaInv, DriverTyped
  <2> QED
    BY <1>1, <2>4, <2>5 DEF AtaInv, DriverTyped
<1>5. InStep'
  BY <1>1, <1>4 DEF InStep
<1> QED
  BY <1>3, <1>5 DEF AtaInv

LEMMA FlushedStep == AtaInv /\ Flushed => AtaInv'
<1> SUFFICES ASSUME AtaInv, Flushed PROVE AtaInv'
  OBVIOUS
<1>1. /\ pc = "flushed" /\ status # "BSY" /\ Return(TRUE)
      /\ UNCHANGED <<present, abandoned, status, command, cache, platter, rejected>>
  BY DEF Flushed, drive
<1>2. DriverTyped'
  BY <1>1, Answered DEF AtaInv, DriverTyped
<1>3. InStep'
  <2>1. pc' = "out" /\ call'.op = call.op /\ call'.lba = call.lba /\ call'.data = call.data
    BY <1>1, Answered
  <2>2. present /\ call.op = "write"
    BY <1>1 DEF AtaInv, DriverTyped
  <2>3. ~abandoned /\ ~rejected =>
          cache[call.lba] = call.data /\ status = "ready" /\ cache = platter
    BY <1>1 DEF AtaInv, InStep
  <2> QED
    BY <1>1, <2>1, <2>2, <2>3 DEF InStep
<1> QED
  BY <1>2, <1>3 DEF AtaInv

(* While it works on what it was told, the drive comes to the states the   *)
(* driver waits for; a failure past the data sets rejected.                *)
LEMMA DriveStep == AtaInv /\ DriveNext => AtaInv'
<1> SUFFICES ASSUME AtaInv, DriveNext PROVE AtaInv'
  OBVIOUS
<1>0. UNCHANGED <<present, pc, call, abandoned>> /\ status = "BSY"
  BY DEF DriveNext, driver, DriveAsks, DriveStores, DriveFlushes, DriveFails
<1>1. CASE DriveAsks
  <2>1. /\ command.op \in {"identify", "read", "write"} /\ status' = "DRQ"
        /\ UNCHANGED <<command, cache, platter, rejected>>
    BY <1>1 DEF DriveAsks
  <2>2. DriverTyped'
    BY <1>0, <2>1 DEF AtaInv, DriverTyped
  <2>3. ~abandoned /\ ~rejected => pc \notin {"written", "flushed"}
    <3>1. ~abandoned /\ ~rejected /\ pc = "written" => command.op = "store"
      BY <1>0 DEF AtaInv, InStep, DriverTyped, Transfers
    <3>2. ~abandoned /\ ~rejected /\ pc = "flushed" => command.op = "flush"
      BY <1>0 DEF AtaInv, InStep, DriverTyped, Transfers
    <3> QED
      BY <2>1, <3>1, <3>2
  <2>4. InStep'
    BY <1>0, <2>1, <2>3 DEF AtaInv, InStep
  <2> QED
    BY <2>2, <2>4 DEF AtaInv
<1>2. CASE DriveStores
  <2>1. /\ command.op = "store" /\ status' = "ready"
        /\ cache' = [cache EXCEPT ![command.lba] = command.data]
        /\ UNCHANGED <<command, platter, rejected>>
    BY <1>2 DEF DriveStores
  <2>0. cache' \in [Sectors -> Sector \union {Blank}]
    BY <2>1 DEF AtaInv, DriverTyped, DriveCommands
  <2>2. DriverTyped'
    <3>1. UNCHANGED <<command, platter, rejected>>
      BY <2>1
    <3> QED
      BY <1>0, <2>0, <3>1 DEF AtaInv, DriverTyped
  <2>3. ASSUME ~abandoned, ~rejected
        PROVE  pc \in {"out", "written"} /\ (pc = "out" => ~present)
    <3>1. pc \in {"identify", "out", "not busy", "data", "written", "flushed"} /\ call.op # "store"
      BY DEF AtaInv, DriverTyped, Transfers
    <3>2. pc = "flushed" => command.op = "flush"
      BY <1>0, <2>3 DEF AtaInv, InStep, DriverTyped, Transfers
    <3> QED
      BY <1>0, <2>1, <2>3, <3>1, <3>2 DEF AtaInv, InStep
  <2>4. ASSUME ~abandoned, ~rejected, pc = "written"
        PROVE  cache'[call.lba] = call.data /\ call.op = "write" /\ present
    <3>1. command = [call EXCEPT !.op = "store"] /\ call.op = "write" /\ present
      BY <1>0, <2>4 DEF AtaInv, InStep, DriverTyped
    <3>2. command.lba = call.lba /\ command.data = call.data /\ call.lba \in Sectors
      BY <3>1 DEF AtaInv, DriverTyped, Transfers
    <3> QED
      BY <2>1, <3>1, <3>2 DEF AtaInv, DriverTyped
  <2>5. ~abandoned /\ ~rejected => pc # "out"
    BY <2>1, <2>3 DEF AtaInv, InStep
  <2>6. InStep'
    BY <1>0, <2>1, <2>3, <2>4, <2>5 DEF InStep
  <2> QED
    BY <2>2, <2>6 DEF AtaInv
<1>3. CASE DriveFlushes
  <2>1. /\ command.op = "flush" /\ status' = "ready" /\ platter' = cache
        /\ UNCHANGED <<command, cache, rejected>>
    BY <1>3 DEF DriveFlushes
  <2>2. DriverTyped'
    BY <1>0, <2>1 DEF AtaInv, DriverTyped
  <2>3. ASSUME ~abandoned, ~rejected PROVE pc = "flushed"
    <3>1. pc \in {"identify", "out", "not busy", "data", "written", "flushed"} /\ call.op # "flush"
      BY DEF AtaInv, DriverTyped, Transfers
    <3>2. pc = "written" => command.op = "store"
      BY <1>0, <2>3 DEF AtaInv, InStep, DriverTyped, Transfers
    <3> QED
      BY <1>0, <2>1, <2>3, <3>1, <3>2 DEF AtaInv, InStep
  <2>4. InStep'
    BY <1>0, <2>1, <2>3 DEF AtaInv, InStep
  <2> QED
    BY <2>2, <2>4 DEF AtaInv
<1>4. CASE DriveFails
  <2>1. /\ status' = "ERR" /\ UNCHANGED <<command, cache, platter>>
        /\ rejected' = (rejected \/ command.op \in {"store", "flush"})
    BY <1>4 DEF DriveFails
  <2>2. rejected' \in BOOLEAN
    BY <2>1 DEF AtaInv, DriverTyped
  <2>3. DriverTyped'
    <3>1. UNCHANGED <<command, cache, platter>>
      BY <2>1
    <3> QED
      BY <1>0, <2>2, <3>1 DEF AtaInv, DriverTyped
  <2>4. ASSUME ~abandoned, ~rejected' PROVE pc \notin {"written", "flushed"}
    <3>1. ~rejected /\ command.op \notin {"store", "flush"}
      BY <2>1, <2>4
    <3>2. pc = "written" => command.op = "store"
      BY <1>0, <2>4, <3>1 DEF AtaInv, InStep, DriverTyped, Transfers
    <3>3. pc = "flushed" => command.op = "flush"
      BY <1>0, <2>4, <3>1 DEF AtaInv, InStep, DriverTyped, Transfers
    <3> QED
      BY <3>1, <3>2, <3>3
  <2>5. InStep'
    BY <1>0, <2>1, <2>4 DEF AtaInv, InStep
  <2> QED
    BY <2>3, <2>5 DEF AtaInv
<1> QED
  BY <1>1, <1>2, <1>3, <1>4 DEF DriveNext

LEMMA AtaInductive == AtaSpec => []AtaInv
<1>1. AtaInv /\ [AtaNext]_ataVars => AtaInv'
  <2> SUFFICES ASSUME AtaInv, [AtaNext]_ataVars PROVE AtaInv'
    OBVIOUS
  <2>1. ASSUME NEW c \in Calls, Refused(c) \/ Begin(c) PROVE AtaInv'
    BY <2>1, CalledStep
  <2>2. CASE UNCHANGED ataVars
    <3>1. DriverTyped'
      BY <2>2 DEF ataVars, AtaInv, DriverTyped
    <3>2. InStep'
      BY <2>2 DEF ataVars, AtaInv, InStep
    <3> QED
      BY <3>1, <3>2 DEF AtaInv
  <2> QED
    BY <2>1, <2>2, GivesUpStep, IdentifiedStep, SendCommandStep, ReadSectorStep, WriteSectorStep,
       SendFlushStep, FlushedStep, DriveStep DEF AtaNext, DriverNext
<1> QED
  BY AtaInitInv, <1>1, PTL DEF AtaSpec

(* What ata_read and ata_write report done has been done, on the medium,   *)
(* for any number of sectors, as long as no wait gave up on the drive and  *)
(* it did not fail a write after it had the data.                          *)
THEOREM TransfersAreDone == AtaSpec => []TrueMeansDone
<1>1. AtaInv => TrueMeansDone
  BY DEF AtaInv, InStep, TrueMeansDone
<1> QED
  BY <1>1, AtaInductive, PTL

(* The PCI scan.                                                           *)

\* What the scan has passed, of what there is
Passed(sp, n) == {a \in Addresses : a[3] \in sp[<<a[1], a[2]>>].functions /\ (n = Done \/ Before(a, n))}

\* The list has the functions passed, in order, as many as it can hold.
Lists(list, passed) ==
  /\ list \in Seq(Addresses)
  /\ Len(list) = IF Cardinality(passed) < MaxDevices THEN Cardinality(passed) ELSE MaxDevices
  /\ \A i \in DOMAIN list : /\ list[i] \in passed
                            /\ Cardinality({a \in passed : Before(a, list[i])}) = i - 1

\* Past function 0 the scan is in a device with the multi-function bit set.
Scanning == /\ space \in [(0..LastBus) \X (0..LastDevice) -> Devices]
            /\ next \in Addresses \union {Done}
            /\ next # Done /\ next[3] # 0 => In(next).multi

PciInv == Scanning /\ Lists(pci_devices, Passed(space, next))

LEMMA FinitelyManyAddresses ==
  ASSUME NEW S \in SUBSET Addresses
  PROVE  IsFiniteSet(S)
<1> DEFINE pairs == (0..LastBus) \X (0..LastDevice)
           flat == [p \in pairs \X Functions |-> <<p[1][1], p[1][2], p[2]>>]
<1>1. IsFiniteSet(0..LastBus) /\ IsFiniteSet(0..LastDevice) /\ IsFiniteSet(Functions)
  BY ScanAssumption, FS_Interval DEF Functions
<1>2. IsFiniteSet(pairs \X Functions)
  <2>1. IsFiniteSet(pairs)
    BY <1>1, FS_Product
  <2> HIDE DEF pairs
  <2> QED
    BY <1>1, <2>1, FS_Product
<1>3. flat \in Surjection(pairs \X Functions, Addresses)
  <2>1. flat \in [pairs \X Functions -> Addresses]
    BY DEF Addresses
  <2>2. ASSUME NEW a \in Addresses PROVE \E p \in pairs \X Functions : flat[p] = a
    <3>1. PICK b \in 0..LastBus, d \in 0..LastDevice, f \in Functions : a = <<b, d, f>>
      BY DEF Addresses
    <3>2. <<<<b, d>>, f>> \in pairs \X Functions /\ flat[<<<<b, d>>, f>>] = a
      BY <3>1
    <3> QED
      BY <3>2
  <2> QED
    BY <2>1, <2>2 DEF Surjection
<1>4. IsFiniteSet(Addresses)
  <2> HIDE DEF flat, pairs
  <2> QED
    BY <1>2, <1>3, FS_Surjection
<1> QED
  BY <1>4, FS_Subset

(* The order of addresses is one. *)
LEMMA InOrder ==
  /\ \A a \in Addresses : ~Before(a, a)
  /\ \A a, b \in Addresses : a # b => Before(a, b) \/ Before(b, a)
  /\ \A a, b \in Addresses : Before(a, b) => ~Before(b, a)
  /\ \A a, b, c \in Addresses : Before(a, b) /\ Before(b, c) => Before(a, c)
<1>1. \A a \in Addresses : /\ a = <<a[1], a[2], a[3]>>
                           /\ a[1] \in Nat /\ a[2] \in Nat /\ a[3] \in Nat
  BY ScanAssumption DEF Addresses, Functions
<1>2. \A a, b \in Addresses : a[1] = b[1] /\ a[2] = b[2] /\ a[3] = b[3] => a = b
  BY <1>1
<1>3. \A a \in Addresses : ~Before(a, a)
  BY <1>1 DEF Before
<1>4. \A a, b \in Addresses : a # b => Before(a, b) \/ Before(b, a)
  BY <1>1, <1>2 DEF Before
<1>5. \A a, b \in Addresses : Before(a, b) => ~Before(b, a)
  BY <1>1 DEF Before
<1>6. \A a, b, c \in Addresses : Before(a, b) /\ Before(b, c) => Before(a, c)
  BY <1>1 DEF Before
<1> QED
  BY <1>3, <1>4, <1>5, <1>6

(* What the loops step over is not there: what answers exists, and a       *)
(* device whose functions 1-7 are not looked at has none.                  *)
LEMMA NothingIsSkipped ==
  ASSUME Scanning, next # Done
  PROVE  /\ Answers(next) <=> Exists(next)
         /\ After(next) \in Addresses \union {Done}
         /\ After(next) # Done /\ After(next)[3] # 0 => In(After(next)).multi
         /\ Passed(space, After(next)) =
              Passed(space, next) \union (IF Exists(next) THEN {next} ELSE {})
<1>1. PICK b \in 0..LastBus, d \in 0..LastDevice, f \in Functions : next = <<b, d, f>>
  BY DEF Scanning, Addresses
<1>2. PICK dev \in Devices : dev = space[<<b, d>>]
  BY DEF Scanning
<1>3. /\ dev.functions \subseteq Functions
      /\ ~dev.decodes => dev.functions = {0}
      /\ 0 \notin dev.functions => dev.functions = {}
      /\ ~dev.multi => dev.functions \subseteq {0}
      /\ dev.multi => dev.decodes
  <2>1. 0 \in Functions
    BY ScanAssumption DEF Functions
  <2>2. CASE dev \in {Device({}, FALSE, TRUE), Device({0}, FALSE, TRUE), Device({0}, FALSE, FALSE)}
    BY <2>1, <2>2 DEF Device
  <2>3. ASSUME NEW fs \in SUBSET Functions, 0 \in fs, dev = Device(fs, TRUE, TRUE)
        PROVE  dev.functions = fs /\ dev.multi /\ dev.decodes
    BY <2>3 DEF Device
  <2> QED
    BY <2>2, <2>3 DEF Devices
<1>4. f # 0 => dev.multi
  BY <1>1, <1>2 DEF Scanning, In
<1>5. /\ LastBus \in Nat /\ LastDevice \in Nat /\ LastFunction \in Nat
      /\ b \in Nat /\ d \in Nat /\ f \in Nat /\ b <= LastBus /\ d <= LastDevice /\ f <= LastFunction
  BY ScanAssumption DEF Functions
<1>6. /\ Exists(next) <=> f \in dev.functions
      /\ Answers(next) <=> f \in dev.functions
      /\ In(next).multi = dev.multi
  <2>1. next[1] = b /\ next[2] = d /\ next[3] = f
    BY <1>1
  <2> QED
    BY <1>2, <1>3, <1>4, <2>1 DEF Exists, Answers, In
<1>7. PICK more : more = (f # LastFunction /\ (f = 0 => f \in dev.functions /\ dev.multi))
  OBVIOUS
<1>8. After(next) = IF more THEN <<b, d, f + 1>>
                    ELSE IF d < LastDevice THEN <<b, d + 1, 0>>
                    ELSE IF b < LastBus THEN <<b + 1, 0, 0>> ELSE Done
  BY <1>1, <1>6, <1>7 DEF After, DeviceAfter
<1>9. After(next) \in Addresses \union {Done}
  <2>1. CASE more
    <3>1. f + 1 \in Functions
      <4>1. f # LastFunction
        BY <1>7, <2>1
      <4> QED
        BY <1>5, <4>1 DEF Functions
    <3> QED
      BY <1>1, <1>8, <2>1, <3>1 DEF Addresses
  <2>2. CASE ~more
    <3>1. 0 \in Functions /\ 0 \in 0..LastDevice
      BY <1>5 DEF Functions
    <3>2. d < LastDevice => d + 1 \in 0..LastDevice
      BY <1>5
    <3>3. b < LastBus => b + 1 \in 0..LastBus
      BY <1>5
    <3> QED
      BY <1>1, <1>8, <2>2, <3>1, <3>2, <3>3 DEF Addresses
  <2> QED
    BY <2>1, <2>2
<1>10. ASSUME After(next) # Done, After(next)[3] # 0 PROVE In(After(next)).multi
  <2>1. more
    BY <1>8, <1>10
  <2>2. dev.multi
    BY <1>4, <1>7, <2>1
  <2> QED
    BY <1>2, <1>8, <2>1, <2>2 DEF In
<1>11. ASSUME NEW a \in Addresses, a[3] \in space[<<a[1], a[2]>>].functions
       PROVE  (After(next) = Done \/ Before(a, After(next))) <=> (Before(a, next) \/ a = next)
  <2>1. PICK b2 \in 0..LastBus, d2 \in 0..LastDevice, f2 \in Functions : a = <<b2, d2, f2>>
    BY DEF Addresses
  <2>2. b2 \in Nat /\ d2 \in Nat /\ f2 \in Nat /\ b2 <= LastBus /\ d2 <= LastDevice /\ f2 <= LastFunction
    BY <1>5, <2>1 DEF Functions
  <2>3. a[1] = b2 /\ a[2] = d2 /\ a[3] = f2
    BY <2>1
  <2>4. ~more /\ b2 = b /\ d2 = d => f2 <= f
    <3>1. b2 = b /\ d2 = d => f2 \in dev.functions
      BY <1>2, <1>11, <2>3
    <3>2. ~more => f = LastFunction \/ (f = 0 /\ ~(f \in dev.functions /\ dev.multi))
      BY <1>7
    <3>3. f = 0 /\ ~(f \in dev.functions /\ dev.multi) => dev.functions \subseteq {0}
      BY <1>3
    <3> QED
      BY <1>5, <2>2, <3>1, <3>2, <3>3
  <2>5. Before(a, next) \/ a = next <=>
          b2 < b \/ (b2 = b /\ (d2 < d \/ (d2 = d /\ f2 <= f)))
    BY <1>1, <1>5, <2>1, <2>2, <2>3 DEF Before
  <2>6. CASE more
    <3>1. After(next) = <<b, d, f + 1>> /\ After(next) # Done
      BY <1>8, <2>6 DEF Done
    <3>2. Before(a, After(next)) <=> b2 < b \/ (b2 = b /\ (d2 < d \/ (d2 = d /\ f2 < f + 1)))
      BY <2>3, <3>1 DEF Before
    <3> QED
      BY <1>5, <2>2, <2>5, <3>1, <3>2
  <2>7. CASE ~more /\ d < LastDevice
    <3>1. After(next) = <<b, d + 1, 0>> /\ After(next) # Done
      BY <1>8, <2>7 DEF Done
    <3>2. Before(a, After(next)) <=> b2 < b \/ (b2 = b /\ (d2 < d + 1 \/ (d2 = d + 1 /\ f2 < 0)))
      BY <2>3, <3>1 DEF Before
    <3> QED
      BY <1>5, <2>2, <2>4, <2>5, <2>7, <3>1, <3>2
  <2>8. CASE ~more /\ ~(d < LastDevice) /\ b < LastBus
    <3>1. After(next) = <<b + 1, 0, 0>> /\ After(next) # Done
      BY <1>8, <2>8 DEF Done
    <3>2. Before(a, After(next)) <=> b2 < b + 1 \/ (b2 = b + 1 /\ (d2 < 0 \/ (d2 = 0 /\ f2 < 0)))
      BY <2>3, <3>1 DEF Before
    <3> QED
      BY <1>5, <2>2, <2>4, <2>5, <2>8, <3>1, <3>2
  <2>9. CASE ~more /\ ~(d < LastDevice) /\ ~(b < LastBus)
    <3>1. After(next) = Done
      BY <1>8, <2>9
    <3> QED
      BY <1>5, <2>2, <2>4, <2>5, <2>9, <3>1
  <2> QED
    BY <2>6, <2>7, <2>8, <2>9
<1>12. next \in Addresses /\ (Exists(next) <=> next[3] \in space[<<next[1], next[2]>>].functions)
  BY DEF Scanning, Exists, In
<1>13. Passed(space, After(next)) =
         Passed(space, next) \union (IF Exists(next) THEN {next} ELSE {})
  BY <1>11, <1>12 DEF Passed
<1> QED
  BY <1>3, <1>6, <1>9, <1>10, <1>13

(* A list takes the next function, if it has room, and keeps the others'   *)
(* places.                                                                 *)
LEMMA ListsNext ==
  ASSUME NEW P \in SUBSET Addresses, NEW list, Lists(list, P),
         NEW a \in Addresses, \A p \in P : Before(p, a),
         NEW list2, list2 = IF Len(list) < MaxDevices THEN Append(list, a) ELSE list
  PROVE  Lists(list2, P \union {a})
<1>1. PICK n : n = Cardinality(P)
  OBVIOUS
<1>2. n \in Nat /\ MaxDevices \in Nat /\ Cardinality(P \union {a}) = n + 1
  <2>1. IsFiniteSet(P) /\ a \notin P
    BY FinitelyManyAddresses, InOrder
  <2> QED
    BY <1>1, <2>1, ScanAssumption, FS_AddElement, FS_CardinalityType
<1>3. /\ list \in Seq(Addresses) /\ Len(list) = IF n < MaxDevices THEN n ELSE MaxDevices
      /\ \A i \in DOMAIN list : /\ list[i] \in P
                                /\ Cardinality({p \in P : Before(p, list[i])}) = i - 1
  BY <1>1 DEF Lists
<1>4. \A i \in DOMAIN list : {p \in P \union {a} : Before(p, list[i])} = {p \in P : Before(p, list[i])}
  <2> SUFFICES ASSUME NEW i \in DOMAIN list PROVE ~Before(a, list[i])
    OBVIOUS
  <2> QED
    BY <1>3, InOrder
<1>5. {p \in P \union {a} : Before(p, a)} = P
  BY InOrder
<1>6. CASE Len(list) < MaxDevices
  <2>1. list2 = Append(list, a) /\ Len(list) = n
    BY <1>2, <1>3, <1>6
  <2>2. list2 \in Seq(Addresses) /\ Len(list2) = n + 1 /\ DOMAIN list2 = 1..(n + 1) /\ DOMAIN list = 1..n
        /\ list2[n + 1] = a /\ \A i \in 1..n : list2[i] = list[i]
    BY <1>3, <2>1
  <2>3. ASSUME NEW i \in DOMAIN list2
        PROVE  /\ list2[i] \in P \union {a}
               /\ Cardinality({p \in P \union {a} : Before(p, list2[i])}) = i - 1
    <3>1. CASE i \in 1..n
      BY <1>3, <1>4, <2>2, <3>1
    <3>2. CASE i = n + 1
      <4>1. list2[i] = a /\ i - 1 = n
        BY <1>2, <2>2, <3>2
      <4> QED
        BY <1>1, <1>5, <4>1
    <3>3. i \in 1..(n + 1)
      BY <2>2
    <3>4. i \in 1..n \/ i = n + 1
      BY <1>2, <3>3
    <3> QED
      BY <3>1, <3>2, <3>4
  <2>4. Len(list2) = IF n + 1 < MaxDevices THEN n + 1 ELSE MaxDevices
    BY <1>2, <1>3, <1>6, <2>1, <2>2
  <2> QED
    BY <1>2, <2>2, <2>3, <2>4 DEF Lists
<1>7. CASE ~(Len(list) < MaxDevices)
  <2>1. list2 = list /\ Len(list) = IF n + 1 < MaxDevices THEN n + 1 ELSE MaxDevices
    BY <1>2, <1>3, <1>7
  <2> QED
    BY <1>2, <1>3, <1>4, <2>1 DEF Lists
<1> QED
  BY <1>6, <1>7

LEMMA PciInductive == PciSpec => []PciInv
<1>1. PciInit => PciInv
  <2> SUFFICES ASSUME PciInit PROVE PciInv
    OBVIOUS
  <2>1. next = <<0, 0, 0>> /\ next # Done /\ next[1] = 0 /\ next[2] = 0 /\ next[3] = 0
    BY DEF PciInit, Done
  <2>2. Scanning
    BY <2>1, ScanAssumption DEF PciInit, Scanning, Addresses, Functions
  <2>3. \A a \in Addresses : a[1] \in Nat /\ a[2] \in Nat /\ a[3] \in Nat
    BY ScanAssumption DEF Addresses, Functions
  <2>4. Passed(space, next) = {}
    BY <2>1, <2>3 DEF Passed, Before
  <2>5. Lists(<<>>, {})
    BY ScanAssumption, FS_EmptySet DEF Lists
  <2> QED
    BY <2>2, <2>4, <2>5 DEF PciInit, PciInv
<1>2. PciInv /\ [PciNext]_pciVars => PciInv'
  <2> SUFFICES ASSUME PciInv, [PciNext]_pciVars PROVE PciInv'
    OBVIOUS
  <2>1. CASE PciNext
    <3>1. Scanning /\ next # Done /\ space' = space /\ next' = After(next) /\ next \in Addresses
      BY <2>1 DEF PciInv, PciNext, Scanning
    <3>2. Scanning'
      BY <3>1, NothingIsSkipped DEF Scanning, In
    <3>3. PICK P, P2, list2 : P = Passed(space, next) /\ P2 = Passed(space, After(next))
                              /\ list2 = pci_devices'
      OBVIOUS
    <3>4. P \in SUBSET Addresses /\ Lists(pci_devices, P) /\ \A p \in P : Before(p, next)
      BY <3>1, <3>3 DEF PciInv, Passed
    <3>5. CASE Exists(next)
      <4>1. Answers(next) /\ P2 = P \union {next}
        BY <3>1, <3>3, <3>5, NothingIsSkipped
      <4>2. list2 = IF Len(pci_devices) < MaxDevices THEN Append(pci_devices, next) ELSE pci_devices
        BY <2>1, <3>3, <4>1 DEF PciNext, ScanFunction
      <4>3. Lists(list2, P2)
        BY <3>1, <3>4, <4>1, <4>2, ListsNext
      <4> QED
        BY <3>1, <3>2, <3>3, <4>3 DEF PciInv
    <3>6. CASE ~Exists(next)
      <4>1. ~Answers(next) /\ P2 = P
        BY <3>1, <3>3, <3>6, NothingIsSkipped
      <4>2. list2 = pci_devices
        BY <2>1, <3>3, <4>1 DEF PciNext, ScanFunction
      <4> QED
        BY <3>1, <3>2, <3>3, <3>4, <4>1, <4>2 DEF PciInv
    <3> QED
      BY <3>5, <3>6
  <2>2. CASE UNCHANGED pciVars
    BY <2>2 DEF pciVars, PciInv, Scanning, In
  <2> QED
    BY <2>1, <2>2
<1> QED
  BY <1>1, <1>2, PTL DEF PciSpec

(* The list lspci prints has every function there is once, in the order of *)
(* addresses, or, when it is full, the first of them, whatever devices     *)
(* answer to numbers they do not have (pci_scan_bus).                      *)
THEOREM TheBusIsListed == PciSpec => []EachFunctionOnce
<1>1. PciInv => EachFunctionOnce
  <2> SUFFICES ASSUME PciInv PROVE EachFunctionOnce
    OBVIOUS
  <2>1. Passed(space, next) = {a \in Addresses : Exists(a) /\ (next = Done \/ Before(a, next))}
    BY DEF Passed, Exists, In
  <2> QED
    BY <2>1 DEF PciInv, Lists, EachFunctionOnce
<1> QED
  BY <1>1, PciInductive, PTL

-----------------------------------------------------------------------------
(* The character screens.                                                  *)

Marks == Glyphs \union {" "}

\* A screen whose cursor is on it, or behind the last cell of its row
Screens == [cells : [0..(Rows - 1) -> [0..(Cols - 1) -> Marks]], row : 0..(Rows - 1),
            col : 0..Cols, stores : {"inside"}]

Mark(i, l, c) == IF <<l, c>> \in DOMAIN i THEN i[<<l, c>>] ELSE " "

\* The screen s is the end of the roll whose marks are i and last line l.
EndOfRoll(s, i, l) ==
  /\ l \in Nat
  /\ DOMAIN i \subseteq (0..l) \X (0..(Cols - 1))
  /\ s.row = IF l < Rows THEN l ELSE Rows - 1
  /\ \A r \in 0..(Rows - 1), c \in 0..(Cols - 1) : s.cells[r][c] = Mark(i, l - s.row + r, c)

\* A glyph is stored and the cursor moved.
Put(s, c, g, d) == [GlyphStored(s, c, g) EXCEPT !.col = d]

\* What is left to do for the main loop inside gui_term_putc, and the screen
\* when it has done it
StoredAt(s, c) == Put(s, c, char, c + 1)
Ended(s) == IF char = "newline" THEN s ELSE StoredAt(s, s.col)
Finished ==
  CASE term_pc = "newline" -> Ended(Newline(screen))
    [] term_pc = "scroll"  -> Ended(Fit(screen))
    [] term_pc = "reload"  -> StoredAt(screen, screen.col)
    [] term_pc = "store"   -> StoredAt(screen, column)
    [] OTHER               -> screen

Places == /\ term_pc \in {"out", "newline", "scroll", "reload", "store"}
          /\ term_pc # "out" => g_redirect_to_gui /\ char \in Glyphs \union {"newline"}
          /\ term_pc \in {"reload", "store"} => char # "newline"
          /\ term_pc = "reload" => screen.col = 0
          /\ term_pc = "store" => column \in 0..(Cols - 1)
          /\ IF term_pc = "scroll" THEN Fit(screen) \in Screens /\ Fit(screen).col = 0
             ELSE screen \in Screens
          /\ ~g_redirect_to_gui => screen.col < Cols

TermInv == /\ overlap \in {"none", "store", "newline"}
           /\ g_redirect_to_gui \in BOOLEAN
           /\ overlap # "newline" => Places /\ screen.stores = "inside"
           /\ overlap = "none" => EndOfRoll(Finished, ink, line)

(* The sizes, from TerminalAssumption.                                     *)
LEMMA ScreenSizes == Rows \in Nat /\ Rows > 0 /\ Cols \in Nat /\ Cols > 0 /\ TabStop \in Nat /\ TabStop > 0
  BY TerminalAssumption

\* A screen whose cursor may be anywhere
Loose == [cells : [0..(Rows - 1) -> [0..(Cols - 1) -> Marks]], row : Nat, col : Nat, stores : {"inside", "outside"}]

(* A screen by the limits on its cursor.                                   *)
LEMMA ScreenIs ==
  \A s : s \in Screens <=> s \in Loose /\ s.row < Rows /\ s.col <= Cols /\ s.stores = "inside"
<1>1. ASSUME NEW s \in Screens PROVE s \in Loose /\ s.row < Rows /\ s.col <= Cols /\ s.stores = "inside"
  BY ScreenSizes DEF Screens, Loose
<1>2. ASSUME NEW s \in Loose, s.row < Rows, s.col <= Cols, s.stores = "inside" PROVE s \in Screens
  <2>1. s.row \in 0..(Rows - 1) /\ s.col \in 0..Cols /\ s.stores \in {"inside"}
    BY <1>2, ScreenSizes DEF Loose
  <2> QED
    BY <2>1 DEF Screens, Loose
<1> QED
  BY <1>1, <1>2

\* t is s but for a glyph in some cells of the row of the cursor, and the cursor.
Changed(t, s, C, g, d) ==
  /\ t \in Screens /\ t.row = s.row /\ t.col = d
  /\ \A r \in 0..(Rows - 1), k \in 0..(Cols - 1) :
        t.cells[r][k] = IF r = s.row /\ k \in C THEN g ELSE s.cells[r][k]

(* A glyph stored inside the row changes that cell and the cursor.         *)
LEMMA PutIs ==
  ASSUME NEW s \in Screens, NEW c \in 0..(Cols - 1), NEW g \in Marks, NEW d \in 0..Cols
  PROVE  Changed(Put(s, c, g, d), s, {c}, g, d)
<1> DEFINE t == Put(s, c, g, d)
<1>1. s \in Loose /\ s.row < Rows /\ c < Cols /\ s.row \in 0..(Rows - 1) /\ s.stores = "inside"
  BY ScreenSizes, ScreenIs DEF Loose
<1>2. PICK cells : cells = [s.cells EXCEPT ![s.row] = [@ EXCEPT ![c] = g]]
  OBVIOUS
<1>3. s.cells \in [0..(Rows - 1) -> [0..(Cols - 1) -> Marks]]
  BY DEF Screens
<1>4. /\ cells \in [0..(Rows - 1) -> [0..(Cols - 1) -> Marks]]
      /\ \A r \in 0..(Rows - 1), k \in 0..(Cols - 1) :
              cells[r][k] = IF r = s.row /\ k = c THEN g ELSE s.cells[r][k]
  BY <1>1, <1>2, <1>3
<1>5. PICK u : u = [s EXCEPT !.cells = cells]
  OBVIOUS
<1>6. GlyphStored(s, c, g) = u
  BY <1>1, <1>2, <1>5 DEF GlyphStored
<1>7. u \in Loose /\ u.cells = cells /\ u.row = s.row /\ u.stores = "inside"
  BY <1>1, <1>4, <1>5 DEF Loose
<1>8. t \in Loose /\ t.cells = cells /\ t.row = s.row /\ t.col = d /\ t.stores = "inside"
  <2>1. t = [u EXCEPT !.col = d] /\ d \in Nat /\ u.row \in Nat
    BY <1>1, <1>6, <1>7, ScreenSizes DEF Loose, Put
  <2> QED
    BY <1>7, <2>1 DEF Loose
<1>9. t \in Screens
  <2>1. t.row < Rows /\ t.col <= Cols
    BY <1>1, <1>8, ScreenSizes
  <2> QED
    BY <1>8, <2>1, ScreenIs
<1> HIDE DEF t
<1>10. Changed(t, s, {c}, g, d)
  BY <1>4, <1>8, <1>9 DEF Changed
<1> QED
  BY <1>10 DEF t

\* The roll i2 is i but for the mark g in the places C of its last line l.
InkedAlike(i2, i, l, C, g) ==
  /\ DOMAIN i2 \subseteq (0..l) \X (0..(Cols - 1))
  /\ \A m \in 0..l, k \in 0..(Cols - 1) :
        Mark(i2, m, k) = IF m = l /\ k \in C THEN g ELSE Mark(i, m, k)

(* A screen and a roll changed alike in the last line still agree.         *)
LEMMA ChangedAlike ==
  ASSUME NEW s \in Screens, NEW t, NEW C, NEW g, NEW d, Changed(t, s, C, g, d),
         NEW i, NEW l, EndOfRoll(s, i, l),
         NEW i2, InkedAlike(i2, i, l, C, g)
  PROVE  EndOfRoll(t, i2, l)
<1>0. /\ t.row = s.row
      /\ \A r \in 0..(Rows - 1), k \in 0..(Cols - 1) :
            t.cells[r][k] = IF r = s.row /\ k \in C THEN g ELSE s.cells[r][k]
  BY DEF Changed
<1>1. s.row \in Nat /\ s.row <= l /\ l \in Nat /\ s.row \in 0..(Rows - 1)
  BY ScreenSizes DEF Screens, EndOfRoll
<1>2. ASSUME NEW r \in 0..(Rows - 1), NEW k \in 0..(Cols - 1)
      PROVE  t.cells[r][k] = Mark(i2, l - t.row + r, k)
  <2>1. s.cells[r][k] = Mark(i, l - s.row + r, k)
    BY DEF EndOfRoll
  <2>2. l - s.row + r = l <=> r = s.row
    BY <1>1
  <2>3. CASE r <= s.row
    <3>1. l - s.row + r \in 0..l
      BY <1>1, <2>3
    <3> QED
      BY <1>0, <2>1, <2>2, <3>1 DEF InkedAlike
  <2>4. CASE ~(r <= s.row)
    <3>1. <<l - s.row + r, k>> \notin DOMAIN i /\ <<l - s.row + r, k>> \notin DOMAIN i2
      BY <1>1, <2>4 DEF EndOfRoll, InkedAlike
    <3>2. t.cells[r][k] = s.cells[r][k]
      BY <1>0, <1>1, <2>4
    <3>3. Mark(i, l - s.row + r, k) = " " /\ Mark(i2, l - s.row + r, k) = " "
      BY <3>1 DEF Mark
    <3> QED
      BY <1>0, <2>1, <3>2, <3>3
  <2> QED
    BY <1>1, <2>3, <2>4
<1> QED
  BY <1>0, <1>1, <1>2 DEF EndOfRoll, InkedAlike

(* The cursor may move in its row.                                         *)
LEMMA NothingChanged ==
  ASSUME NEW s, NEW t, NEW g, NEW d, Changed(t, s, {}, g, d), NEW i, NEW l, EndOfRoll(s, i, l)
  PROVE  EndOfRoll(t, i, l)
  BY DEF Changed, EndOfRoll

(* A new line is at the end of the screen and of the roll, with or         *)
(* without a scroll.                                                       *)
LEMMA NewlineIs ==
  ASSUME NEW s \in Screens, NEW t, t = Newline(s)
  PROVE  /\ t \in Screens /\ t.col = 0
         /\ \A i, l, m : EndOfRoll(s, i, l) /\ m = l + 1 => EndOfRoll(t, i, m)
<1>1. /\ s.cells \in [0..(Rows - 1) -> [0..(Cols - 1) -> Marks]]
      /\ s.row \in 0..(Rows - 1) /\ s.stores = "inside" /\ s \in Loose /\ s.row + 1 \in Nat
  BY ScreenIs DEF Screens, Loose
<1>2. PICK moved : moved = NextRow(s)
  OBVIOUS
<1>3. moved \in Loose /\ moved.cells = s.cells /\ moved.row = s.row + 1 /\ moved.col = 0 /\ moved.stores = "inside"
  BY <1>1, <1>2 DEF NextRow, Loose
<1>4. CASE s.row + 1 < Rows
  <2>1. t = moved
    BY <1>1, <1>2, <1>3, <1>4, ScreenSizes DEF Newline, Fit
  <2>2. t \in Screens /\ t.col = 0 /\ t.row = s.row + 1 /\ t.cells = s.cells
    BY <1>1, <1>3, <1>4, <2>1, ScreenIs, ScreenSizes
  <2>3. ASSUME NEW i, NEW l, NEW m, EndOfRoll(s, i, l), m = l + 1 PROVE EndOfRoll(t, i, m)
    <3>1. l \in Nat /\ s.row = l /\ l + 1 < Rows
      BY <1>1, <1>4, <2>3, ScreenSizes DEF EndOfRoll
    <3>2. m \in Nat /\ t.row = IF m < Rows THEN m ELSE Rows - 1
      BY <2>2, <2>3, <3>1
    <3>3. DOMAIN i \subseteq (0..m) \X (0..(Cols - 1))
      BY <2>3, <3>1, <3>2 DEF EndOfRoll
    <3>4. ASSUME NEW r \in 0..(Rows - 1), NEW k \in 0..(Cols - 1)
          PROVE  t.cells[r][k] = Mark(i, m - t.row + r, k)
      <4>1. m - t.row + r = l - s.row + r
        BY <2>2, <2>3, <3>1
      <4> QED
        BY <2>2, <2>3, <4>1 DEF EndOfRoll
    <3> QED
      BY <3>1, <3>2, <3>3, <3>4 DEF EndOfRoll
  <2> QED
    BY <2>2, <2>3
<1>5. CASE ~(s.row + 1 < Rows)
  <2>1. s.row + 1 = Rows
    BY <1>1, <1>5, ScreenSizes
  <2>2. PICK cells : cells = [r \in 0..(Rows - 1) |-> IF r = Rows - 1 THEN BlankRow ELSE s.cells[r + 1]]
    OBVIOUS
  <2>3. cells \in [0..(Rows - 1) -> [0..(Cols - 1) -> Marks]]
    <3>1. BlankRow \in [0..(Cols - 1) -> Marks]
      BY DEF BlankRow, Marks
    <3>2. \A r \in 0..(Rows - 1) : r # Rows - 1 => r + 1 \in 0..(Rows - 1)
      BY ScreenSizes
    <3> QED
      BY <1>1, <2>2, <3>1, <3>2
  <2>4. t = [moved EXCEPT !.row = Rows - 1, !.cells = cells]
    <3>1. t = Scrolled(moved)
      BY <1>2, <1>3, <2>1, ScreenSizes DEF Newline, Fit
    <3> QED
      BY <1>3, <2>2, <3>1 DEF Scrolled
  <2>5. t \in Screens /\ t.col = 0 /\ t.row = Rows - 1 /\ t.cells = cells
    <3>1. Rows - 1 \in Nat
      BY ScreenSizes
    <3>2. t \in Loose /\ t.col = 0 /\ t.row = Rows - 1 /\ t.cells = cells /\ t.stores = "inside"
      BY <1>3, <2>3, <2>4, <3>1 DEF Loose
    <3> QED
      BY <3>2, ScreenIs, ScreenSizes
  <2>6. ASSUME NEW i, NEW l, NEW m, EndOfRoll(s, i, l), m = l + 1 PROVE EndOfRoll(t, i, m)
    <3>1. l \in Nat /\ l + 1 >= Rows /\ DOMAIN i \subseteq (0..l) \X (0..(Cols - 1))
      BY <2>1, <2>6, ScreenSizes DEF EndOfRoll
    <3>2. m \in Nat /\ t.row = IF m < Rows THEN m ELSE Rows - 1
      BY <2>5, <2>6, <3>1, ScreenSizes
    <3>3. DOMAIN i \subseteq (0..m) \X (0..(Cols - 1))
      BY <2>6, <3>1, <3>2
    <3>4. ASSUME NEW r \in 0..(Rows - 1), NEW k \in 0..(Cols - 1)
          PROVE  t.cells[r][k] = Mark(i, m - t.row + r, k)
      <4>1. CASE r = Rows - 1
        <5>1. m - t.row + r = m
          BY <2>5, <3>2, <4>1, ScreenSizes
        <5>2. <<m, k>> \notin DOMAIN i
          BY <2>6, <3>1
        <5>3. t.cells[r] = BlankRow
          BY <2>2, <2>5, <4>1
        <5>4. t.cells[r][k] = " "
          BY <5>3 DEF BlankRow
        <5> QED
          BY <5>1, <5>2, <5>4 DEF Mark
      <4>2. CASE r # Rows - 1
        <5>1. r + 1 \in 0..(Rows - 1) /\ m - t.row + r = l - s.row + (r + 1)
          <6>1. r \in Nat /\ r <= Rows - 1 /\ t.row = Rows - 1 /\ s.row = Rows - 1
            BY <1>1, <2>1, <2>5, ScreenSizes
          <6> QED
            BY <2>6, <3>1, <4>2, <6>1, ScreenSizes
        <5>2. t.cells[r][k] = s.cells[r + 1][k]
          BY <2>2, <2>5, <4>2
        <5>3. s.cells[r + 1][k] = Mark(i, l - s.row + (r + 1), k)
          BY <2>6, <5>1 DEF EndOfRoll
        <5> QED
          BY <5>1, <5>2, <5>3
      <4> QED
        BY <4>1, <4>2
    <3> QED
      BY <3>1, <3>2, <3>3, <3>4 DEF EndOfRoll
  <2> QED
    BY <2>5, <2>6
<1> QED
  BY <1>4, <1>5

(* The lines that no screen shows any more can be torn off. *)
Torn(i, l) == [p \in {p \in DOMAIN i : p[1] > l - Rows} |-> i[p]]

LEMMA TornOff ==
  ASSUME NEW s \in Screens, NEW i, NEW l, EndOfRoll(s, i, l)
  PROVE  EndOfRoll(s, Torn(i, l), l)
<1>0. PICK i2 : i2 = Torn(i, l)
  OBVIOUS
<1>1. i2 = [p \in {p \in DOMAIN i : p[1] > l - Rows} |-> i[p]]
  BY <1>0 DEF Torn
<1>2. l \in Nat /\ s.row \in 0..(Rows - 1) /\ s.row <= l /\ DOMAIN i2 \subseteq (0..l) \X (0..(Cols - 1))
  BY <1>1, ScreenSizes DEF EndOfRoll, Screens
<1>3. ASSUME NEW r \in 0..(Rows - 1), NEW k \in 0..(Cols - 1)
      PROVE  Mark(i2, l - s.row + r, k) = Mark(i, l - s.row + r, k)
  <2>1. l - s.row + r > l - Rows
    BY <1>2, ScreenSizes
  <2>2. <<l - s.row + r, k>>[1] > l - Rows
    BY <2>1
  <2> QED
    BY <1>1, <2>2 DEF Mark
<1>4. EndOfRoll(s, i2, l)
  BY <1>2, <1>3 DEF EndOfRoll
<1> QED
  BY <1>0, <1>4

(* The next tab stop is on the row, or just behind it; no column between   *)
(* is one.                                                                 *)
LEMMA StopIs ==
  ASSUME NEW c \in 0..(Cols - 1), NEW k, k = TabStop - (c % TabStop)
  PROVE  /\ k \in 1..TabStop /\ c + k <= Cols /\ (c + k) % TabStop = 0
         /\ \A j \in 1..(k - 1) : (c + j) % TabStop # 0
         /\ ((c + TabStop) \div TabStop) * TabStop = c + k
         /\ c + k >= Cols <=> c >= Cols - TabStop
<1>1. PICK T : T = TabStop /\ T \in Nat /\ T > 0
  BY ScreenSizes
<1>2. PICK q, r : q = c \div T /\ r = c % T /\ q \in Nat /\ r \in 0..(T - 1) /\ c = T * q + r
  <2>1. c \in Nat
    BY ScreenSizes
  <2>2. c \div T \in Nat /\ (c % T) \in 0..(T - 1) /\ c = T * (c \div T) + (c % T)
    BY <1>1, <2>1
  <2> QED
    BY <2>2
<1>3. PICK m \in Nat : Cols = T * m
  <2>1. Cols % T = 0
    BY <1>1, TerminalAssumption
  <2>2. Cols \div T \in Nat /\ Cols = T * (Cols \div T) + (Cols % T)
    BY <1>1, ScreenSizes
  <2>3. Cols = T * (Cols \div T)
    BY <1>1, <2>1, <2>2
  <2> QED
    BY <2>2, <2>3
<1>4. k = T - r /\ k \in 1..T /\ c + k = T * (q + 1)
  <2>1. T * (q + 1) = T * q + T
    BY <1>1, <1>2
  <2> QED
    BY <1>1, <1>2, <2>1
<1>5. (c + k) % T = 0
  <2>1. c + k = T * (q + 1) + 0 /\ q + 1 \in Nat
    BY <1>1, <1>2, <1>4
  <2>2. (T * (q + 1) + 0) % T = 0
    BY <1>1, <2>1, SMTT(30)
  <2> QED
    BY <2>1, <2>2
<1>6. \A j \in 1..(k - 1) : (c + j) % T # 0
  <2> SUFFICES ASSUME NEW j \in 1..(k - 1) PROVE (c + j) % T # 0
    OBVIOUS
  <2>1. c + j = T * q + (r + j) /\ r + j \in 0..(T - 1) /\ r + j # 0
    <3>1. T * q \in Nat
      BY <1>1, <1>2
    <3> QED
      BY <1>1, <1>2, <1>4, <3>1
  <2>2. (T * q + (r + j)) % T = r + j
    BY <1>1, <1>2, <2>1
  <2> QED
    BY <2>1, <2>2
<1>7. q < m
  <2>1. CASE q >= m
    <3>1. PICK d \in Nat : q = m + d
      <4>1. q - m \in Nat /\ q = m + (q - m)
        BY <1>2, <2>1
      <4> QED
        BY <4>1
    <3>2. T * q = T * m + T * d /\ T * d \in Nat /\ T * m \in Nat
      BY <1>1, <3>1
    <3> QED
      BY <1>1, <1>2, <1>3, <3>2, ScreenSizes
  <2> QED
    BY <1>2, <2>1
<1>8. PICK d \in Nat : m = q + 1 + d
  <2>1. m - q - 1 \in Nat /\ m = q + 1 + (m - q - 1)
    BY <1>2, <1>7
  <2> QED
    BY <2>1
<1>9. Cols = c + k + T * d /\ T * d \in Nat
  BY <1>1, <1>2, <1>3, <1>4, <1>8
<1>10. c + k <= Cols
  BY <1>1, <1>4, <1>9, ScreenSizes
<1>11. c + k >= Cols <=> c >= Cols - T
  <2>1. CASE d = 0
    <3>1. Cols = c + k
      BY <1>1, <1>4, <1>9, <2>1
    <3> QED
      BY <1>1, <1>4, <3>1, ScreenSizes
  <2>2. CASE d # 0
    <3>1. PICK e \in Nat : d = e + 1
      <4>1. d - 1 \in Nat /\ d = (d - 1) + 1
        BY <2>2
      <4> QED
        BY <4>1
    <3>2. T * d = T * e + T /\ T * e \in Nat
      BY <1>1, <3>1
    <3> QED
      BY <1>1, <1>4, <1>9, <3>2, ScreenSizes
  <2> QED
    BY <2>1, <2>2
<1>12. ((c + T) \div T) * T = c + k
  <2>1. c + T = T * (q + 1) + r
    BY <1>1, <1>2, <1>4
  <2>2. (c + T) \div T = q + 1
    BY <1>1, <1>2, <2>1
  <2> QED
    BY <1>1, <1>2, <1>4, <2>2
<1> QED
  BY <1>1, <1>4, <1>5, <1>6, <1>10, <1>11, <1>12

\* The first j cells from the cursor of t on are blank in x, up to its cursor.
Blanked(x, t, j) == Changed(x, t, t.col..(t.col + j - 1), " ", t.col + j)

\* Where a glyph goes to: a full row is left first.
Fresh(s) == IF s.col = Cols THEN Newline(s) ELSE s

(* Afterwards the next glyph has a cell.                                   *)
LEMMA FreshIs ==
  ASSUME NEW s \in Screens
  PROVE  Fresh(s) \in Screens /\ Fresh(s).col \in 0..(Cols - 1)
<1>1. s.col \in 0..Cols
  BY DEF Screens
<1> QED
  BY <1>1, NewlineIs, ScreenSizes DEF Fresh

(* A glyph is stored there.                                                *)
LEMMA PrintedIs ==
  ASSUME NEW s \in Screens, NEW g
  PROVE  Printed(s, g) = Put(Fresh(s), Fresh(s).col, g, Fresh(s).col + 1)
<1>1. PICK t : t = Fresh(s)
  OBVIOUS
<1>2. s.col >= Cols <=> s.col = Cols
  <2>1. s.col \in 0..Cols
    BY DEF Screens
  <2> QED
    BY <2>1, ScreenSizes
<1>3. t \in Screens
  BY <1>1, FreshIs
<1>4. GlyphStored(t, t.col, g).col = t.col
  BY <1>3 DEF GlyphStored, Screens
<1> QED
  BY <1>1, <1>2, <1>4 DEF Printed, Put, Fresh

(* One more space of a tab.                                                *)
LEMMA BlankedOnce ==
  ASSUME NEW t \in Screens, NEW x, NEW j \in Nat, Blanked(x, t, j), x.col < Cols
  PROVE  Blanked(Printed(x, " "), t, j + 1)
<1>1. x \in Screens /\ x.row = t.row /\ x.col = t.col + j
  BY DEF Blanked, Changed
<1>2. x.col \in Nat /\ t.col \in Nat /\ x.col \in 0..(Cols - 1) /\ x.col + 1 \in 0..Cols
  <2>1. x.col \in 0..Cols /\ t.col \in 0..Cols
    BY <1>1 DEF Screens
  <2> QED
    BY <2>1, ScreenSizes
<1>3. PICK y, g : y = Put(x, x.col, g, x.col + 1) /\ g = " " /\ g \in Marks
  BY DEF Marks
<1>4. Changed(y, x, {x.col}, g, x.col + 1)
  BY <1>1, <1>2, <1>3, PutIs
<1>5. Printed(x, " ") = y
  <2>1. Fresh(x) = x
    BY <1>2, ScreenSizes DEF Fresh
  <2> QED
    BY <1>1, <1>3, <2>1, PrintedIs
<1>6. ASSUME NEW r \in 0..(Rows - 1), NEW k \in 0..(Cols - 1)
      PROVE  y.cells[r][k] = IF r = t.row /\ k \in t.col..(t.col + (j + 1) - 1) THEN " " ELSE t.cells[r][k]
  <2>1. k \in t.col..(t.col + (j + 1) - 1) <=> k \in t.col..(t.col + j - 1) \/ k = x.col
    BY <1>1, <1>2, ScreenSizes
  <2>2. x.cells[r][k] = IF r = t.row /\ k \in t.col..(t.col + j - 1) THEN " " ELSE t.cells[r][k]
    BY DEF Blanked, Changed
  <2> QED
    BY <1>1, <1>3, <1>4, <2>1, <2>2 DEF Changed
<1>7. y.col = t.col + (j + 1)
  BY <1>1, <1>2, <1>4 DEF Changed
<1> QED
  BY <1>1, <1>4, <1>5, <1>6, <1>7 DEF Blanked, Changed

\* f is what the loop of a tab has printed, up to n blanks more than the first.
TabsTo(f, s, n) ==
  /\ f = [m \in 0..n |-> f[m]]
  /\ \A m \in 0..n : f[m] = IF m = 0 THEN Printed(s, " ")
                            ELSE IF f[m - 1].col % TabStop = 0 THEN f[m - 1]
                            ELSE Printed(f[m - 1], " ")

(* The recursive function that a tab is has values: by a least number of   *)
(* blanks for which it has none.                                           *)
LEMMA TabsExist ==
  ASSUME NEW s, NEW n \in Nat
  PROVE  \E f : TabsTo(f, s, n)
<1> DEFINE S == {m \in Nat : ~\E f : TabsTo(f, s, m)}
<1>1. ASSUME S # {} PROVE FALSE
  <2>1. PICK m \in S : \A k \in S : m <= k
    <3> HIDE DEF S
    <3>1. S \subseteq Nat
      BY DEF S
    <3> QED
      BY <1>1, <3>1, LeastOf
  <2>2. m \in Nat /\ ~\E f : TabsTo(f, s, m)
    OBVIOUS
  <2>3. CASE m = 0
    <3> DEFINE f == [k \in 0..0 |-> Printed(s, " ")]
    <3>1. f[0] = Printed(s, " ") /\ f = [k \in 0..0 |-> f[k]]
      OBVIOUS
    <3> HIDE DEF f
    <3>2. \A j \in 0..0 : j = 0
      OBVIOUS
    <3>3. TabsTo(f, s, 0)
      BY <3>1, <3>2 DEF TabsTo
    <3> QED
      BY <2>2, <2>3, <3>3
  <2>4. CASE m # 0
    <3>1. PICK k \in Nat : m = k + 1
      BY <2>2, <2>4
    <3>2. k \notin S
      BY <2>1, <3>1
    <3>3. PICK f : TabsTo(f, s, k)
      BY <3>1, <3>2
    <3> DEFINE v == IF f[k].col % TabStop = 0 THEN f[k] ELSE Printed(f[k], " ")
               g == [j \in 0..m |-> IF j = m THEN v ELSE f[j]]
    <3>4. g[m] = v /\ g = [j \in 0..m |-> g[j]] /\ \A j \in 0..k : g[j] = f[j]
      <4>1. m \in 0..m /\ \A j \in 0..k : j \in 0..m /\ j # m
        BY <2>2, <3>1
      <4> HIDE DEF v
      <4> QED
        BY <4>1
    <3> HIDE DEF g
    <3>5. ASSUME NEW j \in 0..m
          PROVE  g[j] = IF j = 0 THEN Printed(s, " ")
                        ELSE IF g[j - 1].col % TabStop = 0 THEN g[j - 1]
                        ELSE Printed(g[j - 1], " ")
      <4>1. CASE j = m
        <5>1. j - 1 = k /\ k \in 0..k /\ j # 0
          BY <2>4, <3>1, <4>1
        <5> QED
          BY <3>4, <4>1, <5>1
      <4>2. CASE j # m
        <5>1. j \in 0..k /\ (j # 0 => j - 1 \in 0..k)
          BY <2>2, <3>1, <4>2
        <5>2. f[j] = IF j = 0 THEN Printed(s, " ")
                     ELSE IF f[j - 1].col % TabStop = 0 THEN f[j - 1]
                     ELSE Printed(f[j - 1], " ")
          BY <3>3, <5>1 DEF TabsTo
        <5> QED
          BY <3>4, <5>1, <5>2
      <4> QED
        BY <4>1, <4>2
    <3>6. TabsTo(g, s, m)
      BY <3>4, <3>5 DEF TabsTo
    <3> QED
      BY <2>2, <3>6
  <2> QED
    BY <2>3, <2>4
<1> QED
  BY <1>1

(* A tab blanks the cells up to the next stop, of a fresh row if the row   *)
(* is full.                                                                *)
LEMMA TabbedIs ==
  ASSUME NEW s \in Screens, NEW t, t = Fresh(s), NEW k, k = TabStop - (t.col % TabStop)
  PROVE  Blanked(Tabbed(s), t, k)
<1>1. t \in Screens /\ t.col \in 0..(Cols - 1) /\ t.col \in Nat
  <2>1. t \in Screens /\ t.col \in 0..(Cols - 1)
    BY FreshIs
  <2> QED
    BY <2>1, ScreenSizes
<1>2. /\ k \in 1..TabStop /\ t.col + k <= Cols /\ (t.col + k) % TabStop = 0
      /\ \A j \in 1..(k - 1) : (t.col + j) % TabStop # 0
  BY <1>1, StopIs
<1>3. PICK f : f = Tabbed(s) /\ \E h : TabsTo(h, s, TabStop) /\ f = h[TabStop]
  <2> DEFINE P(h) == h = [n \in 0..TabStop |-> IF n = 0 THEN Printed(s, " ")
                                               ELSE IF h[n - 1].col % TabStop = 0 THEN h[n - 1]
                                               ELSE Printed(h[n - 1], " ")]
  <2>1. PICK h0 : TabsTo(h0, s, TabStop)
    BY TabsExist, ScreenSizes
  <2>2. P(h0)
    BY <2>1 DEF TabsTo
  <2>3. P(CHOOSE h : P(h))
    BY <2>2
  <2>4. PICK h : h = (CHOOSE h2 : P(h2))
    OBVIOUS
  <2>5. P(h)
    BY <2>3, <2>4
  <2>6. TabsTo(h, s, TabStop)
    BY <2>5 DEF TabsTo
  <2>7. Tabbed(s) = h[TabStop]
    BY <2>4 DEF Tabbed
  <2> QED
    BY <2>6, <2>7
<1>4. PICK h : TabsTo(h, s, TabStop) /\ f = h[TabStop]
  BY <1>3
<1>5. Blanked(Printed(s, " "), t, 1)
  <2>1. Blanked(t, t, 0)
    <3>1. t.col + 0 = t.col /\ \A c \in 0..(Cols - 1) : c \notin t.col..(t.col + 0 - 1)
      BY <1>1, ScreenSizes
    <3> QED
      BY <1>1, <3>1 DEF Blanked, Changed
  <2>2. t.col < Cols /\ Fresh(t) = t
    BY <1>1, ScreenSizes DEF Fresh
  <2>3. Blanked(Printed(t, " "), t, 1)
    <3>1. 0 \in Nat /\ 0 + 1 = 1
      OBVIOUS
    <3> QED
      BY <1>1, <2>1, <2>2, <3>1, BlankedOnce
  <2>4. Printed(t, " ") = Printed(s, " ")
    BY <1>1, <2>2, PrintedIs
  <2> QED
    BY <2>3, <2>4
<1> DEFINE P(n) == Blanked(h[n], t, IF n < k THEN n + 1 ELSE k)
           S == {n \in 0..TabStop : ~P(n)}
<1>6. ASSUME S # {} PROVE FALSE
  <2>1. PICK n \in S : \A j \in S : n <= j
    <3> HIDE DEF S
    <3>1. S \subseteq Nat
      BY ScreenSizes DEF S
    <3> QED
      BY <1>6, <3>1, LeastOf
  <2> HIDE DEF P
  <2>2. n \in 0..TabStop /\ ~P(n)
    OBVIOUS
  <2>3. CASE n = 0
    <3>1. h[0] = Printed(s, " ")
      <4>1. 0 \in 0..TabStop
        BY ScreenSizes
      <4>2. \A j \in 0..TabStop : j = 0 => h[j] = Printed(s, " ")
        BY <1>4 DEF TabsTo
      <4> QED
        BY <4>1, <4>2
    <3>2. 0 < k /\ 0 + 1 = 1
      BY <1>2
    <3>3. P(0)
      BY <1>5, <3>1, <3>2 DEF P
    <3> QED
      BY <2>2, <2>3, <3>3
  <2>4. CASE n # 0
    <3>1. PICK m \in 0..TabStop : n = m + 1 /\ m < n /\ n - 1 = m /\ m \in Nat
      <4>1. n - 1 \in 0..TabStop /\ n = (n - 1) + 1 /\ n - 1 < n /\ n - 1 \in Nat
        BY <2>2, <2>4, ScreenSizes
      <4> QED
        BY <4>1
    <3>2. P(m)
      <4>1. m \notin S
        BY <2>1, <2>2, <3>1
      <4> QED
        BY <3>1, <4>1
    <3>3. h[n] = IF h[m].col % TabStop = 0 THEN h[m] ELSE Printed(h[m], " ")
      BY <1>4, <2>2, <2>4, <3>1 DEF TabsTo
    <3>4. CASE m + 1 < k
      <4>1. Blanked(h[m], t, m + 1)
        BY <3>1, <3>2, <3>4, <1>2, ScreenSizes DEF P
      <4>2. h[m].col = t.col + (m + 1) /\ m + 1 \in 1..(k - 1) /\ t.col + (m + 1) < Cols
        <5>1. h[m].col = t.col + (m + 1)
          BY <4>1 DEF Blanked, Changed
        <5>2. m + 1 \in 1..(k - 1) /\ k \in Nat
          BY <1>2, <3>1, <3>4, ScreenSizes
        <5> QED
          BY <1>1, <1>2, <5>1, <5>2, ScreenSizes
      <4>3. h[n] = Printed(h[m], " ")
        BY <1>2, <3>3, <4>2
      <4>4. Blanked(h[n], t, (m + 1) + 1)
        <5>1. m + 1 \in Nat /\ h[m].col < Cols
          BY <3>1, <4>2
        <5> QED
          BY <1>1, <4>1, <4>3, <5>1, BlankedOnce
      <4>5. n < k
        BY <3>1, <3>4
      <4>6. P(n)
        BY <3>1, <4>4, <4>5 DEF P
      <4> QED
        BY <2>2, <4>6
    <3>5. CASE ~(m + 1 < k)
      <4>1. Blanked(h[m], t, k)
        <5>1. m < k => m + 1 = k
          BY <1>2, <3>1, <3>5, ScreenSizes
        <5> QED
          BY <3>2, <5>1 DEF P
      <4>2. h[m].col = t.col + k
        BY <4>1 DEF Blanked, Changed
      <4>3. h[n] = h[m]
        BY <1>2, <3>3, <4>2
      <4>4. ~(n < k)
        BY <3>1, <3>5
      <4>5. P(n)
        BY <4>1, <4>3, <4>4 DEF P
      <4> QED
        BY <2>2, <4>5
    <3> QED
      BY <3>4, <3>5
  <2> QED
    BY <2>3, <2>4
<1>7. P(TabStop) /\ ~(TabStop < k)
  <2>1. TabStop \in 0..TabStop /\ ~(TabStop < k)
    BY <1>2, ScreenSizes
  <2> HIDE DEF P
  <2> QED
    BY <1>6, <2>1
<1> QED
  BY <1>3, <1>4, <1>7

(* No glyph is a control character.                                        *)
LEMMA ControlsApart ==
  /\ \A g \in Glyphs : g \notin Controls
  /\ "newline" \notin Glyphs /\ "return" \notin Glyphs /\ "backspace" \notin Glyphs /\ "tab" \notin Glyphs
  BY TerminalAssumption DEF Controls

(* The row the next glyph goes to, on the screen and on the roll.          *)
LEMMA FreshAgrees ==
  ASSUME screen \in Screens, NEW t, t = Fresh(screen)
  PROVE  /\ t.col = Column /\ Column \in 0..(Cols - 1)
         /\ EndOfRoll(screen, ink, line) => EndOfRoll(t, ink, Line)
<1>1. t \in Screens /\ t.col \in 0..(Cols - 1)
  BY FreshIs
<1>2. CASE Full
  BY <1>1, <1>2, NewlineIs DEF Full, Line, Column, Fresh
<1>3. CASE ~Full
  BY <1>1, <1>3 DEF Full, Line, Column, Fresh
<1> QED
  BY <1>2, <1>3

(* A glyph stored at the cursor is the glyph written at the end of the roll. *)
LEMMA GlyphPut ==
  ASSUME NEW t \in Screens, t.col = Column, Column \in 0..(Cols - 1),
         NEW c \in Glyphs, NEW u, u = Put(t, t.col, c, t.col + 1)
  PROVE  /\ u \in Screens /\ u.col = t.col + 1
         /\ EndOfRoll(t, ink, Line) => EndOfRoll(u, WithInk(Line, Column, c), Line)
<1>1. Changed(u, t, {t.col}, c, t.col + 1)
  <2>1. t.col + 1 \in 0..Cols /\ t.col \in 0..(Cols - 1)
    BY ScreenSizes
  <2>2. c \in Marks
    BY DEF Marks
  <2> QED
    BY <2>1, <2>2, PutIs
<1>2. PICK i2 : i2 = WithInk(Line, Column, c)
  OBVIOUS
<1>3. /\ DOMAIN i2 = DOMAIN ink \union {<<Line, Column>>} /\ i2[<<Line, Column>>] = c
      /\ \A p \in DOMAIN i2 : p # <<Line, Column>> => i2[p] = ink[p]
  BY <1>2 DEF WithInk
<1>4. ASSUME EndOfRoll(t, ink, Line) PROVE EndOfRoll(u, i2, Line)
  <2>1. DOMAIN i2 \subseteq (0..Line) \X (0..(Cols - 1))
    BY <1>3, <1>4 DEF EndOfRoll
  <2>2. ASSUME NEW m \in 0..Line, NEW j \in 0..(Cols - 1)
        PROVE  Mark(i2, m, j) = IF m = Line /\ j \in {t.col} THEN c ELSE Mark(ink, m, j)
    <3>1. <<m, j>> = <<Line, Column>> <=> m = Line /\ j = Column
      OBVIOUS
    <3> QED
      BY <1>3, <3>1 DEF Mark
  <2>3. InkedAlike(i2, ink, Line, {t.col}, c)
    BY <2>1, <2>2 DEF InkedAlike
  <2> QED
    BY <1>1, <1>4, <2>3, ChangedAlike
<1> QED
  BY <1>1, <1>2, <1>4 DEF Changed

(* gui_term_putc does to a screen what the same character does to the roll. *)
LEMMA GuiTermPutcIs ==
  ASSUME g_redirect_to_gui, screen \in Screens, NEW c \in Glyphs \union Controls
  PROVE  /\ GuiTermPutc(screen, c) \in Screens
         /\ EndOfRoll(screen, ink, line) => EndOfRoll(GuiTermPutc(screen, c), Ink(c), NextLine(c))
<1>1. PICK u, t : u = GuiTermPutc(screen, c) /\ t = Fresh(screen)
  OBVIOUS
<1>2. /\ t \in Screens /\ t.col = Column /\ Column \in 0..(Cols - 1)
      /\ EndOfRoll(screen, ink, line) => EndOfRoll(t, ink, Line)
  BY <1>1, FreshIs, FreshAgrees
<1>3. CASE c = "newline"
  <2>1. u = Newline(screen)
    BY <1>1, <1>3 DEF GuiTermPutc
  <2>2. Ink(c) = ink /\ NextLine(c) = line + 1
    BY <1>3, ControlsApart DEF Ink, NextLine
  <2> QED
    BY <1>1, <2>1, <2>2, NewlineIs
<1>4. CASE c = "return"
  <2>1. u = [screen EXCEPT !.col = 0]
    BY <1>1, <1>4 DEF GuiTermPutc
  <2>2. Changed(u, screen, {}, " ", 0)
    <3>1. 0 \in 0..Cols
      BY ScreenSizes
    <3> QED
      BY <2>1, <3>1 DEF Changed, Screens
  <2>3. Ink(c) = ink /\ NextLine(c) = line
    BY <1>4, ControlsApart DEF Ink, NextLine
  <2>4. EndOfRoll(screen, ink, line) => EndOfRoll(u, ink, line)
    BY <2>2, NothingChanged
  <2> QED
    BY <1>1, <2>2, <2>3, <2>4 DEF Changed
<1>5. CASE c = "backspace"
  <2>1. u = Erased(screen)
    BY <1>1, <1>5 DEF GuiTermPutc
  <2>2. NextLine(c) = line
    BY <1>5, ControlsApart DEF NextLine
  <2>3. PICK i2 : i2 = Ink(c) /\ i2 = WithoutInk({<<line, screen.col - 1>>})
    BY <1>5, ControlsApart DEF Ink
  <2>4. DOMAIN i2 = DOMAIN ink \ {<<line, screen.col - 1>>} /\ \A p \in DOMAIN i2 : i2[p] = ink[p]
    BY <2>3 DEF WithoutInk
  <2>5. screen.col \in 0..Cols
    BY DEF Screens
  <2>6. CASE screen.col > 0
    <3>1. PICK k : k = screen.col - 1 /\ k \in 0..(Cols - 1) /\ k \in 0..Cols
      BY <2>5, <2>6, ScreenSizes
    <3>2. u = Put(screen, k, " ", k)
      <4>1. GlyphStored(screen, k, " ").col = screen.col
        BY DEF GlyphStored, Screens
      <4> QED
        BY <2>1, <2>6, <3>1, <4>1 DEF Erased, Put
    <3>3. Changed(u, screen, {k}, " ", k)
      <4>1. " " \in Marks
        BY DEF Marks
      <4> QED
        BY <3>1, <3>2, <4>1, PutIs
    <3>4. EndOfRoll(screen, ink, line) => EndOfRoll(u, i2, line)
      <4> SUFFICES ASSUME EndOfRoll(screen, ink, line) PROVE EndOfRoll(u, i2, line)
        OBVIOUS
      <4>1. DOMAIN i2 \subseteq (0..line) \X (0..(Cols - 1))
        BY <2>4 DEF EndOfRoll
      <4>2. \A m \in 0..line, j \in 0..(Cols - 1) :
              Mark(i2, m, j) = IF m = line /\ j = k THEN " " ELSE Mark(ink, m, j)
        BY <2>4, <3>1 DEF Mark
      <4>3. PICK C : C = {k}
        OBVIOUS
      <4>4. \A m \in 0..line, j \in 0..(Cols - 1) :
              Mark(i2, m, j) = IF m = line /\ j \in C THEN " " ELSE Mark(ink, m, j)
        BY <4>2, <4>3
      <4>5. Changed(u, screen, C, " ", k)
        BY <3>3, <4>3
      <4> QED
        <5>1. InkedAlike(i2, ink, line, C, " ")
          BY <4>1, <4>4 DEF InkedAlike
        <5> QED
          BY <4>5, <5>1, ChangedAlike
    <3> QED
      BY <1>1, <2>2, <2>3, <3>3, <3>4 DEF Changed
  <2>7. CASE ~(screen.col > 0)
    <3>1. u = screen /\ screen.col - 1 = -1
      <4>1. screen.col = 0
        BY <2>5, <2>7, ScreenSizes
      <4>2. u = screen
        BY <2>1, <2>7 DEF Erased
      <4> QED
        BY <4>1, <4>2
    <3>2. EndOfRoll(screen, ink, line) => EndOfRoll(u, i2, line)
      <4> SUFFICES ASSUME EndOfRoll(screen, ink, line) PROVE EndOfRoll(screen, i2, line)
        BY <3>1
      <4>1. \A m : <<m, -1>> \notin DOMAIN ink
        BY ScreenSizes DEF EndOfRoll
      <4>2. DOMAIN i2 = DOMAIN ink
        BY <2>4, <3>1, <4>1
      <4> QED
        BY <2>4, <4>2 DEF EndOfRoll, Mark
    <3> QED
      BY <1>1, <2>2, <2>3, <3>1, <3>2
  <2> QED
    BY <2>6, <2>7
<1>6. CASE c = "tab"
  <2>1. u = Tabbed(screen)
    BY <1>1, <1>6 DEF GuiTermPutc
  <2>2. PICK k : k = TabStop - (t.col % TabStop)
    OBVIOUS
  <2>3. Changed(u, t, t.col..(t.col + k - 1), " ", t.col + k)
    BY <1>1, <2>1, <2>2, TabbedIs DEF Blanked
  <2>4. NextLine(c) = Line
    BY <1>6, ControlsApart DEF NextLine, Line
  <2>5. Column + TabStop - 1 - (Column % TabStop) = t.col + k - 1
    <3>1. k \in 1..TabStop /\ Column \in Nat /\ TabStop \in Nat
      BY <1>2, <2>2, StopIs, ScreenSizes
    <3>2. PICK x : x = Column % TabStop /\ x \in Int
      BY <3>1, ScreenSizes
    <3>3. k = TabStop - x
      BY <1>2, <2>2, <3>2
    <3>4. Column + TabStop - 1 - x = Column + k - 1
      <4>1. k \in Int /\ x = TabStop - k
        BY <3>1, <3>2, <3>3
      <4> QED
        BY <3>1, <4>1
    <3> QED
      BY <1>2, <3>2, <3>4
  <2>6. PICK i2, C : i2 = Ink(c) /\ i2 = WithoutInk({Line} \X C) /\ C = t.col..(t.col + k - 1)
    BY <1>6, <2>5, <1>2, ControlsApart DEF Ink
  <2>7. DOMAIN i2 = DOMAIN ink \ ({Line} \X C) /\ \A p \in DOMAIN i2 : i2[p] = ink[p]
    BY <2>6 DEF WithoutInk
  <2>8. EndOfRoll(screen, ink, line) => EndOfRoll(u, i2, Line)
    <3> SUFFICES ASSUME EndOfRoll(t, ink, Line) PROVE EndOfRoll(u, i2, Line)
      BY <1>2
    <3>1. DOMAIN i2 \subseteq (0..Line) \X (0..(Cols - 1))
      BY <2>7 DEF EndOfRoll
    <3>2. \A m \in 0..Line, j \in 0..(Cols - 1) :
            Mark(i2, m, j) = IF m = Line /\ j \in C THEN " " ELSE Mark(ink, m, j)
      BY <2>7 DEF Mark
    <3> QED
      <4>1. Changed(u, t, C, " ", t.col + k)
        BY <2>3, <2>6
      <4> QED
        <5>1. InkedAlike(i2, ink, Line, C, " ")
          BY <3>1, <3>2 DEF InkedAlike
        <5> QED
          BY <1>2, <4>1, <5>1, ChangedAlike
  <2> QED
    BY <1>1, <2>3, <2>4, <2>6, <2>8 DEF Changed
<1>7. CASE c \in Glyphs
  <2>1. u = Put(t, t.col, c, t.col + 1)
    BY <1>1, <1>7, PrintedIs, ControlsApart DEF GuiTermPutc
  <2>2. NextLine(c) = Line /\ Ink(c) = WithInk(Line, Column, c)
    BY <1>7, ControlsApart DEF NextLine, Line, Ink
  <2> QED
    BY <1>1, <1>2, <1>7, <2>1, <2>2, GlyphPut
<1> QED
  BY <1>3, <1>4, <1>5, <1>6, <1>7 DEF Controls

(* How vga_putchar ends: the wrap, and the scroll if that is needed.       *)
LEMMA FreshKeeps ==
  ASSUME NEW s \in Screens
  PROVE  /\ Fit(IF s.col >= Cols THEN NextRow(s) ELSE s) = Fresh(s)
         /\ \A i, l, m : EndOfRoll(s, i, l) /\ (m = IF s.col = Cols THEN l + 1 ELSE l)
                            => EndOfRoll(Fresh(s), i, m)
<1>1. s.col \in 0..Cols /\ s.row \in 0..(Rows - 1)
  BY DEF Screens
<1>2. CASE s.col = Cols
  <2>1. Fresh(s) = Newline(s) /\ s.col >= Cols
    BY <1>2, ScreenSizes DEF Fresh
  <2> QED
    BY <1>2, <2>1, NewlineIs DEF Newline
<1>3. CASE s.col # Cols
  <2>1. Fresh(s) = s /\ ~(s.col >= Cols) /\ ~(s.row >= Rows)
    BY <1>1, <1>3, ScreenSizes DEF Fresh
  <2> QED
    BY <1>3, <2>1 DEF Fit
<1> QED
  BY <1>2, <1>3

(* And so does vga_putchar.                                                *)
LEMMA VgaPutcharIs ==
  ASSUME ~g_redirect_to_gui, screen \in Screens, screen.col < Cols, NEW c \in Glyphs \union Controls
  PROVE  /\ VgaPutchar(screen, c) \in Screens /\ VgaPutchar(screen, c).col < Cols
         /\ EndOfRoll(screen, ink, line) => EndOfRoll(VgaPutchar(screen, c), Ink(c), NextLine(c))
<1>1. PICK u, t : u = VgaPutchar(screen, c) /\ t = VgaMoved(screen, c)
  OBVIOUS
<1>2. screen.col \in 0..(Cols - 1) /\ screen.col # Cols
  <2>1. screen.col \in 0..Cols
    BY DEF Screens
  <2> QED
    BY <2>1, ScreenSizes
<1>3. ASSUME t \in Screens
      PROVE  /\ u \in Screens /\ u.col < Cols
             /\ \A i, m : EndOfRoll(t, i, line) /\ (m = IF t.col = Cols THEN line + 1 ELSE line)
                            => EndOfRoll(u, i, m)
  <2>1. u = Fresh(t)
    BY <1>1, <1>3, FreshKeeps DEF VgaPutchar
  <2>2. u \in Screens /\ u.col \in 0..(Cols - 1)
    BY <1>3, <2>1, FreshIs
  <2>3. u.col < Cols
    BY <2>2, ScreenSizes
  <2> QED
    BY <1>3, <2>1, <2>2, <2>3, FreshKeeps
<1>4. CASE c = "newline"
  <2>1. t = NextRow(screen) /\ ~(t.col >= Cols)
    <3>1. t = NextRow(screen)
      BY <1>1, <1>4 DEF VgaMoved
    <3>2. t.col = 0
      BY <3>1 DEF NextRow, Screens
    <3> QED
      BY <3>1, <3>2, ScreenSizes
  <2>2. u = Newline(screen)
    BY <1>1, <2>1 DEF VgaPutchar, Newline
  <2>3. Ink(c) = ink /\ NextLine(c) = line + 1
    BY <1>4, ControlsApart DEF Ink, NextLine
  <2>4. u \in Screens /\ u.col = 0 /\ 0 < Cols
    BY <2>2, NewlineIs, ScreenSizes
  <2> QED
    BY <1>1, <2>2, <2>3, <2>4, NewlineIs
<1>5. ASSUME NEW d \in 0..Cols, t = [screen EXCEPT !.col = d],
             Ink(c) = ink, NextLine(c) = IF d = Cols THEN line + 1 ELSE line
      PROVE  /\ u \in Screens /\ u.col < Cols
             /\ EndOfRoll(screen, ink, line) => EndOfRoll(u, Ink(c), NextLine(c))
  <2>1. Changed(t, screen, {}, " ", d)
    BY <1>5 DEF Changed, Screens
  <2>2. t \in Screens /\ t.col = d
    BY <2>1 DEF Changed
  <2>3. EndOfRoll(screen, ink, line) => EndOfRoll(t, ink, line)
    BY <2>1, NothingChanged
  <2> QED
    BY <1>3, <1>5, <2>2, <2>3
<1>6. CASE c = "return"
  <2>1. t = [screen EXCEPT !.col = 0] /\ 0 \in 0..Cols /\ 0 # Cols
    BY <1>1, <1>6, ScreenSizes DEF VgaMoved
  <2>2. Ink(c) = ink /\ NextLine(c) = line
    BY <1>6, ControlsApart DEF Ink, NextLine
  <2> QED
    BY <1>1, <1>5, <2>1, <2>2
<1>7. CASE c = "backspace"
  <2>1. PICK d : d = IF screen.col > 0 THEN screen.col - 1 ELSE screen.col
    OBVIOUS
  <2>2. t = [screen EXCEPT !.col = d]
    BY <1>1, <1>7, <2>1 DEF VgaMoved
  <2>3. d \in 0..Cols /\ d # Cols
    BY <1>2, <2>1, ScreenSizes
  <2>4. Ink(c) = ink /\ NextLine(c) = line
    BY <1>7, ControlsApart DEF Ink, NextLine
  <2> QED
    BY <1>1, <1>5, <2>2, <2>3, <2>4
<1>8. CASE c = "tab"
  <2>1. PICK k, d : k = TabStop - (screen.col % TabStop) /\ d = screen.col + k
    OBVIOUS
  <2>2. /\ k \in 1..TabStop /\ d <= Cols
        /\ ((screen.col + TabStop) \div TabStop) * TabStop = d
        /\ d >= Cols <=> screen.col >= Cols - TabStop
    BY <1>2, <2>1, StopIs
  <2>3. t = [screen EXCEPT !.col = d]
    BY <1>1, <1>8, <2>2 DEF VgaMoved
  <2>4. d \in 0..Cols /\ (d = Cols <=> screen.col >= Cols - TabStop)
    <3>1. screen.col \in Nat /\ k \in Nat /\ d \in Nat
      BY <1>2, <2>1, <2>2, ScreenSizes
    <3> QED
      BY <2>2, <3>1, ScreenSizes
  <2>5. Ink(c) = ink
    BY <1>8, ControlsApart DEF Ink
  <2>6. NextLine(c) = IF d = Cols THEN line + 1 ELSE line
    BY <1>8, <2>4, ControlsApart DEF NextLine
  <2> QED
    BY <1>1, <1>5, <2>3, <2>4, <2>5, <2>6
<1>9. CASE c \in Glyphs
  <2>1. t = Put(screen, screen.col, c, screen.col + 1)
    <3>1. t = [GlyphStored(screen, screen.col, c) EXCEPT !.col = @ + 1]
      BY <1>1, <1>9, ControlsApart DEF VgaMoved
    <3>2. GlyphStored(screen, screen.col, c).col = screen.col
      BY DEF GlyphStored, Screens
    <3> QED
      BY <3>1, <3>2 DEF Put
  <2>2. Line = line /\ Column = screen.col
    BY <1>2 DEF Line, Column, Full
  <2>3. /\ t \in Screens /\ t.col = screen.col + 1
        /\ EndOfRoll(screen, ink, line) => EndOfRoll(t, WithInk(Line, Column, c), Line)
    BY <1>2, <1>9, <2>1, <2>2, GlyphPut
  <2>4. Ink(c) = WithInk(Line, Column, c)
    BY <1>9, ControlsApart DEF Ink
  <2>5. t.col = Cols <=> screen.col = Cols - 1
    BY <1>2, <2>3, ScreenSizes
  <2>6. NextLine(c) = IF t.col = Cols THEN line + 1 ELSE line
    BY <1>9, <2>5, ControlsApart DEF NextLine
  <2> QED
    BY <1>1, <1>3, <2>2, <2>3, <2>4, <2>6
<1> QED
  BY <1>4, <1>6, <1>7, <1>8, <1>9 DEF Controls

(* Written keeps of the roll what a screen can show.                       *)
LEMMA WrittenIs ==
  ASSUME NEW c, overlap' = "none", Written(c), NEW s \in Screens, EndOfRoll(s, Ink(c), NextLine(c))
  PROVE  EndOfRoll(s, ink', line')
<1>1. line' = NextLine(c)
  BY DEF Written
<1>2. ink' = Torn(Ink(c), line')
  BY DEF Written, Torn
<1> QED
  BY <1>1, <1>2, TornOff

(* A cleared screen is the end of an empty roll.                           *)
LEMMA ClearedIs ==
  /\ Cleared \in Screens
  /\ \A i : DOMAIN i = {} => EndOfRoll(Cleared, i, 0)
<1>1. Cleared \in Screens
  <2>1. " " \in Marks /\ 0 \in 0..(Rows - 1) /\ 0 \in 0..Cols
    BY ScreenSizes DEF Marks
  <2>2. BlankRow \in [0..(Cols - 1) -> Marks]
    BY <2>1 DEF BlankRow
  <2>3. PICK rows : rows = [r \in 0..(Rows - 1) |-> BlankRow]
    OBVIOUS
  <2>4. rows \in [0..(Rows - 1) -> [0..(Cols - 1) -> Marks]]
    BY <2>2, <2>3
  <2> QED
    BY <2>1, <2>3, <2>4 DEF Cleared, Screens
<1>2. ASSUME NEW i, DOMAIN i = {} PROVE EndOfRoll(Cleared, i, 0)
  <2>1. Cleared.row = 0 /\ 0 < Rows
    BY ScreenSizes DEF Cleared
  <2>2. ASSUME NEW r \in 0..(Rows - 1), NEW c \in 0..(Cols - 1)
        PROVE  Cleared.cells[r][c] = Mark(i, 0 - Cleared.row + r, c)
    <3>1. Cleared.cells[r][c] = " "
      BY DEF Cleared, BlankRow
    <3> QED
      BY <1>2, <3>1 DEF Mark
  <2> QED
    BY <1>2, <2>1, <2>2 DEF EndOfRoll
<1> QED
  BY <1>1, <1>2

(* TermInv holds at first: the screen is cleared.                          *)
LEMMA TermInitial == TermInit => TermInv
<1> SUFFICES ASSUME TermInit PROVE TermInv
  OBVIOUS
<1>1. line = 0 /\ DOMAIN ink = {} /\ screen = Cleared /\ term_pc = "out"
  BY DEF TermInit
<1>2. Cleared \in Screens /\ EndOfRoll(Cleared, ink, line)
  BY <1>1, ClearedIs
<1>3. Cleared.stores = "inside" /\ Cleared.col < Cols
  BY ScreenSizes DEF Cleared
<1> QED
  BY <1>1, <1>2, <1>3 DEF TermInit, TermInv, Places, Finished

(* A character printed in one piece, also by an interrupt.                 *)
LEMMA TermPutc ==
  ASSUME TermInv, NEW c \in Glyphs \union Controls, Putc(c)
  PROVE  TermInv'
<1>1. /\ overlap' \in {"none", "store", "newline"} /\ g_redirect_to_gui' \in BOOLEAN
      /\ overlap' # "newline" => overlap # "newline" /\ term_pc \in {"out", "store"}
      /\ overlap' = "none" => overlap = "none" /\ term_pc = "out"
  BY DEF TermInv, Putc, Places
<1>2. ASSUME overlap' # "newline"
      PROVE  /\ Places' /\ screen'.stores = "inside"
             /\ overlap' = "none" => EndOfRoll(screen', ink', line')
  <2>1. Places /\ screen \in Screens /\ term_pc \in {"out", "store"}
    BY <1>1, <1>2 DEF TermInv, Places
  <2>2. /\ screen' \in Screens /\ (~g_redirect_to_gui => screen'.col < Cols)
        /\ EndOfRoll(screen, ink, line) => EndOfRoll(screen', Ink(c), NextLine(c))
    <3>1. CASE g_redirect_to_gui
      <4>1. screen' = GuiTermPutc(screen, c)
        BY <3>1 DEF Putc
      <4> QED
        BY <2>1, <3>1, <4>1, GuiTermPutcIs
    <3>2. CASE ~g_redirect_to_gui
      <4>1. screen' = VgaPutchar(screen, c)
        BY <3>2 DEF Putc
      <4>2. screen.col < Cols
        BY <2>1, <3>2 DEF Places
      <4> QED
        BY <2>1, <3>2, <4>1, <4>2, VgaPutcharIs
    <3> QED
      BY <3>1, <3>2
  <2>3. Places'
    BY <2>1, <2>2 DEF Putc, Places
  <2>4. screen'.stores = "inside"
    BY <2>2, ScreenIs
  <2>5. ASSUME overlap' = "none" PROVE EndOfRoll(screen', ink', line')
    <3>1. EndOfRoll(screen, ink, line)
      BY <1>1, <2>5 DEF TermInv, Finished
    <3>2. Written(c)
      BY DEF Putc
    <3> QED
      BY <2>2, <2>5, <3>1, <3>2, WrittenIs
  <2> QED
    BY <2>3, <2>4, <2>5
<1>3. overlap' = "none" => Finished' = screen'
  BY <1>1 DEF Putc, Finished
<1> QED
  BY <1>1, <1>2, <1>3 DEF TermInv

(* The main loop enters gui_term_putc: what it has left is all of it.      *)
LEMMA TermMainEnters ==
  ASSUME TermInv, NEW c \in Glyphs \union {"newline"}, MainEnters(c)
  PROVE  TermInv'
<1>1. /\ overlap' = overlap /\ screen' = screen /\ term_pc = "out" /\ g_redirect_to_gui
      /\ g_redirect_to_gui' = g_redirect_to_gui /\ char' = c /\ column' = screen.col
      /\ term_pc' = IF c = "newline" \/ Full THEN "newline" ELSE "store"
  BY DEF MainEnters
<1>2. ASSUME overlap # "newline"
      PROVE  /\ Places' /\ screen'.stores = "inside"
             /\ overlap = "none" => EndOfRoll(Finished', ink', line')
  <2>1. screen \in Screens /\ screen.stores = "inside"
    BY <1>1, <1>2 DEF TermInv, Places
  <2>2. ~Full => screen.col \in 0..(Cols - 1)
    <3>1. screen.col \in 0..Cols
      BY <2>1 DEF Screens
    <3> QED
      BY <3>1, ScreenSizes DEF Full
  <2>3. Places'
    BY <1>1, <2>1, <2>2 DEF Places
  <2>4. Finished' = GuiTermPutc(screen, c)
    <3>1. CASE c = "newline"
      <4>1. Finished' = Newline(screen)
        BY <1>1, <3>1 DEF Finished, Ended
      <4> QED
        BY <3>1, <4>1 DEF GuiTermPutc
    <3>2. CASE c \in Glyphs
      <4>1. GuiTermPutc(screen, c) = Put(Fresh(screen), Fresh(screen).col, c, Fresh(screen).col + 1)
        BY <2>1, <3>2, PrintedIs, ControlsApart DEF GuiTermPutc
      <4>2. CASE Full
        <5>1. Finished' = Put(Newline(screen), Newline(screen).col, c, Newline(screen).col + 1)
          BY <1>1, <3>2, <4>2, ControlsApart DEF Finished, Ended, StoredAt
        <5>2. Fresh(screen) = Newline(screen)
          BY <4>2 DEF Fresh, Full
        <5> QED
          BY <4>1, <5>1, <5>2
      <4>3. CASE ~Full
        <5>1. Finished' = Put(screen, screen.col, c, screen.col + 1)
          BY <1>1, <3>2, <4>3, ControlsApart DEF Finished, StoredAt
        <5>2. Fresh(screen) = screen
          BY <4>3 DEF Fresh, Full
        <5> QED
          BY <4>1, <5>1, <5>2
      <4> QED
        BY <4>2, <4>3
    <3> QED
      BY <3>1, <3>2
  <2>5. ASSUME overlap = "none" PROVE EndOfRoll(Finished', ink', line')
    <3>1. EndOfRoll(screen, ink, line)
      BY <1>1, <2>5 DEF TermInv, Finished
    <3>2. Written(c) /\ c \in Glyphs \union Controls
      BY DEF MainEnters, Controls
    <3>3. /\ GuiTermPutc(screen, c) \in Screens
          /\ EndOfRoll(GuiTermPutc(screen, c), Ink(c), NextLine(c))
      BY <1>1, <2>1, <3>1, <3>2, GuiTermPutcIs
    <3> QED
      BY <1>1, <2>4, <2>5, <3>2, <3>3, WrittenIs
  <2> QED
    BY <1>1, <2>1, <2>3, <2>5
<1> QED
  BY <1>1, <1>2 DEF TermInv

(* The steps of the main loop do what it has left to do.                   *)
LEMMA TermMainLoop ==
  ASSUME TermInv, MainNextRow \/ MainScroll \/ MainReload \/ MainStore
  PROVE  TermInv'
<1>1. overlap' = overlap /\ g_redirect_to_gui' = g_redirect_to_gui /\ char' = char /\ ink' = ink /\ line' = line
  BY DEF MainNextRow, MainScroll, MainReload, MainStore
<1>2. ASSUME overlap # "newline"
      PROVE  Places' /\ screen'.stores = "inside" /\ Finished' = Finished
  <2>1. Places /\ screen.stores = "inside"
    BY <1>2 DEF TermInv
  <2>2. CASE MainNextRow
    <3>1. term_pc = "newline" /\ term_pc' = "scroll" /\ screen' = NextRow(screen) /\ screen \in Screens
      BY <2>1, <2>2 DEF MainNextRow, Places
    <3>2. Fit(screen') = Newline(screen) /\ screen'.stores = "inside"
      BY <3>1 DEF Newline, NextRow, Screens
    <3>3. Newline(screen) \in Screens /\ Newline(screen).col = 0
      BY <3>1, NewlineIs
    <3>4. Places'
      BY <1>1, <2>1, <3>1, <3>2, <3>3 DEF Places
    <3>5. Finished' = Finished
      BY <1>1, <3>1, <3>2 DEF Finished, Ended, StoredAt
    <3> QED
      BY <3>2, <3>4, <3>5
  <2>3. CASE MainScroll
    <3>1. /\ term_pc = "scroll" /\ screen' = Fit(screen) /\ Fit(screen) \in Screens /\ Fit(screen).col = 0
          /\ term_pc' = IF char = "newline" THEN "out" ELSE "reload"
      BY <2>1, <2>3 DEF MainScroll, Places
    <3>2. screen'.stores = "inside"
      BY <3>1, ScreenIs
    <3>3. Places'
      BY <1>1, <2>1, <3>1 DEF Places
    <3>4. Finished' = Finished
      <4>1. Finished = Ended(screen')
        BY <3>1 DEF Finished
      <4>2. CASE char = "newline"
        BY <1>1, <3>1, <4>1, <4>2 DEF Finished, Ended
      <4>3. CASE char # "newline"
        BY <1>1, <3>1, <4>1, <4>3 DEF Finished, Ended, StoredAt
      <4> QED
        BY <4>2, <4>3
    <3> QED
      BY <3>2, <3>3, <3>4
  <2>4. CASE MainReload
    <3>1. /\ term_pc = "reload" /\ term_pc' = "store" /\ screen' = screen /\ column' = screen.col
          /\ screen.col = 0 /\ 0 \in 0..(Cols - 1)
      BY <2>1, <2>4, ScreenSizes DEF MainReload, Places
    <3>2. Places'
      BY <1>1, <2>1, <3>1 DEF Places
    <3>3. Finished' = Finished
      BY <1>1, <3>1 DEF Finished, StoredAt
    <3> QED
      BY <2>1, <3>1, <3>2, <3>3
  <2>5. CASE MainStore
    <3>1. /\ term_pc = "store" /\ term_pc' = "out" /\ screen' = Put(screen, column, char, column + 1)
          /\ screen \in Screens /\ column \in 0..(Cols - 1) /\ char \in Glyphs /\ g_redirect_to_gui
      BY <2>1, <2>5 DEF MainStore, Places, Put
    <3>2. char \in Marks /\ column + 1 \in 0..Cols
      <4>1. char \in Marks
        BY <3>1 DEF Marks
      <4>2. column \in 0..(Cols - 1)
        BY <3>1
      <4>3. column + 1 \in 0..Cols
        BY <4>2, ScreenSizes
      <4> QED
        BY <4>1, <4>3
    <3>3. screen' \in Screens /\ screen'.stores = "inside"
      <4>1. screen' \in Screens
        BY <3>1, <3>2, PutIs DEF Changed
      <4> QED
        BY <4>1, ScreenIs
    <3>4. Places'
      BY <1>1, <2>1, <3>1, <3>3 DEF Places
    <3>5. Finished' = Finished
      BY <1>1, <3>1 DEF Finished, StoredAt
    <3> QED
      BY <3>3, <3>4, <3>5
  <2> QED
    BY <2>2, <2>3, <2>4, <2>5
<1> QED
  BY <1>1, <1>2 DEF TermInv

(* vga_clear empties the screen and the roll.                              *)
LEMMA TermVgaClear ==
  ASSUME TermInv, VgaClear
  PROVE  TermInv'
<1>1. /\ overlap' = overlap /\ g_redirect_to_gui' = g_redirect_to_gui /\ ~g_redirect_to_gui
      /\ screen' = Cleared /\ term_pc' = term_pc /\ char' = char /\ column' = column
      /\ line' = 0 /\ DOMAIN ink' = {}
  BY DEF VgaClear, WithoutInk
<1>2. Cleared \in Screens /\ Cleared.col = 0 /\ Cleared.stores = "inside" /\ 0 < Cols
  BY ClearedIs, ScreenSizes DEF Cleared
<1>3. EndOfRoll(Cleared, ink', line')
  BY <1>1, ClearedIs
<1>4. ASSUME overlap # "newline" PROVE Places' /\ Finished' = Cleared
  <2>1. Places /\ term_pc = "out"
    BY <1>1, <1>4 DEF TermInv, Places
  <2> QED
    BY <1>1, <1>2, <2>1 DEF Places, Finished
<1> QED
  BY <1>1, <1>2, <1>3, <1>4 DEF TermInv

(* Wherever the main loop is inside gui_term_putc, what is left of the     *)
(* call makes the screen the end of the roll.                              *)
LEMMA TermInductive == TermSpec => []TermInv
<1>1. TermInit => TermInv
  BY TermInitial
<1>2. TermInv /\ [TermNext]_termVars => TermInv'
  <2> SUFFICES ASSUME TermInv, [TermNext]_termVars PROVE TermInv'
    OBVIOUS
  <2>1. ASSUME NEW c \in Glyphs \union Controls, Putc(c) PROVE TermInv'
    BY <2>1, TermPutc
  <2>2. ASSUME NEW c \in Glyphs \union {"newline"}, MainEnters(c) PROVE TermInv'
    BY <2>2, TermMainEnters
  <2>3. CASE VgaClear
    BY <2>3, TermVgaClear
  <2>4. CASE MainNextRow \/ MainScroll \/ MainReload \/ MainStore
    BY <2>4, TermMainLoop
  <2>5. CASE UNCHANGED termVars
    BY <2>5 DEF termVars, TermInv, Places, Finished, Ended, StoredAt, EndOfRoll
  <2> QED
    BY <2>1, <2>2, <2>3, <2>4, <2>5 DEF TermNext
<1> QED
  BY <1>1, <1>2, PTL DEF TermSpec

(* The screen is the last Rows lines of the text, for any text and any     *)
(* size of the screen, as long as no interrupt printed inside the main     *)
(* loop's gui_term_putc; and no glyph is stored outside the cells unless   *)
(* an interrupt printed inside its term_newline.                           *)
THEOREM TheScreenIsTheText == TermSpec => []TerminalRight
<1>1. TermInv => TerminalRight
  <2> SUFFICES ASSUME TermInv PROVE TerminalRight
    OBVIOUS
  <2>1. ShowsTheText
    <3> SUFFICES ASSUME overlap = "none", term_pc = "out"
                 PROVE  /\ screen.row = IF line < Rows THEN line ELSE Rows - 1
                        /\ \A r \in 0..(Rows - 1), c \in 0..(Cols - 1) :
                             screen.cells[r][c] = Inked(line - screen.row + r, c)
      BY DEF ShowsTheText
    <3>1. EndOfRoll(screen, ink, line)
      BY DEF TermInv, Finished
    <3> QED
      BY <3>1 DEF EndOfRoll, Mark, Inked
  <2>2. StoresInside
    BY DEF TermInv, StoresInside
  <2> QED
    BY <2>1, <2>2 DEF TerminalRight
<1> QED
  BY <1>1, TermInductive, PTL

-----------------------------------------------------------------------------
(* The framebuffer.                                                        *)

(* A multiple of m and a rest below m are found again by division.         *)
LEMMA Division ==
  ASSUME NEW m \in Nat \ {0}, NEW x \in 0..(m - 1), NEW y \in Nat
  PROVE  (y * m + x) % m = x /\ (y * m + x) \div m = y
<1>1. PICK a : a = y * m + x /\ a \in Nat
  <2>1. y * m \in Nat
    OBVIOUS
  <2> QED
    BY <2>1
<1>2. PICK q, r : q = a \div m /\ r = a % m /\ q \in Nat /\ r \in 0..(m - 1) /\ a = m * q + r
  <2>1. a \div m \in Nat /\ (a % m) \in 0..(m - 1) /\ a = m * (a \div m) + (a % m)
    BY <1>1
  <2> QED
    BY <2>1
<1>3. m * (y - q) = r - x
  <2>1. y * m = m * y /\ m * (y - q) = m * y - m * q /\ {m * y, m * q, m * (y - q)} \subseteq Int
    BY <1>2
  <2> QED
    BY <1>1, <1>2, <2>1
<1>4. y = q
  <2>1. CASE y > q
    <3>1. m * (y - q) >= m
      BY <1>2, <2>1
    <3> QED
      BY <1>2, <1>3, <3>1
  <2>2. CASE y < q
    <3>1. m * (y - q) <= -m
      BY <1>2, <2>2
    <3> QED
      BY <1>2, <1>3, <3>1
  <2> QED
    BY <1>2, <2>1, <2>2
<1> QED
  BY <1>1, <1>2, <1>4, <1>3

LEMMA FbSizes == /\ width \in Nat \ {0} /\ height \in Nat \ {0} /\ pitch_px \in Nat \ {0}
                 /\ SpriteW \in Nat \ {0} /\ SpriteH \in Nat \ {0} /\ width <= pitch_px
                 /\ width * height \in Nat
  BY FramebufferAssumption

(* Each pixel of the screen has a cell of the back buffer to itself,       *)
LEMMA CellOfPixel ==
  ASSUME NEW p \in Screen
  PROVE  At(p) \in Buffer /\ Pixel(At(p)) = p
<1>1. PICK x, y : p = <<x, y>> /\ x \in 0..(width - 1) /\ y \in 0..(height - 1)
  BY DEF Screen
<1>2. At(p) = y * width + x
  BY <1>1 DEF At
<1>3. y * width + x \in 0..(width * height - 1)
  <2>1. y \in Nat /\ x \in Nat
    BY <1>1, FbSizes
  <2>2. y * width \in Nat
    BY <2>1, FbSizes
  <2>3. y * width <= (height - 1) * width
    BY <1>1, <2>1, FbSizes
  <2>4. (height - 1) * width = width * height - width
    BY FbSizes
  <2> QED
    BY <1>1, <2>1, <2>2, <2>3, <2>4, FbSizes
<1>4. (y * width + x) % width = x /\ (y * width + x) \div width = y
  BY <1>1, FbSizes, Division
<1> QED
  BY <1>1, <1>2, <1>3, <1>4 DEF Buffer, Pixel

AnyRect == [x : Int, y : Int, w : Int, h : Int]

(* A rectangle has the pixels between its corners;                         *)
LEMMA PixelsAre ==
  ASSUME NEW r \in AnyRect, NEW p
  PROVE  p \in PixelsOf(r) <=> /\ p \in Int \X Int
                               /\ r.x <= p[1] /\ p[1] < r.x + r.w
                               /\ r.y <= p[2] /\ p[2] < r.y + r.h
<1>1. r.x \in Int /\ r.y \in Int /\ r.w \in Int /\ r.h \in Int
  BY DEF AnyRect
<1>2. ASSUME p \in PixelsOf(r)
      PROVE  /\ p \in Int \X Int /\ r.x <= p[1] /\ p[1] < r.x + r.w
             /\ r.y <= p[2] /\ p[2] < r.y + r.h
  <2>1. PICK i \in 0..(r.w - 1), j \in 0..(r.h - 1) : p = <<r.x + i, r.y + j>>
    BY <1>2 DEF PixelsOf
  <2> QED
    BY <1>1, <2>1
<1>3. ASSUME p \in Int \X Int, r.x <= p[1], p[1] < r.x + r.w, r.y <= p[2], p[2] < r.y + r.h
      PROVE  p \in PixelsOf(r)
  <2>1. PICK a \in Int, b \in Int : p = <<a, b>>
    BY <1>3
  <2>2. a - r.x \in 0..(r.w - 1) /\ b - r.y \in 0..(r.h - 1)
    BY <1>1, <1>3, <2>1
  <2>3. PICK d : d = <<a - r.x, b - r.y>>
    OBVIOUS
  <2>4. d \in (0..(r.w - 1)) \X (0..(r.h - 1)) /\ d[1] = a - r.x /\ d[2] = b - r.y
    BY <2>2, <2>3
  <2>5. p = <<r.x + d[1], r.y + d[2]>>
    BY <1>1, <2>1, <2>4
  <2> QED
    BY <2>4, <2>5 DEF PixelsOf
<1> QED
  BY <1>2, <1>3

(* and clipping keeps those of them that are on the screen.                *)
LEMMA ClippedIs ==
  ASSUME NEW r \in AnyRect
  PROVE  Clipped(r) \in AnyRect /\ PixelsOf(Clipped(r)) = PixelsOf(r) \cap Screen
<1>1. r.x \in Int /\ r.y \in Int /\ r.w \in Int /\ r.h \in Int
  BY DEF AnyRect
<1>2. PICK x, w : /\ x = IF r.x < 0 THEN 0 ELSE r.x
                  /\ w = IF r.x < 0 THEN r.w + r.x ELSE r.w
  OBVIOUS
<1>3. PICK y, h : /\ y = IF r.y < 0 THEN 0 ELSE r.y
                  /\ h = IF r.y < 0 THEN r.h + r.y ELSE r.h
  OBVIOUS
<1>4. PICK v, g : /\ v = IF x + w > width THEN width - x ELSE w
                  /\ g = IF y + h > height THEN height - y ELSE h
  OBVIOUS
<1>5. x \in Int /\ y \in Int /\ w \in Int /\ h \in Int /\ v \in Int /\ g \in Int
  BY <1>1, <1>2, <1>3, <1>4, FbSizes
<1>6. PICK c : c = Clipped(r)
  OBVIOUS
<1>7. c = IF w <= 0 \/ h <= 0 \/ x >= width \/ y >= height THEN Nothing
          ELSE [x |-> x, y |-> y, w |-> v, h |-> g]
  BY <1>2, <1>3, <1>4, <1>6 DEF Clipped
<1>8. c \in AnyRect
  BY <1>5, <1>7 DEF AnyRect, Nothing
<1>9. ASSUME NEW p
      PROVE  p \in PixelsOf(c) <=> p \in PixelsOf(r) /\ p \in Screen
  <2>1. p \in Screen <=> /\ p \in Int \X Int /\ 0 <= p[1] /\ p[1] < width
                         /\ 0 <= p[2] /\ p[2] < height
    BY FbSizes DEF Screen
  <2>2. p \in PixelsOf(c) \/ p \in PixelsOf(r) => p \in Int \X Int
    BY <1>8, PixelsAre
  <2>3. CASE p \notin Int \X Int
    BY <2>1, <2>2, <2>3
  <2>4. CASE p \in Int \X Int
    <3>1. PICK a \in Int, b \in Int : a = p[1] /\ b = p[2]
      BY <2>4
    <3>2. p \in PixelsOf(r) <=> r.x <= a /\ a < r.x + r.w /\ r.y <= b /\ b < r.y + r.h
      BY <2>4, <3>1, PixelsAre
    <3>3. p \in PixelsOf(c) <=> c.x <= a /\ a < c.x + c.w /\ c.y <= b /\ b < c.y + c.h
      BY <1>8, <2>4, <3>1, PixelsAre
    <3>4. p \in Screen <=> 0 <= a /\ a < width /\ 0 <= b /\ b < height
      BY <2>1, <2>4, <3>1
    <3>5. (r.x <= a /\ a < r.x + r.w /\ 0 <= a /\ a < width)
            <=> (w > 0 /\ x < width /\ x <= a /\ a < x + v)
      BY <1>1, <1>2, <1>4, <3>1, FbSizes
    <3>6. (r.y <= b /\ b < r.y + r.h /\ 0 <= b /\ b < height)
            <=> (h > 0 /\ y < height /\ y <= b /\ b < y + g)
      BY <1>1, <1>3, <1>4, <3>1, FbSizes
    <3>7. CASE w <= 0 \/ h <= 0 \/ x >= width \/ y >= height
      <4>1. c.x = 0 /\ c.w = 0
        BY <1>7, <3>7 DEF Nothing
      <4> QED
        BY <1>5, <3>1, <3>2, <3>3, <3>4, <3>5, <3>6, <3>7, <4>1, FbSizes
    <3>8. CASE ~(w <= 0 \/ h <= 0 \/ x >= width \/ y >= height)
      <4>1. c.x = x /\ c.w = v /\ c.y = y /\ c.h = g
        BY <1>7, <3>8
      <4> QED
        BY <1>5, <3>2, <3>3, <3>4, <3>5, <3>6, <3>8, <4>1, FbSizes
    <3> QED
      BY <3>7, <3>8
  <2> QED
    BY <2>3, <2>4
<1> QED
  BY <1>6, <1>8, <1>9

LEMMA BufferInMemory == Buffer \subseteq Memory
<1>1. width * (height + 1) = width * height + width
  BY FbSizes
<1> QED
  BY <1>1, FbSizes DEF Buffer, Memory

(* Between two calls the buffer is the picture, and the screen is as it    *)
(* was until it is shown.                                                  *)
FramebufferInv == /\ ClipExact
                  /\ frame \in {"drawing", "shown"}
                  /\ frame = "drawing" => \A a \in VideoMemory : hw[a] = NotOurs

(* A call keeps it so if it stores where its pixels are on the screen,     *)
(* there and nowhere else, what they are.                                  *)
LEMMA CallDraws ==
  ASSUME FramebufferInv, frame = "drawing", UNCHANGED <<hw, frame>>,
         NEW drawn, NEW cells, NEW pixels, Stores(cells), Shows(pixels),
         DOMAIN pixels = drawn, DOMAIN cells = {At(p) : p \in drawn \cap Screen},
         \A p \in drawn \cap Screen : cells[At(p)] = pixels[p]
  PROVE  FramebufferInv'
<1>1. Buffer \subseteq Memory
  BY BufferInMemory
<1>2. ASSUME NEW p \in Screen PROVE back'[At(p)] = picture'[p]
  <2>1. At(p) \in Memory /\ Pixel(At(p)) = p
    BY <1>1, CellOfPixel
  <2>2. At(p) \in {At(q) : q \in drawn \cap Screen} <=> p \in drawn
    <3>1. ASSUME NEW q \in drawn \cap Screen, At(p) = At(q) PROVE p \in drawn
      BY <2>1, <3>1, CellOfPixel
    <3> QED
      BY <3>1
  <2> QED
    BY <2>1, <2>2 DEF FramebufferInv, ClipExact, Stores, Shows
<1>3. ASSUME NEW a \in Memory, a \notin Buffer PROVE back'[a] = NotOurs
  <2>1. a \notin {At(q) : q \in drawn \cap Screen}
    BY <1>3, CellOfPixel
  <2> QED
    BY <1>3, <2>1 DEF FramebufferInv, ClipExact, Stores
<1> QED
  BY <1>2, <1>3 DEF FramebufferInv, ClipExact

(* fb_fill_rect stores in the cells of what is on the screen.              *)
LEMMA FilledAre ==
  ASSUME NEW r \in AnyRect
  PROVE  FillCells(r) = {At(p) : p \in PixelsOf(r) \cap Screen}
BY ClippedIs DEF FillCells

(* So do several of them.                                                  *)
LEMMA AllFilledAre ==
  ASSUME NEW rs, rs \subseteq AnyRect
  PROVE  UNION {FillCells(r) : r \in rs} = {At(p) : p \in (UNION {PixelsOf(r) : r \in rs}) \cap Screen}
BY FilledAre

\* One colour in such cells is what a call that draws in one colour needs
LEMMA OneColourDraws ==
  ASSUME FramebufferInv, frame = "drawing", UNCHANGED <<hw, frame>>, NEW drawn, NEW stored, NEW k,
         Stores([a \in stored |-> k]), Shows([p \in drawn |-> k]),
         stored = {At(p) : p \in drawn \cap Screen}
  PROVE  FramebufferInv'
<1>1. PICK cells : cells = [a \in stored |-> k]
  OBVIOUS
<1>2. PICK pixels : pixels = [p \in drawn |-> k]
  OBVIOUS
<1>3. DOMAIN cells = stored /\ DOMAIN pixels = drawn
  BY <1>1, <1>2
<1>4. \A p \in drawn \cap Screen : cells[At(p)] = pixels[p]
  BY <1>1, <1>2
<1> QED
  BY <1>1, <1>2, <1>3, <1>4, CallDraws

LEMMA FillRectDraws ==
  ASSUME FramebufferInv, frame = "drawing", UNCHANGED <<hw, frame>>, NEW r \in AnyRect, FillRect(r)
  PROVE  FramebufferInv'
BY FilledAre, OneColourDraws DEF FillRect

LEMMA PutPixelDraws ==
  ASSUME FramebufferInv, frame = "drawing", UNCHANGED <<hw, frame>>, NEW x, NEW y, PutPixel(x, y)
  PROVE  FramebufferInv'
<1>1. PICK drawn : drawn = {<<x, y>>}
  OBVIOUS
<1> QED
  BY <1>1, OneColourDraws DEF PutPixel

(* The four sides are the rectangle's edge.                                *)
LEMMA SidesAre ==
  ASSUME NEW r \in AnyRect
  PROVE  /\ Sides(r) \subseteq AnyRect
         /\ UNION {PixelsOf(s) : s \in Sides(r)} = {q \in PixelsOf(r) : OnEdge(q, r)}
<1>1. r.x \in Int /\ r.y \in Int /\ r.w \in Int /\ r.h \in Int
  BY DEF AnyRect
<1>2. CASE r.w <= 0 \/ r.h <= 0
  <2>1. ASSUME NEW p PROVE p \notin PixelsOf(r)
    <3>1. (p[1] \in Int /\ p[2] \in Int) \/ p \notin PixelsOf(r)
      BY PixelsAre
    <3> QED
      BY <1>1, <1>2, <3>1, PixelsAre
  <2> QED
    BY <1>2, <2>1 DEF Sides
<1>3. CASE ~(r.w <= 0 \/ r.h <= 0)
  <2>1. PICK up, down, left, right :
          /\ up = [x |-> r.x, y |-> r.y, w |-> r.w, h |-> 1]
          /\ down = [x |-> r.x, y |-> r.y + r.h - 1, w |-> r.w, h |-> 1]
          /\ left = [x |-> r.x, y |-> r.y, w |-> 1, h |-> r.h]
          /\ right = [x |-> r.x + r.w - 1, y |-> r.y, w |-> 1, h |-> r.h]
    OBVIOUS
  <2>2. up \in AnyRect /\ up.x = r.x /\ up.y = r.y /\ up.w = r.w /\ up.h = 1
    BY <1>1, <2>1 DEF AnyRect
  <2>3. down \in AnyRect /\ down.x = r.x /\ down.y = r.y + r.h - 1 /\ down.w = r.w /\ down.h = 1
    BY <1>1, <2>1 DEF AnyRect
  <2>4. left \in AnyRect /\ left.x = r.x /\ left.y = r.y /\ left.w = 1 /\ left.h = r.h
    BY <1>1, <2>1 DEF AnyRect
  <2>5. right \in AnyRect /\ right.x = r.x + r.w - 1 /\ right.y = r.y /\ right.w = 1 /\ right.h = r.h
    BY <1>1, <2>1 DEF AnyRect
  <2>6. Sides(r) = {up, down, left, right}
    BY <1>3, <2>1 DEF Sides
  <2>7. ASSUME NEW p
        PROVE  (\E s \in Sides(r) : p \in PixelsOf(s)) <=> p \in PixelsOf(r) /\ OnEdge(p, r)
    <3>1. CASE p \notin Int \X Int
      BY <2>2, <2>3, <2>4, <2>5, <2>6, <3>1, PixelsAre
    <3>2. CASE p \in Int \X Int
      <4>1. PICK a \in Int, b \in Int : a = p[1] /\ b = p[2]
        BY <3>2
      <4>2. p \in PixelsOf(r) <=> r.x <= a /\ a < r.x + r.w /\ r.y <= b /\ b < r.y + r.h
        BY <3>2, <4>1, PixelsAre
      <4>3. p \in PixelsOf(up) <=> r.x <= a /\ a < r.x + r.w /\ b = r.y
        <5>1. p \in PixelsOf(up) <=> r.x <= a /\ a < r.x + r.w /\ r.y <= b /\ b < r.y + 1
          BY <2>2, <3>2, <4>1, PixelsAre
        <5> QED
          BY <1>1, <5>1
      <4>4. p \in PixelsOf(down) <=> r.x <= a /\ a < r.x + r.w /\ b = r.y + r.h - 1
        <5>1. p \in PixelsOf(down) <=> /\ r.x <= a /\ a < r.x + r.w
                                       /\ r.y + r.h - 1 <= b /\ b < r.y + r.h - 1 + 1
          BY <2>3, <3>2, <4>1, PixelsAre
        <5>2. r.y + r.h - 1 <= b /\ b < r.y + r.h - 1 + 1 <=> b = r.y + r.h - 1
          BY <1>1
        <5> QED
          BY <5>1, <5>2
      <4>5. p \in PixelsOf(left) <=> a = r.x /\ r.y <= b /\ b < r.y + r.h
        <5>1. p \in PixelsOf(left) <=> r.x <= a /\ a < r.x + 1 /\ r.y <= b /\ b < r.y + r.h
          BY <2>4, <3>2, <4>1, PixelsAre
        <5> QED
          BY <1>1, <5>1
      <4>6. p \in PixelsOf(right) <=> a = r.x + r.w - 1 /\ r.y <= b /\ b < r.y + r.h
        <5>1. p \in PixelsOf(right) <=> /\ r.x + r.w - 1 <= a /\ a < r.x + r.w - 1 + 1
                                        /\ r.y <= b /\ b < r.y + r.h
          BY <2>5, <3>2, <4>1, PixelsAre
        <5> QED
          BY <1>1, <5>1
      <4>7. OnEdge(p, r) <=> a = r.x \/ a = r.x + r.w - 1 \/ b = r.y \/ b = r.y + r.h - 1
        BY <4>1 DEF OnEdge
      <4>8. (\E s \in Sides(r) : p \in PixelsOf(s)) <=>
              \/ p \in PixelsOf(up) \/ p \in PixelsOf(down)
              \/ p \in PixelsOf(left) \/ p \in PixelsOf(right)
        BY <2>6
      <4> QED
        BY <1>1, <1>3, <4>2, <4>3, <4>4, <4>5, <4>6, <4>7, <4>8
    <3> QED
      BY <3>1, <3>2
  <2>8. Sides(r) \subseteq AnyRect
    BY <2>2, <2>3, <2>4, <2>5, <2>6
  <2>9. UNION {PixelsOf(s) : s \in Sides(r)} = {q \in PixelsOf(r) : OnEdge(q, r)}
    BY <2>7
  <2> QED
    BY <2>8, <2>9
<1> QED
  BY <1>2, <1>3

LEMMA RectOutlineDraws ==
  ASSUME FramebufferInv, frame = "drawing", UNCHANGED <<hw, frame>>, NEW r \in AnyRect, RectOutline(r)
  PROVE  FramebufferInv'
<1>1. UNION {FillCells(s) : s \in Sides(r)} = {At(p) : p \in {q \in PixelsOf(r) : OnEdge(q, r)} \cap Screen}
  BY SidesAre, AllFilledAre
<1> QED
  BY <1>1, OneColourDraws DEF RectOutline

LEMMA DrawCharDraws ==
  ASSUME FramebufferInv, frame = "drawing", UNCHANGED <<hw, frame>>,
         NEW x, NEW y, NEW opaque, DrawChar(x, y, opaque)
  PROVE  FramebufferInv'
<1> DEFINE bits == {<<x + b[1], y + b[2]>> : b \in IF opaque THEN GlyphCells ELSE Glyph}
           color(p) == IF <<p[1] - x, p[2] - y>> \in Glyph THEN Lit ELSE Dark
           cells == [a \in {At(p) : p \in bits \cap Screen} |-> color(Pixel(a))]
           pixels == [p \in bits |-> color(p)]
<1>1. Stores(cells) /\ Shows(pixels)
  BY DEF DrawChar
<1>2. \A p \in bits \cap Screen : cells[At(p)] = pixels[p]
  <2> HIDE DEF bits, color
  <2> QED
    BY CellOfPixel
<1>3. DOMAIN cells = {At(p) : p \in bits \cap Screen} /\ DOMAIN pixels = bits
  OBVIOUS
<1> HIDE DEF bits, color, cells, pixels
<1> QED
  BY <1>1, <1>2, <1>3, CallDraws

LEMMA DrawCharScaledDraws ==
  ASSUME FramebufferInv, frame = "drawing", UNCHANGED <<hw, frame>>,
         NEW x \in Int, NEW y \in Int, NEW scale \in Int, DrawCharScaled(x, y, scale)
  PROVE  FramebufferInv'
<1> DEFINE squares == {[x |-> x + b[1] * scale, y |-> y + b[2] * scale, w |-> scale, h |-> scale] :
                         b \in Glyph}
           drawn == UNION {PixelsOf(r) : r \in squares}
<1>1. squares \subseteq AnyRect
  <2> SUFFICES ASSUME NEW b \in Glyph
               PROVE  [x |-> x + b[1] * scale, y |-> y + b[2] * scale, w |-> scale, h |-> scale] \in AnyRect
    OBVIOUS
  <2>1. b[1] \in Int /\ b[2] \in Int
    BY FramebufferAssumption
  <2>2. b[1] * scale \in Int /\ b[2] * scale \in Int
    BY <2>1
  <2>3. x + b[1] * scale \in Int /\ y + b[2] * scale \in Int
    BY <2>2
  <2> QED
    BY <2>3 DEF AnyRect
<1>2. /\ Stores([a \in UNION {FillCells(r) : r \in squares} |-> Lit])
      /\ Shows([p \in drawn |-> Lit])
  BY DEF DrawCharScaled
<1> HIDE DEF squares
<1>3. UNION {FillCells(r) : r \in squares} = {At(p) : p \in drawn \cap Screen}
  BY <1>1, AllFilledAre
<1> QED
  BY <1>2, <1>3, OneColourDraws

(* What is copied to a pixel is the sprite's at that place, however much   *)
(* of the sprite was clipped.                                              *)
LEMMA BlitKeyedDraws ==
  ASSUME FramebufferInv, frame = "drawing", UNCHANGED <<hw, frame>>,
         NEW x \in Int, NEW y \in Int, BlitKeyed(x, y)
  PROVE  FramebufferInv'
<1> DEFINE r  == [x |-> x, y |-> y, w |-> SpriteW, h |-> SpriteH]
           c  == Clipped(r)
           sx == IF x < 0 THEN -x ELSE 0
           sy == IF y < 0 THEN -y ELSE 0
           source(p) == SpriteAt((sy + p[2] - c.y) * SpriteW + sx + p[1] - c.x)
           color(p)  == Sprite[<<p[1] - x, p[2] - y>>]
           stored == {q \in PixelsOf(c) : source(q) # SpriteKey}
           drawn == {q \in PixelsOf(r) : color(q) # SpriteKey}
           cells == [a \in {At(p) : p \in stored} |-> source(Pixel(a))]
           pixels == [p \in drawn |-> color(p)]
<1>1. Stores(cells) /\ Shows(pixels)
  BY DEF BlitKeyed
<1>2. r \in AnyRect /\ r.x = x /\ r.y = y /\ r.w = SpriteW /\ r.h = SpriteH
  BY FbSizes DEF AnyRect
<1>3. c \in AnyRect /\ PixelsOf(c) = PixelsOf(r) \cap Screen
  BY <1>2, ClippedIs
<1>4. ASSUME NEW p \in PixelsOf(c) PROVE source(p) = color(p)
  <2>1. PICK a \in Int, b \in Int : p = <<a, b>> /\ a = p[1] /\ b = p[2]
    BY <1>3, PixelsAre
  <2>2. x <= a /\ a < x + SpriteW /\ y <= b /\ b < y + SpriteH
    BY <1>2, <1>3, <2>1, PixelsAre
  <2>3. sx - c.x = -x /\ sy - c.y = -y /\ {c.x, c.y, sx, sy} \subseteq Int
    <3>1. c # Nothing
      <4>1. c.x <= a /\ a < c.x + c.w
        BY <1>3, <2>1, PixelsAre
      <4> QED
        BY <2>1, <4>1 DEF Nothing
    <3>2. c.x = (IF x < 0 THEN 0 ELSE x) /\ c.y = (IF y < 0 THEN 0 ELSE y)
      BY <1>2, <3>1 DEF Clipped
    <3> QED
      BY <3>2
  <2>4. sy + b - c.y = b - y /\ sx + a - c.x = a - x
    BY <2>1, <2>3
  <2>5. PICK i, j : i = a - x /\ j = b - y /\ i \in 0..(SpriteW - 1) /\ j \in Nat
    BY <2>1, <2>2, FbSizes
  <2>6. PICK n : n = (sy + p[2] - c.y) * SpriteW + sx + p[1] - c.x
    OBVIOUS
  <2>7. n = j * SpriteW + i
    <3>1. PICK m : m = (sy + p[2] - c.y) * SpriteW /\ m = j * SpriteW /\ m \in Int
      BY <2>1, <2>4, <2>5, FbSizes
    <3>2. n = m + sx + a - c.x
      BY <2>1, <2>6, <3>1
    <3>3. n = m + i
      BY <2>1, <2>3, <2>4, <2>5, <3>1, <3>2
    <3> QED
      BY <3>1, <3>3
  <2>8. n % SpriteW = i /\ n \div SpriteW = j
    BY <2>5, <2>7, FbSizes, Division
  <2> QED
    BY <2>1, <2>5, <2>6, <2>8 DEF SpriteAt
<1> HIDE DEF r, c, source, color
<1>5. stored = drawn \cap Screen
  BY <1>3, <1>4
<1>6. \A p \in drawn \cap Screen : cells[At(p)] = pixels[p]
  <2> SUFFICES ASSUME NEW p \in drawn \cap Screen PROVE cells[At(p)] = pixels[p]
    OBVIOUS
  <2>1. p \in stored /\ p \in Screen /\ p \in PixelsOf(c)
    BY <1>5
  <2>2. cells[At(p)] = source(Pixel(At(p)))
    BY <2>1
  <2>3. cells[At(p)] = source(p)
    BY <2>1, <2>2, CellOfPixel
  <2> QED
    BY <1>4, <2>1, <2>3
<1>7. DOMAIN cells = {At(p) : p \in drawn \cap Screen} /\ DOMAIN pixels = drawn
  BY <1>5
<1> HIDE DEF stored, drawn, cells, pixels
<1> QED
  BY <1>1, <1>6, <1>7, CallDraws

LEMMA FbClearDraws ==
  ASSUME FramebufferInv, frame = "drawing", UNCHANGED <<hw, frame>>, FbClear
  PROVE  FramebufferInv'
<1>1. Buffer = {At(p) : p \in Screen \cap Screen}
  <2>1. ASSUME NEW a \in Buffer PROVE \E p \in Screen : At(p) = a
    <3>1. a \in Nat /\ a < width * height
      BY <2>1, FbSizes DEF Buffer
    <3>2. PICK q, k : q = a \div width /\ k = a % width /\ q \in Nat /\ k \in 0..(width - 1) /\ a = width * q + k
      <4>1. a \div width \in Nat /\ (a % width) \in 0..(width - 1) /\ a = width * (a \div width) + (a % width)
        BY <3>1, FbSizes
      <4> QED
        BY <4>1
    <3>3. q < height
      <4>1. CASE q >= height
        <5>1. width * q >= width * height
          BY <3>2, <4>1, FbSizes
        <5>2. width * q \in Nat
          BY <3>2, FbSizes
        <5> QED
          BY <3>1, <3>2, <5>1, <5>2, FbSizes
      <4> QED
        BY <3>2, <4>1, FbSizes
    <3>4. <<k, q>> \in Screen /\ At(<<k, q>>) = a
      <4>1. width * q = q * width /\ width * q \in Nat
        BY <3>2, FbSizes
      <4>2. At(<<k, q>>) = q * width + k
        BY DEF At
      <4> QED
        BY <3>2, <3>3, <4>1, <4>2, FbSizes DEF Screen
    <3> QED
      BY <3>4
  <2> QED
    BY <2>1, CellOfPixel
<1> QED
  BY <1>1, OneColourDraws DEF FbClear

(* The rows of the screen, as long as they are, hold a row of pixels each. *)
LEMMA PresentShows ==
  ASSUME FramebufferInv, Present
  PROVE  FramebufferInv'
<1>1. ASSUME NEW a \in VideoMemory, a % pitch_px < width
      PROVE  <<a % pitch_px, a \div pitch_px>> \in Screen
  <2>1. a \in Nat /\ a < pitch_px * height
    <3>1. pitch_px * height \in Nat
      BY FbSizes
    <3> QED
      BY <3>1 DEF VideoMemory
  <2>2. PICK q, k : /\ q = a \div pitch_px /\ k = a % pitch_px
                    /\ q \in Nat /\ k \in 0..(pitch_px - 1) /\ a = pitch_px * q + k
    <3>1. /\ a \div pitch_px \in Nat /\ (a % pitch_px) \in 0..(pitch_px - 1)
          /\ a = pitch_px * (a \div pitch_px) + (a % pitch_px)
      BY <2>1, FbSizes
    <3> QED
      BY <3>1
  <2>3. q < height
    <3>1. CASE q >= height
      <4>1. pitch_px * q >= pitch_px * height /\ pitch_px * height \in Nat
        BY <2>2, <3>1, FbSizes
      <4>2. pitch_px * q \in Nat
        BY <2>2, FbSizes
      <4> QED
        BY <2>1, <2>2, <4>1, <4>2, FbSizes
    <3> QED
      BY <2>2, <3>1, FbSizes
  <2> QED
    BY <1>1, <2>2, <2>3, FbSizes DEF Screen
<1>2. ASSUME NEW a \in VideoMemory
      PROVE  hw'[a] = IF a % pitch_px < width THEN picture[<<a % pitch_px, a \div pitch_px>>] ELSE NotOurs
  BY <1>1, <1>2 DEF FramebufferInv, ClipExact, Present
<1> QED
  BY <1>2 DEF FramebufferInv, ClipExact, Present

(* The screen shows what was drawn of the picture, and nothing is stored   *)
(* in the heap beside the buffer.                                          *)
THEOREM DrawingStaysInTheBuffer == FbSpec => []ClipExact
<1>1. FbInit => FramebufferInv
  <2> SUFFICES ASSUME FbInit PROVE FramebufferInv
    OBVIOUS
  <2>1. Buffer \subseteq Memory
    BY BufferInMemory
  <2> QED
    BY <2>1, CellOfPixel DEF FbInit, FramebufferInv, ClipExact
<1>2. FramebufferInv /\ [FbNext]_fbVars => FramebufferInv'
  <2> SUFFICES ASSUME FramebufferInv, [FbNext]_fbVars PROVE FramebufferInv'
    OBVIOUS
  <2>1. CASE Present
    BY <2>1, PresentShows
  <2>2. CASE Draw
    <3>1. frame = "drawing" /\ UNCHANGED <<hw, frame>>
      BY <2>2 DEF Draw
    <3>2. ASSUME NEW r \in Rectangles, FillRect(r) \/ RectOutline(r) PROVE FramebufferInv'
      <4>1. r \in AnyRect
        BY FramebufferAssumption DEF Rectangles, AnyRect
      <4> QED
        BY <3>1, <3>2, <4>1, FillRectDraws, RectOutlineDraws
    <3>3. ASSUME NEW x \in Lefts, NEW y \in Tops, PutPixel(x, y) \/ BlitKeyed(x, y) PROVE FramebufferInv'
      <4>1. x \in Int /\ y \in Int
        BY FramebufferAssumption
      <4> QED
        BY <3>1, <3>3, <4>1, PutPixelDraws, BlitKeyedDraws
    <3>4. ASSUME NEW x \in Lefts, NEW y \in Tops, NEW opaque \in BOOLEAN, DrawChar(x, y, opaque)
          PROVE  FramebufferInv'
      BY <3>1, <3>4, DrawCharDraws
    <3>5. ASSUME NEW x \in Lefts, NEW y \in Tops, NEW scale \in Scales, DrawCharScaled(x, y, scale)
          PROVE  FramebufferInv'
      <4>1. x \in Int /\ y \in Int /\ scale \in Int
        BY FramebufferAssumption
      <4> QED
        BY <3>1, <3>5, <4>1, DrawCharScaledDraws
    <3>6. CASE FbClear
      BY <3>1, <3>6, FbClearDraws
    <3> QED
      BY <2>2, <3>2, <3>3, <3>4, <3>5, <3>6 DEF Draw
  <2>3. CASE UNCHANGED fbVars
    BY <2>3 DEF fbVars, FramebufferInv, ClipExact
  <2> QED
    BY <2>1, <2>2, <2>3 DEF FbNext
<1>3. FramebufferInv => ClipExact
  BY DEF FramebufferInv
<1> QED
  BY <1>1, <1>2, <1>3, PTL DEF FbSpec
=============================================================================
