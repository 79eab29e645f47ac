------------------------------- MODULE Paging -------------------------------
(***************************************************************************)
(* src/kernel/paging.cpp over the page allocator of PhysMem: the four      *)
(* levels of tables, which paging_map extends with pages from              *)
(* pmm_alloc_page and no call gives back.                                  *)
(*                                                                         *)
(* A virtual page is the four indices its address is taken apart into.     *)
(* The addresses boot.asm maps with 2 MiB pages, the first 4 GiB, are not  *)
(* in Virtual: paging.cpp does not look at an entry's size bit and would   *)
(* take such a page for a table.  A call is as many steps as it visits     *)
(* levels; no other call comes between them.                               *)
(***************************************************************************)
EXTENDS PhysMem, Sequences

CONSTANTS Indices,    \* a part of the 512 entries of a table
          Virtual,    \* virtual pages: sequences of four indices
          Frames,     \* the physical pages they are mapped to, not 0
          P4, P3      \* p4_table and p3_table, in the kernel's image

ASSUME VirtualAssumption == /\ Virtual \subseteq [1..4 -> Indices]
                            /\ 0 \notin Frames /\ P4 # P3
                            /\ 0 \in Indices

\* The loader has put the kernel, which the boot's tables are in, into memory
\* its map describes.
ASSUME BootTablesAssumption ==
  \A map \in MemoryMaps :
    {P4, P3} \subseteq (KernelStart..(BitmapPage - 1)) \intersect (1..(TotalPages(map) - 1))

VARIABLES entries,    \* the tables there are, and what is in them
          mapped,     \* for each virtual page, what paging_map was last told
          call        \* the paging_map that is under way

pagingVars == <<vars, entries, mapped, call>>

None == 0
Absent == [to |-> None, present |-> FALSE]
Entry(page, present) == [to |-> page, present |-> present]
Idle == [level |-> 0]

\* paging_init keeps the tables boot.asm made.
PagingInit ==
  /\ Init
  /\ entries = [t \in {P4, P3} |-> [i \in Indices |-> IF t = P4 /\ i = 0 THEN Entry(P3, TRUE)
                                                     ELSE Absent]]
  /\ mapped = [v \in Virtual |-> None]
  /\ call = Idle

-----------------------------------------------------------------------------
(* get_or_create_pte.                                                      *)

At == entries[call.at][call.v[call.level]]

\* A paging_map is called, to be served from the top level down.
Map(v, frame, present) ==
  /\ boot = "run" /\ call = Idle
  /\ call' = [level |-> 1, at |-> P4, v |-> v, frame |-> frame, present |-> present]
  /\ UNCHANGED <<vars, entries, mapped>>

Descend == /\ call.level \in 1..3
           /\ At.present
           /\ call' = [call EXCEPT !.level = @ + 1, !.at = At.to]
           /\ UNCHANGED <<vars, entries, mapped>>

\* An alloc_page_table that does not clear the page: it holds what its last
\* user left there.
DirtyTable(p) == [i \in Indices |-> Entry(P3, TRUE)]

\* alloc_page_table clears the page.
NewTable(p) == [i \in Indices |-> Absent]

CreateTable ==
  /\ call.level \in 1..3
  /\ ~At.present
  /\ \E p \in Scanned :
       /\ AllocPageIs(p)
       /\ entries' = [t \in DOMAIN entries \union {p} |->
                        IF t = p THEN NewTable(p)
                        ELSE IF t = call.at
                             THEN [entries[t] EXCEPT ![call.v[call.level]] = Entry(p, TRUE)]
                             ELSE entries[t]]
       /\ call' = [call EXCEPT !.level = @ + 1, !.at = p]
  /\ UNCHANGED mapped

\* Without a page for a table paging_map returns false, and the tables it has
\* linked stay.
OutOfPages == /\ call.level \in 1..3
              /\ ~At.present
              /\ Scanned \subseteq page_bitmap
              /\ call' = Idle
              /\ UNCHANGED <<vars, entries, mapped>>

StoreEntry == /\ call.level = 4
              /\ entries' = [entries EXCEPT ![call.at][call.v[4]] = Entry(call.frame, call.present)]
              /\ mapped' = [mapped EXCEPT ![call.v] = IF call.present THEN call.frame ELSE None]
              /\ call' = Idle
              /\ UNCHANGED vars

\* The last-level table a virtual page is in, None if it is in none.
Below(t, i) == IF t # None /\ entries[t][i].present THEN entries[t][i].to ELSE None
LeafTable(v) == Below(Below(Below(P4, v[1]), v[2]), v[3])

\* paging_unmap looks and creates nothing.
Unmap(v) == /\ call = Idle /\ LeafTable(v) # None
            /\ entries' = [entries EXCEPT ![LeafTable(v)][v[4]] = Absent]
            /\ mapped' = [mapped EXCEPT ![v] = None]
            /\ UNCHANGED <<vars, call>>

\* paging_get_physical
GetPhysical(v) == Below(LeafTable(v), v[4])

-----------------------------------------------------------------------------

\* The other users of the allocator, who free what they were given.
OtherPages == /\ call = Idle
              /\ \/ HeapInit \/ AllocPage
                 \/ \E b \in held : /\ b[2] = 1 /\ b[1] \notin DOMAIN entries
                                    /\ boot = "run" /\ FreePage(b)
              /\ UNCHANGED <<entries, mapped, call>>

PagingNext == \/ \E v \in Virtual, f \in Frames, present \in BOOLEAN : Map(v, f, present)
              \/ Descend \/ CreateTable \/ OutOfPages \/ StoreEntry
              \/ \E v \in Virtual : Unmap(v)
              \/ OtherPages

PagingSpec == PagingInit /\ [][PagingNext]_pagingVars

-----------------------------------------------------------------------------

(* A virtual page leads to the frame of the last paging_map that           *)
(* succeeded, and to none after paging_unmap: no call for another page,    *)
(* none that failed half-way, and no page that was used for something else *)
(* before it became a table changes where it leads.                        *)
Translates == \A v \in Virtual : GetPhysical(v) = mapped[v]

LinksFrom(T) == {l \in T \X Indices : entries[l[1]][l[2]].present}
LinkedFrom(T) == {entries[l[1]][l[2]].to : l \in LinksFrom(T)}

(* The tables are a tree: each is in one entry of one table of the level   *)
(* above, also those left by a paging_map that failed, and each but the    *)
(* boot's own is a page the allocator counts as handed out, so that it is  *)
(* no one else's and none is lost.                                         *)
TablesApart ==
  LET level2 == LinkedFrom({P4})
      level3 == LinkedFrom(level2)
      level4 == LinkedFrom(level3)
      links  == LinksFrom({P4} \union level2 \union level3)
  IN  /\ DOMAIN entries = {P4} \union level2 \union level3 \union level4
      /\ \A k, l \in links : entries[k[1]][k[2]] = entries[l[1]][l[2]] => k = l
      /\ \A t \in DOMAIN entries \ {P4, P3} : <<t, 1>> \in held
      /\ \A t \in DOMAIN entries : t \in page_bitmap
=============================================================================
