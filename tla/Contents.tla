------------------------------ MODULE Contents ------------------------------
(***************************************************************************)
(* The contents of VFS files (src/kernel/vfs.cpp) in the kernel heap:      *)
(* ensure_cap moves a text that outgrows its buffer to one of twice the    *)
(* size, and kmalloc may have none.                                        *)
(*                                                                         *)
(* file[f] holds the node's content, len and cap; memory is every byte of  *)
(* the heap, those of freed blocks and of other clients included.  written *)
(* (history) is the text the file should hold: what was written to it, by  *)
(* calls that returned true.                                               *)
(***************************************************************************)
EXTENDS Heap, Sequences

CONSTANTS Files,
          Letters,     \* what is typed, neither Nul nor Other
          Texts,       \* what mkfile_at and diskfs_init write, never empty
          FirstCap,    \* 64, the size of a first buffer
          MaxLen,      \* bound: the longest text
          ClientSize   \* the bytes another client of the heap asks for

Characters == Letters \union UNION {{text[i] : i \in DOMAIN text} : text \in Texts}

ASSUME ContentsAssumption == /\ {FirstCap, ClientSize} \subseteq Nat \ {0}
                             /\ Texts \subseteq Seq(Characters)

Nul == "NUL"
Other == "other"
Null == 0

VARIABLES file, memory, written

contents == <<file, memory, written>>

Node(content, len, cap) == [content |-> content, len |-> len, cap |-> cap]

\* alloc_node's file nodes, before anything is written to them
ContentsInit == /\ Init
                /\ file = [f \in Files |-> Node(Null, 0, 0)]
                /\ memory = [a \in Start..(End - 1) |-> Other]
                /\ written = [f \in Files |-> <<>>]

Buffers == {file[f].content : f \in Files} \ {Null}
ClientBlocks == DOMAIN given \ Buffers

-----------------------------------------------------------------------------

\* The bytes a text of len characters needs, with the NUL behind it, and
\* without it.
NeededBare(len) == len
Needed(len) == len + 1

\* cap is doubled until it is enough.
Doubled(cap, need) ==
  LET double[c \in Nat] == IF c >= need THEN c ELSE double[2 * c]
  IN  double[IF cap = 0 THEN FirstCap ELSE cap]

\* A copy of len bytes, and a text with a NUL behind it stored at an address;
\* bytes outside the heap are not looked at.
Copied(mem, from, to, len) ==
  [a \in DOMAIN mem |-> IF a \in to..(to + len - 1) THEN mem[from + a - to] ELSE mem[a]]
Stored(mem, at, text) ==
  [a \in DOMAIN mem |-> IF a \in at..(at + Len(text) - 1) THEN text[a - at + 1]
                        ELSE IF a = at + Len(text) THEN Nul ELSE mem[a]]

\* The heap without n's old buffer, which is freed after the copy
Released(h, n) == IF n.content = Null THEN h ELSE Freed(h, n.content - HeaderSize)

\* What ensure_cap(f, need) leaves: nothing, when kmalloc has no block.
Ensured(f, need) ==
  LET n == file[f]
      cap == Doubled(n.cap, need)
      fits == [header |-> header, given |-> given, memory |-> memory, node |-> n]
      moved(b) == [header |-> Released(Taken(header, b, Rounded(cap)), n),
                   given  |-> Giving(Without(given, n.content), Pointer(b), cap),
                   memory |-> Copied(memory, n.content, Pointer(b), n.len),
                   node   |-> Node(Pointer(b), n.len, cap)]
  IN  IF n.cap >= need THEN {fits} ELSE {moved(b) : b \in FirstFit(Rounded(cap))}

\* e.node takes text from position len on.
Store(f, e, len, text) ==
  /\ header' = e.header
  /\ given' = e.given
  /\ memory' = Stored(e.memory, e.node.content + len, text)
  /\ file' = [file EXCEPT ![f] = [e.node EXCEPT !.len = len + Len(text)]]

VfsWrite(f, text) ==
  \E e \in Ensured(f, Needed(Len(text))) :
    /\ Store(f, e, 0, text)
    /\ written' = [written EXCEPT ![f] = text]

VfsAppendChar(f, c) ==
  \E e \in Ensured(f, Needed(file[f].len + 1)) :
    /\ Store(f, e, file[f].len, <<c>>)
    /\ written' = [written EXCEPT ![f] = Append(@, c)]

VfsPopChar(f) ==
  /\ file[f].len > 0
  /\ file' = [file EXCEPT ![f].len = @ - 1]
  /\ memory' = Stored(memory, file[f].content + file[f].len - 1, <<>>)
  /\ written' = [written EXCEPT ![f] = SubSeq(@, 1, Len(@) - 1)]
  /\ UNCHANGED vars

\* Another client of the heap: a process' PCB, filled by its owner
ClientTakes ==
  /\ ClientBlocks = {}
  /\ Kmalloc(ClientSize)
  /\ memory' = [a \in DOMAIN memory |->
                  IF \E p \in DOMAIN given' \ DOMAIN given : a \in p..(p + ClientSize - 1)
                  THEN Other ELSE memory[a]]
  /\ UNCHANGED <<file, written>>

ClientFrees == \E p \in ClientBlocks : Kfree(p) /\ UNCHANGED contents

ContentsNext ==
  \/ \E f \in Files : \/ \E text \in Texts : VfsWrite(f, text)
                      \/ \E c \in Letters : file[f].len < MaxLen /\ VfsAppendChar(f, c)
                      \/ VfsPopChar(f)
  \/ ClientTakes
  \/ ClientFrees

ContentsSpec == ContentsInit /\ [][ContentsNext]_<<vars, contents>>

-----------------------------------------------------------------------------

(* A file's text is the one written to it, whatever was moved, freed and   *)
(* reused in between and also after a growth that failed; it ends in a NUL *)
(* inside the buffer, which is a block of the heap of the size the node    *)
(* says and no other node's; and nothing is stored in another client's.    *)
TextKept ==
  /\ \A f \in Files :
       LET n == file[f]
       IN  /\ n.len = Len(written[f])
           /\ n.content # Null =>
                /\ n.content \in DOMAIN given /\ given[n.content] = n.cap
                /\ \A i \in 1..n.len : memory[n.content + i - 1] = written[f][i]
                /\ n.content + n.len \in Bytes(n.content) /\ memory[n.content + n.len] = Nul
           /\ \A g \in Files \ {f} : n.content = Null \/ file[g].content # n.content
  /\ \A p \in ClientBlocks : \A a \in Bytes(p) : memory[a] = Other
=============================================================================
