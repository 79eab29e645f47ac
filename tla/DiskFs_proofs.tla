--------------------------- MODULE DiskFs_proofs ----------------------------
(***************************************************************************)
(* What diskfs.cpp has reported saved is kept, and no save writes into     *)
(* another file, for every set of files, number of slots, size of a slot   *)
(* and every contents an editor can give a file.                           *)
(*                                                                         *)
(* SavedSurvives speaks of a boot that may come at any time; that it is    *)
(* kept rests on the superblock in memory: it has the entry of every file  *)
(* that is safe just as the disk has it, until a save of that file begins, *)
(* and a save has taken a slot no other file is in before it writes        *)
(* anything.                                                               *)
(***************************************************************************)
EXTENDS DiskFs, SequenceTheorems, TLAPS

Distinct(sb) == \A i, j \in Slots : i < j /\ j < sb.count
                                    => sb.entries[i].path # sb.entries[j].path

\* While the kernel runs its superblock extends the one on the disk.
Extends == g_loaded /\ super.magic =>
             /\ super.count <= g_super.count
             /\ \A i \in Slots : i < super.count
                  => super.entries[i].path = g_super.entries[i].path

Typed == /\ TypeOK
         /\ DOMAIN text = Files /\ DOMAIN safe = Files

Booted == /\ pc = "off" => ~g_loaded
          /\ g_loaded => g_super.magic
          /\ ~super.magic => super.count = 0

\* A save owns its slot, and what it wrote is there.
SaveOwns ==
  pc \in {"copy", "data", "super"} =>
    /\ g_loaded
    /\ save.slot < g_super.count
    /\ g_super.entries[save.slot].path = save.file
    /\ pc = "copy" => save.sector = 1
    /\ pc = "data" => \A s \in 1..Sectors : s < save.sector => data[save.slot][s] = buf[s]
    /\ pc = "super" => /\ data[save.slot] = buf
                       /\ ~Untouched(save.file)

\* A save of f is under way.
Saving(f) == pc \in {"copy", "data", "super"} /\ save.file = f

\* Slot i is f's, and holds what was reported saved of it, but for what later
\* saves have written over.
Keeps(i, f) == /\ i < super.count
               /\ super.entries[i].path = f
               /\ \A s \in 1..Sectors : safe[f].rewritten < s => data[i][s] = safe[f].image[s]
               /\ Untouched(f) =>
                    /\ super.entries[i].size = safe[f].size
                    /\ g_loaded /\ ~Saving(f) => g_super.entries[i] = super.entries[i]

SafeKept == \A f \in Files : safe[f] # Unsure =>
              super.magic /\ \E i \in Slots : Keeps(i, f)

IInv == /\ Typed
        /\ Distinct(super) /\ Distinct(g_super) /\ Extends
        /\ Booted /\ SaveOwns /\ SafeKept

-----------------------------------------------------------------------------

LEMMA LeastBelow ==
  ASSUME NEW x \in Nat, NEW y \in Nat
  PROVE  /\ Least(x, y) \in 0..x /\ Least(x, y) \in 0..y
         /\ Least(x, y) \in Nat /\ Least(x, y) <= y
BY DEF Least

\* What a file's content is made of, whoever wrote it.
LEMMA TextTyped ==
  ASSUME TypeOK, NEW f \in Files
  PROVE  /\ Len(text[f]) \in Nat
         /\ \A s \in 1..Len(text[f]) : text[f][s] \in Blocks \union {Nul}
<1>1. CASE text[f] \in Texts
  <2>1. text[f] \in Seq(Blocks)
    BY <1>1, DiskAssumption
  <2> QED
    BY <2>1
<1>2. ASSUME NEW n \in 1..Sectors, text[f] \in [1..n -> Blocks \union {Nul}]
      PROVE  /\ Len(text[f]) \in Nat
             /\ \A s \in 1..Len(text[f]) : text[f][s] \in Blocks \union {Nul}
  <2>1. n \in Nat
    BY DiskAssumption
  <2>2. text[f] \in Seq(Blocks \union {Nul})
    BY <1>2, <2>1, SeqDef
  <2> QED
    BY <2>2
<1> QED
  BY <1>1, <1>2 DEF TypeOK

(* A superblock without duplicates has one entry of a file at most.        *)
LEMMA OneEntry ==
  ASSUME NEW sb \in SuperBlocks, Distinct(sb),
         NEW i \in Slots, NEW j \in Slots, i < sb.count, j < sb.count,
         sb.entries[i].path = sb.entries[j].path
  PROVE  i = j
<1>1. i \in Nat /\ j \in Nat
  BY DiskAssumption DEF Slots
<1> QED
  BY <1>1 DEF Distinct

(* A boot takes a file's contents from its entry.                          *)
LEMMA RestoredFrom ==
  ASSUME TypeOK, Distinct(super), NEW f \in Files, EntriesOf(super, f) # {}
  PROVE  \E i \in EntriesOf(super, f) :
           /\ EntriesOf(super, f) = {i}
           /\ Restored(f) = [s \in 1..super.entries[i].size |-> data[i][s]]
<1>1. PICK i : i \in EntriesOf(super, f)
  OBVIOUS
<1>2. ASSUME NEW j \in EntriesOf(super, f) PROVE j = i
  BY <1>1, OneEntry DEF EntriesOf, TypeOK
<1>3. EntriesOf(super, f) = {i} /\ i \in Nat
  BY <1>1, <1>2, DiskAssumption DEF EntriesOf, Slots
<1> DEFINE last == CHOOSE j \in EntriesOf(super, f) : \A l \in EntriesOf(super, f) : l <= j
<1>4. last = i
  BY <1>3
<1>5. Restored(f) = [s \in 1..super.entries[last].size |-> data[last][s]]
  BY Zenon DEF Restored
<1>6. Restored(f) = [s \in 1..super.entries[i].size |-> data[i][s]]
  <2> HIDE DEF last
  <2> QED
    BY <1>4, <1>5
<1> QED
  BY <1>1, <1>3, <1>6

LEMMA RestoredTyped ==
  ASSUME TypeOK, Distinct(super), NEW f \in Files
  PROVE  \/ Restored(f) \in Texts
         \/ \E n \in 1..Sectors : Restored(f) \in [1..n -> Blocks \union {Nul}]
<1>1. CASE EntriesOf(super, f) = {}
  BY <1>1, DiskAssumption DEF Restored
<1>2. CASE EntriesOf(super, f) # {}
  <2>1. PICK i \in EntriesOf(super, f) :
          Restored(f) = [s \in 1..super.entries[i].size |-> data[i][s]]
    BY <1>2, RestoredFrom
  <2>2. i \in Slots /\ super \in SuperBlocks /\ super.entries[i].size # 0
    BY DEF EntriesOf, TypeOK
  <2>3. super.entries[i].size \in 1..Sectors
    BY <2>2, DiskAssumption DEF SuperBlocks, Entries
  <2>4. data[i] \in [1..Sectors -> Blocks \union {Nul}]
    BY <2>2 DEF TypeOK, Images
  <2>5. Restored(f) \in [1..super.entries[i].size -> Blocks \union {Nul}]
    BY <2>1, <2>3, <2>4, DiskAssumption
  <2> QED
    BY <2>3, <2>5
<1> QED
  BY <1>1, <1>2

LEMMA BlankTyped ==
  ASSUME NEW magic \in BOOLEAN
  PROVE  Blank(magic) \in SuperBlocks /\ Distinct(Blank(magic))
         /\ Blank(magic).magic = magic /\ Blank(magic).count = 0
<1>1. Blank(magic) \in SuperBlocks
  BY DiskAssumption DEF Blank, SuperBlocks, Entries
<1>2. Blank(magic).magic = magic /\ Blank(magic).count = 0
  BY DEF Blank
<1>3. Distinct(Blank(magic))
  BY <1>2, DiskAssumption DEF Distinct, Slots
<1> QED
  BY <1>1, <1>2, <1>3

-----------------------------------------------------------------------------
(* One lemma per action: the step preserves the invariant.                 *)

LEMMA PowerOffStep ==
  ASSUME IInv, PowerOff
  PROVE  IInv'
<1> USE DEF IInv, PowerOff, disk
<1>1. Blank(FALSE) \in SuperBlocks /\ Distinct(Blank(FALSE))
  BY BlankTyped
<1>2. Cleared \in Images
  BY DEF Cleared, Images
<1>3. Typed'
  <2>1. \A f \in Files : text'[f] \in Texts
    BY DiskAssumption
  <2>2. DOMAIN text' = Files
    BY DiskAssumption
  <2> QED
    BY <1>1, <1>2, <2>1, <2>2 DEF Typed, TypeOK
<1>4. Distinct(super)' /\ Distinct(g_super)'
  BY <1>1 DEF Distinct
<1>5. Extends' /\ Booted' /\ SaveOwns'
  BY DEF Extends, Booted, SaveOwns
<1>6. SafeKept'
  <2>1. ~g_loaded' /\ super' = super /\ data' = data /\ safe' = safe
    OBVIOUS
  <2>2. ASSUME NEW f \in Files, NEW i \in Slots, Keeps(i, f) PROVE Keeps(i, f)'
    BY <2>1, <2>2 DEF Keeps, Untouched
  <2> QED
    BY <2>1, <2>2 DEF SafeKept
<1> QED
  BY <1>3, <1>4, <1>5, <1>6

LEMMA BootForeignStep ==
  ASSUME IInv, BootForeign
  PROVE  IInv'
<1> USE DEF IInv, BootForeign
<1>1. /\ Blank(TRUE) \in SuperBlocks /\ Distinct(Blank(TRUE))
      /\ Blank(TRUE).magic = TRUE /\ Blank(TRUE).count = 0
  BY BlankTyped
<1>2. \A f \in Files : safe[f] = Unsure
  BY DEF SafeKept
<1>3. Typed'
  BY <1>1 DEF Typed, TypeOK
<1>4. Distinct(super)' /\ Distinct(g_super)'
  BY <1>1 DEF Distinct
<1>5. Extends'
  <2>1. \A i \in Slots : ~(i < 0)
    BY DiskAssumption DEF Slots
  <2>2. super'.magic => super'.count = 0
    BY <1>1
  <2>3. g_super'.count = 0
    BY <1>1
  <2> QED
    BY ONLY <2>1, <2>2, <2>3 DEF Extends
<1>6. Booted' /\ SaveOwns'
  BY <1>1 DEF Booted, SaveOwns
<1>7. SafeKept'
  BY <1>2 DEF SafeKept
<1> QED
  BY <1>3, <1>4, <1>5, <1>6, <1>7

LEMMA BootRestoreStep ==
  ASSUME IInv, BootRestore
  PROVE  IInv'
<1> USE DEF IInv, BootRestore, disk
<1>1. Typed'
  <2>1. ASSUME NEW f \in Files
        PROVE  \/ text'[f] \in Texts
               \/ \E n \in 1..Sectors : text'[f] \in [1..n -> Blocks \union {Nul}]
    <3>1. text'[f] = Restored(f) \/ text'[f] = Default[f]
      OBVIOUS
    <3> QED
      BY <3>1, RestoredTyped, DiskAssumption DEF Typed
  <2>2. DOMAIN text' = Files
    OBVIOUS
  <2> QED
    BY <2>1, <2>2 DEF Typed, TypeOK
<1>2. Distinct(super)' /\ Distinct(g_super)'
  BY DEF Distinct
<1>3. Extends'
  <2>1. super.count \in Nat
    BY DiskAssumption DEF Typed, TypeOK, SuperBlocks
  <2> QED
    BY <2>1 DEF Extends
<1>4. Booted' /\ SaveOwns'
  BY DEF Booted, SaveOwns
<1>5. SafeKept'
  BY DEF SafeKept, Keeps, Untouched
<1> QED
  BY <1>1, <1>2, <1>3, <1>4, <1>5

LEMMA KeyStep ==
  ASSUME IInv, NEW f \in Files, Key(f)
  PROVE  IInv'
<1> USE DEF IInv, Key, disk, memory
<1>1. PICK t \in Texts : text' = [text EXCEPT ![f] = t]
  OBVIOUS
<1>2. Typed'
  <2>1. DOMAIN text' = Files /\ \A g \in Files : text'[g] = t \/ text'[g] = text[g]
    BY <1>1 DEF Typed
  <2> QED
    BY <2>1 DEF Typed, TypeOK
<1>3. Distinct(super)' /\ Distinct(g_super)' /\ Extends' /\ Booted' /\ SaveOwns' /\ SafeKept'
  BY DEF Distinct, Extends, Booted, SaveOwns, SafeKept, Keeps, Saving, Untouched
<1> QED
  BY <1>2, <1>3

(* The slot a save takes is the file's own, or the first that is unused.   *)
LEMMA SlotTaken ==
  ASSUME IInv, NEW f \in Files
  PROVE  \/ /\ SlotOf(f) = g_super.count
            /\ \A i \in Slots : i < g_super.count => g_super.entries[i].path # f
         \/ /\ SlotOf(f) \in Slots /\ SlotOf(f) < g_super.count
            /\ g_super.entries[SlotOf(f)].path = f
<1> DEFINE found == {i \in Slots : i < g_super.count /\ g_super.entries[i].path = f}
<1>1. CASE found = {}
  BY <1>1 DEF SlotOf
<1>2. CASE found # {}
  <2>1. PICK i : i \in found
    BY <1>2
  <2>2. \A j \in found : j = i
    BY <2>1, OneEntry DEF IInv, Typed, TypeOK
  <2>3. i \in Nat
    BY <2>1, DiskAssumption DEF Slots
  <2>4. (CHOOSE j \in found : \A l \in found : j <= l) = i
    BY <2>1, <2>2, <2>3
  <2>5. SlotOf(f) = i
    BY <1>2, <2>4 DEF SlotOf
  <2> QED
    BY <2>1, <2>5
<1> QED
  BY <1>1, <1>2

LEMMA SaveBeginStep ==
  ASSUME IInv, NEW f \in Files, SaveBegin(f)
  PROVE  IInv'
<1> DEFINE slot  == SlotOf(f)
           entry == [path |-> f, size |-> Least(Len(text[f]), Sectors)]
           count == IF slot = g_super.count THEN g_super.count + 1 ELSE g_super.count
<1>1. /\ pc = "idle" /\ g_loaded /\ slot < MaxFiles
      /\ g_super' = [g_super EXCEPT !.count = IF slot = @ THEN @ + 1 ELSE @,
                                    !.entries[slot] = entry]
      /\ pc' = "copy" /\ save' = [file |-> f, slot |-> slot, sector |-> 1]
      /\ UNCHANGED <<disk, g_loaded, text, buf, safe>>
  BY DEF SaveBegin
<1>2. /\ g_super \in SuperBlocks /\ g_super.count \in Nat /\ g_super.count <= MaxFiles
      /\ super \in SuperBlocks /\ super.count \in Nat
      /\ MaxFiles \in Nat /\ \A i \in Slots : i \in Nat
  BY DiskAssumption DEF IInv, Typed, TypeOK, SuperBlocks, Slots
<1>3. slot \in Slots /\ slot <= g_super.count
  BY <1>1, <1>2, SlotTaken DEF Slots
<1>4. entry \in Entries /\ entry.path = f
  <2>1. Len(text[f]) \in Nat /\ Sectors \in Nat
    BY TextTyped, DiskAssumption DEF IInv, Typed
  <2>2. Least(Len(text[f]), Sectors) \in 0..Sectors
    BY <2>1, LeastBelow
  <2> QED
    BY <2>2 DEF Entries
<1> HIDE DEF entry
<1>5. /\ g_super' \in SuperBlocks
      /\ g_super'.magic = g_super.magic
      /\ g_super'.count = count
      /\ g_super'.entries[slot] = entry
      /\ \A i \in Slots : i # slot => g_super'.entries[i] = g_super.entries[i]
  <2> HIDE DEF slot
  <2>1. g_super.entries \in [Slots -> Entries] /\ g_super.magic \in BOOLEAN
    BY <1>2 DEF SuperBlocks
  <2>2. g_super' = [magic |-> g_super.magic, count |-> count,
                    entries |-> [g_super.entries EXCEPT ![slot] = entry]]
    BY <1>1, <1>2 DEF SuperBlocks
  <2>3. count \in 0..MaxFiles
    BY <1>1, <1>2
  <2>4. [g_super.entries EXCEPT ![slot] = entry] \in [Slots -> Entries]
    BY <1>4, <2>1
  <2> HIDE DEF count
  <2>5. g_super' \in SuperBlocks
    BY <2>1, <2>2, <2>3, <2>4 DEF SuperBlocks
  <2> QED
    BY <1>3, <2>1, <2>2, <2>5
<1>6. count \in Nat /\ slot < count /\ g_super.count <= count
      /\ \A i \in Slots : i < count => i < g_super.count \/ i = slot
  BY <1>2, <1>3
<1> HIDE DEF count
<1>7. \A i \in Slots : i < g_super.count /\ i # slot => g_super.entries[i].path # f
  <2>1. ASSUME NEW i \in Slots, i < g_super.count, i # slot, g_super.entries[i].path = f
        PROVE  FALSE
    BY <1>2, <2>1, SlotTaken, OneEntry DEF IInv
  <2> QED
    BY <2>1
<1>8. \A i \in Slots : i < g_super.count => g_super'.entries[i].path = g_super.entries[i].path
  BY <1>2, <1>4, <1>5, SlotTaken
<1> HIDE DEF slot
<1>9. Typed'
  <2>1. save' \in Saves
    BY <1>1, <1>3, DiskAssumption DEF Saves
  <2> QED
    BY <1>1, <1>5, <2>1 DEF IInv, Typed, TypeOK, disk
<1>10. Distinct(super)' /\ Distinct(g_super)'
  <2>1. Distinct(g_super')
    <3> SUFFICES ASSUME NEW i \in Slots, NEW j \in Slots, i < j, j < count
                 PROVE  g_super'.entries[i].path # g_super'.entries[j].path
      BY <1>5 DEF Distinct
    <3>1. i < count /\ i # j
      BY <1>2, <1>6
    <3>2. CASE i = slot \/ j = slot
      BY <1>4, <1>5, <1>6, <1>7, <3>1, <3>2
    <3>3. CASE i # slot /\ j # slot
      BY <1>5, <1>6, <3>1, <3>3 DEF IInv, Distinct
    <3> QED
      BY <3>2, <3>3
  <2> QED
    BY <1>1, <2>1 DEF IInv, disk, Distinct
<1>11. Extends'
  <2>1. g_loaded /\ super.magic => super.count <= count
    BY <1>2, <1>6 DEF IInv, Extends
  <2>2. ASSUME super.magic, NEW i \in Slots, i < super.count
        PROVE  super.entries[i].path = g_super'.entries[i].path
    <3>1. i < g_super.count
      BY <1>1, <1>2, <2>2 DEF IInv, Extends
    <3> QED
      BY <1>1, <1>8, <2>2, <3>1 DEF IInv, Extends
  <2> QED
    BY <1>1, <1>5, <2>1, <2>2 DEF Extends, disk
<1>12. Booted'
  BY <1>1, <1>5 DEF IInv, Booted, disk
<1>13. SaveOwns'
  BY <1>1, <1>4, <1>5, <1>6 DEF SaveOwns
<1>14. SafeKept'
  <2> SUFFICES ASSUME NEW g \in Files, safe'[g] # Unsure
               PROVE  super'.magic /\ \E i \in Slots : Keeps(i, g)'
    BY DEF SafeKept
  <2>1. super.magic /\ safe' = safe
    BY <1>1 DEF IInv, SafeKept
  <2>2. PICK i \in Slots : Keeps(i, g)
    BY <2>1 DEF IInv, SafeKept
  <2>3. CASE g = f
    <3>1. Saving(f)'
      BY <1>1 DEF Saving
    <3>2. Keeps(i, g)'
      BY <1>1, <2>1, <2>2, <2>3, <3>1 DEF Keeps, Untouched, disk
    <3> QED
      BY <1>1, <2>1, <3>2 DEF disk
  <2>4. CASE g # f
    <3>1. i # slot
      <4>1. super.entries[i].path = g /\ i < super.count
        BY <2>2 DEF Keeps
      <4>2. i < g_super.count /\ g_super.entries[i].path = g
        BY <1>1, <1>2, <2>1, <4>1 DEF IInv, Extends
      <4> QED
        BY <1>4, <1>5, <1>8, <2>4, <4>2
    <3>2. Keeps(i, g)'
      BY <1>1, <1>5, <2>1, <2>2, <3>1 DEF Keeps, Saving, Untouched, disk
    <3> QED
      BY <1>1, <2>1, <3>2 DEF disk
  <2> QED
    BY <2>3, <2>4
<1> QED
  BY <1>9, <1>10, <1>11, <1>12, <1>13, <1>14 DEF IInv

LEMMA SaveCopyStep ==
  ASSUME IInv, SaveCopy
  PROVE  IInv'
<1>1. /\ pc = "copy" /\ pc' = "data"
      /\ UNCHANGED <<disk, memory, text, save, safe>>
  BY DEF SaveCopy
<1>2. save \in Saves /\ save.file \in Files /\ save.slot \in Slots
  BY <1>1 DEF IInv, Typed, TypeOK, Saves
<1>3. buf' \in Images
  <2> DEFINE t == text[save.file]
             size == g_super.entries[save.slot].size
  <2>1. buf' = [s \in 1..Sectors |-> IF s <= Least(size, Len(t)) THEN t[s] ELSE Nul]
    BY DEF SaveCopy
  <2>2. Len(t) \in Nat /\ \A s \in 1..Len(t) : t[s] \in Blocks \union {Nul}
    BY <1>2, TextTyped DEF IInv, Typed
  <2>3. size \in Nat
    BY <1>2, DiskAssumption DEF IInv, Typed, TypeOK, SuperBlocks, Entries
  <2> HIDE DEF t, size
  <2>4. Least(size, Len(t)) \in Nat /\ Least(size, Len(t)) <= Len(t)
    BY <2>2, <2>3, LeastBelow
  <2>5. \A s \in 1..Sectors : s <= Least(size, Len(t)) => s \in 1..Len(t)
    BY <2>2, <2>4, DiskAssumption
  <2> QED
    BY <2>1, <2>2, <2>5 DEF Images
<1>4. Typed'
  BY <1>1, <1>2, <1>3 DEF IInv, Typed, TypeOK, disk, memory
<1>5. Distinct(super)' /\ Distinct(g_super)' /\ Extends' /\ Booted' /\ SafeKept'
  BY <1>1 DEF IInv, Distinct, Extends, Booted, SafeKept, Keeps, Saving, Untouched,
              disk, memory
<1>6. SaveOwns'
  <2>1. \A s \in 1..Sectors : ~(s < save.sector)
    <3>1. save.sector = 1
      BY <1>1 DEF IInv, SaveOwns
    <3> QED
      BY <3>1
  <2> QED
    BY <1>1, <2>1 DEF IInv, SaveOwns, disk, memory
<1> QED
  BY <1>4, <1>5, <1>6 DEF IInv

\* Only the slot of the save that is under way changes.
LEMMA DataWritten ==
  ASSUME IInv, SaveData
  PROVE  /\ save.slot \in Slots /\ save.sector \in 1..Sectors /\ save.file \in Files
         /\ data' \in [Slots -> Images]
         /\ \A i \in Slots : i # save.slot => data'[i] = data[i]
         /\ \A s \in 1..Sectors : s # save.sector => data'[save.slot][s] = data[save.slot][s]
         /\ pc' # "idle" => data'[save.slot][save.sector] = buf[save.sector]
<1> DEFINE written == [data EXCEPT ![save.slot][save.sector] = buf[save.sector]]
<1>1. /\ pc = "data" /\ data' \in {data, written}
      /\ pc' # "idle" => data' = written
  BY DEF SaveData, DataSlot, EndSave
<1>2. save.slot \in Slots /\ save.sector \in 1..Sectors /\ save.file \in Files
  BY <1>1 DEF IInv, Typed, TypeOK, Saves
<1>3. data \in [Slots -> [1..Sectors -> Blocks \union {Nul}]]
      /\ buf \in [1..Sectors -> Blocks \union {Nul}]
  BY DEF IInv, Typed, TypeOK, Images
<1>4. /\ written \in [Slots -> [1..Sectors -> Blocks \union {Nul}]]
      /\ written[save.slot][save.sector] = buf[save.sector]
      /\ \A i \in Slots : i # save.slot => written[i] = data[i]
      /\ \A s \in 1..Sectors : s # save.sector => written[save.slot][s] = data[save.slot][s]
  BY <1>2, <1>3
<1> HIDE DEF written
<1> QED
  BY <1>1, <1>2, <1>3, <1>4 DEF Images

\* Of a report only `rewritten` changes, to the sector that is written or more.
LEMMA OverwrittenReport ==
  ASSUME NEW report \in Reports, NEW s \in 1..Sectors, report # Unsure
  PROVE  /\ Overwritten(report, s) \in Reports
         /\ Overwritten(report, s).image = report.image
         /\ Overwritten(report, s).rewritten >= s
         /\ Overwritten(report, s).rewritten >= report.rewritten
<1>1. s \in Nat /\ report.rewritten \in 0..Sectors /\ report.rewritten \in Nat
  BY DiskAssumption DEF Reports
<1>2. Most(report.rewritten, s) \in 0..Sectors
  BY <1>1, DiskAssumption DEF Most
<1>3. Most(report.rewritten, s) >= s /\ Most(report.rewritten, s) >= report.rewritten
  BY <1>1 DEF Most
<1> QED
  BY <1>2, <1>3 DEF Overwritten, Reports

LEMMA SaveDataStep ==
  ASSUME IInv, SaveData
  PROVE  IInv'
<1>1. /\ pc = "data"
      /\ UNCHANGED <<super, memory, text>>
      /\ safe' = [safe EXCEPT ![save.file] = Overwritten(@, save.sector)]
      /\ \/ /\ pc' = pc /\ save.sector < Sectors /\ save' = [save EXCEPT !.sector = @ + 1]
            /\ buf' = buf
         \/ /\ pc' = "super" /\ save.sector = Sectors /\ save' = save
            /\ buf' = buf
         \/ /\ pc' = "idle" /\ save' = NoSave
            /\ buf' = Cleared
  BY DEF SaveData, EndSave
<1>2. /\ g_loaded /\ save.slot < g_super.count
      /\ g_super.entries[save.slot].path = save.file
      /\ \A s \in 1..Sectors : s < save.sector => data[save.slot][s] = buf[s]
  BY <1>1 DEF IInv, SaveOwns
<1>3. /\ DOMAIN safe' = Files
      /\ \A g \in Files : g # save.file => safe'[g] = safe[g]
      /\ safe'[save.file] = Overwritten(safe[save.file], save.sector)
  BY <1>1, DataWritten DEF IInv, Typed
<1>4. safe[save.file] # Unsure =>
        /\ safe'[save.file] \in Reports
        /\ safe'[save.file].image = safe[save.file].image
        /\ safe'[save.file].rewritten >= save.sector
        /\ safe'[save.file].rewritten >= safe[save.file].rewritten
  BY <1>3, DataWritten, OverwrittenReport DEF IInv, Typed, TypeOK
<1>5. safe[save.file] = Unsure => safe'[save.file] = Unsure
  BY <1>3 DEF Overwritten
<1>6. ASSUME NEW g \in Files, g = save.file PROVE ~Untouched(g)'
  <2>1. save.sector # 0 /\ save.sector \in Nat
    BY DataWritten, DiskAssumption
  <2>2. ASSUME safe[save.file] # Unsure PROVE safe'[save.file].rewritten # 0
    <3>1. safe'[save.file].rewritten \in Nat
      BY <1>4, <2>2, DiskAssumption DEF Reports
    <3> QED
      BY <1>4, <2>1, <2>2, <3>1
  <2>3. \/ safe'[save.file] = Unsure
        \/ safe'[save.file].rewritten # 0
    BY <1>5, <2>2
  <2> QED
    BY <1>6, <2>3 DEF Untouched
<1>7. Typed'
  <2>1. save' \in IF pc' \in {"off", "idle"} THEN {NoSave} ELSE Saves
    <3>1. CASE pc' = pc /\ save.sector < Sectors /\ save' = [save EXCEPT !.sector = @ + 1]
      <4>1. save \in Saves /\ save.sector + 1 \in 1..Sectors
        BY <1>1, <3>1, DataWritten, DiskAssumption DEF IInv, Typed, TypeOK
      <4>2. save' \in Saves
        BY <3>1, <4>1 DEF Saves
      <4> QED
        BY <1>1, <3>1, <4>2
    <3>2. CASE pc' = "super" /\ save' = save
      BY <1>1, <3>2 DEF IInv, Typed, TypeOK
    <3>3. CASE pc' = "idle" /\ save' = NoSave
      BY <3>3
    <3> QED
      BY <1>1, <3>1, <3>2, <3>3
  <2>2. buf' \in Images
    BY <1>1 DEF IInv, Typed, TypeOK, Cleared, Images
  <2>3. \A g \in Files : safe'[g] \in Reports \union {Unsure}
    BY <1>3, <1>4, <1>5 DEF IInv, Typed, TypeOK
  <2> QED
    BY <1>1, <1>3, <2>1, <2>2, <2>3, DataWritten DEF IInv, Typed, TypeOK, memory
<1>8. Distinct(super)' /\ Distinct(g_super)' /\ Extends' /\ Booted'
  BY <1>1 DEF IInv, Distinct, Extends, Booted, memory
<1>9. SaveOwns'
  <2>1. CASE pc' = pc /\ save.sector < Sectors /\ save' = [save EXCEPT !.sector = @ + 1]
    <3>1. save'.slot = save.slot /\ save'.file = save.file /\ save'.sector = save.sector + 1
      BY <1>1, <2>1 DEF IInv, Typed, TypeOK, Saves
    <3>2. ASSUME NEW s \in 1..Sectors, s < save.sector + 1
          PROVE  data'[save.slot][s] = buf[s]
      <4>1. s = save.sector \/ s < save.sector
        BY <3>2, DataWritten, DiskAssumption
      <4> QED
        BY <1>1, <1>2, <2>1, <4>1, DataWritten
    <3> QED
      BY <1>1, <1>2, <2>1, <3>1, <3>2 DEF SaveOwns, memory
  <2>2. CASE pc' = "super" /\ save.sector = Sectors /\ save' = save
    <3>1. ASSUME NEW s \in 1..Sectors PROVE data'[save.slot][s] = buf[s]
      <4>1. s = save.sector \/ s < save.sector
        BY <2>2, DiskAssumption
      <4> QED
        BY <1>2, <2>2, <4>1, DataWritten
    <3>2. data'[save.slot] \in Images /\ buf \in Images
      BY DataWritten DEF IInv, Typed, TypeOK
    <3>3. ASSUME NEW x \in Images, NEW y \in Images, \A s \in 1..Sectors : x[s] = y[s]
          PROVE  x = y
      <4>1. x = [s \in 1..Sectors |-> x[s]] /\ y = [s \in 1..Sectors |-> y[s]]
        BY DEF Images
      <4>2. [s \in 1..Sectors |-> x[s]] = [s \in 1..Sectors |-> y[s]]
        BY <3>3
      <4> QED
        BY <4>1, <4>2
    <3>4. data'[save.slot] = buf
      BY <3>1, <3>2, <3>3
    <3> QED
      BY <1>1, <1>2, <1>6, <2>2, <3>4, DataWritten DEF SaveOwns, memory
  <2>3. CASE pc' = "idle"
    BY <2>3 DEF SaveOwns
  <2> QED
    BY <1>1, <2>1, <2>2, <2>3
<1>10. SafeKept'
  <2> SUFFICES ASSUME NEW f \in Files, safe'[f] # Unsure
               PROVE  super'.magic /\ \E i \in Slots : Keeps(i, f)'
    BY DEF SafeKept
  <2>1. super.magic /\ safe[f] # Unsure
    BY <1>1, <1>3, <1>5 DEF IInv, SafeKept
  <2>2. PICK i \in Slots : Keeps(i, f)
    BY <2>1 DEF IInv, SafeKept
  <2>3. CASE f # save.file
    <3>1. i # save.slot
      <4>1. i < super.count /\ super.entries[i].path = f
        BY <2>2 DEF Keeps
      <4> QED
        BY <1>2, <2>1, <2>3, <4>1 DEF IInv, Extends
    <3>2. safe'[f] = safe[f] /\ data'[i] = data[i]
      BY <1>3, <2>3, <3>1, DataWritten
    <3>3. ~Saving(f)
      BY <2>3 DEF Saving
    <3>4. Keeps(i, f)'
      BY <1>1, <2>2, <3>2, <3>3 DEF Keeps, Untouched, memory
    <3> QED
      BY <1>1, <2>1, <3>4
  <2>4. CASE f = save.file
    <3>1. ASSUME NEW s \in 1..Sectors, safe'[f].rewritten < s
          PROVE  data'[i][s] = safe'[f].image[s]
      <4>1. /\ safe[f].rewritten \in Nat /\ safe'[f].rewritten \in Nat
            /\ s \in Nat /\ save.sector \in Nat
        BY <1>4, <2>1, <2>4, DataWritten, DiskAssumption DEF IInv, Typed, TypeOK, Reports
      <4>2. safe[f].rewritten < s /\ s # save.sector
        BY <1>4, <2>1, <2>4, <3>1, <4>1
      <4>3. data'[i][s] = data[i][s]
        BY <4>2, DataWritten
      <4>4. data[i][s] = safe[f].image[s]
        BY <2>2, <4>2 DEF Keeps
      <4> QED
        BY <1>4, <2>1, <2>4, <4>3, <4>4
    <3>2. Keeps(i, f)'
      BY <1>1, <1>6, <2>2, <2>4, <3>1 DEF Keeps
    <3> QED
      BY <1>1, <2>1, <3>2
  <2> QED
    BY <2>3, <2>4
<1> QED
  BY <1>7, <1>8, <1>9, <1>10 DEF IInv

LEMMA SaveSuperStep ==
  ASSUME IInv, SaveSuper
  PROVE  IInv'
<1> DEFINE f == save.file
<1>1. /\ pc = "super" /\ pc' = "idle" /\ save' = NoSave
      /\ buf' = Cleared
      /\ \/ /\ super' = g_super
            /\ safe' = [g \in Files |-> IF g = f /\ g \in Watched THEN Report ELSE safe[g]]
         \/ super' \in {super, g_super} /\ safe' = safe
      /\ UNCHANGED <<data, memory, text>>
  BY DEF SaveSuper, EndSave
<1>2. /\ g_loaded /\ g_super.magic /\ save.slot < g_super.count
      /\ g_super.entries[save.slot].path = f
      /\ ~Untouched(f) /\ data[save.slot] = buf
  BY <1>1 DEF IInv, SaveOwns, Booted
<1>3. /\ f \in Files /\ save.slot \in Slots
      /\ g_super.entries[save.slot] \in Entries /\ buf \in Images
      /\ DOMAIN safe = Files
  BY <1>1 DEF IInv, Typed, TypeOK, Saves, SuperBlocks
<1>4. /\ Report \in Reports
      /\ Report.size = g_super.entries[save.slot].size
      /\ Report.image = buf /\ Report.rewritten = 0
  BY <1>3, DiskAssumption DEF Report, Reports, Entries
<1>5. /\ DOMAIN safe' = Files
      /\ \A g \in Files : \/ safe'[g] = safe[g]
                          \/ g = f /\ safe'[g] = Report /\ super' = g_super
  BY <1>1 DEF IInv, Typed
<1>6. Typed'
  <2>1. Cleared \in Images
    BY DEF Cleared, Images
  <2> QED
    BY <1>1, <1>4, <1>5, <2>1 DEF IInv, Typed, TypeOK, memory
<1>7. Distinct(super)' /\ Distinct(g_super)'
  BY <1>1 DEF IInv, Distinct, memory
<1>8. Extends' /\ Booted' /\ SaveOwns'
  <2>1. g_super.count \in Nat
    BY DEF IInv, Typed, TypeOK, SuperBlocks
  <2>2. super' = super \/ super' = g_super
    BY <1>1
  <2> QED
    BY <1>1, <1>2, <2>1, <2>2 DEF IInv, Extends, Booted, SaveOwns, memory
<1>9. SafeKept'
  <2> SUFFICES ASSUME NEW g \in Files, safe'[g] # Unsure
               PROVE  super'.magic /\ \E i \in Slots : Keeps(i, g)'
    BY DEF SafeKept
  <2>1. CASE g = f /\ safe'[g] = Report /\ super' = g_super
    <3>1. PICK i \in Slots : i = save.slot
      BY <1>3
    <3>2. data' = data /\ g_super' = g_super
      BY <1>1 DEF memory
    <3>3. Keeps(i, g)'
      BY <1>2, <1>4, <2>1, <3>1, <3>2 DEF Keeps
    <3> QED
      BY <1>2, <2>1, <3>3
  <2>2. CASE safe'[g] = safe[g]
    <3>1. super.magic
      BY <2>2 DEF IInv, SafeKept
    <3>2. PICK i \in Slots : Keeps(i, g)
      BY <2>2 DEF IInv, SafeKept
    <3>3. i < super.count /\ super.entries[i].path = g
      BY <3>2 DEF Keeps
    <3>4. i < g_super.count /\ g_super.entries[i].path = g
      <4>1. super.count \in Nat /\ g_super.count \in Nat /\ i \in Nat
        BY DiskAssumption DEF IInv, Typed, TypeOK, SuperBlocks, Slots
      <4> QED
        BY <1>2, <3>1, <3>3, <4>1 DEF IInv, Extends
    <3>5. super' = super \/ super' = g_super
      BY <1>1
    <3>6. Untouched(g)' => Untouched(g) /\ g # f /\ ~Saving(g)
      BY <1>2, <2>2 DEF Untouched, Saving
    <3>7. Keeps(i, g)'
      BY <1>1, <1>2, <2>2, <3>2, <3>3, <3>4, <3>5, <3>6 DEF Keeps, memory
    <3> QED
      BY <1>2, <3>1, <3>5, <3>7
  <2> QED
    BY <1>5, <2>1, <2>2
<1> QED
  BY <1>6, <1>7, <1>8, <1>9 DEF IInv

-----------------------------------------------------------------------------

LEMMA Inductive == Spec => []IInv
<1>1. Init => IInv
  <2> SUFFICES ASSUME Init PROVE IInv
    OBVIOUS
  <2>1. /\ Blank(FALSE) \in SuperBlocks /\ Distinct(Blank(FALSE))
        /\ ~Blank(FALSE).magic /\ Blank(FALSE).count = 0
    BY BlankTyped
  <2>2. Cleared \in Images
    BY DEF Cleared, Images
  <2>3. Typed
    <3>1. DOMAIN text = Files /\ \A f \in Files : text[f] \in Texts
      BY DiskAssumption DEF Init
    <3> QED
      BY <2>1, <2>2, <3>1 DEF Init, Typed, TypeOK
  <2>4. Extends /\ Booted /\ SaveOwns
    BY <2>1 DEF Init, Extends, Booted, SaveOwns
  <2>5. SafeKept
    BY DEF Init, SafeKept
  <2> QED
    BY <2>1, <2>3, <2>4, <2>5 DEF Init, IInv
<1>2. IInv /\ [Next]_vars => IInv'
  <2> SUFFICES ASSUME IInv, [Next]_vars PROVE IInv'
    OBVIOUS
  <2>1. CASE BootUnreadable
    <3>1. pc = "off" /\ pc' = "idle" /\ UNCHANGED <<disk, memory, text, save, buf, safe>>
      BY <2>1 DEF BootUnreadable
    <3>2. Typed'
      BY <3>1 DEF IInv, Typed, TypeOK, disk, memory
    <3>3. Distinct(super)' /\ Distinct(g_super)' /\ Extends' /\ Booted' /\ SaveOwns' /\ SafeKept'
      BY <3>1 DEF IInv, Distinct, Extends, Booted, SaveOwns, SafeKept, Keeps, Saving, Untouched,
                   disk, memory
    <3> QED
      BY <3>2, <3>3 DEF IInv
  <2>2. CASE UNCHANGED vars
    <3>1. Typed'
      BY <2>2 DEF IInv, Typed, TypeOK, vars, disk, memory
    <3>2. Distinct(super)' /\ Distinct(g_super)' /\ Extends' /\ Booted' /\ SaveOwns' /\ SafeKept'
      BY <2>2 DEF IInv, Distinct, Extends, Booted, SaveOwns, SafeKept, Keeps, Saving, Untouched,
                   vars, disk, memory
    <3> QED
      BY <3>1, <3>2 DEF IInv
  <2> QED
    BY <2>1, <2>2, PowerOffStep, BootForeignStep, BootRestoreStep, KeyStep, SaveBeginStep,
       SaveCopyStep, SaveDataStep, SaveSuperStep DEF Next
<1> QED
  BY <1>1, <1>2, PTL DEF Spec

-----------------------------------------------------------------------------

(* No file has two entries, on the disk or in memory, and an entry that is *)
(* on the disk stays in its slot, whatever saves fail and whenever the     *)
(* power goes.                                                             *)
THEOREM EntriesAreUnique == Spec => []OneSlotPerFile
<1>1. IInv => OneSlotPerFile
  BY DEF IInv, Typed, Distinct, Extends, OneSlotPerFile
<1> QED
  BY <1>1, Inductive, PTL

(* What was reported saved is what the next boot that can read the disk    *)
(* restores, after any edits, any saves of other files, failed writes and  *)
(* power losses.  Of a file that has been saved again since, by a save     *)
(* that is under way, failed or was cut off, the entry is there, and every *)
(* sector those saves had not come to.                                     *)
THEOREM SavedIsRestored == Spec => []SavedSurvives
<1>1. IInv => SavedSurvives
  <2> SUFFICES ASSUME IInv, NEW f \in Files, safe[f] # Unsure
               PROVE  /\ super.magic
                      /\ \E i \in Slots :
                           /\ i < super.count /\ super.entries[i].path = f
                           /\ \A s \in 1..Sectors : safe[f].rewritten < s
                                => data[i][s] = safe[f].image[s]
                      /\ Untouched(f) /\ safe[f].size # 0 => Restored(f) = Reported(f)
    BY DEF SavedSurvives
  <2>1. super.magic
    BY DEF IInv, SafeKept
  <2>2. PICK i \in Slots : Keeps(i, f)
    BY DEF IInv, SafeKept
  <2>3. ASSUME Untouched(f), safe[f].size # 0
        PROVE  Restored(f) = Reported(f)
    <3>1. super.entries[i].size = safe[f].size
      BY <2>2, <2>3 DEF Keeps
    <3>2. i \in EntriesOf(super, f)
      BY <2>2, <2>3, <3>1 DEF Keeps, EntriesOf
    <3>3. Restored(f) = [s \in 1..super.entries[i].size |-> data[i][s]]
      BY <3>2, RestoredFrom DEF IInv, Typed
    <3>4. safe[f].size \in 0..Sectors
      BY DEF IInv, Typed, TypeOK, Reports
    <3>5. \A s \in 1..safe[f].size : data[i][s] = safe[f].image[s]
      <4>1. \A s \in 1..safe[f].size : s \in 1..Sectors /\ 0 < s
        BY <3>4, DiskAssumption
      <4> QED
        BY <2>2, <2>3, <4>1 DEF Keeps, Untouched
    <3> QED
      BY <3>1, <3>3, <3>5 DEF Reported
  <2> QED
    BY <2>1, <2>2, <2>3 DEF Keeps
<1> QED
  BY <1>1, Inductive, PTL

(* A save writes into its own file's sectors only: those of a file on the  *)
(* disk change in no step but those of its own saves.                      *)
THEOREM SavesKeepApart == Spec => OthersUntouched
<1>1. ASSUME IInv, [Next]_vars, NEW i \in Slots, i < super.count, data'[i] # data[i]
      PROVE  save.file = super.entries[i].path
  <2>1. CASE SaveData
    <3>1. i = save.slot
      BY <1>1, <2>1, DataWritten
    <3>2. g_loaded /\ g_super.entries[save.slot].path = save.file
      BY <1>1, <2>1 DEF SaveData, IInv, SaveOwns
    <3>3. super.magic
      <4>1. i \in Nat
        BY DiskAssumption DEF Slots
      <4> QED
        BY <1>1, <4>1 DEF IInv, Booted
    <3> QED
      BY <1>1, <3>1, <3>2, <3>3 DEF IInv, Extends
  <2>2. CASE ~SaveData
    BY <1>1, <2>2 DEF Next, PowerOff, BootUnreadable, BootForeign, BootRestore, Key, SaveBegin,
                      SaveCopy, SaveSuper, vars, disk
  <2> QED
    BY <2>1, <2>2
<1>2. IInv /\ [Next]_vars
      => [\A i \in Slots : i < super.count /\ data'[i] # data[i]
            => save.file = super.entries[i].path]_vars
  BY <1>1
<1> QED
  BY <1>2, Inductive, PTL DEF Spec, OthersUntouched
=============================================================================
