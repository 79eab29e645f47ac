------------------------------- MODULE DiskFs -------------------------------
(***************************************************************************)
(* src/kernel/diskfs.cpp over src/kernel/ata.cpp: files edited in the VFS, *)
(* saved to an ATA disk from the main loop, and restored at boot.          *)
(*                                                                         *)
(* A text is a sequence of sector-sized blocks.  A save takes many steps,  *)
(* and between any two of them the keyboard interrupt may edit the file,   *)
(* a sector write may fail, or the machine may lose power.                 *)
(*                                                                         *)
(* Every path the VFS can hold is one of the five files vfs_init makes, so *)
(* all the entries a kernel writes lie in the first of the three sectors   *)
(* of the superblock (entries 0 to 5 end at byte 448): `super` is that     *)
(* sector, written as a whole, and the two others are always zero.         *)
(***************************************************************************)
EXTENDS Naturals, Sequences

CONSTANTS Files,     \* the paths of the VFS files
          Blocks,    \* what a sector of a file can hold
          Nul,       \* a sector of zero bytes
          Sectors,   \* DISKFS_FILE_SECTORS
          MaxFiles,  \* DISKFS_MAX_FILES
          Texts,     \* bound: the texts an editor window goes through
          Default,   \* the contents vfs_init gives every file
          Watched,   \* bound: the files whose reports `safe` remembers
          Unsure     \* no save of this file has been reported done

ASSUME DiskAssumption == /\ Nul \notin Blocks
                         /\ Sectors \in Nat \ {0}
                         /\ MaxFiles \in Nat
                         /\ Texts \subseteq Seq(Blocks)
                         /\ Default \in [Files -> Texts]
                         /\ Watched \subseteq Files

VARIABLES super, data,        \* the disk: sector 100; the slots from sector 103
          g_super, g_loaded,  \* diskfs.cpp's copy of the superblock
          text,               \* content of every VFS file
          pc,                 \* where the main loop is
          save, buf,          \* the save in progress and its copy of the file;
                              \* the next save clears it before it copies
          safe                \* what the editor has reported "[saved to disk]", and
                              \* how many of its sectors a later save has begun
                              \* to write over (history)

disk   == <<super, data>>
memory == <<g_super, g_loaded>>
vars   == <<disk, memory, text, pc, save, buf, safe>>

Slots == 0..(MaxFiles - 1)
NoFile == Unsure
NoSave == [file |-> NoFile, slot |-> 0, sector |-> 1]
Cleared == [s \in 1..Sectors |-> Nul]

Entries == [path : Files \union {NoFile}, size : 0..Sectors]
Images  == [1..Sectors -> Blocks \union {Nul}]

SuperBlocks == [magic : BOOLEAN, count : 0..MaxFiles, entries : [Slots -> Entries]]

Blank(magic) == [magic |-> magic, count |-> 0,
                 entries |-> [i \in Slots |-> [path |-> NoFile, size |-> 0]]]

\* The size of a save without the 4 KiB cap
Uncapped(a, b) == a
Least(a, b) == IF a <= b THEN a ELSE b
Most(a, b)  == IF a <= b THEN b ELSE a

\* The report of a file once a later save has begun to write sector s.
Overwritten(report, s) ==
  IF report = Unsure THEN Unsure
  ELSE [report EXCEPT !.rewritten = Most(@, s)]

-----------------------------------------------------------------------------

\* A disk image straight from the build: no magic, nothing saved, power off.
Init == /\ super = Blank(FALSE)
        /\ data = [i \in Slots |-> Cleared]
        /\ g_super = Blank(FALSE)
        /\ g_loaded = FALSE
        /\ text = Default
        /\ pc = "off"
        /\ save = NoSave
        /\ buf = Cleared
        /\ safe = [f \in Files |-> Unsure]

\* Power loss, a fault that halts the machine, or the `reboot` command.
PowerOff == /\ pc # "off"
            /\ pc' = "off"
            /\ save' = NoSave
            /\ g_super' = Blank(FALSE)
            /\ g_loaded' = FALSE
            /\ text' = Default
            /\ buf' = Cleared
            /\ UNCHANGED <<disk, safe>>

-----------------------------------------------------------------------------
(* diskfs_init, which runs before interrupts are enabled.                  *)

\* Taking a disk that does not answer for a blank one
BlankWhenUnreadable == /\ pc = "off"
                       /\ pc' = "idle"
                       /\ g_super' = Blank(TRUE)
                       /\ g_loaded' = TRUE
                       /\ UNCHANGED <<disk, text, save, buf, safe>>

\* A disk that does not answer leaves g_loaded false: nothing will be saved.
BootUnreadable == /\ pc = "off"
                  /\ pc' = "idle"
                  /\ UNCHANGED <<disk, memory, text, save, buf, safe>>

\* A foreign disk gets a blank superblock; whether that was written is not
\* looked at.
BootForeign == /\ pc = "off"
               /\ ~super.magic
               /\ pc' = "idle"
               /\ g_super' = Blank(TRUE)
               /\ g_loaded' = TRUE
               /\ super' \in {super, Blank(TRUE)}
               /\ UNCHANGED <<data, text, save, buf, safe>>

\* The entries of superblock sb that name f and are not empty.
EntriesOf(sb, f) == {i \in Slots : /\ i < sb.count
                                   /\ sb.entries[i].path = f
                                   /\ sb.entries[i].size # 0}

\* What a boot that can read every sector makes of f.
Restored(f) ==
  IF EntriesOf(super, f) = {} THEN Default[f]
  ELSE LET i == CHOOSE i \in EntriesOf(super, f) :
                  \A j \in EntriesOf(super, f) : j <= i   \* the last one stays
       IN  [s \in 1..super.entries[i].size |-> data[i][s]]

\* A file whose sectors cannot be read keeps its contents from vfs_init.
BootRestore == /\ pc = "off"
               /\ super.magic
               /\ pc' = "idle"
               /\ g_super' = super
               /\ g_loaded' = TRUE
               /\ \E readable \in SUBSET Files :
                    text' = [f \in Files |-> IF f \in readable THEN Restored(f)
                                             ELSE Default[f]]
               /\ UNCHANGED <<disk, save, buf, safe>>

-----------------------------------------------------------------------------

\* gui_handle_key in the keyboard interrupt, on the file of the editor window:
\* the one being saved, for as long as the main loop is saving it.
Key(f) == /\ pc # "off"
          /\ save # NoSave => save.file = f
          /\ \E t \in Texts :
               /\ \/ \E b \in Blocks : t = Append(text[f], b)    \* vfs_append_char
                  \/ /\ text[f] # <<>>                           \* vfs_pop_char
                     /\ t = SubSeq(text[f], 1, Len(text[f]) - 1)
               /\ text' = [text EXCEPT ![f] = t]
          /\ UNCHANGED <<disk, memory, pc, save, buf, safe>>

-----------------------------------------------------------------------------
(* diskfs_save, called by a click on the editor's Save button.             *)

\* A find_slot that finds nothing
SlotAlwaysNew(f) == g_super.count

\* find_slot, or else the slot alloc_slot would take
SlotOf(f) ==
  LET found == {i \in Slots : i < g_super.count /\ g_super.entries[i].path = f}
  IN  IF found # {} THEN CHOOSE i \in found : \A j \in found : i <= j
      ELSE g_super.count

\* Slot and size go into the superblock in memory before anything is written.
\* It refuses when the superblock was never read and when the slots are used up.
SaveBegin(f) ==
  LET slot == SlotOf(f)
  IN  /\ pc = "idle"
      /\ g_loaded
      /\ slot < MaxFiles
      /\ g_super' = [g_super EXCEPT
                       !.count = IF slot = @ THEN @ + 1 ELSE @,
                       !.entries[slot] = [path |-> f,
                                          size |-> Least(Len(text[f]), Sectors)]]
      /\ pc' = "copy"
      /\ save' = [file |-> f, slot |-> slot, sector |-> 1]
      /\ UNCHANGED <<disk, g_loaded, text, buf, safe>>

\* The copy of `size` bytes of the content as it is now: vfs_pop_char leaves a
\* zero where it takes a character away.
SaveCopy ==
  /\ pc = "copy"
  /\ pc' = "data"
  /\ LET t    == text[save.file]
         size == g_super.entries[save.slot].size
     IN  buf' = [s \in 1..Sectors |-> IF s <= Least(size, Len(t)) THEN t[s] ELSE Nul]
  /\ UNCHANGED <<disk, memory, text, save, safe>>

EndSave == /\ pc' = "idle"
           /\ save' = NoSave
           /\ buf' = Cleared

\* Data written to the slot next to its own
WrongSlot == (save.slot + 1) % MaxFiles

\* file N lies at 103 + N*8
DataSlot == save.slot

\* One sector goes out.  A failed ata_write may or may not have reached the
\* medium, and ends the save; the superblock in memory stays as it is.
SaveData ==
  /\ pc = "data"
  /\ LET written == [data EXCEPT ![DataSlot][save.sector] = buf[save.sector]]
     IN  \/ /\ save.sector < Sectors
            /\ data' = written
            /\ save' = [save EXCEPT !.sector = @ + 1]
            /\ UNCHANGED <<pc, buf>>
         \/ /\ save.sector = Sectors
            /\ data' = written
            /\ pc' = "super"
            /\ UNCHANGED <<save, buf>>
         \/ /\ data' \in {data, written}
            /\ EndSave
  /\ safe' = [safe EXCEPT ![save.file] = Overwritten(@, save.sector)]
  /\ UNCHANGED <<super, memory, text>>

\* What the editor reports of the save that is done.
Report == [size |-> g_super.entries[save.slot].size, image |-> buf, rewritten |-> 0]

\* write_super, the step that makes the save count.  It can fail before its
\* first sector is written, or after.
SaveSuper ==
  /\ pc = "super"
  /\ EndSave
  /\ \/ /\ super' = g_super
        /\ safe' = [f \in Files |-> IF f = save.file /\ f \in Watched THEN Report
                                   ELSE safe[f]]
     \/ /\ super' \in {super, g_super}
        /\ UNCHANGED safe
  /\ UNCHANGED <<data, memory, text>>

-----------------------------------------------------------------------------

Next == \/ PowerOff
        \/ BootUnreadable \/ BootForeign \/ BootRestore
        \/ \E f \in Files : Key(f) \/ SaveBegin(f)
        \/ SaveCopy \/ SaveData \/ SaveSuper

Spec == Init /\ [][Next]_vars

-----------------------------------------------------------------------------

Saves == [file : Files, slot : Slots, sector : 1..Sectors]
Reports == [size : 0..Sectors, image : Images, rewritten : 0..Sectors]

(* Every variable has its type.                                            *)
TypeOK == /\ {super, g_super} \subseteq SuperBlocks
          /\ data \in [Slots -> Images]
          /\ g_loaded \in BOOLEAN
          /\ \A f \in Files : \/ text[f] \in Texts
                              \/ \E n \in 1..Sectors : text[f] \in [1..n -> Blocks \union {Nul}]
          /\ pc \in {"off", "idle", "copy", "data", "super"}
          /\ save \in IF pc \in {"off", "idle"} THEN {NoSave} ELSE Saves
          /\ buf \in Images
          /\ \A f \in Files : safe[f] \in Reports \union {Unsure}

\* What was reported saved, as the text a reader would get back
Reported(f) == [s \in 1..safe[f].size |-> safe[f].image[s]]

\* Nothing has been written over what was reported saved of f.
Untouched(f) == safe[f] # Unsure /\ safe[f].rewritten = 0

(* "[saved to disk]" stays true: whatever is edited, saved or half saved,  *)
(* failing or cut off by a power loss afterwards, the next boot that can   *)
(* read the disk restores every file whose save was reported done.  A file *)
(* that is being saved again, or whose last save failed or was cut off, is *)
(* still listed, and of what was reported every sector is there that the   *)
(* later saves had not come to.  Empty files are EmptyFileSurvives.        *)
SavedSurvives ==
  \A f \in Files : safe[f] # Unsure =>
    /\ super.magic
    /\ \E i \in Slots : /\ i < super.count /\ super.entries[i].path = f
                        /\ \A s \in 1..Sectors : safe[f].rewritten < s
                             => data[i][s] = safe[f].image[s]
    /\ Untouched(f) /\ safe[f].size # 0 => Restored(f) = Reported(f)

(* "edits survive reboot", for a file that was saved empty.                *)
EmptyFileSurvives ==
  \A f \in Files : Untouched(f) /\ safe[f].size = 0 => Restored(f) = Reported(f)

(* No two entries name the same file, neither in memory nor on the disk,   *)
(* and while the kernel runs its superblock extends the one on the disk:   *)
(* an entry that is on the disk never moves to another slot.               *)
OneSlotPerFile ==
  /\ TypeOK
  /\ \A sb \in {super, g_super} : \A i, j \in Slots :
       i < j /\ j < sb.count => sb.entries[i].path # sb.entries[j].path
  /\ g_loaded /\ super.magic =>
       /\ super.count <= g_super.count
       /\ \A i \in Slots : i < super.count =>
            super.entries[i].path = g_super.entries[i].path

(* A save writes to the sectors of its own file only: the image of a file  *)
(* changes in no step but those of a save of that file.                    *)
OthersUntouched ==
  [][\A i \in Slots : i < super.count /\ data'[i] # data[i]
       => save.file = super.entries[i].path]_vars
=============================================================================
