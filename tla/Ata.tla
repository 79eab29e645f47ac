--------------------------------- MODULE Ata --------------------------------
(***************************************************************************)
(* src/kernel/ata.cpp, the polled driver of the one disk, with the disk.   *)
(* Every caller reads or writes one sector (diskfs.cpp, gui.cpp).          *)
(*                                                                         *)
(* A wait is up to a million reads of the status register: it ends when    *)
(* the drive shows what is waited for, or gives up.  The drive is slow as  *)
(* it likes, may fail a command, and takes no command while BSY or DRQ is  *)
(* set: it ignores it.  What was written is in its cache until a flush has *)
(* brought it to the platter.                                              *)
(***************************************************************************)
EXTENDS Naturals

CONSTANTS Sectors, Sector, Blank  \* the sectors; what one may hold; Blank at first

VARIABLES present,  \* g_pri_master.present
          pc,       \* which wait of ata_init, ata_read or ata_write is polling
          call,     \* the call in progress or, with pc "out", the last one
          status,   \* the drive: "ready", "BSY", "DRQ" or "ERR"; "none"
          command,  \* what the drive works on
          cache, platter,
          abandoned, rejected  \* a wait gave up on the drive; the drive failed
                               \* a write after its data, or a flush

ataVars == <<present, pc, call, status, command, cache, platter, abandoned, rejected>>
driver == <<present, pc, call, abandoned>>
drive  == <<status, command, cache, platter, rejected>>

Call(op, lba, data) == [op |-> op, lba |-> lba, data |-> data, ok |-> FALSE]

AnySector == CHOOSE lba \in Sectors : TRUE
Calls == {Call("read", lba, Blank) : lba \in Sectors}
         \union {Call("write", lba, data) : lba \in Sectors, data \in Sector}

\* ata_init has sent IDENTIFY, to a drive or to none.
AtaInit == /\ present = FALSE
           /\ pc = "identify"
           /\ call = Call("identify", AnySector, Blank)
           /\ status \in {"BSY", "none"}
           /\ command = call
           /\ cache = [lba \in Sectors |-> Blank]
           /\ platter = cache
           /\ abandoned = FALSE
           /\ rejected = FALSE

-----------------------------------------------------------------------------
(* The drive.                                                              *)

\* It gets a command: BSY, or nothing if it is not ready for one.
Issue(c) == IF status \in {"BSY", "DRQ"} THEN UNCHANGED <<status, command>>
            ELSE status' = "BSY" /\ command' = c

\* IDENTIFY, READ and WRITE come to where data is transferred.
DriveAsks == /\ status = "BSY" /\ command.op \in {"identify", "read", "write"}
             /\ status' = "DRQ"
             /\ UNCHANGED <<command, cache, platter, rejected>>

\* The data of a WRITE, all of it there, gets into the cache.
DriveStores == /\ status = "BSY" /\ command.op = "store"
               /\ status' = "ready"
               /\ cache' = [cache EXCEPT ![command.lba] = command.data]
               /\ UNCHANGED <<command, platter, rejected>>

DriveFlushes == /\ status = "BSY" /\ command.op = "flush"
                /\ status' = "ready"
                /\ platter' = cache
                /\ UNCHANGED <<command, cache, rejected>>

DriveFails == /\ status = "BSY"
              /\ status' = "ERR"
              /\ rejected' = (rejected \/ command.op \in {"store", "flush"})
              /\ UNCHANGED <<command, cache, platter>>

-----------------------------------------------------------------------------
(* The driver.                                                             *)

Return(ok) == pc' = "out" /\ call' = [call EXCEPT !.ok = ok]

\* A poll gives up: wait_not_busy on BSY, wait_drq on no DRQ.
GivesUp == /\ \/ pc # "out" /\ status = "BSY"
              \/ pc \in {"identify", "data"} /\ status = "ready"
           /\ Return(FALSE)
           /\ abandoned' = TRUE
           /\ UNCHANGED <<present, drive>>

\* wait_drq sees ERR; ata_init, ata_read and ata_write return.
SeesError == /\ pc \in {"identify", "data"} /\ status = "ERR"
             /\ Return(FALSE)
             /\ UNCHANGED <<present, abandoned, drive>>

\* ata_init reads what the drive is.
Identified == /\ pc = "identify" /\ status = "DRQ"
              /\ present' = TRUE
              /\ Return(TRUE)
              /\ status' = "ready"
              /\ UNCHANGED <<abandoned, command, cache, platter, rejected>>

\* ata_init finds no drive on the bus, or one that is not a plain disk.
NotADisk == /\ pc = "identify" /\ status # "BSY"
            /\ Return(FALSE)
            /\ UNCHANGED <<present, abandoned, drive>>

\* ata_read and ata_write answer false when there is no drive.
Refused(c) == /\ pc = "out" /\ ~present
              /\ call' = c
              /\ UNCHANGED <<present, pc, abandoned, drive>>

Begin(c) == /\ pc = "out" /\ present
            /\ call' = c
            /\ pc' = "not busy"
            /\ UNCHANGED <<present, abandoned, drive>>

SendCommand == /\ pc = "not busy" /\ status # "BSY"
               /\ Issue(call)
               /\ pc' = "data"
               /\ UNCHANGED <<present, call, abandoned, cache, platter, rejected>>

\* The 256 words of a sector.  A drive that still waits with another command
\* hands out or takes that one's sector, or anything and nothing if the words
\* go the other way.
ReadSector ==
  /\ pc = "data" /\ status = "DRQ" /\ call.op = "read"
  /\ pc' = "out"
  /\ \E data \in IF command.op = "read" THEN {cache[command.lba]} ELSE Sector :
       call' = [call EXCEPT !.ok = TRUE, !.data = data]
  /\ status' = IF command.op = "read" THEN "ready" ELSE "DRQ"
  /\ UNCHANGED <<present, abandoned, command, cache, platter, rejected>>

\* A hasty one does not wait for the drive to be done with the data before it
\* sends the flush, which the drive then ignores.
WriteSectorHasty ==
  /\ pc = "data" /\ status = "DRQ" /\ call.op = "write"
  /\ pc' = "flushed"
  /\ status' = "BSY"
  /\ command' = [call EXCEPT !.op = "store"]
  /\ UNCHANGED <<present, call, abandoned, cache, platter, rejected>>

WriteSector ==
  /\ pc = "data" /\ status = "DRQ" /\ call.op = "write"
  /\ pc' = "written"
  /\ IF command.op = "write"
     THEN /\ status' = "BSY"
          /\ command' = [command EXCEPT !.op = "store", !.data = call.data]
     ELSE UNCHANGED <<status, command>>
  /\ UNCHANGED <<present, call, abandoned, cache, platter, rejected>>

SendFlush == /\ pc = "written" /\ status # "BSY"
             /\ Issue([call EXCEPT !.op = "flush"])
             /\ pc' = "flushed"
             /\ UNCHANGED <<present, call, abandoned, cache, platter, rejected>>

\* "return wait_not_busy()", whatever the other bits of the status are
Flushed == /\ pc = "flushed" /\ status # "BSY"
           /\ Return(TRUE)
           /\ UNCHANGED <<present, abandoned, drive>>

DriverNext == \/ \E c \in Calls : Refused(c) \/ Begin(c)
              \/ GivesUp \/ SeesError \/ NotADisk \/ Identified
              \/ SendCommand \/ ReadSector
              \/ WriteSector \/ SendFlush \/ Flushed

DriveNext == (DriveAsks \/ DriveStores \/ DriveFlushes \/ DriveFails) /\ UNCHANGED driver

AtaNext == DriverNext \/ DriveNext

AtaSpec == AtaInit /\ [][AtaNext]_ataVars

-----------------------------------------------------------------------------

(* "Returns true on success" (ata.h): a read that returns true has the     *)
(* contents of the sector asked for, and what a write that returns true    *)
(* wrote is on the platter, and stays there.  Not so once a call has given *)
(* up on a drive that then goes on with the old command, nor when the      *)
(* drive fails a write after it took the data (ata.cpp:174-178 looks at    *)
(* BSY only).                                                              *)
TrueMeansDone ==
  pc = "out" /\ call.ok /\ ~abandoned /\ ~rejected =>
    /\ call.op = "read"  => call.data = cache[call.lba]
    /\ call.op = "write" => platter[call.lba] = call.data
    /\ cache = platter
=============================================================================
