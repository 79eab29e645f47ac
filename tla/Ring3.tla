------------------------------- MODULE Ring3 --------------------------------
(***************************************************************************)
(* Running ring-3 programs: run_user_elf (vfs.cpp), elf_load,              *)
(* usermode_run_with_args and pmm_alloc_page, usermode_jump and            *)
(* usermode_return (usermode_asm.asm), SYS_READ and SYS_EXIT, and          *)
(* keyboard_handler, which routes a key to the program or to the shell.    *)
(*                                                                         *)
(* There is one CPU and there are two contexts.  "main" is the main loop,  *)
(* which launches a program when Run is clicked in the Files window, with  *)
(* interrupts on.  "irq" is the handler of IRQ1: the shell runs inside it, *)
(* with interrupts off, and IRQ1 stays in service until pic_send_eoi(1),   *)
(* its last act.  While it has not returned, main stands still.            *)
(*                                                                         *)
(* All programs are linked at one address, so that memory holds one image. *)
(* Of a stdin line the model keeps how long it is and whether it ends in a *)
(* newline; of a stack, the page it is on.                                 *)
(***************************************************************************)
EXTENDS Naturals, FiniteSets, FiniteSetsExt

CONSTANTS Programs,    \* the ELF programs of /bin
          Pages,       \* the pages pmm_alloc_page can hand out, numbered
          LINE_CAP     \* the length of stdin's line buffer

ASSUME ConstantsAssumption == /\ Pages \subseteq Nat \ {0}
                              /\ IsFiniteSet(Pages)
                              /\ LINE_CAP \in Nat \ {0}

None == "none"
Contexts == {"main", "irq"}

VARIABLES pc,          \* what each context does in its launch, "idle" if none
          prog,        \* the program it launches
          seen,        \* the bitmap pmm.cpp tested, before it writes it
          stack,       \* the page of the user stack, 0 when there is none
          image,       \* the program whose segments are in memory
          page_bitmap, \* the pages marked as used
          spawned,     \* the pages that hold stacks of spawned processes
          g_usermode_active,
          saved_rsp,   \* g_usermode_save: the context its rsp is a frame of
          saved_if,    \* and whether its rflags have interrupts on
          interrupts_on, in_service,
          g_len, g_ready, newline,  \* stdin's line; newline: it ends in one
          crossed,     \* history: the places of main's launch in its window
                       \* at which the shell launched a program
          torn         \* history: spawn ran between a test and the write of
                       \* the bitmap by main

launches == <<pc, prog, seen, stack>>
memory   == <<image, page_bitmap, spawned>>
usermode == <<g_usermode_active, saved_rsp, saved_if>>
cpu      == <<interrupts_on, in_service>>
stdin    == <<g_len, g_ready, newline>>
history  == <<crossed, torn>>
vars     == <<launches, memory, usermode, cpu, stdin, history>>

Running == IF pc["irq"] # "idle" THEN "irq" ELSE "main"

Init == /\ pc = [c \in Contexts |-> "idle"]
        /\ prog = [c \in Contexts |-> None]
        /\ seen = [c \in Contexts |-> {}]
        /\ stack = [c \in Contexts |-> 0]
        /\ image = None
        /\ page_bitmap = {}
        /\ spawned = {}
        /\ g_usermode_active = FALSE
        /\ saved_rsp = None
        /\ saved_if = FALSE
        /\ interrupts_on = TRUE
        /\ in_service = FALSE
        /\ g_len = 0 /\ g_ready = FALSE /\ newline = FALSE
        /\ crossed = {} /\ torn = FALSE

-----------------------------------------------------------------------------
(* A launch, by either context.                                            *)

\* run_user_elf has copied p's segments.
Loaded(c, p) == /\ image' = p
                /\ pc' = [pc EXCEPT ![c] = "loaded"]
                /\ prog' = [prog EXCEPT ![c] = p]

\* files_handle_click: Run
LaunchFromFiles(p) == /\ Running = "main"
                      /\ pc["main"] = "idle"
                      /\ interrupts_on
                      /\ Loaded("main", p)
                      /\ crossed' = {}
                      /\ UNCHANGED <<seen, stack, page_bitmap, spawned, usermode, cpu, stdin,
                                     torn>>

At(c, place) == Running = c /\ pc[c] = place

\* pmm_alloc_page finds a bit that is 0; the byte it is in is in a register.
TestBitmap(c) == /\ At(c, "loaded")
                 /\ pc' = [pc EXCEPT ![c] = IF Pages \subseteq page_bitmap THEN "returned"
                                            ELSE "tested"]
                 /\ seen' = [seen EXCEPT ![c] = page_bitmap]
                 /\ UNCHANGED <<prog, stack, memory, usermode, cpu, stdin, history>>

\* It sets the bit, in memory or in the register it then stores: the compiler
\* may do either, and stores the register.  Pages are all in that byte.
MarkBitmap(c) == /\ At(c, "tested")
                 /\ LET page == Min(Pages \ seen[c])
                    IN  /\ page_bitmap' \in {page_bitmap \union {page}, seen[c] \union {page}}
                        /\ stack' = [stack EXCEPT ![c] = page]
                 /\ pc' = [pc EXCEPT ![c] = "stacked"]
                 /\ UNCHANGED <<prog, seen, image, spawned, usermode, cpu, stdin, history>>

\* usermode_jump up to rflags: g_usermode_save now belongs to c.
SaveContext(c) == /\ At(c, "stacked")
                  /\ saved_rsp' = c
                  /\ saved_if' = interrupts_on
                  /\ pc' = [pc EXCEPT ![c] = "saved"]
                  /\ UNCHANGED <<prog, seen, stack, memory, g_usermode_active, cpu, stdin, history>>

\* A usermode_jump that does not set the flag
EnterUnflagged(c) == /\ At(c, "saved")
                     /\ interrupts_on' = TRUE
                     /\ pc' = [pc EXCEPT ![c] = "user"]
                     /\ UNCHANGED <<prog, seen, stack, memory, usermode, in_service,
                                    stdin, history>>

\* The flag and the iretq, with RFLAGS 0x202
EnterRing3(c) == /\ At(c, "saved")
                 /\ g_usermode_active' = TRUE
                 /\ interrupts_on' = TRUE
                 /\ pc' = [pc EXCEPT ![c] = "user"]
                 /\ UNCHANGED <<prog, seen, stack, memory, saved_rsp, saved_if, in_service,
                                stdin, history>>

\* usermode_return without its popfq: interrupts stay as int 0x80 left them.
ReturnWithoutFlags(c) ==
  /\ g_usermode_active' = FALSE
  /\ pc' = [pc EXCEPT ![c] = IF saved_rsp = c THEN "returned" ELSE "lost"]
  /\ interrupts_on' = FALSE

\* usermode_return: to the frame rsp was saved from.  When that is a frame of
\* a handler that has returned, what happens next is not modelled.
Return(c) ==
  /\ g_usermode_active' = FALSE
  /\ pc' = [pc EXCEPT ![c] = IF saved_rsp = c THEN "returned" ELSE "lost"]
  /\ interrupts_on' = saved_if

\* SYS_EXIT
SysExit(c) == /\ At(c, "user")
              /\ Return(c)
              /\ UNCHANGED <<prog, seen, stack, memory, saved_rsp, saved_if, in_service,
                             stdin, history>>

\* pmm_free_page tests the bit of the stack page.  When it is clear, a double
\* free, or pmm_alloc_page found none, there is nothing more to do.
TestForFree(c) == /\ At(c, "returned")
                  /\ \/ /\ stack[c] \in page_bitmap
                        /\ pc' = [pc EXCEPT ![c] = "freeing"]
                        /\ seen' = [seen EXCEPT ![c] = page_bitmap]
                        /\ UNCHANGED stack
                     \/ /\ stack[c] \notin page_bitmap
                        /\ pc' = [pc EXCEPT ![c] = "freed"]
                        /\ stack' = [stack EXCEPT ![c] = 0]
                        /\ UNCHANGED seen
                  /\ UNCHANGED <<prog, memory, usermode, cpu, stdin, history>>

\* It clears the bit, in memory or in the register it has tested.
ClearBitmap(c) == /\ At(c, "freeing")
                  /\ page_bitmap' \in {page_bitmap \ {stack[c]}, seen[c] \ {stack[c]}}
                  /\ stack' = [stack EXCEPT ![c] = 0]
                  /\ pc' = [pc EXCEPT ![c] = "freed"]
                  /\ UNCHANGED <<prog, seen, image, spawned, usermode, cpu, stdin, history>>

\* The end of the launch.  In the shell's case the handler then ends too: the
\* EOI, and an iretq into main with interrupts on.
EndLaunch(c) == /\ At(c, "freed")
                /\ pc' = [pc EXCEPT ![c] = "idle"]
                /\ prog' = [prog EXCEPT ![c] = None]
                /\ seen' = [seen EXCEPT ![c] = {}]
                /\ \/ /\ c = "irq"
                      /\ in_service' = FALSE
                      /\ interrupts_on' = TRUE
                   \/ c = "main" /\ UNCHANGED cpu
                /\ UNCHANGED <<stack, memory, usermode, stdin, history>>

-----------------------------------------------------------------------------
(* The keyboard interrupt.                                                 *)

Interruptible == interrupts_on /\ ~in_service /\ pc["main"] # "lost"

\* Between elf_load and g_usermode_active = 1 main's launch is not finished,
\* and the keyboard still goes to the shell.
Window == {"loaded", "tested", "stacked", "saved"}

\* Between the test of the bitmap and its write the write may be stale.
Stale == {"tested", "freeing"}

Erased == /\ g_len' = IF g_len > 0 THEN g_len - 1 ELSE 0
          /\ UNCHANGED <<g_ready, newline>>

Stored(n) == g_len' = IF g_len < n THEN g_len + 1 ELSE g_len

Ended == /\ Stored(LINE_CAP)
         /\ newline' = (g_len < LINE_CAP)
         /\ g_ready' = TRUE

\* stdin_push with no place kept for the newline, with no bound, and with
\* another idea of which character ends a line
PushUpToCap(k) == \/ g_ready /\ UNCHANGED stdin
                  \/ ~g_ready /\ k = "erase" /\ Erased
                  \/ ~g_ready /\ k = "enter" /\ Ended
                  \/ ~g_ready /\ k = "char" /\ Stored(LINE_CAP) /\ UNCHANGED <<g_ready, newline>>

PushUnbounded(k) == \/ g_ready /\ UNCHANGED stdin
                    \/ ~g_ready /\ k = "erase" /\ Erased
                    \/ ~g_ready /\ k = "enter" /\ Ended
                    \/ ~g_ready /\ k = "char" /\ g_len' = g_len + 1 /\ UNCHANGED <<g_ready, newline>>

PushEnterAsText(k) == \/ g_ready /\ UNCHANGED stdin
                      \/ ~g_ready /\ k = "erase" /\ Erased
                      \/ ~g_ready /\ k # "erase" /\ Stored(LINE_CAP - 1) /\ UNCHANGED <<g_ready, newline>>

\* stdin_push
Push(k) == \/ g_ready /\ UNCHANGED stdin
           \/ ~g_ready /\ k = "erase" /\ Erased
           \/ ~g_ready /\ k = "enter" /\ Ended
           \/ ~g_ready /\ k = "char" /\ Stored(LINE_CAP - 1) /\ UNCHANGED <<g_ready, newline>>

\* A key while a program is active: the handler pushes it and ends.
KeyToProgram(k) == /\ Interruptible
                   /\ g_usermode_active
                   /\ Push(k)
                   /\ UNCHANGED <<launches, memory, usermode, cpu, history>>

\* Enter at the shell's prompt, with the name of a program
LaunchFromShell(p) == /\ Interruptible
                      /\ ~g_usermode_active
                      /\ Loaded("irq", p)
                      /\ in_service' = TRUE
                      /\ interrupts_on' = FALSE
                      /\ crossed' = crossed \union ({pc["main"]} \intersect Window)
                      /\ UNCHANGED <<seen, stack, page_bitmap, spawned, usermode, stdin, torn>>

\* Enter with `spawn`: process_create takes two pages for its stacks, or with
\* one left takes it and gives it back.  The handler runs from start to end.
Spawn == /\ Interruptible
         /\ ~g_usermode_active
         /\ Cardinality(Pages \ page_bitmap) >= 2
         /\ LET kernel_stack == Min(Pages \ page_bitmap)
                user_stack   == Min(Pages \ (page_bitmap \union {kernel_stack}))
            IN  /\ page_bitmap' = page_bitmap \union {kernel_stack, user_stack}
                /\ spawned' = spawned \union {kernel_stack, user_stack}
         /\ torn' = (torn \/ pc["main"] \in Stale)
         /\ UNCHANGED <<launches, image, usermode, cpu, stdin, crossed>>

-----------------------------------------------------------------------------
(* SYS_READ.                                                               *)

\* int 0x80 is an interrupt gate.
SysRead(c) == /\ At(c, "user")
              /\ pc' = [pc EXCEPT ![c] = "reading"]
              /\ interrupts_on' = FALSE
              /\ UNCHANGED <<prog, seen, stack, memory, usermode, in_service, stdin, history>>

\* stdin_read_line: no line yet, sti; hlt
WaitForLine(c) == /\ At(c, "reading")
                  /\ ~g_ready
                  /\ interrupts_on' = TRUE
                  /\ UNCHANGED <<launches, memory, usermode, in_service, stdin, history>>

\* stdin_read_line takes the line, and iretq puts the program's flags back.
TakeLine(c) == /\ At(c, "reading")
               /\ g_ready
               /\ g_len' = 0 /\ g_ready' = FALSE /\ newline' = FALSE
               /\ pc' = [pc EXCEPT ![c] = "user"]
               /\ interrupts_on' = TRUE
               /\ UNCHANGED <<prog, seen, stack, memory, usermode, in_service, history>>

Step(c) == \/ TestBitmap(c) \/ MarkBitmap(c) \/ SaveContext(c) \/ EnterRing3(c)
           \/ WaitForLine(c) \/ TakeLine(c)
           \/ TestForFree(c) \/ ClearBitmap(c) \/ EndLaunch(c)

Next == \/ \E p \in Programs : LaunchFromFiles(p) \/ LaunchFromShell(p)
        \/ \E c \in Contexts : Step(c) \/ SysRead(c) \/ SysExit(c)
        \/ \E k \in {"char", "enter", "erase"} : KeyToProgram(k)
        \/ Spawn

(***************************************************************************)
(* The CPU goes on with the kernel's own steps, and the user, asked for a  *)
(* line, presses Enter.  That a program exits, or reads, or that anything  *)
(* is launched, is not assumed.                                            *)
(***************************************************************************)
Spec == /\ Init /\ [][Next]_vars
        /\ \A c \in Contexts : WF_vars(Step(c))
        /\ WF_vars(KeyToProgram("enter"))

-----------------------------------------------------------------------------

(* Every variable has its type.                                            *)
Places == {"idle", "loaded", "tested", "stacked", "saved", "user", "reading",
           "returned", "freeing", "freed", "lost"}
TypeOK == /\ pc \in [Contexts -> Places]
          /\ prog \in [Contexts -> Programs \union {None}]
          /\ seen \in [Contexts -> SUBSET Pages]
          /\ stack \in [Contexts -> Pages \union {0}]
          /\ image \in Programs \union {None}
          /\ page_bitmap \subseteq Pages
          /\ spawned \subseteq Pages
          /\ saved_rsp \in Contexts \union {None}
          /\ {g_usermode_active, saved_if, interrupts_on, in_service,
              g_ready, newline, torn} \subseteq BOOLEAN
          /\ crossed \subseteq Window
          /\ g_len \in 0..LINE_CAP

(* The program in ring 3 is the one that was launched: the words given to  *)
(* elf-hello arrive in elf-hello.                                          *)
InRing3 == {c \in Contexts : pc[c] \in {"user", "reading"}}
OwnImage == \A c \in InRing3 : image = prog[c]

(* "Returns when the user program calls SYS_EXIT": to the launch it is the *)
(* end of.                                                                 *)
ReturnsToLauncher == \A c \in Contexts : pc[c] # "lost"

(* "Allocates a one-page user stack": the user stacks of the launches and  *)
(* the stacks of spawned processes are on marked pages, and no two on one. *)
StacksApart == /\ \A c \in Contexts : stack[c] # 0 => stack[c] \in page_bitmap \ spawned
               /\ spawned \subseteq page_bitmap
               /\ stack["main"] # 0 => stack["main"] # stack["irq"]

(* One image address, one g_usermode_save and a bitmap that is tested and  *)
(* then written do for a launch from the shell whatever it interrupted.    *)
(* For a launch from the Files window each does unless one kind of command *)
(* came in at one kind of place: its image unless a program was launched   *)
(* in its window, its way back unless that was in usermode_jump itself,    *)
(* the stacks unless spawn ran while pmm.cpp was between a test of the     *)
(* bitmap and its write, when a page is taken or given back.               *)
LaunchesApart == /\ "irq" \in InRing3 => image = prog["irq"] /\ saved_rsp = "irq"
                 /\ crossed = {} => OwnImage
                 /\ "saved" \notin crossed => ReturnsToLauncher
                 /\ ~torn => StacksApart

(* Coming back from ring 3, and from the shell, the main loop has its      *)
(* interrupts on again, without which its hlt would be the last; and IRQ1  *)
(* is in service exactly while a handler that was entered has not ended.   *)
InterruptsRestored == /\ TypeOK
                      /\ in_service <=> Running = "irq"
                      /\ Running = "main" /\ pc["main"] \notin {"reading", "lost"}
                           => interrupts_on

(* A line that SYS_READ may take ends in its newline, also when it was     *)
(* typed into a buffer that was full.                                      *)
LineEnds == g_ready => newline /\ g_len > 0

(* A program launched from the Files window that reads stdin gets a line.  *)
FilesProgramReads == pc["main"] = "reading" ~> pc["main"] # "reading"

(* "cat (reads a line via SYS_READ)": wherever it was launched, a program  *)
(* that reads stdin gets a line.                                           *)
EveryProgramReads == \A c \in Contexts : pc[c] = "reading" ~> pc[c] # "reading"
=============================================================================
