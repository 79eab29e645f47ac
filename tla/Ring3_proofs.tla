---------------------------- MODULE Ring3_proofs ----------------------------
(***************************************************************************)
(* Launches of programs, for any programs, pages and length of a line:     *)
(* what one image address, one g_usermode_save and one bitmap promise to a *)
(* launch, when interrupts come back, and how a line ends.                 *)
(*                                                                         *)
(* The promises are about single states, but rest on who may move where:   *)
(* while the shell is at work the main loop stands still, and while a      *)
(* program runs the keyboard does not reach the shell.  ShellLaunch and    *)
(* FilesLaunch say so for the two contexts; Uncrossed and Untorn say what  *)
(* a launch from the Files window keeps, and up to which interruption.     *)
(***************************************************************************)
EXTENDS Ring3, FiniteSetTheorems, WellFoundedInduction, TLAPS

\* The shell's launch has the CPU to itself: whatever it interrupted, the
\* image, g_usermode_save and the bitmap are its own.
ShellLaunch ==
  /\ in_service <=> pc["irq"] # "idle"
  /\ pc["irq"] # "idle" => image = prog["irq"]
  /\ pc["irq"] \in {"saved", "user", "reading"} => saved_rsp = "irq"
  /\ pc["irq"] # "lost"
  /\ pc["irq"] \in Stale => seen["irq"] = page_bitmap
  /\ pc["irq"] \in {"freed", "idle", "loaded", "tested"} => stack["irq"] = 0

\* From "user" on the keyboard goes to the program: no shell launch begins
\* while main's program runs, and what g_usermode_save holds of main has its
\* interrupts on.
FilesLaunch ==
  /\ pc["main"] \in {"user", "reading"} => g_usermode_active
  /\ pc["main"] \in {"user", "reading", "lost"} => pc["irq"] = "idle"
  /\ saved_rsp = "main" => saved_if
  /\ pc["irq"] = "idle" /\ pc["main"] \notin {"reading", "lost"} => interrupts_on

\* What main's launch keeps unless the shell launched a program in its window.
Uncrossed ==
  /\ crossed = {} /\ pc["main"] \in Window \union {"user", "reading"}
       => pc["irq"] = "idle" /\ image = prog["main"]
  /\ "saved" \notin crossed
       => /\ pc["main"] # "lost"
          /\ pc["main"] \in {"saved", "user", "reading"}
               => pc["irq"] = "idle" /\ saved_rsp = "main"

\* The bitmap main has looked at is still what it will write, but for the page
\* a launch from the shell has taken and is going to give back.
Untorn == ~torn /\ pc["main"] \in Stale => seen["main"] = page_bitmap \ {stack["irq"]}

FoundAPage == \A c \in Contexts : pc[c] = "tested" => ~(Pages \subseteq seen[c])

LineTyped == /\ LineEnds
             /\ ~g_ready => g_len < LINE_CAP

IInv == /\ TypeOK /\ ShellLaunch /\ FilesLaunch /\ Uncrossed /\ Untorn /\ FoundAPage /\ LineTyped
        /\ ~torn => StacksApart

-----------------------------------------------------------------------------

LessThan == {p \in Nat \X Nat : p[1] < p[2]}

(* A set of naturals that is not empty has a least element. *)
LEMMA Least ==
  ASSUME NEW S \in SUBSET Nat, S # {}
  PROVE  Min(S) \in S
<1>1. IsWellFoundedOn(LessThan, Nat)
  <2>1. OpToRel(<, Nat) = LessThan
    BY DEF OpToRel, LessThan
  <2> QED
    BY <2>1, NatLessThanWellFounded
<1>2. PICK m \in S : \A k \in S : <<k, m>> \notin LessThan
  BY <1>1, WFMin
<1>3. ASSUME NEW k \in S PROVE m <= k
  <2>1. <<k, m>> \in Nat \X Nat /\ <<k, m>> \notin LessThan
    BY <1>2
  <2>2. ~(<<k, m>>[1] < <<k, m>>[2])
    BY <2>1 DEF LessThan
  <2> QED
    BY <2>2
<1> QED
  BY <1>3 DEF Min

\* pmm_alloc_page returns a page that was clear when it looked.
LEMMA PageFound ==
  ASSUME NEW used \in SUBSET Pages, ~(Pages \subseteq used)
  PROVE  Min(Pages \ used) \in Pages \ used
<1>1. Pages \ used \in SUBSET Nat /\ Pages \ used # {}
  BY ConstantsAssumption
<1> QED
  BY <1>1, Least

LEMMA TwoContexts ==
  ASSUME TypeOK
  PROVE  /\ Contexts = {"main", "irq"}
         /\ pc["main"] \in Places /\ pc["irq"] \in Places
         /\ Running \in Contexts
BY DEF TypeOK, Contexts, Running

-----------------------------------------------------------------------------
(* One lemma per action: the step preserves the invariant.                 *)

\* Run in the Files window: the shell is not at work.
LEMMA LaunchFromFilesStep ==
  ASSUME IInv, NEW p \in Programs, LaunchFromFiles(p)
  PROVE  IInv'
<1> USE DEF IInv, LaunchFromFiles, Loaded
<1>1. TypeOK'
  BY DEF TypeOK, Places, Window, usermode, cpu, stdin
<1>2. ShellLaunch' /\ FilesLaunch'
  BY DEF TypeOK, Contexts, usermode, cpu, ShellLaunch, FilesLaunch, Running
<1>3. Uncrossed' /\ Untorn'
  BY DEF TypeOK, Contexts, usermode, cpu, ShellLaunch, Uncrossed, Untorn, Stale, Running
<1>4. FoundAPage' /\ LineTyped'
  BY DEF stdin, FoundAPage, LineTyped, LineEnds
<1>5. ~torn' => StacksApart'
  BY DEF StacksApart
<1> QED
  BY <1>1, <1>2, <1>3, <1>4, <1>5

\* A program's name at the prompt: main is not in ring 3, and stands still.
LEMMA LaunchFromShellStep ==
  ASSUME IInv, NEW p \in Programs, LaunchFromShell(p)
  PROVE  IInv'
<1> USE DEF IInv, LaunchFromShell, Loaded
<1>1. TypeOK'
  BY DEF TypeOK, Places, Window, usermode, stdin
<1>2. pc["main"] \notin {"user", "reading", "lost"} /\ pc["irq"] = "idle"
  BY DEF Interruptible, ShellLaunch, FilesLaunch
<1>3. /\ pc' = [pc EXCEPT !["irq"] = "loaded"] /\ pc'["irq"] = "loaded" /\ pc'["main"] = pc["main"]
      /\ prog'["irq"] = p /\ image' = p
  BY DEF TypeOK, Contexts
<1>4. ShellLaunch' /\ FilesLaunch'
  BY <1>2, <1>3 DEF ShellLaunch, FilesLaunch, Stale, usermode
<1>5. Uncrossed' /\ Untorn'
  BY <1>2, <1>3 DEF Uncrossed, Untorn, Window, usermode
<1>6. FoundAPage' /\ LineTyped'
  BY DEF stdin, FoundAPage, LineTyped, LineEnds
<1>7. ~torn' => StacksApart'
  BY DEF StacksApart
<1> QED
  BY <1>1, <1>4, <1>5, <1>6, <1>7

\* pmm_alloc_page, as far as its look at the bitmap
LEMMA TestBitmapStep ==
  ASSUME IInv, NEW c \in Contexts, TestBitmap(c)
  PROVE  IInv'
<1> USE DEF IInv, TestBitmap
<1>1. TypeOK'
  BY DEF TypeOK, Places, memory, usermode, cpu, stdin, history
<1>2. ShellLaunch' /\ FilesLaunch'
  BY DEF TypeOK, Contexts, memory, usermode, cpu, ShellLaunch, FilesLaunch, Stale, Running, At
<1>3. Uncrossed'
  BY DEF TypeOK, Contexts, memory, usermode, history, Uncrossed, Window, Running, At
<1>4. Untorn'
  <2>1. CASE c = "main"
    <3>1. stack["irq"] = 0 /\ 0 \notin page_bitmap /\ seen'["main"] = page_bitmap
      BY <2>1, ConstantsAssumption DEF TypeOK, Contexts, ShellLaunch, Running, At
    <3> QED
      BY <3>1 DEF Untorn, memory
  <2>2. CASE c = "irq"
    BY <2>2 DEF TypeOK, Contexts, Untorn, memory, history
  <2> QED
    BY <2>1, <2>2 DEF Contexts
<1>5. FoundAPage' /\ LineTyped'
  BY DEF TypeOK, stdin, FoundAPage, LineTyped, LineEnds
<1>6. ~torn' => StacksApart'
  BY DEF memory, history, StacksApart
<1> QED
  BY <1>1, <1>2, <1>3, <1>4, <1>5, <1>6

\* Between a test of the bitmap and the write nothing has happened to it, for
\* the shell's launch, and for main's when the shell is idle and no spawn ran.
LEMMA BitmapAsSeen ==
  ASSUME IInv, NEW c \in Contexts, Running = c, pc[c] \in Stale, c = "main" => ~torn
  PROVE  seen[c] = page_bitmap
<1>1. CASE c = "irq"
  BY <1>1 DEF IInv, ShellLaunch
<1>2. CASE c = "main"
  <2>1. stack["irq"] = 0 /\ 0 \notin page_bitmap
    BY <1>2, ConstantsAssumption DEF IInv, TypeOK, ShellLaunch, Running
  <2> QED
    BY <1>2, <2>1 DEF IInv, Untorn
<1> QED
  BY <1>1, <1>2 DEF Contexts

\* pmm_alloc_page marks the page: the bitmap is still the one it looked at.
LEMMA MarkBitmapStep ==
  ASSUME IInv, NEW c \in Contexts, MarkBitmap(c)
  PROVE  IInv'
<1> DEFINE page == Min(Pages \ seen[c])
<1>1. /\ pc[c] = "tested" /\ Running = c
      /\ page_bitmap' \in {page_bitmap \union {page}, seen[c] \union {page}}
      /\ stack' = [stack EXCEPT ![c] = page]
      /\ pc' = [pc EXCEPT ![c] = "stacked"]
      /\ UNCHANGED <<prog, seen, image, spawned, usermode, cpu, stdin, history>>
  BY DEF MarkBitmap, At
<1>2. page \in Pages \ seen[c] /\ seen[c] \subseteq Pages /\ page_bitmap \subseteq Pages
  BY <1>1, PageFound DEF IInv, TypeOK, FoundAPage
<1>3. c = "irq" \/ ~torn => seen[c] = page_bitmap
  BY <1>1, BitmapAsSeen DEF Stale, Contexts
<1> HIDE DEF page
<1>4. TypeOK'
  BY <1>1, <1>2 DEF IInv, TypeOK, Contexts, Places, usermode, cpu, stdin, history
<1>5. ShellLaunch' /\ FilesLaunch' /\ FoundAPage' /\ LineTyped'
  BY <1>1, <1>3 DEF IInv, TypeOK, Contexts, ShellLaunch, FilesLaunch, FoundAPage, LineTyped,
                    LineEnds, Stale, Running, usermode, cpu, stdin
<1>6. Uncrossed'
  BY <1>1 DEF IInv, TypeOK, Contexts, Uncrossed, Window, Running, usermode, history
<1>7. Untorn'
  <2> SUFFICES ASSUME ~torn, pc'["main"] \in Stale PROVE Untorn'
    BY <1>1 DEF Untorn, history
  <2>1. c = "irq" /\ stack["irq"] = 0 /\ pc["main"] \in Stale
    BY <1>1 DEF IInv, TypeOK, Contexts, ShellLaunch, Stale
  <2>2. seen["main"] = page_bitmap
    BY <2>1, ConstantsAssumption DEF IInv, TypeOK, Untorn
  <2>3. page_bitmap' = page_bitmap \union {page} /\ page \notin page_bitmap /\ stack'["irq"] = page
    BY <1>1, <1>2, <1>3, <2>1 DEF IInv, TypeOK
  <2> QED
    BY <1>1, <2>2, <2>3 DEF Untorn
<1>8. ~torn' => StacksApart'
  <2> SUFFICES ASSUME ~torn PROVE StacksApart'
    BY <1>1 DEF history
  <2>1. page_bitmap' = page_bitmap \union {page} /\ page \notin page_bitmap
    BY <1>1, <1>2, <1>3
  <2>2. StacksApart /\ stack'[c] = page /\ spawned' = spawned
    BY <1>1 DEF IInv, TypeOK
  <2>3. \A d \in Contexts : d # c => stack'[d] = stack[d] /\ (stack[d] # 0 => stack[d] # page)
    BY <1>1, <2>1, <2>2 DEF IInv, TypeOK, StacksApart
  <2>4. \A d \in Contexts : stack'[d] # 0 => stack'[d] \in page_bitmap' \ spawned'
    BY <2>1, <2>2, <2>3 DEF StacksApart
  <2>5. stack'["main"] # 0 => stack'["main"] # stack'["irq"]
    <3>1. page # 0
      BY <1>2, ConstantsAssumption
    <3> QED
      BY <2>2, <2>3, <3>1 DEF StacksApart, Contexts
  <2> QED
    BY <2>1, <2>2, <2>4, <2>5 DEF StacksApart
<1> QED
  BY <1>4, <1>5, <1>6, <1>7, <1>8 DEF IInv

\* The steps of a launch that leave the bitmap, the stacks and the image alone
LEMMA PagesLeftAlone ==
  ASSUME IInv, UNCHANGED <<seen, stack, memory, torn>>,
         NEW c \in Contexts, NEW place \in Places \ Stale,
         pc' = [pc EXCEPT ![c] = place], pc[c] \notin {"idle", "loaded", "tested"}
  PROVE  /\ Untorn' /\ (~torn' => StacksApart')
         /\ pc'["irq"] \in Stale => seen'["irq"] = page_bitmap'
<1> USE DEF IInv, memory
<1>1. \A d \in Contexts : pc'[d] \in Stale => pc[d] \in Stale
  BY DEF TypeOK
<1>2. "main" \in Contexts /\ "irq" \in Contexts
  BY DEF Contexts
<1>3. Untorn'
  BY <1>1, <1>2 DEF Untorn
<1>4. ~torn' => StacksApart'
  BY DEF StacksApart
<1>5. pc'["irq"] \in Stale => seen'["irq"] = page_bitmap'
  BY <1>1, <1>2 DEF ShellLaunch
<1> QED
  BY <1>3, <1>4, <1>5

\* usermode_jump saves the stack pointer and the flags of its caller.
LEMMA SaveContextStep ==
  ASSUME IInv, NEW c \in Contexts, SaveContext(c)
  PROVE  IInv'
<1>0. /\ At(c, "stacked") /\ saved_rsp' = c /\ saved_if' = interrupts_on
      /\ pc' = [pc EXCEPT ![c] = "saved"] /\ "saved" \in Places \ Stale
      /\ UNCHANGED <<prog, seen, stack, memory, g_usermode_active, cpu, stdin, history>>
  BY DEF SaveContext, Places, Stale
<1> USE DEF IInv
<1>1. TypeOK'
  BY <1>0 DEF TypeOK, Contexts, memory, cpu, stdin, history
<1>2. Untorn' /\ (~torn' => StacksApart') /\ (pc'["irq"] \in Stale => seen'["irq"] = page_bitmap')
  BY <1>0, PagesLeftAlone DEF At, history
<1>3. ShellLaunch'
  BY <1>0, <1>2 DEF TypeOK, Contexts, memory, cpu, ShellLaunch, Running, At
<1>4. FilesLaunch'
  BY <1>0 DEF TypeOK, Contexts, memory, cpu, FilesLaunch, Running, At
<1>5. Uncrossed'
  BY <1>0 DEF TypeOK, Contexts, memory, history, Uncrossed, Window, Running, At
<1>6. FoundAPage' /\ LineTyped'
  BY <1>0 DEF TypeOK, stdin, FoundAPage, LineTyped, LineEnds
<1> QED
  BY <1>1, <1>2, <1>3, <1>4, <1>5, <1>6

\* usermode_jump enters the program.
LEMMA EnterRing3Step ==
  ASSUME IInv, NEW c \in Contexts, EnterRing3(c)
  PROVE  IInv'
<1>0. /\ At(c, "saved") /\ g_usermode_active' = TRUE /\ interrupts_on' = TRUE
      /\ pc' = [pc EXCEPT ![c] = "user"] /\ "user" \in Places \ Stale
      /\ UNCHANGED <<prog, seen, stack, memory, saved_rsp, saved_if, in_service, stdin, history>>
  BY DEF EnterRing3, Places, Stale
<1> USE DEF IInv
<1>1. TypeOK'
  BY <1>0 DEF TypeOK, Contexts, memory, stdin, history
<1>2. Untorn' /\ (~torn' => StacksApart') /\ (pc'["irq"] \in Stale => seen'["irq"] = page_bitmap')
  BY <1>0, PagesLeftAlone DEF At, history
<1>3. ShellLaunch' /\ FilesLaunch'
  BY <1>0, <1>2 DEF TypeOK, Contexts, memory, ShellLaunch, FilesLaunch, Running, At
<1>4. Uncrossed'
  BY <1>0 DEF TypeOK, Contexts, memory, history, Uncrossed, Window, Running, At
<1>5. FoundAPage' /\ LineTyped'
  BY <1>0 DEF TypeOK, stdin, FoundAPage, LineTyped, LineEnds
<1> QED
  BY <1>1, <1>2, <1>3, <1>4, <1>5

\* SYS_READ
LEMMA SysReadStep ==
  ASSUME IInv, NEW c \in Contexts, SysRead(c)
  PROVE  IInv'
<1>0. /\ At(c, "user") /\ interrupts_on' = FALSE
      /\ pc' = [pc EXCEPT ![c] = "reading"] /\ "reading" \in Places \ Stale
      /\ UNCHANGED <<prog, seen, stack, memory, usermode, in_service, stdin, history>>
  BY DEF SysRead, Places, Stale
<1> USE DEF IInv
<1>1. TypeOK'
  BY <1>0 DEF TypeOK, Contexts, memory, usermode, stdin, history
<1>2. Untorn' /\ (~torn' => StacksApart') /\ (pc'["irq"] \in Stale => seen'["irq"] = page_bitmap')
  BY <1>0, PagesLeftAlone DEF At, history
<1>3. ShellLaunch' /\ FilesLaunch'
  BY <1>0, <1>2 DEF TypeOK, Contexts, memory, usermode, ShellLaunch, FilesLaunch, Running, At
<1>4. Uncrossed'
  BY <1>0 DEF TypeOK, Contexts, memory, usermode, history, Uncrossed, Window, Running, At
<1>5. FoundAPage' /\ LineTyped'
  BY <1>0 DEF TypeOK, stdin, FoundAPage, LineTyped, LineEnds
<1> QED
  BY <1>1, <1>2, <1>3, <1>4, <1>5

\* stdin_read_line waits with interrupts on.
LEMMA WaitForLineStep ==
  ASSUME IInv, NEW c \in Contexts, WaitForLine(c)
  PROVE  IInv'
<1> USE DEF IInv, WaitForLine
<1>1. TypeOK'
  BY DEF TypeOK, launches, memory, usermode, stdin, history
<1>2. ShellLaunch' /\ FilesLaunch'
  BY DEF launches, memory, usermode, ShellLaunch, FilesLaunch
<1>3. Uncrossed' /\ Untorn'
  BY DEF launches, memory, usermode, history, Uncrossed, Untorn
<1>4. FoundAPage' /\ LineTyped'
  BY DEF launches, stdin, FoundAPage, LineTyped, LineEnds
<1>5. ~torn' => StacksApart'
  BY DEF launches, memory, history, StacksApart
<1> QED
  BY <1>1, <1>2, <1>3, <1>4, <1>5

\* stdin_read_line returns.
LEMMA TakeLineStep ==
  ASSUME IInv, NEW c \in Contexts, TakeLine(c)
  PROVE  IInv'
<1>0. /\ At(c, "reading") /\ interrupts_on' = TRUE
      /\ g_len' = 0 /\ g_ready' = FALSE /\ newline' = FALSE
      /\ pc' = [pc EXCEPT ![c] = "user"] /\ "user" \in Places \ Stale
      /\ UNCHANGED <<prog, seen, stack, memory, usermode, in_service, history>>
  BY DEF TakeLine, Places, Stale
<1> USE DEF IInv
<1>1. TypeOK'
  <2>1. 0 \in 0..LINE_CAP
    BY ConstantsAssumption
  <2> QED
    BY <1>0, <2>1 DEF TypeOK, Contexts, memory, usermode, history
<1>2. Untorn' /\ (~torn' => StacksApart') /\ (pc'["irq"] \in Stale => seen'["irq"] = page_bitmap')
  BY <1>0, PagesLeftAlone DEF At, history
<1>3. ShellLaunch' /\ FilesLaunch'
  BY <1>0, <1>2 DEF TypeOK, Contexts, memory, usermode, ShellLaunch, FilesLaunch, Running, At
<1>4. Uncrossed'
  BY <1>0 DEF TypeOK, Contexts, memory, usermode, history, Uncrossed, Window, Running, At
<1>5. FoundAPage' /\ LineTyped'
  BY <1>0, ConstantsAssumption DEF TypeOK, FoundAPage, LineTyped, LineEnds
<1> QED
  BY <1>1, <1>2, <1>3, <1>4, <1>5

\* usermode_return goes back to the launch that saved its frame last.
LEMMA SysExitStep ==
  ASSUME IInv, NEW c \in Contexts, SysExit(c)
  PROVE  IInv'
<1> DEFINE place == IF saved_rsp = c THEN "returned" ELSE "lost"
<1>0. /\ At(c, "user") /\ g_usermode_active' = FALSE /\ interrupts_on' = saved_if
      /\ pc' = [pc EXCEPT ![c] = place] /\ place \in Places \ Stale
      /\ UNCHANGED <<prog, seen, stack, memory, saved_rsp, saved_if, in_service, stdin, history>>
  BY DEF SysExit, Return, Places, Stale
<1> USE DEF IInv
<1>1. TypeOK'
  BY <1>0 DEF TypeOK, Contexts, memory, stdin, history
<1>2. Untorn' /\ (~torn' => StacksApart') /\ (pc'["irq"] \in Stale => seen'["irq"] = page_bitmap')
  BY <1>0, PagesLeftAlone DEF At, history
<1>3. ShellLaunch' /\ FilesLaunch'
  BY <1>0, <1>2 DEF TypeOK, Contexts, memory, ShellLaunch, FilesLaunch, Running, At
<1>4. Uncrossed'
  BY <1>0 DEF TypeOK, Contexts, memory, history, Uncrossed, Window, Running, At
<1>5. FoundAPage' /\ LineTyped'
  BY <1>0 DEF TypeOK, stdin, FoundAPage, LineTyped, LineEnds
<1> QED
  BY <1>1, <1>2, <1>3, <1>4, <1>5

\* pmm_free_page looks at the bit.
LEMMA TestForFreeStep ==
  ASSUME IInv, NEW c \in Contexts, TestForFree(c)
  PROVE  IInv'
<1>1. /\ At(c, "returned")
      /\ UNCHANGED <<prog, memory, usermode, cpu, stdin, history>>
  BY DEF TestForFree
<1>2. CASE /\ stack[c] \in page_bitmap
           /\ pc' = [pc EXCEPT ![c] = "freeing"]
           /\ seen' = [seen EXCEPT ![c] = page_bitmap]
           /\ UNCHANGED stack
  <2> USE <1>1, <1>2 DEF IInv
  <2>1. TypeOK'
    BY DEF TypeOK, Places, memory, usermode, cpu, stdin, history
  <2>2. ShellLaunch' /\ FilesLaunch'
    BY DEF TypeOK, Contexts, memory, usermode, cpu, ShellLaunch, FilesLaunch, Stale, Running, At
  <2>3. Uncrossed' /\ Untorn'
    BY ConstantsAssumption
       DEF TypeOK, Contexts, memory, usermode, history, ShellLaunch, Uncrossed, Untorn, Window,
           Stale, Running, At
  <2>4. FoundAPage' /\ LineTyped' /\ (~torn' => StacksApart')
    BY DEF TypeOK, memory, stdin, history, FoundAPage, LineTyped, LineEnds, StacksApart
  <2> QED
    BY <2>1, <2>2, <2>3, <2>4
<1>3. CASE /\ stack[c] \notin page_bitmap
           /\ pc' = [pc EXCEPT ![c] = "freed"]
           /\ stack' = [stack EXCEPT ![c] = 0]
           /\ UNCHANGED seen
  <2> USE <1>1, <1>3 DEF IInv
  <2>1. TypeOK'
    BY DEF TypeOK, Places, memory, usermode, cpu, stdin, history
  <2>2. ShellLaunch' /\ FilesLaunch'
    BY DEF TypeOK, Contexts, memory, usermode, cpu, ShellLaunch, FilesLaunch, Stale, Running, At
  <2>3. Uncrossed'
    BY DEF TypeOK, Contexts, memory, usermode, history, Uncrossed, Window, Running, At
  <2>4. Untorn'
    <3>1. \/ stack'["irq"] = stack["irq"]
          \/ stack["irq"] \notin page_bitmap /\ stack'["irq"] = 0 /\ 0 \notin page_bitmap
      BY ConstantsAssumption DEF TypeOK, Contexts
    <3>2. pc'["main"] \in Stale => pc["main"] \in Stale
      BY DEF TypeOK, Contexts, Stale
    <3> QED
      BY <3>1, <3>2 DEF Untorn, memory, history
  <2>5. FoundAPage' /\ LineTyped' /\ (~torn' => StacksApart')
    BY DEF TypeOK, Contexts, memory, stdin, history, FoundAPage, LineTyped, LineEnds, StacksApart
  <2> QED
    BY <2>1, <2>2, <2>3, <2>4, <2>5
<1> QED
  BY <1>2, <1>3 DEF TestForFree

\* pmm_free_page clears it: the bitmap is still the one it looked at.
LEMMA ClearBitmapStep ==
  ASSUME IInv, NEW c \in Contexts, ClearBitmap(c)
  PROVE  IInv'
<1>1. /\ pc[c] = "freeing" /\ Running = c
      /\ page_bitmap' \in {page_bitmap \ {stack[c]}, seen[c] \ {stack[c]}}
      /\ stack' = [stack EXCEPT ![c] = 0]
      /\ pc' = [pc EXCEPT ![c] = "freed"]
      /\ UNCHANGED <<prog, seen, image, spawned, usermode, cpu, stdin, history>>
  BY DEF ClearBitmap, At
<1>2. c = "irq" \/ ~torn => page_bitmap' = page_bitmap \ {stack[c]}
  BY <1>1, BitmapAsSeen DEF Stale, Contexts
<1>3. TypeOK'
  BY <1>1 DEF IInv, TypeOK, Contexts, Places, usermode, cpu, stdin, history
<1>4. ShellLaunch' /\ FilesLaunch' /\ FoundAPage' /\ LineTyped'
  BY <1>1 DEF IInv, TypeOK, Contexts, ShellLaunch, FilesLaunch, FoundAPage, LineTyped,
                    LineEnds, Stale, Running, usermode, cpu, stdin
<1>5. Uncrossed'
  BY <1>1 DEF IInv, TypeOK, Contexts, Uncrossed, Window, Running, usermode, history
<1>6. Untorn'
  <2> SUFFICES ASSUME ~torn, pc'["main"] \in Stale PROVE Untorn'
    BY <1>1 DEF Untorn, history
  <2>1. c = "irq" /\ pc["main"] \in Stale /\ stack'["irq"] = 0
    BY <1>1 DEF IInv, TypeOK, Contexts, Stale
  <2>2. seen["main"] = page_bitmap' /\ 0 \notin page_bitmap'
    BY <1>1, <1>2, <2>1, ConstantsAssumption DEF IInv, TypeOK, Untorn
  <2> QED
    BY <1>1, <2>1, <2>2 DEF Untorn
<1>7. ~torn' => StacksApart'
  <2> SUFFICES ASSUME ~torn PROVE StacksApart'
    BY <1>1 DEF history
  <2>1. /\ page_bitmap' = page_bitmap \ {stack[c]} /\ spawned' = spawned
        /\ stack'[c] = 0 /\ \A d \in Contexts : d # c => stack'[d] = stack[d]
        /\ "main" \in Contexts /\ "irq" \in Contexts
    BY <1>1, <1>2 DEF IInv, TypeOK, Contexts
  <2>2. StacksApart /\ 0 \notin Pages /\ spawned \subseteq Pages
    BY ConstantsAssumption DEF IInv, TypeOK
  <2>3. stack[c] \notin spawned
    BY <2>2 DEF StacksApart
  <2>4. \A d \in Contexts : stack'[d] # 0 => d # c /\ stack'[d] = stack[d] /\ stack[d] # stack[c]
    <3>1. \A d \in Contexts : d = "main" \/ d = "irq"
      BY DEF Contexts
    <3> QED
      BY <2>1, <2>2, <3>1 DEF StacksApart
  <2>5. \A d \in Contexts : stack'[d] # 0 => stack'[d] \in page_bitmap' \ spawned'
    BY <2>1, <2>2, <2>4 DEF StacksApart
  <2>6. stack'["main"] # 0 => stack'["main"] # stack'["irq"]
    <3>1. stack'["main"] # 0 => c = "irq"
      BY <2>1 DEF Contexts
    <3> QED
      BY <2>1, <3>1
  <2> QED
    BY <2>1, <2>2, <2>3, <2>5, <2>6 DEF StacksApart
<1> QED
  BY <1>3, <1>4, <1>5, <1>6, <1>7 DEF IInv

\* The launch is over, and the shell's handler with it.
LEMMA EndLaunchStep ==
  ASSUME IInv, NEW c \in Contexts, EndLaunch(c)
  PROVE  IInv'
<1>0. /\ At(c, "freed") /\ pc' = [pc EXCEPT ![c] = "idle"]
      /\ UNCHANGED <<stack, memory, usermode, stdin, history>>
      /\ \A d \in Contexts : d # c => prog'[d] = prog[d] /\ seen'[d] = seen[d] /\ pc'[d] = pc[d]
  BY DEF EndLaunch, IInv, TypeOK
<1>1. TypeOK'
  BY DEF EndLaunch, IInv, TypeOK, Places, memory, usermode, cpu, stdin, history
<1>2. c = "irq" => stack["irq"] = 0
  BY <1>0 DEF IInv, ShellLaunch, At
<1>3. ShellLaunch' /\ FilesLaunch'
  BY <1>0, <1>2 DEF EndLaunch, IInv, TypeOK, Contexts, memory, usermode, cpu, ShellLaunch,
                    FilesLaunch, Stale, Running, At
<1>4. Uncrossed' /\ Untorn'
  BY <1>0 DEF IInv, TypeOK, Contexts, memory, usermode, history, ShellLaunch, Uncrossed, Untorn,
              Window, Stale, Running, At
<1>5. FoundAPage' /\ LineTyped' /\ (~torn' => StacksApart')
  BY <1>0 DEF IInv, TypeOK, Contexts, memory, stdin, history, FoundAPage, LineTyped, LineEnds,
              StacksApart
<1> QED
  BY <1>1, <1>3, <1>4, <1>5 DEF IInv

\* stdin_push keeps the last place of the line for the newline.
LEMMA KeyToProgramStep ==
  ASSUME IInv, NEW k \in {"char", "enter", "erase"}, KeyToProgram(k)
  PROVE  IInv'
<1>1. Push(k) /\ UNCHANGED <<launches, memory, usermode, cpu, history>>
  BY DEF KeyToProgram
<1>2. /\ g_len \in Nat /\ g_len <= LINE_CAP /\ LINE_CAP \in Nat \ {0}
      /\ g_ready \in BOOLEAN /\ newline \in BOOLEAN
      /\ g_ready => newline /\ g_len > 0
      /\ ~g_ready => g_len < LINE_CAP
  BY ConstantsAssumption DEF IInv, TypeOK, LineTyped, LineEnds
<1>3. /\ g_len' \in 0..LINE_CAP /\ g_ready' \in BOOLEAN /\ newline' \in BOOLEAN
      /\ g_ready' => newline' /\ g_len' > 0
      /\ ~g_ready' => g_len' < LINE_CAP
  <2>1. CASE g_ready /\ UNCHANGED stdin
    BY <1>2, <2>1 DEF stdin
  <2>2. CASE ~g_ready /\ Erased
    BY <1>2, <2>2 DEF Erased
  <2>3. CASE ~g_ready /\ Ended
    <3>1. g_len < LINE_CAP
      BY <1>2, <2>3
    <3>2. newline' = (g_len < LINE_CAP)
      BY <2>3, Zenon DEF Ended
    <3>3. newline' /\ newline' \in BOOLEAN
      BY <3>1, <3>2, Zenon
    <3>4. /\ g_ready' = TRUE
          /\ g_len + 1 \in 0..LINE_CAP /\ g_len' = g_len + 1
      BY <1>2, <2>3, <3>1 DEF Ended, Stored
    <3> QED
      BY <1>2, <3>3, <3>4
  <2>4. CASE ~g_ready /\ Stored(LINE_CAP - 1) /\ UNCHANGED <<g_ready, newline>>
    BY <1>2, <2>4 DEF Stored
  <2> QED
    BY <1>1, <2>1, <2>2, <2>3, <2>4 DEF Push
<1>4. TypeOK'
  BY <1>1, <1>3 DEF IInv, TypeOK, launches, memory, usermode, cpu, history
<1>5. /\ ShellLaunch' /\ FilesLaunch' /\ Uncrossed' /\ Untorn' /\ FoundAPage'
      /\ ~torn' => StacksApart'
  BY <1>1 DEF IInv, ShellLaunch, FilesLaunch, Uncrossed, Untorn, FoundAPage, StacksApart, launches,
              memory, usermode, cpu, history
<1>6. LineTyped'
  BY <1>3 DEF LineTyped, LineEnds
<1> QED
  BY <1>4, <1>5, <1>6 DEF IInv

\* process_create's pages are clear, and not those of a launch that is looking.
LEMMA SpawnStep ==
  ASSUME IInv, Spawn
  PROVE  IInv'
<1> DEFINE kernel_stack == Min(Pages \ page_bitmap)
           user_stack   == Min(Pages \ (page_bitmap \union {kernel_stack}))
           taken        == {kernel_stack, user_stack}
<1>1. /\ page_bitmap' = page_bitmap \union taken
      /\ spawned' = spawned \union taken
      /\ Cardinality(Pages \ page_bitmap) >= 2
      /\ torn' = (torn \/ pc["main"] \in Stale)
      /\ pc["irq"] = "idle"
      /\ UNCHANGED <<launches, image, usermode, cpu, stdin, crossed>>
  BY DEF Spawn, Interruptible, IInv, ShellLaunch
<1>2. page_bitmap \subseteq Pages /\ spawned \subseteq Pages
  BY DEF IInv, TypeOK
<1>3. IsFiniteSet(Pages \ page_bitmap)
  BY ConstantsAssumption, FS_Subset
<1>4. kernel_stack \in Pages \ page_bitmap
  <2>1. ~(Pages \subseteq page_bitmap)
    BY <1>1, <1>3, FS_EmptySet
  <2> QED
    BY <1>2, <2>1, PageFound
<1>5. user_stack \in Pages \ page_bitmap
  <2> HIDE DEF kernel_stack
  <2>1. Cardinality((Pages \ page_bitmap) \ {kernel_stack}) = Cardinality(Pages \ page_bitmap) - 1
    BY <1>3, <1>4, FS_RemoveElement
  <2>2. (Pages \ page_bitmap) \ {kernel_stack} # {}
    <3>1. Cardinality(Pages \ page_bitmap) \in Nat
      BY <1>3, FS_CardinalityType
    <3>2. Cardinality((Pages \ page_bitmap) \ {kernel_stack}) # 0
      BY <1>1, <2>1, <3>1
    <3> QED
      BY <3>2, FS_EmptySet, Zenon
  <2>3. ~(Pages \subseteq page_bitmap \union {kernel_stack})
    BY <2>2
  <2>4. page_bitmap \union {kernel_stack} \in SUBSET Pages
    BY <1>2, <1>4
  <2> QED
    BY <2>3, <2>4, PageFound
<1>6. taken \subseteq Pages \ page_bitmap
  BY <1>4, <1>5
<1> HIDE DEF taken
<1>7. torn' \in BOOLEAN /\ (~torn' => ~torn /\ pc["main"] \notin Stale)
  BY <1>1 DEF IInv, TypeOK
<1>8. TypeOK'
  BY <1>1, <1>2, <1>6, <1>7 DEF IInv, TypeOK, launches, usermode, cpu, stdin
<1>9. ShellLaunch' /\ FilesLaunch' /\ FoundAPage' /\ LineTyped'
  BY <1>1 DEF IInv, ShellLaunch, FilesLaunch, FoundAPage, LineTyped, LineEnds, Stale, launches,
              usermode, cpu, stdin
<1>10. Uncrossed' /\ Untorn'
  BY <1>1, <1>7 DEF IInv, Uncrossed, Untorn, launches, usermode
<1>11. ~torn' => StacksApart'
  BY <1>1, <1>6, <1>7 DEF IInv, StacksApart, launches
<1> QED
  BY <1>8, <1>9, <1>10, <1>11 DEF IInv

-----------------------------------------------------------------------------

LEMMA Inductive == Spec => []IInv
<1>1. Init => IInv
  <2> SUFFICES ASSUME Init PROVE IInv
    OBVIOUS
  <2> USE DEF Init, Contexts
  <2>1. TypeOK
    <3>1. 0 \in 0..LINE_CAP
      BY ConstantsAssumption
    <3> QED
      BY <3>1 DEF TypeOK, Places
  <2>2. ShellLaunch /\ FilesLaunch
    BY DEF ShellLaunch, FilesLaunch, Stale, None
  <2>3. Uncrossed /\ Untorn /\ FoundAPage
    BY DEF Uncrossed, Untorn, Window, Stale, FoundAPage
  <2>4. LineTyped
    BY ConstantsAssumption DEF LineTyped, LineEnds
  <2>5. StacksApart
    BY DEF StacksApart
  <2> QED
    BY <2>1, <2>2, <2>3, <2>4, <2>5 DEF IInv
<1>2. IInv /\ [Next]_vars => IInv'
  <2> SUFFICES ASSUME IInv, [Next]_vars PROVE IInv'
    OBVIOUS
  <2>1. ASSUME NEW c \in Contexts, Step(c) PROVE IInv'
    BY <2>1, TestBitmapStep, MarkBitmapStep, SaveContextStep, EnterRing3Step, WaitForLineStep,
       TakeLineStep, TestForFreeStep, ClearBitmapStep, EndLaunchStep DEF Step
  <2>2. CASE UNCHANGED vars
    BY <2>2 DEF vars, launches, memory, usermode, cpu, stdin, history, IInv, TypeOK, ShellLaunch,
                FilesLaunch, Uncrossed, Untorn, FoundAPage, LineTyped, LineEnds, StacksApart
  <2> QED
    BY <2>1, <2>2, LaunchFromFilesStep, LaunchFromShellStep, SysReadStep, SysExitStep,
       KeyToProgramStep, SpawnStep DEF Next
<1> QED
  BY <1>1, <1>2, PTL DEF Spec

(* A launch from the shell runs the program it loaded and comes back to    *)
(* its own caller, whatever it interrupted.  A launch from the Files       *)
(* window does so unless the shell launched a program in its window, and,  *)
(* for the way back, in usermode_jump itself; and no two launches, and no  *)
(* spawned process, have a page in common unless spawn ran between the     *)
(* test and the write of a bit by main.                                    *)
THEOREM LaunchesKeepApart == Spec => []LaunchesApart
<1>1. IInv => LaunchesApart
  <2> SUFFICES ASSUME IInv PROVE LaunchesApart
    OBVIOUS
  <2>1. "irq" \in InRing3 => image = prog["irq"] /\ saved_rsp = "irq"
    BY DEF IInv, ShellLaunch, InRing3
  <2>2. crossed = {} => OwnImage
    BY DEF IInv, ShellLaunch, Uncrossed, OwnImage, InRing3, Contexts
  <2>3. "saved" \notin crossed => ReturnsToLauncher
    BY DEF IInv, ShellLaunch, Uncrossed, ReturnsToLauncher, Contexts
  <2> QED
    BY <2>1, <2>2, <2>3 DEF IInv, LaunchesApart
<1> QED
  BY <1>1, Inductive, PTL

(* The main loop has its interrupts on whenever it runs and is not inside  *)
(* SYS_READ, and IRQ1 is in service exactly while its handler is at work.  *)
THEOREM InterruptsComeBack == Spec => []InterruptsRestored
<1>1. IInv => InterruptsRestored
  BY DEF IInv, ShellLaunch, FilesLaunch, InterruptsRestored, Running, TypeOK
<1> QED
  BY <1>1, Inductive, PTL

(* A line SYS_READ takes ends in its newline, for a buffer of any length.  *)
THEOREM LinesEnd == Spec => []LineEnds
<1>1. IInv => LineEnds
  BY DEF IInv, LineTyped
<1> QED
  BY <1>1, Inductive, PTL
=============================================================================
