----------------------------- MODULE Scheduler ------------------------------
(***************************************************************************)
(* src/kernel/process.cpp: the process table, the singly linked ready      *)
(* queue, and the context switch with the state it leaves the 8259 in.     *)
(*                                                                         *)
(* A PCB is its PID: next_pid never repeats one, and Idle is PID 0.        *)
(* Of the saved registers two are kept.  resume[p], RIP, is the place a    *)
(* context goes on at:                                                     *)
(*   "fresh"  the entry point, with RFLAGS 0x202;                          *)
(*   "tick"   in irq_handler, scheduler_schedule having returned from the  *)
(*            timer: the next thing it does is pic_send_eoi(0);            *)
(*   "call"   in sys_yield, scheduler_schedule having returned.            *)
(* rsp[p], RSP, is how many words of its stack (Frame) the context has.    *)
(* in_service is the in-service bit of IRQ0, the highest priority: while   *)
(* it is set the controller delivers no interrupt at all.  `astray`: the   *)
(* code that was resumed has returned to a word that is not the address it *)
(* was called from.  What the CPU does from there is not modelled, and the *)
(* behaviour ends.                                                         *)
(***************************************************************************)
EXTENDS Naturals, Sequences, FiniteSets

CONSTANTS MaxProcesses,  \* MAX_PROCESSES, the slots of process_table
          MaxPid,        \* bound: how many PIDs a behaviour hands out
          Pages          \* free pages process_create can take stacks from

ASSUME SizesAssumption == /\ MaxProcesses \in Nat \ {0}
                          /\ MaxPid \in Nat
                          /\ Pages \in Nat

VARIABLES process_table, next_pid, current_process,
          ready_queue_head, ready_queue_tail,
          state, next,        \* the PCB fields, per PID
          resume, rsp, in_service, astray,
          free_pages

tables == <<process_table, next_pid, free_pages>>
list   == <<ready_queue_head, ready_queue_tail, next>>
cpu    == <<current_process, resume, rsp, in_service, astray>>
vars   == <<tables, list, cpu, state>>

Idle == 0
Procs == 1..MaxPid
All == Procs \union {Idle}
Nil == MaxPid + 1        \* nullptr
Slots == 0..(MaxProcesses - 1)

-----------------------------------------------------------------------------

\* process_init: the code that is running becomes PID 0.
Init == /\ process_table = [s \in Slots |-> IF s = 0 THEN Idle ELSE Nil]
        /\ next_pid = 1
        /\ current_process = Idle
        /\ ready_queue_head = Nil
        /\ ready_queue_tail = Nil
        /\ state = [p \in All |-> IF p = Idle THEN "RUNNING" ELSE "absent"]
        /\ next = [p \in All |-> Nil]
        /\ resume = [p \in All |-> "fresh"]
        /\ rsp = [p \in All |-> 0]
        /\ in_service = FALSE
        /\ astray = FALSE
        /\ free_pages = Pages

FreeSlots == {s \in Slots : process_table[s] = Nil}

(***************************************************************************)
(* process_create.  A full table and a failed kmalloc change nothing and   *)
(* are left out; the PID is used up before the two stacks are taken, and   *)
(* when the second cannot be had the first is given back.                  *)
(***************************************************************************)
\* KernelStackKept does not give it back.
KernelStackKept == free_pages < 2 /\ free_pages' = 0
StacksGivenBack == free_pages < 2 /\ free_pages' = free_pages

ProcessCreate ==
  /\ next_pid <= MaxPid
  /\ FreeSlots # {}
  /\ next_pid' = next_pid + 1
  /\ \/ /\ StacksGivenBack
        /\ UNCHANGED <<process_table, state, resume, rsp>>
     \/ LET slot == CHOOSE s \in FreeSlots : \A t \in FreeSlots : s <= t
        IN  /\ free_pages >= 2
            /\ free_pages' = free_pages - 2
            /\ process_table' = [process_table EXCEPT ![slot] = next_pid]
            /\ state' = [state EXCEPT ![next_pid] = "READY"]
            /\ resume' = [resume EXCEPT ![next_pid] = "fresh"]
            /\ rsp' = [rsp EXCEPT ![next_pid] = 0]
  /\ UNCHANGED <<list, current_process, in_service, astray>>

\* A process_destroy that leaves the PCB in the table, to be destroyed again
DestroyedInPlace(p) == /\ state[p] = "TERMINATED"
                       /\ free_pages' = free_pages + 2
                       /\ UNCHANGED <<process_table, next_pid, state, list, cpu>>

\* process_destroy of a process that has exited; it does not touch the queue.
ProcessDestroy(p) ==
  /\ state[p] = "TERMINATED"
  /\ process_table' = [s \in Slots |->
                         IF process_table[s] = p THEN Nil ELSE process_table[s]]
  /\ free_pages' = free_pages + 2
  /\ state' = [state EXCEPT ![p] = "absent"]
  /\ UNCHANGED <<next_pid, list, cpu>>

-----------------------------------------------------------------------------
(* The linked list, as functions from a list to a list.                    *)

List == [head |-> ready_queue_head, tail |-> ready_queue_tail, next |-> next]

IsList(l) == /\ ready_queue_head' = l.head
             /\ ready_queue_tail' = l.tail
             /\ next' = l.next

\* A scheduler_add that pushes at the head
AddedAtHead(l, p) ==
  [head |-> p, tail |-> IF l.head = Nil THEN p ELSE l.tail,
   next |-> [l.next EXCEPT ![p] = l.head]]

\* scheduler_add
Added(l, p) ==
  LET cleared == [l.next EXCEPT ![p] = Nil]
  IN  IF l.head = Nil
      THEN [head |-> p, tail |-> p, next |-> cleared]
      ELSE [head |-> l.head, tail |-> p,
            next |-> [cleared EXCEPT ![l.tail] = p]]

\* scheduler_next, when the list is not empty
Popped(l) == LET rest == l.next[l.head]
             IN  [l EXCEPT !.head = rest, !.tail = IF rest = Nil THEN Nil ELSE @]

\* The n-th PCB of the list, Nil past its end.
Nth(l) == LET nth[n \in 0..(MaxPid + 2)] ==
                IF n = 0 THEN l.head
                ELSE IF nth[n - 1] = Nil THEN Nil ELSE l.next[nth[n - 1]]
          IN  nth

\* The PCBs of the list, in order: what ready_queue_head reaches.
ListSeq(l) == LET nth == Nth(l)
                  len == Cardinality({n \in DOMAIN nth : nth[n] # Nil})
              IN  [i \in 1..len |-> nth[i - 1]]

\* A scheduler_remove that forgets ready_queue_tail
RemovedButForTheTail(l, p) ==
  IF l.head = p THEN [l EXCEPT !.head = l.next[p]]
  ELSE [l EXCEPT !.next = [q \in All |-> IF l.next[q] = p THEN l.next[p] ELSE l.next[q]]]

\* scheduler_remove: the walk stops at the PCB before p, if there is one.
Removed(l, p) ==
  IF l.head = p
  THEN [l EXCEPT !.head = l.next[p], !.tail = IF @ = p THEN Nil ELSE @]
  ELSE LET seq    == ListSeq(l)
           before == {i \in 1..(Len(seq) - 1) : seq[i + 1] = p}
       IN  IF before = {} THEN l
           ELSE LET prev == seq[CHOOSE i \in before : TRUE]
                IN  [l EXCEPT !.next[prev] = l.next[p],
                              !.tail = IF @ = p THEN prev ELSE @]

\* The processes ready_queue_head reaches.
Queued == {ListSeq(List)[i] : i \in DOMAIN ListSeq(List)}

\* scheduler_add by a client: once, for a process that is not running.
SchedulerAdd(p) == /\ state[p] = "READY"
                   /\ p # current_process
                   /\ p \notin Queued
                   /\ IsList(Added(List, p))
                   /\ UNCHANGED <<tables, cpu, state>>

\* scheduler_remove by a client
SchedulerRemove(p) == /\ state[p] # "absent"
                      /\ p \in Queued
                      /\ IsList(Removed(List, p))
                      /\ UNCHANGED <<tables, cpu, state>>

-----------------------------------------------------------------------------

(***************************************************************************)
(* The stack switch_context is entered with, deepest word first, as the    *)
(* kernel the Makefile builds (-O2: a call in tail position is a jump)     *)
(* lays it out: the address the function switch_context returns to was     *)
(* called from, the registers that function saved, and the address it goes *)
(* on at.  sys_yield and its wrapper are one function there.               *)
(***************************************************************************)
Frame(via) == IF via = "tick"
              THEN <<"irq_common", "r15", "rbp", "rbx", "irq_handler">>
              ELSE <<"syscall_dispatch", "r15", "sys_yield">>

Depth(via) == Len(Frame(via))

\* What that function pops before it returns: the registers it saved.
Pops(via) == Depth(via) - 2

\* mov [rdi + 56], rsp, with the return address still on the stack
SavedRsp(via) == Depth(via)

(***************************************************************************)
(* The word the function takes for its own return address when it goes on  *)
(* with `words` words of its stack.  switch_context's push and ret of the  *)
(* saved RIP leave RSP as it was loaded.                                   *)
(***************************************************************************)
ReturnsTo(via, words) == Frame(via)[words - Pops(via)]

\* Where it was called from.
Caller(via) == Frame(via)[1]

(***************************************************************************)
(* switch_context: the old context is saved as resuming at `via`, and the  *)
(* new one goes on where it was, up to the return of the function it was   *)
(* in.  A context saved inside timer_handler calls pic_send_eoi(0) before  *)
(* that; one saved in sys_yield leaves the controller alone.  (popfq may   *)
(* let a tick in before the registers are loaded; it saves and switches as *)
(* one right after the switch.)                                            *)
(***************************************************************************)
Switched(new, via) ==
  /\ current_process' = new
  /\ resume' = [resume EXCEPT ![current_process] = via]
  /\ rsp' = [rsp EXCEPT ![current_process] = SavedRsp(via)]
  /\ astray' = /\ resume[new] # "fresh"
               /\ ReturnsTo(resume[new], rsp[new]) # Caller(resume[new])

SwitchAcknowledged(new, via) ==  \* the handler sends its EOI first, and after
  /\ Switched(new, via)
  /\ in_service' = FALSE

SwitchTo(new, via) ==
  /\ Switched(new, via)
  /\ in_service' = IF resume[new] = "tick" THEN FALSE
                   ELSE (via = "tick") \/ in_service

(***************************************************************************)
(* scheduler_schedule entered with list l and states st.  With an empty    *)
(* queue scheduler_next returns process_table[0].  When the process comes  *)
(* straight back there is no switch: the caller returns, and timer_handler *)
(* is followed by its EOI.                                                 *)
(***************************************************************************)
Reschedule(l, st, via) ==
  LET old   == current_process
      again == st[old] = "RUNNING"
      l1    == IF again THEN Added(l, old) ELSE l
      st1   == IF again THEN [st EXCEPT ![old] = "READY"] ELSE st
      new   == IF l1.head = Nil THEN process_table[0] ELSE l1.head
  IN  /\ IsList(IF l1.head = Nil THEN l1 ELSE Popped(l1))
      /\ \/ /\ new = old
            /\ state' = st1
            /\ in_service' = IF via = "tick" THEN FALSE ELSE in_service
            /\ UNCHANGED <<current_process, resume, rsp, astray>>
         \/ /\ new # old
            /\ state' = [st1 EXCEPT ![new] = "RUNNING"]
            /\ SwitchTo(new, via)
      /\ UNCHANGED tables

\* timer_handler on the tick that calls the scheduler
Tick == /\ ~in_service
        /\ Reschedule(List, state, "tick")

\* sys_yield, from a process or from the shell's `syscall` command
Yield == Reschedule(List, state, "call")

(***************************************************************************)
(* sys_exit with no ring-3 program active.  While one is, sys_exit goes to *)
(* usermode_return before it looks at the process: module Ring3.           *)
(***************************************************************************)
Exit == /\ current_process # Idle
        /\ Reschedule(Removed(List, current_process),
                      [state EXCEPT ![current_process] = "TERMINATED"], "call")

-----------------------------------------------------------------------------

\* Every function process.h declares, called by a client that keeps to it.
ClientNext == /\ ~astray
              /\ \/ ProcessCreate
                 \/ \E p \in Procs : \/ ProcessDestroy(p)
                                     \/ SchedulerAdd(p)
                                     \/ SchedulerRemove(p)
                 \/ Tick \/ Yield \/ Exit

ClientSpec == Init /\ [][ClientNext]_vars

(***************************************************************************)
(* The timer never stops raising IRQ0, and interrupts are enabled again    *)
(* and again (the main loop halts with them on): a tick comes whenever the *)
(* controller lets it.  Clients and processes owe nothing.                 *)
(***************************************************************************)
FairClientSpec == ClientSpec /\ WF_vars(~astray /\ Tick)

-----------------------------------------------------------------------------

(* Every variable has its type.                                            *)
TypeOK == /\ process_table \in [Slots -> All \union {Nil}]
          /\ next_pid \in 1..(MaxPid + 1)
          /\ current_process \in All
          /\ {ready_queue_head, ready_queue_tail} \subseteq All \union {Nil}
          /\ state \in [All -> {"absent", "READY", "RUNNING", "TERMINATED"}]
          /\ next \in [All -> All \union {Nil}]
          /\ resume \in [All -> {"fresh", "tick", "call"}]
          /\ rsp \in [All -> {0, SavedRsp("tick"), SavedRsp("call")}]
          /\ {in_service, astray} \subseteq BOOLEAN
          /\ free_pages \in 0..Pages

(* The links of the ready queue stay a list: from the head they reach an   *)
(* end, no process twice, and the tail pointer is the last one, whatever   *)
(* order scheduler_add, scheduler_remove and scheduler_next were called in.*)
QueueIsAList == LET seq == ListSeq(List)
                IN  /\ Len(seq) <= MaxPid + 1
                    /\ Cardinality(Queued) = Len(seq)
                    /\ ready_queue_tail = IF seq = <<>> THEN Nil ELSE seq[Len(seq)]

(* The table names each living process once, and the pages a process is    *)
(* built from are conserved: two for every process in the table other than *)
(* idle, none for one whose creation failed half way.                      *)
StacksAccounted ==
  LET live == {p \in Procs : state[p] # "absent"}
  IN  /\ TypeOK
      /\ \A p \in live : Cardinality({s \in Slots : process_table[s] = p}) = 1
      /\ free_pages + 2 * Cardinality(live) = Pages

(* While IRQ0 is in service exactly one suspended context owes the         *)
(* controller its EOI, and otherwise none does: a switch out of the timer  *)
(* handler neither loses the EOI nor lets a second one be sent for it.     *)
EoiOwedOnce ==
  LET owing == {p \in All \ {current_process} :
                  state[p] = "READY" /\ resume[p] = "tick"}
  IN  Cardinality(owing) = IF in_service THEN 1 ELSE 0

(* The list, the table and the switch implement the round robin.           *)
RR == INSTANCE RoundRobin WITH current <- current_process,
                               queue   <- ListSeq(List)
RoundRobinSpec == RR!QueueSpec

(* "Context switching": a process that was switched out goes on, when it   *)
(* is switched in, where it was, and returns to the code that called it.   *)
ResumedWhereSaved == ~astray

(* The process first in line gets the CPU, unless a client takes it out of *)
(* the queue or the switch goes astray, as long as IRQ0 is not in service  *)
(* when it comes up: nobody who is added, removed, created or exits in the *)
(* meantime gets in front.                                                 *)
FirstInLineGetsTheCpu ==
  \A p \in All : ready_queue_head = p /\ ~in_service
                 ~> current_process = p \/ p \notin Queued \/ astray

(* "Preemptive Multitasking": every process in the ready queue gets the    *)
(* CPU, unless a client takes it out, whatever the running ones do.        *)
QueuedGetsTheCpu ==
  \A p \in All : p \in Queued ~> current_process = p \/ p \notin Queued \/ astray
=============================================================================
