----------------------------- MODULE RoundRobin -----------------------------
(***************************************************************************)
(* What the scheduler of src/kernel/process.cpp promises, with the ready   *)
(* queue as a sequence: module Scheduler holds the linked list, the        *)
(* process table, the stacks and the interrupt controller, and implements  *)
(* this specification.                                                     *)
(*                                                                         *)
(* A client of process.h creates a process, hands it to scheduler_add      *)
(* once, may take it out of the queue and hand it back, and destroys it    *)
(* after it has exited.  The running process is preempted, yields or       *)
(* exits; all three end in scheduler_schedule.  Nothing here says that the *)
(* scheduler keeps being called: what calls it, and when the timer stops   *)
(* calling it, is in module Scheduler.                                     *)
(***************************************************************************)
EXTENDS Naturals, Sequences

CONSTANTS Procs,  \* every process that can ever be created
          Idle    \* process_table[0], PID 0

ASSUME IdleAssumption == Idle \notin Procs  \* PIDs are handed out from 1

VARIABLES current,  \* current_process
          queue,    \* the ready queue, next to run first
          state     \* process_state of every process; "absent": no PCB

queueVars == <<current, queue, state>>

All == Procs \union {Idle}

States == {"absent", "READY", "RUNNING", "TERMINATED"}

Queued == {queue[i] : i \in DOMAIN queue}

-----------------------------------------------------------------------------

QueueInit == /\ current = Idle
             /\ queue = <<>>
             /\ state = [p \in All |-> IF p = Idle THEN "RUNNING" ELSE "absent"]

\* process_create
Create(p) == /\ state[p] = "absent"
             /\ state' = [state EXCEPT ![p] = "READY"]
             /\ UNCHANGED <<current, queue>>

\* A scheduler_add that pushes at the head lets newcomers overtake.
EnqueuedInFront(p) == <<p>> \o queue

\* scheduler_add puts p at the back.
Enqueued(p) == Append(queue, p)

\* scheduler_add by a client
Add(p) == /\ state[p] = "READY"
          /\ p # current
          /\ p \notin Queued
          /\ queue' = Enqueued(p)
          /\ UNCHANGED <<current, state>>

\* The queue without the entry at position i.
WithoutEntry(i) == SubSeq(queue, 1, i - 1) \o SubSeq(queue, i + 1, Len(queue))

\* scheduler_remove by a client
Withdraw(p) == \E i \in DOMAIN queue : /\ queue[i] = p
                                       /\ queue' = WithoutEntry(i)
                                       /\ UNCHANGED <<current, state>>

\* scheduler_next: who is taken from queue q, and what is left of it.  One
\* that forgets to advance ready_queue_head leaves q as it is.
NothingDequeued(q) == q
Dequeued(q) == IF q = <<>> THEN q ELSE Tail(q)
Elected(q) == IF q = <<>> THEN Idle ELSE Head(q)

(***************************************************************************)
(* scheduler_schedule first puts a running process back at the end of the  *)
(* queue, as READY; when it comes straight back it stays current, and is   *)
(* still marked READY.  Without the assignment of READY the old process    *)
(* would go on being marked RUNNING.                                       *)
(***************************************************************************)
Requeued == IF state[current] = "RUNNING" THEN Enqueued(current) ELSE queue

StillRunning == state
Preempted == [state EXCEPT ![current] = IF @ = "RUNNING" THEN "READY" ELSE @]

Schedule == LET new == Elected(Requeued)
            IN  /\ queue' = Dequeued(Requeued)
                /\ current' = new
                /\ state' = IF new = current THEN Preempted
                            ELSE [Preempted EXCEPT ![new] = "RUNNING"]

\* sys_exit of the current process: scheduler_schedule never returns to it.
Terminate == LET new == Elected(queue)
             IN  /\ queue' = Dequeued(queue)
                 /\ current' = new
                 /\ state' = [state EXCEPT ![current] = "TERMINATED",
                                           ![new] = "RUNNING"]

\* A ring-3 program runs in the idle process, and sys_exit leaves it through
\* usermode_return; without that test its exit would take idle with it.
Exit == current # Idle /\ Terminate

\* process_destroy of a process that has exited
Destroy(p) == /\ state[p] = "TERMINATED"
              /\ state' = [state EXCEPT ![p] = "absent"]
              /\ UNCHANGED <<current, queue>>

QueueNext == \/ \E p \in Procs : Create(p) \/ Add(p) \/ Withdraw(p) \/ Destroy(p)
             \/ Schedule
             \/ Exit

QueueSpec == QueueInit /\ [][QueueNext]_queueVars

-----------------------------------------------------------------------------

(* Every variable has its type; the idle process is always there.          *)
QueueTypeOK == /\ current \in All
               /\ queue \in Seq(All)
               /\ state \in [All -> States]
               /\ state[Idle] \in {"READY", "RUNNING"}

(* No process is in the ready queue twice, the current process is not in   *)
(* it, and whatever is in it is READY: scheduler_add never checks, so this *)
(* rests on what every caller did before.                                  *)
QueueOnce == /\ \A i, j \in DOMAIN queue : queue[i] = queue[j] => i = j
             /\ current \notin Queued
             /\ \A i \in DOMAIN queue : state[queue[i]] = "READY"

(* The CPU never belongs to a process that has exited or was destroyed,    *)
(* and no process but the current one is marked RUNNING.                   *)
CpuToTheLiving == /\ state[current] \in {"READY", "RUNNING"}
                  /\ \A p \in All : state[p] = "RUNNING" => p = current

(* What waits in front of p in the queue. *)
Ahead(p) == {queue[j] : j \in {j \in DOMAIN queue :
               \E i \in DOMAIN queue : queue[i] = p /\ j < i}}

(* Nobody overtakes in the ready queue: from one step to the next, the     *)
(* processes in front of one that waits are only ever fewer.               *)
NoOvertaking ==
  [][\A p \in All : p \in Queued /\ p \in Queued' => Ahead(p)' \subseteq Ahead(p)]_queueVars

(* "Round-robin scheduler": a process that has to give up the CPU and has  *)
(* not exited waits in the queue for its next turn.                        *)
KeepsItsTurn ==
  [][\A p \in Procs : p = current /\ p # current' /\ state'[p] = "READY" => p \in Queued']_queueVars
=============================================================================
