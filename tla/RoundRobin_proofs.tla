-------------------------- MODULE RoundRobin_proofs --------------------------
(***************************************************************************)
(* Type correctness, the two safety invariants and the order of the queue  *)
(* of RoundRobin, for every set of processes.  The invariants are proved   *)
(* together: that the head of the queue may be given the CPU needs it to   *)
(* be READY and not current already, and that the current process may be   *)
(* queued needs it not to be there yet.  That nobody overtakes follows     *)
(* from what each operation does to the order of what stays queued.        *)
(***************************************************************************)
EXTENDS RoundRobin, SequenceTheorems, TLAPS

IInv == QueueTypeOK /\ QueueOnce /\ CpuToTheLiving

-----------------------------------------------------------------------------
(* Facts about duplicate-free queues. *)

Distinct(q) == \A i, j \in DOMAIN q : q[i] = q[j] => i = j

\* What the queue r took over from the queue q is in the same order.
InOrder(r, q) == \A i, j \in DOMAIN r :
                   i < j /\ (\E m \in DOMAIN q : q[m] = r[j])
                   => \E m, n \in DOMAIN q : m < n /\ q[m] = r[i] /\ q[n] = r[j]

(* A process that is not in the queue can be put at its back. *)
LEMMA AppendDistinct ==
  ASSUME NEW S, NEW q \in Seq(S), NEW e \in S, Distinct(q),
         \A i \in DOMAIN q : q[i] # e
  PROVE  /\ Append(q, e) \in Seq(S)
         /\ Append(q, e) # <<>>
         /\ Distinct(Append(q, e))
         /\ \A i \in DOMAIN Append(q, e) :
              \/ i \in DOMAIN q /\ Append(q, e)[i] = q[i]
              \/ Append(q, e)[i] = e
  BY DEF Distinct

(* What is left when the head is taken is in the queue, and is not the head. *)
LEMMA TailDistinct ==
  ASSUME NEW S, NEW q \in Seq(S), q # <<>>, Distinct(q)
  PROVE  /\ Head(q) \in S
         /\ Head(q) = q[1]
         /\ 1 \in DOMAIN q
         /\ Tail(q) \in Seq(S)
         /\ Distinct(Tail(q))
         /\ \A i \in DOMAIN Tail(q) : /\ i + 1 \in DOMAIN q
                                      /\ Tail(q)[i] = q[i + 1]
                                      /\ Tail(q)[i] # Head(q)
  BY DEF Distinct

(* What precedes position k and what follows it, laid end to end. *)
LEMMA Joined ==
  ASSUME NEW S, NEW left \in Seq(S), NEW right \in Seq(S),
         NEW n \in Nat, NEW k \in 1..n, Len(left) = k - 1, Len(right) = n - k
  PROVE  /\ left \o right \in Seq(S)
         /\ DOMAIN (left \o right) = 1..(n - 1)
         /\ \A i \in 1..(k - 1) : (left \o right)[i] = left[i]
         /\ \A i \in k..(n - 1) : (left \o right)[i] = right[i - (k - 1)]
<1>0. PICK both : both = left \o right
  OBVIOUS
<1>1. /\ both \in Seq(S)
      /\ Len(both) = Len(left) + Len(right)
      /\ \A i \in 1..(Len(left) + Len(right)) :
           both[i] = IF i <= Len(left) THEN left[i] ELSE right[i - Len(left)]
  BY <1>0, ConcatProperties
<1>2. DOMAIN both = 1..(n - 1)
  BY <1>1
<1>3. \A i \in 1..(k - 1) : both[i] = left[i]
  BY <1>1
<1>4. \A i \in k..(n - 1) : both[i] = right[i - (k - 1)]
  BY <1>1
<1> QED
  BY <1>0, <1>1, <1>2, <1>3, <1>4

(* Taking an entry out of the middle leaves the others, in order. *)
LEMMA WithoutDistinct ==
  ASSUME NEW S, queue \in Seq(S), NEW k \in DOMAIN queue, Distinct(queue)
  PROVE  /\ WithoutEntry(k) \in Seq(S)
         /\ Distinct(WithoutEntry(k))
         /\ \A i \in DOMAIN WithoutEntry(k) :
              \E j \in DOMAIN queue : WithoutEntry(k)[i] = queue[j]
         /\ InOrder(WithoutEntry(k), queue)
<1> DEFINE from(i) == IF i < k THEN i ELSE i + 1
<1>0. PICK left, right : /\ left = SubSeq(queue, 1, k - 1)
                         /\ right = SubSeq(queue, k + 1, Len(queue))
  OBVIOUS
<1>1. /\ left \in Seq(S)
      /\ Len(left) = k - 1
      /\ \A i \in 1..(k - 1) : left[i] = queue[i]
  BY <1>0
<1>2. /\ right \in Seq(S)
      /\ Len(right) = Len(queue) - k
      /\ \A i \in 1..(Len(queue) - k) : right[i] = queue[k + i]
  BY <1>0
<1>3. /\ k \in 1..Len(queue)
      /\ Len(queue) \in Nat
  OBVIOUS
<1>4. WithoutEntry(k) = left \o right
  BY <1>0 DEF WithoutEntry
<1>5. /\ WithoutEntry(k) \in Seq(S)
      /\ DOMAIN WithoutEntry(k) = 1..(Len(queue) - 1)
      /\ \A i \in 1..(k - 1) : WithoutEntry(k)[i] = left[i]
      /\ \A i \in k..(Len(queue) - 1) : WithoutEntry(k)[i] = right[i - (k - 1)]
  <2>1. PICK n \in Nat : n = Len(queue) /\ k \in 1..n
    BY <1>3
  <2> QED
    BY <1>1, <1>2, <1>4, <2>1, Joined, SMTT(30)
<1>6. \A i \in DOMAIN WithoutEntry(k) : /\ from(i) \in DOMAIN queue
                                       /\ WithoutEntry(k)[i] = queue[from(i)]
  <2> SUFFICES ASSUME NEW i \in 1..(Len(queue) - 1)
               PROVE  /\ from(i) \in DOMAIN queue
                      /\ WithoutEntry(k)[i] = queue[from(i)]
    BY <1>5
  <2>1. CASE i < k
    BY <2>1, <1>1, <1>3, <1>5
  <2>2. CASE i >= k
    <3>1. /\ i - (k - 1) \in 1..(Len(queue) - k)
          /\ k + (i - (k - 1)) = i + 1
      BY <2>2, <1>3
    <3>2. WithoutEntry(k)[i] = right[i - (k - 1)]
      BY <2>2, <1>3, <1>5
    <3> QED
      BY <2>2, <3>1, <3>2, <1>2, <1>3
  <2> QED
    BY <2>1, <2>2, <1>3
<1>7. Distinct(WithoutEntry(k))
  <2> SUFFICES ASSUME NEW i \in DOMAIN WithoutEntry(k), NEW j \in DOMAIN WithoutEntry(k),
                      WithoutEntry(k)[i] = WithoutEntry(k)[j]
               PROVE  i = j
    BY DEF Distinct
  <2>1. from(i) = from(j)
    BY <1>6 DEF Distinct
  <2> QED
    BY <2>1, <1>3, <1>5
<1>8. InOrder(WithoutEntry(k), queue)
  <2> SUFFICES ASSUME NEW i \in DOMAIN WithoutEntry(k), NEW j \in DOMAIN WithoutEntry(k), i < j
               PROVE  \E m, n \in DOMAIN queue : /\ m < n
                                                 /\ queue[m] = WithoutEntry(k)[i]
                                                 /\ queue[n] = WithoutEntry(k)[j]
    BY DEF InOrder
  <2>1. from(i) < from(j)
    BY <1>3, <1>5
  <2> HIDE DEF from
  <2> QED
    BY <2>1, <1>6
<1> QED
  BY <1>5, <1>6, <1>7, <1>8

-----------------------------------------------------------------------------
(* One lemma per action: the step preserves the invariant. *)

(* process_create gives an unused process a PCB the queue does not hold. *)
LEMMA CreateStep ==
  ASSUME IInv, NEW p \in Procs, Create(p)
  PROVE  IInv'
<1> USE IdleAssumption DEF IInv, Create, All, States
<1>1. QueueTypeOK'
  BY DEF QueueTypeOK
<1>2. QueueOnce'
  BY DEF QueueTypeOK, QueueOnce, Queued
<1>3. CpuToTheLiving'
  BY DEF QueueTypeOK, CpuToTheLiving
<1> QED
  BY <1>1, <1>2, <1>3

(* scheduler_add by a client that checks what scheduler_add does not. *)
LEMMA AddStep ==
  ASSUME IInv, NEW p \in Procs, Add(p)
  PROVE  IInv'
<1> USE DEF IInv, Add, Enqueued
<1>1. /\ queue \in Seq(All) /\ p \in All /\ Distinct(queue)
      /\ \A i \in DOMAIN queue : queue[i] # p
  BY DEF QueueTypeOK, QueueOnce, Queued, All, Distinct
<1>2. /\ queue' \in Seq(All)
      /\ Distinct(queue')
      /\ \A i \in DOMAIN queue' : \/ i \in DOMAIN queue /\ queue'[i] = queue[i]
                                 \/ queue'[i] = p
  BY <1>1, AppendDistinct
<1>3. QueueTypeOK'
  BY <1>2 DEF QueueTypeOK
<1>4. QueueOnce'
  BY <1>2 DEF QueueOnce, Queued, Distinct
<1>5. CpuToTheLiving'
  BY DEF CpuToTheLiving
<1> QED
  BY <1>3, <1>4, <1>5

(* scheduler_remove by a client *)
LEMMA RemoveStep ==
  ASSUME IInv, NEW p \in Procs, Withdraw(p)
  PROVE  IInv'
<1> USE DEF IInv
<1>1. PICK k \in DOMAIN queue : queue' = WithoutEntry(k) /\ UNCHANGED <<current, state>>
  BY DEF Withdraw
<1>2. queue \in Seq(All) /\ Distinct(queue)
  BY DEF QueueTypeOK, QueueOnce, Distinct
<1>3. /\ queue' \in Seq(All)
      /\ Distinct(queue')
      /\ \A i \in DOMAIN queue' : \E j \in DOMAIN queue : queue'[i] = queue[j]
  BY <1>1, <1>2, WithoutDistinct
<1>4. QueueTypeOK'
  BY <1>1, <1>3 DEF QueueTypeOK
<1>5. QueueOnce'
  BY <1>1, <1>3 DEF QueueOnce, Queued, Distinct
<1>6. CpuToTheLiving'
  BY <1>1 DEF CpuToTheLiving
<1> QED
  BY <1>4, <1>5, <1>6

(* process_destroy: an exited process is neither current nor queued. *)
LEMMA DestroyStep ==
  ASSUME IInv, NEW p \in Procs, Destroy(p)
  PROVE  IInv'
<1> USE IdleAssumption DEF IInv, Destroy, All, States
<1>1. QueueTypeOK'
  BY DEF QueueTypeOK
<1>2. QueueOnce'
  BY DEF QueueTypeOK, QueueOnce, Queued
<1>3. CpuToTheLiving'
  BY DEF QueueTypeOK, CpuToTheLiving
<1> QED
  BY <1>1, <1>2, <1>3

(* scheduler_schedule: the queue with the running process put back at its *)
(* end is still duplicate-free, and whoever leaves it may have the CPU.   *)
LEMMA ScheduleStep ==
  ASSUME IInv, Schedule
  PROVE  IInv'
<1> DEFINE q    == Requeued
           st   == Preempted
           next == Elected(q)
<1>1. /\ queue' = IF q = <<>> THEN q ELSE Tail(q)
      /\ current' = next
      /\ state' = IF next = current THEN st ELSE [st EXCEPT ![next] = "RUNNING"]
  BY DEF Schedule, Dequeued
<1>2. /\ current \in All /\ Idle \in All /\ queue \in Seq(All)
      /\ state \in [All -> States]
      /\ state[Idle] \in {"READY", "RUNNING"}
      /\ Distinct(queue)
      /\ \A i \in DOMAIN queue : queue[i] # current /\ state[queue[i]] = "READY"
      /\ state[current] \in {"READY", "RUNNING"}
      /\ \A p \in All : state[p] = "RUNNING" => p = current
  BY DEF IInv, QueueTypeOK, QueueOnce, CpuToTheLiving, Queued, Distinct, All
<1>3. /\ st \in [All -> {"absent", "READY", "TERMINATED"}]
      /\ st[current] = "READY" /\ st[Idle] = "READY"
      /\ \A p \in All : p # current => st[p] = state[p]
  BY <1>2 DEF States, Preempted
<1>4. /\ q \in Seq(All)
      /\ Distinct(q)
      /\ \A i \in DOMAIN q : st[q[i]] = "READY"
      /\ q = <<>> \/ q = queue \/ q[Len(q)] = current
  <2>1. CASE state[current] = "RUNNING"
    <3>1. q = Append(queue, current)
      BY <2>1 DEF Requeued, Enqueued
    <3>2. /\ q \in Seq(All) /\ Distinct(q)
          /\ \A i \in DOMAIN q : \/ i \in DOMAIN queue /\ q[i] = queue[i]
                                \/ q[i] = current
      BY <3>1, <1>2, AppendDistinct
    <3>3. q[Len(q)] = current
      BY <3>1, <1>2
    <3> QED
      BY <3>2, <3>3, <1>2, <1>3
  <2>2. CASE state[current] # "RUNNING"
    BY <2>2, <1>2, <1>3 DEF Requeued
  <2> QED
    BY <2>1, <2>2
<1> HIDE DEF q, st
<1>5. CASE q = <<>>
  <2>1. queue' = <<>> /\ current' = Idle
    BY <1>1, <1>5 DEF Elected
  <2>2. state' \in [All -> States] /\ state'[Idle] \in {"READY", "RUNNING"}
    BY <1>1, <1>2, <1>3, <1>5 DEF States, Elected
  <2>3. \A p \in All : state'[p] = "RUNNING" => p = Idle
    BY <1>1, <1>2, <1>3, <1>5 DEF Elected
  <2> QED
    BY <2>1, <2>2, <2>3, <1>2 DEF IInv, QueueTypeOK, QueueOnce, CpuToTheLiving, Queued
<1>6. CASE q # <<>>
  <2>1. /\ next = Head(q) /\ next \in All /\ st[next] = "READY"
        /\ queue' = Tail(q) /\ Tail(q) \in Seq(All) /\ Distinct(Tail(q))
        /\ \A i \in DOMAIN Tail(q) : Tail(q)[i] # next /\ st[Tail(q)[i]] = "READY"
    BY <1>1, <1>4, <1>6, TailDistinct DEF Elected
  <2> HIDE DEF next
  <2>2. \A i \in DOMAIN queue' : queue'[i] # next /\ queue'[i] \in All /\ st[queue'[i]] = "READY"
    BY <2>1
  <2>3. /\ state' \in [All -> States]
        /\ state'[next] \in {"READY", "RUNNING"}
        /\ \A p \in All : p # next => state'[p] = st[p]
    BY <1>1, <1>2, <1>3, <2>1 DEF States
  <2>4. QueueTypeOK'
    BY <1>1, <1>2, <1>3, <2>1, <2>3 DEF QueueTypeOK
  <2>5. QueueOnce'
    BY <1>1, <2>1, <2>2, <2>3 DEF QueueOnce, Queued, Distinct
  <2>6. CpuToTheLiving'
    BY <1>1, <1>3, <2>3 DEF CpuToTheLiving
  <2> QED
    BY <2>4, <2>5, <2>6 DEF IInv
<1> QED
  BY <1>5, <1>6

(* sys_exit: the process that exits was not queued, so it is gone for good. *)
LEMMA ExitStep ==
  ASSUME IInv, Exit
  PROVE  IInv'
<1> DEFINE next == Elected(queue)
<1>1. /\ current # Idle
      /\ queue' = IF queue = <<>> THEN queue ELSE Tail(queue)
      /\ current' = next
      /\ state' = [state EXCEPT ![current] = "TERMINATED", ![next] = "RUNNING"]
  BY DEF Exit, Terminate, Dequeued
<1>2. /\ current \in All /\ Idle \in All /\ queue \in Seq(All)
      /\ state \in [All -> States]
      /\ state[Idle] \in {"READY", "RUNNING"}
      /\ Distinct(queue)
      /\ \A i \in DOMAIN queue : queue[i] # current /\ state[queue[i]] = "READY"
      /\ \A p \in All : state[p] = "RUNNING" => p = current
  BY DEF IInv, QueueTypeOK, QueueOnce, CpuToTheLiving, Queued, Distinct, All
<1>3. /\ next \in All /\ next # current
      /\ queue' \in Seq(All) /\ Distinct(queue')
      /\ \A i \in DOMAIN queue' : /\ queue'[i] # next
                                 /\ queue'[i] # current
                                 /\ queue'[i] \in All
                                 /\ state[queue'[i]] = "READY"
  <2>1. CASE queue = <<>>
    BY <2>1, <1>1, <1>2 DEF Elected
  <2>2. CASE queue # <<>>
    <3>1. /\ next \in All /\ next = queue[1] /\ 1 \in DOMAIN queue
          /\ Tail(queue) \in Seq(All) /\ Distinct(Tail(queue))
          /\ \A i \in DOMAIN Tail(queue) : /\ i + 1 \in DOMAIN queue
                                          /\ Tail(queue)[i] = queue[i + 1]
                                          /\ Tail(queue)[i] # next
      BY <2>2, <1>2, TailDistinct DEF Elected
    <3>2. queue' = Tail(queue)
      BY <2>2, <1>1
    <3> HIDE DEF next
    <3>3. \A i \in DOMAIN queue' : queue'[i] \in All
      BY <3>1, <3>2
    <3> QED
      BY <3>1, <3>2, <3>3, <1>2
  <2> QED
    BY <2>1, <2>2
<1> HIDE DEF next
<1>4. /\ state' \in [All -> States]
      /\ state'[next] = "RUNNING" /\ state'[current] = "TERMINATED"
      /\ \A p \in All : p # next /\ p # current => state'[p] = state[p]
  BY <1>1, <1>2, <1>3 DEF States
<1>5. QueueTypeOK'
  BY <1>1, <1>2, <1>3, <1>4 DEF QueueTypeOK
<1>6. QueueOnce'
  BY <1>1, <1>3, <1>4 DEF QueueOnce, Queued, Distinct
<1>7. CpuToTheLiving'
  BY <1>1, <1>2, <1>3, <1>4 DEF CpuToTheLiving
<1> QED
  BY <1>5, <1>6, <1>7 DEF IInv

-----------------------------------------------------------------------------

LEMMA Inductive == QueueSpec => []IInv
<1>1. QueueInit => IInv
  <2> SUFFICES ASSUME QueueInit PROVE IInv
    OBVIOUS
  <2> USE IdleAssumption DEF QueueInit, All, States
  <2>1. QueueTypeOK
    BY DEF QueueTypeOK
  <2>2. QueueOnce
    BY DEF QueueOnce, Queued
  <2>3. CpuToTheLiving
    BY DEF CpuToTheLiving
  <2> QED
    BY <2>1, <2>2, <2>3 DEF IInv
<1>2. IInv /\ [QueueNext]_queueVars => IInv'
  <2> SUFFICES ASSUME IInv, [QueueNext]_queueVars PROVE IInv'
    OBVIOUS
  <2>1. ASSUME NEW p \in Procs, Create(p) PROVE IInv'
    BY <2>1, CreateStep
  <2>2. ASSUME NEW p \in Procs, Add(p) PROVE IInv'
    BY <2>2, AddStep
  <2>3. ASSUME NEW p \in Procs, Withdraw(p) PROVE IInv'
    BY <2>3, RemoveStep
  <2>4. ASSUME NEW p \in Procs, Destroy(p) PROVE IInv'
    BY <2>4, DestroyStep
  <2>5. CASE Schedule
    BY <2>5, ScheduleStep
  <2>6. CASE Exit
    BY <2>6, ExitStep
  <2>7. CASE UNCHANGED queueVars
    BY <2>7 DEF queueVars, IInv, QueueTypeOK, QueueOnce, CpuToTheLiving, Queued
  <2> QED
    BY <2>1, <2>2, <2>3, <2>4, <2>5, <2>6, <2>7 DEF QueueNext
<1> QED
  BY <1>1, <1>2, PTL DEF QueueSpec

(* Every variable of the scheduler keeps its type. *)
THEOREM TypeCorrect == QueueSpec => []QueueTypeOK
  BY Inductive, PTL DEF IInv

(* No process is queued twice or while it holds the CPU, and what is queued *)
(* is READY: the linked list of process.cpp never gets a PCB it already has. *)
THEOREM QueueSafety == QueueSpec => []QueueOnce
  BY Inductive, PTL DEF IInv

(* The CPU never belongs to a process that exited or was destroyed, and no  *)
(* other process is marked RUNNING.                                         *)
THEOREM CpuSafety == QueueSpec => []CpuToTheLiving
  BY Inductive, PTL DEF IInv

-----------------------------------------------------------------------------
(* The order of the queue. *)

(* The queue loses its head, or gains a process at its end, or both.       *)
LEMMA PushedAndPopped ==
  ASSUME NEW S, NEW q \in Seq(S), NEW e \in S, \A i \in DOMAIN q : q[i] # e
  PROVE  /\ InOrder(q, q)
         /\ InOrder(Append(q, e), q)
         /\ q # <<>> => InOrder(Tail(q), q)
         /\ InOrder(Tail(Append(q, e)), q)
<1>1. /\ Len(q) \in Nat /\ DOMAIN q = 1..Len(q)
      /\ DOMAIN Append(q, e) = 1..(Len(q) + 1)
      /\ \A i \in DOMAIN q : Append(q, e)[i] = q[i]
      /\ Append(q, e)[Len(q) + 1] = e
      /\ Append(q, e) \in Seq(S) /\ Append(q, e) # <<>> /\ Len(Append(q, e)) = Len(q) + 1
  OBVIOUS
<1>2. ASSUME NEW r \in Seq(S), r # <<>>
      PROVE  /\ DOMAIN Tail(r) = 1..(Len(r) - 1) /\ Len(r) \in Nat
             /\ \A i \in DOMAIN Tail(r) : Tail(r)[i] = r[i + 1]
  BY <1>2
<1>3. InOrder(q, q)
  BY <1>1 DEF InOrder
<1>4. InOrder(Append(q, e), q)
  <2> SUFFICES ASSUME NEW i \in DOMAIN Append(q, e), NEW j \in DOMAIN Append(q, e), i < j,
                      NEW m \in DOMAIN q, q[m] = Append(q, e)[j]
               PROVE  \E l, n \in DOMAIN q : l < n /\ q[l] = Append(q, e)[i] /\ q[n] = Append(q, e)[j]
    BY DEF InOrder
  <2>1. j # Len(q) + 1
    BY <1>1
  <2>2. i \in DOMAIN q /\ j \in DOMAIN q
    BY <1>1, <2>1
  <2> QED
    BY <1>1, <2>2
<1>5. ASSUME q # <<>> PROVE InOrder(Tail(q), q)
  <2> SUFFICES ASSUME NEW i \in DOMAIN Tail(q), NEW j \in DOMAIN Tail(q), i < j
               PROVE  \E l, n \in DOMAIN q : l < n /\ q[l] = Tail(q)[i] /\ q[n] = Tail(q)[j]
    BY DEF InOrder
  <2>1. i + 1 \in DOMAIN q /\ j + 1 \in DOMAIN q /\ i + 1 < j + 1
    BY <1>1, <1>2, <1>5
  <2>2. Tail(q)[i] = q[i + 1] /\ Tail(q)[j] = q[j + 1]
    BY <1>2, <1>5
  <2> QED
    BY <2>1, <2>2
<1>6. InOrder(Tail(Append(q, e)), q)
  <2>1. PICK r : r = Append(q, e)
    OBVIOUS
  <2>2. PICK t : t = Tail(r)
    OBVIOUS
  <2>3. DOMAIN t = 1..Len(q) /\ \A i \in 1..Len(q) : t[i] = r[i + 1]
    BY <1>1, <1>2, <2>1, <2>2
  <2>4. ASSUME NEW l \in Nat, NEW i \in 1..l, NEW j \in 1..l, i < j, j # l
        PROVE  i + 1 \in 1..l /\ j + 1 \in 1..l /\ i + 1 < j + 1
    BY <2>4
  <2>5. ASSUME NEW i \in DOMAIN t, NEW j \in DOMAIN t, i < j,
               NEW m \in DOMAIN q, q[m] = t[j]
        PROVE  \E l, n \in DOMAIN q : l < n /\ q[l] = t[i] /\ q[n] = t[j]
    <3>1. j # Len(q)
      BY <1>1, <2>1, <2>3, <2>5
    <3>2. i + 1 \in DOMAIN q /\ j + 1 \in DOMAIN q /\ i + 1 < j + 1
      BY <1>1, <2>3, <2>4, <2>5, <3>1
    <3> QED
      BY <1>1, <2>1, <2>3, <3>2
  <2>6. InOrder(t, q)
    BY <2>5 DEF InOrder
  <2> QED
    BY <2>1, <2>2, <2>6
<1> QED
  BY <1>3, <1>4, <1>5, <1>6

(* Every step keeps the order of the queue. *)
LEMMA StepInOrder ==
  ASSUME IInv, QueueNext
  PROVE  InOrder(queue', queue)
<1>1. /\ queue \in Seq(All) /\ current \in All /\ Distinct(queue)
      /\ \A i \in DOMAIN queue : queue[i] # current
  BY DEF IInv, QueueTypeOK, QueueOnce, Queued, Distinct
<1>2. InOrder(queue, queue) /\ (queue # <<>> => InOrder(Tail(queue), queue))
  BY <1>1, PushedAndPopped
<1>3. ASSUME NEW p \in Procs, Create(p) \/ Destroy(p) PROVE InOrder(queue', queue)
  BY <1>2, <1>3 DEF Create, Destroy
<1>4. ASSUME NEW p \in Procs, Add(p) PROVE InOrder(queue', queue)
  <2>1. /\ queue' = Append(queue, p) /\ p \in All
        /\ \A i \in DOMAIN queue : queue[i] # p
    BY <1>4 DEF Add, Enqueued, Queued, All
  <2>2. InOrder(Append(queue, p), queue)
    BY <1>1, <2>1, PushedAndPopped
  <2> QED
    BY <2>1, <2>2
<1>5. ASSUME NEW p \in Procs, Withdraw(p) PROVE InOrder(queue', queue)
  <2>1. PICK k \in DOMAIN queue : queue' = WithoutEntry(k)
    BY <1>5 DEF Withdraw
  <2>2. InOrder(WithoutEntry(k), queue)
    BY <1>1, WithoutDistinct
  <2> QED
    BY <2>1, <2>2
<1>6. CASE Schedule
  <2>1. queue' = IF Requeued = <<>> THEN Requeued ELSE Tail(Requeued)
    BY <1>6 DEF Schedule, Dequeued
  <2>2. Requeued = Append(queue, current) \/ Requeued = queue
    BY DEF Requeued, Enqueued
  <2>3. InOrder(Append(queue, current), queue) /\ InOrder(Tail(Append(queue, current)), queue)
    BY <1>1, PushedAndPopped
  <2> QED
    BY <1>2, <2>1, <2>2, <2>3
<1>7. CASE Exit
  BY <1>2, <1>7 DEF Exit, Terminate, Dequeued
<1> QED
  BY <1>3, <1>4, <1>5, <1>6, <1>7 DEF QueueNext

(* Whoever waits in the queue is overtaken by no one, however processes    *)
(* are created, added, removed, preempted and destroyed meanwhile: a new   *)
(* or preempted process goes behind all of them.                           *)
THEOREM TurnsAreKept == QueueSpec => NoOvertaking
<1>1. ASSUME IInv, [QueueNext]_queueVars, NEW p \in All, p \in Queued, p \in Queued'
      PROVE  Ahead(p)' \subseteq Ahead(p)
  <2>1. CASE UNCHANGED queueVars
    BY <2>1 DEF queueVars, Ahead
  <2>2. CASE QueueNext
    <3> SUFFICES ASSUME NEW x \in Ahead(p)' PROVE x \in Ahead(p)
      OBVIOUS
    <3>1. PICK j \in DOMAIN queue', i \in DOMAIN queue' :
            queue'[j] = x /\ queue'[i] = p /\ j < i
      BY DEF Ahead
    <3>2. \E m \in DOMAIN queue : queue[m] = queue'[i]
      BY <1>1, <3>1 DEF Queued
    <3>3. PICK m \in DOMAIN queue, n \in DOMAIN queue : m < n /\ queue[m] = x /\ queue[n] = p
      BY <1>1, <2>2, <3>1, <3>2, StepInOrder DEF InOrder
    <3> QED
      BY <3>3 DEF Ahead
  <2> QED
    BY <1>1, <2>1, <2>2
<1>2. IInv /\ [QueueNext]_queueVars
      => [\A p \in All : p \in Queued /\ p \in Queued' => Ahead(p)' \subseteq Ahead(p)]_queueVars
  BY <1>1
<1> QED
  BY <1>2, Inductive, PTL DEF QueueSpec, NoOvertaking
=============================================================================
