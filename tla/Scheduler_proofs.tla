-------------------------- MODULE Scheduler_proofs --------------------------
(***************************************************************************)
(* Scheduler implements RoundRobin, for every table size, number of PIDs   *)
(* and of pages, and keeps its list, its stacks and the in-service bit of  *)
(* the controller in order.  The first part shows that the linked list     *)
(* holds a sequence and that each list operation is the sequence operation *)
(* of the same name; with it every step of Scheduler is a step of          *)
(* RoundRobin, whose inductive invariant then carries over.                *)
(***************************************************************************)
EXTENDS Scheduler, FiniteSetTheorems, SequenceTheorems, NaturalsInduction,
        WellFoundedInduction, TLAPS

RRP == INSTANCE RoundRobin_proofs WITH current <- current_process,
                                       queue   <- ListSeq(List)

-----------------------------------------------------------------------------
(* The list and the sequence it holds. *)

Links == [head : All \union {Nil}, tail : All \union {Nil},
          next : [All -> All \union {Nil}]]

Once(q) == \A i, j \in DOMAIN q : q[i] = q[j] => i = j

\* From the head, the links of l go through q, and end; tail is its end.
Holds(l, q) ==
  /\ l \in Links
  /\ q \in Seq(All)
  /\ Once(q)
  /\ l.head = IF q = <<>> THEN Nil ELSE q[1]
  /\ l.tail = IF q = <<>> THEN Nil ELSE q[Len(q)]
  /\ \A i \in DOMAIN q : l.next[q[i]] = IF i = Len(q) THEN Nil ELSE q[i + 1]


LessThan == {p \in Nat \X Nat : p[1] < p[2]}

(* A set of naturals has a least element. *)
LEMMA Least ==
  ASSUME NEW S \in SUBSET Nat, S # {}
  PROVE  \E m \in S : \A k \in S : m <= k
<1>1. IsWellFoundedOn(LessThan, Nat)
  <2>1. OpToRel(<, Nat) = LessThan
    BY DEF OpToRel, LessThan
  <2> QED
    BY <2>1, NatLessThanWellFounded
<1>2. PICK m \in S : \A k \in S : <<k, m>> \notin LessThan
  BY <1>1, WFMin
<1>3. ASSUME NEW k \in S PROVE m <= k
  <2>1. <<k, m>> \in Nat \X Nat /\ <<k, m>> \notin LessThan
    BY <1>2
  <2>2. ~(<<k, m>>[1] < <<k, m>>[2])
    BY <2>1 DEF LessThan
  <2> QED
    BY <2>2
<1> QED
  BY <1>3

(* There are MaxPid + 1 processes, so no list without repetitions is longer. *)
LEMMA Bounded ==
  ASSUME NEW q \in Seq(All), Once(q)
  PROVE  Len(q) \in Nat /\ Len(q) <= MaxPid + 1
<1>1. All = 0..MaxPid /\ MaxPid \in Nat
  BY SizesAssumption DEF All, Procs, Idle
<1>2. IsFiniteSet(All) /\ Cardinality(All) = MaxPid + 1
  BY <1>1, FS_Interval
<1>3. q \in Injection(1..Len(q), All)
  BY DEF Injection, IsInjective, Once
<1>4. Cardinality(1..Len(q)) <= Cardinality(All)
  BY <1>2, <1>3, FS_Injection
<1>5. Cardinality(1..Len(q)) = Len(q)
  <2>1. Len(q) \in Nat
    OBVIOUS
  <2>2. ASSUME NEW n \in Nat PROVE Cardinality(1..n) = n
    BY FS_Interval
  <2> QED
    BY <2>1, <2>2
<1> QED
  BY <1>2, <1>4, <1>5

Places == 0..(MaxPid + 2)

\* What the walk along the links finds at each place, if the list holds q.
Walk(q) == [n \in Places |-> IF n < Len(q) THEN q[n + 1] ELSE Nil]

\* f goes from the head of l along its links.
Follows(l, f) ==
  f = [n \in Places |-> IF n = 0 THEN l.head
                        ELSE IF f[n - 1] = Nil THEN Nil ELSE l.next[f[n - 1]]]

LEMMA WalkFollows ==
  ASSUME NEW l, NEW q, Holds(l, q)
  PROVE  Follows(l, Walk(q))
<1>1. MaxPid \in Nat /\ Nil \notin All /\ q \in Seq(All) /\ Len(q) \in Nat
  BY SizesAssumption DEF All, Procs, Idle, Nil, Holds
<1>2. ASSUME NEW n \in Places
      PROVE  Walk(q)[n] = IF n = 0 THEN l.head
                          ELSE IF Walk(q)[n - 1] = Nil THEN Nil ELSE l.next[Walk(q)[n - 1]]
  <2>1. Walk(q)[n] = IF n < Len(q) THEN q[n + 1] ELSE Nil
    BY DEF Walk
  <2>2. CASE n = 0
    BY <1>1, <2>1, <2>2 DEF Holds
  <2>3. CASE n # 0
    <3>1. n - 1 \in Places /\ n \in Nat /\ n > 0
      BY <1>1, <2>3 DEF Places
    <3>2. Walk(q)[n - 1] = IF n - 1 < Len(q) THEN q[n] ELSE Nil
      BY <3>1 DEF Walk
    <3>3. CASE n - 1 < Len(q)
      <4>1. n \in DOMAIN q /\ q[n] \in All
        BY <1>1, <3>1, <3>3
      <4>2. l.next[q[n]] = IF n = Len(q) THEN Nil ELSE q[n + 1]
        BY <4>1 DEF Holds
      <4> QED
        BY <1>1, <2>1, <2>3, <3>1, <3>2, <3>3, <4>1, <4>2
    <3>4. CASE ~(n - 1 < Len(q))
      BY <1>1, <2>1, <2>3, <3>1, <3>2, <3>4
    <3> QED
      BY <3>3, <3>4
  <2> QED
    BY <2>2, <2>3
<1>3. Walk(q) = [n \in Places |-> Walk(q)[n]]
  BY DEF Walk
<1> QED
  BY <1>2, <1>3 DEF Follows

LEMMA OneWalk ==
  ASSUME NEW l, NEW f, NEW g, Follows(l, f), Follows(l, g)
  PROVE  f = g
<1> DEFINE Apart == {n \in Places : f[n] # g[n]}
<1>1. MaxPid \in Nat
  BY SizesAssumption
<1>2. Apart = {}
  <2> SUFFICES ASSUME Apart # {} PROVE FALSE
    OBVIOUS
  <2>0. Apart \in SUBSET Nat
    BY <1>1 DEF Places
  <2>1. PICK m \in Apart : \A k \in Apart : m <= k
    <3> HIDE DEF Apart
    <3> QED
      BY <2>0, Least
  <2>2. m # 0
    BY <2>1 DEF Follows
  <2>3. m - 1 \in Places /\ m - 1 \notin Apart
    BY <1>1, <2>1, <2>2 DEF Places
  <2>4. f[m - 1] = g[m - 1]
    BY <2>3
  <2> QED
    BY <2>1, <2>2, <2>4 DEF Follows
<1>3. \A n \in Places : f[n] = g[n]
  BY <1>2
<1>4. f = [n \in Places |-> f[n]] /\ g = [n \in Places |-> g[n]]
  BY DEF Follows
<1> QED
  BY <1>3, <1>4

(* ListSeq reads the sequence that the list holds. *)
LEMMA ListSeqIs ==
  ASSUME NEW l, NEW q, Holds(l, q)
  PROVE  ListSeq(l) = q
<1>1. MaxPid \in Nat /\ Nil \notin All /\ q \in Seq(All) /\ Len(q) \in Nat /\ Len(q) <= MaxPid + 1
  BY SizesAssumption, Bounded DEF All, Procs, Idle, Nil, Holds
<1>2. Nth(l) = CHOOSE f : Follows(l, f)
  BY DEF Nth, Follows, Places
<1>3. Nth(l) = Walk(q)
  BY <1>2, WalkFollows, OneWalk
<1>4. {n \in Places : Walk(q)[n] # Nil} = 0..(Len(q) - 1)
  BY <1>1 DEF Walk, Places
<1>5. Cardinality(0..(Len(q) - 1)) = Len(q)
  <2>1. ASSUME NEW n \in Nat PROVE Cardinality(0..(n - 1)) = n
    <3>1. n - 1 \in Int /\ 0 \in Int
      OBVIOUS
    <3> QED
      BY <3>1, FS_Interval
  <2> QED
    BY <1>1, <2>1
<1>6. DOMAIN Walk(q) = Places
  BY DEF Walk
<1>7. ListSeq(l) = [i \in 1..Len(q) |-> Walk(q)[i - 1]]
  BY <1>3, <1>4, <1>5, <1>6 DEF ListSeq
<1>8. \A i \in 1..Len(q) : Walk(q)[i - 1] = q[i]
  BY <1>1 DEF Walk, Places
<1> QED
  BY <1>1, <1>7, <1>8

(* The fields of a list, two of them assigned. *)
LEMMA Assigned ==
  ASSUME NEW l \in Links, NEW x, NEW y
  PROVE  /\ [l EXCEPT !.head = x, !.tail = y] = [head |-> x, tail |-> y, next |-> l.next]
         /\ [l EXCEPT !.next = x, !.tail = y] = [head |-> l.head, tail |-> y, next |-> x]
<1>1. l = [head |-> l.head, tail |-> l.tail, next |-> l.next]
  BY DEF Links
<1>2. ASSUME NEW a, NEW b, NEW c
      PROVE  /\ [[head |-> a, tail |-> b, next |-> c] EXCEPT !.head = x]
                = [head |-> x, tail |-> b, next |-> c]
             /\ [[head |-> a, tail |-> b, next |-> c] EXCEPT !.tail = y]
                = [head |-> a, tail |-> y, next |-> c]
             /\ [[head |-> a, tail |-> b, next |-> c] EXCEPT !.next = x]
                = [head |-> a, tail |-> b, next |-> x]
  OBVIOUS
<1>3. /\ [l EXCEPT !.head = x, !.tail = y] = [[l EXCEPT !.head = x] EXCEPT !.tail = y]
      /\ [l EXCEPT !.next = x, !.tail = y] = [[l EXCEPT !.next = x] EXCEPT !.tail = y]
  OBVIOUS
<1>4. /\ [l EXCEPT !.head = x] = [head |-> x, tail |-> l.tail, next |-> l.next]
      /\ [l EXCEPT !.next = x] = [head |-> l.head, tail |-> l.tail, next |-> x]
  BY <1>1, <1>2
<1>5. /\ [[head |-> x, tail |-> l.tail, next |-> l.next] EXCEPT !.tail = y]
         = [head |-> x, tail |-> y, next |-> l.next]
      /\ [[head |-> l.head, tail |-> l.tail, next |-> x] EXCEPT !.tail = y]
         = [head |-> l.head, tail |-> y, next |-> x]
  BY <1>2
<1> QED
  BY <1>3, <1>4, <1>5

(* scheduler_add appends a process that the list does not hold. *)
LEMMA AddedIs ==
  ASSUME NEW l, NEW q, Holds(l, q), NEW p \in All, \A i \in DOMAIN q : q[i] # p
  PROVE  Holds(Added(l, p), Append(q, p))
<1>1. /\ l \in Links /\ q \in Seq(All) /\ Once(q) /\ Len(q) \in Nat
      /\ DOMAIN q = 1..Len(q) /\ Nil \notin All
  BY SizesAssumption DEF Holds, All, Procs, Idle, Nil
<1>2. PICK r : r = Append(q, p)
  OBVIOUS
<1>3. /\ r \in Seq(All) /\ r # <<>> /\ Len(r) = Len(q) + 1 /\ DOMAIN r = 1..(Len(q) + 1)
      /\ \A i \in DOMAIN q : r[i] = q[i]
      /\ r[Len(q) + 1] = p
  BY <1>1, <1>2
<1>4. Once(r)
  BY <1>1, <1>3 DEF Once
<1>5. CASE q = <<>>
  <2>1. Added(l, p) = [head |-> p, tail |-> p, next |-> [l.next EXCEPT ![p] = Nil]]
    BY <1>1, <1>5 DEF Added, Holds
  <2>2. Len(q) = 0 /\ r[1] = p /\ Len(r) = 1 /\ DOMAIN r = 1..1
    BY <1>3, <1>5
  <2>3. l.next \in [All -> All \union {Nil}]
    BY <1>1 DEF Links
  <2>4. Added(l, p) \in Links
    BY <2>1, <2>3 DEF Links
  <2>5. Added(l, p).next[p] = Nil
    BY <2>1, <2>3
  <2>6. Added(l, p).head = p /\ Added(l, p).tail = p
    BY <2>1
  <2>7. Holds(Added(l, p), r)
    BY <1>3, <1>4, <2>2, <2>4, <2>5, <2>6 DEF Holds
  <2> QED
    BY <1>2, <2>7
<1>6. CASE q # <<>>
  <2>1. /\ Len(q) > 0 /\ l.head = q[1] /\ l.tail = q[Len(q)]
        /\ 1 \in DOMAIN q /\ Len(q) \in DOMAIN q /\ q[1] \in All /\ q[Len(q)] \in All
    BY <1>1, <1>6 DEF Holds
  <2>2. l.head # Nil
    BY <1>1, <2>1
  <2>3. Added(l, p) = [head |-> l.head, tail |-> p,
                       next |-> [[l.next EXCEPT ![p] = Nil] EXCEPT ![l.tail] = p]]
    BY <2>2 DEF Added
  <2>4. l.next \in [All -> All \union {Nil}] /\ l.head \in All \union {Nil}
    BY <1>1 DEF Links
  <2>5. Added(l, p) \in Links
    BY <2>1, <2>3, <2>4 DEF Links
  <2>6. /\ Added(l, p).next[p] = Nil
        /\ Added(l, p).next[q[Len(q)]] = p
        /\ \A i \in DOMAIN q : i # Len(q) => Added(l, p).next[q[i]] = l.next[q[i]]
    <3>1. \A x \in All : Added(l, p).next[x] = IF x = q[Len(q)] THEN p ELSE IF x = p THEN Nil ELSE l.next[x]
      BY <2>1, <2>3, <2>4
    <3>2. q[Len(q)] # p
      BY <2>1
    <3>3. \A i \in DOMAIN q : i # Len(q) => q[i] # q[Len(q)] /\ q[i] \in All /\ q[i] # p
      BY <1>1, <2>1 DEF Once
    <3> QED
      BY <2>1, <3>1, <3>2, <3>3
  <2>7. \A i \in DOMAIN r : Added(l, p).next[r[i]] = IF i = Len(r) THEN Nil ELSE r[i + 1]
    <3> SUFFICES ASSUME NEW i \in DOMAIN r
                 PROVE  Added(l, p).next[r[i]] = IF i = Len(r) THEN Nil ELSE r[i + 1]
      OBVIOUS
    <3>1. CASE i = Len(q) + 1
      BY <1>3, <2>6, <3>1
    <3>2. CASE i = Len(q)
      <4>1. i \in DOMAIN q /\ i # Len(r) /\ r[i] = q[Len(q)] /\ r[i + 1] = p
        BY <1>1, <1>3, <2>1, <3>2
      <4> QED
        BY <2>6, <4>1
    <3>3. CASE i # Len(q) + 1 /\ i # Len(q)
      <4>1. i \in DOMAIN q /\ i + 1 \in DOMAIN q /\ i # Len(r)
        BY <1>1, <1>3, <3>3
      <4>2. l.next[q[i]] = q[i + 1]
        BY <3>3, <4>1 DEF Holds
      <4> QED
        BY <1>3, <2>6, <3>3, <4>1, <4>2
    <3> QED
      BY <3>1, <3>2, <3>3
  <2>8. Added(l, p).head = l.head /\ Added(l, p).tail = p
    BY <2>3
  <2>9. Added(l, p).head = r[1] /\ Added(l, p).tail = r[Len(r)]
    BY <1>3, <2>1, <2>8
  <2>10. Holds(Added(l, p), r)
    BY <1>3, <1>4, <2>5, <2>7, <2>9 DEF Holds
  <2> QED
    BY <1>2, <2>10
<1> QED
  BY <1>5, <1>6

(* scheduler_next takes the first. *)
LEMMA PoppedIs ==
  ASSUME NEW l, NEW q, Holds(l, q), q # <<>>
  PROVE  l.head = Head(q) /\ l.head \in All /\ Holds(Popped(l), Tail(q))
<1>1. /\ l \in Links /\ q \in Seq(All) /\ Once(q) /\ Len(q) \in Nat /\ Len(q) > 0
      /\ DOMAIN q = 1..Len(q) /\ Nil \notin All
      /\ 1 \in DOMAIN q /\ Len(q) \in DOMAIN q /\ q[1] \in All /\ q[Len(q)] \in All
  BY SizesAssumption DEF Holds, All, Procs, Idle, Nil
<1>2. l.head = q[1] /\ l.tail = q[Len(q)] /\ q[1] = Head(q)
  BY <1>1 DEF Holds
<1>3. PICK r : r = Tail(q)
  OBVIOUS
<1>4. /\ r \in Seq(All) /\ Len(r) = Len(q) - 1 /\ DOMAIN r = 1..(Len(q) - 1)
      /\ \A i \in DOMAIN r : r[i] = q[i + 1]
  BY <1>1, <1>3
<1>5. Once(r)
  <2> SUFFICES ASSUME NEW i \in DOMAIN r, NEW j \in DOMAIN r, r[i] = r[j] PROVE i = j
    BY DEF Once
  <2>1. i + 1 \in DOMAIN q /\ j + 1 \in DOMAIN q /\ q[i + 1] = q[j + 1]
    BY <1>1, <1>4
  <2>2. i + 1 = j + 1
    BY <1>1, <2>1 DEF Once
  <2> QED
    BY <1>4, <2>2
<1>6. l.next[q[1]] = IF 1 = Len(q) THEN Nil ELSE q[2]
  BY <1>1 DEF Holds
<1>7. l.next \in [All -> All \union {Nil}] /\ l.tail \in All
  BY <1>1, <1>2 DEF Links
<1>8. /\ Popped(l) \in Links
      /\ Popped(l).next = l.next
      /\ Popped(l).head = IF 1 = Len(q) THEN Nil ELSE q[2]
      /\ Popped(l).tail = IF Popped(l).head = Nil THEN Nil ELSE q[Len(q)]
  <2>1. Popped(l) = [head |-> l.next[l.head],
                     tail |-> IF l.next[l.head] = Nil THEN Nil ELSE l.tail,
                     next |-> l.next]
    <3>1. ASSUME NEW x, NEW y
          PROVE  [l EXCEPT !.head = x, !.tail = y] = [head |-> x, tail |-> y, next |-> l.next]
      BY <1>1, Assigned
    <3> QED
      BY <3>1 DEF Popped
  <2>2. Popped(l) \in Links
    BY <1>1, <1>2, <1>7, <2>1 DEF Links
  <2> QED
    BY <1>2, <1>6, <2>1, <2>2
<1>9. CASE Len(q) = 1
  <2>1. r = <<>> /\ Popped(l).head = Nil /\ Popped(l).tail = Nil
    BY <1>3, <1>4, <1>8, <1>9
  <2>2. Holds(Popped(l), r)
    BY <1>4, <1>5, <1>8, <2>1 DEF Holds
  <2> QED
    BY <1>1, <1>2, <1>3, <2>2
<1>10. CASE Len(q) # 1
  <2>1. /\ r # <<>> /\ q[2] \in All /\ r[1] = q[2] /\ r[Len(r)] = q[Len(q)]
        /\ Popped(l).head = q[2]
    <3>1. 1 \in DOMAIN r /\ Len(r) \in DOMAIN r /\ 2 \in DOMAIN q /\ Len(r) + 1 = Len(q)
      BY <1>1, <1>4, <1>10
    <3>2. r[1] = q[2] /\ r[Len(r)] = q[Len(q)]
      BY <1>4, <3>1
    <3>3. r # <<>> /\ q[2] \in All
      BY <1>1, <3>1
    <3> QED
      BY <1>8, <1>10, <3>2, <3>3
  <2>2. Popped(l).tail = q[Len(q)]
    BY <1>1, <1>8, <2>1
  <2>3. \A i \in DOMAIN r : l.next[r[i]] = IF i = Len(r) THEN Nil ELSE r[i + 1]
    <3> SUFFICES ASSUME NEW i \in DOMAIN r
                 PROVE  l.next[r[i]] = IF i = Len(r) THEN Nil ELSE r[i + 1]
      OBVIOUS
    <3>1. i + 1 \in DOMAIN q /\ r[i] = q[i + 1]
      BY <1>1, <1>4
    <3>2. l.next[r[i]] = IF i + 1 = Len(q) THEN Nil ELSE q[i + 2]
      <4>1. l.next[q[i + 1]] = IF i + 1 = Len(q) THEN Nil ELSE q[(i + 1) + 1]
        BY <3>1 DEF Holds
      <4>2. (i + 1) + 1 = i + 2
        BY <1>4
      <4> QED
        BY <3>1, <4>1, <4>2
    <3>3. (i + 1 = Len(q)) <=> (i = Len(r))
      BY <1>1, <1>4
    <3>4. i # Len(r) => i + 1 \in DOMAIN r /\ r[i + 1] = q[i + 2]
      BY <1>1, <1>4
    <3> QED
      BY <3>2, <3>3, <3>4
  <2>4. Holds(Popped(l), r)
    BY <1>4, <1>5, <1>8, <2>1, <2>2, <2>3 DEF Holds
  <2> QED
    BY <1>1, <1>2, <1>3, <2>4
<1> QED
  BY <1>9, <1>10

\* The sequence q without its k-th entry.
Cut(q, k) == SubSeq(q, 1, k - 1) \o SubSeq(q, k + 1, Len(q))

(* The entries before the k-th stay, the others move up by one. *)
LEMMA CutIs ==
  ASSUME NEW S, NEW q \in Seq(S), NEW k \in DOMAIN q
  PROVE  /\ Cut(q, k) \in Seq(S)
         /\ Len(Cut(q, k)) = Len(q) - 1
         /\ \A i \in 1..(Len(q) - 1) : Cut(q, k)[i] = IF i < k THEN q[i] ELSE q[i + 1]
<1>0. PICK left, right : left = SubSeq(q, 1, k - 1) /\ right = SubSeq(q, k + 1, Len(q))
  OBVIOUS
<1>1. PICK both : both = left \o right
  OBVIOUS
<1>2. Len(q) \in Nat /\ k \in 1..Len(q)
  OBVIOUS
<1>3. left \in Seq(S) /\ Len(left) = k - 1 /\ \A i \in 1..(k - 1) : left[i] = q[i]
  BY <1>0
<1>4. /\ right \in Seq(S) /\ Len(right) = Len(q) - k
      /\ \A i \in 1..(Len(q) - k) : right[i] = q[k + i]
  BY <1>0
<1>5. /\ both \in Seq(S)
      /\ Len(both) = Len(left) + Len(right)
      /\ \A i \in 1..(Len(left) + Len(right)) :
           both[i] = IF i <= Len(left) THEN left[i] ELSE right[i - Len(left)]
  BY <1>1, <1>3, <1>4, ConcatProperties
<1>6. Len(both) = Len(q) - 1
  BY <1>2, <1>3, <1>4, <1>5
<1>7. ASSUME NEW i \in 1..(Len(q) - 1)
      PROVE  both[i] = IF i < k THEN q[i] ELSE q[i + 1]
  <2>1. both[i] = IF i <= k - 1 THEN left[i] ELSE right[i - (k - 1)]
    BY <1>2, <1>3, <1>4, <1>5, SMTT(30)
  <2>2. CASE i < k
    BY <1>2, <1>3, <2>1, <2>2
  <2>3. CASE ~(i < k)
    <3>1. i - (k - 1) \in 1..(Len(q) - k) /\ k + (i - (k - 1)) = i + 1 /\ ~(i <= k - 1)
      BY <1>2, <2>3
    <3>2. both[i] = right[i - (k - 1)]
      BY <2>1, <3>1
    <3>3. right[i - (k - 1)] = q[k + (i - (k - 1))]
      BY <1>4, <3>1
    <3> QED
      BY <2>3, <3>1, <3>2, <3>3
  <2> QED
    BY <2>2, <2>3
<1> QED
  BY <1>0, <1>1, <1>5, <1>6, <1>7 DEF Cut

(* scheduler_remove changes nothing when the list does not hold p. *)
LEMMA RemovedNone ==
  ASSUME NEW l, NEW q, Holds(l, q), NEW p \in All, \A i \in DOMAIN q : q[i] # p
  PROVE  Removed(l, p) = l
<1>1. q \in Seq(All) /\ Nil \notin All /\ DOMAIN q = 1..Len(q) /\ Len(q) \in Nat
  BY SizesAssumption DEF Holds, All, Procs, Idle, Nil
<1>2. ListSeq(l) = q
  BY ListSeqIs
<1>3. l.head # p
  BY <1>1 DEF Holds
<1>4. {i \in 1..(Len(q) - 1) : q[i + 1] = p} = {}
  <2> SUFFICES ASSUME NEW i \in 1..(Len(q) - 1), q[i + 1] = p PROVE FALSE
    OBVIOUS
  <2>1. i + 1 \in DOMAIN q
    BY <1>1
  <2> QED
    BY <2>1
<1> QED
  BY <1>2, <1>3, <1>4 DEF Removed

(* scheduler_remove takes out the process it is given, wherever it waits. *)
LEMMA RemovedIs ==
  ASSUME NEW l, NEW q, Holds(l, q), NEW k \in DOMAIN q
  PROVE  Holds(Removed(l, q[k]), Cut(q, k))
<1>1. /\ l \in Links /\ q \in Seq(All) /\ Once(q) /\ Len(q) \in Nat /\ Len(q) > 0
      /\ DOMAIN q = 1..Len(q) /\ Nil \notin All /\ q # <<>>
      /\ 1 \in DOMAIN q /\ Len(q) \in DOMAIN q /\ q[1] \in All /\ q[Len(q)] \in All
  BY SizesAssumption DEF Holds, All, Procs, Idle, Nil
<1>2. l.head = q[1] /\ l.tail = q[Len(q)] /\ ListSeq(l) = q
  BY <1>1, ListSeqIs DEF Holds
<1>3. PICK r : r = Cut(q, k)
  OBVIOUS
<1>4. /\ r \in Seq(All) /\ Len(r) = Len(q) - 1 /\ DOMAIN r = 1..(Len(q) - 1)
      /\ \A i \in 1..(Len(q) - 1) : r[i] = IF i < k THEN q[i] ELSE q[i + 1]
  <2>1. /\ r \in Seq(All) /\ Len(r) = Len(q) - 1
        /\ \A i \in 1..(Len(q) - 1) : r[i] = IF i < k THEN q[i] ELSE q[i + 1]
    BY <1>1, <1>3, CutIs
  <2> QED
    BY <2>1
<1>5. Once(r)
  <2> DEFINE from(i) == IF i < k THEN i ELSE i + 1
  <2>1. \A i \in DOMAIN r : from(i) \in DOMAIN q /\ r[i] = q[from(i)]
    BY <1>1, <1>4
  <2>2. \A i, j \in DOMAIN r : from(i) = from(j) => i = j
    BY <1>1, <1>4
  <2> HIDE DEF from
  <2> QED
    BY <1>1, <2>1, <2>2 DEF Once
<1>6. l.next \in [All -> All \union {Nil}] /\ l.tail \in All
  BY <1>1, <1>2 DEF Links
<1>7. /\ l.next[q[k]] = IF k = Len(q) THEN Nil ELSE q[k + 1]
      /\ q[k] \in All
  BY <1>1 DEF Holds
<1>8. r = <<>> <=> Len(q) = 1
  BY <1>1, <1>4
<1>9. CASE k = 1
  <2>1. ASSUME NEW h, NEW t
        PROVE  [l EXCEPT !.head = h, !.tail = t] = [head |-> h, tail |-> t, next |-> l.next]
    BY <1>1, Assigned
  <2>2. Removed(l, q[k]) = [head |-> l.next[q[1]],
                            tail |-> IF q[Len(q)] = q[1] THEN Nil ELSE q[Len(q)],
                            next |-> l.next]
    BY <1>2, <1>9, <2>1 DEF Removed
  <2>3. q[Len(q)] = q[1] <=> Len(q) = 1
    BY <1>1 DEF Once
  <2>4. Removed(l, q[k]) \in Links
    BY <1>1, <1>6, <2>2 DEF Links
  <2>5. /\ Removed(l, q[k]).head = IF Len(q) = 1 THEN Nil ELSE q[2]
        /\ Removed(l, q[k]).tail = IF Len(q) = 1 THEN Nil ELSE q[Len(q)]
        /\ Removed(l, q[k]).next = l.next
    BY <1>7, <1>9, <2>2, <2>3
  <2>6. Len(q) # 1 => r[1] = q[2] /\ r[Len(r)] = q[Len(q)]
    <3> SUFFICES ASSUME Len(q) # 1 PROVE r[1] = q[2] /\ r[Len(r)] = q[Len(q)]
      OBVIOUS
    <3>1. 1 \in 1..(Len(q) - 1) /\ Len(r) \in 1..(Len(q) - 1) /\ Len(r) + 1 = Len(q)
      BY <1>1, <1>4
    <3> QED
      BY <1>4, <1>9, <3>1
  <2>7. \A i \in DOMAIN r : l.next[r[i]] = IF i = Len(r) THEN Nil ELSE r[i + 1]
    <3> SUFFICES ASSUME NEW i \in DOMAIN r
                 PROVE  l.next[r[i]] = IF i = Len(r) THEN Nil ELSE r[i + 1]
      OBVIOUS
    <3>1. i + 1 \in DOMAIN q /\ r[i] = q[i + 1] /\ (i + 1) + 1 = i + 2
      BY <1>1, <1>4, <1>9
    <3>2. l.next[q[i + 1]] = IF i + 1 = Len(q) THEN Nil ELSE q[(i + 1) + 1]
      BY <3>1 DEF Holds
    <3>3. (i + 1 = Len(q)) <=> (i = Len(r))
      BY <1>1, <1>4
    <3>4. i # Len(r) => i + 1 \in DOMAIN r /\ r[i + 1] = q[i + 2]
      BY <1>1, <1>4, <1>9
    <3> QED
      BY <3>1, <3>2, <3>3, <3>4
  <2>8. Holds(Removed(l, q[k]), r)
    BY <1>4, <1>5, <1>8, <2>4, <2>5, <2>6, <2>7 DEF Holds
  <2> QED
    BY <1>3, <2>8
<1>10. CASE k # 1
  <2> DEFINE p == q[k]
             prev == q[k - 1]
  <2>1. k - 1 \in DOMAIN q /\ k - 1 \in 1..(Len(q) - 1) /\ (k - 1) + 1 = k
    BY <1>1, <1>10
  <2>2. l.head # p /\ prev \in All /\ prev # p
    BY <1>1, <1>2, <1>10, <2>1 DEF Once
  <2>3. {i \in 1..(Len(q) - 1) : q[i + 1] = p} = {k - 1}
    <3>1. ASSUME NEW i \in 1..(Len(q) - 1), q[i + 1] = p PROVE i = k - 1
      <4>1. i + 1 \in DOMAIN q
        BY <1>1
      <4>2. i + 1 = k
        BY <1>1, <3>1, <4>1 DEF Once
      <4> QED
        BY <2>1, <4>2
    <3> QED
      BY <2>1, <3>1
  <2>4. Removed(l, p) = [l EXCEPT !.next[prev] = l.next[p],
                                  !.tail = IF @ = p THEN prev ELSE @]
    <3>1. (CHOOSE i \in {k - 1} : TRUE) = k - 1
      OBVIOUS
    <3>2. q[CHOOSE i \in {k - 1} : TRUE] = prev /\ {k - 1} # {}
      BY <3>1
    <3> HIDE DEF p, prev
    <3> QED
      BY <1>2, <2>2, <2>3, <3>2 DEF Removed
  <2>5. Removed(l, p) = [head |-> l.head,
                         tail |-> IF q[Len(q)] = p THEN prev ELSE q[Len(q)],
                         next |-> [l.next EXCEPT ![prev] = l.next[p]]]
    <3> HIDE DEF p, prev
    <3>1. ASSUME NEW n, NEW t
          PROVE  [l EXCEPT !.next = n, !.tail = t]
                 = [head |-> l.head, tail |-> t, next |-> n]
      BY <1>1, Assigned
    <3>2. ASSUME NEW n, NEW t
          PROVE  [l EXCEPT !.next[prev] = n, !.tail = t]
                 = [l EXCEPT !.next = [l.next EXCEPT ![prev] = n], !.tail = t]
      OBVIOUS
    <3> QED
      BY <1>2, <2>4, <3>1, <3>2
  <2>6. p \in All /\ l.next[p] = IF k = Len(q) THEN Nil ELSE q[k + 1]
    BY <1>7
  <2>7. q[Len(q)] = p <=> k = Len(q)
    BY <1>1 DEF Once
  <2>8. Removed(l, p) \in Links
    <3> HIDE DEF p, prev
    <3>1. l.next[p] \in All \union {Nil}
      BY <1>6, <2>6
    <3> QED
      BY <1>1, <1>2, <1>6, <2>2, <2>5, <3>1 DEF Links
  <2>9. /\ Removed(l, p).head = q[1]
        /\ Removed(l, p).tail = IF k = Len(q) THEN q[k - 1] ELSE q[Len(q)]
        /\ Removed(l, p).next = [l.next EXCEPT ![prev] = l.next[p]]
    BY <1>2, <2>5, <2>7
  <2>10. /\ Removed(l, p).next[prev] = IF k = Len(q) THEN Nil ELSE q[k + 1]
         /\ \A i \in DOMAIN q : i # k - 1 => Removed(l, p).next[q[i]] = l.next[q[i]]
    <3>1. \A i \in DOMAIN q : i # k - 1 => q[i] \in All /\ q[i] # prev
      BY <1>1, <2>1 DEF Once
    <3> HIDE DEF p, prev
    <3> QED
      BY <1>6, <2>2, <2>6, <2>9, <3>1
  <2>11. r # <<>> /\ r[1] = q[1] /\ r[Len(r)] = IF k = Len(q) THEN q[k - 1] ELSE q[Len(q)]
    <3>1. 1 \in 1..(Len(q) - 1) /\ Len(r) \in 1..(Len(q) - 1) /\ Len(r) + 1 = Len(q)
          /\ 1 < k /\ (k = Len(q) => Len(r) = k - 1 /\ Len(r) < k) /\ (k # Len(q) => ~(Len(r) < k))
      BY <1>1, <1>4, <1>10
    <3> QED
      BY <1>4, <3>1
  <2>12. \A i \in DOMAIN r : Removed(l, p).next[r[i]] = IF i = Len(r) THEN Nil ELSE r[i + 1]
    <3> SUFFICES ASSUME NEW i \in DOMAIN r
                 PROVE  Removed(l, p).next[r[i]] = IF i = Len(r) THEN Nil ELSE r[i + 1]
      OBVIOUS
    <3> HIDE DEF p, prev
    <3>1. CASE i < k - 1
      <4>1. i \in DOMAIN q /\ i # k - 1 /\ i # Len(q) /\ r[i] = q[i] /\ i # Len(r)
            /\ i + 1 \in DOMAIN r /\ r[i + 1] = q[i + 1]
        BY <1>1, <1>4, <3>1
      <4>2. l.next[q[i]] = q[i + 1]
        BY <4>1 DEF Holds
      <4> QED
        BY <2>10, <4>1, <4>2
    <3>2. CASE i = k - 1
      <4>1. r[i] = prev
        BY <1>1, <1>4, <3>2 DEF prev
      <4>2. i = Len(r) <=> k = Len(q)
        BY <1>1, <1>4, <2>1, <3>2
      <4>3. i # Len(r) => r[i + 1] = q[k + 1]
        BY <1>1, <1>4, <2>1, <3>2
      <4> QED
        BY <2>10, <4>1, <4>2, <4>3
    <3>3. CASE i > k - 1
      <4>1. i + 1 \in DOMAIN q /\ i + 1 # k - 1 /\ r[i] = q[i + 1] /\ (i + 1) + 1 = i + 2
        BY <1>1, <1>4, <3>3
      <4>2. l.next[q[i + 1]] = IF i + 1 = Len(q) THEN Nil ELSE q[(i + 1) + 1]
        BY <4>1 DEF Holds
      <4>3. (i + 1 = Len(q)) <=> (i = Len(r))
        BY <1>1, <1>4
      <4>4. i # Len(r) => i + 1 \in DOMAIN r /\ r[i + 1] = q[i + 2]
        BY <1>1, <1>4, <3>3
      <4> QED
        BY <2>10, <4>1, <4>2, <4>3, <4>4
    <3> QED
      BY <1>1, <1>4, <3>1, <3>2, <3>3
  <2>13. Holds(Removed(l, p), r)
    <3> HIDE DEF p, prev
    <3> QED
      BY <1>1, <1>4, <1>5, <2>8, <2>9, <2>11, <2>12 DEF Holds
  <2> QED
    BY <1>3, <2>13
<1> QED
  BY <1>9, <1>10

-----------------------------------------------------------------------------
(* The inductive invariant. *)

Listed == Holds(List, ListSeq(List))

\* The table names the living processes, idle first, each once; PIDs that
\* have not been handed out name nobody.
Tabled ==
  /\ process_table[0] = Idle
  /\ \A s, t \in Slots : process_table[s] = process_table[t] /\ process_table[s] # Nil => s = t
  /\ \A p \in Procs : state[p] # "absent" <=> \E s \in Slots : process_table[s] = p
  /\ \A p \in Procs : p >= next_pid => state[p] = "absent"

Live == {p \in Procs : state[p] # "absent"}

Counted == free_pages + 2 * Cardinality(Live) = Pages

\* The contexts that go on inside timer_handler, before its EOI.
Owing == {p \in All \ {current_process} : state[p] = "READY" /\ resume[p] = "tick"}

Owed == IF in_service THEN \E p \in All : Owing = {p} ELSE Owing = {}

IInv == TypeOK /\ Listed /\ RRP!IInv /\ Tabled /\ Counted /\ Owed

LEMMA NoIdle == /\ Idle \notin Procs /\ Idle \in All /\ Nil \notin All /\ 0 \in Slots
                /\ Slots \subseteq Nat /\ Procs \subseteq Nat
  BY SizesAssumption DEF Idle, Procs, All, Nil, Slots

(* What the invariant says of the ready queue and of the current process.  *)
LEMMA Facts ==
  ASSUME IInv
  PROVE  /\ Holds(List, ListSeq(List))
         /\ ListSeq(List) \in Seq(All)
         /\ current_process \in All
         /\ \A i \in DOMAIN ListSeq(List) : /\ ListSeq(List)[i] \in All
                                            /\ ListSeq(List)[i] # current_process
                                            /\ state[ListSeq(List)[i]] = "READY"
         /\ state \in [All -> {"absent", "READY", "RUNNING", "TERMINATED"}]
         /\ state[Idle] \in {"READY", "RUNNING"}
         /\ state[current_process] \in {"READY", "RUNNING"}
         /\ \A p \in All : state[p] = "RUNNING" => p = current_process
<1>1. RRP!QueueTypeOK /\ RRP!QueueOnce /\ RRP!CpuToTheLiving
  BY DEF IInv, RRP!IInv
<1>2. Holds(List, ListSeq(List)) /\ ListSeq(List) \in Seq(All) /\ TypeOK
  BY DEF IInv, Listed, Holds
<1>3. \A i \in DOMAIN ListSeq(List) : /\ ListSeq(List)[i] \in All
                                     /\ ListSeq(List)[i] # current_process
                                     /\ state[ListSeq(List)[i]] = "READY"
  BY <1>1, <1>2 DEF RRP!QueueOnce, RRP!Queued
<1>4. /\ state[Idle] \in {"READY", "RUNNING"}
      /\ state[current_process] \in {"READY", "RUNNING"}
      /\ \A p \in All : state[p] = "RUNNING" => p = current_process
  BY <1>1 DEF RRP!QueueTypeOK, RRP!CpuToTheLiving, RRP!All, All
<1> QED
  BY <1>2, <1>3, <1>4 DEF TypeOK

(* A step that assigns the links of l leaves the queue that l holds.       *)
LEMMA Assigns ==
  ASSUME NEW l, NEW q, Holds(l, q), IsList(l)
  PROVE  Listed' /\ ListSeq(List)' = q
<1>1. l \in Links
  BY DEF Holds
<1>2. l = [head |-> l.head, tail |-> l.tail, next |-> l.next]
  BY <1>1 DEF Links
<1>3. List' = l
  BY <1>2 DEF List, IsList
<1>4. ListSeq(l) = q
  BY ListSeqIs
<1> QED
  BY <1>3, <1>4 DEF Listed

(* A step that leaves the links alone leaves the queue alone. *)
LEMMA Leaves ==
  ASSUME Listed, UNCHANGED list
  PROVE  Listed' /\ ListSeq(List)' = ListSeq(List)
<1>1. List' = List
  BY DEF List, list
<1> QED
  BY <1>1 DEF Listed

-----------------------------------------------------------------------------
(* scheduler_schedule entered with the queue q and the states st.          *)

Again(q, st) == IF st[current_process] = "RUNNING" THEN Append(q, current_process) ELSE q
Stopped(st) == IF st[current_process] = "RUNNING"
               THEN [st EXCEPT ![current_process] = "READY"] ELSE st
Chosen(q) == IF q = <<>> THEN Idle ELSE Head(q)
Left(q) == IF q = <<>> THEN q ELSE Tail(q)

LEMMA Reschedules ==
  ASSUME Tabled, current_process \in All, NEW l, NEW q, Holds(l, q), NEW st, NEW via,
         \A i \in DOMAIN q : q[i] # current_process, Reschedule(l, st, via)
  PROVE  /\ Listed'
         /\ ListSeq(List)' = Left(Again(q, st))
         /\ current_process' = Chosen(Again(q, st))
         /\ state' = IF current_process' = current_process THEN Stopped(st)
                     ELSE [Stopped(st) EXCEPT ![current_process'] = "RUNNING"]
         /\ UNCHANGED tables
         /\ IF current_process' = current_process
            THEN /\ UNCHANGED <<resume, rsp, astray>>
                 /\ in_service' = IF via = "tick" THEN FALSE ELSE in_service
            ELSE SwitchTo(current_process', via)
<1> DEFINE again == st[current_process] = "RUNNING"
           l1    == IF again THEN Added(l, current_process) ELSE l
           r     == Again(q, st)
           new   == IF l1.head = Nil THEN process_table[0] ELSE l1.head
<1>1. Holds(l1, r)
  <2>1. Holds(Added(l, current_process), Append(q, current_process))
    BY AddedIs
  <2> QED
    BY <2>1 DEF Again
<1>2. /\ IsList(IF l1.head = Nil THEN l1 ELSE Popped(l1))
      /\ \/ /\ new = current_process
            /\ state' = Stopped(st)
            /\ in_service' = IF via = "tick" THEN FALSE ELSE in_service
            /\ UNCHANGED <<current_process, resume, rsp, astray>>
         \/ /\ new # current_process
            /\ state' = [Stopped(st) EXCEPT ![new] = "RUNNING"]
            /\ SwitchTo(new, via)
      /\ UNCHANGED tables
  BY DEF Reschedule, Stopped
<1> HIDE DEF l1, r
<1>3. CASE r = <<>>
  <2>1. l1.head = Nil
    BY <1>1, <1>3 DEF Holds
  <2>2. new = Chosen(r) /\ Left(r) = r
    BY <2>1, <1>3 DEF Tabled, Chosen, Left
  <2>3. IsList(l1)
    BY <1>2, <2>1
  <2>4. Listed' /\ ListSeq(List)' = Left(r)
    BY <1>1, <2>2, <2>3, Assigns
  <2> HIDE DEF new
  <2>5. current_process' = new
    BY <1>2 DEF SwitchTo, Switched
  <2> QED
    BY <1>2, <2>2, <2>4, <2>5 DEF r
<1>4. CASE r # <<>>
  <2>1. l1.head = Head(r) /\ l1.head \in All /\ Holds(Popped(l1), Tail(r))
    BY <1>1, <1>4, PoppedIs
  <2>2. l1.head # Nil
    BY <2>1, NoIdle
  <2>3. new = Chosen(r) /\ Left(r) = Tail(r)
    BY <2>1, <2>2, <1>4 DEF Chosen, Left
  <2>4. IsList(Popped(l1))
    BY <1>2, <2>2
  <2>5. Listed' /\ ListSeq(List)' = Left(r)
    BY <2>1, <2>3, <2>4, Assigns
  <2> HIDE DEF new
  <2>6. current_process' = new
    BY <1>2 DEF SwitchTo, Switched
  <2> QED
    BY <1>2, <2>3, <2>5, <2>6 DEF r
<1> QED
  BY <1>3, <1>4

-----------------------------------------------------------------------------
(* Each action is the action of RoundRobin of the same purpose. *)

LEMMA CreateIsCreate ==
  ASSUME IInv, ProcessCreate
  PROVE  /\ Listed'
         /\ \/ next_pid \in Procs /\ RRP!Create(next_pid)
            \/ UNCHANGED RRP!queueVars
<1>1. Listed' /\ ListSeq(List)' = ListSeq(List)
  BY Leaves DEF IInv, ProcessCreate
<1>2. next_pid \in Procs /\ state[next_pid] = "absent"
  BY SizesAssumption DEF IInv, TypeOK, Tabled, ProcessCreate, Procs
<1>3. current_process' = current_process
  BY DEF ProcessCreate
<1>4. state' = state \/ state' = [state EXCEPT ![next_pid] = "READY"]
  BY DEF ProcessCreate
<1> QED
  BY <1>1, <1>2, <1>3, <1>4 DEF RRP!Create, RRP!queueVars

LEMMA DestroyIsDestroy ==
  ASSUME IInv, NEW p \in Procs, ProcessDestroy(p)
  PROVE  Listed' /\ RRP!Destroy(p)
<1>1. Listed' /\ ListSeq(List)' = ListSeq(List)
  BY Leaves DEF IInv, ProcessDestroy
<1> QED
  BY <1>1 DEF ProcessDestroy, RRP!Destroy, cpu

LEMMA AddIsAdd ==
  ASSUME IInv, NEW p \in Procs, SchedulerAdd(p)
  PROVE  Listed' /\ RRP!Add(p)
<1>1. /\ state[p] = "READY" /\ p # current_process /\ p \notin Queued
      /\ IsList(Added(List, p)) /\ UNCHANGED <<current_process, state>>
  BY DEF SchedulerAdd, cpu
<1>2. p \in All /\ \A i \in DOMAIN ListSeq(List) : ListSeq(List)[i] # p
  BY <1>1 DEF All, Queued
<1>3. Holds(Added(List, p), Append(ListSeq(List), p))
  BY <1>2, AddedIs, Facts
<1>4. Listed' /\ ListSeq(List)' = Append(ListSeq(List), p)
  BY <1>1, <1>3, Assigns
<1>5. p \notin RRP!Queued
  BY <1>2 DEF RRP!Queued
<1> QED
  BY <1>1, <1>4, <1>5 DEF RRP!Add, RRP!Enqueued

LEMMA RemoveIsRemove ==
  ASSUME IInv, NEW p \in Procs, SchedulerRemove(p)
  PROVE  Listed' /\ RRP!Withdraw(p)
<1>1. IsList(Removed(List, p)) /\ UNCHANGED <<current_process, state>> /\ p \in Queued
  BY DEF SchedulerRemove, cpu
<1>2. PICK k \in DOMAIN ListSeq(List) : ListSeq(List)[k] = p
  BY <1>1 DEF Queued
<1>3. Holds(Removed(List, p), Cut(ListSeq(List), k))
  BY <1>2, RemovedIs, Facts
<1>4. Listed' /\ ListSeq(List)' = Cut(ListSeq(List), k)
  BY <1>1, <1>3, Assigns
<1> QED
  BY <1>1, <1>2, <1>4 DEF RRP!Withdraw, RRP!WithoutEntry, Cut

(* scheduler_schedule, entered as timer_handler and sys_yield enter it. *)
LEMMA ScheduleReschedules ==
  ASSUME IInv, NEW via, Reschedule(List, state, via)
  PROVE  /\ Listed'
         /\ ListSeq(List)' = Left(Again(ListSeq(List), state))
         /\ current_process' = Chosen(Again(ListSeq(List), state))
         /\ state' = IF current_process' = current_process THEN Stopped(state)
                     ELSE [Stopped(state) EXCEPT ![current_process'] = "RUNNING"]
         /\ UNCHANGED tables
         /\ IF current_process' = current_process
            THEN /\ UNCHANGED <<resume, rsp, astray>>
                 /\ in_service' = IF via = "tick" THEN FALSE ELSE in_service
            ELSE SwitchTo(current_process', via)
<1>1. PICK l, q, st : l = List /\ q = ListSeq(List) /\ st = state
  OBVIOUS
<1>2. /\ Tabled /\ current_process \in All /\ Holds(l, q)
      /\ \A i \in DOMAIN q : q[i] # current_process
      /\ Reschedule(l, st, via)
  BY <1>1, Facts DEF IInv
<1>3. /\ Listed'
      /\ ListSeq(List)' = Left(Again(q, st))
      /\ current_process' = Chosen(Again(q, st))
      /\ state' = IF current_process' = current_process THEN Stopped(st)
                  ELSE [Stopped(st) EXCEPT ![current_process'] = "RUNNING"]
      /\ UNCHANGED tables
      /\ IF current_process' = current_process
         THEN /\ UNCHANGED <<resume, rsp, astray>>
              /\ in_service' = IF via = "tick" THEN FALSE ELSE in_service
         ELSE SwitchTo(current_process', via)
  BY <1>2, Reschedules
<1> QED
  BY <1>1, <1>3

(* Whoever gets the CPU was READY, and whoever had it is READY now.        *)
LEMMA Turns ==
  ASSUME IInv, NEW via, Reschedule(List, state, via)
  PROVE  /\ current_process' \in All
         /\ current_process' # current_process => state[current_process'] = "READY"
         /\ state' \in [All -> {"absent", "READY", "RUNNING", "TERMINATED"}]
         /\ \A p \in All : state'[p] = IF p = current_process THEN "READY"
                                       ELSE IF p = current_process' THEN "RUNNING"
                                       ELSE state[p]
<1> DEFINE q   == ListSeq(List)
           r   == Again(q, state)
           new == current_process'
<1>1. /\ new = Chosen(r)
      /\ state' = IF new = current_process THEN Stopped(state)
                  ELSE [Stopped(state) EXCEPT ![new] = "RUNNING"]
  BY ScheduleReschedules
<1>2. /\ q \in Seq(All) /\ current_process \in All /\ Idle \in All
      /\ \A i \in DOMAIN q : q[i] \in All /\ q[i] # current_process /\ state[q[i]] = "READY"
      /\ state \in [All -> {"absent", "READY", "RUNNING", "TERMINATED"}]
      /\ state[Idle] \in {"READY", "RUNNING"}
      /\ state[current_process] \in {"READY", "RUNNING"}
      /\ \A p \in All : state[p] = "RUNNING" => p = current_process
  BY Facts, NoIdle
<1>3. new \in All /\ (new # current_process => state[new] = "READY")
  <2> HIDE DEF q
  <2>1. CASE r = <<>>
    BY <1>1, <1>2, <2>1 DEF Chosen
  <2>2. CASE r # <<>> /\ q = <<>>
    <3>1. r = <<current_process>>
      BY <2>2 DEF Again
    <3>2. Head(r) = current_process
      BY <3>1
    <3> QED
      BY <1>1, <1>2, <2>2, <3>2 DEF Chosen
  <2>3. CASE r # <<>> /\ q # <<>>
    <3>1. 1 \in DOMAIN q /\ Head(q) = q[1] /\ Head(Append(q, current_process)) = q[1]
      BY <1>2, <2>3
    <3>2. Head(r) = q[1]
      BY <3>1 DEF Again
    <3> HIDE DEF r
    <3> QED
      BY <1>1, <1>2, <2>3, <3>1, <3>2 DEF Chosen
  <2> QED
    BY <2>1, <2>2, <2>3
<1>4. /\ Stopped(state) \in [All -> {"absent", "READY", "RUNNING", "TERMINATED"}]
      /\ \A p \in All : Stopped(state)[p] = IF p = current_process THEN "READY" ELSE state[p]
  BY <1>2 DEF Stopped
<1> HIDE DEF new
<1> QED
  BY <1>1, <1>3, <1>4 DEF new

LEMMA ScheduleIsSchedule ==
  ASSUME IInv, NEW via, Reschedule(List, state, via)
  PROVE  Listed' /\ RRP!Schedule
<1> DEFINE r == Again(ListSeq(List), state)
<1>1. r = RRP!Requeued
  BY DEF Again, RRP!Requeued, RRP!Enqueued
<1>2. Stopped(state) = RRP!Preempted
  <2>1. current_process \in All /\ state \in [All -> {"absent", "READY", "RUNNING", "TERMINATED"}]
    BY Facts
  <2> QED
    BY <2>1 DEF Stopped, RRP!Preempted
<1>3. Chosen(r) = RRP!Elected(r) /\ Left(r) = RRP!Dequeued(r)
  BY DEF Chosen, Left, RRP!Elected, RRP!Dequeued
<1> QED
  BY <1>1, <1>2, <1>3, ScheduleReschedules DEF RRP!Schedule

\* The states sys_exit leaves.
Exiting == [state EXCEPT ![current_process] = "TERMINATED"]

LEMMA ExitReschedules ==
  ASSUME IInv, Exit
  PROVE  /\ Listed'
         /\ ListSeq(List)' = Left(ListSeq(List))
         /\ current_process' = Chosen(ListSeq(List))
         /\ current_process' # current_process
         /\ current_process' \in All
         /\ state' = [Exiting EXCEPT ![current_process'] = "RUNNING"]
         /\ UNCHANGED tables
         /\ SwitchTo(current_process', "call")
<1> DEFINE q == ListSeq(List)
<1>1. /\ Holds(List, q) /\ q \in Seq(All) /\ current_process \in All
      /\ \A i \in DOMAIN q : q[i] \in All /\ q[i] # current_process
      /\ state \in [All -> {"absent", "READY", "RUNNING", "TERMINATED"}]
  BY Facts
<1>2. Removed(List, current_process) = List
  BY <1>1, RemovedNone
<1>3. Reschedule(List, Exiting, "call") /\ current_process # Idle
  BY <1>2 DEF Exit, Exiting
<1>4. Exiting[current_process] = "TERMINATED"
  BY <1>1 DEF Exiting
<1>5. Again(q, Exiting) = q /\ Stopped(Exiting) = Exiting
  BY <1>4 DEF Again, Stopped
<1>6. /\ Listed'
      /\ ListSeq(List)' = Left(q)
      /\ current_process' = Chosen(q)
      /\ state' = IF current_process' = current_process THEN Exiting
                  ELSE [Exiting EXCEPT ![current_process'] = "RUNNING"]
      /\ UNCHANGED tables
      /\ IF current_process' = current_process
         THEN /\ UNCHANGED <<resume, rsp, astray>>
              /\ in_service' = IF "call" = "tick" THEN FALSE ELSE in_service
         ELSE SwitchTo(current_process', "call")
  <2>1. PICK l, p, st : l = List /\ p = q /\ st = Exiting
    OBVIOUS
  <2>2. /\ Tabled /\ current_process \in All /\ Holds(l, p)
        /\ \A i \in DOMAIN p : p[i] # current_process
        /\ Reschedule(l, st, "call")
    BY <2>1, <1>1, <1>3 DEF IInv
  <2>3. /\ Listed'
        /\ ListSeq(List)' = Left(Again(p, st))
        /\ current_process' = Chosen(Again(p, st))
        /\ state' = IF current_process' = current_process THEN Stopped(st)
                    ELSE [Stopped(st) EXCEPT ![current_process'] = "RUNNING"]
        /\ UNCHANGED tables
        /\ IF current_process' = current_process
           THEN /\ UNCHANGED <<resume, rsp, astray>>
                /\ in_service' = IF "call" = "tick" THEN FALSE ELSE in_service
           ELSE SwitchTo(current_process', "call")
    BY <2>2, Reschedules
  <2>4. Again(p, st) = q /\ Stopped(st) = Exiting
    BY <2>1, <1>5
  <2> HIDE DEF q
  <2> QED
    BY <2>3, <2>4
<1>7. Chosen(q) # current_process /\ Chosen(q) \in All
  <2>1. CASE q = <<>>
    BY <1>3, <2>1, NoIdle DEF Chosen
  <2>2. CASE q # <<>>
    <3>1. 1 \in DOMAIN q /\ Head(q) = q[1]
      BY <1>1, <2>2
    <3> QED
      BY <1>1, <2>2, <3>1 DEF Chosen
  <2> QED
    BY <2>1, <2>2
<1> QED
  BY <1>6, <1>7

LEMMA ExitIsExit ==
  ASSUME IInv, Exit
  PROVE  Listed' /\ RRP!Exit
<1> DEFINE q == ListSeq(List)
<1>1. Chosen(q) = RRP!Elected(q) /\ Left(q) = RRP!Dequeued(q)
  BY DEF Chosen, Left, RRP!Elected, RRP!Dequeued
<1>2. [Exiting EXCEPT ![current_process'] = "RUNNING"]
      = [state EXCEPT ![current_process] = "TERMINATED", ![current_process'] = "RUNNING"]
  BY DEF Exiting
<1>3. current_process # Idle
  BY DEF Exit
<1> QED
  BY <1>1, <1>2, <1>3, ExitReschedules DEF RRP!Exit, RRP!Terminate

(* Every step is a step of RoundRobin, or one it does not see. *)
LEMMA StepIsStep ==
  ASSUME IInv, [ClientNext]_vars
  PROVE  Listed' /\ [RRP!QueueNext]_RRP!queueVars
<1>1. CASE ProcessCreate
  BY <1>1, CreateIsCreate DEF RRP!QueueNext
<1>2. ASSUME NEW p \in Procs, ProcessDestroy(p) PROVE Listed' /\ RRP!QueueNext
  BY <1>2, DestroyIsDestroy DEF RRP!QueueNext
<1>3. ASSUME NEW p \in Procs, SchedulerAdd(p) PROVE Listed' /\ RRP!QueueNext
  BY <1>3, AddIsAdd DEF RRP!QueueNext
<1>4. ASSUME NEW p \in Procs, SchedulerRemove(p) PROVE Listed' /\ RRP!QueueNext
  BY <1>4, RemoveIsRemove DEF RRP!QueueNext
<1>5. CASE Tick \/ Yield
  BY <1>5, ScheduleIsSchedule DEF Tick, Yield, RRP!QueueNext
<1>6. CASE Exit
  BY <1>6, ExitIsExit DEF RRP!QueueNext
<1>7. CASE UNCHANGED vars
  <2>1. UNCHANGED <<list, current_process, state>>
    BY <1>7 DEF vars, cpu
  <2>2. Listed' /\ ListSeq(List)' = ListSeq(List)
    BY <2>1, Leaves DEF IInv
  <2> QED
    BY <2>1, <2>2 DEF RRP!queueVars
<1> QED
  BY <1>1, <1>2, <1>3, <1>4, <1>5, <1>6, <1>7 DEF ClientNext

(* So the invariant of RoundRobin holds of the list. *)
LEMMA RoundRobinKept ==
  ASSUME IInv, [ClientNext]_vars
  PROVE  RRP!IInv'
<1>1. RRP!IInv /\ [RRP!QueueNext]_RRP!queueVars
  BY StepIsStep DEF IInv
<1>2. ASSUME NEW p \in Procs, RRP!Create(p) PROVE RRP!IInv'
  BY <1>1, <1>2, NoIdle, RRP!CreateStep
<1>3. ASSUME NEW p \in Procs, RRP!Add(p) PROVE RRP!IInv'
  BY <1>1, <1>3, NoIdle, RRP!AddStep
<1>4. ASSUME NEW p \in Procs, RRP!Withdraw(p) PROVE RRP!IInv'
  BY <1>1, <1>4, NoIdle, RRP!RemoveStep
<1>5. ASSUME NEW p \in Procs, RRP!Destroy(p) PROVE RRP!IInv'
  BY <1>1, <1>5, NoIdle, RRP!DestroyStep
<1>6. CASE RRP!Schedule
  BY <1>1, <1>6, NoIdle, RRP!ScheduleStep
<1>7. CASE RRP!Exit
  BY <1>1, <1>7, NoIdle, RRP!ExitStep
<1>8. CASE UNCHANGED RRP!queueVars
  BY <1>1, <1>8 DEF RRP!queueVars, RRP!IInv, RRP!QueueTypeOK, RRP!QueueOnce, RRP!CpuToTheLiving, RRP!Queued
<1> QED
  BY <1>1, <1>2, <1>3, <1>4, <1>5, <1>6, <1>7, <1>8 DEF RRP!QueueNext

-----------------------------------------------------------------------------
(* The table, the stacks and the EOI. *)

LEMMA FewLive == IsFiniteSet(Live) /\ Cardinality(Live) \in Nat
<1>1. IsFiniteSet(Procs) /\ Live \in SUBSET Procs
  BY SizesAssumption, FS_Interval DEF Procs, Live
<1> QED
  BY <1>1, FS_Subset, FS_CardinalityType

(* The stacks of the living processes are what is missing from Pages.      *)
LEMMA PagesLeft ==
  ASSUME free_pages \in Nat, Counted
  PROVE  free_pages \in 0..Pages
<1>1. PICK n \in Nat : n = Cardinality(Live)
  BY FewLive
<1> QED
  BY <1>1, SizesAssumption DEF Counted

\* The parts of TypeOK the list does not imply.
RestTyped == /\ process_table \in [Slots -> All \union {Nil}]
             /\ next_pid \in 1..(MaxPid + 1)
             /\ current_process \in All
             /\ state \in [All -> {"absent", "READY", "RUNNING", "TERMINATED"}]
             /\ resume \in [All -> {"fresh", "tick", "call"}]
             /\ rsp \in [All -> {0, SavedRsp("tick"), SavedRsp("call")}]
             /\ {in_service, astray} \subseteq BOOLEAN
             /\ free_pages \in Nat

LEMMA Typed == RestTyped /\ Listed /\ Counted => TypeOK
<1> SUFFICES ASSUME RestTyped, Listed, Counted PROVE TypeOK
  OBVIOUS
<1>1. List \in Links
  BY DEF Listed, Holds
<1>2. /\ List.head = ready_queue_head /\ List.tail = ready_queue_tail /\ List.next = next
  BY DEF List
<1>3. /\ ready_queue_head \in All \union {Nil} /\ ready_queue_tail \in All \union {Nil}
      /\ next \in [All -> All \union {Nil}]
  BY <1>1, <1>2 DEF Links
<1>4. free_pages \in 0..Pages
  BY PagesLeft DEF RestTyped
<1> QED
  BY <1>3, <1>4 DEF RestTyped, TypeOK

LEMMA TypeOKIsTyped == TypeOK => RestTyped
  BY SizesAssumption DEF TypeOK, RestTyped

(* A step that keeps the table, the page count and who is living.          *)
LEMMA TableKept ==
  ASSUME Tabled, Counted, UNCHANGED tables,
         \A p \in Procs : state'[p] = "absent" <=> state[p] = "absent"
  PROVE  Tabled' /\ Counted'
<1>1. Live' = Live
  BY DEF Live
<1>2. Counted'
  BY <1>1 DEF Counted, tables
<1>3. Tabled'
  BY DEF Tabled, tables
<1> QED
  BY <1>2, <1>3

LEMMA CreateKeeps ==
  ASSUME IInv, ProcessCreate
  PROVE  RestTyped' /\ Tabled' /\ Counted' /\ Owed'
<1>1. TypeOK /\ Tabled /\ Counted /\ Owed /\ RestTyped
  BY TypeOKIsTyped DEF IInv
<1>2. /\ next_pid \in Procs /\ next_pid' = next_pid + 1 /\ next_pid' \in 1..(MaxPid + 1)
      /\ state[next_pid] = "absent" /\ next_pid \in All /\ next_pid # Nil
      /\ UNCHANGED <<current_process, in_service, astray>>
  BY <1>1, SizesAssumption DEF ProcessCreate, TypeOK, Procs, Tabled, All, Nil
<1>3. CASE StacksGivenBack /\ UNCHANGED <<process_table, state, resume, rsp>>
  <2>1. free_pages' = free_pages
    BY <1>3 DEF StacksGivenBack
  <2>2. Live' = Live /\ Owing' = Owing
    BY <1>2, <1>3 DEF Live, Owing
  <2>3. Tabled'
    <3>1. \A p \in Procs : p >= next_pid + 1 => p >= next_pid
      BY <1>1, NoIdle DEF TypeOK
    <3> QED
      BY <1>1, <1>2, <1>3, <3>1 DEF Tabled
  <2>4. RestTyped'
    BY <1>1, <1>2, <1>3, <2>1 DEF RestTyped
  <2>5. Counted' /\ Owed'
    BY <1>1, <1>2, <2>1, <2>2 DEF Counted, Owed
  <2> QED
    BY <2>3, <2>4, <2>5
<1>4. ASSUME NEW slot \in FreeSlots, free_pages >= 2, free_pages' = free_pages - 2,
             process_table' = [process_table EXCEPT ![slot] = next_pid],
             state' = [state EXCEPT ![next_pid] = "READY"],
             resume' = [resume EXCEPT ![next_pid] = "fresh"],
             rsp' = [rsp EXCEPT ![next_pid] = 0]
      PROVE  RestTyped' /\ Tabled' /\ Counted' /\ Owed'
  <2>1. RestTyped'
    BY <1>1, <1>2, <1>4 DEF RestTyped, FreeSlots
  <2>2. Live' = Live \union {next_pid} /\ next_pid \notin Live
    BY <1>1, <1>2, <1>4, NoIdle DEF Live, TypeOK, All
  <2>3. Counted'
    <3>1. Cardinality(Live') = Cardinality(Live) + 1
      BY <2>2, FewLive, FS_AddElement
    <3>2. PICK n \in Nat : n = Cardinality(Live)
      BY FewLive
    <3> QED
      BY <1>1, <1>4, <3>1, <3>2 DEF Counted, RestTyped
  <2>4. Owed'
    <3>1. Owing' = Owing
      BY <1>1, <1>2, <1>4 DEF Owing, TypeOK
    <3> QED
      BY <1>1, <1>2, <3>1 DEF Owed
  <2>5. slot \in Slots /\ process_table[slot] = Nil /\ process_table \in [Slots -> All \union {Nil}]
    BY <1>1 DEF FreeSlots, TypeOK
  <2>6. \A s \in Slots : process_table'[s] = IF s = slot THEN next_pid ELSE process_table[s]
    BY <1>4, <2>5
  <2>7. \A s \in Slots : process_table[s] # next_pid
    BY <1>1, <1>2 DEF Tabled
  <2>8. process_table'[0] = Idle
    BY <1>1, <2>5, <2>6, NoIdle DEF Tabled
  <2>9. \A s, t \in Slots : process_table'[s] = process_table'[t] /\ process_table'[s] # Nil => s = t
    BY <1>1, <2>6, <2>7 DEF Tabled
  <2>10. \A p \in Procs : state'[p] = IF p = next_pid THEN "READY" ELSE state[p]
    BY <1>1, <1>2, <1>4 DEF TypeOK, All
  <2>11. \A p \in Procs : state'[p] # "absent" <=> \E s \in Slots : process_table'[s] = p
    <3> SUFFICES ASSUME NEW p \in Procs
                 PROVE  state'[p] # "absent" <=> \E s \in Slots : process_table'[s] = p
      OBVIOUS
    <3>1. CASE p = next_pid
      BY <2>5, <2>6, <2>10, <3>1
    <3>2. CASE p # next_pid
      <4>1. p # Nil
        BY NoIdle DEF All
      <4>2. (\E s \in Slots : process_table'[s] = p) <=> (\E s \in Slots : process_table[s] = p)
        BY <2>5, <2>6, <3>2, <4>1
      <4> QED
        BY <1>1, <2>10, <3>2, <4>2 DEF Tabled
    <3> QED
      BY <3>1, <3>2
  <2>12. \A p \in Procs : p >= next_pid' => state'[p] = "absent"
    <3>1. \A p \in Procs : p >= next_pid + 1 => p >= next_pid /\ p # next_pid
      BY <1>1, NoIdle DEF TypeOK
    <3> QED
      BY <1>1, <1>2, <2>10, <3>1 DEF Tabled
  <2>13. Tabled'
    BY <2>8, <2>9, <2>11, <2>12 DEF Tabled
  <2> QED
    BY <2>1, <2>3, <2>4, <2>13
<1>5. CASE ~(StacksGivenBack /\ UNCHANGED <<process_table, state, resume, rsp>>)
  <2> DEFINE slot == CHOOSE s \in FreeSlots : \A t \in FreeSlots : s <= t
  <2>1. /\ free_pages >= 2 /\ free_pages' = free_pages - 2
        /\ process_table' = [process_table EXCEPT ![slot] = next_pid]
        /\ state' = [state EXCEPT ![next_pid] = "READY"]
        /\ resume' = [resume EXCEPT ![next_pid] = "fresh"]
        /\ rsp' = [rsp EXCEPT ![next_pid] = 0]
        /\ FreeSlots # {}
    BY <1>5, Zenon DEF ProcessCreate
  <2>2. slot \in FreeSlots
    <3>1. FreeSlots \in SUBSET Nat
      BY NoIdle DEF FreeSlots
    <3>2. \E s \in FreeSlots : \A t \in FreeSlots : s <= t
      BY <2>1, <3>1, Least
    <3> QED
      BY <3>2
  <2> HIDE DEF slot
  <2> QED
    BY <1>4, <2>1, <2>2
<1> QED
  BY <1>3, <1>5

LEMMA DestroyKeeps ==
  ASSUME IInv, NEW p \in Procs, ProcessDestroy(p)
  PROVE  RestTyped' /\ Tabled' /\ Counted' /\ Owed'
<1>1. TypeOK /\ Tabled /\ Counted /\ Owed /\ RestTyped
  BY TypeOKIsTyped DEF IInv
<1>2. /\ state[p] = "TERMINATED" /\ p \in All /\ p # Idle /\ p # Nil /\ Idle # Nil
      /\ process_table' = [s \in Slots |-> IF process_table[s] = p THEN Nil ELSE process_table[s]]
      /\ free_pages' = free_pages + 2
      /\ state' = [state EXCEPT ![p] = "absent"]
      /\ UNCHANGED <<next_pid, current_process, resume, rsp, in_service, astray>>
  BY NoIdle DEF ProcessDestroy, cpu, All
<1>3. RestTyped'
  BY <1>1, <1>2 DEF RestTyped
<1>4. \A x \in All : state'[x] = IF x = p THEN "absent" ELSE state[x]
  BY <1>1, <1>2 DEF TypeOK
<1>5. Counted'
  <2>1. Live' = Live \ {p} /\ p \in Live
    BY <1>2, <1>4 DEF Live, All
  <2>2. Cardinality(Live') = Cardinality(Live) - 1
    BY <2>1, FewLive, FS_RemoveElement
  <2>3. PICK n \in Nat : n = Cardinality(Live)
    BY FewLive
  <2> QED
    BY <1>1, <1>2, <2>2, <2>3 DEF Counted, RestTyped
<1>6. Owed'
  <2>1. Owing' = Owing
    BY <1>1, <1>2, <1>4 DEF Owing
  <2> QED
    BY <1>1, <1>2, <2>1 DEF Owed
<1>7. Tabled'
  <2>1. \A s \in Slots : process_table'[s] = IF process_table[s] = p THEN Nil ELSE process_table[s]
    BY <1>2
  <2>2. process_table'[0] = Idle
    BY <1>1, <1>2, <2>1, NoIdle DEF Tabled
  <2>3. \A s, t \in Slots : process_table'[s] = process_table'[t] /\ process_table'[s] # Nil => s = t
    BY <1>1, <2>1 DEF Tabled
  <2>4. \A x \in Procs : state'[x] # "absent" <=> \E s \in Slots : process_table'[s] = x
    <3> SUFFICES ASSUME NEW x \in Procs
                 PROVE  state'[x] # "absent" <=> \E s \in Slots : process_table'[s] = x
      OBVIOUS
    <3>1. x # Nil /\ x \in All
      BY NoIdle DEF All
    <3>2. state[x] # "absent" <=> \E s \in Slots : process_table[s] = x
      BY <1>1 DEF Tabled
    <3>3. CASE x = p
      BY <1>4, <2>1, <3>1, <3>3
    <3>4. CASE x # p
      <4>1. \A s \in Slots : process_table'[s] = x <=> process_table[s] = x
        BY <2>1, <3>1, <3>4
      <4> QED
        BY <1>4, <3>1, <3>2, <3>4, <4>1
    <3> QED
      BY <3>3, <3>4
  <2>5. \A x \in Procs : x >= next_pid' => state'[x] = "absent"
    BY <1>1, <1>2, <1>4 DEF Tabled, All
  <2> QED
    BY <2>2, <2>3, <2>4, <2>5 DEF Tabled
<1> QED
  BY <1>3, <1>5, <1>6, <1>7

(* scheduler_add and scheduler_remove touch the links only, and so does    *)
(* a step that changes nothing.                                            *)
LEMMA LinksKeep ==
  ASSUME IInv, UNCHANGED <<tables, cpu, state>>
  PROVE  RestTyped' /\ Tabled' /\ Counted' /\ Owed'
<1>1. TypeOK /\ Tabled /\ Counted /\ Owed /\ RestTyped
  BY TypeOKIsTyped DEF IInv
<1>2. RestTyped'
  BY <1>1 DEF RestTyped, tables, cpu
<1>3. Tabled' /\ Counted'
  BY <1>1, TableKept
<1>4. Owing' = Owing
  BY DEF Owing, cpu
<1>5. Owed'
  BY <1>1, <1>4 DEF Owed, cpu
<1> QED
  BY <1>2, <1>3, <1>5

(* A switch: the old context is saved as resuming at via, and the new one, *)
(* which is READY, sends the EOI exactly if it is the one that owes it.    *)
LEMMA SwitchOwes ==
  ASSUME RestTyped, Owed, NEW new \in All, new # current_process, state[new] = "READY",
         NEW via \in {"tick", "call"}, via = "tick" => ~in_service,
         SwitchTo(new, via),
         \A p \in All : p # new /\ p # current_process => state'[p] = state[p],
         via = "tick" => state'[current_process] = "READY"
  PROVE  Owed'
<1>1. /\ current_process' = new
      /\ resume' = [resume EXCEPT ![current_process] = via]
      /\ resume \in [All -> {"fresh", "tick", "call"}] /\ current_process \in All
      /\ in_service \in BOOLEAN
  BY DEF SwitchTo, Switched, RestTyped
<1>2. in_service' = IF resume[new] = "tick" THEN FALSE ELSE (via = "tick") \/ in_service
  BY DEF SwitchTo, Switched
<1>3. Owing' = (Owing \ {new}) \union (IF via = "tick" THEN {current_process} ELSE {})
  <2>1. Owing' = {p \in All \ {new} : state'[p] = "READY" /\ resume'[p] = "tick"}
    BY <1>1 DEF Owing
  <2>2. resume'[current_process] = via
    BY <1>1
  <2>3. \A p \in All : p # current_process => resume'[p] = resume[p]
    BY <1>1
  <2>4. ASSUME NEW p \in All, p # new, p # current_process
        PROVE  p \in Owing' <=> p \in Owing
    BY <2>1, <2>3, <2>4 DEF Owing
  <2>5. current_process \in Owing' <=> via = "tick"
    BY <1>1, <2>1, <2>2
  <2>6. new \notin Owing' /\ Owing' \subseteq All /\ Owing \subseteq All /\ current_process \notin Owing
    BY <2>1 DEF Owing
  <2> QED
    BY <1>1, <2>4, <2>5, <2>6
<1>4. new \in Owing <=> resume[new] = "tick"
  BY DEF Owing
<1>5. CASE via = "tick"
  <2>1. Owing = {} /\ resume[new] # "tick"
    BY <1>1, <1>4, <1>5 DEF Owed
  <2> QED
    BY <1>1, <1>2, <1>3, <1>5, <2>1 DEF Owed
<1>6. CASE via # "tick" /\ resume[new] = "tick"
  <2>1. Owing = {new} /\ ~in_service'
    BY <1>2, <1>4, <1>6 DEF Owed
  <2> QED
    BY <1>3, <1>6, <2>1 DEF Owed
<1>7. CASE via # "tick" /\ resume[new] # "tick"
  <2>1. Owing' = Owing /\ (in_service' <=> in_service)
    BY <1>2, <1>3, <1>4, <1>7
  <2> QED
    BY <2>1 DEF Owed
<1> QED
  BY <1>5, <1>6, <1>7

LEMMA ScheduleKeeps ==
  ASSUME IInv, Tick \/ Yield
  PROVE  RestTyped' /\ Tabled' /\ Counted' /\ Owed'
<1>1. TypeOK /\ Tabled /\ Counted /\ Owed /\ RestTyped
  BY TypeOKIsTyped DEF IInv
<1>2. PICK via \in {"tick", "call"} : /\ Reschedule(List, state, via)
                                      /\ via = "tick" => ~in_service
  BY DEF Tick, Yield
<1>3. /\ current_process' \in All
      /\ current_process' # current_process => state[current_process'] = "READY"
      /\ state' \in [All -> {"absent", "READY", "RUNNING", "TERMINATED"}]
      /\ \A p \in All : state'[p] = IF p = current_process THEN "READY"
                                    ELSE IF p = current_process' THEN "RUNNING"
                                    ELSE state[p]
  BY <1>2, Turns
<1>4. /\ UNCHANGED tables
      /\ IF current_process' = current_process
         THEN /\ UNCHANGED <<resume, rsp, astray>>
              /\ in_service' = IF via = "tick" THEN FALSE ELSE in_service
         ELSE SwitchTo(current_process', via)
  BY <1>2, ScheduleReschedules
<1>5. current_process \in All /\ state[current_process] \in {"READY", "RUNNING"}
  BY Facts
<1>6. Tabled' /\ Counted'
  <2>1. \A p \in Procs : state'[p] = "absent" <=> state[p] = "absent"
    BY <1>3, <1>5 DEF All
  <2> QED
    BY <1>1, <1>4, <2>1, TableKept
<1>7. CASE current_process' = current_process
  <2>1. /\ UNCHANGED <<resume, rsp, astray>>
        /\ in_service' = IF via = "tick" THEN FALSE ELSE in_service
    BY <1>4, <1>7
  <2>2. RestTyped'
    BY <1>1, <1>3, <1>4, <2>1 DEF RestTyped, tables
  <2>3. Owing' = Owing
    BY <1>3, <1>7, <2>1 DEF Owing
  <2>4. in_service' <=> in_service
    BY <1>2, <2>1
  <2>5. Owed'
    BY <1>1, <2>3, <2>4 DEF Owed
  <2> QED
    BY <1>6, <2>2, <2>5
<1>8. CASE current_process' # current_process
  <2>1. PICK new \in All : new = current_process'
    BY <1>3
  <2>2. SwitchTo(new, via)
    BY <1>4, <1>8, <2>1
  <2>3. /\ resume' = [resume EXCEPT ![current_process] = via]
        /\ rsp' = [rsp EXCEPT ![current_process] = SavedRsp(via)]
        /\ in_service' = IF resume[new] = "tick" THEN FALSE ELSE (via = "tick") \/ in_service
        /\ astray' = (/\ resume[new] # "fresh"
                      /\ ReturnsTo(resume[new], rsp[new]) # Caller(resume[new]))
    BY <2>2 DEF SwitchTo, Switched
  <2>4. in_service' \in BOOLEAN /\ astray' \in BOOLEAN
    BY <1>1, <2>3, Zenon DEF RestTyped
  <2>5. /\ resume' \in [All -> {"fresh", "tick", "call"}]
        /\ rsp' \in [All -> {0, SavedRsp("tick"), SavedRsp("call")}]
    BY <1>1, <2>3 DEF RestTyped
  <2>6. RestTyped'
    BY <1>1, <1>3, <1>4, <2>4, <2>5 DEF RestTyped, tables
  <2>7. Owed'
    <3>1. /\ new # current_process /\ state[new] = "READY"
          /\ \A p \in All : p # new /\ p # current_process => state'[p] = state[p]
          /\ state'[current_process] = "READY"
      BY <1>3, <1>5, <1>8, <2>1
    <3> QED
      BY <1>1, <1>2, <2>2, <3>1, SwitchOwes
  <2> QED
    BY <1>6, <2>6, <2>7
<1> QED
  BY <1>7, <1>8

LEMMA ExitKeeps ==
  ASSUME IInv, Exit
  PROVE  RestTyped' /\ Tabled' /\ Counted' /\ Owed'
<1>1. TypeOK /\ Tabled /\ Counted /\ Owed /\ RestTyped
  BY TypeOKIsTyped DEF IInv
<1>2. PICK new \in All : new = current_process'
  BY ExitReschedules
<1>3. /\ new = Chosen(ListSeq(List)) /\ new # current_process
      /\ state' = [Exiting EXCEPT ![new] = "RUNNING"]
      /\ UNCHANGED tables
      /\ SwitchTo(new, "call")
  BY <1>2, ExitReschedules
<1>4. /\ current_process \in All /\ state[current_process] \in {"READY", "RUNNING"}
      /\ state \in [All -> {"absent", "READY", "RUNNING", "TERMINATED"}]
      /\ \A i \in DOMAIN ListSeq(List) : state[ListSeq(List)[i]] = "READY"
      /\ ListSeq(List) \in Seq(All)
      /\ state[Idle] \in {"READY", "RUNNING"}
      /\ \A p \in All : state[p] = "RUNNING" => p = current_process
  BY Facts
<1>5. state[new] = "READY"
  <2>1. CASE ListSeq(List) = <<>>
    BY <1>3, <1>4, <2>1, NoIdle DEF Chosen
  <2>2. CASE ListSeq(List) # <<>>
    <3>1. 1 \in DOMAIN ListSeq(List) /\ Head(ListSeq(List)) = ListSeq(List)[1]
      BY <1>4, <2>2
    <3> QED
      BY <1>3, <1>4, <2>2, <3>1 DEF Chosen
  <2> QED
    BY <2>1, <2>2
<1>6. /\ state' \in [All -> {"absent", "READY", "RUNNING", "TERMINATED"}]
      /\ \A p \in All : state'[p] = IF p = new THEN "RUNNING"
                                    ELSE IF p = current_process THEN "TERMINATED"
                                    ELSE state[p]
  BY <1>3, <1>4 DEF Exiting
<1>7. Tabled' /\ Counted'
  <2>1. \A p \in Procs : state'[p] = "absent" <=> state[p] = "absent"
    BY <1>4, <1>5, <1>6 DEF All
  <2> QED
    BY <1>1, <1>3, <2>1, TableKept
<1>8. Owed'
  <2>1. \A p \in All : p # new /\ p # current_process => state'[p] = state[p]
    BY <1>6
  <2>2. PICK via \in {"tick", "call"} : via = "call"
    OBVIOUS
  <2>3. SwitchTo(new, via) /\ via # "tick"
    BY <1>3, <2>2
  <2> QED
    BY <1>1, <1>3, <1>5, <2>1, <2>3, SwitchOwes
<1>9. RestTyped'
  <2>1. /\ resume' = [resume EXCEPT ![current_process] = "call"]
        /\ rsp' = [rsp EXCEPT ![current_process] = SavedRsp("call")]
        /\ in_service' = IF resume[new] = "tick" THEN FALSE ELSE ("call" = "tick") \/ in_service
        /\ astray' = (/\ resume[new] # "fresh"
                      /\ ReturnsTo(resume[new], rsp[new]) # Caller(resume[new]))
    BY <1>3 DEF SwitchTo, Switched
  <2>2. in_service' \in BOOLEAN /\ astray' \in BOOLEAN
    BY <1>1, <2>1, Zenon DEF RestTyped
  <2>3. /\ resume' \in [All -> {"fresh", "tick", "call"}]
        /\ rsp' \in [All -> {0, SavedRsp("tick"), SavedRsp("call")}]
    BY <1>1, <2>1 DEF RestTyped
  <2> QED
    BY <1>1, <1>2, <1>3, <1>6, <2>2, <2>3 DEF RestTyped, tables
<1> QED
  BY <1>7, <1>8, <1>9

-----------------------------------------------------------------------------

LEMMA InitHolds == Init => IInv
<1> SUFFICES ASSUME Init PROVE IInv
  OBVIOUS
<1>1. List = [head |-> Nil, tail |-> Nil, next |-> [p \in All |-> Nil]]
  BY DEF List, Init
<1>2. Holds(List, <<>>)
  BY <1>1 DEF Holds, Links, Once
<1>3. ListSeq(List) = <<>> /\ Listed
  BY <1>2, ListSeqIs DEF Listed
<1>4. Tabled
  BY NoIdle DEF Init, Tabled, All
<1>5. Live = {}
  BY NoIdle DEF Init, Live, All
<1>6. Counted
  BY <1>5, FS_EmptySet, SizesAssumption DEF Init, Counted
<1>7. Owed
  BY DEF Init, Owed, Owing
<1>8. RestTyped
  <2>1. 1 \in 1..(MaxPid + 1) /\ Pages \in Nat
    BY SizesAssumption
  <2>2. process_table \in [Slots -> All \union {Nil}]
    BY NoIdle DEF Init
  <2>3. /\ state \in [All -> {"absent", "READY", "RUNNING", "TERMINATED"}]
        /\ resume \in [All -> {"fresh", "tick", "call"}]
        /\ rsp \in [All -> {0, SavedRsp("tick"), SavedRsp("call")}]
    BY DEF Init
  <2> QED
    BY NoIdle, <2>1, <2>2, <2>3 DEF Init, RestTyped
<1>9. RRP!IInv
  <2>1. current_process = Idle /\ state = [p \in All |-> IF p = Idle THEN "RUNNING" ELSE "absent"]
    BY DEF Init
  <2>2. RRP!QueueTypeOK
    BY <1>3, <2>1 DEF RRP!QueueTypeOK, RRP!All, RRP!States, All
  <2>3. RRP!QueueOnce
    BY <1>3 DEF RRP!QueueOnce, RRP!Queued
  <2>4. RRP!CpuToTheLiving
    BY <2>1 DEF RRP!CpuToTheLiving, RRP!All, All
  <2> QED
    BY <2>2, <2>3, <2>4 DEF RRP!IInv
<1> QED
  BY <1>3, <1>4, <1>6, <1>7, <1>8, <1>9, Typed DEF IInv

LEMMA StepKeeps ==
  ASSUME IInv, [ClientNext]_vars
  PROVE  IInv'
<1>1. RestTyped' /\ Tabled' /\ Counted' /\ Owed'
  <2>1. CASE ProcessCreate
    BY <2>1, CreateKeeps
  <2>2. ASSUME NEW p \in Procs, ProcessDestroy(p) PROVE RestTyped' /\ Tabled' /\ Counted' /\ Owed'
    BY <2>2, DestroyKeeps
  <2>3. ASSUME NEW p \in Procs, SchedulerAdd(p) \/ SchedulerRemove(p)
        PROVE  RestTyped' /\ Tabled' /\ Counted' /\ Owed'
    BY <2>3, LinksKeep DEF SchedulerAdd, SchedulerRemove
  <2>4. CASE Tick \/ Yield
    BY <2>4, ScheduleKeeps
  <2>5. CASE Exit
    BY <2>5, ExitKeeps
  <2>6. CASE UNCHANGED vars
    BY <2>6, LinksKeep DEF vars
  <2> QED
    BY <2>1, <2>2, <2>3, <2>4, <2>5, <2>6 DEF ClientNext
<1>2. Listed' /\ RRP!IInv'
  BY StepIsStep, RoundRobinKept
<1>3. TypeOK'
  BY <1>1, <1>2, Typed, PTL
<1> QED
  BY <1>1, <1>2, <1>3 DEF IInv

LEMMA Inductive == ClientSpec => []IInv
<1>1. IInv /\ [ClientNext]_vars => IInv'
  BY StepKeeps
<1> QED
  BY <1>1, InitHolds, PTL DEF ClientSpec

(* The links of the ready queue stay a list, whatever order it is added    *)
(* to, taken from and cut in: they reach an end, no process twice, and the *)
(* tail pointer is the last of them.                                       *)
THEOREM TheQueueIsAList == ClientSpec => []QueueIsAList
<1>1. IInv => QueueIsAList
  <2> SUFFICES ASSUME IInv PROVE QueueIsAList
    OBVIOUS
  <2>1. PICK q : q = ListSeq(List)
    OBVIOUS
  <2>2. /\ Holds(List, q) /\ q \in Seq(All) /\ Once(q)
        /\ List.tail = IF q = <<>> THEN Nil ELSE q[Len(q)]
    BY <2>1 DEF IInv, Listed, Holds
  <2>3. Len(q) \in Nat /\ Len(q) <= MaxPid + 1
    BY <2>2, Bounded
  <2>4. ready_queue_tail = IF q = <<>> THEN Nil ELSE q[Len(q)]
    BY <2>2 DEF List
  <2>5. Cardinality({q[i] : i \in DOMAIN q}) = Len(q)
    <3>1. DOMAIN q = 1..Len(q) /\ q = [i \in 1..Len(q) |-> q[i]]
      BY <2>2
    <3>2. q \in Bijection(1..Len(q), {q[i] : i \in DOMAIN q})
      BY <2>2, <3>1 DEF Bijection, Injection, Surjection, IsInjective, Once
    <3>3. IsFiniteSet(1..Len(q)) /\ Cardinality(1..Len(q)) = Len(q)
      BY <2>3, FS_Interval
    <3> QED
      BY <3>2, <3>3, FS_Bijection DEF ExistsBijection
  <2> QED
    BY <2>1, <2>3, <2>4, <2>5 DEF QueueIsAList, Queued
<1> QED
  BY <1>1, Inductive, PTL

(* The table names each living process once, and the pages of the stacks   *)
(* are conserved: two for every process other than idle, none for one      *)
(* whose creation failed half way.                                         *)
THEOREM StacksAreAccounted == ClientSpec => []StacksAccounted
<1>1. IInv => StacksAccounted
  <2> SUFFICES ASSUME IInv PROVE StacksAccounted
    OBVIOUS
  <2>1. TypeOK /\ Tabled /\ Counted
    BY DEF IInv
  <2>2. ASSUME NEW p \in Live
        PROVE  Cardinality({s \in Slots : process_table[s] = p}) = 1
    <3>1. PICK s \in Slots : process_table[s] = p
      BY <2>1 DEF Live, Tabled
    <3>2. p # Nil
      BY NoIdle DEF Live, All
    <3>3. {t \in Slots : process_table[t] = p} = {s}
      BY <2>1, <3>1, <3>2 DEF Tabled
    <3> QED
      BY <3>3, FS_Singleton
  <2> QED
    BY <2>1, <2>2 DEF StacksAccounted, Counted, Live
<1> QED
  BY <1>1, Inductive, PTL

(* While IRQ0 is in service exactly one suspended context owes the         *)
(* controller its EOI, and otherwise none does, however timer ticks, calls *)
(* of sys_yield and exits follow one another.                              *)
THEOREM TheEoiIsOwedOnce == ClientSpec => []EoiOwedOnce
<1>1. IInv => EoiOwedOnce
  <2> SUFFICES ASSUME IInv PROVE EoiOwedOnce
    OBVIOUS
  <2>1. Cardinality(Owing) = IF in_service THEN 1 ELSE 0
    BY FS_Singleton, FS_EmptySet DEF IInv, Owed
  <2> QED
    BY <2>1 DEF EoiOwedOnce, Owing
<1> QED
  BY <1>1, Inductive, PTL

(* RoundRobin as Scheduler instantiates it, and as its proofs see it.      *)
LEMMA SameActions == /\ RR!QueueInit <=> RRP!QueueInit
                     /\ [RR!QueueNext]_RR!queueVars <=> [RRP!QueueNext]_RRP!queueVars
<1>1. RR!QueueInit <=> RRP!QueueInit
  BY DEF RR!QueueInit, RRP!QueueInit, RR!All, RRP!All
<1>2. ASSUME NEW p \in Procs PROVE RR!Create(p) <=> RRP!Create(p)
  BY DEF RR!Create, RRP!Create
<1>3. ASSUME NEW p \in Procs PROVE RR!Add(p) <=> RRP!Add(p)
  BY DEF RR!Add, RRP!Add, RR!Queued, RRP!Queued, RR!Enqueued, RRP!Enqueued
<1>4. ASSUME NEW p \in Procs PROVE RR!Withdraw(p) <=> RRP!Withdraw(p)
  BY DEF RR!Withdraw, RRP!Withdraw, RR!WithoutEntry, RRP!WithoutEntry
<1>5. ASSUME NEW p \in Procs PROVE RR!Destroy(p) <=> RRP!Destroy(p)
  BY DEF RR!Destroy, RRP!Destroy
<1>6. /\ RR!Requeued = RRP!Requeued /\ RR!Preempted = RRP!Preempted
      /\ \A q : RR!Elected(q) = RRP!Elected(q) /\ RR!Dequeued(q) = RRP!Dequeued(q)
  BY DEF RR!Requeued, RRP!Requeued, RR!Enqueued, RRP!Enqueued, RR!Preempted, RRP!Preempted,
         RR!Elected, RRP!Elected, RR!Dequeued, RRP!Dequeued
<1>7. RR!Schedule <=> RRP!Schedule
  BY <1>6 DEF RR!Schedule, RRP!Schedule
<1>8. RR!Exit <=> RRP!Exit
  BY <1>6 DEF RR!Exit, RRP!Exit, RR!Terminate, RRP!Terminate
<1>9. RR!QueueNext <=> RRP!QueueNext
  BY <1>2, <1>3, <1>4, <1>5, <1>7, <1>8 DEF RR!QueueNext, RRP!QueueNext
<1>10. UNCHANGED RR!queueVars <=> UNCHANGED RRP!queueVars
  BY DEF RR!queueVars, RRP!queueVars
<1> QED
  BY <1>1, <1>9, <1>10

(* The linked list, the table of PCBs and the context switch implement the *)
(* round robin: process_init is its initial state, and every call of       *)
(* process.h is one of its steps, or, when a creation fails, none.         *)
THEOREM ImplementsRoundRobin == ClientSpec => RoundRobinSpec
<1>1. Init => RR!QueueInit
  <2> SUFFICES ASSUME Init PROVE RR!QueueInit
    OBVIOUS
  <2>1. IInv /\ current_process = Idle /\ state = [p \in All |-> IF p = Idle THEN "RUNNING" ELSE "absent"]
    BY InitHolds DEF Init
  <2>2. ListSeq(List) = <<>>
    <3>1. Holds(List, ListSeq(List)) /\ List.head = Nil
      BY <2>1 DEF IInv, Listed, List, Init
    <3>2. ListSeq(List) \in Seq(All) /\ (ListSeq(List) # <<>> => ListSeq(List)[1] = Nil)
      BY <3>1 DEF Holds
    <3>3. ListSeq(List) # <<>> => ListSeq(List)[1] \in All
      BY <3>2
    <3> QED
      BY <3>2, <3>3, NoIdle
  <2> QED
    BY <2>1, <2>2 DEF RR!QueueInit, RR!All, All
<1>2. IInv /\ [ClientNext]_vars => [RR!QueueNext]_RR!queueVars
  BY StepIsStep, SameActions
<1> QED
  BY <1>1, <1>2, Inductive, PTL DEF ClientSpec, RoundRobinSpec, RR!QueueSpec

=============================================================================
