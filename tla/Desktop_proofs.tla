--------------------------- MODULE Desktop_proofs ---------------------------
(***************************************************************************)
(* The window stack, the drag and the selection of Desktop, for every      *)
(* number of slots, every set of icons and every set of clicked rows; and  *)
(* the places of windows of Placement, for every size of the screen.       *)
(*                                                                         *)
(* z_order is a sequence of slots; that it has every open window once      *)
(* (Stacked) is what taking one out and putting one on top preserves.      *)
(* A drag is given up by a release; that one comes to a drag begun by a    *)
(* press rests on the driver and the tick not losing it in between, while  *)
(* it is pending (PressSeen) and while it is being handled (PressTaken).   *)
(*                                                                         *)
(* A window can be got back because open_app and the drag leave 80 pixels  *)
(* of its title between the sides of the screen, and all of its height     *)
(* above the taskbar (Grippable).  That a press hits what is seen compares *)
(* the search from the top of the stack with the painting from the bottom. *)
(***************************************************************************)
EXTENDS Desktop, Placement, FiniteSetTheorems, SequenceTheorems, NaturalsInduction,
        WellFoundedInduction, TLAPS

LessThan == {p \in Nat \X Nat : p[1] < p[2]}

(* A set of naturals has a least element. *)
LEMMA Least ==
  ASSUME NEW S \in SUBSET Nat, S # {}
  PROVE  \E m \in S : \A k \in S : m <= k
<1>1. IsWellFoundedOn(LessThan, Nat)
  <2>1. OpToRel(<, Nat) = LessThan
    BY DEF OpToRel, LessThan
  <2> QED
    BY <2>1, NatLessThanWellFounded
<1>2. PICK m \in S : \A k \in S : <<k, m>> \notin LessThan
  BY <1>1, WFMin
<1>3. ASSUME NEW k \in S PROVE m <= k
  <2>1. <<k, m>> \in Nat \X Nat /\ <<k, m>> \notin LessThan
    BY <1>2
  <2>2. ~(<<k, m>>[1] < <<k, m>>[2])
    BY <2>1 DEF LessThan
  <2> QED
    BY <2>2
<1> QED
  BY <1>3

-----------------------------------------------------------------------------
(* The stack: a sequence without repetitions. *)

(* z_remove leaves the other slots, in place. *)
LEMMA RemovedIs ==
  ASSUME NEW S, NEW z \in Seq(S), IsInjective(z), NEW s
  PROVE  /\ Removed(z, s) \in Seq(S)
         /\ IsInjective(Removed(z, s))
         /\ ToSet(Removed(z, s)) = ToSet(z) \ {s}
<1>1. CASE s \notin ToSet(z)
  <2>1. \A i \in 1..Len(z) : z[i] # s
    BY <1>1 DEF ToSet
  <2>2. Removed(z, s) = z
    BY <2>1 DEF Removed, RemoveFirst
  <2> QED
    BY <1>1, <2>2
<1>2. CASE s \in ToSet(z)
  <2>1. PICK k \in DOMAIN z : z[k] = s
    BY <1>2 DEF ToSet
  <2>2. Removed(z, s) = RemoveAt(z, k)
    <3>1. {i \in 1..Len(z) : z[i] = s} = {k}
      BY <2>1 DEF IsInjective
    <3>2. Min({k}) = k
      BY DEF Min
    <3>3. SelectInSeq(z, LAMBDA v : v = s) = k
      BY <3>1, <3>2 DEF SelectInSeq
    <3>4. \E i \in 1..Len(z) : z[i] = s
      BY <2>1
    <3> QED
      BY <3>3, <3>4 DEF Removed, RemoveFirst
  <2>3. PICK before, after : before = SubSeq(z, 1, k - 1) /\ after = SubSeq(z, k + 1, Len(z))
    OBVIOUS
  <2>4. PICK both : both = before \o after
    OBVIOUS
  <2>5. Len(z) \in Nat /\ k \in 1..Len(z) /\ DOMAIN z = 1..Len(z)
    OBVIOUS
  <2>6. before \in Seq(S) /\ Len(before) = k - 1 /\ \A i \in 1..(k - 1) : before[i] = z[i]
    BY <2>3
  <2>7. /\ after \in Seq(S) /\ Len(after) = Len(z) - k
        /\ \A i \in 1..(Len(z) - k) : after[i] = z[k + i]
    BY <2>3
  <2>8. /\ both \in Seq(S)
        /\ Len(both) = Len(before) + Len(after)
        /\ \A i \in 1..(Len(before) + Len(after)) :
             both[i] = IF i <= Len(before) THEN before[i] ELSE after[i - Len(before)]
    BY <2>4, <2>6, <2>7, ConcatProperties
  <2>9. DOMAIN both = 1..(Len(z) - 1)
    BY <2>5, <2>6, <2>7, <2>8
  <2>10. ASSUME NEW i \in DOMAIN both
         PROVE  both[i] = IF i < k THEN z[i] ELSE z[i + 1]
    <3>1. both[i] = IF i <= k - 1 THEN before[i] ELSE after[i - (k - 1)]
      BY <2>5, <2>6, <2>7, <2>8, <2>9
    <3>2. CASE i < k
      BY <2>5, <2>6, <2>9, <3>1, <3>2
    <3>3. CASE ~(i < k)
      <4>1. i - (k - 1) \in 1..(Len(z) - k) /\ k + (i - (k - 1)) = i + 1 /\ ~(i <= k - 1)
        BY <2>5, <2>9, <3>3
      <4>2. both[i] = after[i - (k - 1)]
        BY <3>1, <4>1
      <4>3. after[i - (k - 1)] = z[k + (i - (k - 1))]
        BY <2>7, <4>1
      <4> QED
        BY <3>3, <4>1, <4>2, <4>3
    <3> QED
      BY <3>2, <3>3
  <2> DEFINE from(i) == IF i < k THEN i ELSE i + 1
  <2>11. \A i \in DOMAIN both : from(i) \in DOMAIN z /\ from(i) # k /\ both[i] = z[from(i)]
    BY <2>5, <2>9, <2>10
  <2>12. \A i, j \in DOMAIN both : from(i) = from(j) => i = j
    BY <2>5, <2>9
  <2>13. \A j \in DOMAIN z : j # k => \E i \in DOMAIN both : from(i) = j
    <3> SUFFICES ASSUME NEW j \in DOMAIN z, j # k
                 PROVE  \E i \in DOMAIN both : from(i) = j
      OBVIOUS
    <3>1. CASE j < k
      BY <2>5, <2>9, <3>1
    <3>2. CASE j > k
      <4>1. j - 1 \in DOMAIN both /\ from(j - 1) = j
        BY <2>5, <2>9, <3>2
      <4> QED
        BY <4>1
    <3> QED
      BY <2>5, <3>1, <3>2
  <2> HIDE DEF from
  <2>14. IsInjective(both)
    BY <2>11, <2>12 DEF IsInjective
  <2>15. ToSet(both) = ToSet(z) \ {s}
    <3>1. ASSUME NEW x \in ToSet(both) PROVE x \in ToSet(z) /\ x # s
      BY <2>1, <2>11, <3>1 DEF ToSet, IsInjective
    <3>2. ASSUME NEW x \in ToSet(z), x # s PROVE x \in ToSet(both)
      <4>1. PICK j \in DOMAIN z : z[j] = x
        BY <3>2 DEF ToSet
      <4>2. PICK i \in DOMAIN both : from(i) = j
        BY <2>1, <2>13, <3>2, <4>1
      <4> QED
        BY <2>11, <4>1, <4>2 DEF ToSet
    <3> QED
      BY <3>1, <3>2
  <2>16. Removed(z, s) = both
    BY <2>2, <2>3, <2>4 DEF RemoveAt
  <2> QED
    BY <2>8, <2>14, <2>15, <2>16
<1> QED
  BY <1>1, <1>2

(* A slot that is not in the stack can be put on it. *)
LEMMA PushedIs ==
  ASSUME NEW S, NEW z \in Seq(S), IsInjective(z), NEW s \in S, s \notin ToSet(z)
  PROVE  /\ Append(z, s) \in Seq(S)
         /\ IsInjective(Append(z, s))
         /\ ToSet(Append(z, s)) = ToSet(z) \union {s}
         /\ Append(z, s) # <<>>
         /\ Top(Append(z, s)) = s
<1>1. PICK r : r = Append(z, s)
  OBVIOUS
<1>2. /\ Len(z) \in Nat /\ DOMAIN z = 1..Len(z)
      /\ r \in Seq(S) /\ r # <<>> /\ Len(r) = Len(z) + 1 /\ DOMAIN r = 1..(Len(z) + 1)
      /\ \A i \in DOMAIN z : r[i] = z[i]
      /\ r[Len(z) + 1] = s
  BY <1>1
<1>3. \A i \in DOMAIN z : z[i] # s
  BY DEF ToSet
<1>4. IsInjective(r)
  BY <1>2, <1>3 DEF IsInjective
<1>5. ToSet(r) = ToSet(z) \union {s}
  <2>1. ASSUME NEW x \in ToSet(r) PROVE x \in ToSet(z) \union {s}
    BY <1>2, <2>1 DEF ToSet
  <2>2. ASSUME NEW x \in ToSet(z) \union {s} PROVE x \in ToSet(r)
    BY <1>2, <2>2 DEF ToSet
  <2> QED
    BY <2>1, <2>2
<1>6. Top(r) = s
  BY <1>2 DEF Top
<1> QED
  BY <1>1, <1>2, <1>4, <1>5, <1>6

(* z_bring_to_top changes the order only. *)
LEMMA RaisedIs ==
  ASSUME NEW S, NEW z \in Seq(S), IsInjective(z), NEW s
  PROVE  /\ Raised(z, s) \in Seq(S)
         /\ IsInjective(Raised(z, s))
         /\ ToSet(Raised(z, s)) = ToSet(z)
         /\ s \in ToSet(z) => Raised(z, s) # <<>> /\ Top(Raised(z, s)) = s
<1>1. CASE s \notin ToSet(z)
  BY <1>1 DEF Raised
<1>2. CASE s \in ToSet(z)
  <2>1. Raised(z, s) = Append(Removed(z, s), s)
    BY <1>2 DEF Raised
  <2>2. s \in S
    BY <1>2 DEF ToSet
  <2>3. PICK r : r = Removed(z, s)
    OBVIOUS
  <2>4. r \in Seq(S) /\ IsInjective(r) /\ ToSet(r) = ToSet(z) \ {s}
    BY <2>3, RemovedIs
  <2>5. /\ Append(r, s) \in Seq(S)
        /\ IsInjective(Append(r, s))
        /\ ToSet(Append(r, s)) = ToSet(r) \union {s}
        /\ Append(r, s) # <<>>
        /\ Top(Append(r, s)) = s
    BY <2>2, <2>4, PushedIs
  <2> QED
    BY <1>2, <2>1, <2>3, <2>4, <2>5
<1> QED
  BY <1>1, <1>2

-----------------------------------------------------------------------------
(* The windows and the stack. *)

\* The stack z is the windows w in use, one for an application.
Stacked(w, z) ==
  /\ w \in [Slots -> Apps \union {None}]
  /\ z \in Seq(Slots)
  /\ IsInjective(z)
  /\ ToSet(z) = {s \in Slots : w[s] # None}
  /\ \A s, t \in ToSet(z) : w[s] = w[t] => s = t

(* A stack is no longer than there are things to put on it. *)
LEMMA NoMoreThan ==
  ASSUME NEW S, IsFiniteSet(S), NEW z \in Seq(S), IsInjective(z)
  PROVE  Len(z) <= Cardinality(S)
<1>1. z \in Injection(1..Len(z), S)
  BY DEF Injection, IsInjective
<1>2. Cardinality(1..Len(z)) <= Cardinality(S)
  BY <1>1, FS_Injection
<1>3. Cardinality(1..Len(z)) = Len(z)
  <2>1. Len(z) \in Nat
    OBVIOUS
  <2>2. ASSUME NEW m \in Nat PROVE Cardinality(1..m) = m
    BY FS_Interval
  <2> QED
    BY <2>1, <2>2
<1> QED
  BY <1>2, <1>3

(* There are no more windows than slots. *)
LEMMA Fits ==
  ASSUME NEW z \in Seq(Slots), IsInjective(z)
  PROVE  Len(z) <= MAX_WINDOWS
<1>1. PICK n \in Nat : n = MAX_WINDOWS
  BY WindowsAssumption
<1>2. IsFiniteSet(Slots) /\ Cardinality(Slots) = n
  <2>1. 0 \in Int /\ n - 1 \in Int
    OBVIOUS
  <2>2. IsFiniteSet(0..(n - 1)) /\ Cardinality(0..(n - 1)) = IF 0 > n - 1 THEN 0 ELSE n - 1 - 0 + 1
    BY <2>1, FS_Interval
  <2>3. Cardinality(0..(n - 1)) = n
    BY <2>2
  <2> QED
    BY <1>1, <2>2, <2>3 DEF Slots
<1> QED
  BY <1>1, <1>2, NoMoreThan

LEMMA Named == /\ None \notin Apps /\ NoDrag \notin Slots /\ Slots \subseteq Nat
               /\ {"FILES", "TERMINAL", "EDITOR"} \subseteq Apps /\ Icons \subseteq Apps
               /\ "EDITOR" \notin Icons /\ "EDITOR" # None
<1>1. "none" \notin Icons /\ "EDITOR" \notin Icons
  BY IconsAssumption
<1> QED
  BY <1>1, WindowsAssumption, IconsAssumption DEF None, Apps, NoDrag, Slots

(* open_app: the windows stay the stack, and no other application comes up.*)
LEMMA OpenedIs ==
  ASSUME NEW w, NEW z, Stacked(w, z), NEW app \in Apps
  PROVE  /\ Stacked(Opened(w, z, app).windows, Opened(w, z, app).z_order)
         /\ \A s \in Slots : Opened(w, z, app).windows[s] \in {w[s], app}
<1>1. /\ w \in [Slots -> Apps \union {None}] /\ z \in Seq(Slots) /\ IsInjective(z)
      /\ ToSet(z) = {s \in Slots : w[s] # None}
      /\ \A s, t \in ToSet(z) : w[s] = w[t] => s = t
  BY DEF Stacked
<1>2. CASE SlotsOf(w, app) # {}
  <2>1. PICK r : r = Raised(z, CHOOSE s \in SlotsOf(w, app) : TRUE)
    OBVIOUS
  <2>2. Opened(w, z, app) = [windows |-> w, z_order |-> r]
    BY <1>2, <2>1 DEF Opened
  <2>3. r \in Seq(Slots) /\ IsInjective(r) /\ ToSet(r) = ToSet(z)
    BY <1>1, <2>1, RaisedIs
  <2> QED
    BY <1>1, <2>2, <2>3 DEF Stacked
<1>3. CASE SlotsOf(w, app) = {} /\ FreeSlots(w) = {}
  <2>1. Opened(w, z, app) = [windows |-> w, z_order |-> z]
    BY <1>3 DEF Opened
  <2> QED
    BY <2>1
<1>4. CASE SlotsOf(w, app) = {} /\ FreeSlots(w) # {}
  <2>1. PICK s : s = CHOOSE m \in FreeSlots(w) : \A t \in FreeSlots(w) : m <= t
    OBVIOUS
  <2>2. s \in FreeSlots(w)
    <3>1. FreeSlots(w) \in SUBSET Nat
      BY Named DEF FreeSlots
    <3>2. \E m \in FreeSlots(w) : \A t \in FreeSlots(w) : m <= t
      BY <1>4, <3>1, Least
    <3> QED
      BY <2>1, <3>2
  <2>3. Opened(w, z, app) = [windows |-> [w EXCEPT ![s] = app], z_order |-> Append(z, s)]
    BY <1>4, <2>1 DEF Opened
  <2>4. s \in Slots /\ w[s] = None /\ s \notin ToSet(z)
    BY <1>1, <2>2 DEF FreeSlots
  <2>5. /\ Append(z, s) \in Seq(Slots) /\ IsInjective(Append(z, s))
        /\ ToSet(Append(z, s)) = ToSet(z) \union {s}
    BY <1>1, <2>4, PushedIs
  <2>6. PICK v, r : v = [w EXCEPT ![s] = app] /\ r = Append(z, s)
    OBVIOUS
  <2>7. /\ v \in [Slots -> Apps \union {None}]
        /\ \A t \in Slots : v[t] = IF t = s THEN app ELSE w[t]
    BY <1>1, <2>4, <2>6
  <2>8. app # None /\ \A t \in Slots : w[t] # app
    BY <1>4, Named DEF SlotsOf
  <2>9. ToSet(r) = {t \in Slots : v[t] # None}
    BY <1>1, <2>4, <2>5, <2>6, <2>7, <2>8
  <2>10. \A t, u \in ToSet(r) : v[t] = v[u] => t = u
    BY <1>1, <2>4, <2>5, <2>6, <2>7, <2>8
  <2>11. Stacked(v, r)
    BY <2>5, <2>6, <2>7, <2>9, <2>10 DEF Stacked
  <2>12. Opened(w, z, app).windows = v /\ Opened(w, z, app).z_order = r
    BY <2>3, <2>6
  <2> QED
    BY <2>7, <2>11, <2>12
<1> QED
  BY <1>2, <1>3, <1>4

(* Raising or closing a window keeps the stack the windows in use. *)
LEMMA RaisedStacked ==
  ASSUME NEW w, NEW z, Stacked(w, z), NEW s
  PROVE  /\ Stacked(w, Raised(z, s))
         /\ s \in ToSet(z) => Raised(z, s) # <<>> /\ Top(Raised(z, s)) = s
<1>1. z \in Seq(Slots) /\ IsInjective(z)
  BY DEF Stacked
<1>2. /\ Raised(z, s) \in Seq(Slots)
      /\ IsInjective(Raised(z, s))
      /\ ToSet(Raised(z, s)) = ToSet(z)
      /\ s \in ToSet(z) => Raised(z, s) # <<>> /\ Top(Raised(z, s)) = s
  BY <1>1, RaisedIs
<1> QED
  BY <1>2 DEF Stacked

LEMMA ClosedStacked ==
  ASSUME NEW w, NEW z, Stacked(w, z), NEW s \in Slots
  PROVE  Stacked([w EXCEPT ![s] = None], Removed(z, s))
<1>1. /\ w \in [Slots -> Apps \union {None}] /\ z \in Seq(Slots) /\ IsInjective(z)
      /\ ToSet(z) = {t \in Slots : w[t] # None}
      /\ \A t, u \in ToSet(z) : w[t] = w[u] => t = u
  BY DEF Stacked
<1>2. PICK v, r : v = [w EXCEPT ![s] = None] /\ r = Removed(z, s)
  OBVIOUS
<1>3. r \in Seq(Slots) /\ IsInjective(r) /\ ToSet(r) = ToSet(z) \ {s}
  BY <1>1, <1>2, RemovedIs
<1>4. /\ v \in [Slots -> Apps \union {None}]
      /\ \A t \in Slots : v[t] = IF t = s THEN None ELSE w[t]
  BY <1>1, <1>2
<1>5. Stacked(v, r)
  BY <1>1, <1>3, <1>4 DEF Stacked
<1> QED
  BY <1>2, <1>5

-----------------------------------------------------------------------------
(* The inductive invariant. *)

Focused == /\ g_args_focused \in BOOLEAN
           /\ g_files_dir \in Dirs
           /\ g_files_selected \in Clicked \union {None}
           /\ g_editor_file \in Clicked \union {None}

Ticking == /\ {left, g_pending_pressed, g_pending_released} \subseteq BOOLEAN
           /\ tick \in {"idle", "press", "release"}
           /\ ev \in [pressed : BOOLEAN, released : BOOLEAN]

\* What is dragged is the topmost window.
Dragged == g_drag_idx # NoDrag =>
             g_drag_idx \in Slots /\ z_order # <<>> /\ g_drag_idx = Top(z_order)

\* A press the driver saw, and one a tick has taken and not handled yet, is
\* still down or its release is on its way.
PressSeen == g_pending_pressed => left \/ g_pending_released
PressTaken == tick = "press" /\ ev.pressed => left \/ g_pending_released \/ ev.released

DragHeld == g_drag_idx # NoDrag =>
              left \/ g_pending_released \/ (ev.released /\ tick \in {"press", "release"})

Shown == Stacked(windows, z_order) /\ Focused /\ SelectionIsListed /\ Dragged

IInv == Shown /\ Ticking /\ PressSeen /\ PressTaken /\ DragHeld

-----------------------------------------------------------------------------
(* What a press may hit.  Nothing is being dragged when it is handled.     *)

(* Windows and stack change as Opened does it, and no editor comes up.     *)
LEMMA OpenedShown ==
  ASSUME Shown, g_drag_idx = NoDrag, NEW z, Stacked(windows, z),
         NEW app \in Apps, app # "EDITOR",
         Shows(Opened(windows, z, app)), UNCHANGED <<g_drag_idx, focus>>
  PROVE  Shown'
<1>1. PICK d : d = Opened(windows, z, app)
  OBVIOUS
<1>2. /\ Stacked(d.windows, d.z_order)
      /\ \A s \in Slots : d.windows[s] \in {windows[s], app}
  BY <1>1, OpenedIs
<1>3. windows' = d.windows /\ z_order' = d.z_order
  BY <1>1 DEF Shows
<1>4. Stacked(windows, z_order)'
  BY <1>2, <1>3
<1>5. \A s \in Slots : windows'[s] = "EDITOR" => windows[s] = "EDITOR"
  BY <1>2, <1>3
<1>6. SelectionIsListed'
  BY <1>5 DEF Shown, SelectionIsListed, focus
<1>7. Focused' /\ Dragged'
  BY DEF Shown, Focused, Dragged, focus
<1> QED
  BY <1>4, <1>6, <1>7 DEF Shown

LEMMA RaisedShown ==
  ASSUME Shown, g_drag_idx = NoDrag, NEW s \in ToSet(z_order),
         z_order' = Raised(z_order, s), UNCHANGED <<windows, focus>>,
         g_drag_idx' \in {NoDrag, s}
  PROVE  Shown'
<1>1. /\ Stacked(windows, Raised(z_order, s))
      /\ Raised(z_order, s) # <<>> /\ Top(Raised(z_order, s)) = s
  BY RaisedStacked DEF Shown
<1>2. Stacked(windows, z_order)'
  BY <1>1
<1>3. s \in Slots
  BY DEF Shown, Stacked, ToSet
<1>4. Dragged'
  BY <1>1, <1>3 DEF Dragged
<1>5. Focused' /\ SelectionIsListed'
  BY DEF Shown, Focused, SelectionIsListed, focus
<1> QED
  BY <1>2, <1>4, <1>5 DEF Shown

LEMMA CloseShown ==
  ASSUME Shown, g_drag_idx = NoDrag, NEW s \in Slots, HitClose(s)
  PROVE  Shown'
<1>1. /\ windows' = [windows EXCEPT ![s] = None]
      /\ z_order' = Removed(z_order, s)
      /\ UNCHANGED <<g_drag_idx, focus>>
  BY DEF HitClose
<1>2. Stacked([windows EXCEPT ![s] = None], Removed(z_order, s))
  BY ClosedStacked DEF Shown
<1>3. Stacked(windows, z_order)'
  BY <1>1, <1>2
<1>4. \A t \in Slots : windows'[t] = "EDITOR" => windows[t] = "EDITOR"
  BY <1>1, Named DEF Shown, Stacked
<1>5. SelectionIsListed'
  BY <1>1, <1>4 DEF Shown, SelectionIsListed, focus
<1>6. Focused' /\ Dragged'
  BY <1>1 DEF Shown, Focused, Dragged, focus
<1> QED
  BY <1>3, <1>5, <1>6 DEF Shown

(* A row is entered or selected.  The parent of a directory is one, so     *)
(* what is selected is a file or a program, and of the directory shown.    *)
LEMMA RowShown ==
  ASSUME Shown, NEW n \in Rows, Row(n), UNCHANGED <<windows, g_editor_file>>,
         g_args_focused' \in BOOLEAN
  PROVE  Focused' /\ SelectionIsListed'
<1>1. /\ g_files_dir \in Dirs /\ g_files_selected \in Clicked \union {None}
      /\ g_editor_file \in Clicked \union {None}
      /\ \A s \in Slots : windows[s] = "EDITOR" => g_editor_file \in Texts
  BY DEF Shown, Focused, SelectionIsListed
<1>2. \A d \in Dirs : Parent(d) = Null \/ Parent(d) \in Dirs
  BY DEF Dirs, Parent, Root, InHome, InDocs, InBin, Null
<1>3. n \in Dirs \/ (n \in Clicked /\ n \in Nodes /\ Parent(n) = g_files_dir)
  BY <1>1, <1>2, ClickedAssumption DEF Rows
<1>4. CASE n \in Dirs
  <2>1. g_files_dir' = n /\ g_files_selected' = None
    BY <1>4 DEF Row
  <2> QED
    BY <1>1, <1>4, <2>1 DEF Focused, SelectionIsListed
<1>5. CASE n \notin Dirs
  <2>1. g_files_selected' = n /\ g_files_dir' = g_files_dir
    BY <1>5 DEF Row
  <2>2. n \in Texts \union InBin
    BY <1>3, <1>5 DEF Nodes
  <2> QED
    BY <1>1, <1>3, <1>5, <2>1, <2>2 DEF Focused, SelectionIsListed
<1> QED
  BY <1>4, <1>5

(* Open, Edit and Run: an editor that comes up has the file selected.      *)
LEMMA ButtonShown ==
  ASSUME Shown, g_drag_idx = NoDrag, NEW z, Stacked(windows, z), Button(z),
         g_args_focused' \in BOOLEAN, UNCHANGED g_drag_idx
  PROVE  Shown'
<1>1. /\ g_files_dir \in Dirs /\ g_files_selected \in Clicked \union {None}
      /\ g_editor_file \in Clicked \union {None}
      /\ SelectionIsListed
  BY DEF Shown, Focused
<1>2. UNCHANGED <<g_files_dir, g_files_selected>>
  BY DEF Button
<1>3. Dragged'
  BY DEF Dragged
<1>4. CASE g_files_selected \in Texts /\ EditorOpenedFor(g_files_selected, z)
  <2>1. PICK d : d = Opened(windows, z, "EDITOR")
    OBVIOUS
  <2>2. Stacked(d.windows, d.z_order)
    BY <2>1, Named, OpenedIs
  <2>3. /\ g_editor_file' = g_files_selected
        /\ windows' = d.windows /\ z_order' = d.z_order
    BY <1>4, <2>1 DEF EditorOpenedFor, Shows
  <2>4. Stacked(windows, z_order)'
    BY <2>2, <2>3
  <2>5. Focused' /\ SelectionIsListed'
    BY <1>1, <1>2, <1>4, <2>3 DEF Focused, SelectionIsListed
  <2> QED
    BY <1>3, <2>4, <2>5 DEF Shown
<1>5. CASE Shows(Opened(windows, z, "TERMINAL")) /\ UNCHANGED g_editor_file
  <2>1. PICK d : d = Opened(windows, z, "TERMINAL")
    OBVIOUS
  <2>2. /\ Stacked(d.windows, d.z_order)
        /\ \A s \in Slots : d.windows[s] \in {windows[s], "TERMINAL"}
    BY <2>1, Named, OpenedIs
  <2>3. windows' = d.windows /\ z_order' = d.z_order
    BY <1>5, <2>1 DEF Shows
  <2>4. Stacked(windows, z_order)'
    BY <2>2, <2>3
  <2>5. \A s \in Slots : windows'[s] = "EDITOR" => windows[s] = "EDITOR"
    BY <2>2, <2>3
  <2>6. Focused' /\ SelectionIsListed'
    BY <1>1, <1>2, <1>5, <2>5 DEF Focused, SelectionIsListed
  <2> QED
    BY <1>3, <2>4, <2>6 DEF Shown
<1> QED
  BY <1>4, <1>5 DEF Button

LEMMA FilesShown ==
  ASSUME Shown, g_drag_idx = NoDrag, NEW s \in Slots, HitFiles(s)
  PROVE  Shown'
<1> DEFINE raised == Raised(z_order, s)
<1>1. s \in ToSet(z_order) /\ UNCHANGED g_drag_idx /\ g_args_focused' \in BOOLEAN
  BY DEF HitFiles
<1>2. Stacked(windows, raised)
  BY RaisedStacked DEF Shown
<1>3. Dragged'
  BY <1>1 DEF Dragged
<1>4. CASE /\ z_order' = raised
           /\ UNCHANGED <<windows, g_files_dir, g_files_selected, g_editor_file>>
  <2>1. Stacked(windows, z_order)'
    BY <1>2, <1>4
  <2>2. Focused' /\ SelectionIsListed'
    BY <1>1, <1>4 DEF Shown, Focused, SelectionIsListed
  <2> QED
    BY <1>3, <2>1, <2>2 DEF Shown
<1>5. CASE /\ \E n \in Rows : Row(n)
           /\ z_order' = raised
           /\ UNCHANGED <<windows, g_editor_file>>
  <2>1. Stacked(windows, z_order)'
    BY <1>2, <1>5
  <2>2. Focused' /\ SelectionIsListed'
    BY <1>1, <1>5, RowShown
  <2> QED
    BY <1>3, <2>1, <2>2 DEF Shown
<1>6. CASE Button(raised)
  <2>1. PICK z : z = raised
    OBVIOUS
  <2>2. Stacked(windows, z) /\ Button(z)
    BY <1>2, <1>6, <2>1
  <2> QED
    BY <1>1, <2>2, ButtonShown
<1> HIDE DEF raised
<1>7. \/ /\ z_order' = raised
         /\ UNCHANGED <<windows, g_files_dir, g_files_selected, g_editor_file>>
      \/ /\ \E n \in Rows : Row(n)
         /\ z_order' = raised
         /\ UNCHANGED <<windows, g_editor_file>>
      \/ Button(raised)
  BY DEF HitFiles, raised
<1> QED
  BY <1>4, <1>5, <1>6, <1>7

(* Whatever a press hits, the windows shown stay in order. *)
LEMMA PressShown ==
  ASSUME IInv, HandlePress
  PROVE  Shown' /\ (g_drag_idx' # NoDrag => g_drag_idx' = g_drag_idx \/ ev.pressed)
<1>0. Shown
  BY DEF IInv
<1>1. CASE ~ev.pressed \/ g_drag_idx # NoDrag
  <2>1. CASE UNCHANGED <<desktop, focus>>
    <3>1. UNCHANGED <<windows, z_order, g_drag_idx, g_args_focused, g_files_dir,
                      g_files_selected, g_editor_file>>
      BY <2>1 DEF desktop, focus
    <3> QED
      BY <1>0, <3>1 DEF Shown, Stacked, Focused, SelectionIsListed, Dragged
  <2> QED
    BY <1>1, <2>1 DEF HandlePress
<1>2. CASE ev.pressed /\ g_drag_idx = NoDrag
  <2>1. ASSUME NEW s \in Slots,
               HitTaskbar(s) \/ HitTitle(s) \/ HitBody(s)
        PROVE  Shown'
    <3>1. /\ s \in ToSet(z_order) /\ z_order' = Raised(z_order, s)
          /\ UNCHANGED <<windows, focus>> /\ g_drag_idx' \in {NoDrag, s}
      BY <1>2, <2>1 DEF HitTaskbar, HitTitle, HitBody
    <3> QED
      BY <1>0, <1>2, <3>1, RaisedShown
  <2>2. ASSUME NEW s \in Slots, HitClose(s) PROVE Shown'
    BY <1>0, <1>2, <2>2, CloseShown
  <2>3. ASSUME NEW s \in Slots, HitFiles(s) PROVE Shown'
    BY <1>0, <1>2, <2>3, FilesShown
  <2>4. ASSUME NEW app \in Icons, HitIcon(app) PROVE Shown'
    <3>1. app \in Apps /\ app # "EDITOR" /\ Stacked(windows, z_order)
      BY <1>0, Named DEF Shown
    <3>2. Shows(Opened(windows, z_order, app)) /\ UNCHANGED <<g_drag_idx, focus>>
      BY <2>4 DEF HitIcon
    <3> QED
      BY <1>0, <1>2, <3>1, <3>2, OpenedShown
  <2>5. CASE UNCHANGED <<desktop, focus>>
    <3>1. UNCHANGED <<windows, z_order, g_drag_idx, g_args_focused, g_files_dir,
                      g_files_selected, g_editor_file>>
      BY <2>5 DEF desktop, focus
    <3> QED
      BY <1>0, <3>1 DEF Shown, Stacked, Focused, SelectionIsListed, Dragged
  <2> QED
    BY <1>2, <2>1, <2>2, <2>3, <2>4, <2>5 DEF HandlePress, HitNothing
<1> QED
  BY <1>1, <1>2

-----------------------------------------------------------------------------

(* A packet adds edges; a release that ends what is held is one of them.   *)
LEMMA PacketKeeps ==
  ASSUME IInv, NEW down \in BOOLEAN, MousePacket(down)
  PROVE  IInv'
<1>1. /\ left' = down
      /\ g_pending_pressed' = (g_pending_pressed \/ (down /\ ~left))
      /\ g_pending_released' = (g_pending_released \/ (left /\ ~down))
      /\ UNCHANGED <<windows, z_order, g_drag_idx, g_args_focused, g_files_dir,
                     g_files_selected, g_editor_file, tick, ev>>
  BY DEF MousePacket, Edges, desktop, focus
<1>2. Shown'
  BY <1>1 DEF IInv, Shown, Stacked, Focused, SelectionIsListed, Dragged
<1>3. left \in BOOLEAN /\ g_pending_pressed \in BOOLEAN /\ g_pending_released \in BOOLEAN
  BY DEF IInv, Ticking
<1>4. /\ left' \in BOOLEAN /\ g_pending_pressed' \in BOOLEAN /\ g_pending_released' \in BOOLEAN
  BY <1>1, Zenon
<1>5. Ticking'
  BY <1>1, <1>4 DEF IInv, Ticking
<1>6. left \/ g_pending_released => left' \/ g_pending_released'
  BY <1>1, <1>3
<1>7. PressSeen'
  BY <1>1, <1>3, <1>6 DEF IInv, PressSeen
<1>8. PressTaken' /\ DragHeld'
  BY <1>1, <1>6 DEF IInv, PressTaken, DragHeld
<1> QED
  BY <1>2, <1>5, <1>7, <1>8 DEF IInv

(* The tick takes the edges: what was on its way to it is in its event.    *)
LEMMA TakeKeeps ==
  ASSUME IInv, TakeEdges
  PROVE  IInv'
<1>1. /\ tick = "idle" /\ tick' = "press"
      /\ ev' = [pressed |-> g_pending_pressed, released |-> g_pending_released]
      /\ g_pending_pressed' = FALSE /\ g_pending_released' = FALSE
      /\ UNCHANGED <<windows, z_order, g_drag_idx, g_args_focused, g_files_dir,
                     g_files_selected, g_editor_file, left>>
  BY DEF TakeEdges, EdgesTaken, desktop, focus
<1>2. Shown'
  BY <1>1 DEF IInv, Shown, Stacked, Focused, SelectionIsListed, Dragged
<1>3. Ticking'
  BY <1>1 DEF IInv, Ticking
<1>4. ev'.pressed = g_pending_pressed /\ ev'.released = g_pending_released
  BY <1>1
<1>5. PressSeen' /\ PressTaken'
  BY <1>1, <1>4 DEF IInv, PressSeen, PressTaken
<1>6. DragHeld'
  BY <1>1, <1>4 DEF IInv, DragHeld
<1> QED
  BY <1>2, <1>3, <1>5, <1>6 DEF IInv

(* A window can be grabbed only by a press, and a press is held or its     *)
(* release is in the event or still to be taken.                           *)
LEMMA PressKeeps ==
  ASSUME IInv, HandlePress
  PROVE  IInv'
<1>1. /\ tick = "press" /\ tick' = "release"
      /\ UNCHANGED <<left, g_pending_pressed, g_pending_released, ev>>
  BY DEF HandlePress, mouse
<1>2. Shown' /\ (g_drag_idx' # NoDrag => g_drag_idx' = g_drag_idx \/ ev.pressed)
  BY PressShown
<1>3. Ticking' /\ PressSeen' /\ PressTaken'
  BY <1>1 DEF IInv, Ticking, PressSeen, PressTaken
<1>4. DragHeld'
  BY <1>1, <1>2 DEF IInv, DragHeld, PressTaken
<1> QED
  BY <1>2, <1>3, <1>4 DEF IInv

LEMMA ReleaseKeeps ==
  ASSUME IInv, HandleRelease
  PROVE  IInv'
<1>1. /\ tick = "release" /\ tick' = "idle"
      /\ g_drag_idx' = IF ev.released THEN NoDrag ELSE g_drag_idx
      /\ UNCHANGED <<windows, z_order, g_args_focused, g_files_dir, g_files_selected,
                     g_editor_file, left, g_pending_pressed, g_pending_released, ev>>
  BY DEF HandleRelease, focus, mouse
<1>2. Shown'
  BY <1>1 DEF IInv, Shown, Stacked, Focused, SelectionIsListed, Dragged
<1>3. Ticking' /\ PressSeen' /\ PressTaken'
  BY <1>1 DEF IInv, Ticking, PressSeen, PressTaken
<1>4. DragHeld'
  BY <1>1 DEF IInv, DragHeld
<1> QED
  BY <1>2, <1>3, <1>4 DEF IInv

LEMMA EnterKeeps ==
  ASSUME IInv, KeyEnter
  PROVE  IInv'
<1>1. /\ g_args_focused' = FALSE
      /\ UNCHANGED <<windows, z_order, g_drag_idx, g_files_dir, g_files_selected,
                     g_editor_file, left, g_pending_pressed, g_pending_released, tick, ev>>
  BY DEF KeyEnter, desktop, mouse
<1>2. Shown'
  BY <1>1 DEF IInv, Shown, Stacked, Focused, SelectionIsListed, Dragged
<1>3. Ticking' /\ PressSeen' /\ PressTaken' /\ DragHeld'
  BY <1>1 DEF IInv, Ticking, PressSeen, PressTaken, DragHeld
<1> QED
  BY <1>2, <1>3 DEF IInv

LEMMA InitHolds == Init => IInv
<1> SUFFICES ASSUME Init PROVE IInv
  OBVIOUS
<1>1. Stacked(windows, z_order)
  <2>1. windows = [s \in Slots |-> None] /\ z_order = <<>>
    BY DEF Init
  <2>2. z_order \in Seq(Slots) /\ IsInjective(z_order) /\ ToSet(z_order) = {}
    BY <2>1 DEF IsInjective, ToSet
  <2> QED
    BY <2>1, <2>2 DEF Stacked
<1>2. Focused
  BY DEF Init, Focused, Dirs
<1>3. SelectionIsListed
  BY Named DEF Init, SelectionIsListed
<1>4. Dragged /\ DragHeld /\ PressSeen /\ PressTaken
  BY DEF Init, Dragged, DragHeld, PressSeen, PressTaken
<1>5. Ticking
  BY DEF Init, Ticking
<1> QED
  BY <1>1, <1>2, <1>3, <1>4, <1>5 DEF IInv, Shown

LEMMA Inductive == Spec => []IInv
<1>1. ASSUME IInv, [Next]_vars PROVE IInv'
  <2>1. ASSUME NEW down \in BOOLEAN, MousePacket(down) PROVE IInv'
    BY <1>1, <2>1, PacketKeeps
  <2>2. CASE TakeEdges
    BY <1>1, <2>2, TakeKeeps
  <2>3. CASE HandlePress
    BY <1>1, <2>3, PressKeeps
  <2>4. CASE HandleRelease
    BY <1>1, <2>4, ReleaseKeeps
  <2>5. CASE KeyEnter
    BY <1>1, <2>5, EnterKeeps
  <2>6. CASE UNCHANGED vars
    <3>1. UNCHANGED <<windows, z_order, g_drag_idx, g_args_focused, g_files_dir, g_files_selected,
                      g_editor_file, left, g_pending_pressed, g_pending_released, tick, ev>>
      BY <2>6 DEF vars, desktop, focus, mouse
    <3>2. Shown'
      BY <1>1, <3>1 DEF IInv, Shown, Stacked, Focused, SelectionIsListed, Dragged
    <3>3. Ticking' /\ PressSeen' /\ PressTaken' /\ DragHeld'
      BY <1>1, <3>1 DEF IInv, Ticking, PressSeen, PressTaken, DragHeld
    <3> QED
      BY <3>2, <3>3 DEF IInv
  <2> QED
    BY <1>1, <2>1, <2>2, <2>3, <2>4, <2>5, <2>6 DEF Next, GuiTick
<1> QED
  BY <1>1, InitHolds, PTL DEF Spec

(* What the compositor paints, what a click can hit and what the taskbar   *)
(* shows are the same windows, one for an application, whatever is opened, *)
(* closed and raised.                                                      *)
THEOREM TheStackIsTheWindows == Spec => []StackIsTheWindows
<1>1. IInv => StackIsTheWindows
  <2> SUFFICES ASSUME IInv PROVE StackIsTheWindows
    OBVIOUS
  <2>1. Stacked(windows, z_order) /\ Focused /\ Dragged /\ Ticking
    BY DEF IInv, Shown
  <2>2. Len(z_order) <= MAX_WINDOWS
    BY <2>1, Fits DEF Stacked
  <2>3. TypeOK
    BY <2>1, <2>2 DEF TypeOK, Stacked, Focused, Dragged, Ticking
  <2> QED
    BY <2>1, <2>3 DEF StackIsTheWindows, Stacked
<1> QED
  BY <1>1, Inductive, PTL

(* A window is dragged only while the button is down or its release has    *)
(* yet to be handled, wherever in a tick the mouse's interrupts fall; and  *)
(* it is the topmost.                                                      *)
THEOREM DragsAreHeld == Spec => []DragIsHeld
<1>1. IInv => DragIsHeld
  BY DEF IInv, Shown, Dragged, DragHeld, DragIsHeld
<1> QED
  BY <1>1, Inductive, PTL

(* What Open, Edit and Run act on is a file or a program of the directory  *)
(* the Files window lists, and an open editor has a file.                  *)
THEOREM SelectionsAreListed == Spec => []SelectionIsListed
<1>1. IInv => SelectionIsListed
  BY DEF IInv, Shown
<1> QED
  BY <1>1, Inductive, PTL

-----------------------------------------------------------------------------
(* Where the windows are.                                                  *)

Frames == [x : Int, y : Int, w : Nat, h : Nat]

\* A window of the size open_app gives it, with 80 pixels of its title bar
\* or more between the sides of the screen, and all of it above the taskbar
Grippable(app, r) ==
  /\ r \in Frames
  /\ r.w = Smaller(Width[app], W - 40) /\ r.h = Smaller(Height[app], H - 80)
  /\ r.x >= 80 - r.w /\ r.x <= W - 80
  /\ r.y >= 0 /\ r.y <= TaskbarTop - TITLE_H

\* The windows pl are those of the stack z.
Stands(pl, z) ==
  /\ DOMAIN pl \subseteq Openable
  /\ \A a \in DOMAIN pl : Grippable(a, pl[a])
  /\ z \in Seq(Openable) /\ IsInjective(z) /\ ToSet(z) = DOMAIN pl

PlacementInv == /\ Stands(place, stack)
                /\ cascade \in 0..3
                /\ drag.x \in Int /\ drag.y \in Int

(* The screen is large enough for what is asked of it. *)
LEMMA ScreenLarge == W \in Nat /\ W >= 980 /\ H \in Nat /\ H >= 412
  BY PlacementAssumption

(* The sizes of windows. *)
LEMMA SizesAre ==
  ASSUME NEW app \in Openable
  PROVE  /\ Smaller(Width[app], W - 40) \in 280..784 /\ Smaller(Width[app], W - 40) <= W - 40
         /\ Smaller(Height[app], H - 80) \in 332..616 /\ Smaller(Height[app], H - 80) <= H - 80
         /\ app = "CALCULATOR" => Smaller(Width[app], W - 40) = 280
<1>1. app \in {"TERMINAL", "FILES", "MONITOR", "CALCULATOR", "ABOUT", "EDITOR"}
  BY PlacementAssumption DEF Openable, IconY
<1>2. /\ Width[app] \in 280..784 /\ Height[app] \in 340..616
      /\ app = "CALCULATOR" => Width[app] = 280
  BY <1>1 DEF Width, Height
<1> QED
  BY <1>2, ScreenLarge DEF Smaller

(* open_app leaves a window grippable. *)
LEMMA PlacedIs ==
  ASSUME NEW app \in Openable, NEW step \in 0..3
  PROVE  Grippable(app, Placed(app, step))
<1>1. PICK w, h : w = Smaller(Width[app], W - 40) /\ h = Smaller(Height[app], H - 80)
  OBVIOUS
<1>2. w \in 280..784 /\ w <= W - 40 /\ h \in 332..616 /\ h <= H - 80
  BY <1>1, SizesAre
<1>3. PICK x, y : x = Smaller(160 + step * 26, W - w - 10) /\ y = Smaller(60 + step * 26, H - h - 50)
  OBVIOUS
<1>4. x \in Int /\ y \in Int /\ x >= 80 - w /\ x <= W - 80 /\ y >= 0 /\ y <= H - 32 - 24
  BY <1>2, <1>3, ScreenLarge DEF Smaller
<1>5. Placed(app, step) = [x |-> x, y |-> y, w |-> w, h |-> h]
  BY <1>1, <1>3 DEF Placed, Rect
<1>6. [x |-> x, y |-> y, w |-> w, h |-> h] \in Frames
  BY <1>2, <1>4 DEF Frames
<1> QED
  BY <1>1, <1>4, <1>5, <1>6 DEF Grippable, TaskbarTop, TASKBAR_H, TITLE_H

(* So does gui_tick's drag, wherever the pointer goes. *)
LEMMA LimitedIs ==
  ASSUME NEW app \in Openable, NEW r, Grippable(app, r), NEW nx \in Int, NEW ny \in Int
  PROVE  Grippable(app, Limited(r, nx, ny))
<1>1. r \in Frames /\ r.w \in 280..784 /\ r.w \in Nat
  BY SizesAre DEF Grippable, Frames
<1>2. PICK x, y : /\ x = Smaller(Larger(nx, 80 - r.w), W - 80)
                  /\ y = Smaller(Larger(ny, 0), TaskbarTop - TITLE_H)
  OBVIOUS
<1>3. x \in Int /\ y \in Int /\ x >= 80 - r.w /\ x <= W - 80 /\ y >= 0 /\ y <= TaskbarTop - TITLE_H
  BY <1>1, <1>2, ScreenLarge DEF Smaller, Larger, TaskbarTop, TASKBAR_H, TITLE_H
<1>4. PICK t : t = [r EXCEPT !.x = x, !.y = y]
  OBVIOUS
<1>5. Limited(r, nx, ny) = t
  BY <1>2, <1>4 DEF Limited
<1>6. t \in Frames /\ t.x = x /\ t.y = y /\ t.w = r.w /\ t.h = r.h
  BY <1>1, <1>3, <1>4 DEF Frames
<1> QED
  BY <1>3, <1>5, <1>6 DEF Grippable

(* The windows stay the stack when one is raised,                          *)
LEMMA RaisedStands ==
  ASSUME NEW pl, NEW z, Stands(pl, z), NEW app
  PROVE  Stands(pl, Raised(z, app))
<1>1. PICK r : r = Raised(z, app)
  OBVIOUS
<1>2. r \in Seq(Openable) /\ IsInjective(r) /\ ToSet(r) = ToSet(z)
  BY <1>1, RaisedIs DEF Stands
<1> QED
  BY <1>1, <1>2 DEF Stands

(* when one is closed,                                                     *)
LEMMA ClosedStands ==
  ASSUME Stands(place, stack), NEW app, CloseWindow(app)
  PROVE  Stands(place', stack')
<1>1. stack' \in Seq(Openable) /\ IsInjective(stack') /\ ToSet(stack') = ToSet(stack) \ {app}
  BY RemovedIs DEF Stands, CloseWindow
<1>2. DOMAIN place' = DOMAIN place \ {app} /\ \A a \in DOMAIN place' : place'[a] = place[a]
  BY DEF CloseWindow
<1> QED
  BY <1>1, <1>2 DEF Stands

(* and when an application is opened.                                      *)
LEMMA OpenedStands ==
  ASSUME NEW z, Stands(place, z), cascade \in 0..3, NEW app \in Openable, OpenApp(app, z)
  PROVE  Stands(place', stack') /\ cascade' \in 0..3
<1>1. CASE app \in DOMAIN place
  <2>1. stack' = Raised(z, app) /\ place' = place /\ cascade' = cascade
    BY <1>1 DEF OpenApp
  <2>2. Stands(place, Raised(z, app))
    BY RaisedStands
  <2> QED
    BY <2>1, <2>2
<1>2. CASE app \notin DOMAIN place
  <2>1. /\ stack' = Append(z, app) /\ cascade' = (cascade + 1) % 4
        /\ place' = [a \in DOMAIN place \union {app} |->
                       IF a = app THEN Placed(app, cascade) ELSE place[a]]
    BY <1>2 DEF OpenApp
  <2>2. stack' \in Seq(Openable) /\ IsInjective(stack') /\ ToSet(stack') = ToSet(z) \union {app}
    BY <1>2, <2>1, PushedIs DEF Stands
  <2>3. /\ DOMAIN place' = DOMAIN place \union {app}
        /\ \A a \in DOMAIN place' : place'[a] = IF a = app THEN Placed(app, cascade) ELSE place[a]
    BY <2>1
  <2>4. Grippable(app, Placed(app, cascade))
    BY PlacedIs
  <2>5. cascade' \in 0..3
    BY <2>1
  <2> QED
    BY <2>2, <2>3, <2>4, <2>5 DEF Stands
<1> QED
  BY <1>1, <1>2

(* A set of positions has a greatest. *)
LEMMA Greatest ==
  ASSUME NEW n \in Nat, NEW S \in SUBSET (1..n), S # {}
  PROVE  \E m \in S : \A k \in S : k <= m
<1>1. PICK R : R = {n - k : k \in S}
  OBVIOUS
<1>2. R \in SUBSET Nat /\ R # {}
  <2>1. \A k \in S : n - k \in Nat
    OBVIOUS
  <2> QED
    BY <1>1, <2>1
<1>3. PICK d \in R : \A e \in R : d <= e
  BY <1>2, Least
<1>4. PICK m \in S : d = n - m
  BY <1>1
<1>5. ASSUME NEW k \in S PROVE k <= m
  <2>1. d <= n - k
    BY <1>1, <1>3
  <2>2. k \in Int /\ m \in Int
    OBVIOUS
  <2> QED
    BY <1>4, <2>1, <2>2
<1> QED
  BY <1>5

\* The topmost of the lowest n windows that p is in
Topmost(p, n) == CHOOSE i \in Under(p) : i <= n /\ \A j \in Under(p) : j <= n => j <= i
Covering(p, n) == IF \E i \in Under(p) : i <= n THEN stack[Topmost(p, n)] ELSE None

(* If a window covers p, one of them is topmost.                           *)
LEMMA TopmostIs ==
  ASSUME Stands(place, stack), NEW p, NEW n \in Nat, \E i \in Under(p) : i <= n
  PROVE  /\ Topmost(p, n) \in Under(p) /\ Topmost(p, n) <= n
         /\ \A j \in Under(p) : j <= n => j <= Topmost(p, n)
<1>1. PICK S : S = {i \in Under(p) : i <= n}
  OBVIOUS
<1>2. DOMAIN stack = 1..Len(stack) /\ Under(p) \subseteq DOMAIN stack
  BY DEF Stands, Under
<1>3. S \in SUBSET (1..n) /\ S # {}
  BY <1>1, <1>2
<1>4. \E i \in S : \A k \in S : k <= i
  BY <1>3, Greatest
<1>5. \E i \in Under(p) : i <= n /\ \A j \in Under(p) : j <= n => j <= i
  BY <1>1, <1>4
<1> QED
  BY <1>5 DEF Topmost

(* What is hit is the topmost window that the press is in. *)
LEMMA HitIs ==
  ASSUME Stands(place, stack), NEW p
  PROVE  /\ Hit(p) = Covering(p, Len(stack))
         /\ Hit(p) # None => Hit(p) \in DOMAIN place
<1>1. /\ Len(stack) \in Nat /\ DOMAIN stack = 1..Len(stack) /\ Under(p) \subseteq DOMAIN stack
      /\ \A i \in DOMAIN stack : stack[i] \in DOMAIN place
  BY DEF Stands, Under, ToSet
<1>2. \A i \in Under(p) : i <= Len(stack)
  BY <1>1
<1>3. CASE Under(p) = {}
  BY <1>3 DEF Hit, Covering
<1>4. CASE Under(p) # {}
  <2>1. Hit(p) = stack[CHOOSE i \in Under(p) : \A j \in Under(p) : j <= i]
    BY <1>4 DEF Hit
  <2>2. PICK top, top2 : /\ top = CHOOSE i \in Under(p) : \A j \in Under(p) : j <= i
                         /\ top2 = Topmost(p, Len(stack))
    OBVIOUS
  <2>3. /\ top2 \in Under(p)
        /\ \A j \in Under(p) : j <= top2
    BY <1>1, <1>2, <1>4, <2>2, TopmostIs
  <2>4. top \in Under(p) /\ \A j \in Under(p) : j <= top
    BY <2>2, <2>3
  <2>5. top = top2
    BY <1>1, <2>3, <2>4
  <2>6. Covering(p, Len(stack)) = stack[top2]
    BY <1>2, <1>4, <2>2 DEF Covering
  <2> QED
    BY <1>1, <2>1, <2>2, <2>4, <2>5, <2>6
<1> QED
  BY <1>3, <1>4

\* f is what the painting has made of the point p after each window.
PaintedBy(f, p) ==
  /\ f = [n \in 0..Len(stack) |-> f[n]]
  /\ \A n \in 0..Len(stack) :
       f[n] = IF n = 0 THEN None
              ELSE IF PointIn(p, place[stack[n]]) THEN stack[n] ELSE f[n - 1]

(* Each window painted is the topmost so far, where it is. *)
LEMMA CoveringNext ==
  ASSUME Stands(place, stack), NEW p, NEW n \in 0..Len(stack)
  PROVE  Covering(p, n) = IF n = 0 THEN None
                          ELSE IF PointIn(p, place[stack[n]]) THEN stack[n] ELSE Covering(p, n - 1)
<1>1. DOMAIN stack = 1..Len(stack) /\ Under(p) \subseteq 1..Len(stack) /\ Len(stack) \in Nat
  BY DEF Stands, Under
<1>2. CASE n = 0
  <2>1. ~\E i \in Under(p) : i <= n
    BY <1>1, <1>2
  <2> QED
    BY <1>2, <2>1 DEF Covering
<1>3. CASE n # 0
  <2>1. n \in 1..Len(stack) /\ n - 1 \in Nat /\ n \in Nat
    BY <1>1, <1>3
  <2>2. n \in Under(p) <=> PointIn(p, place[stack[n]])
    BY <1>1, <2>1 DEF Under
  <2>3. CASE n \in Under(p)
    <3>1. Topmost(p, n) \in Under(p) /\ Topmost(p, n) <= n /\ n <= Topmost(p, n)
      BY <2>1, <2>3, TopmostIs
    <3>2. Topmost(p, n) = n
      BY <1>1, <2>1, <3>1
    <3> QED
      BY <1>3, <2>1, <2>2, <2>3, <3>2 DEF Covering
  <2>4. CASE n \notin Under(p)
    <3>1. \A i \in Under(p) : i <= n <=> i <= n - 1
      BY <1>1, <2>1, <2>4
    <3>2. CASE \E i \in Under(p) : i <= n
      <4>1. PICK t1, t2 : t1 = Topmost(p, n) /\ t2 = Topmost(p, n - 1)
        OBVIOUS
      <4>2. t1 \in Under(p) /\ t1 <= n /\ \A j \in Under(p) : j <= n => j <= t1
        BY <2>1, <3>2, <4>1, TopmostIs
      <4>3. t2 \in Under(p) /\ t2 <= n - 1 /\ \A j \in Under(p) : j <= n - 1 => j <= t2
        BY <2>1, <3>1, <3>2, <4>1, TopmostIs
      <4>4. t1 = t2
        BY <1>1, <3>1, <4>2, <4>3
      <4> QED
        BY <1>3, <2>2, <2>4, <3>1, <3>2, <4>1, <4>4 DEF Covering
    <3>3. CASE ~\E i \in Under(p) : i <= n
      BY <1>3, <2>2, <2>4, <3>1, <3>3 DEF Covering
    <3> QED
      BY <3>2, <3>3
  <2> QED
    BY <2>3, <2>4
<1> QED
  BY <1>2, <1>3

(* What is seen somewhere is what a press there hits. *)
LEMMA SeenIs ==
  ASSUME Stands(place, stack), NEW p
  PROVE  Seen(p) = Hit(p)
<1>0. Len(stack) \in Nat
  BY DEF Stands
<1> DEFINE P(f) == f = [n \in 0..Len(stack) |->
                         IF n = 0 THEN None
                         ELSE IF PointIn(p, place[stack[n]]) THEN stack[n] ELSE f[n - 1]]
<1>1. \E f : P(f)
  <2>1. PICK f : f = [n \in 0..Len(stack) |-> Covering(p, n)]
    OBVIOUS
  <2>2. \A n \in 0..Len(stack) : n # 0 => f[n - 1] = Covering(p, n - 1)
    BY <1>0, <2>1
  <2>3. \A n \in 0..Len(stack) :
          f[n] = IF n = 0 THEN None
                 ELSE IF PointIn(p, place[stack[n]]) THEN stack[n] ELSE f[n - 1]
    BY <2>1, <2>2, CoveringNext
  <2>4. f = [n \in 0..Len(stack) |-> f[n]]
    BY <2>1
  <2>5. P(f)
    BY <2>3, <2>4
  <2> QED
    BY <2>5
<1>2. PICK f : f = (CHOOSE g : P(g))
  OBVIOUS
<1>3. PaintedBy(f, p)
  <2>1. P(f)
    BY <1>1, <1>2
  <2> QED
    BY <2>1 DEF PaintedBy
<1>4. Seen(p) = f[Len(stack)]
  BY <1>2 DEF Seen
<1> HIDE DEF P
<1> DEFINE S == {n \in 0..Len(stack) : f[n] # Covering(p, n)}
<1>5. ASSUME S # {} PROVE FALSE
  <2>1. PICK n \in S : \A k \in S : n <= k
    <3> HIDE DEF S
    <3>1. S \subseteq Nat
      BY DEF S
    <3> QED
      BY <1>5, <3>1, Least
  <2>2. n \in 0..Len(stack) /\ f[n] # Covering(p, n)
    OBVIOUS
  <2>3. CASE n = 0
    BY <1>3, <2>2, <2>3, CoveringNext DEF PaintedBy
  <2>4. CASE n # 0
    <3>1. n - 1 \in 0..Len(stack) /\ ~(n <= n - 1)
      BY <1>0, <2>2, <2>4
    <3>2. f[n - 1] = Covering(p, n - 1)
      BY <2>1, <3>1
    <3> QED
      BY <1>3, <2>2, <2>4, <3>2, CoveringNext DEF PaintedBy
  <2> QED
    BY <2>3, <2>4
<1>6. f[Len(stack)] = Covering(p, Len(stack))
  <2>1. Len(stack) \in 0..Len(stack)
    BY <1>0
  <2> QED
    BY <1>5, <2>1
<1> QED
  BY <1>4, <1>6, HitIs


(* Where presses are tried are points. *)
LEMMA PointsAre ==
  ASSUME Stands(place, stack), NEW p \in Points
  PROVE  p.x \in Int /\ p.y \in Int
<1>1. ASSUME NEW r \in [x : Int, y : Int, w : Int, h : Int], p = Centre(r)
      PROVE  p.x \in Int /\ p.y \in Int
  <2>1. r.w \div 2 \in Int /\ r.h \div 2 \in Int
    OBVIOUS
  <2> QED
    BY <1>1, <2>1 DEF Centre
<1>2. ASSUME NEW a \in DOMAIN place,
             p \in TitleEnds(place[a]) \union {Centre(place[a]), Centre(CloseButton(place[a]))}
      PROVE  p.x \in Int /\ p.y \in Int
  <2>1. PICK r : r = place[a] /\ r \in Frames
    BY DEF Stands, Grippable
  <2>2. CASE p \in TitleEnds(r)
    BY <2>1, <2>2 DEF TitleEnds, Frames
  <2>3. CASE p = Centre(r)
    <3>1. r \in [x : Int, y : Int, w : Int, h : Int]
      BY <2>1 DEF Frames
    <3> QED
      BY <1>1, <2>3, <3>1
  <2>4. CASE p = Centre(CloseButton(r))
    <3>1. CloseButton(r) \in [x : Int, y : Int, w : Int, h : Int]
      BY <2>1 DEF CloseButton, Rect, Frames
    <3> QED
      BY <1>1, <2>4, <3>1
  <2> QED
    BY <1>2, <2>1, <2>2, <2>3, <2>4
<1>3. ASSUME NEW app \in Icons, p = Centre(Icon(app))
      PROVE  p.x \in Int /\ p.y \in Int
  <2>1. app \in {"TERMINAL", "FILES", "MONITOR", "CALCULATOR", "ABOUT"}
    BY PlacementAssumption DEF IconY
  <2>2. IconY[app] \in Int
    BY <2>1 DEF IconY
  <2>3. Icon(app) \in [x : Int, y : Int, w : Int, h : Int]
    BY <2>2 DEF Icon, Rect
  <2> QED
    BY <1>1, <1>3, <2>3
<1>4. ASSUME NEW i \in DOMAIN stack, p = Centre(TaskbarButton(i))
      PROVE  p.x \in Int /\ p.y \in Int
  <2>1. i \in Int
    BY DEF Stands
  <2>2. TaskbarButton(i) \in [x : Int, y : Int, w : Int, h : Int]
    BY <2>1, ScreenLarge DEF TaskbarButton, Rect, TaskbarTop, TASKBAR_H
  <2> QED
    BY <1>1, <1>4, <2>2
<1>5. \/ \E a \in DOMAIN place :
           p \in TitleEnds(place[a]) \union {Centre(place[a]), Centre(CloseButton(place[a]))}
      \/ \E app \in Icons : p = Centre(Icon(app))
      \/ \E i \in DOMAIN stack : p = Centre(TaskbarButton(i))
  BY Zenon DEF Points
<1> QED
  BY <1>2, <1>3, <1>4, <1>5

(* No press makes a window one that cannot be got back,                    *)
LEMMA PressKeepsPlaces ==
  ASSUME PlacementInv, Press
  PROVE  PlacementInv'
<1>1. PICK p \in Points : PressTaskbar(p) \/ PressClose(p) \/ PressTitle(p) \/ PressBody(p) \/ PressIcon(p)
  BY DEF Press, Presses
<1>2. Stands(place, stack) /\ cascade \in 0..3 /\ drag.x \in Int /\ drag.y \in Int
  BY DEF PlacementInv
<1>3. CASE PressTaskbar(p)
  <2>1. PICK i \in DOMAIN stack : stack' = Raised(stack, stack[i])
    BY <1>3 DEF PressTaskbar
  <2>2. Stands(place, stack')
    BY <1>2, <2>1, RaisedStands
  <2> QED
    BY <1>2, <1>3, <2>2 DEF PressTaskbar, PlacementInv
<1>4. CASE PressClose(p)
  <2>1. Stands(place', stack')
    BY <1>2, <1>4, ClosedStands DEF PressClose
  <2> QED
    BY <1>2, <1>4, <2>1 DEF PressClose, CloseWindow, PlacementInv
<1>5. CASE PressTitle(p)
  <2>1. Stands(place, stack')
    BY <1>2, <1>5, RaisedStands DEF PressTitle
  <2>2. PICK r : r = place[Hit(p)] /\ r \in Frames
    <3>1. Hit(p) \in DOMAIN place
      BY <1>2, <1>5, HitIs DEF PressTitle
    <3> QED
      BY <1>2, <3>1 DEF Stands, Grippable
  <2>3. drag' = [app |-> Hit(p), x |-> r.x - p.x, y |-> r.y - p.y]
    BY <1>5, <2>2 DEF PressTitle
  <2>4. drag'.x \in Int /\ drag'.y \in Int
    BY <1>2, <2>2, <2>3, PointsAre DEF Frames
  <2> QED
    BY <1>2, <1>5, <2>1, <2>4 DEF PressTitle, PlacementInv
<1>6. CASE PressBody(p)
  <2>1. CASE stack' = Raised(stack, Hit(p)) /\ UNCHANGED <<place, cascade>>
    <3>1. Stands(place, stack')
      BY <1>2, <2>1, RaisedStands
    <3> QED
      BY <1>2, <1>6, <2>1, <3>1 DEF PressBody, PlacementInv
  <2>2. CASE \E app \in FromFiles : OpenApp(app, Raised(stack, "FILES"))
    <3>1. PICK app \in Openable : OpenApp(app, Raised(stack, "FILES"))
      BY <2>2 DEF Openable
    <3>2. Stands(place, Raised(stack, "FILES"))
      BY <1>2, RaisedStands
    <3>3. Stands(place', stack') /\ cascade' \in 0..3
      BY <1>2, <3>1, <3>2, OpenedStands
    <3> QED
      BY <1>2, <1>6, <3>3 DEF PressBody, PlacementInv
  <2> QED
    BY <1>6, <2>1, <2>2 DEF PressBody
<1>7. CASE PressIcon(p)
  <2>1. PICK app \in Openable : OpenApp(app, stack)
    BY <1>7 DEF PressIcon, Openable
  <2>2. Stands(place', stack') /\ cascade' \in 0..3
    BY <1>2, <2>1, OpenedStands
  <2> QED
    BY <1>2, <1>7, <2>2 DEF PressIcon, PlacementInv
<1> QED
  BY <1>1, <1>3, <1>4, <1>5, <1>6, <1>7

(* and no tick of a drag.                                                  *)
LEMMA DragKeepsPlaces ==
  ASSUME PlacementInv, NEW p \in Pointed, NEW released \in BOOLEAN, DragTo(p, released)
  PROVE  PlacementInv'
<1>1. PICK nx, ny : nx = p.x + drag.x /\ ny = p.y + drag.y
  OBVIOUS
<1>2. nx \in Int /\ ny \in Int
  <2>1. p.x \in Int /\ p.y \in Int
    BY PlacementAssumption
  <2> QED
    BY <1>1, <2>1 DEF PlacementInv
<1>3. /\ place' = [place EXCEPT ![drag.app] = Limited(@, nx, ny)]
      /\ stack' = stack /\ cascade' = cascade
      /\ drag' = IF released THEN NotHeld ELSE drag
  BY <1>1 DEF DragTo
<1>4. /\ DOMAIN place' = DOMAIN place
      /\ \A a \in DOMAIN place : place'[a] = IF a = drag.app THEN Limited(place[a], nx, ny) ELSE place[a]
  BY <1>3
<1>5. Stands(place', stack')
  <2>1. ASSUME NEW a \in DOMAIN place PROVE Grippable(a, place'[a])
    BY <1>2, <1>4, LimitedIs DEF PlacementInv, Stands
  <2> QED
    BY <1>3, <1>4, <2>1 DEF PlacementInv, Stands
<1>6. drag'.x \in Int /\ drag'.y \in Int
  BY <1>3 DEF PlacementInv, NotHeld
<1> QED
  BY <1>3, <1>5, <1>6 DEF PlacementInv

(* So all windows are, always.                                             *)
LEMMA PlacesInductive == PlacementSpec => []PlacementInv
<1>1. PlacementInit => PlacementInv
  <2> SUFFICES ASSUME PlacementInit PROVE PlacementInv
    OBVIOUS
  <2>1. DOMAIN place = {} /\ stack = <<>> /\ cascade = 0 /\ drag.x = 0 /\ drag.y = 0
    BY DEF PlacementInit, NotHeld
  <2>2. stack \in Seq(Openable) /\ IsInjective(stack) /\ ToSet(stack) = {}
    BY <2>1 DEF IsInjective, ToSet
  <2> QED
    BY <2>1, <2>2 DEF PlacementInv, Stands
<1>2. PlacementInv /\ [PlacementNext]_placementVars => PlacementInv'
  <2> SUFFICES ASSUME PlacementInv, [PlacementNext]_placementVars PROVE PlacementInv'
    OBVIOUS
  <2>1. CASE Press
    BY <2>1, PressKeepsPlaces
  <2>2. ASSUME NEW p \in Pointed, NEW released \in BOOLEAN, DragTo(p, released) PROVE PlacementInv'
    BY <2>2, DragKeepsPlaces
  <2>3. CASE UNCHANGED placementVars
    BY <2>3 DEF placementVars, PlacementInv, Stands
  <2> QED
    BY <2>1, <2>2, <2>3 DEF PlacementNext
<1> QED
  BY <1>1, <1>2, PTL DEF PlacementSpec


(* There are six applications, and no more windows. *)
LEMMA SixWindows ==
  ASSUME Stands(place, stack)
  PROVE  Len(stack) \in 0..6
<1>1. PICK Six : Six = {"TERMINAL", "FILES", "MONITOR", "CALCULATOR", "ABOUT", "EDITOR"}
  OBVIOUS
<1>2. IsFiniteSet(Six) /\ Cardinality(Six) <= 6
  <2> DEFINE A == {"TERMINAL"}
             B == A \union {"FILES"}
             C == B \union {"MONITOR"}
             D == C \union {"CALCULATOR"}
             E == D \union {"ABOUT"}
             F == E \union {"EDITOR"}
  <2>1. IsFiniteSet(A) /\ Cardinality(A) = 1
    BY FS_Singleton
  <2>2. Six = F
    BY <1>1
  <2> HIDE DEF A, B, C, D, E, F
  <2>3. IsFiniteSet(B) /\ Cardinality(B) \in {1, 2}
    BY <2>1, FS_AddElement DEF B
  <2>4. IsFiniteSet(C) /\ Cardinality(C) \in 1..3
    BY <2>3, FS_AddElement DEF C
  <2>5. IsFiniteSet(D) /\ Cardinality(D) \in 1..4
    BY <2>4, FS_AddElement DEF D
  <2>6. IsFiniteSet(E) /\ Cardinality(E) \in 1..5
    BY <2>5, FS_AddElement DEF E
  <2>7. IsFiniteSet(F) /\ Cardinality(F) \in 1..6
    BY <2>6, FS_AddElement DEF F
  <2> QED
    BY <2>2, <2>7
<1>3. Openable \subseteq Six
  BY <1>1, PlacementAssumption DEF Openable, IconY
<1>4. stack \in Seq(Six) /\ IsInjective(stack) /\ Len(stack) \in Nat
  <2>1. stack \in Seq(Openable) /\ IsInjective(stack)
    BY DEF Stands
  <2> QED
    BY <1>3, <2>1
<1>5. Len(stack) <= Cardinality(Six)
  BY <1>2, <1>4, NoMoreThan
<1>6. Cardinality(Six) \in Nat
  BY <1>2, FS_CardinalityType
<1>7. PICK n, m : n = Len(stack) /\ m = Cardinality(Six) /\ n \in Nat /\ m \in Nat /\ n <= m /\ m <= 6
  BY <1>2, <1>4, <1>5, <1>6
<1>8. n \in 0..6
  BY <1>7, SMTT(30)
<1> QED
  BY <1>7, <1>8

(* Such windows have a grip, and a taskbar button each.                    *)
LEMMA AlwaysRecoverable ==
  ASSUME Stands(place, stack)
  PROVE  Recoverable
<1>1. ASSUME NEW a \in DOMAIN place, NEW r, r = place[a],
             NEW grip, grip = [x |-> Larger(r.x, 0), y |-> r.y + 6]
      PROVE  /\ PointIn(grip, Whole) /\ PointIn(grip, TitleBar(r))
             /\ r.y + TITLE_H <= TaskbarTop
             /\ ~PointIn(grip, CloseButton(r))
             /\ \E i \in DOMAIN stack : stack[i] = a
  <2>1. PICK x, y, w : x = r.x /\ y = r.y /\ w = r.w
    OBVIOUS
  <2>2. /\ x \in Int /\ y \in Int /\ w \in 280..784
        /\ x >= 80 - w /\ x <= W - 80 /\ y >= 0 /\ y <= H - 32 - 24
    <3>1. a \in Openable /\ Grippable(a, r)
      BY <1>1 DEF Stands
    <3>2. r.w \in 280..784
      <4>1. r.w = Smaller(Width[a], W - 40)
        BY <3>1 DEF Grippable
      <4> QED
        BY <3>1, <4>1, SizesAre
    <3>3. r.x \in Int /\ r.y \in Int
      BY <3>1 DEF Grippable, Frames
    <3>4. r.x >= 80 - r.w /\ r.x <= W - 80 /\ r.y >= 0 /\ r.y <= H - 32 - 24
      BY <3>1 DEF Grippable, TaskbarTop, TASKBAR_H, TITLE_H
    <3> QED
      BY <2>1, <3>2, <3>3, <3>4
  <2>3. PICK gx : gx = Larger(x, 0)
    OBVIOUS
  <2>4. gx \in Int /\ gx >= 0 /\ gx >= x /\ gx < W /\ gx < x + w - 22
    BY <2>2, <2>3, ScreenLarge DEF Larger
  <2>5. grip.x = gx /\ grip.y = y + 6
    BY <1>1, <2>1, <2>3
  <2>6. PointIn(grip, Whole)
    <3>1. Whole.x = 0 /\ Whole.y = 0 /\ Whole.w = W /\ Whole.h = H
      BY DEF Whole, Rect
    <3> QED
      BY <2>2, <2>4, <2>5, <3>1, ScreenLarge DEF PointIn
  <2>7. PointIn(grip, TitleBar(r))
    <3>1. TitleBar(r).x = x /\ TitleBar(r).y = y /\ TitleBar(r).w = w /\ TitleBar(r).h = 24
      BY <2>1 DEF TitleBar, Rect, TITLE_H
    <3> QED
      BY <2>2, <2>4, <2>5, <3>1 DEF PointIn
  <2>8. ~PointIn(grip, CloseButton(r))
    <3>1. CloseButton(r).x = x + w - 22
      BY <2>1 DEF CloseButton, Rect
    <3> QED
      BY <2>2, <2>4, <2>5, <3>1 DEF PointIn
  <2>9. r.y + TITLE_H <= TaskbarTop
    BY <2>1, <2>2, ScreenLarge DEF TaskbarTop, TASKBAR_H, TITLE_H
  <2>10. \E i \in DOMAIN stack : stack[i] = a
    BY DEF Stands, ToSet
  <2> QED
    BY <2>6, <2>7, <2>8, <2>9, <2>10
<1>2. ASSUME NEW i \in DOMAIN stack, NEW j \in DOMAIN stack
      PROVE  /\ TaskbarButton(i).x + TaskbarButton(i).w <= W
             /\ PointIn(Centre(TaskbarButton(i)), TaskbarButton(j)) => i = j
  <2>1. i \in 1..6 /\ j \in 1..6
    <3>1. DOMAIN stack = 1..Len(stack)
      BY DEF Stands
    <3> QED
      BY <3>1, SixWindows
  <2>2. TaskbarButton(i).x + TaskbarButton(i).w <= W
    <3>1. TaskbarButton(i).x = 110 + (i - 1) * 146 /\ TaskbarButton(i).w = 140
      BY DEF TaskbarButton, Rect
    <3> QED
      BY <2>1, <3>1, ScreenLarge
  <2>3. Centre(TaskbarButton(i)).x = 110 + (i - 1) * 146 + 70
    BY DEF Centre, TaskbarButton, Rect
  <2>4. TaskbarButton(j).x = 110 + (j - 1) * 146 /\ TaskbarButton(j).w = 140
    BY DEF TaskbarButton, Rect
  <2>5. PointIn(Centre(TaskbarButton(i)), TaskbarButton(j)) => i = j
    BY <2>1, <2>3, <2>4 DEF PointIn
  <2> QED
    BY <2>2, <2>5
<1> QED
  BY <1>1, <1>2 DEF Recoverable

(* Where the calculator's buttons are. *)
LEMMA ButtonsAre ==
  ASSUME NEW r \in Frames, r.w = 280, NEW b \in CalculatorButtons(r)
  PROVE  \E col \in 0..3, row \in 0..4, w \in {63, 130} :
           /\ b = Rect(r.x + 8 + col * 67, r.y + 96 + row * 48, w, 44)
           /\ IF row = 4 THEN col \in {0, 2} /\ w = 130 ELSE w = 63
<1> DEFINE cell   == (r.w - 2 * WIN_PAD - 12) \div 4
           x(col) == r.x + WIN_PAD + col * (cell + 4)
           y(row) == r.y + TITLE_H + WIN_PAD + 64 + row * 48
<1>1. cell = 63
  BY DEF WIN_PAD
<1>2. r.x \in Int /\ r.y \in Int
  BY DEF Frames
<1>3. \A col \in 0..3 : x(col) = r.x + 8 + col * 67
  BY <1>1, <1>2 DEF WIN_PAD
<1>4. \A row \in 0..4 : y(row) = r.y + 96 + row * 48
  BY <1>2 DEF WIN_PAD, TITLE_H
<1>5. \/ \E col \in 0..3, row \in 0..3 : b = Rect(x(col), y(row), cell, 44)
      \/ \E col \in {0, 2} : b = Rect(x(col), y(4), 2 * cell + 4, 44)
  BY DEF CalculatorButtons
<1> HIDE DEF cell, x, y
<1>6. ASSUME NEW col \in 0..3, NEW row \in 0..3, b = Rect(x(col), y(row), cell, 44)
      PROVE  b = Rect(r.x + 8 + col * 67, r.y + 96 + row * 48, 63, 44) /\ row \in 0..4 /\ row # 4
  BY <1>1, <1>3, <1>4, <1>6
<1>7. ASSUME NEW col \in {0, 2}, b = Rect(x(col), y(4), 2 * cell + 4, 44)
      PROVE  b = Rect(r.x + 8 + col * 67, r.y + 96 + 4 * 48, 130, 44) /\ col \in 0..3
  BY <1>1, <1>3, <1>4, <1>7
<1> QED
  BY <1>5, <1>6, <1>7

(* The calculator's buttons are apart and inside its window.               *)
LEMMA ButtonsApart ==
  ASSUME NEW r, Grippable("CALCULATOR", r), "CALCULATOR" \in Openable, NEW b \in CalculatorButtons(r)
  PROVE  /\ PointIn(b, r) /\ b.x + b.w <= r.x + r.w /\ b.y + b.h <= r.y + r.h
         /\ b.y >= r.y + TITLE_H
         /\ \A c \in CalculatorButtons(r) : PointIn(Centre(b), c) => b = c
<1>1. r \in Frames /\ r.x \in Int /\ r.y \in Int /\ r.w = 280 /\ r.h \in 332..616
  BY SizesAre DEF Grippable, Frames
<1>2. PICK col \in 0..3, row \in 0..4, w \in {63, 130} :
        /\ b = Rect(r.x + 8 + col * 67, r.y + 96 + row * 48, w, 44)
        /\ IF row = 4 THEN col \in {0, 2} /\ w = 130 ELSE w = 63
  BY <1>1, ButtonsAre
<1>3. /\ b.x = r.x + 8 + col * 67 /\ b.y = r.y + 96 + row * 48 /\ b.w = w /\ b.h = 44
      /\ Centre(b).x = b.x + w \div 2 /\ Centre(b).y = b.y + 22
  BY <1>2 DEF Rect, Centre
<1>4. b.x + b.w <= r.x + r.w /\ b.y + b.h <= r.y + r.h
  BY <1>1, <1>2, <1>3
<1>5. PointIn(b, r) /\ b.y >= r.y + TITLE_H
  BY <1>1, <1>2, <1>3 DEF PointIn, TITLE_H
<1>6. ASSUME NEW c \in CalculatorButtons(r), PointIn(Centre(b), c) PROVE b = c
  <2>1. PICK col2 \in 0..3, row2 \in 0..4, w2 \in {63, 130} :
          /\ c = Rect(r.x + 8 + col2 * 67, r.y + 96 + row2 * 48, w2, 44)
          /\ IF row2 = 4 THEN col2 \in {0, 2} /\ w2 = 130 ELSE w2 = 63
    BY <1>1, ButtonsAre
  <2>2. c.x = r.x + 8 + col2 * 67 /\ c.y = r.y + 96 + row2 * 48 /\ c.w = w2 /\ c.h = 44
    BY <2>1 DEF Rect
  <2>3. row = row2
    BY <1>1, <1>2, <1>3, <1>6, <2>1, <2>2 DEF PointIn
  <2>4. w = w2
    BY <1>2, <2>1, <2>3
  <2>5. col = col2
    <3>1. w \div 2 \in {31, 65} /\ (w = 63 => w \div 2 = 31) /\ (w = 130 => w \div 2 = 65)
      OBVIOUS
    <3> QED
      BY <1>1, <1>2, <1>3, <1>6, <2>1, <2>2, <2>4, <3>1 DEF PointIn
  <2> QED
    BY <1>2, <2>1, <2>3, <2>4, <2>5
<1> QED
  BY <1>4, <1>5, <1>6

(* Every window can be got back, wherever it was opened or dragged to, and *)
(* a press goes to what is seen, on a screen of any size from 980 by 412,  *)
(* after any presses and any movements of the pointer.                     *)
THEOREM WindowsCanBeReached == PlacementSpec => []Reachable
<1>1. PlacementInv => Reachable
  <2> SUFFICES ASSUME PlacementInv PROVE Reachable
    OBVIOUS
  <2>1. Stands(place, stack)
    BY DEF PlacementInv
  <2>2. Recoverable
    BY <2>1, AlwaysRecoverable
  <2>3. \A p \in Points : p.y < TaskbarTop => Seen(p) = Hit(p)
    BY <2>1, SeenIs
  <2>4. ASSUME "CALCULATOR" \in DOMAIN place, NEW r, r = place["CALCULATOR"]
        PROVE  Grippable("CALCULATOR", r) /\ "CALCULATOR" \in Openable
    BY <2>1, <2>4 DEF Stands
  <2>5. SeenIsHit
    BY <2>3, <2>4, ButtonsApart DEF SeenIsHit
  <2> QED
    BY <2>2, <2>5 DEF Reachable
<1> QED
  BY <1>1, PlacesInductive, PTL
=============================================================================
