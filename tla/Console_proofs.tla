--------------------------- MODULE Console_proofs ---------------------------
(***************************************************************************)
(* For every set of keys, every bound on how many are held, every buffer   *)
(* size, all command lines and all scripts: no modifier is left on with    *)
(* no key down, the command line's zero is stored inside its buffer, and   *)
(* the path `pwd` prints leads back to the directory the shell is in.      *)
(*                                                                         *)
(* The tree of vfs_init is three levels deep, so both recursions of        *)
(* module Vfs are followed by hand: a path is exhibited (Path, and the     *)
(* components of it) and shown to be what the recursion defines.           *)
(***************************************************************************)
EXTENDS Console, TLAPS

-----------------------------------------------------------------------------
(* Paths of directories.                                                   *)

(* The root is written as a slash. *)
LEMMA RootPath == PathOf(Root) = <<"/">>
BY DEF PathOf

\* What vfs_path_of collects for each node
Path == [m \in Nodes |-> IF m = Root THEN <<>>
                         ELSE IF m \in Dirs THEN <<"/", m>>
                         ELSE <<"/", Parent(m)>> \o <<"/", m>>]

Climbs(f) == f = [m \in Nodes |-> IF m = Root THEN <<>> ELSE f[Parent(m)] \o <<"/", m>>]

(* The parent of a node is a directory, that of a directory the root. *)
LEMMA Parents == \A n \in Nodes \ {Root} : Parent(n) \in Dirs /\ (n \in Dirs => Parent(n) = Root)
BY DEF Nodes, Dirs, Texts, InHome, InDocs, InBin, Parent, Root

(* Path is what the climb to the root defines. *)
LEMMA PathClimbs == Climbs(Path)
<1>1. ASSUME NEW m \in Nodes
      PROVE  Path[m] = IF m = Root THEN <<>> ELSE Path[Parent(m)] \o <<"/", m>>
  <2>1. CASE m = Root
    BY <2>1 DEF Path
  <2>2. CASE m # Root /\ m \in Dirs
    <3>1. Parent(m) = Root /\ Root \in Nodes
      BY <2>2, Parents DEF Nodes, Dirs
    <3>2. Path[Parent(m)] = <<>>
      BY <3>1 DEF Path
    <3>3. <<>> \o <<"/", m>> = <<"/", m>>
      OBVIOUS
    <3> QED
      BY <2>2, <3>2, <3>3 DEF Path
  <2>3. CASE m \notin Dirs
    <3>1. Parent(m) \in Dirs /\ Parent(m) # Root /\ m # Root /\ Parent(m) \in Nodes
      BY <2>3 DEF Nodes, Dirs, Texts, InHome, InDocs, InBin, Parent, Root
    <3>2. Path[Parent(m)] = <<"/", Parent(m)>>
      BY <3>1 DEF Path
    <3> QED
      BY <2>3, <3>1, <3>2 DEF Path
  <2> QED
    BY <2>1, <2>2, <2>3
<1> QED
  BY <1>1 DEF Climbs, Path

(* A directory under the root is written as a slash and its name. *)
LEMMA DirPath == \A d \in Dirs \ {Root} : PathOf(d) = <<"/", d>>
<1>1. PICK f : f = CHOOSE g : Climbs(g)
  OBVIOUS
<1>2. Climbs(f)
  BY <1>1, PathClimbs
<1>3. \A d \in Dirs \ {Root} : PathOf(d) = f[d]
  BY <1>1 DEF PathOf, Climbs
<1>4. f[Root] = <<>>
  BY <1>2 DEF Climbs, Nodes, Dirs
<1>5. ASSUME NEW d \in Dirs \ {Root} PROVE f[d] = <<"/", d>>
  <2>1. f[d] = f[Root] \o <<"/", d>>
    BY <1>2, Parents DEF Climbs, Nodes
  <2>2. <<>> \o <<"/", d>> = <<"/", d>>
    OBVIOUS
  <2> QED
    BY <1>4, <2>1, <2>2
<1> QED
  BY <1>3, <1>5

\* c is what vfs_lookup reads of a path, from each of its places on.
Parses(c, path) ==
  c = [i \in 2..(Len(path) + 2) |->
         IF i > Len(path) THEN <<>>
         ELSE IF path[i] = "/" THEN <<Empty>> \o c[i + 1]
         ELSE <<path[i]>> \o c[i + 2]]

(* A slash alone has no component, *)
LEMMA RootComponents == Components(<<"/">>) = <<>>
<1>1. PICK path : path = <<"/">>
  OBVIOUS
<1>2. Len(path) = 1
  BY <1>1
<1>3. Parses([i \in 2..3 |-> <<>>], path)
  BY <1>2 DEF Parses
<1>4. PICK c : c = CHOOSE g : Parses(g, path)
  OBVIOUS
<1>5. Parses(c, path)
  BY <1>3, <1>4
<1>6. c[2] = <<>>
  BY <1>2, <1>5 DEF Parses
<1>7. Components(path) = c[2]
  BY <1>4 DEF Components, Parses
<1> QED
  BY <1>1, <1>6, <1>7

(* and a slash and a name the name. *)
LEMMA DirComponents ==
  ASSUME NEW d, d # "/"
  PROVE  Components(<<"/", d>>) = <<d>>
<1>1. PICK path : path = <<"/", d>>
  OBVIOUS
<1>2. Len(path) = 2 /\ path[2] = d
  BY <1>1
<1>0. <<d>> \o <<>> = <<d>>
  OBVIOUS
<1>3. Parses([i \in 2..(Len(path) + 2) |-> IF i = 2 THEN <<d>> ELSE <<>>], path)
  <2> DEFINE w == [i \in 2..(Len(path) + 2) |-> IF i = 2 THEN <<d>> ELSE <<>>]
  <2>1. w[2] = <<d>> /\ w[4] = <<>>
    BY <1>2
  <2>2. \A i \in 2..(Len(path) + 2) : w[i] = IF i > Len(path) THEN <<>>
                                           ELSE IF path[i] = "/" THEN <<Empty>> \o w[i + 1]
                                           ELSE <<path[i]>> \o w[i + 2]
    <3> SUFFICES ASSUME NEW i \in 2..(Len(path) + 2)
                 PROVE  w[i] = IF i > Len(path) THEN <<>>
                               ELSE IF path[i] = "/" THEN <<Empty>> \o w[i + 1]
                               ELSE <<path[i]>> \o w[i + 2]
      OBVIOUS
    <3>1. CASE i = 2
      BY <1>0, <1>2, <2>1, <3>1
    <3>2. CASE i # 2
      BY <1>2, <3>2
    <3> QED
      BY <3>1, <3>2
  <2>3. w = [i \in 2..(Len(path) + 2) |-> w[i]]
    OBVIOUS
  <2>4. Parses(w, path)
    <3> HIDE DEF w
    <3> QED
      BY <2>2, <2>3 DEF Parses
  <2> QED
    BY <2>4
<1>4. PICK c : c = CHOOSE g : Parses(g, path)
  OBVIOUS
<1>5. Parses(c, path)
  BY <1>3, <1>4
<1>6. c[4] = <<>>
  BY <1>2, <1>5 DEF Parses
<1>7. c[2] = <<d>> \o c[4]
  BY <1>2, <1>5 DEF Parses
<1>8. Components(path) = c[2]
  BY <1>4 DEF Components, Parses
<1> QED
  BY <1>0, <1>1, <1>6, <1>7, <1>8

(* A lookup of no component stays at the root, *)
LEMMA FoldNone == FoldLeft(Child, Root, <<>>) = Root
<1>1. DOMAIN <<>> = {}
  OBVIOUS
<1> DEFINE It(f) == f = [s \in SUBSET {} |-> IF s = {} THEN Root
                       ELSE Child(f[s \ {Max(s)}], <<>>[Max(s)])]
<1>2. It([s \in SUBSET {} |-> Root])
  OBVIOUS
<1>3. FoldLeft(Child, Root, <<>>) = (CHOOSE f : It(f))[{}]
  BY <1>1 DEF FoldLeft, MapThenFoldSet
<1> QED
  BY <1>2, <1>3

(* and one of one component takes one step. *)
LEMMA FoldOne == ASSUME NEW d PROVE FoldLeft(Child, Root, <<d>>) = Child(Root, d)
<1>1. DOMAIN <<d>> = {1} /\ <<d>>[1] = d
  OBVIOUS
<1>2. Max({1}) = 1
  BY DEF Max
<1> DEFINE It(f) == f = [s \in SUBSET {1} |-> IF s = {} THEN Root
                       ELSE Child(f[s \ {Max(s)}], <<d>>[Max(s)])]
<1>3. It([s \in SUBSET {1} |-> IF s = {} THEN Root ELSE Child(Root, d)])
  BY <1>1, <1>2
<1>4. FoldLeft(Child, Root, <<d>>) = (CHOOSE f : It(f))[{1}]
  BY <1>1 DEF FoldLeft, MapThenFoldSet
<1>5. PICK f : f = CHOOSE g : It(g)
  OBVIOUS
<1>6. It(f)
  BY <1>3, <1>5, Zenon
<1>7. f[{}] = Root
  BY <1>6
<1>8. {1} # {} /\ {1} \ {1} = {} /\ {1} \in SUBSET {1}
  OBVIOUS
<1>9. f[{1}] = Child(f[{1} \ {Max({1})}], <<d>>[Max({1})])
  BY <1>6, <1>8
<1>10. f[{1}] = Child(Root, d)
  BY <1>1, <1>2, <1>7, <1>8, <1>9
<1> QED
  BY <1>4, <1>5, <1>10

(* vfs_lookup and vfs_path_of agree on every directory. *)
LEMMA LookupIsBack == \A d \in Dirs : Lookup(PathOf(d)) = d
<1>1. Lookup(PathOf(Root)) = Root
  <2>1. <<"/">> # <<>> /\ <<"/">>[1] = "/"
    OBVIOUS
  <2> QED
    BY <2>1, RootPath, RootComponents, FoldNone DEF Lookup
<1>2. ASSUME NEW d \in Dirs \ {Root} PROVE Lookup(PathOf(d)) = d
  <2>1. <<"/", d>> # <<>> /\ <<"/", d>>[1] = "/"
    OBVIOUS
  <2>2. PathOf(d) = <<"/", d>>
    BY DirPath
  <2>3. Components(<<"/", d>>) = <<d>>
    BY DirComponents DEF Root
  <2>4. Child(Root, d) = d
    BY Parents DEF Child, Nodes
  <2> QED
    BY <2>1, <2>2, <2>3, <2>4, FoldOne DEF Lookup
<1> QED
  BY <1>1, <1>2

(* cmd_cd leaves the shell in a directory. *)
LEMMA CdIsInADirectory ==
  ASSUME NEW cwd \in Dirs, NEW path
  PROVE  Cd(cwd, path) \in Dirs
<1>1. Root \in Dirs
  BY DEF Dirs
<1>2. cwd # Root => Parent(cwd) \in Dirs
  BY Parents DEF Nodes
<1> QED
  BY <1>1, <1>2 DEF Cd

-----------------------------------------------------------------------------
(* The keyboard.                                                           *)

\* What a key sends, and what the keys that are down have sent
Sent(key) == IF key = "print screen" THEN {"shift", "*"} ELSE {CodeOf(key)}
Cover(keys) == UNION {Sent(key) : key \in keys}

Scancodes == [code : Cover(Keys), down : BOOLEAN]
Scripts   == Seq(Commands) \ {<<>>}

\* The types, of the elements of the two sequences too
Typed == /\ held \subseteq Keys
         /\ scancodes \in Seq(Scancodes)
         /\ modifiers \subseteq ModifierCodes
         /\ phase \in 0..2
         /\ packet_idx \in 0..2
         /\ steady \in BOOLEAN
         /\ g_cwd \in Dirs
         /\ todo \in Seq(Scripts)

\* A modifier that is on belongs to a key that is down, or its release has
\* been sent; and a press that has been sent is of a key that is down.
Backed == /\ \A m \in modifiers :
               \/ m \in Cover(held)
               \/ \E i \in DOMAIN scancodes : scancodes[i] = Up(m)
          /\ \A i \in DOMAIN scancodes :
               scancodes[i].down => scancodes[i].code \in Cover(held)

Fits == buffer_pos \in 0..(SHELL_MAX_COMMAND_LENGTH - 1)

IInv == Typed /\ Backed /\ Fits

(* What is sent is a sequence of scancodes. *)
LEMMA SentIs ==
  ASSUME NEW key \in Keys
  PROVE  /\ MakeCodes(key) \in Seq(Scancodes)
         /\ BreakCodes(key) \in Seq(Scancodes)
         /\ \A i \in DOMAIN MakeCodes(key) :
              MakeCodes(key)[i].down /\ MakeCodes(key)[i].code \in Sent(key)
         /\ \A i \in DOMAIN BreakCodes(key) : ~BreakCodes(key)[i].down
         /\ \A m \in Sent(key) : \E i \in DOMAIN BreakCodes(key) : BreakCodes(key)[i] = Up(m)
<1>1. Sent(key) \subseteq Cover(Keys)
  BY DEF Cover
<1>2. \A code \in Sent(key) : Down(code) \in Scancodes /\ Up(code) \in Scancodes
  BY <1>1 DEF Down, Up, Scancodes
<1>3. \A code : /\ Down(code).down /\ Down(code).code = code
                /\ ~Up(code).down
  BY DEF Down, Up
<1>4. CASE key = "print screen"
  <2>1. MakeCodes(key) = <<Down("shift"), Down("*")>> /\ BreakCodes(key) = <<Up("*"), Up("shift")>>
    BY <1>4 DEF MakeCodes, BreakCodes
  <2>2. Sent(key) = {"shift", "*"}
    BY <1>4 DEF Sent
  <2>3. MakeCodes(key) \in Seq(Scancodes) /\ BreakCodes(key) \in Seq(Scancodes)
    BY <1>2, <2>1, <2>2
  <2> QED
    BY <1>3, <2>1, <2>2, <2>3
<1>5. CASE key # "print screen"
  <2>1. MakeCodes(key) = <<Down(CodeOf(key))>> /\ BreakCodes(key) = <<Up(CodeOf(key))>>
    BY <1>5 DEF MakeCodes, BreakCodes
  <2>2. Sent(key) = {CodeOf(key)}
    BY <1>5 DEF Sent
  <2>3. MakeCodes(key) \in Seq(Scancodes) /\ BreakCodes(key) \in Seq(Scancodes)
    BY <1>2, <2>1, <2>2
  <2> QED
    BY <1>3, <2>1, <2>2, <2>3
<1> QED
  BY <1>4, <1>5

LEMMA InitInv == ConsoleInit => IInv
<1> SUFFICES ASSUME ConsoleInit PROVE IInv
  OBVIOUS
<1>1. <<>> \in Seq(Scancodes) /\ <<>> \in Seq(Scripts)
  OBVIOUS
<1>2. Typed
  <2>1. scancodes \in Seq(Scancodes) /\ todo \in Seq(Scripts)
    BY <1>1 DEF ConsoleInit
  <2>2. held \subseteq Keys /\ modifiers \subseteq ModifierCodes /\ steady \in BOOLEAN
    BY DEF ConsoleInit
  <2>3. phase \in 0..2 /\ packet_idx \in 0..2
    BY DEF ConsoleInit
  <2>4. g_cwd \in Dirs
    BY DEF ConsoleInit, Dirs
  <2> QED
    BY <2>1, <2>2, <2>3, <2>4 DEF Typed
<1>3. Backed
  BY DEF ConsoleInit, Backed
<1>4. Fits
  BY LengthAssumption DEF ConsoleInit, Fits
<1> QED
  BY <1>2, <1>3, <1>4 DEF IInv

-----------------------------------------------------------------------------
(* Each action. *)

LEMMA Pressed ==
  ASSUME IInv, NEW key \in Keys, Press(key)
  PROVE  IInv'
<1> USE DEF keyboard, stream, shell
<1>1. /\ held' = held \union {key} /\ scancodes = <<>>
      /\ scancodes' = MakeCodes(key)
      /\ UNCHANGED <<modifiers, phase, packet_idx, steady, buffer_pos, g_cwd, todo>>
  BY DEF Press
<1>2. Typed'
  BY <1>1, SentIs DEF IInv, Typed
<1>3. Cover(held) \subseteq Cover(held') /\ Sent(key) \subseteq Cover(held')
  BY <1>1 DEF Cover
<1>4. Backed'
  <2>1. \A m \in modifiers' : m \in Cover(held')
    <3>1. DOMAIN scancodes = {}
      BY <1>1
    <3>2. \A m \in modifiers : m \in Cover(held)
      BY <3>1 DEF IInv, Backed
    <3> QED
      BY <1>1, <1>3, <3>2
  <2>2. \A i \in DOMAIN scancodes' : scancodes'[i].code \in Cover(held')
    BY <1>1, <1>3, SentIs
  <2> QED
    BY <2>1, <2>2 DEF Backed
<1> QED
  BY <1>1, <1>2, <1>4 DEF IInv, Fits

LEMMA Released ==
  ASSUME IInv, NEW key \in Keys, Release(key)
  PROVE  IInv'
<1> USE DEF keyboard, stream, shell
<1>1. /\ held' = held \ {key} /\ scancodes = <<>>
      /\ scancodes' = BreakCodes(key)
      /\ UNCHANGED <<modifiers, phase, packet_idx, steady, buffer_pos, g_cwd, todo>>
  BY DEF Release
<1>2. Typed'
  BY <1>1, SentIs DEF IInv, Typed
<1>3. \A m \in Cover(held) : m \in Cover(held') \/ m \in Sent(key)
  BY <1>1 DEF Cover
<1>4. Backed'
  <2>1. \A m \in modifiers : m \in Cover(held)
    BY <1>1 DEF IInv, Backed
  <2>2. \A m \in modifiers' : m \in Cover(held') \/ \E i \in DOMAIN scancodes' : scancodes'[i] = Up(m)
    BY <1>1, <1>3, <2>1, SentIs
  <2>3. \A i \in DOMAIN scancodes' : ~scancodes'[i].down
    BY <1>1, SentIs
  <2> QED
    BY <2>2, <2>3 DEF Backed
<1> QED
  BY <1>1, <1>2, <1>4 DEF IInv, Fits

(* The buffer has room for the zero after any character. *)
LEMMA EditFits ==
  ASSUME Fits, NEW c
  PROVE  Edited(c) \in 0..(SHELL_MAX_COMMAND_LENGTH - 1)
BY LengthAssumption DEF Fits, Edited

LEMMA CharProcessed ==
  ASSUME IInv, NEW c, ShellProcessChar(c)
  PROVE  Fits' /\ g_cwd' = g_cwd /\ todo' \in Seq(Scripts)
<1>1. CASE c = "newline"
  <2>1. PICK command \in Commands : todo' = <<<<command>>>> /\ UNCHANGED <<buffer_pos, g_cwd>>
    BY <1>1 DEF ShellProcessChar
  <2>2. <<command>> \in Scripts
    BY DEF Scripts
  <2>3. todo' \in Seq(Scripts)
    BY <2>1, <2>2
  <2> QED
    BY <2>1, <2>3 DEF IInv, Fits
<1>2. CASE c # "newline"
  BY <1>2, EditFits DEF ShellProcessChar, IInv, Typed, Fits
<1> QED
  BY <1>1, <1>2

LEMMA ScancodeTaken ==
  ASSUME IInv, KeyboardHandler
  PROVE  IInv'
<1> USE DEF keyboard, stream, shell
<1> DEFINE sc == Head(scancodes)
<1>1. /\ scancodes \in Seq(Scancodes) /\ scancodes # <<>>
      /\ scancodes' = Tail(scancodes)
      /\ UNCHANGED <<held, phase, packet_idx, steady>>
  BY DEF IInv, Typed, KeyboardHandler
<1>2. /\ sc = scancodes[1] /\ 1 \in DOMAIN scancodes /\ sc \in Scancodes
      /\ scancodes' \in Seq(Scancodes)
      /\ \A i \in DOMAIN scancodes' : i + 1 \in DOMAIN scancodes /\ scancodes'[i] = scancodes[i + 1]
      /\ \A i \in DOMAIN scancodes : i # 1 => i - 1 \in DOMAIN scancodes' /\ scancodes'[i - 1] = scancodes[i]
  BY <1>1
<1>3. \A m : /\ Up(m).code = m /\ ~Up(m).down
  BY DEF Up
<1>4. \A i \in DOMAIN scancodes' : scancodes'[i].down => scancodes'[i].code \in Cover(held')
  BY <1>1, <1>2 DEF IInv, Backed
<1>5. ASSUME NEW m \in modifiers, sc.down \/ m # sc.code
      PROVE  m \in Cover(held') \/ \E i \in DOMAIN scancodes' : scancodes'[i] = Up(m)
  <2>1. CASE m \in Cover(held)
    BY <1>1, <2>1
  <2>2. CASE \E i \in DOMAIN scancodes : scancodes[i] = Up(m)
    <3>1. PICK i \in DOMAIN scancodes : scancodes[i] = Up(m)
      BY <2>2
    <3>2. i # 1
      BY <1>2, <1>3, <1>5, <3>1
    <3> QED
      BY <1>2, <3>1, <3>2
  <2> QED
    BY <2>1, <2>2 DEF IInv, Backed
<1>6. CASE ~sc.down
  <2>1. modifiers' = modifiers \ {sc.code} /\ UNCHANGED <<buffer_pos, g_cwd, todo>>
    BY <1>6 DEF KeyboardHandler, ReleasedModifiers
  <2>2. Typed'
    BY <1>1, <1>2, <2>1 DEF IInv, Typed
  <2>3. Backed'
    BY <1>4, <1>5, <2>1 DEF Backed
  <2> QED
    BY <2>1, <2>2, <2>3 DEF IInv, Fits
<1>7. CASE sc.down /\ sc.code \in ModifierCodes
  <2>1. modifiers' = modifiers \union {sc.code} /\ UNCHANGED <<buffer_pos, g_cwd, todo>>
    BY <1>7 DEF KeyboardHandler
  <2>2. Typed'
    BY <1>1, <1>2, <1>7, <2>1 DEF IInv, Typed
  <2>3. sc.code \in Cover(held')
    BY <1>1, <1>2, <1>7 DEF IInv, Backed
  <2>4. \A m \in modifiers' :
          m \in Cover(held') \/ \E i \in DOMAIN scancodes' : scancodes'[i] = Up(m)
    BY <1>5, <1>7, <2>1, <2>3
  <2>5. Backed'
    BY <1>4, <2>4 DEF Backed
  <2> QED
    BY <2>1, <2>2, <2>5 DEF IInv, Fits
<1>8. CASE sc.down /\ sc.code \notin ModifierCodes
  <2>1. /\ modifiers' = modifiers
        /\ UNCHANGED <<buffer_pos, g_cwd, todo>> \/ ShellProcessChar(CharOf(sc.code))
    BY <1>8 DEF KeyboardHandler
  <2>2. Fits' /\ g_cwd' = g_cwd /\ todo' \in Seq(Scripts)
    BY <2>1, CharProcessed DEF IInv, Typed, Fits
  <2>3. Typed'
    BY <1>1, <1>2, <2>1, <2>2 DEF IInv, Typed
  <2>4. Backed'
    BY <1>4, <1>5, <1>8, <2>1 DEF Backed
  <2> QED
    BY <2>2, <2>3, <2>4 DEF IInv
<1> QED
  BY <1>6, <1>7, <1>8

(* What is left of a script, and the lines of a file, are scripts. *)
LEMMA RestIs ==
  ASSUME todo \in Seq(Scripts), todo # <<>>
  PROVE  Rest \in Seq(Scripts)
<1>1. Tail(todo) \in Seq(Scripts) /\ Head(todo) \in Scripts
  OBVIOUS
<1>2. CASE Len(Head(todo)) = 1
  BY <1>1, <1>2 DEF Rest
<1>3. CASE Len(Head(todo)) # 1
  <2>1. Tail(Head(todo)) \in Scripts
    <3>1. PICK script : script = Head(todo)
      OBVIOUS
    <3>2. script \in Seq(Commands) /\ script # <<>> /\ Len(script) # 1
      BY <1>1, <1>3, <3>1 DEF Scripts
    <3>3. Tail(script) \in Seq(Commands) /\ Tail(script) # <<>>
      <4>1. Len(script) \in Nat /\ Len(script) # 0 /\ Len(script) # 1
        BY <3>2
      <4>2. Tail(script) \in Seq(Commands) /\ Len(Tail(script)) = Len(script) - 1
        BY <3>2
      <4>3. Len(Tail(script)) # 0
        BY <4>1, <4>2
      <4>4. Len(<<>>) = 0
        OBVIOUS
      <4> QED
        BY <4>2, <4>3, <4>4, Zenon
    <3> QED
      BY <3>1, <3>3 DEF Scripts
  <2>2. <<Tail(Head(todo))>> \in Seq(Scripts)
    BY <2>1
  <2> QED
    BY <1>1, <1>3, <2>2 DEF Rest
<1> QED
  BY <1>2, <1>3

LEMMA LinesAre == ASSUME NEW command PROVE Lines(command) \in Seq(Commands)
BY ScriptAssumption DEF Lines

LEMMA Executed ==
  ASSUME IInv, Execute
  PROVE  IInv'
<1> USE DEF keyboard, stream, shell
<1>1. PICK command, lines : command = Head(Head(todo)) /\ lines = Lines(command)
  OBVIOUS
<1>2. /\ todo # <<>>
      /\ g_cwd' = IF command.name = "cd" THEN Cd(g_cwd, command.path) ELSE g_cwd
      /\ todo' = IF lines = <<>> THEN Rest ELSE <<lines>> \o Rest
      /\ buffer_pos' = IF todo' = <<>> THEN 0 ELSE buffer_pos
      /\ UNCHANGED <<held, scancodes, modifiers, phase, packet_idx, steady>>
  BY <1>1 DEF Execute
<1>3. Rest \in Seq(Scripts)
  BY <1>2, RestIs DEF IInv, Typed
<1>4. todo' \in Seq(Scripts)
  <2>1. CASE lines = <<>>
    BY <1>2, <1>3, <2>1
  <2>2. CASE lines # <<>>
    <3>1. lines \in Scripts
      BY <1>1, <2>2, LinesAre DEF Scripts
    <3>2. <<lines>> \in Seq(Scripts)
      BY <3>1
    <3> QED
      BY <1>2, <1>3, <2>2, <3>2
  <2> QED
    BY <2>1, <2>2
<1>5. g_cwd' \in Dirs
  BY <1>2, CdIsInADirectory DEF IInv, Typed
<1>6. Typed'
  BY <1>2, <1>4, <1>5 DEF IInv, Typed
<1>7. Backed'
  BY <1>2 DEF IInv, Backed
<1>8. Fits'
  BY <1>2, LengthAssumption DEF IInv, Fits
<1> QED
  BY <1>6, <1>7, <1>8 DEF IInv

(* The mouse has its own variables. *)
LEMMA MouseMoved ==
  ASSUME IInv, PacketByte \/ StrayByte \/ LostByte \/ Steady
  PROVE  IInv'
<1> USE DEF keyboard, stream, shell
<1>1. UNCHANGED <<held, scancodes, modifiers, buffer_pos, g_cwd, todo>>
  BY DEF PacketByte, StrayByte, LostByte, Steady
<1>2. \A sync : MouseHandler(sync) => packet_idx' \in 0..2
  BY DEF IInv, Typed, MouseHandler
<1>3. packet_idx' \in 0..2
  BY <1>2 DEF PacketByte, StrayByte, LostByte, Steady, IInv, Typed
<1>4. phase' \in 0..2 /\ steady' \in BOOLEAN
  <2>1. phase \in 0..2 /\ steady \in BOOLEAN
    BY DEF IInv, Typed
  <2>2. (phase + 1) % 3 \in 0..2
    BY <2>1
  <2>3. phase' = phase \/ phase' = (phase + 1) % 3
    BY DEF PacketByte, StrayByte, LostByte, Steady
  <2>4. steady' = steady \/ steady' = TRUE
    BY DEF PacketByte, StrayByte, LostByte, Steady
  <2>5. phase' \in 0..2
    BY <2>1, <2>2, <2>3
  <2>6. steady' \in BOOLEAN
    BY <2>1, <2>4
  <2> QED
    BY <2>5, <2>6
<1>5. Typed'
  BY <1>1, <1>3, <1>4 DEF IInv, Typed
<1>6. Backed' /\ Fits'
  BY <1>1 DEF IInv, Backed, Fits
<1> QED
  BY <1>5, <1>6 DEF IInv

LEMMA StepInv == IInv /\ [ConsoleNext]_consoleVars => IInv'
<1> SUFFICES ASSUME IInv, [ConsoleNext]_consoleVars PROVE IInv'
  OBVIOUS
<1>1. ASSUME NEW key \in Keys, Press(key) PROVE IInv'
  BY <1>1, Pressed
<1>2. ASSUME NEW key \in Keys, Release(key) PROVE IInv'
  BY <1>2, Released
<1>3. CASE KeyboardHandler
  BY <1>3, ScancodeTaken
<1>4. CASE Execute
  BY <1>4, Executed
<1>5. CASE PacketByte \/ StrayByte \/ LostByte \/ Steady
  BY <1>5, MouseMoved
<1>6. CASE UNCHANGED consoleVars
  BY <1>6 DEF consoleVars, keyboard, stream, shell, IInv, Typed, Backed, Fits
<1> QED
  BY <1>1, <1>2, <1>3, <1>4, <1>5, <1>6 DEF ConsoleNext

LEMMA InvHolds == ConsoleSpec => []IInv
BY InitInv, StepInv, PTL DEF ConsoleSpec

-----------------------------------------------------------------------------

(* With all keys up and every scancode handled, Shift, Ctrl and Alt are    *)
(* off (keyboard_handler).                                                 *)
THEOREM ModifiersComeOff == ConsoleSpec => []NoStuckModifier
<1>1. IInv => NoStuckModifier
  BY DEF IInv, Backed, Cover, NoStuckModifier
<1> QED
  BY <1>1, InvHolds, PTL

(* shell_process_char never lets the line grow over the place of its zero. *)
THEOREM LinesAreTerminated == ConsoleSpec => []LineFits
<1>1. IInv => LineFits
  BY LengthAssumption DEF IInv, Fits, LineFits
<1> QED
  BY <1>1, InvHolds, PTL

(* Every variable keeps its type, the shell is in a directory, and         *)
(* vfs_lookup of what vfs_path_of gives is that directory.                 *)
THEOREM PathsLeadBack == ConsoleSpec => []PwdLeadsBack
<1>1. IInv => PwdLeadsBack
  <2> SUFFICES ASSUME IInv PROVE PwdLeadsBack
    OBVIOUS
  <2>1. \A i \in DOMAIN scancodes : scancodes[i].down \in BOOLEAN
    <3>1. \A i \in DOMAIN scancodes : scancodes[i] \in Scancodes
      BY DEF IInv, Typed
    <3> QED
      BY <3>1 DEF Scancodes
  <2>2. \A i \in DOMAIN todo : todo[i] \in Seq(Commands) /\ todo[i] # <<>>
    BY DEF IInv, Typed, Scripts
  <2>3. buffer_pos \in 0..SHELL_MAX_COMMAND_LENGTH
    BY LengthAssumption DEF IInv, Fits
  <2>4. ConsoleTypeOK
    BY <2>1, <2>2, <2>3 DEF IInv, Typed, ConsoleTypeOK, Nodes
  <2> QED
    BY <2>4, LookupIsBack DEF IInv, Typed, PwdLeadsBack
<1> QED
  BY <1>1, InvHolds, PTL

=============================================================================
