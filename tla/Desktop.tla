------------------------------ MODULE Desktop -------------------------------
(***************************************************************************)
(* The window manager of gui.cpp with the mouse driver that feeds it:      *)
(* mouse_handler collects button edges in the IRQ, gui_tick takes them     *)
(* with mouse_consume_event and raises, opens, closes and drags windows.   *)
(*                                                                         *)
(* An IRQ may come between any two steps of a tick.  Where the pointer and *)
(* the windows are is in Placement: here a press may hit any window, icon  *)
(* or taskbar button; ZOrder is what both share.  Of the mouse's buttons   *)
(* only the left one is modelled, the only one gui_tick looks at.  The     *)
(* Files window lists the tree of Vfs.                                     *)
(***************************************************************************)
EXTENDS ZOrder, FiniteSets, Vfs

CONSTANTS MAX_WINDOWS,
          Clicked     \* the nodes whose rows in the Files window are clicked

ASSUME WindowsAssumption == MAX_WINDOWS \in Nat
ASSUME IconsAssumption == /\ {"FILES", "TERMINAL"} \subseteq Icons
                          /\ {"EDITOR", "none"} \intersect Icons = {}
ASSUME ClickedAssumption == Clicked \subseteq Nodes \ {Root}

Apps == Icons \union {"EDITOR"}
Slots == 0..(MAX_WINDOWS - 1)
NoDrag == -1

VARIABLES windows,      \* the application each slot shows, None if not used
          z_order,      \* slots from bottom to top
          g_drag_idx,
          g_args_focused, g_files_dir, g_files_selected, g_editor_file,
          left,         \* g_irq_prev_buttons: the left button is down
          g_pending_pressed, g_pending_released,
          tick, ev      \* how far gui_tick is, and the event it took

desktop == <<windows, z_order, g_drag_idx>>
focus   == <<g_args_focused, g_files_dir, g_files_selected, g_editor_file>>
mouse   == <<left, g_pending_pressed, g_pending_released>>
vars    == <<desktop, focus, mouse, tick, ev>>

Init == /\ windows = [s \in Slots |-> None]
        /\ z_order = <<>>
        /\ g_drag_idx = NoDrag
        /\ g_args_focused = FALSE
        /\ g_files_dir = Root
        /\ g_files_selected = None
        /\ g_editor_file = None
        /\ left = FALSE
        /\ g_pending_pressed = FALSE
        /\ g_pending_released = FALSE
        /\ tick = "idle"
        /\ ev = [pressed |-> FALSE, released |-> FALSE]

-----------------------------------------------------------------------------

\* mouse_handler that keeps the last transition only
EdgesReplaced(down) == /\ g_pending_pressed' = (down /\ ~left)
                       /\ g_pending_released' = (left /\ ~down)

\* mouse_handler: edges accumulate until they are taken.
Edges(down) == /\ g_pending_pressed' = (g_pending_pressed \/ (down /\ ~left))
               /\ g_pending_released' = (g_pending_released \/ (left /\ ~down))

\* A whole packet
MousePacket(down) == /\ left' = down
                     /\ Edges(down)
                     /\ UNCHANGED <<desktop, focus, tick, ev>>

\* mouse_consume_event: the edges are read and cleared with interrupts off.
EdgesTaken == g_pending_pressed' = FALSE /\ g_pending_released' = FALSE

TakeEdges == /\ tick = "idle"
             /\ tick' = "press"
             /\ ev' = [pressed |-> g_pending_pressed, released |-> g_pending_released]
             /\ EdgesTaken
             /\ UNCHANGED <<desktop, focus, left>>

-----------------------------------------------------------------------------
(* The window stack.                                                       *)

Top(z) == z[Len(z)]

SlotsOf(w, app) == {s \in Slots : w[s] = app}
FreeSlots(w) == {s \in Slots : w[s] = None}

\* An open_app that does not look for a window that is open already
OpenedAnew(w, z, app) ==
  IF FreeSlots(w) # {}
  THEN LET s == CHOOSE s \in FreeSlots(w) : \A t \in FreeSlots(w) : s <= t
       IN  [windows |-> [w EXCEPT ![s] = app], z_order |-> Append(z, s)]
  ELSE [windows |-> w, z_order |-> z]

\* open_app: raises the application's window, or takes the first free slot.
Opened(w, z, app) ==
  IF SlotsOf(w, app) # {}
  THEN [windows |-> w, z_order |-> Raised(z, CHOOSE s \in SlotsOf(w, app) : TRUE)]
  ELSE IF FreeSlots(w) # {}
  THEN LET s == CHOOSE s \in FreeSlots(w) : \A t \in FreeSlots(w) : s <= t
       IN  [windows |-> [w EXCEPT ![s] = app], z_order |-> Append(z, s)]
  ELSE [windows |-> w, z_order |-> z]

Shows(d) == windows' = d.windows /\ z_order' = d.z_order

-----------------------------------------------------------------------------
(* handle_left_press, by what it hits.                                     *)

HitTaskbar(s) == /\ s \in ToSet(z_order)
                 /\ z_order' = Raised(z_order, s)
                 /\ UNCHANGED <<windows, g_drag_idx, focus>>

HitClose(s) == /\ s \in ToSet(z_order)
               /\ windows' = [windows EXCEPT ![s] = None]
               /\ z_order' = Removed(z_order, s)
               /\ UNCHANGED <<g_drag_idx, focus>>

HitTitle(s) == /\ s \in ToSet(z_order)
               /\ z_order' = Raised(z_order, s)
               /\ g_drag_idx' = s
               /\ UNCHANGED <<windows, focus>>

\* The body of a window other than Files.  Save is DiskFs's.
HitBody(s) == /\ s \in ToSet(z_order)
              /\ windows[s] # "FILES"
              /\ z_order' = Raised(z_order, s)
              /\ UNCHANGED <<windows, g_drag_idx, focus>>

\* An open_editor_for that leaves g_editor_file to its caller
EditorRaised(file, raised) == /\ UNCHANGED g_editor_file
                              /\ Shows(Opened(windows, raised, "EDITOR"))

\* open_editor_for
EditorOpenedFor(file, raised) == /\ g_editor_file' = file
                                 /\ Shows(Opened(windows, raised, "EDITOR"))

\* The rows draw_files_in lists: ".." for the parent, then the children.
Rows == {n \in Clicked : Parent(n) = g_files_dir} \union ({Parent(g_files_dir)} \ {Null})

\* A row that leaves what was selected in the directory left
RowKeepsSelection(n) ==
  IF n \in Dirs THEN g_files_dir' = n /\ UNCHANGED g_files_selected
  ELSE g_files_selected' = n /\ UNCHANGED g_files_dir

\* A directory is entered, with nothing selected; anything else is selected.
Row(n) == IF n \in Dirs THEN g_files_dir' = n /\ g_files_selected' = None
          ELSE g_files_selected' = n /\ UNCHANGED g_files_dir

\* Open and Edit of a file, Open and Run of a program, which raises the
\* terminal first; the run itself is Ring3's.  A directory is never selected.
Button(raised) ==
  /\ \/ /\ g_files_selected \in Texts
        /\ EditorOpenedFor(g_files_selected, raised)
     \/ /\ g_files_selected \in InBin
        /\ Shows(Opened(windows, raised, "TERMINAL"))
        /\ UNCHANGED g_editor_file
  /\ UNCHANGED <<g_files_dir, g_files_selected>>

\* The body of the Files window: the args field takes the focus, anything
\* else gives it up.
HitFiles(s) ==
  LET raised == Raised(z_order, s)
  IN  /\ s \in ToSet(z_order)
      /\ windows[s] = "FILES"
      /\ \/ /\ g_args_focused' = TRUE
            /\ z_order' = raised
            /\ UNCHANGED <<windows, g_files_dir, g_files_selected, g_editor_file>>
         \/ /\ g_args_focused' = FALSE
            /\ \/ /\ \E n \in Rows : Row(n)
                  /\ z_order' = raised
                  /\ UNCHANGED <<windows, g_editor_file>>
               \/ Button(raised)
               \/ /\ z_order' = raised
                  /\ UNCHANGED <<windows, g_files_dir, g_files_selected, g_editor_file>>
      /\ UNCHANGED g_drag_idx

HitIcon(app) == Shows(Opened(windows, z_order, app)) /\ UNCHANGED <<g_drag_idx, focus>>

HitNothing == UNCHANGED <<desktop, focus>>

\* The press is handled when the event has one and nothing is being dragged.
HandlePress ==
  /\ tick = "press"
  /\ tick' = "release"
  /\ \/ /\ ev.pressed /\ g_drag_idx = NoDrag
        /\ \/ \E s \in Slots : \/ HitTaskbar(s) \/ HitClose(s) \/ HitTitle(s)
                               \/ HitBody(s) \/ HitFiles(s)
           \/ \E app \in Icons : HitIcon(app)
           \/ HitNothing
     \/ /\ ~ev.pressed \/ g_drag_idx # NoDrag
        /\ UNCHANGED <<desktop, focus>>
  /\ UNCHANGED <<mouse, ev>>

\* A tick that handles either the press or the release
ReleaseUnlessPressed ==
  /\ tick = "release"
  /\ tick' = "idle"
  /\ g_drag_idx' = IF ev.released /\ ~ev.pressed THEN NoDrag ELSE g_drag_idx
  /\ UNCHANGED <<windows, z_order, focus, mouse, ev>>

\* The window follows the pointer, then a release ends the drag.
HandleRelease == /\ tick = "release"
                 /\ tick' = "idle"
                 /\ g_drag_idx' = IF ev.released THEN NoDrag ELSE g_drag_idx
                 /\ UNCHANGED <<windows, z_order, focus, mouse, ev>>

\* gui_handle_key on Enter, the only key that changes this state
KeyEnter == /\ g_args_focused
            /\ g_args_focused' = FALSE
            /\ UNCHANGED <<desktop, g_files_dir, g_files_selected, g_editor_file, mouse, tick, ev>>

GuiTick == TakeEdges \/ HandlePress \/ HandleRelease

Next == \/ \E down \in BOOLEAN : MousePacket(down)
        \/ GuiTick
        \/ KeyEnter

(***************************************************************************)
(* The main loop calls gui_tick after every hlt, and the timer ends every  *)
(* hlt.  That the user moves, presses or releases is not assumed.          *)
(***************************************************************************)
Spec == Init /\ [][Next]_vars /\ WF_vars(GuiTick)

-----------------------------------------------------------------------------

(* Every variable has its type.                                            *)
TypeOK == /\ windows \in [Slots -> Apps \union {None}]
          /\ z_order \in Seq(Slots) /\ Len(z_order) <= MAX_WINDOWS
          /\ g_drag_idx \in Slots \union {NoDrag}
          /\ g_files_dir \in Dirs
          /\ g_files_selected \in Clicked \union {None}
          /\ g_editor_file \in Clicked \union {None}
          /\ {g_args_focused, left, g_pending_pressed, g_pending_released} \subseteq BOOLEAN
          /\ tick \in {"idle", "press", "release"}
          /\ ev \in [pressed : BOOLEAN, released : BOOLEAN]

(* The stack lists every open window once and nothing else, and an         *)
(* application has one window: what the compositor paints, what a click    *)
(* can hit and what the taskbar shows are the same windows.                *)
StackIsTheWindows ==
  /\ TypeOK
  /\ ToSet(z_order) = {s \in Slots : windows[s] # None}
  /\ IsInjective(z_order)
  /\ \A s, t \in ToSet(z_order) : windows[s] = windows[t] => s = t

(* A window is dragged only while the button is down or its release has    *)
(* yet to be handled, also when press and release fall in one tick or in   *)
(* the middle of one; and it is an open window, the topmost.               *)
DragIsHeld ==
  g_drag_idx # NoDrag =>
    /\ left \/ g_pending_released \/ (ev.released /\ tick \in {"press", "release"})
    /\ z_order # <<>> /\ g_drag_idx = Top(z_order)

(* What Open, Edit and Run act on is the row the Files window shows as     *)
(* selected, a file or a program of the directory it lists; the editor,    *)
(* opened with it and left open while other rows are chosen, always has a  *)
(* file for the keys to go to.                                             *)
SelectionIsListed ==
  /\ g_files_selected # None => /\ g_files_selected \in Texts \union InBin
                                /\ Parent(g_files_selected) = g_files_dir
  /\ \A s \in Slots : windows[s] = "EDITOR" => g_editor_file \in Texts

(* "so no click is lost even when down/up happen entirely between two      *)
(* consume() calls": a press the driver saw reaches a tick.                *)
PressReachesTick == g_pending_pressed ~> tick = "press" /\ ev.pressed
=============================================================================
