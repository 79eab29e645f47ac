----------------------------- MODULE Placement ------------------------------
(***************************************************************************)
(* Where the windows of src/kernel/gui.cpp are, and what is below the      *)
(* pointer: the geometry that Desktop leaves out.  open_app sizes and      *)
(* places a window, gui_tick's drag moves it within limits, and            *)
(* handle_left_press finds what a press hits, in pixels.  An application   *)
(* has one window (Desktop), so a window is named by it.                   *)
(***************************************************************************)
EXTENDS ZOrder

CONSTANTS W, H,      \* fb_width(), fb_height()
          FromFiles, \* the applications that the Files window opens
          Pointed    \* where the pointer may be moved to in a drag

TITLE_H == 24
WIN_PAD == 8
TASKBAR_H == 32
TaskbarTop == H - TASKBAR_H
Smaller(a, b) == IF a < b THEN a ELSE b
Larger(a, b) == IF a > b THEN a ELSE b

\* What open_app asks for: widths and heights
Width  == [TERMINAL |-> 784, FILES |-> 760, MONITOR |-> 540, CALCULATOR |-> 280, ABOUT |-> 500,
           EDITOR |-> 720]
Height == [TERMINAL |-> 616, FILES |-> 520, MONITOR |-> 380, CALCULATOR |-> 360, ABOUT |-> 340,
           EDITOR |-> 520]
IconY  == [TERMINAL |-> 40, FILES |-> 150, MONITOR |-> 260, CALCULATOR |-> 370, ABOUT |-> 480]

Openable == Icons \union FromFiles

\* boot.asm asks the loader for 1280 by 800.  Six taskbar buttons need 980 of
\* the width, the calculator 412 of the height.
ASSUME PlacementAssumption == /\ Icons \subseteq DOMAIN IconY
                              /\ FromFiles \subseteq {"EDITOR", "TERMINAL"}
                              /\ W \in Nat /\ W >= 980 /\ H \in Nat /\ H >= 412
                              /\ Pointed \subseteq [x : Int, y : Int]

VARIABLES place,           \* the windows that are open, and where
          stack, cascade,  \* z_order, g_next_cascade modulo its 4 steps
          drag             \* the window dragged, and g_drag_off_x, _y
placementVars == <<place, stack, cascade, drag>>

NotHeld == [app |-> None, x |-> 0, y |-> 0]

PlacementInit == /\ place = [app \in {} |-> None]
                 /\ stack = <<>>
                 /\ cascade = 0
                 /\ drag = NotHeld

-----------------------------------------------------------------------------
(* Rectangles.                                                             *)

Rect(x, y, w, h) == [x |-> x, y |-> y, w |-> w, h |-> h]
PointIn(p, r) == /\ p.x >= r.x /\ p.x < r.x + r.w
                 /\ p.y >= r.y /\ p.y < r.y + r.h
Centre(r) == [x |-> r.x + r.w \div 2, y |-> r.y + r.h \div 2]

Whole == Rect(0, 0, W, H)
TitleBar(r) == Rect(r.x, r.y, r.w, TITLE_H)
CloseButton(r) == Rect(r.x + r.w - 22, r.y + 6, 12, 12)
Icon(app) == Rect(30, IconY[app], 80, 80)

\* taskbar_btn_rect
TaskbarButton(i) == Rect(110 + (i - 1) * 146, TaskbarTop + 4, 140, 24)

\* The buttons draw_calculator_in lays out: 16, and the two wide ones below.
CalculatorButtons(r) ==
  LET cell   == (r.w - 2 * WIN_PAD - 12) \div 4
      x(col) == r.x + WIN_PAD + col * (cell + 4)
      y(row) == r.y + TITLE_H + WIN_PAD + 64 + row * 48
  IN  {Rect(x(col), y(row), cell, 44) : col \in 0..3, row \in 0..3}
        \union {Rect(x(col), y(4), 2 * cell + 4, 44) : col \in {0, 2}}

-----------------------------------------------------------------------------
(* open_app.                                                               *)

Placed(app, step) ==
  LET w == Smaller(Width[app], W - 40)
      h == Smaller(Height[app], H - 80)
  IN  Rect(Smaller(160 + step * 26, W - w - 10), Smaller(60 + step * 26, H - h - 50), w, h)

\* An application whose window is open is only raised.
OpenApp(app, z) ==
  IF app \in DOMAIN place
  THEN stack' = Raised(z, app) /\ UNCHANGED <<place, cascade>>
  ELSE /\ stack' = Append(z, app)
       /\ place' = [a \in DOMAIN place \union {app} |->
                      IF a = app THEN Placed(app, cascade) ELSE place[a]]
       /\ cascade' = (cascade + 1) % 4

CloseWindow(app) == /\ place' = [a \in DOMAIN place \ {app} |-> place[a]]
                    /\ stack' = Removed(stack, app)
                    /\ UNCHANGED cascade

-----------------------------------------------------------------------------
(* handle_left_press.                                                      *)

\* The window a press at p goes to: the first in the stack, from the top
Under(p) == {i \in DOMAIN stack : PointIn(p, place[stack[i]])}
Hit(p) == IF Under(p) = {} THEN None
          ELSE stack[CHOOSE i \in Under(p) : \A j \in Under(p) : j <= i]

PressTaskbar(p) ==
  /\ p.y >= TaskbarTop
  /\ \E i \in DOMAIN stack : PointIn(p, TaskbarButton(i)) /\ stack' = Raised(stack, stack[i])
  /\ UNCHANGED <<place, cascade, drag>>

PressClose(p) == /\ p.y < TaskbarTop /\ Hit(p) # None
                 /\ PointIn(p, CloseButton(place[Hit(p)]))
                 /\ CloseWindow(Hit(p))
                 /\ UNCHANGED drag

\* The title bar is gripped where the press is.
PressTitle(p) ==
  /\ p.y < TaskbarTop /\ Hit(p) # None
  /\ ~PointIn(p, CloseButton(place[Hit(p)]))
  /\ PointIn(p, TitleBar(place[Hit(p)]))
  /\ stack' = Raised(stack, Hit(p))
  /\ LET r == place[Hit(p)]
     IN  drag' = [app |-> Hit(p), x |-> r.x - p.x, y |-> r.y - p.y]
  /\ UNCHANGED <<place, cascade>>

\* In the body nothing moves; the Files window may open another.
PressBody(p) ==
  /\ p.y < TaskbarTop /\ Hit(p) # None
  /\ ~PointIn(p, CloseButton(place[Hit(p)]))
  /\ ~PointIn(p, TitleBar(place[Hit(p)]))
  /\ \/ stack' = Raised(stack, Hit(p)) /\ UNCHANGED <<place, cascade>>
     \/ Hit(p) = "FILES" /\ \E app \in FromFiles : OpenApp(app, Raised(stack, "FILES"))
  /\ UNCHANGED drag

PressIcon(p) == /\ p.y < TaskbarTop /\ Hit(p) = None
                /\ \E app \in Icons : PointIn(p, Icon(app)) /\ OpenApp(app, stack)
                /\ UNCHANGED drag

\* Where presses are tried: both ends of each title bar, the middle of each
\* window, close button, icon and taskbar button; as far as they are on the
\* screen, and other windows' points not as further grips of a title bar (the
\* bound).
TitleEnds(r) == {[x |-> r.x, y |-> r.y], [x |-> r.x + r.w - 30, y |-> r.y]}
Points == (UNION {TitleEnds(place[a]) \union {Centre(place[a]), Centre(CloseButton(place[a]))} :
                    a \in DOMAIN place})
            \union {Centre(Icon(app)) : app \in Icons}
            \union {Centre(TaskbarButton(i)) : i \in DOMAIN stack}
Grips(p, r) == PointIn(p, TitleBar(r)) => p \in TitleEnds(r) \/ PointIn(p, CloseButton(r))
Presses == {p \in Points : PointIn(p, Whole) /\ (Hit(p) # None => Grips(p, place[Hit(p)]))}

Press == /\ drag = NotHeld
         /\ \E p \in Presses : \/ PressTaskbar(p) \/ PressClose(p) \/ PressTitle(p)
                               \/ PressBody(p) \/ PressIcon(p)

\* Limits that keep a corner of the window on the screen, and not its title
LimitedLoosely(r, nx, ny) ==
  [r EXCEPT !.x = Smaller(Larger(nx, 80 - r.w), W - 80), !.y = Smaller(Larger(ny, 0), TaskbarTop)]

\* gui_tick's limits: 80 pixels at the sides, and the taskbar's top below
Limited(r, nx, ny) ==
  [r EXCEPT !.x = Smaller(Larger(nx, 80 - r.w), W - 80),
            !.y = Smaller(Larger(ny, 0), TaskbarTop - TITLE_H)]

\* A tick with the button down, and one in which it came up
DragTo(p, released) ==
  /\ drag # NotHeld
  /\ place' = [place EXCEPT ![drag.app] = Limited(@, p.x + drag.x, p.y + drag.y)]
  /\ drag' = IF released THEN NotHeld ELSE drag
  /\ UNCHANGED <<stack, cascade>>

PlacementNext == Press \/ \E p \in Pointed, released \in BOOLEAN : DragTo(p, released)

PlacementSpec == PlacementInit /\ [][PlacementNext]_placementVars

-----------------------------------------------------------------------------
\* redraw_all: the windows are painted in the order of the stack over the
\* desktop, so a point has the colour of the last one that covers it.
Seen(p) == LET painted[n \in 0..Len(stack)] ==
                 IF n = 0 THEN None
                 ELSE IF PointIn(p, place[stack[n]]) THEN stack[n] ELSE painted[n - 1]
           IN  painted[Len(stack)]

(* A window can always be got back.  Wherever it was opened or dragged to, *)
(* some of its title bar is on the screen, above the taskbar and beside    *)
(* the close button, so that it can be gripped once its taskbar button,    *)
(* which is on the screen and no other's, has raised it.                   *)
Recoverable ==
  /\ \A a \in DOMAIN place :
        LET r == place[a]
            grip == [x |-> Larger(r.x, 0), y |-> r.y + 6]
        IN  /\ PointIn(grip, Whole) /\ PointIn(grip, TitleBar(r))
            /\ r.y + TITLE_H <= TaskbarTop
            /\ ~PointIn(grip, CloseButton(r))
            /\ \E i \in DOMAIN stack : stack[i] = a
  /\ \A i, j \in DOMAIN stack :
        /\ TaskbarButton(i).x + TaskbarButton(i).w <= W
        /\ PointIn(Centre(TaskbarButton(i)), TaskbarButton(j)) => i = j

(* What is seen above the taskbar is what a press there goes to, and the   *)
(* calculator's buttons are apart and inside its window, wherever it is.   *)
SeenIsHit ==
  /\ \A p \in Points : p.y < TaskbarTop => Seen(p) = Hit(p)
  /\ "CALCULATOR" \in DOMAIN place =>
       LET r == place["CALCULATOR"]
       IN  \A b \in CalculatorButtons(r) :
             /\ PointIn(b, r) /\ b.x + b.w <= r.x + r.w /\ b.y + b.h <= r.y + r.h
             /\ b.y >= r.y + TITLE_H
             /\ \A c \in CalculatorButtons(r) : PointIn(Centre(b), c) => b = c

Reachable == Recoverable /\ SeenIsHit
=============================================================================
