------------------------------ MODULE Terminal ------------------------------
(***************************************************************************)
(* The two character screens of the kernel: the cells of the Terminal      *)
(* window (src/kernel/gui.cpp, gui_term_putc) and the VGA text buffer used *)
(* when there is no framebuffer (src/kernel/vga.cpp, vga_putchar).  The    *)
(* boot decides which: g_redirect_to_gui.                                  *)
(*                                                                         *)
(* Interrupt and system call handlers print with interrupts off.  The main *)
(* loop prints with interrupts on when it launches a program from the      *)
(* Files window (vfs.cpp, run_user_elf: glyphs and newlines), and a key    *)
(* may be echoed in between; its gui_term_putc is split where the build    *)
(* (-O2) loads and stores the shared fields.                               *)
(*                                                                         *)
(* ink is the same text on a roll of paper without end, by line and column.*)
(***************************************************************************)
EXTENDS Integers

CONSTANTS Rows, Cols,   \* TERM_ROWS and TERM_COLS; VGA_HEIGHT and VGA_WIDTH
          TabStop,      \* 8, a divisor of Cols
          Glyphs,       \* printable characters
          MaxLines      \* bound: lines of the roll

Controls == {"newline", "return", "backspace", "tab"}

ASSUME TerminalAssumption == /\ {Rows, Cols, TabStop} \subseteq Nat \ {0}
                             /\ Cols % TabStop = 0
                             /\ Glyphs \cap Controls = {}

VARIABLES g_redirect_to_gui,
          screen,   \* cells, the cursor, and whether a store fell outside
          term_pc, char, column,   \* the main loop inside gui_term_putc, its registers
          overlap,  \* the worst place an interrupt has printed in so far
          ink, line

termVars == <<g_redirect_to_gui, screen, term_pc, char, column, overlap, ink, line>>

BlankRow == [c \in 0..(Cols - 1) |-> " "]
Cleared == [cells |-> [r \in 0..(Rows - 1) |-> BlankRow], row |-> 0, col |-> 0, stores |-> "inside"]

-----------------------------------------------------------------------------
(* gui_term_putc and vga_putchar, from a screen to a screen.               *)

GlyphStored(s, c, glyph) ==
  IF s.row < Rows /\ c < Cols THEN [s EXCEPT !.cells[s.row][c] = glyph]
                              ELSE [s EXCEPT !.stores = "outside"]

\* A scroll that leaves the last row as it was
ScrolledUncleared(s) ==
  [s EXCEPT !.row = Rows - 1,
            !.cells = [r \in 0..(Rows - 1) |-> IF r = Rows - 1 THEN @[r] ELSE @[r + 1]]]

\* term_scroll_one, vga_scroll: and the cursor is on the last row.
Scrolled(s) ==
  [s EXCEPT !.row = Rows - 1,
            !.cells = [r \in 0..(Rows - 1) |-> IF r = Rows - 1 THEN BlankRow ELSE @[r + 1]]]

Fit(s) == IF s.row >= Rows THEN Scrolled(s) ELSE s

\* term_newline
NextRow(s) == [s EXCEPT !.row = @ + 1, !.col = 0]
Newline(s) == Fit(NextRow(s))

Printed(s, glyph) == LET t == IF s.col >= Cols THEN Newline(s) ELSE s
                     IN  [GlyphStored(t, t.col, glyph) EXCEPT !.col = @ + 1]

\* Spaces, at least one, until the column is a multiple of TabStop
Tabbed(s) == LET t[n \in 0..TabStop] ==
                   IF n = 0 THEN Printed(s, " ")
                   ELSE IF t[n - 1].col % TabStop = 0 THEN t[n - 1]
                   ELSE Printed(t[n - 1], " ")
             IN  t[TabStop]

Erased(s) == IF s.col > 0 THEN [GlyphStored(s, s.col - 1, " ") EXCEPT !.col = @ - 1] ELSE s

GuiTermPutc(s, c) == CASE c = "newline"   -> Newline(s)
                       [] c = "return"    -> [s EXCEPT !.col = 0]
                       [] c = "backspace" -> Erased(s)
                       [] c = "tab"       -> Tabbed(s)
                       [] OTHER           -> Printed(s, c)

\* vga_putchar wraps at once, does not erase, and a tab only moves.
VgaMoved(s, c) ==
  CASE c = "newline"   -> NextRow(s)
    [] c = "return"    -> [s EXCEPT !.col = 0]
    [] c = "backspace" -> [s EXCEPT !.col = IF @ > 0 THEN @ - 1 ELSE @]
    [] c = "tab"       -> [s EXCEPT !.col = ((@ + TabStop) \div TabStop) * TabStop]
    [] OTHER           -> [GlyphStored(s, s.col, c) EXCEPT !.col = @ + 1]

VgaPutchar(s, c) == LET t == VgaMoved(s, c)
                    IN  Fit(IF t.col >= Cols THEN NextRow(t) ELSE t)

-----------------------------------------------------------------------------
(* The roll of paper.                                                      *)

Inked(l, c) == IF <<l, c>> \in DOMAIN ink THEN ink[<<l, c>>] ELSE " "
WithInk(l, c, glyph) == [p \in DOMAIN ink \union {<<l, c>>} |->
                           IF p = <<l, c>> THEN glyph ELSE ink[p]]
WithoutInk(places) == [p \in DOMAIN ink \ places |-> ink[p]]

\* Where the next glyph goes: in the window a full line is left only then.
Full == screen.col = Cols
Line == IF Full THEN line + 1 ELSE line
Column == IF Full THEN 0 ELSE screen.col

NextLine(c) ==
  IF \/ c = "newline"
     \/ g_redirect_to_gui /\ Full /\ c \in Glyphs \union {"tab"}
     \/ ~g_redirect_to_gui /\ c \in Glyphs /\ screen.col = Cols - 1
     \/ ~g_redirect_to_gui /\ c = "tab" /\ screen.col >= Cols - TabStop
  THEN line + 1 ELSE line

Ink(c) ==
  CASE c \in Glyphs -> WithInk(Line, Column, c)
    [] c = "backspace" /\ g_redirect_to_gui -> WithoutInk({<<line, screen.col - 1>>})
    [] c = "tab" /\ g_redirect_to_gui ->
         WithoutInk({Line} \X (Column .. (Column + TabStop - 1 - (Column % TabStop))))
    [] OTHER -> ink

\* What was written, as long as it was written in one piece; lines that no
\* screen shows any more are torn off.
Written(c) ==
  IF overlap' = "none"
  THEN /\ line' = NextLine(c)
       /\ ink' = [p \in {p \in DOMAIN Ink(c) : p[1] > line' - Rows} |-> Ink(c)[p]]
  ELSE /\ line' = 0
       /\ ink' = WithoutInk(DOMAIN ink)

-----------------------------------------------------------------------------

\* vga_init; gui_init's term_clear
TermInit == /\ g_redirect_to_gui \in BOOLEAN
            /\ screen = Cleared
            /\ term_pc = "out" /\ char = " " /\ column = 0
            /\ overlap = "none"
            /\ ink = [p \in {} |-> " "] /\ line = 0

\* A handler prints c, in full; or the main loop does and nothing comes between.
Putc(c) ==
  /\ screen' = IF g_redirect_to_gui THEN GuiTermPutc(screen, c) ELSE VgaPutchar(screen, c)
  /\ overlap' = CASE term_pc = "out" -> overlap
                  [] term_pc = "store" /\ overlap # "newline" -> "store"
                  [] OTHER -> "newline"
  /\ Written(c)
  /\ UNCHANGED <<g_redirect_to_gui, term_pc, char, column>>

\* vga_clear; with the window in use it clears a buffer nobody sees.
VgaClear == /\ ~g_redirect_to_gui
            /\ screen' = Cleared
            /\ ink' = WithoutInk(DOMAIN ink) /\ line' = 0
            /\ UNCHANGED <<g_redirect_to_gui, term_pc, char, column, overlap>>

\* The main loop's gui_term_putc: the column is loaded once, and tested.
MainEnters(c) ==
  /\ g_redirect_to_gui /\ term_pc = "out"
  /\ char' = c
  /\ column' = screen.col
  /\ term_pc' = IF c = "newline" \/ Full THEN "newline" ELSE "store"
  /\ UNCHANGED <<g_redirect_to_gui, screen, overlap>>
  /\ Written(c)

\* term_newline stores the next row, also one past the last,
MainNextRow == /\ term_pc = "newline"
               /\ screen' = NextRow(screen)
               /\ term_pc' = "scroll"
               /\ UNCHANGED <<g_redirect_to_gui, char, column, overlap, ink, line>>

\* and then scrolls; the column is loaded again.
MainScroll == /\ term_pc = "scroll"
              /\ screen' = Fit(screen)
              /\ term_pc' = IF char = "newline" THEN "out" ELSE "reload"
              /\ UNCHANGED <<g_redirect_to_gui, char, column, overlap, ink, line>>

MainReload == /\ term_pc = "reload"
              /\ column' = screen.col
              /\ term_pc' = "store"
              /\ UNCHANGED <<g_redirect_to_gui, screen, char, overlap, ink, line>>

\* The store of a build that loads the column again
MainStoreReloaded ==
  /\ term_pc = "store"
  /\ screen' = [GlyphStored(screen, screen.col, char) EXCEPT !.col = @ + 1]
  /\ term_pc' = "out"
  /\ UNCHANGED <<g_redirect_to_gui, char, column, overlap, ink, line>>

MainStore ==
  /\ term_pc = "store"
  /\ screen' = [GlyphStored(screen, column, char) EXCEPT !.col = column + 1]
  /\ term_pc' = "out"
  /\ UNCHANGED <<g_redirect_to_gui, char, column, overlap, ink, line>>

TermNext == /\ screen.stores = "inside"
            /\ line < MaxLines
            /\ \/ \E c \in Glyphs \union Controls : Putc(c)
               \/ \E c \in Glyphs \union {"newline"} : MainEnters(c)
               \/ VgaClear
               \/ MainNextRow \/ MainScroll \/ MainReload \/ MainStore

TermSpec == TermInit /\ [][TermNext]_termVars

-----------------------------------------------------------------------------

(* The screen is the last Rows lines of the text, for any text: wrapped,   *)
(* tabbed, erased and scrolled, as long as no interrupt printed inside the *)
(* main loop's gui_term_putc.                                              *)
ShowsTheText ==
  overlap = "none" /\ term_pc = "out" =>
    /\ screen.row = IF line < Rows THEN line ELSE Rows - 1
    /\ \A r \in 0..(Rows - 1), c \in 0..(Cols - 1) :
         screen.cells[r][c] = Inked(line - screen.row + r, c)

(* No glyph is stored outside the cells, even if an interrupt prints after *)
(* the main loop has tested the column; only inside term_newline, where    *)
(* cur_row may be one too large, is the main loop exposed.                 *)
StoresInside == screen.stores = "outside" => overlap = "newline"

(* Together: what the screen shows, and that nothing else is overwritten.  *)
TerminalRight == ShowsTheText /\ StoresInside
=============================================================================
