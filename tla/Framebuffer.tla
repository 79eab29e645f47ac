---------------------------- MODULE Framebuffer -----------------------------
(***************************************************************************)
(* src/kernel/framebuffer.cpp: what the compositor draws in the back       *)
(* buffer, and the copy of it to the screen.  The buffer is memory, one    *)
(* cell per pixel, with the heap on either side; a drawing call computes   *)
(* the addresses it stores to, clipped and strided as the code does.       *)
(*                                                                         *)
(* `picture` is what the same calls draw on an endless plane.  A behaviour *)
(* is one frame: any number of calls, then fb_present.                     *)
(***************************************************************************)
EXTENDS Integers

CONSTANTS width, height, pitch_px,           \* of g_fb
          Lefts, Tops, Breadths,             \* where calls may draw: corners, and sides
          Sprite, SpriteW, SpriteH,          \* a source of fb_blit_keyed, and its sides
          SpriteKey,                         \* the colour of it that is not drawn
          Glyph, GlyphCells, Scales          \* of the font: lit bits, and all bits

ASSUME FramebufferAssumption ==
  /\ {width, height, pitch_px, SpriteW, SpriteH} \subseteq Nat \ {0}
  /\ width <= pitch_px
  /\ Lefts \cup Tops \cup Breadths \cup Scales \subseteq Int
  /\ Glyph \subseteq GlyphCells /\ GlyphCells \subseteq Int \X Int
  /\ DOMAIN Sprite = (0..(SpriteW - 1)) \X (0..(SpriteH - 1))

Dark == 0
Lit == 1
NotOurs == -1              \* what is in the memory that is not the buffer's

Buffer == 0..(width * height - 1)
Memory == (-width)..(width * (height + 1) - 1)
VideoMemory == 0..(pitch_px * height - 1)
Screen == (0..(width - 1)) \X (0..(height - 1))

\* cursor_buf, which has a sprite's rows one after the other
SpriteAt(i) == Sprite[<<i % SpriteW, i \div SpriteW>>]

VARIABLES back, hw, picture, frame
fbVars == <<back, hw, picture, frame>>

FbInit == /\ back = [a \in Memory |-> IF a \in Buffer THEN Dark ELSE NotOurs]
          /\ hw = [a \in VideoMemory |-> NotOurs]
          /\ picture = [p \in Screen |-> Dark]
          /\ frame = "drawing"

\* back_row(p[2])[p[1]], and the pixel that is there
At(p) == p[2] * width + p[1]
Pixel(a) == <<a % width, a \div width>>

Stores(cells) == back' = [a \in Memory |-> IF a \in DOMAIN cells THEN cells[a] ELSE back[a]]
Shows(pixels) == picture' = [p \in Screen |-> IF p \in DOMAIN pixels THEN pixels[p] ELSE picture[p]]

-----------------------------------------------------------------------------
(* Clipping.  A rectangle is moved in at the left and top, losing what it  *)
(* had there, and shortened at the right and bottom; 0 by 0 if nothing of  *)
(* it is left.                                                             *)

Nothing == [x |-> 0, y |-> 0, w |-> 0, h |-> 0]

\* A clip that moves the corner in and leaves the sides as they were
ClippedMoved(r) ==
  LET x == IF r.x < 0 THEN 0 ELSE r.x
      y == IF r.y < 0 THEN 0 ELSE r.y
  IN  IF r.w <= 0 \/ r.h <= 0 \/ x >= width \/ y >= height THEN Nothing
      ELSE [x |-> x, y |-> y,
            w |-> IF x + r.w > width THEN width - x ELSE r.w,
            h |-> IF y + r.h > height THEN height - y ELSE r.h]

Clipped(r) ==
  LET x == IF r.x < 0 THEN 0 ELSE r.x
      w == IF r.x < 0 THEN r.w + r.x ELSE r.w
      y == IF r.y < 0 THEN 0 ELSE r.y
      h == IF r.y < 0 THEN r.h + r.y ELSE r.h
  IN  IF w <= 0 \/ h <= 0 \/ x >= width \/ y >= height THEN Nothing
      ELSE [x |-> x, y |-> y,
            w |-> IF x + w > width THEN width - x ELSE w,
            h |-> IF y + h > height THEN height - y ELSE h]

PixelsOf(r) == {<<r.x + d[1], r.y + d[2]>> : d \in (0..(r.w - 1)) \X (0..(r.h - 1))}

\* The addresses the loops of fb_fill_rect store to
FillCells(r) == {At(p) : p \in PixelsOf(Clipped(r))}

\* fb_rect_outline: four sides, drawn as rectangles; none of an empty one.
Sides(r) == IF r.w <= 0 \/ r.h <= 0 THEN {}
            ELSE {[x |-> r.x, y |-> r.y, w |-> r.w, h |-> 1],
                  [x |-> r.x, y |-> r.y + r.h - 1, w |-> r.w, h |-> 1],
                  [x |-> r.x, y |-> r.y, w |-> 1, h |-> r.h],
                  [x |-> r.x + r.w - 1, y |-> r.y, w |-> 1, h |-> r.h]}

Rectangles == [x : Lefts, y : Tops, w : Breadths, h : Breadths]

\* fb_put_pixel
PutPixel(x, y) ==
  /\ Stores([a \in {At(p) : p \in {<<x, y>>} \cap Screen} |-> Lit])
  /\ Shows([p \in {<<x, y>>} |-> Lit])

\* font_draw_char: one fb_put_pixel for each bit, the dark ones if opaque.
DrawChar(x, y, opaque) ==
  LET bits == {<<x + b[1], y + b[2]>> : b \in IF opaque THEN GlyphCells ELSE Glyph}
      color(p) == IF <<p[1] - x, p[2] - y>> \in Glyph THEN Lit ELSE Dark
  IN  /\ Stores([a \in {At(p) : p \in bits \cap Screen} |-> color(Pixel(a))])
      /\ Shows([p \in bits |-> color(p)])

\* font_draw_char_scaled: one square for each lit bit.
DrawCharScaled(x, y, scale) ==
  LET squares == {[x |-> x + b[1] * scale, y |-> y + b[2] * scale, w |-> scale, h |-> scale] :
                    b \in Glyph}
  IN  /\ Stores([a \in UNION {FillCells(r) : r \in squares} |-> Lit])
      /\ Shows([p \in UNION {PixelsOf(r) : r \in squares} |-> Lit])

FillRect(r) == /\ Stores([a \in FillCells(r) |-> Lit])
               /\ Shows([p \in PixelsOf(r) |-> Lit])

OnEdge(p, r) == p[1] \in {r.x, r.x + r.w - 1} \/ p[2] \in {r.y, r.y + r.h - 1}
RectOutline(r) == /\ Stores([a \in UNION {FillCells(s) : s \in Sides(r)} |-> Lit])
                  /\ Shows([p \in {q \in PixelsOf(r) : OnEdge(q, r)} |-> Lit])

\* fb_blit_keyed: the source's origin moves with the corner, and pixels of
\* the key's colour leave what is below them.
BlitKeyed(x, y) ==
  LET r  == [x |-> x, y |-> y, w |-> SpriteW, h |-> SpriteH]
      c  == Clipped(r)
      sx == IF x < 0 THEN -x ELSE 0
      sy == IF y < 0 THEN -y ELSE 0
      source(p) == SpriteAt((sy + p[2] - c.y) * SpriteW + sx + p[1] - c.x)
      color(p)  == Sprite[<<p[1] - x, p[2] - y>>]
  IN  /\ Stores([a \in {At(p) : p \in {q \in PixelsOf(c) : source(q) # SpriteKey}} |->
                   source(Pixel(a))])
      /\ Shows([p \in {q \in PixelsOf(r) : color(q) # SpriteKey} |-> color(p)])

\* fb_clear
FbClear == /\ Stores([a \in Buffer |-> Dark])
           /\ Shows([p \in Screen |-> Dark])

\* A present that takes the screen's rows to be as long as the buffer's
PresentTight ==
  /\ frame = "drawing" /\ frame' = "shown"
  /\ hw' = [a \in VideoMemory |-> IF a \in Buffer THEN back[a] ELSE hw[a]]
  /\ UNCHANGED <<back, picture>>

\* fb_present: line by line, as the screen's pitch may be longer than a row.
Present ==
  /\ frame = "drawing" /\ frame' = "shown"
  /\ hw' = [a \in VideoMemory |-> IF a % pitch_px < width
                                  THEN back[At(<<a % pitch_px, a \div pitch_px>>)] ELSE hw[a]]
  /\ UNCHANGED <<back, picture>>

Draw == /\ frame = "drawing"
        /\ \/ \E r \in Rectangles : FillRect(r) \/ RectOutline(r)
           \/ \E x \in Lefts, y \in Tops :
                \/ PutPixel(x, y) \/ BlitKeyed(x, y)
                \/ \E opaque \in BOOLEAN : DrawChar(x, y, opaque)
                \/ \E scale \in Scales : DrawCharScaled(x, y, scale)
           \/ FbClear
        /\ UNCHANGED <<hw, frame>>

FbNext == Draw \/ Present

FbSpec == FbInit /\ [][FbNext]_fbVars

-----------------------------------------------------------------------------

(* However far a window, a glyph or the pointer hangs over an edge, the    *)
(* calls store in the back buffer exactly the part of the picture that is  *)
(* on the screen, each pixel once at its place, and nothing before or      *)
(* behind the buffer, which is a block of the kernel heap; the screen then *)
(* shows it, and its padding is left alone.                                *)
ClipExact ==
  /\ \A p \in Screen : back[At(p)] = picture[p]
  /\ \A a \in Memory : a \notin Buffer => back[a] = NotOurs
  /\ frame = "shown" =>
       \A a \in VideoMemory :
          hw[a] = IF a % pitch_px < width THEN picture[<<a % pitch_px, a \div pitch_px>>]
                  ELSE NotOurs
=============================================================================
