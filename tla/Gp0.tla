-------------------------------- MODULE Gp0 --------------------------------
(***************************************************************************)
(* The GPU's two ports (gpu.rs, Gpu) and the picture the core hands to the *)
(* frontend (api.rs, framebuffer_rgba).  GP0 words become commands of one  *)
(* or many words, or pixels; a finished command is noted in `drawn', in    *)
(* place of what the rasterizer (module Raster) paints for it.  A word is  *)
(* a record of the fields somebody reads it for: the same word is an       *)
(* opcode to one reader and a coordinate or two pixels to another.         *)
(***************************************************************************)
EXTENDS Words

CONSTANTS
  VramWidth, VramHeight,  \* VRAM_WIDTH, VRAM_HEIGHT
  FillUnit,               \* the pixels a fill is aligned to (16)
  NoTransfer,             \* Option::None
  Black                   \* pixel 0

Transfers == [x : Nat, y : Nat, w : Nat, h : Nat, done : Nat]

ASSUME Gp0Assumption ==
  /\ VramWidth \in Nat \ {0} /\ VramHeight \in Nat \ {0} /\ FillUnit \in Nat \ {0}
  /\ NoTransfer \notin Transfers

\* A word as a command: its opcode class and bits 28, 27 and 26.
Op(w)       == Field(w, "op", "nop")
Shaded(w)   == Field(w, "shaded", FALSE)
More(w)     == Field(w, "more", FALSE)       \* a quad; a poly-line
Textured(w) == Field(w, "textured", FALSE)
Sized(w)    == Field(w, "sized", FALSE)      \* a rectangle that brings its size
\* As a coordinate, as dimensions, as the end of a poly-line, as two pixels.
X(w)    == Field(w, "x", 0)
Y(w)    == Field(w, "y", 0)
W(w)    == Field(w, "w", 1)
H(w)    == Field(w, "h", 1)
Stop(w) == Field(w, "stop", FALSE)
Lo(w)   == Field(w, "lo", Black)
Hi(w)   == Field(w, "hi", Black)

\* Coordinates and dimensions are fields of bits.
IsWord(w) == X(w) \in Nat /\ Y(w) \in Nat /\ W(w) \in Nat /\ H(w) \in Nat

PolyLine(w) == Op(w) = "line" /\ More(w)

One(b) == IF b THEN 1 ELSE 0

\* The words of a command, its first included.  Poly-lines have no such number.
WordCount(w) ==
  LET corners == IF More(w) THEN 4 ELSE 3
      counts  == [fill |-> 3, copy |-> 4, load |-> 3, store |-> 3,
                  line |-> 3 + One(Shaded(w)),
                  rect |-> 2 + One(Textured(w)) + One(Sized(w)),
                  poly |-> 1 + corners + One(Textured(w)) * corners
                             + One(Shaded(w)) * (corners - 1)]
  IN  Field(counts, Op(w), 1)

\* The word 0.
Zero == [lo |-> Black, hi |-> Black]

Screen == [on |-> FALSE, x |-> 0, y |-> 0, deep |-> FALSE]

NewGpu ==
  [buf |-> <<>>, need |-> 0, line |-> FALSE, shaded |-> FALSE,
   load |-> NoTransfer, store |-> NoTransfer, latch |-> Zero,
   irq |-> FALSE, screen |-> Screen, drawn |-> <<>>,
   vram |-> [y \in 0..(VramHeight - 1) |-> [x \in 0..(VramWidth - 1) |-> Black]]]

(***************************************************************************)
(* Rectangles of VRAM                                                      *)
(***************************************************************************)
Wrapped(n, size) == IF n % size = 0 THEN size ELSE n % size

Transfer(at, size) ==
  [x |-> X(at), y |-> Y(at), w |-> Wrapped(W(size), VramWidth),
   h |-> Wrapped(H(size), VramHeight), done |-> 0]

\* From VRAM the rectangle is read as it is written.
StoreTransfer(at, size) == Transfer(at, size)

Area(t) == t.w * t.h
Pixel(t, i) ==
  [x |-> (t.x + (i % t.w)) % VramWidth, y |-> (t.y + i \div t.w) % VramHeight]
Peek(vram, p)    == vram[p.y][p.x]
Poke(vram, p, v) == [vram EXCEPT ![p.y][p.x] = v]

\* Mutant: the transfer ends one word late.
Advance_Late(t, n) == IF t.done + n > Area(t) THEN NoTransfer ELSE [t EXCEPT !.done = @ + n]
Advance(t, n) == IF t.done + n >= Area(t) THEN NoTransfer ELSE [t EXCEPT !.done = @ + n]

\* Two pixels of a load; the last word of an odd one brings a single pixel.
PushPixels(g, w) ==
  LET t     == g.load
      first == Poke(g.vram, Pixel(t, t.done), Lo(w))
  IN  [g EXCEPT !.load = Advance(t, 2),
                !.vram = IF t.done + 1 < Area(t)
                         THEN Poke(first, Pixel(t, t.done + 1), Hi(w)) ELSE first]

\* A copy goes pixel by pixel in rows, so an overlapping one reads its own writes.
Copied(vram, from, to) ==
  FoldLeft(LAMBDA v, i : Poke(v, Pixel(to, i - 1), Peek(v, Pixel(from, i - 1))),
           vram, [i \in 1..Area(to) |-> i])

\* A fill is aligned to FillUnit in x, and may be empty.
Filled(vram, color, at, size) ==
  LET left  == X(at) - (X(at) % FillUnit)
      width == (((W(size) + FillUnit - 1) \div FillUnit) * FillUnit) % VramWidth
      xs    == {(left + c) % VramWidth : c \in 0..(width - 1)}
      ys    == {(Y(at) + r) % VramHeight : r \in 0..((H(size) % VramHeight) - 1)}
  IN  [y \in DOMAIN vram |-> [x \in DOMAIN vram[y] |->
         IF x \in xs /\ y \in ys THEN Lo(color) ELSE vram[y][x]]]

(***************************************************************************)
(* GP0                                                                     *)
(***************************************************************************)
Execute(g) ==
  LET b == g.buf
      r == [g EXCEPT !.buf = <<>>, !.need = 0, !.drawn = Append(@, b)]
  IN  CASE Op(b[1]) = "irq"   -> [r EXCEPT !.irq = TRUE]
        [] Op(b[1]) = "fill"  -> [r EXCEPT !.vram = Filled(@, b[1], b[2], b[3])]
        [] Op(b[1]) = "copy"  ->
             [r EXCEPT !.vram = Copied(@, Transfer(b[2], b[4]), Transfer(b[3], b[4]))]
        [] Op(b[1]) = "load"  -> [r EXCEPT !.load = Transfer(b[2], b[3])]
        [] Op(b[1]) = "store" -> [r EXCEPT !.store = StoreTransfer(b[2], b[3])]
        [] OTHER -> r

\* Mutant: the end word is looked for in every slot.
StopSlot_Anywhere(g) == Len(g.buf) >= 1

\* In a shaded poly-line the end word stands where a color would, after a vertex;
\* in a flat one it may stand anywhere, in the place of the first vertex too.
StopSlot(g) == IF g.shaded THEN Len(g.buf) >= 2 /\ Len(g.buf) % 2 = 0 ELSE Len(g.buf) >= 1

PushPolyLine(g, w) ==
  IF StopSlot(g) /\ Stop(w)
  THEN [g EXCEPT !.line = FALSE, !.shaded = FALSE, !.buf = <<>>, !.drawn = Append(@, g.buf)]
  ELSE [g EXCEPT !.buf = Append(@, w)]

PushWord(g, w) ==
  LET b == [g EXCEPT !.buf = Append(@, w)]
  IN  IF Len(b.buf) >= g.need THEN Execute(b) ELSE b

Begin(g, w) ==
  IF PolyLine(w) THEN [g EXCEPT !.line = TRUE, !.shaded = Shaded(w), !.buf = <<w>>]
  ELSE LET b == [g EXCEPT !.buf = <<w>>, !.need = WordCount(w)]
       IN  IF b.need <= 1 THEN Execute(b) ELSE b

Gp0Write(g, w) ==
  IF g.load # NoTransfer THEN PushPixels(g, w)
  ELSE IF g.line THEN PushPolyLine(g, w)
  ELSE IF g.need # 0 THEN PushWord(g, w)
  ELSE Begin(g, w)

(***************************************************************************)
(* GP1, GPUREAD and the picture                                            *)
(***************************************************************************)
Gp1Ops == {"reset", "clear", "ack", "display", "start", "mode"}

Gp1Write(g, c) ==
  CASE c.op = "reset"   -> [NewGpu EXCEPT !.vram = g.vram]
    [] c.op = "clear"   -> [g EXCEPT !.buf = <<>>, !.need = 0, !.line = FALSE,
                                     !.load = NoTransfer, !.store = NoTransfer, !.drawn = <<>>]
    [] c.op = "ack"     -> [g EXCEPT !.irq = FALSE]
    [] c.op = "display" -> [g EXCEPT !.screen.on = c.on]
    [] c.op = "start"   -> [g EXCEPT !.screen.x = c.x, !.screen.y = c.y]
    [] c.op = "mode"    -> [g EXCEPT !.screen.deep = c.deep]

\* GPUREAD: two pixels of the store in progress, or the latch.
GpuRead(g) ==
  LET t    == g.store
      pair == [lo |-> Peek(g.vram, Pixel(t, t.done)),
               hi |-> IF t.done + 1 < Area(t)
                      THEN Peek(g.vram, Pixel(t, t.done + 1)) ELSE Black]
  IN  IF t = NoTransfer THEN [word |-> g.latch, gpu |-> g]
      ELSE [word |-> pair, gpu |-> [g EXCEPT !.store = Advance(t, 2), !.latch = pair]]

\* One pixel of the frame.  A halfword is <<low byte, high byte>>; at 24 bits per
\* pixel three bytes in a row make a pixel, at 15 a halfword does.  A display that is
\* off shows 0 at either depth.
FramePixel(g, ox, oy) ==
  LET halfword(i) ==
        IF g.screen.on
        THEN g.vram[(g.screen.y + oy) % VramHeight][(g.screen.x + i) % VramWidth]
        ELSE Black
      byte   == ox * 3
      four   == halfword(byte \div 2) \o halfword(byte \div 2 + 1)
  IN  IF g.screen.deep
      THEN [i \in 1..3 |-> four[(byte % 2) + i]]
      ELSE halfword(ox)

(***************************************************************************)
(* A reference for the parser: the commands of a whole stream of words,    *)
(* found from its start without the port's state.                          *)
(***************************************************************************)
\* Where the poly-line that starts at i ends, past the stream if it does not.
LineEnd(s, i) ==
  LET ends == {j \in (i + 1)..Len(s) :
                 Stop(s[j]) /\ (Shaded(s[i]) => (j - i) >= 2 /\ (j - i) % 2 = 0)}
  IN  IF ends = {} THEN Len(s) + 1 ELSE CHOOSE j \in ends : \A k \in ends : j <= k

CommandEnd(s, i) ==
  IF PolyLine(s[i]) THEN LineEnd(s, i) ELSE i + WordCount(s[i]) - 1

\* The words of pixels behind the command that ends at e.
PixelWords(s, i, e) ==
  IF Op(s[i]) = "load" THEN (Area(Transfer(s[i + 1], s[e])) + 1) \div 2 ELSE 0

Commands(s) ==
  LET from[i \in 1..(Len(s) + 1)] ==
        IF i = Len(s) + 1 \/ CommandEnd(s, i) > Len(s) THEN <<>>
        ELSE LET e    == CommandEnd(s, i)
                 last == IF PolyLine(s[i]) THEN e - 1 ELSE e
                 next == e + 1 + PixelWords(s, i, e)
             IN  <<SubSeq(s, i, last)>> \o IF next > Len(s) THEN <<>> ELSE from[next]
  IN  from[1]
=============================================================================
