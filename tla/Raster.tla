------------------------------- MODULE Raster -------------------------------
(***************************************************************************)
(* What the GPU paints (gpu.rs): triangles, quads, rectangles, lines and   *)
(* poly-lines, pixel by pixel, under the drawing area, the drawing offset, *)
(* the mask bit and semi-transparency.  A pixel is the list of the coats   *)
(* blended into it since it was last covered, and its mask bit.  One shade *)
(* stands for the three channels, one texture coordinate for the two; what *)
(* a texel holds matters only as far as shade_and_plot looks at it.        *)
(***************************************************************************)
EXTENDS Triangles, Sequences

CONSTANTS
  Width, Height,  \* of VRAM
  Texels,         \* what texture coordinate u holds: "clear", "solid" or "stp"
  Settings,       \* the attributes a program sets (GP0 E1, E3 to E6)
  Drawings        \* bound: the primitives it draws first, second, ... (a sequence of sets)

\* What an attribute may be: GP0(E3) and (E4) give an area, (E5) a signed offset.
Attributes ==
  [x0 |-> Nat, y0 |-> Nat, x1 |-> Nat, y1 |-> Nat, dx |-> Int, dy |-> Int,
   set |-> BOOLEAN, check |-> BOOLEAN, mode |-> 0..3]

\* A vertex is a point with a shade and a texture coordinate, a byte each.
Vertices == [x : Int, y : Int, shade : 0..255, u : 0..255]

DrawingOK(d) ==
  /\ d.semi \in BOOLEAN /\ d.textured \in BOOLEAN
  /\ d.vs \in Seq(Vertices)
  /\ \/ d.kind = "poly" /\ Len(d.vs) \in {3, 4} /\ (d.textured => d.page \in 0..3)
     \/ d.kind = "rect" /\ Len(d.vs) = 1 /\ d.w \in Nat /\ d.h \in Nat
     \/ d.kind = "line" /\ Len(d.vs) >= 2

ProgramOK ==
  /\ Width \in Nat /\ Height \in Nat /\ Len(Drawings) \in Nat
  /\ \A s \in Settings : /\ DOMAIN s \subseteq DOMAIN Attributes
                        /\ \A f \in DOMAIN s : s[f] \in Attributes[f]
  /\ \A i \in 1..Len(Drawings) : \A d \in Drawings[i] : DrawingOK(d)

ASSUME RasterAssumption == ProgramOK

VARIABLES
  vram,    \* [Pixels -> [coats, mask]]
  env,     \* drawing area, offset, mask settings, semi-transparency mode
  last,    \* history: the primitive drawn last, NoDrawing at first
  drawn    \* history: how many were drawn

canvasVars == <<vram, env, last, drawn>>

Pixels == [x : 0..(Width - 1), y : 0..(Height - 1)]
NoDrawing == [kind |-> "none"]

NewEnv == [x0 |-> 0, y0 |-> 0, x1 |-> 0, y1 |-> 0, dx |-> 0, dy |-> 0,
           set |-> FALSE, check |-> FALSE, mode |-> 0]

----------------------------------------------------------------------------
Least(a, b) == IF a < b THEN a ELSE b
Most(a, b)  == IF a > b THEN a ELSE b
Size(n)     == Most(n, -n)

Offset(v) == [v EXCEPT !.x = @ + env.dx, !.y = @ + env.dy]

\* The pixels a primitive plots, in order, each with its shade and coordinate.
Plot(x, y, shade, u) == [x |-> x, y |-> y, shade |-> shade, u |-> u]

\* The drawing area and its pixels, counted row by row.
AreaWidth  == Most(env.x1 + 1 - env.x0, 0)
AreaHeight == Most(env.y1 + 1 - env.y0, 0)
AreaPixel(n) == [x |-> env.x0 + (n % AreaWidth), y |-> env.y0 + (n \div AreaWidth)]

\* raster_triangle: the corners are put in the order that makes the area
\* positive; a triangle without area paints nothing.
Turned(a, b, c) == IF Edge(a, b, c) < 0 THEN <<a, c, b>> ELSE <<a, b, c>>

TrianglePlot(t, p) ==
  Plot(p.x, p.y, Interpolated(t, p, [k \in 1..3 |-> t[k].shade]),
       Interpolated(t, p, [k \in 1..3 |-> t[k].u]))

Scanned(t) ==
  LET upTo[n \in 0..(AreaWidth * AreaHeight)] ==
        IF n = 0 THEN <<>>
        ELSE IF Covers(t, AreaPixel(n - 1))
             THEN Append(upTo[n - 1], TrianglePlot(t, AreaPixel(n - 1)))
             ELSE upTo[n - 1]
  IN  upTo[AreaWidth * AreaHeight]

Triangle(a, b, c) == IF Edge(a, b, c) = 0 THEN <<>> ELSE Scanned(Turned(a, b, c))

\* Quads are split along the diagonal from the first corner to the third.
Polygon(vs) ==
  Triangle(vs[1], vs[2], vs[3]) \o IF Len(vs) = 4 THEN Triangle(vs[1], vs[3], vs[4]) ELSE <<>>

Rectangle(v, w, h) ==
  [i \in 1..(w * h) |-> Plot(v.x + ((i - 1) % w), v.y + ((i - 1) \div w),
                             v.shade, v.u + ((i - 1) % w))]

\* Rust divides towards zero.
Quotient(n, d) == IF n >= 0 THEN n \div d ELSE -((-n) \div d)

\* The shade i steps from a.
\* Mutant: the pixels are counted, not the steps between them.
ShadeAt_Pixels(a, b, i, steps) ==
  IF steps = 0 THEN a.shade ELSE a.shade + Quotient((b.shade - a.shade) * i, steps + 1)
ShadeAt(a, b, i, steps) ==
  IF steps = 0 THEN a.shade ELSE a.shade + Quotient((b.shade - a.shade) * i, steps)

\* draw_line_shaded: Bresenham's line.  Where its loop is after each round; a
\* round goes on by a pixel in one direction at least.
Across(a, b) == Size(b.x - a.x)
Down(a, b)   == Size(b.y - a.y)
Steps(a, b)  == Most(Across(a, b), Down(a, b))

Round(a, b, s) ==
  LET dx == Across(a, b)
      dy == Down(a, b)
      across == 2 * s.err > -dy
      down   == 2 * s.err < dx
  IN  [x   |-> IF across THEN (IF a.x < b.x THEN s.x + 1 ELSE s.x - 1) ELSE s.x,
       y   |-> IF down THEN (IF a.y < b.y THEN s.y + 1 ELSE s.y - 1) ELSE s.y,
       err |-> s.err - (IF across THEN dy ELSE 0) + (IF down THEN dx ELSE 0)]

Rounds(a, b) ==
  LET after[i \in 0..(Across(a, b) + Down(a, b))] ==
        IF i = 0 THEN [x |-> a.x, y |-> a.y, err |-> Across(a, b) - Down(a, b)]
        ELSE Round(a, b, after[i - 1])
  IN  after

Ends(s, b) == s.x = b.x /\ s.y = b.y

ShadedLine(a, b) ==
  LET after == Rounds(a, b)
      end == CHOOSE i \in DOMAIN after : /\ Ends(after[i], b)
                                           /\ \A j \in 0..(i - 1) : ~ Ends(after[j], b)
  IN  [k \in 1..(end + 1) |-> Plot(after[k - 1].x, after[k - 1].y,
                                     ShadeAt(a, b, k - 1, Steps(a, b)), 0)]

\* draw_single_line, and a poly-line: a segment from each vertex to the next.
SingleLine(vs) == ShadedLine(vs[1], vs[2])
Lines(vs) ==
  LET upTo[n \in 0..(Len(vs) - 1)] == IF n = 0 THEN <<>> ELSE upTo[n - 1] \o ShadedLine(vs[n], vs[n + 1])
  IN  upTo[Len(vs) - 1]

Plots(d) ==
  LET vs == [i \in DOMAIN d.vs |-> Offset(d.vs[i])]
  IN  CASE d.kind = "poly" -> Polygon(vs)
        [] d.kind = "rect" -> Rectangle(vs[1], d.w, d.h)
        [] d.kind = "line" /\ Len(vs) = 2 -> SingleLine(vs)
        [] d.kind = "line" /\ Len(vs) > 2 -> Lines(vs)

----------------------------------------------------------------------------
\* blend: a coat in one of the four modes goes over what is there, any other
\* covers it.
Opaque == 4
Blended(coats, coat) == IF coat.mode = Opaque THEN <<coat>> ELSE Append(coats, coat)

\* sample_texel: the texture lies outside what is painted here.
Texel(d, u) == IF d.textured THEN Texels[(u % Len(Texels)) + 1] ELSE "none"

\* shade_and_plot and write_pixel: a clear texel paints nothing, the mask bit
\* of a texel gates the blend of a semi-transparent primitive and is kept.
Written(v, d, mode, plot) ==
  LET p     == [x |-> plot.x, y |-> plot.y]
      texel == Texel(d, plot.u)
      coat  == [shade |-> plot.shade,
                mode  |-> IF d.semi /\ texel # "solid" THEN mode ELSE Opaque]
      inside == p.x \in env.x0..env.x1 /\ p.y \in env.y0..env.y1 /\ p \in Pixels
  IN  IF ~ inside \/ texel = "clear" THEN v
      ELSE IF env.check /\ v[p].mask THEN v
      ELSE [v EXCEPT ![p] = [coats |-> Blended(@.coats, coat),
                             mask  |-> env.set \/ texel = "stp"]]

\* A textured polygon brings its own mode, and leaves it to those that follow.
Mode(d) == IF d.kind = "poly" /\ d.textured THEN d.page ELSE env.mode

\* The pixels are written one after the other.
Painted(d) ==
  LET plots == Plots(d)
      upTo[n \in 0..Len(plots)] ==
        IF n = 0 THEN vram ELSE Written(upTo[n - 1], d, Mode(d), plots[n])
  IN  upTo[Len(plots)]

CanvasInit ==
  /\ vram = [p \in Pixels |-> [coats |-> <<>>, mask |-> FALSE]]
  /\ env = NewEnv
  /\ last = NoDrawing /\ drawn = 0

Set(s) ==
  /\ drawn < Len(Drawings)
  /\ env' = [f \in DOMAIN env |-> IF f \in DOMAIN s THEN s[f] ELSE env[f]]
  /\ UNCHANGED <<vram, last, drawn>>

Draw(d) ==
  /\ vram' = Painted(d)
  /\ env' = [env EXCEPT !.mode = Mode(d)]
  /\ last' = d /\ drawn' = drawn + 1

CanvasNext ==
  \/ \E s \in Settings : Set(s)
  \/ drawn < Len(Drawings) /\ \E d \in Drawings[drawn + 1] : Draw(d)

CanvasSpec == CanvasInit /\ [][CanvasNext]_canvasVars

----------------------------------------------------------------------------
\* Types.
CanvasTypeOK ==
  /\ vram \in [Pixels -> [coats : Seq([shade : 0..255, mode : 0..Opaque]), mask : BOOLEAN]]
  /\ env \in [x0 : Nat, y0 : Nat, x1 : Nat, y1 : Nat, dx : Int, dy : Int,
              set : BOOLEAN, check : BOOLEAN, mode : 0..3]
  /\ drawn \in 0..Len(Drawings)
  /\ (last = NoDrawing) <=> (drawn = 0)

Following(vs, i) == vs[(i % Len(vs)) + 1]
Sides(vs, p) == {IF e > 0 THEN 1 ELSE IF e < 0 THEN -1 ELSE 0 :
                  e \in {Edge(vs[i], Following(vs, i), p) : i \in DOMAIN vs}}
Inside(vs, p) == Sides(vs, p) \in {{1}, {-1}}

\* A triangle, or a convex quad whose corners are given around it.
Around(vs) ==
  \/ Len(vs) = 3
  \/ \E side \in {1, -1} : \A i \in DOMAIN vs :
       side * Edge(vs[i], Following(vs, i), Following(vs, (i % Len(vs)) + 1)) > 0

InArea(p) == p.x \in env.x0..env.x1 /\ p.y \in env.y0..env.y1

CoatedOnce(d, p) ==
  LET vs   == [i \in DOMAIN d.vs |-> Offset(d.vs[i])]
      more == Len(vram'[p].coats) - Len(vram[p].coats)
  IN  /\ more \in {0, 1}
      /\ Inside(vs, p) /\ InArea(p) /\ ~ (env.check /\ vram[p].mask) => more = 1

Blends(d) == d.kind = "poly" /\ d.semi /\ ~ d.textured

\* "Shared edges between adjacent triangles are covered once (no double blend
\* for semi-transparent primitives, no gaps)": a semi-transparent polygon
\* whose corners are given around it blends into no pixel twice, and into
\* every pixel inside it, the seam between its two triangles included.
SeamsPaintedOnce ==
  [][drawn' # drawn /\ Blends(last') /\ Around(last'.vs)
       => \A p \in Pixels : CoatedOnce(last', p)]_canvasVars

\* The same of every quad: "the two triangles share edge 0-2, which is
\* traversed in opposite directions once each is normalised to positive area,
\* so the top-left fill rule covers the seam exactly once".
EveryQuadPaintedOnce ==
  [][drawn' # drawn /\ Blends(last') /\ Len(last'.vs) = 4
       => \A p \in Pixels : Len(vram'[p].coats) - Len(vram[p].coats) \in {0, 1}]_canvasVars

\* The interpolated shade stays between the shades of the corners, and is a
\* corner's own shade at that corner.
ShadesFit ==
  last.kind = "poly" =>
    LET shades  == {last.vs[i].shade : i \in DOMAIN last.vs}
        painted == Plots(last)
    IN  \A i \in DOMAIN painted :
          /\ \E s \in shades : s <= painted[i].shade
          /\ \E s \in shades : painted[i].shade <= s
          /\ Around(last.vs) => \A k \in DOMAIN last.vs :
               (painted[i].x = Offset(last.vs[k]).x /\ painted[i].y = Offset(last.vs[k]).y)
                 => painted[i].shade = last.vs[k].shade

Spans(a, b, ps) ==
  LET steps == Steps(a, b)
  IN  /\ Len(ps) = steps + 1
      /\ ps[1] = Plot(a.x, a.y, a.shade, 0)
      /\ steps > 0 => ps[steps + 1] = Plot(b.x, b.y, b.shade, 0)
      /\ \A i \in 1..steps :
           /\ Size(ps[i + 1].x - ps[i].x) <= 1 /\ Size(ps[i + 1].y - ps[i].y) <= 1
           /\ 2 * Size((ps[i].x - a.x) * steps - (b.x - a.x) * (i - 1)) <= steps
           /\ 2 * Size((ps[i].y - a.y) * steps - (b.y - a.y) * (i - 1)) <= steps

\* "The line spans steps + 1 pixels", from end to end in neighbouring pixels
\* that stay within half a pixel of it, and reaches its second shade.
LinesSpan ==
  last.kind = "line" =>
    \A k \in 1..(Len(last.vs) - 1) :
      Spans(last.vs[k], last.vs[k + 1], ShadedLine(last.vs[k], last.vs[k + 1]))

\* An edge that has the third corner to its right, or below it.
LeftEdge(a, b, third) ==
  (a.y < b.y /\ Edge(a, b, third) < 0) \/ (a.y > b.y /\ Edge(b, a, third) < 0)
TopEdge(a, b, third) == a.y = b.y /\ third.y > a.y

\* "A pixel that lies exactly on an edge is drawn only when that edge is a top
\* or left edge."
TopLeftRule ==
  last.kind = "poly" /\ Len(last.vs) = 3 =>
    LET vs      == [i \in 1..3 |-> Offset(last.vs[i])]
        painted == Plots(last)
    IN  \A i \in 1..3 : \A j \in DOMAIN painted :
          Edge(vs[i], Following(vs, i), painted[j]) = 0
            => \/ LeftEdge(vs[i], Following(vs, i), Following(vs, (i % 3) + 1))
               \/ TopEdge(vs[i], Following(vs, i), Following(vs, (i % 3) + 1))
=============================================================================
