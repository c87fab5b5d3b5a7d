------------------------------ MODULE MCRaster ------------------------------
(***************************************************************************)
(* Raster for TLC: one primitive over an opaque textured triangle, under   *)
(* one of two settings: triangles and quads of a small grid, lines in      *)
(* every direction, bent ones, rectangles.                                 *)
(***************************************************************************)
EXTENDS Raster

CONSTANT GridWidth, GridHeight

MCTexels == <<"solid", "clear", "stp">>

Grid == [x : 0..(GridWidth - 1), y : 0..(GridHeight - 1)]
Shaded(p, s) == [x |-> p.x, y |-> p.y, shade |-> s, u |-> s % 4]
Shade == <<10, 200, 31, 128>>

Poly(corners, semi, textured, page) ==
  [kind |-> "poly", semi |-> semi, textured |-> textured, page |-> page,
   vs |-> [i \in DOMAIN corners |-> Shaded(corners[i], Shade[i])]]
Rect(p, w, h, semi, textured) ==
  [kind |-> "rect", semi |-> semi, textured |-> textured, w |-> w, h |-> h,
   vs |-> <<Shaded(p, 77)>>]
PolyLine(points, semi) ==
  [kind |-> "line", semi |-> semi, textured |-> FALSE,
   vs |-> [i \in DOMAIN points |-> Shaded(points[i], Shade[i])]]

At(x, y) == [x |-> x, y |-> y]

Grounds == {Poly(<<At(0, 0), At(3, 1), At(1, 3)>>, FALSE, TRUE, 2)}
Rects   == {Rect(At(1, 0), 3, 2, semi, TRUE) : semi \in BOOLEAN}

Triangles == {Poly(<<a, b, c>>, TRUE, FALSE, 0) : a \in [x : {0, 2}, y : {0, 2}], b, c \in Grid}
\* Corners in every order around the quad, and in the order of the rows.
Corner == {<<a, b, c, d>> : a \in [x : 0..1, y : 0..1], b \in [x : 2..3, y : 0..1],
                            c \in [x : 2..3, y : {2}], d \in [x : 0..1, y : {2}]}
Orders == {<<1, 2, 3, 4>>, <<2, 1, 4, 3>>, <<3, 4, 1, 2>>}
Quads  == {Poly([i \in 1..4 |-> q[o[i]]], TRUE, FALSE, 0) : q \in Corner, o \in Orders}
RowQuads == {Poly(<<q[1], q[2], q[4], q[3]>>, TRUE, FALSE, 0) : q \in Corner}
Segments == {PolyLine(<<a, b>>, TRUE) : a, b \in Grid}
Bends == {PolyLine(<<At(0, 0), a, At(4, 1)>>, TRUE) : a \in Grid}
MCDrawings == <<Grounds, Triangles \cup Quads \cup Rects \cup Segments \cup Bends>>
RowDrawings == <<RowQuads>>
TriangleDrawings == <<Triangles>>

Setting(x0, y0, x1, y1, dx, dy, set, check, mode) ==
  [x0 |-> x0, y0 |-> y0, x1 |-> x1, y1 |-> y1, dx |-> dx, dy |-> dy,
   set |-> set, check |-> check, mode |-> mode]
MCSettings == {Setting(0, 0, 4, 3, 0, 0, TRUE, FALSE, 0), Setting(1, 0, 6, 2, 1, -1, FALSE, TRUE, 1)}
============================================================================
