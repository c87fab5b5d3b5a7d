------------------------------ MODULE Triangles ------------------------------
(***************************************************************************)
(* Which pixels a triangle owns and what it interpolates at them (gpu.rs,  *)
(* raster_triangle): the signs and the sizes of three edge functions.      *)
(***************************************************************************)
EXTENDS Integers

\* Twice the signed area of a triangle.
Edge(a, b, p) == (b.x - a.x) * (p.y - a.y) - (b.y - a.y) * (p.x - a.x)

\* Mutant: an edge belongs to both of its triangles.
TopLeft_Both(a, b) == TRUE
TopLeft(a, b) == b.y > a.y \/ (b.y = a.y /\ b.x > a.x)

\* A pixel on an edge belongs to the triangle whose top or left edge it is.
Owns(a, b, p) == Edge(a, b, p) > 0 \/ (Edge(a, b, p) = 0 /\ TopLeft(a, b))

Covers(t, p) == Owns(t[1], t[2], p) /\ Owns(t[2], t[3], p) /\ Owns(t[3], t[1], p)

\* The weight of corner i at p: what the edge opposite gives.
Weight(t, i, p) == Edge(t[(i % 3) + 1], t[((i + 1) % 3) + 1], p)

\* Mutant: the weights are taken for the corners they start at.
Interpolated_Shifted(t, p, values) ==
  (Weight(t, 3, p) * values[1] + Weight(t, 1, p) * values[2]
     + Weight(t, 2, p) * values[3]) \div Edge(t[1], t[2], t[3])
\* Mutant: the weights are divided by the area, which is half their sum.
Interpolated_Area(t, p, values) ==
  (2 * Weight(t, 1, p) * values[1] + 2 * Weight(t, 2, p) * values[2]
     + 2 * Weight(t, 3, p) * values[3]) \div Edge(t[1], t[2], t[3])
Interpolated(t, p, values) ==
  (Weight(t, 1, p) * values[1] + Weight(t, 2, p) * values[2]
     + Weight(t, 3, p) * values[3]) \div Edge(t[1], t[2], t[3])
=============================================================================
