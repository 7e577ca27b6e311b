----------------------------- MODULE Geometries -----------------------------
(***************************************************************************)
(* The geometry classes of wkx/: what a Point, a LineString, a Polygon and *)
(* their collections hold.  `of` is, by type: the coordinates of a Point   *)
(* (none: an empty one); the points of a LineString or MultiPoint; the     *)
(* rings of a Polygon, the exterior one first, each a sequence of points;  *)
(* the members of the others.  srid is <<>> when undefined.                *)
(***************************************************************************)
EXTENDS Integers, Sequences, SequencesExt, TLC

Geo(type, srid, z, m, of) == [type |-> type, srid |-> srid, hasZ |-> z, hasM |-> m, of |-> of]

\* Not a number: what is left of an undefined coordinate in a text or in bytes.
NaN == 100000000

MakePoint(z, m, coordinates) == Geo("Point", <<>>, z, m, coordinates)
X(p) == IF p.of = <<>> THEN NaN ELSE p.of[1]
Y(p) == IF p.of = <<>> THEN NaN ELSE p.of[2]
Z(p) == IF p.hasZ /\ p.of # <<>> THEN p.of[3] ELSE NaN
M(p) == IF p.hasM /\ p.of # <<>> THEN Last(p.of) ELSE NaN

\* x and y, and of z and m those asked for.
Coordinates(p, z, m) ==
  <<X(p), Y(p)>> \o (IF z THEN <<Z(p)>> ELSE <<>>) \o (IF m THEN <<M(p)>> ELSE <<>>)

\* new LineString(points), new Polygon(rings), ...: the dimensions are the first point's.
Make(type, of) ==
  LET parts == IF type = "Polygon" THEN of[1] ELSE of
  IN  IF parts = <<>> THEN Geo(type, <<>>, FALSE, FALSE, of)
                      ELSE Geo(type, <<>>, parts[1].hasZ, parts[1].hasM, of)

\* The number of so many significant bits next to n / d, the even one of two.
Rounded(n, d, bits) ==
  LET size == IF n < 0 THEN -n ELSE n
      step == d * 2^(CHOOSE k \in 0 .. 20 : size < d * 2^(bits + k) /\ (k > 0 => size >= d * 2^(bits + k - 1)))
      down == size \div step
      rest == 2 * (size % step)
      near == (step \div d) * (IF rest > step \/ (rest = step /\ down % 2 = 1) THEN down + 1 ELSE down)
  IN  IF n < 0 THEN -near ELSE near

NoRings == << <<>> >>
Empty(g) == (IF g.type = "Polygon" THEN g.of[1] ELSE g.of) = <<>>

Multi == [MultiPoint |-> "Point", MultiLineString |-> "LineString", MultiPolygon |-> "Polygon"]
WkbCode == [Point |-> 1, LineString |-> 2, Polygon |-> 3, MultiPoint |-> 4,
            MultiLineString |-> 5, MultiPolygon |-> 6, GeometryCollection |-> 7]

------------------------------------------------------------------------------
\* What a reader makes of a sequence from one place on: a value and the next place.
Got(value, at) == [ok |-> TRUE, value |-> value, at |-> at]
Failed == [ok |-> FALSE, value |-> <<>>, at |-> 0]

Then(r, F(_)) == IF r.ok THEN F(r) ELSE Failed
As(r, F(_)) == IF r.ok THEN Got(F(r.value), r.at) ELSE Failed

\* n values, each read by P from where the one before it ends.
Times(n, at, P(_)) ==
  LET read[i \in 0 .. n] ==
        IF i = 0 THEN Got(<<>>, at)
        ELSE Then(read[i - 1], LAMBDA r : As(P(r.at), LAMBDA v : Append(r.value, v)))
  IN  read[n]

\* A cell of bytes: what kind, which number, which flags.
Cell(t, n, flags) == [t |-> t, n |-> n, flags |-> flags]
IsCell(s, at, t) == at <= Len(s) /\ s[at].t = t
==============================================================================
