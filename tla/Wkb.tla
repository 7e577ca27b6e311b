--------------------------------- MODULE Wkb ---------------------------------
(***************************************************************************)
(* Well-known binary: toWkb() and toEwkb() of each class with its buffer   *)
(* of a size fixed beforehand, and parseWkb() with the _parseWkb() of each *)
(* class.  A buffer is a sequence of cells; the byte order, which the      *)
(* writer never changes and the reader follows, is left out.               *)
(***************************************************************************)
EXTENDS Geometries

Count(n) == Cell("uint32", n, {})
Double(n) == Cell("double", n, {})
Order == Cell("order", 1, {})
Overrun == Cell("RangeError", 0, {})

CellSize == [order |-> 1, type |-> 4, uint32 |-> 4, double |-> 8, zero |-> 1, RangeError |-> 0]
Bytes(cells) == FoldLeft(LAMBDA n, c : n + CellSize[c.t], 0, cells)

\* A BinaryWriter of that size: what does not fit throws, what is not written is zero.
InBuffer(size, cells) ==
  IF Bytes(cells) > size THEN <<Overrun>>
  ELSE cells \o [i \in 1 .. size - Bytes(cells) |-> Cell("zero", 0, {})]

Dimensions(g) == (IF g.hasZ THEN {"z"} ELSE {}) \cup (IF g.hasM THEN {"m"} ELSE {})
CoordinateSize(g) == 16 + (IF g.hasZ THEN 8 ELSE 0) + (IF g.hasM THEN 8 ELSE 0)
Sum(numbers) == FoldLeft(LAMBDA n, k : n + k, 0, numbers)

\* Flags when the geometry or its parent has an srid, else thousands.
WkbType(g, parentSrid) ==
  LET code == WkbCode[g.type]
  IN  IF g.srid = <<>> /\ parentSrid = <<>>
      THEN Cell("type", code + (IF g.hasZ THEN 1000 ELSE 0) + (IF g.hasM THEN 2000 ELSE 0), {})
      ELSE Cell("type", code, Dimensions(g))

WkbPoint(p) == LET numbers == Coordinates(p, p.hasZ, p.hasM)
               IN  [i \in DOMAIN numbers |-> Double(numbers[i])]
WkbPoints(points) == <<Count(Len(points))>> \o FlattenSeq([i \in DOMAIN points |-> WkbPoint(points[i])])

PointSize(g) == 5 + CoordinateSize(g)
LineStringSize(g) == 9 + Len(g.of) * CoordinateSize(g)
PolygonSize(g) ==
  9 + (IF Empty(g) THEN 0 ELSE 4 + Len(g.of[1]) * CoordinateSize(g))
    + Sum([i \in 1 .. Len(g.of) - 1 |-> 4 + Len(g.of[i + 1]) * CoordinateSize(g)])
MultiPointSizeBare(g) == 9 + Len(g.of) * CoordinateSize(g)
MultiPointSize(g) == 9 + Len(g.of) * (CoordinateSize(g) + 5)

RECURSIVE WkbSize(_)
WkbSize(g) == CASE g.type = "Point" -> PointSize(g)
                [] g.type = "LineString" -> LineStringSize(g)
                [] g.type = "Polygon" -> PolygonSize(g)
                [] g.type = "MultiPoint" -> MultiPointSize(g)
                [] OTHER -> 9 + Sum([i \in DOMAIN g.of |-> WkbSize(g.of[i])])

PointToWkb(g, parentSrid) == InBuffer(PointSize(g), <<Order, WkbType(g, parentSrid)>> \o WkbPoint(g))
LineStringToWkb(g, parentSrid) ==
  InBuffer(LineStringSize(g), <<Order, WkbType(g, parentSrid)>> \o WkbPoints(g.of))
PolygonToWkb(g, parentSrid) ==
  LET exterior == IF Empty(g) THEN <<Count(0)>> ELSE <<Count(Len(g.of))>> \o WkbPoints(g.of[1])
  IN  InBuffer(PolygonSize(g), <<Order, WkbType(g, parentSrid)>> \o exterior
                 \o FlattenSeq([i \in 1 .. Len(g.of) - 1 |-> WkbPoints(g.of[i + 1])]))

\* A collection is given its parent's srid and does not look at it.
Members(g, W(_)) == InBuffer(WkbSize(g), <<Order, WkbType(g, <<>>), Count(Len(g.of))>>
                                           \o FlattenSeq([i \in DOMAIN g.of |-> W(g.of[i])]))
MultiPointToWkb(g) == Members(g, LAMBDA p : PointToWkb(p, g.srid))
MultiLineStringToWkb(g) == Members(g, LAMBDA l : LineStringToWkb(l, g.srid))
MultiPolygonToWkb(g) == Members(g, LAMBDA p : PolygonToWkb(p, g.srid))

RECURSIVE ToWkb(_, _)
GeometryCollectionToWkb(g) == Members(g, LAMBDA c : ToWkb(c, g.srid))
ToWkb(g, parentSrid) ==
  CASE g.type = "Point" -> PointToWkb(g, parentSrid)
    [] g.type = "LineString" -> LineStringToWkb(g, parentSrid)
    [] g.type = "Polygon" -> PolygonToWkb(g, parentSrid)
    [] g.type = "MultiPoint" -> MultiPointToWkb(g)
    [] g.type = "MultiLineString" -> MultiLineStringToWkb(g)
    [] g.type = "MultiPolygon" -> MultiPolygonToWkb(g)
    [] OTHER -> GeometryCollectionToWkb(g)

\* The WKB with the flag for an srid set and the srid, 0 when undefined, put in.
ToEwkb(g) ==
  LET wkb == ToWkb(g, <<>>)
  IN  IF Len(wkb) < 2 THEN wkb
      ELSE InBuffer(WkbSize(g) + 4,
             <<Order, [wkb[2] EXCEPT !.flags = @ \cup {"srid"}],
               Count(IF g.srid = <<>> THEN 0 ELSE g.srid[1])>> \o SubSeq(wkb, 3, Len(wkb)))

------------------------------------------------------------------------------
ReadCell(s, at, t) == IF IsCell(s, at, t) THEN Got(s[at].n, at + 1) ELSE Failed

ReadWkbPoint(s, at, o) ==
  LET n == 2 + (IF o.hasZ THEN 1 ELSE 0) + (IF o.hasM THEN 1 ELSE 0)
  IN  As(Times(n, at, LAMBDA i : ReadCell(s, i, "double")),
         LAMBDA numbers : MakePoint(o.hasZ, o.hasM, numbers))

\* A count, then as many as P reads.
Counted(s, at, P(_)) == Then(ReadCell(s, at, "uint32"), LAMBDA n : Times(n.value, n.at, P))
ReadWkbPoints(s, at, o) == Counted(s, at, LAMBDA i : ReadWkbPoint(s, i, o))
Built(r, o) == As(r, LAMBDA of : Geo(o.type, o.srid, o.hasZ, o.hasM, of))

PointFromWkb(s, at, o) == As(ReadWkbPoint(s, at, o), LAMBDA p : [p EXCEPT !.srid = o.srid])
LineStringFromWkb(s, at, o) == Built(ReadWkbPoints(s, at, o), o)
PolygonFromWkb(s, at, o) ==
  LET rings == Counted(s, at, LAMBDA i : ReadWkbPoints(s, i, o))
  IN  Built(As(rings, LAMBDA of : IF of = <<>> THEN NoRings ELSE of), o)

RECURSIVE ParseWkb(_, _, _)
MembersFromWkb(s, at, o) == Built(Counted(s, at, LAMBDA i : ParseWkb(s, i, o.isEwkb)), o)
MultiPointFromWkb(s, at, o) == MembersFromWkb(s, at, o)
MultiLineStringFromWkb(s, at, o) == MembersFromWkb(s, at, o)
MultiPolygonFromWkb(s, at, o) == MembersFromWkb(s, at, o)
GeometryCollectionFromWkb(s, at, o) == MembersFromWkb(s, at, o)

\* Thousands are read where neither the word nor the parent has a flag.
WkbOptions(word, parentIsEwkb) ==
  LET isEwkb == word.flags # {}
      thousands == IF isEwkb \/ parentIsEwkb \/ word.n >= 4000 THEN 0 ELSE word.n \div 1000
  IN  [isEwkb |-> isEwkb, srid |-> <<>>,
       hasZ |-> "z" \in word.flags \/ thousands \in {1, 3},
       hasM |-> "m" \in word.flags \/ thousands \in {2, 3},
       code |-> IF isEwkb \/ parentIsEwkb THEN word.n % 16 ELSE word.n - 1000 * thousands]

ParseWkb(s, at, parentIsEwkb) ==
  IF ~(IsCell(s, at, "order") /\ IsCell(s, at + 1, "type")) THEN Failed
  ELSE
  LET word == s[at + 1]
      read == WkbOptions(word, parentIsEwkb)
      hasSrid == "srid" \in word.flags
      body == IF hasSrid THEN at + 3 ELSE at + 2
      types == {t \in DOMAIN WkbCode : WkbCode[t] = read.code}
      type == CHOOSE t \in types : TRUE
      o == [read EXCEPT !.srid = IF hasSrid THEN <<s[at + 2].n>> ELSE <<>>] @@ [type |-> type]
  IN  CASE types = {} -> Failed
        [] type = "Point" -> PointFromWkb(s, body, o)
        [] type = "LineString" -> LineStringFromWkb(s, body, o)
        [] type = "Polygon" -> PolygonFromWkb(s, body, o)
        [] type = "MultiPoint" -> MultiPointFromWkb(s, body, o)
        [] type = "MultiLineString" -> MultiLineStringFromWkb(s, body, o)
        [] type = "MultiPolygon" -> MultiPolygonFromWkb(s, body, o)
        [] OTHER -> GeometryCollectionFromWkb(s, body, o)
==============================================================================
