--------------------------------- MODULE Wkt ---------------------------------
(***************************************************************************)
(* Well-known text: toWkt() and toEwkt() of each class, and the parser of  *)
(* wktparser.ts and parser.ts.  A text is a sequence of tokens; the blank  *)
(* that the code writes or skips between two of them is left out.          *)
(***************************************************************************)
EXTENDS Geometries

Token(t) == [t |-> t, n |-> 0]
Number(n) == [t |-> "number", n |-> n]
Open == Token("(")
Close == Token(")")
Comma == Token(",")

WktType(g, isEmpty) ==
  <<Token(g.type)>>
    \o (IF g.hasZ /\ g.hasM THEN <<Token("ZM")>> ELSE IF g.hasZ THEN <<Token("Z")>>
        ELSE IF g.hasM THEN <<Token("M")>> ELSE <<>>)
    \o (IF isEmpty THEN <<Token("EMPTY")>> ELSE <<>>)

WktCoordinate(g, p) ==
  LET numbers == Coordinates(p, g.hasZ, g.hasM) IN [i \in DOMAIN numbers |-> Number(numbers[i])]

\* Each part and a comma, the last character cut off: of an empty list, the "(".
InBrackets(parts) ==
  Front(<<Open>> \o FlattenSeq([i \in DOMAIN parts |-> Append(parts[i], Comma)])) \o <<Close>>
Ring(g, points) == InBrackets([i \in DOMAIN points |-> WktCoordinate(g, points[i])])

LineStringInner(g) == Ring(g, g.of)
PolygonInner(g) ==
  <<Open>> \o Ring(g, g.of[1])
    \o FlattenSeq([i \in 1 .. Len(g.of) - 1 |-> <<Comma>> \o Ring(g, g.of[i + 1])]) \o <<Close>>

WktOf(g, inner) == IF Empty(g) THEN WktType(g, TRUE) ELSE WktType(g, FALSE) \o inner

PointToWkt(g) ==
  IF Empty(g) THEN WktType(g, TRUE)
  ELSE WktType(g, FALSE) \o <<Open>> \o WktCoordinate(g, g) \o <<Close>>
LineStringToWkt(g) == WktOf(g, LineStringInner(g))
PolygonToWkt(g) == WktOf(g, PolygonInner(g))
MultiPointToWkt(g) == WktOf(g, Ring(g, g.of))
MultiLineStringToWkt(g) == WktOf(g, InBrackets([i \in DOMAIN g.of |-> LineStringInner(g.of[i])]))
MultiPolygonToWktWordy(g) == WktOf(g, InBrackets([i \in DOMAIN g.of |-> PolygonToWkt(g.of[i])]))
MultiPolygonToWkt(g) == WktOf(g, InBrackets([i \in DOMAIN g.of |-> PolygonInner(g.of[i])]))

RECURSIVE ToWkt(_)
GeometryCollectionToWkt(g) == WktOf(g, InBrackets([i \in DOMAIN g.of |-> ToWkt(g.of[i])]))
ToWkt(g) == CASE g.type = "Point" -> PointToWkt(g)
              [] g.type = "LineString" -> LineStringToWkt(g)
              [] g.type = "Polygon" -> PolygonToWkt(g)
              [] g.type = "MultiPoint" -> MultiPointToWkt(g)
              [] g.type = "MultiLineString" -> MultiLineStringToWkt(g)
              [] g.type = "MultiPolygon" -> MultiPolygonToWkt(g)
              [] OTHER -> GeometryCollectionToWkt(g)

\* "SRID=undefined;" is no prefix the parser knows.
ToEwkt(g) == <<[t |-> "SRID", n |-> IF g.srid = <<>> THEN NaN ELSE g.srid[1]]>> \o ToWkt(g)

------------------------------------------------------------------------------
Is(s, at, t) == IsCell(s, at, t)

Group(s, at, P(_)) ==
  IF ~Is(s, at, "(") THEN Failed
  ELSE Then(P(at + 1), LAMBDA r : IF Is(s, r.at, ")") THEN Got(r.value, r.at + 1) ELSE Failed)

\* P, as long as a comma follows.
Listed(s, at, P(_)) ==
  LET from[i \in 1 .. Len(s) + 1] ==
        Then(P(i), LAMBDA r : IF Is(s, r.at, ",")
                              THEN As(from[r.at + 1], LAMBDA more : <<r.value>> \o more)
                              ELSE Got(<<r.value>>, r.at))
  IN  from[at]

MatchDimension(s, at) ==
  IF Is(s, at, "ZM") THEN Got(<<TRUE, TRUE>>, at + 1)
  ELSE IF Is(s, at, "Z") THEN Got(<<TRUE, FALSE>>, at + 1)
  ELSE IF Is(s, at, "M") THEN Got(<<FALSE, TRUE>>, at + 1) ELSE Got(<<FALSE, FALSE>>, at)

MatchCoordinate(s, at, o) ==
  LET n == 2 + (IF o.hasZ THEN 1 ELSE 0) + (IF o.hasM THEN 1 ELSE 0)
  IN  As(Times(n, at, LAMBDA i : IF Is(s, i, "number") THEN Got(s[i].n, i + 1) ELSE Failed),
         LAMBDA numbers : MakePoint(o.hasZ, o.hasM, numbers))

MatchCoordinates(s, at, o) ==
  Listed(s, at, LAMBDA i : IF Is(s, i, "(") THEN Group(s, i, LAMBDA j : MatchCoordinate(s, j, o))
                                            ELSE MatchCoordinate(s, i, o))

\* The class's fields are the options', its contents what P finds unless EMPTY is there.
ParseOr(s, at, o, none, P(_)) ==
  As(IF Is(s, at, "EMPTY") THEN Got(none, at + 1) ELSE P(at),
     LAMBDA of : Geo(o.type, o.srid, o.hasZ, o.hasM, of))

PointFromWkt(s, at, o) ==
  ParseOr(s, at, o, <<>>, LAMBDA i : As(Group(s, i, LAMBDA j : MatchCoordinate(s, j, o)),
                                        LAMBDA p : p.of))
PointsFromWkt(s, at, o) == Group(s, at, LAMBDA i : MatchCoordinates(s, i, o))
RingsFromWkt(s, at, o) == Group(s, at, LAMBDA i : Listed(s, i, LAMBDA j : PointsFromWkt(s, j, o)))

LineStringFromWkt(s, at, o) == ParseOr(s, at, o, <<>>, LAMBDA i : PointsFromWkt(s, i, o))
PolygonFromWkt(s, at, o) == ParseOr(s, at, o, NoRings, LAMBDA i : RingsFromWkt(s, i, o))
MultiPointFromWkt(s, at, o) == ParseOr(s, at, o, <<>>, LAMBDA i : PointsFromWkt(s, i, o))
MultiLineStringFromWkt(s, at, o) ==
  ParseOr(s, at, o, <<>>, LAMBDA i : Group(s, i, LAMBDA j : Listed(s, j, LAMBDA k :
    As(PointsFromWkt(s, k, o), LAMBDA points : Make("LineString", points)))))
MultiPolygonFromWkt(s, at, o) ==
  ParseOr(s, at, o, <<>>, LAMBDA i : Group(s, i, LAMBDA j : Listed(s, j, LAMBDA k :
    As(RingsFromWkt(s, k, o), LAMBDA rings : Make("Polygon", rings)))))

RECURSIVE ParseWkt(_, _)
GeometryCollectionFromWkt(s, at, o) ==
  ParseOr(s, at, o, <<>>, LAMBDA i : Group(s, i, LAMBDA j : Listed(s, j, LAMBDA k : ParseWkt(s, k))))

ParseWkt(s, at) ==
  LET prefixed == Is(s, at, "SRID") /\ s[at].n # NaN
      typeAt == IF prefixed THEN at + 1 ELSE at
      d == MatchDimension(s, typeAt + 1)
      type == s[typeAt].t
      o == [type |-> type, srid |-> IF prefixed THEN <<s[at].n>> ELSE <<>>,
            hasZ |-> d.value[1], hasM |-> d.value[2]]
  IN  CASE typeAt > Len(s) -> Failed
        [] type = "Point" -> PointFromWkt(s, d.at, o)
        [] type = "LineString" -> LineStringFromWkt(s, d.at, o)
        [] type = "Polygon" -> PolygonFromWkt(s, d.at, o)
        [] type = "MultiPoint" -> MultiPointFromWkt(s, d.at, o)
        [] type = "MultiLineString" -> MultiLineStringFromWkt(s, d.at, o)
        [] type = "MultiPolygon" -> MultiPolygonFromWkt(s, d.at, o)
        [] type = "GeometryCollection" -> GeometryCollectionFromWkt(s, d.at, o)
        [] OTHER -> Failed
==============================================================================
