------------------------------ MODULE Geography ------------------------------
(***************************************************************************)
(* What becomes of a geometry that is written down and read again: in each *)
(* of the formats of wkx/, and through a geography column                  *)
(* (columns/postgis/geography), whose value goes to PostgreSQL as text and *)
(* comes back as the extended WKB that PostGIS writes.                     *)
(***************************************************************************)
EXTENDS Wkt, Wkb, Twkb, GeoJson

CONSTANTS
  Written,   \* geometries
  Values,    \* <<type, coordinates>> given to a column of that type
  Srid       \* of the columns

VARIABLES stage, subject, data, result

vars == <<stage, subject, data, result>>

Formats == {"wkt", "ewkt", "wkb", "ewkb", "twkb", "geojson", "geojson+crs"}

Init == stage = "start" /\ subject = <<>> /\ data = <<>> /\ result = <<>>

Encoded(format, g) == CASE format = "wkt" -> ToWkt(g)
                        [] format = "ewkt" -> ToEwkt(g)
                        [] format = "wkb" -> ToWkb(g, <<>>)
                        [] format = "ewkb" -> ToEwkb(g)
                        [] format = "twkb" -> ToTwkb(g)
                        [] format = "geojson" -> <<ToGeoJSON(g), Crs(g, FALSE)>>
                        [] format = "geojson+crs" -> <<ToGeoJSON(g), Crs(g, TRUE)>>

Decoded(format, d) == CASE format \in {"wkt", "ewkt"} -> ParseWkt(d, 1)
                        [] format \in {"wkb", "ewkb"} -> ParseWkb(d, 1, FALSE)
                        [] format = "twkb" -> ParseTwkb(d, 1)
                        [] OTHER -> Got(ParseGeoJSON(d[1], d[2]), 1)

Write(format, g) ==
  /\ stage = "start"
  /\ stage' = "written"
  /\ subject' = <<format, g>>
  /\ data' = Encoded(format, g)
  /\ UNCHANGED result

Read ==
  /\ stage = "written"
  /\ stage' = "read"
  /\ result' = Decoded(subject[1], data)
  /\ UNCHANGED <<subject, data>>

------------------------------------------------------------------------------
(***************************************************************************)
(* PostGIS: a text is accepted when it is well formed, of the column's     *)
(* type, without empty members, its lines of two points at least, its      *)
(* rings closed and of four.  The binary it answers with names its srid    *)
(* once, at the outermost geometry.                                        *)
(***************************************************************************)
IsLine(points) == Len(points) > 1
IsRing(points) == Len(points) > 3 /\ points[1] = Last(points)
IsSound(g) ==
  \/ Empty(g)
  \/ CASE g.type = "Point" -> TRUE
       [] g.type = "LineString" -> IsLine(g.of)
       [] g.type = "Polygon" -> \A i \in DOMAIN g.of : IsRing(g.of[i])
       [] g.type = "MultiPoint" -> TRUE
       [] g.type = "MultiLineString" -> \A i \in DOMAIN g.of : IsLine(g.of[i].of)
       [] g.type = "MultiPolygon" -> \A i \in DOMAIN g.of : \A r \in Range(g.of[i].of) : IsRing(r)

Accepted(type, text) ==
  LET r == ParseWkt(text, 1)
  IN  r.ok /\ r.at = Len(text) + 1 /\ r.value.type = type /\ IsSound(r.value)

\* A geometry and its members as PostGIS lays them out, flags for what they have.
PgCells(g, srid) ==
  LET Word(h, flags) == Cell("type", WkbCode[h.type], Dimensions(h) \cup flags)
      Body(h) == CASE h.type = "Point" -> WkbPoint(h)
                   [] h.type \in {"LineString"} -> WkbPoints(h.of)
                   [] h.type = "Polygon" ->
                        IF Empty(h) THEN <<Count(0)>>
                        ELSE <<Count(Len(h.of))>> \o FlattenSeq([i \in DOMAIN h.of |-> WkbPoints(h.of[i])])
  IN  <<Order, Word(g, {"srid"}), Count(srid)>>
        \o IF g.type \notin DOMAIN Multi THEN Body(g)
           ELSE <<Count(Len(g.of))>>
                  \o FlattenSeq([i \in DOMAIN g.of |-> <<Order, Word(g.of[i], {})>> \o Body(g.of[i])])

\* toDriverScalar and toSQLScalar: coordinates to text, the column's srid before it.
ToDriverScalar(type, coordinates) ==
  <<[t |-> "SRID", n |-> Srid]>>
    \o ToWkt(ParseGeoJSON([type |-> type, coordinates |-> coordinates], <<>>))

\* fromDriverScalar: whatever srid or dimensions the geometry has.
FromDriverScalar(cells) ==
  As(ParseWkb(cells, 1, FALSE), LAMBDA g : ToGeoJSON(g).coordinates)

Insert(type, coordinates) ==
  /\ stage = "start"
  /\ stage' = "sent"
  /\ subject' = <<type, coordinates>>
  /\ data' = ToDriverScalar(type, coordinates)
  /\ UNCHANGED result

Store ==
  /\ stage = "sent"
  /\ Accepted(subject[1], data)
  /\ stage' = "stored"
  /\ data' = PgCells(ParseWkt(data, 1).value, Srid)
  /\ UNCHANGED <<subject, result>>

Refuse ==
  /\ stage = "sent"
  /\ ~Accepted(subject[1], data)
  /\ stage' = "refused"
  /\ UNCHANGED <<subject, data, result>>

Select ==
  /\ stage = "stored"
  /\ stage' = "selected"
  /\ result' = FromDriverScalar(data)
  /\ UNCHANGED <<subject, data>>

Next ==
  \/ \E format \in Formats, g \in Written : Write(format, g)
  \/ Read
  \/ \E v \in Values : Insert(v[1], v[2])
  \/ Store \/ Refuse \/ Select

Spec == Init /\ [][Next]_vars

------------------------------------------------------------------------------
(***************************************************************************)
(* What a format keeps: the srid at most of the outermost geometry; TWKB   *)
(* no fraction of its last digit; GeoJSON no M.                            *)
(***************************************************************************)
RECURSIVE Kept(_, _, _)
Kept(g, srid, m) ==
  LET PointKept(p) == Geo("Point", <<>>, p.hasZ, p.hasM /\ m,
                          IF p.of = <<>> THEN <<>> ELSE Coordinates(p, p.hasZ, p.hasM /\ m))
      Points(ps) == [i \in DOMAIN ps |-> PointKept(ps[i])]
      of == CASE g.type = "Point" -> PointKept(g).of
              [] g.type \in {"LineString", "MultiPoint"} -> Points(g.of)
              [] g.type = "Polygon" -> [i \in DOMAIN g.of |-> Points(g.of[i])]
              [] OTHER -> [i \in DOMAIN g.of |-> Kept(g.of[i], <<>>, m)]
  IN  Geo(g.type, srid, g.hasZ, g.hasM /\ m, of)

Expected(format, g) ==
  CASE format = "ewkt" -> Kept(g, g.srid, TRUE)
    [] format = "ewkb" -> Kept(g, IF g.srid = <<>> THEN <<0>> ELSE g.srid, TRUE)
    [] format = "geojson" -> Kept(g, <<Wgs84>>, FALSE)
    [] format = "geojson+crs" -> Kept(g, IF Crs(g, TRUE) = <<>> THEN <<Wgs84>> ELSE g.srid, FALSE)
    [] OTHER -> Kept(g, <<>>, TRUE)

\* Every part of a geometry: its points, or the geometries it is made of.
RECURSIVE PartsOf(_)
PartsOf(g) ==
  {g} \cup (CASE g.type = "Point" -> {}
              [] g.type = "Polygon" -> UNION {Range(g.of[i]) : i \in DOMAIN g.of}
              [] OTHER -> UNION {PartsOf(g.of[i]) : i \in DOMAIN g.of})

\* A multi-geometry one of whose members is empty, or a polygon one of whose rings is.
EmptyRing(g) == g.type = "Polygon" /\ g.of # NoRings /\ <<>> \in Range(g.of)
EmptyMember(g) == g.type \in DOMAIN Multi /\ \E i \in DOMAIN g.of : Empty(g.of[i])

\* The points TWKB writes one as a difference to the other: those of a geometry, in a
\* collection those of each member.
RECURSIVE AllPoints(_)
AllPoints(g) == CASE g.type = "Point" -> <<g>>
                  [] g.type = "Polygon" -> FlattenSeq(g.of)
                  [] OTHER -> FlattenSeq([i \in DOMAIN g.of |-> AllPoints(g.of[i])])
RECURSIVE Runs(_)
Runs(g) == IF g.type = "GeometryCollection" THEN FlattenSeq([i \in DOMAIN g.of |-> Runs(g.of[i])])
           ELSE <<AllPoints(g)>>

\* Coordinates in whole digits of those TWKB keeps, the nearest number of them.
Digits(p) == [k \in 1 .. 4 |-> (2 * All(p)[k] * FactorOf(k) + Unit) \div (2 * Unit)]
\* Is a coordinate a number of whole digits, as exactly as a double can be one?
IsDecimal(p) == \A k \in 1 .. 4 : All(p)[k] = AsDouble(Digits(p)[k] * Unit, FactorOf(k))

InRange(g) ==
  \A run \in Range(Runs(g)) : \A i \in DOMAIN run : \A k \in 1 .. 4 :
    /\ IsDecimal(run[i])
    /\ Digits(run[i])[k] - (IF i = 1 THEN 0 ELSE Digits(run[i - 1])[k]) \in -(2^(Bits - 2)) .. 2^(Bits - 2) - 1

\* The product of a decimal, as a double, is less than the whole number it should be.
FallsShort(p) ==
  \E k \in 1 .. 4 : LET n == Scaled(p)[k]  m == Digits(p)[k] * Unit
                    IN  (n >= 0 /\ n < m) \/ (n <= 0 /\ n > m)

\* What a geometry is without its coordinates.
RECURSIVE Shape(_)
Shape(g) ==
  [g EXCEPT !.of = CASE g.type = "Point" -> Len(g.of)
                     [] g.type = "Polygon" ->
                          [i \in DOMAIN g.of |-> [j \in DOMAIN g.of[i] |-> Shape(g.of[i][j])]]
                     [] OTHER -> [i \in DOMAIN g.of |-> Shape(g.of[i])]]

\* Each point is off by no more than a digit for every point up to it.
Near(g, h) ==
  /\ Shape(g) = Shape(h)
  /\ \A r \in DOMAIN Runs(g) : \A i \in DOMAIN Runs(g)[r] : \A k \in 1 .. 4 :
       Digits(Runs(h)[r][i])[k] - Digits(Runs(g)[r][i])[k] \in -i .. i

\* Coordinates that are decimals and doubles at once, as 0.25 and whole numbers are.
IsExact(g) ==
  \A run \in Range(Runs(g)) : \A i \in DOMAIN run : \A k \in 1 .. 4 :
    All(run[i])[k] * FactorOf(k) = Digits(run[i])[k] * Unit

(***************************************************************************)
(* Where a format loses a geometry of one dimension: all, a polygon of     *)
(* holes only; text, an empty member of a multi-geometry or an empty ring; *)
(* EWKT, an undefined srid; WKB, an empty point, and under an srid a       *)
(* collection within a collection with Z or M; EWKB also an undefined srid *)
(* with Z or M; TWKB, an empty point of a MultiPoint, more digits than it  *)
(* keeps and differences that do not fit its integers; GeoJSON, the Z of   *)
(* what is empty.                                                          *)
(***************************************************************************)
Loses(format, g) ==
  LET parts == PartsOf(g)
      noText == \E p \in parts : EmptyMember(p) \/ EmptyRing(p)
      emptyPoint == \E p \in parts : p.type = "Point" /\ Empty(p)
      deep == \E p \in parts \ {g} : p.type \in DOMAIN Multi \cup {"GeometryCollection"}
      flat == ~g.hasZ /\ ~g.hasM
      hollow == EmptyRing(g) /\ Empty(g)
  IN  CASE hollow -> TRUE
        [] format = "wkt" -> noText
        [] format = "ewkt" -> noText \/ g.srid = <<>>
        [] format = "wkb" -> emptyPoint \/ (~flat /\ deep /\ g.srid # <<>>)
        [] format = "ewkb" -> emptyPoint \/ (~flat /\ (deep \/ g.srid = <<>>))
        [] format = "twkb" -> (g.type = "MultiPoint" /\ EmptyMember(g)) \/ ~InRange(g)
        [] OTHER -> g.hasZ /\ \E p \in parts : Empty(p)

(***************************************************************************)
(* A geometry that a format has written down is read again as it was,      *)
(* except in the cases named above, and in each of them it is not.  TWKB   *)
(* is less exact (point.ts:219-229, 115-129): of the others it brings back *)
(* those whose coordinates are decimals without rounding, a single point   *)
(* unless a product falls short of a whole number and is cut, as 0.29 *    *)
(* 100 is; of many points the n-th may be off, but by no more than n,      *)
(* for what is cut from one difference is missing from all that follow.    *)
(***************************************************************************)
ReadBack == stage = "read" =>
  LET format == subject[1]
      g == subject[2]
      expected == Expected(format, g)
      same == result.ok /\ result.value = expected
  IN  /\ Loses(format, g) => ~same
      /\ format # "twkb" /\ ~Loses(format, g) => same
      /\ format = "twkb" /\ ~Loses(format, g) =>
           /\ result.ok /\ Near(result.value, expected)
           /\ IsExact(g) => same
           /\ g.type = "Point" => (same <=> ~FallsShort(g))

(***************************************************************************)
(* The coordinates put into a geography column are those a select returns, *)
(* and only what PostGIS would refuse anyway is refused: a line of a       *)
(* point, a ring that is not closed, an empty line or polygon among        *)
(* others.  A polygon of an empty ring comes back without rings.           *)
(***************************************************************************)
SoundValue(type, c) ==
  CASE type = "LineString" -> c = <<>> \/ IsLine(c)
    [] type = "Polygon" -> \A i \in DOMAIN c : IsRing(c[i])
    [] type = "MultiLineString" -> \A i \in DOMAIN c : IsLine(c[i])
    [] type = "MultiPolygon" -> \A i \in DOMAIN c : c[i] # <<>> /\ \A j \in DOMAIN c[i] : IsRing(c[i][j])
    [] OTHER -> TRUE

GeographyReturned ==
  /\ stage = "refused" => ~SoundValue(subject[1], subject[2])
  /\ stage = "selected" => \/ result.ok /\ result.value = subject[2]
                           \/ subject = <<"Polygon", << <<>> >> >> /\ result.value = <<>>
==============================================================================
