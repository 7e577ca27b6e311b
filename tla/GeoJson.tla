------------------------------- MODULE GeoJson -------------------------------
(***************************************************************************)
(* GeoJSON: toGeoJSON() of each class, parseGeoJSON() of parser.ts and the *)
(* _parseGeoJSON() of each class.  M is not written, and what is read has  *)
(* srid 4326 unless it names another.                                      *)
(***************************************************************************)
EXTENDS Geometries

CONSTANT Wgs84    \* 4326

Json(g, coordinates) == [type |-> g.type, coordinates |-> coordinates]

Position(g, p) == Coordinates(p, g.hasZ, FALSE)
Positions(g, points) == [i \in DOMAIN points |-> Position(g, points[i])]

PointToGeoJSON(g) == Json(g, IF Empty(g) THEN <<>> ELSE Position(g, g))
LineStringToGeoJSON(g) == Json(g, Positions(g, g.of))
PolygonToGeoJSON(g) ==
  Json(g, (IF Empty(g) THEN <<>> ELSE <<Positions(g, g.of[1])>>)
            \o [i \in 1 .. Len(g.of) - 1 |-> Positions(g, g.of[i + 1])])
MultiPointToGeoJSON(g) == Json(g, [i \in DOMAIN g.of |-> PointToGeoJSON(g.of[i]).coordinates])
MultiLineStringToGeoJSON(g) ==
  Json(g, [i \in DOMAIN g.of |-> LineStringToGeoJSON(g.of[i]).coordinates])
MultiPolygonToGeoJSON(g) == Json(g, [i \in DOMAIN g.of |-> PolygonToGeoJSON(g.of[i]).coordinates])

RECURSIVE ToGeoJSON(_)
GeometryCollectionToGeoJSON(g) == Json(g, [i \in DOMAIN g.of |-> ToGeoJSON(g.of[i])])
ToGeoJSON(g) == CASE g.type = "Point" -> PointToGeoJSON(g)
                  [] g.type = "LineString" -> LineStringToGeoJSON(g)
                  [] g.type = "Polygon" -> PolygonToGeoJSON(g)
                  [] g.type = "MultiPoint" -> MultiPointToGeoJSON(g)
                  [] g.type = "MultiLineString" -> MultiLineStringToGeoJSON(g)
                  [] g.type = "MultiPolygon" -> MultiPolygonToGeoJSON(g)
                  [] OTHER -> GeometryCollectionToGeoJSON(g)

\* The outermost object names its srid when that is asked for and is not 0.
Crs(g, asked) == IF asked /\ g.srid \notin {<<>>, <<0>>} THEN g.srid ELSE <<>>

------------------------------------------------------------------------------
Long(position) == Len(position) > 2
PointOfPosition(position) == MakePoint(Long(position), Len(position) > 3, position)
PointsOf(positions) == [i \in DOMAIN positions |-> PointOfPosition(positions[i])]
FirstIsLong(positions) == positions # <<>> /\ Long(positions[1])

PointFromGeoJSON(c) == PointOfPosition(c)
LineStringFromGeoJSON(c) == Geo("LineString", <<>>, FirstIsLong(c), FALSE, PointsOf(c))
PolygonFromGeoJSON(c) ==
  Geo("Polygon", <<>>, c # <<>> /\ FirstIsLong(c[1]), FALSE,
      IF c = <<>> THEN NoRings ELSE [i \in DOMAIN c |-> PointsOf(c[i])])
MultiPointFromGeoJSON(c) == Geo("MultiPoint", <<>>, FirstIsLong(c), FALSE, PointsOf(c))
MultiLineStringFromGeoJSON(c) ==
  Geo("MultiLineString", <<>>, c # <<>> /\ FirstIsLong(c[1]), FALSE,
      [i \in DOMAIN c |-> LineStringFromGeoJSON(c[i])])
MultiPolygonFromGeoJSON(c) ==
  Geo("MultiPolygon", <<>>, c # <<>> /\ c[1] # <<>> /\ FirstIsLong(c[1][1]), FALSE,
      [i \in DOMAIN c |-> PolygonFromGeoJSON(c[i])])

RECURSIVE FromGeoJSON(_)
GeometryCollectionFromGeoJSON(c) ==
  LET geometries == [i \in DOMAIN c |-> FromGeoJSON(c[i])]
  IN  Geo("GeometryCollection", <<>>, geometries # <<>> /\ geometries[1].hasZ, FALSE, geometries)
FromGeoJSON(value) ==
  LET c == value.coordinates
  IN  CASE value.type = "Point" -> PointFromGeoJSON(c)
        [] value.type = "LineString" -> LineStringFromGeoJSON(c)
        [] value.type = "Polygon" -> PolygonFromGeoJSON(c)
        [] value.type = "MultiPoint" -> MultiPointFromGeoJSON(c)
        [] value.type = "MultiLineString" -> MultiLineStringFromGeoJSON(c)
        [] value.type = "MultiPolygon" -> MultiPolygonFromGeoJSON(c)
        [] OTHER -> GeometryCollectionFromGeoJSON(c)

ParseGeoJSON(value, crs) == [FromGeoJSON(value) EXCEPT !.srid = IF crs = <<>> THEN <<Wgs84>> ELSE crs]
==============================================================================
