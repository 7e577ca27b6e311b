--------------------------------- MODULE Twkb --------------------------------
(***************************************************************************)
(* Tiny well-known binary: toTwkb() of each class, parseTwkb() with the    *)
(* _parseTwkb() of each class, zigzag.ts and the variable length integers  *)
(* of the BinaryWriter and BinaryReader.  Coordinates are differences to   *)
(* the point before, in 32-bit integers.                                   *)
(*                                                                         *)
(* A coordinate is a double, of x and y that of a decimal as a rule: the   *)
(* model counts it in units, Unit to one, and rounds every product,        *)
(* quotient, sum and difference to DoubleBits significant bits.            *)
(***************************************************************************)
EXTENDS Geometries

CONSTANTS
  Bits,     \* width of the operands of << >> and ^: 32
  Septet,   \* bits of a byte that carry the number: 7
  DoubleBits, \* significant bits of a number: 53
  Unit,     \* parts of one, as fine as the doubles in question: a power of two
  Factor    \* what x and y are multiplied by; z and m are not: 10^5

ASSUME TwkbAssumption == Septet \in 1 .. Bits - 1 /\ {Unit, Factor, DoubleBits} \subseteq Nat \ {0}

AsDouble(n, d) == Rounded(n, d, DoubleBits)
FactorOf(i) == IF i < 3 THEN Factor ELSE 1

ToInt32(n) == LET low == n % 2^Bits IN IF low >= 2^(Bits - 1) THEN low - 2^Bits ELSE low

\* (value << 1) ^ (value >> 31), and its inverse with the arithmetic >>.
ZigZagEncode(n) == LET i == ToInt32(n) IN IF i < 0 THEN -ToInt32(2 * i) - 1 ELSE ToInt32(2 * i)
ZigZagDecode(n) == IF n % 2 = 1 THEN -(n \div 2) - 1 ELSE n \div 2

\* The unsigned number, low bits first, each byte but the last marked.
VarInt(n) ==
  LET low == n % 2^Bits
      group[k \in 0 .. Bits] == (low \div 2^(Septet * k)) % 2^Septet
      length == CHOOSE k \in 1 .. Bits : /\ low < 2^(Septet * k)
                                         /\ \A j \in 1 .. k - 1 : low >= 2^(Septet * j)
  IN  [k \in 1 .. length |-> Cell("byte", group[k - 1], IF k < length THEN {"more"} ELSE {})]

\* Bytes up to the first unmarked one, each shifted within the width and added.
ReadVarInt(s, at) ==
  LET ends == {i \in at .. Len(s) : s[i].t = "byte" /\ s[i].flags = {}}
      end == CHOOSE i \in ends : \A j \in ends : i <= j
      sum[i \in at - 1 .. end] ==
        IF i < at THEN 0 ELSE sum[i - 1] + ToInt32(s[i].n * 2^(Septet * (i - at)))
  IN  IF ends = {} THEN Failed ELSE Got(sum[end], end + 1)

\* What is below the point is dropped when a double becomes an integer, never rounded.
Whole(n) == IF n < 0 THEN -((-n) \div Unit) ELSE n \div Unit

Origin == <<0, 0, 0, 0>>
OrZero(n) == IF n = NaN THEN 0 ELSE n
All(p) == <<OrZero(X(p)), OrZero(Y(p)), OrZero(Z(p)), OrZero(M(p))>>
Chosen(z, m) == {1, 2} \cup (IF z THEN {3} ELSE {}) \cup (IF m THEN {4} ELSE {})

\* The coordinates times their factors, which is what the next point is a difference to.
Scaled(p) == [i \in 1 .. 4 |-> AsDouble(All(p)[i] * FactorOf(i), 1)]

TwkbPoint(p, previous) ==
  FlattenSeq([i \in 1 .. 4 |-> IF i \in Chosen(p.hasZ, p.hasM)
                               THEN VarInt(ZigZagEncode(Whole(AsDouble(Scaled(p)[i] - previous[i], 1))))
                               ELSE <<>>])

\* The points one after the other, from previous on.
TwkbPoints(points, previous) ==
  FlattenSeq([i \in DOMAIN points |->
                TwkbPoint(points[i], IF i = 1 THEN previous ELSE Scaled(points[i - 1]))])

\* Sequences of points, counted each; the differences go on from one to the next.
LastPoint(lines, previous) ==
  FoldLeft(LAMBDA p, line : IF line = <<>> THEN p ELSE Scaled(Last(line)), previous, lines)
TwkbLinesAnew(lines, previous) ==
  FlattenSeq([i \in DOMAIN lines |-> VarInt(Len(lines[i])) \o TwkbPoints(lines[i], previous)])
TwkbLines(lines, previous) ==
  FlattenSeq([i \in DOMAIN lines |->
                VarInt(Len(lines[i]))
                  \o TwkbPoints(lines[i], LastPoint(SubSeq(lines, 1, i - 1), previous))])

TwkbHeader(g) ==
  LET dimensions == (IF g.hasZ THEN {"z"} ELSE {}) \cup (IF g.hasM THEN {"m"} ELSE {})
  IN  <<Cell("type", WkbCode[g.type], {}),
        Cell("metadata", 0, (IF dimensions = {} THEN {} ELSE {"extended"})
                              \cup (IF Empty(g) THEN {"empty"} ELSE {}))>>
        \o (IF dimensions = {} THEN <<>> ELSE <<Cell("dimensions", 0, dimensions)>>)

PointToTwkb(g) == TwkbHeader(g) \o (IF Empty(g) THEN <<>> ELSE TwkbPoint(g, Origin))
LineStringToTwkb(g) == TwkbHeader(g) \o (IF Empty(g) THEN <<>> ELSE TwkbLines(<<g.of>>, Origin))
PolygonToTwkb(g) == TwkbHeader(g) \o (IF Empty(g) THEN <<>>
                                      ELSE VarInt(Len(g.of)) \o TwkbLines(g.of, Origin))
MultiPointToTwkb(g) == TwkbHeader(g) \o (IF Empty(g) THEN <<>> ELSE TwkbLines(<<g.of>>, Origin))
MultiLineStringToTwkb(g) ==
  TwkbHeader(g) \o (IF Empty(g) THEN <<>>
                    ELSE VarInt(Len(g.of)) \o TwkbLines([i \in DOMAIN g.of |-> g.of[i].of], Origin))
MultiPolygonToTwkb(g) ==
  LET Before(i) == FlattenSeq([j \in 1 .. i - 1 |-> g.of[j].of])
      Polygon(i) == VarInt(Len(g.of[i].of)) \o TwkbLines(g.of[i].of, LastPoint(Before(i), Origin))
  IN  TwkbHeader(g) \o (IF Empty(g) THEN <<>>
                        ELSE VarInt(Len(g.of)) \o FlattenSeq([i \in DOMAIN g.of |-> Polygon(i)]))

RECURSIVE ToTwkb(_)
GeometryCollectionToTwkb(g) ==
  TwkbHeader(g) \o (IF Empty(g) THEN <<>>
                    ELSE VarInt(Len(g.of)) \o FlattenSeq([i \in DOMAIN g.of |-> ToTwkb(g.of[i])]))
ToTwkb(g) == CASE g.type = "Point" -> PointToTwkb(g)
               [] g.type = "LineString" -> LineStringToTwkb(g)
               [] g.type = "Polygon" -> PolygonToTwkb(g)
               [] g.type = "MultiPoint" -> MultiPointToTwkb(g)
               [] g.type = "MultiLineString" -> MultiLineStringToTwkb(g)
               [] g.type = "MultiPolygon" -> MultiPolygonToTwkb(g)
               [] OTHER -> GeometryCollectionToTwkb(g)

------------------------------------------------------------------------------
\* The point's coordinates after previous, all four of them: the quotients are added up.
ReadTwkbPoint(s, at, o, previous) ==
  LET chosen == Chosen(o.hasZ, o.hasM)
      upTo[i \in 0 .. 4] ==
        IF i = 0 THEN Got(<<>>, at)
        ELSE Then(upTo[i - 1], LAMBDA r :
               IF i \notin chosen THEN Got(Append(r.value, previous[i]), r.at)
               ELSE As(ReadVarInt(s, r.at), LAMBDA n :
                      Append(r.value, AsDouble(previous[i] + AsDouble(ZigZagDecode(n) * Unit, FactorOf(i)), 1))))
  IN  upTo[4]

PointOf(o, four) == MakePoint(o.hasZ, o.hasM,
  SubSeq(four, 1, 2) \o (IF o.hasZ THEN <<four[3]>> ELSE <<>>) \o (IF o.hasM THEN <<four[4]>> ELSE <<>>))

\* n points, the last of which is what the next one is a difference to.
ReadTwkbPoints(s, at, o, previous) ==
  Then(ReadVarInt(s, at), LAMBDA n :
    LET upTo[i \in 0 .. n.value] ==
          IF i = 0 THEN Got([of |-> <<>>, previous |-> previous], n.at)
          ELSE Then(upTo[i - 1], LAMBDA r :
                 As(ReadTwkbPoint(s, r.at, o, r.value.previous), LAMBDA four :
                   [of |-> Append(r.value.of, PointOf(o, four)), previous |-> four]))
    IN  upTo[n.value])

\* A count, then as many sequences of points.
ReadTwkbLines(s, at, o, previous) ==
  Then(ReadVarInt(s, at), LAMBDA n :
    LET upTo[i \in 0 .. n.value] ==
          IF i = 0 THEN Got([of |-> <<>>, previous |-> previous], n.at)
          ELSE Then(upTo[i - 1], LAMBDA r :
                 As(ReadTwkbPoints(s, r.at, o, r.value.previous), LAMBDA line :
                   [of |-> Append(r.value.of, line.of), previous |-> line.previous]))
    IN  upTo[n.value])

FromTwkb(at, o, none, P(_)) ==
  As(IF o.isEmpty THEN Got(none, at) ELSE P(at), LAMBDA of : Geo(o.type, <<>>, o.hasZ, o.hasM, of))

PointFromTwkb(s, at, o) ==
  FromTwkb(at, o, <<>>, LAMBDA i : As(ReadTwkbPoint(s, i, o, Origin), LAMBDA four : PointOf(o, four).of))
LineStringFromTwkb(s, at, o) ==
  FromTwkb(at, o, <<>>, LAMBDA i : As(ReadTwkbPoints(s, i, o, Origin), LAMBDA line : line.of))
PolygonFromTwkb(s, at, o) ==
  FromTwkb(at, o, NoRings, LAMBDA i : As(ReadTwkbLines(s, i, o, Origin), LAMBDA lines : lines.of))
MultiPointFromTwkb(s, at, o) ==
  FromTwkb(at, o, <<>>, LAMBDA i : As(ReadTwkbPoints(s, i, o, Origin), LAMBDA line : line.of))
MultiLineStringFromTwkb(s, at, o) ==
  FromTwkb(at, o, <<>>, LAMBDA i : As(ReadTwkbLines(s, i, o, Origin), LAMBDA lines :
    [j \in DOMAIN lines.of |-> Geo("LineString", <<>>, o.hasZ, o.hasM, lines.of[j])]))
MultiPolygonFromTwkb(s, at, o) ==
  LET polygons(i) ==
        Then(ReadVarInt(s, i), LAMBDA n :
          LET upTo[k \in 0 .. n.value] ==
                IF k = 0 THEN Got([of |-> <<>>, previous |-> Origin], n.at)
                ELSE Then(upTo[k - 1], LAMBDA r :
                       As(ReadTwkbLines(s, r.at, o, r.value.previous), LAMBDA lines :
                         [of |-> Append(r.value.of, Geo("Polygon", <<>>, o.hasZ, o.hasM, lines.of)),
                          previous |-> lines.previous]))
          IN  upTo[n.value])
  IN  FromTwkb(at, o, <<>>, LAMBDA i : As(polygons(i), LAMBDA r : r.of))

RECURSIVE ParseTwkb(_, _)
GeometryCollectionFromTwkb(s, at, o) ==
  FromTwkb(at, o, <<>>, LAMBDA i :
    Then(ReadVarInt(s, i), LAMBDA n : Times(n.value, n.at, LAMBDA j : ParseTwkb(s, j))))

ParseTwkb(s, at) ==
  IF ~(IsCell(s, at, "type") /\ IsCell(s, at + 1, "metadata")) THEN Failed
  ELSE
  LET metadata == s[at + 1].flags
      dimensions == IF "extended" \in metadata THEN s[at + 2].flags ELSE {}
      body == IF "extended" \in metadata THEN at + 3 ELSE at + 2
      type == CHOOSE t \in DOMAIN WkbCode : WkbCode[t] = s[at].n
      o == [type |-> type, isEmpty |-> "empty" \in metadata,
            hasZ |-> "z" \in dimensions, hasM |-> "m" \in dimensions]
  IN  CASE type = "Point" -> PointFromTwkb(s, body, o)
        [] type = "LineString" -> LineStringFromTwkb(s, body, o)
        [] type = "Polygon" -> PolygonFromTwkb(s, body, o)
        [] type = "MultiPoint" -> MultiPointFromTwkb(s, body, o)
        [] type = "MultiLineString" -> MultiLineStringFromTwkb(s, body, o)
        [] type = "MultiPolygon" -> MultiPolygonFromTwkb(s, body, o)
        [] OTHER -> GeometryCollectionFromTwkb(s, body, o)
==============================================================================
