---------------------------- MODULE MCGeography ----------------------------
(***************************************************************************)
(* An instance of Geography: every class in every dimension, with and      *)
(* without an srid, empty and not, with empty members, with coordinates at *)
(* the ends of the integers of TWKB and below its last digit.  The width   *)
(* of an integer and of the part of it in a byte are 7 and 3 for 32 and 7: *)
(* as in the code, the last byte is cut and two bits decide what survives. *)
(* Doubles have 8 significant bits for 53, and 100 stands for 10^5: of the *)
(* decimals with as many digits some fall short of a whole number when     *)
(* they are multiplied by it, as 0.29 does here and 4.35 in the code.      *)
(***************************************************************************)
EXTENDS Columns

\* So many halves of the last digit TWKB keeps of x and y, of z and m.
Decimal(n) == AsDouble(n * Unit, 2 * Factor)
Half(n) == n * (Unit \div 2)

\* A point whose coordinates differ.
At(z, m, x) ==
  MakePoint(z, m, <<Decimal(x), Decimal(2 - x)>> \o (IF z THEN <<Half(x + 4)>> ELSE <<>>)
                                                 \o (IF m THEN <<Half(6 - x)>> ELSE <<>>))
\* One whose coordinates are no less exact as doubles: 0.25 is 25 / 100.
AtQuarters(z, m, n) ==
  MakePoint(z, m, <<n * (Unit \div 4), 0>> \o (IF z THEN <<n * Unit>> ELSE <<>>) \o (IF m THEN <<Unit>> ELSE <<>>))

MCShapes(z, m) ==
  LET P(x) == At(z, m, x)
      Q(n) == AtQuarters(z, m, n)
      none == Geo("Point", <<>>, z, m, <<>>)
      G(type, of) == Geo(type, <<>>, z, m, of)
      L(of) == G("LineString", of)
      S(of) == G("Polygon", of)
      ring == <<P(2), P(4), P(-6), P(2)>>
      hole == <<P(8), P(10), P(8), P(8)>>
      line == L(<<P(2), P(-8)>>)
      points == {P(2), P(0), P(-2), P(56), P(58), P(-56), P(66), P(3), P(-5), none}
      lines == {L(<<>>), L(<<P(2)>>), line, L(<<P(-20), P(20), P(4)>>), L(<<P(-40), P(40)>>), L(<<P(3), P(6)>>),
                L(<<P(20), P(70)>>), L(<<P(14), P(30), P(42)>>), L(<<Q(1), Q(0), Q(-1), Q(0), Q(1)>>)}
      polygons == {S(NoRings), S(<<ring>>), S(<<ring, hole>>), S(<<ring, <<>>, hole>>), S(<< <<>>, hole>>)}
      multi == {G("MultiPoint", of) : of \in {<<>>, <<P(2)>>, <<P(2), P(-8)>>, <<P(2), none>>}}
        \cup {G("MultiLineString", of) : of \in {<<>>, <<line>>, <<line, L(<<P(4), P(10)>>)>>, <<line, L(<<>>)>>}}
        \cup {G("MultiPolygon", of) : of \in {<<>>, <<S(<<ring>>)>>, <<S(<<ring, hole>>), S(<<hole>>)>>,
                                              <<S(NoRings)>>}}
      C(of) == G("GeometryCollection", of)
      collections == {C(of) : of \in {<<>>, <<P(2)>>, <<P(2), line, S(<<ring>>)>>, <<L(<<>>)>>,
                        <<G("MultiPoint", <<P(2), P(4)>>), P(6)>>, <<C(<<P(2)>>), C(<<>>)>>, <<none>>,
                        <<P(56), P(-56)>>}}
  IN  points \cup lines \cup polygons \cup multi \cup collections

MCWritten == {[g EXCEPT !.srid = srid] :
                g \in UNION {MCShapes(d[1], d[2]) : d \in BOOLEAN \X BOOLEAN}, srid \in {<<>>, <<0>>, <<3>>}}

\* Longitude and latitude, as the six columns are given them.
MCValues ==
  LET at(x) == <<x, 2 - x>>
      ring == <<at(2), at(4), at(6), at(2)>>
      hole == <<at(8), at(10), at(12), at(8)>>
      lines == {<<>>, <<at(1)>>, <<at(1), at(5)>>, <<at(2), at(4), at(2)>>}
      rings == {<<>>, <<ring>>, <<ring, hole>>, << <<at(2), at(4), at(2)>> >>, << <<>> >>, <<ring, <<>> >>}
      Pairs(S) == {<<>>} \cup {<<a>> : a \in S} \cup {<<a, b>> : a \in S, b \in S}
  IN  {<<"Point", at(x)>> : x \in {0, 1, -7}}
        \cup {<<"LineString", l>> : l \in lines} \cup {<<"Polygon", p>> : p \in rings}
        \cup {<<"MultiPoint", ps>> : ps \in Pairs({at(1), at(5)})}
        \cup {<<"MultiLineString", ls>> : ls \in Pairs(lines)}
        \cup {<<"MultiPolygon", ps>> : ps \in Pairs(rings)}

\* Scalars of each type: quotes, backslashes and braces in texts, numbers at every limit.
MCScalars(type) ==
  LET Strings(texts) == {J("string", t) : t \in texts}
      free == UNION {[1 .. n -> {"'", "\\", "\"", ",", "{", " ", "a"}] : n \in 0 .. 2}
      Numbers(js, S) == {J(js, <<n>>) : n \in S}
  IN  CASE type \in WholeTypes -> Numbers("number", {0, 2, -6, 3, -3, 13, 14, 15, 16, -16, -17, -18}) \cup {J("number", <<>>)}
        [] type \in BigTypes -> Numbers("bigint", {0, -2, 512, 514, 766, -514, 1022, 1024, -1024, -1026})
        [] type \in FloatTypes -> Numbers("number", {0, 3, 7, 9, -9, 11, 30, 63}) \cup {J("number", <<>>)}
        [] type = "numeric" -> {J("string", <<n, s>>) : n \in {0, 3, 257, 515, -515},
                                                       s \in {"plainly", "with zeros", "otherwise"}}
                                 \cup {J("string", <<>>)}
        [] type = "boolean" -> {J("boolean", b) : b \in BOOLEAN}
        [] type = "bytea" -> {J("Buffer", b) : b \in {<<>>, <<0>>, <<39, 92>>}}
        [] type \in {"date", "timestamp", "timestamptz"} -> {J("Date", n) : n \in -5 .. 5}
        [] type = "json" -> {J("json", [kind |-> "string", text |-> t]) : t \in free \cup {<<"1">>, <<"1", "'">>}}
                              \cup {J("json", [kind |-> k, text |-> <<"1">>]) : k \in {"number", "object"}}
        [] type \in ListTypes -> {J("numbers", l) : l \in {<<1>>, <<3, -5>>, <<9>>, <<1, 9>>}}
        [] type = "bit" -> Strings({<<"1">>, <<"1", "0">>, <<"0", "1", "1">>})
        [] type = "geography" -> Strings({<<"a">>, <<"0">>})
        [] type = "enum" -> Strings(free \cup {<<"NULL">>})
        [] type \in {"text", "varchar", "char"} -> Strings(free \cup {<<"a", "'", "a">>})
        [] type = "uuid" -> Strings({<<"a">>, <<"A">>, <<"0">>})
        [] OTHER -> Strings({<<"a">>, <<"A", "a">>, <<"'", "a", "'">>, <<"{", "A">>, <<"a", ",">>})

\* The elements whose neighbours matter, or two of them.
MCElements(type) ==
  LET telling == {J("string", t) : t \in {<<>>, <<"a">>, <<"\\">>, <<"\"">>, <<"a", "\\">>, <<"\\", "\"">>,
                                         <<",">>, <<"{", " ">>, <<"'">>, <<"NULL">>}}
  IN  {Nil} \cup CASE type = "enum" -> telling
                   [] type \in {"text", "varchar", "char"} -> {J("string", <<"a">>), J("string", <<"\\">>)}
                   [] type = "json" -> {J("json", [kind |-> "string", text |-> t]) : t \in {<<"1">>, <<"'">>}}
                   [] type = "numeric" -> {J("string", v) : v \in {<<>>, <<3, "with zeros">>, <<515, "plainly">>}}
                   [] type \in BigTypes -> {J("bigint", <<n>>) : n \in {2, 514, 1024}}
                   [] type \in NumberTypes -> {J("number", v) : v \in {<<>>, <<2>>, <<9>>, <<16>>}}
                   [] type \in {"date", "timestamp", "timestamptz"} -> {J("Date", n) : n \in {-1, 4}}
                   [] OTHER -> MCScalars(type)

MCTypes == NumberTypes \cup ListTypes \cup SpelledTypes
  \cup {"text", "varchar", "char", "enum", "boolean", "bytea", "date", "timestamp", "timestamptz", "json", "bit",
        "geography"}

MCGiven ==
  LET Arrays(S) == {J("array", a) : a \in {<<>>} \cup {<<x>> : x \in S} \cup {<<x, y>> : x \in S, y \in S}}
      Nested(S) == {J("array", <<J("array", <<x, y>>)>>) : x \in S, y \in S}
                     \cup {J("array", <<J("array", <<x>>), J("array", <<y>>)>>) : x \in S, y \in S}
  IN  UNION {{<<type, 0, x>> : x \in MCScalars(type) \cup {Nil}}
               \cup {<<type, 1, a>> : a \in Arrays(MCElements(type)) \cup {Nil}}
               \cup {<<type, 2, a>> : a \in Nested(MCElements(type))} : type \in MCTypes}
==============================================================================
