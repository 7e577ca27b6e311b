------------------------------- MODULE Columns -------------------------------
(***************************************************************************)
(* What becomes of a value put into a column (columns/): it goes to        *)
(* PostgreSQL inside the text of a statement (toSQL) or as the value of a  *)
(* placeholder (toDriver), and comes back in a row or within the JSON of a *)
(* relational query (fromDriver), alone or in an array of one or two       *)
(* dimensions.                                                             *)
(*                                                                         *)
(* A value is told from others of its column only as far as a conversion   *)
(* does: a number is counted in halves and held in so many significant     *)
(* bits, an instant is an hour since some midnight in UTC, a text consists *)
(* of the characters that quoting is about.  In the texts of types with a  *)
(* spelling of their own, "A" is what PostgreSQL spells as "a".            *)
(***************************************************************************)
EXTENDS Geography, TLC

CONSTANTS
  Given,                 \* <<type, dimensions, value>>
  RealBits,              \* significant bits of a real: 24
  WholeEnd, BigEnd,      \* the integers end before these, in halves
  Length,                \* n of char(n), varchar(n) and bit(n)
  Day, Zone              \* hours of a day; how far the program's clock is ahead of UTC

J(js, is) == [js |-> js, is |-> is]
Nil == J("null", <<>>)

WholeTypes == {"smallint", "integer", "smallserial", "serial"}
BigTypes == {"bigint", "bigserial"}
FloatTypes == {"real", "double precision"}
NumberTypes == WholeTypes \cup BigTypes \cup FloatTypes \cup {"numeric"}
ListTypes == {"vector", "halfvec"}
SpelledTypes == {"uuid", "inet", "cidr", "macaddr", "time", "timetz", "tsvector", "sparsevec"}
UncastTypes == (NumberTypes \ {"numeric"}) \cup {"text", "varchar", "char"}
\* Types whose arrays the driver hands over as PostgreSQL wrote them.
UnknownTypes == ListTypes \cup {"enum", "tsvector", "sparsevec", "bit", "geography"}

IsArray(x) == x.js = "array"
Each(Op(_), a) == J("array", [i \in DOMAIN a.is |-> Op(a.is[i])])
\* Op on the scalars of a value of so many dimensions; in JavaScript a text has no map().
Through(Op(_), dims, a) ==
  LET Below(b) == IF IsArray(b) THEN Each(Op, b) ELSE J("TypeError", <<>>)
  IN  CASE dims = 0 \/ a.js = "null" -> Op(a)
        [] ~IsArray(a) -> J("TypeError", <<>>)
        [] dims = 1 -> Each(Op, a)
        [] dims = 2 -> Each(Below, a)

RECURSIVE Leaves(_)
Leaves(x) == IF IsArray(x) THEN FlattenSeq([i \in DOMAIN x.is |-> Leaves(x.is[i])]) ELSE <<x>>

\* replace(/two/g, one)
RECURSIVE Replaced(_, _, _)
Replaced(s, two, one) ==
  CASE Len(s) < Len(two) -> s
    [] SubSeq(s, 1, Len(two)) = two -> one \o Replaced(SubSeq(s, Len(two) + 1, Len(s)), two, one)
    [] OTHER -> <<Head(s)>> \o Replaced(Tail(s), two, one)

Significant(n, bits) == Rounded(n, 1, bits)
\* A number of halves as a whole number: a half is rounded away from zero.
Nearest(n) == CASE n % 2 = 0 -> n [] n > 0 -> n + 1 [] OTHER -> n - 1

------------------------------------------------------------------------------
(***************************************************************************)
(* On the way in.  toSQLScalar writes a number bare (what is not a number  *)
(* reads as a name), the rest between quotes; toDriverScalar gives the     *)
(* driver a text to send, for a boolean quotes and all.                    *)
(***************************************************************************)
Throws(type, x) ==
  /\ x.js # "null"
  /\ \/ type = "uuid" /\ "0" \in Range(x.is)       \* not of a variant the pattern knows
     \/ type = "numeric" /\ x.is = <<>>

Quoted(s) == J("quoted", Replaced(s, <<"'">>, <<"'", "'">>))

SqlScalar(type, x) ==
  CASE x.js = "null" -> Nil
    [] type \in NumberTypes -> J(IF x.is = <<>> THEN "name" ELSE "bare", x.is)
    [] type = "date" -> J("quoted", x.is \div Day)
    [] type = "json" -> J("quoted", [x.is EXCEPT !.text = Quoted(@).is])
    [] type \in {"text", "varchar", "char", "enum"} \cup SpelledTypes -> Quoted(x.is)
    [] OTHER -> J("quoted", x.is)

DriverScalar(type, x) ==
  CASE x.js = "null" -> Nil
    [] type = "boolean" -> SqlScalar(type, x)
    [] type = "date" -> J("text", x.is \div Day)
    [] OTHER -> J("text", x.is)

ToSQL(type, dims, x) == Through(LAMBDA y : SqlScalar(type, y), dims, x)
ToDriver(type, dims, x) == Through(LAMBDA y : DriverScalar(type, y), dims, x)

Put(type, dims, x, way) ==
  /\ stage = "start"
  /\ way = "inline" => \A y \in Range(Leaves(x)) : ~Throws(type, y)
  /\ stage' = "put"
  /\ subject' = <<type, dims, x, way>>
  /\ data' = IF way = "inline" THEN ToSQL(type, dims, x) ELSE ToDriver(type, dims, x)
  /\ UNCHANGED result

ThrowOn(type, dims, x) ==
  /\ stage = "start"
  /\ \E y \in Range(Leaves(x)) : Throws(type, y)
  /\ stage' = "turned down"
  /\ subject' = <<type, dims, x, "inline">>
  /\ UNCHANGED <<data, result>>

------------------------------------------------------------------------------
(***************************************************************************)
(* PostgreSQL.  A literal is read into the column's type, a bare number    *)
(* rounded to it before it is refused for being beyond; the value of a     *)
(* placeholder has to be spelled in it.  An array of nothing but NULL is   *)
(* one of texts unless it says otherwise.                                  *)
(***************************************************************************)
TakesScalar(type, way, w) ==
  w.js # "null" =>
    /\ w.js # "name"
    /\ type = "boolean" => ~(way = "param" /\ w.js = "quoted")
    /\ type \in WholeTypes => /\ w.is # <<>>
                              /\ Nearest(w.is[1]) \in -WholeEnd .. WholeEnd - 1
                              /\ way = "param" => w.is[1] % 2 = 0
    /\ type \in BigTypes => w.is[1] \in -BigEnd .. BigEnd - 1
    /\ type \in {"char", "varchar"} =>
         Len(IF way = "inline" THEN Replaced(w.is, <<"'", "'">>, <<"'">>) ELSE w.is) <= Length

Takes(type, way, w) ==
  LET leaves == Range(Leaves(w))
  IN  /\ \A x \in leaves : TakesScalar(type, way, x)
      /\ IsArray(w) /\ leaves = {Nil} /\ way = "inline" => type \notin NumberTypes \ {"numeric"}

Respelled(s) == [i \in DOMAIN s |-> IF s[i] = "A" THEN "a" ELSE s[i]]
Padded(s, with) == [i \in 1 .. Length |-> IF i > Len(s) THEN with ELSE s[i]]

StoredScalar(type, way, w) ==
  LET text == IF way = "inline" THEN Replaced(w.is, <<"'", "'">>, <<"'">>) ELSE w.is
      is == CASE type \in WholeTypes -> <<Nearest(w.is[1])>>
              [] type = "real" /\ w.is # <<>> -> <<Significant(w.is[1], RealBits)>>
              [] type \in ListTypes -> [i \in DOMAIN w.is |-> Significant(w.is[i], RealBits)]
              [] type = "numeric" /\ w.is # <<>> ->
                   [w.is EXCEPT ![2] = IF @ = "otherwise" THEN "plainly" ELSE @]
              [] type = "json" /\ way = "inline" ->
                   [w.is EXCEPT !.text = Replaced(@, <<"'", "'">>, <<"'">>)]
              [] type \in SpelledTypes -> Respelled(text)
              [] type = "char" -> Padded(text, " ")
              [] type = "bit" -> Padded(text, "0")
              [] type \in {"text", "varchar", "enum"} -> text
              [] OTHER -> w.is
  IN  IF w.js = "null" THEN Nil ELSE J("value", is)

\* The output of a type as characters, as far as an array or a list needs it.
Joined(parts, delimiter) ==
  FlattenSeq([i \in DOMAIN parts |-> IF i = 1 THEN parts[i] ELSE <<delimiter>> \o parts[i]])
TextOf(type, is) ==
  IF type \notin ListTypes THEN is
  ELSE <<"[">> \o Joined([i \in DOMAIN is |-> <<ToString(is[i])>>], ",") \o <<"]">>

RECURSIVE ArrayText(_, _)
ArrayText(type, v) ==
  LET delimiter == IF type = "geography" THEN ":" ELSE ","
      text == TextOf(type, v.is)
      special == text = <<>> \/ text = <<"NULL">>
                   \/ Range(text) \cap {"\"", "\\", "{", "}", " ", delimiter} # {}
      Escaped(c) == IF c \in {"\"", "\\"} THEN <<"\\", c>> ELSE <<c>>
  IN  CASE IsArray(v) ->
             <<"{">> \o Joined([i \in DOMAIN v.is |-> ArrayText(type, v.is[i])], delimiter) \o <<"}">>
        [] v.js = "null" -> <<"NULL">>
        [] special -> <<"\"">> \o FlattenSeq([i \in DOMAIN text |-> Escaped(text[i])]) \o <<"\"">>
        [] OTHER -> text

(***************************************************************************)
(* node-postgres: dates become Dates at the program's midnight, an integer *)
(* of 64 bits or a numeric stays a text, except that the elements of an    *)
(* array of numerics are made numbers.  JSON has only numbers and texts.   *)
(***************************************************************************)
Number64(is) == IF is = <<>> THEN is ELSE <<Significant(is[1], DoubleBits)>>

RowScalar(type, inArray, v) ==
  CASE v.js = "null" -> Nil
    [] type \in WholeTypes \cup FloatTypes -> J("number", v.is)
    [] type = "numeric" /\ inArray -> J("number", Number64(v.is))
    [] type = "boolean" -> J("boolean", v.is)
    [] type = "bytea" -> J("Buffer", v.is)
    [] type = "date" -> J("Date", v.is * Day - Zone)
    [] type = "timestamp" -> J("Date", v.is - Zone)
    [] type = "timestamptz" -> J("Date", v.is)
    [] type = "json" -> J(v.is.kind, v.is.text)
    [] OTHER -> J("string", TextOf(type, v.is))

JsonScalar(type, v) ==
  CASE v.js = "null" -> Nil
    [] type \in NumberTypes -> IF v.is = <<>> THEN J("string", v.is) ELSE J("number", Number64(v.is))
    [] type = "boolean" -> J("boolean", v.is)
    [] type = "json" -> J(v.is.kind, v.is.text)
    [] OTHER -> J("string", TextOf(type, v.is))

Answered(type, dims, route, v) ==
  CASE route = "json" -> Through(LAMBDA w : JsonScalar(type, w), dims, v)
    [] IsArray(v) /\ type \in UnknownTypes -> J("string", ArrayText(type, v))
    [] OTHER -> Through(LAMBDA w : RowScalar(type, dims > 0, w), dims, v)

Keep ==
  /\ stage = "put"
  /\ Takes(subject[1], subject[4], data)
  /\ stage' = "kept"
  /\ data' = Through(LAMBDA w : StoredScalar(subject[1], subject[4], w), subject[2], data)
  /\ UNCHANGED <<subject, result>>

TurnDown ==
  /\ stage = "put"
  /\ ~Takes(subject[1], subject[4], data)
  /\ stage' = "turned down"
  /\ UNCHANGED <<subject, data, result>>

------------------------------------------------------------------------------
(***************************************************************************)
(* On the way out.  The text of an array is taken apart at the commas that *)
(* stand outside of quotes and braces; a quote counts unless the character *)
(* before it is a backslash, whatever stands before that.                  *)
(***************************************************************************)
Step(inner, s, i) ==
  LET c == inner[i]
      on == [s EXCEPT !.current = Append(@, c)]
  IN  CASE c = "\"" /\ (i = 1 \/ inner[i - 1] # "\\") -> [on EXCEPT !.inQuotes = ~@]
        [] ~s.inQuotes /\ c = "{" -> [on EXCEPT !.depth = @ + 1]
        [] ~s.inQuotes /\ c = "}" -> [on EXCEPT !.depth = @ - 1]
        [] ~s.inQuotes /\ c = "," /\ s.depth = 0 ->
             [s EXCEPT !.result = Append(@, s.current), !.current = <<>>]
        [] OTHER -> on

Elements(inner) ==
  LET end == FoldLeft(LAMBDA s, i : Step(inner, s, i),
                      [depth |-> 0, current |-> <<>>, inQuotes |-> FALSE, result |-> <<>>],
                      [i \in DOMAIN inner |-> i])
  IN  IF end.current = <<>> THEN end.result ELSE Append(end.result, end.current)

Within(s) == SubSeq(s, 2, Len(s) - 1)
Between(s, first, last) == s # <<>> /\ Head(s) = first /\ Last(s) = last

RECURSIVE ParseArrayString(_)
ParseArrayString(str) ==
  LET Parsed(e) ==
        CASE Between(e, "{", "}") -> ParseArrayString(e)
          [] Between(e, "\"", "\"") ->
               J("string", Replaced(Replaced(Within(e), <<"\\", "\"">>, <<"\"">>), <<"\\", "\\">>, <<"\\">>))
          [] e = <<"NULL">> -> Nil
          [] OTHER -> J("string", e)
      parts == Elements(Within(str))
  IN  J("array", IF str = <<"{", "}">> THEN <<>> ELSE [i \in DOMAIN parts |-> Parsed(parts[i])])

RECURSIVE TrimEnd(_)
TrimEnd(s) == IF s # <<>> /\ Last(s) = " " THEN TrimEnd(Front(s)) ELSE s

\* A mutant: the parts of the driver's Date in UTC.
DateFromDriverUtc(d) ==
  J("Date", Day * (IF d.js = "string" THEN d.is ELSE d.is \div Day))
\* A day's Date is made from the local parts of the driver's.
DateFromDriver(d) ==
  J("Date", Day * (IF d.js = "string" THEN d.is ELSE (d.is + Zone) \div Day))

\* JSON.parse of a text: here only "1" is one.
JsonFromDriver(d) == IF d.js = "string" /\ d.is = <<"1">> THEN J("number", d.is) ELSE d

ListFromDriver(d) ==
  LET inner == SelectSeq(Within(d.is), LAMBDA c : c # ",")
  IN  J("numbers", [i \in DOMAIN inner |-> CHOOSE n \in -32 .. 32 : ToString(n) = inner[i]])

\* A timestamp without a zone in JSON is read by the program's clock.
TimestampFromDriver(type, d) ==
  J("Date", IF d.js = "string" /\ type = "timestamp" THEN d.is - Zone ELSE d.is)

JsScalar(type, d) ==
  CASE IsArray(d) \/ d.js = "null" -> d
    [] type \in NumberTypes \ (BigTypes \cup {"numeric"}) -> J("number", d.is)
    [] type \in BigTypes -> J("bigint", d.is)
    [] type = "numeric" ->
         J("string", IF d.js = "string" \/ d.is = <<>> THEN d.is ELSE <<d.is[1], "plainly">>)
    [] type = "bytea" -> J("Buffer", d.is)
    [] type = "char" -> J("string", TrimEnd(d.is))
    [] type = "date" -> DateFromDriver(d)
    [] type \in {"timestamp", "timestamptz"} -> TimestampFromDriver(type, d)
    [] type = "json" -> JsonFromDriver(d)
    [] type \in ListTypes -> ListFromDriver(d)
    [] type = "geography" -> J("string", SubSeq(d.is, 1, SelectInSeq(d.is \o <<":">>, LAMBDA c : c = ":") - 1))
    [] OTHER -> d

FromDriver(type, dims, d) ==
  Through(LAMBDA e : JsScalar(type, e), dims,
          IF dims > 0 /\ d.js = "string" THEN ParseArrayString(d.is) ELSE d)

Fetch(route) ==
  /\ stage = "kept"
  /\ stage' = "got"
  /\ result' = FromDriver(subject[1], subject[2], Answered(subject[1], subject[2], route, data))
  /\ data' = route
  /\ UNCHANGED subject

ColumnNext ==
  \/ Next
  \/ \E v \in Given :
       \/ ThrowOn(v[1], v[2], v[3])
       \/ \E way \in {"inline", "param"} : Put(v[1], v[2], v[3], way)
  \/ Keep \/ TurnDown
  \/ \E route \in {"row", "json"} : Fetch(route)

ColumnSpec == Init /\ [][ColumnNext]_vars

------------------------------------------------------------------------------
(***************************************************************************)
(* What a column does not take: numbers beyond its type, also if only      *)
(* rounding puts them there; not a number where PostgreSQL has none or     *)
(* would read a name, a fraction for the placeholder of an integer, texts  *)
(* that are too long, a uuid the pattern does not know; and no boolean can *)
(* be the value of a placeholder.                                          *)
(***************************************************************************)
Refuses(type, way, x) ==
  /\ x.js # "null"
  /\ CASE type = "boolean" -> way = "param"
       [] type \in WholeTypes -> \/ x.is = <<>>
                                 \/ Nearest(x.is[1]) \notin -WholeEnd .. WholeEnd - 1
                                 \/ way = "param" /\ x.is[1] % 2 # 0
       [] type \in BigTypes -> x.is[1] \notin -BigEnd .. BigEnd - 1
       [] type \in FloatTypes \cup {"numeric"} -> way = "inline" /\ x.is = <<>>
       [] type = "uuid" -> way = "inline" /\ "0" \in Range(x.is)
       [] type \in {"char", "varchar"} -> Len(x.is) > Length
       [] OTHER -> FALSE

(***************************************************************************)
(* What comes back otherwise than it was given: a fraction for an integer, *)
(* more digits than the type or, on the way back, a number has; the hour   *)
(* of a date; a timestamp without a zone, by the zone of the program; a    *)
(* text of JSON that is itself JSON; spaces at the end of a char; bits     *)
(* that are not as many as the column has; another spelling.               *)
(***************************************************************************)
Alters(type, dims, route, x) ==
  /\ x.js # "null"
  /\ CASE type \in WholeTypes -> x.is[1] % 2 # 0
       [] type = "real" -> x.is # <<>> /\ Significant(x.is[1], RealBits) # x.is[1]
       [] type \in BigTypes -> route = "json" /\ Significant(x.is[1], DoubleBits) # x.is[1]
       [] type = "numeric" ->
            /\ x.is # <<>>
            /\ \/ x.is[2] = "otherwise"
               \/ /\ route = "json" \/ dims > 0
                  /\ x.is[2] = "with zeros" \/ Significant(x.is[1], DoubleBits) # x.is[1]
       [] type \in ListTypes -> \E i \in DOMAIN x.is : Significant(x.is[i], RealBits) # x.is[i]
       [] type = "date" -> x.is % Day # 0
       [] type = "timestamp" -> Zone # 0
       [] type = "json" -> x.is = [kind |-> "string", text |-> <<"1">>]
       [] type = "char" -> x.is # <<>> /\ Last(x.is) = " "
       [] type = "bit" -> Len(x.is) # Length
       [] type \in SpelledTypes -> "A" \in Range(x.is)
       [] OTHER -> FALSE

(***************************************************************************)
(* An array the driver does not know is cut wrongly after an element that  *)
(* ends in a backslash, unless it is the last; one of geographies, whose   *)
(* elements PostGIS separates by colons, is not cut at all.                *)
(***************************************************************************)
CutWrongly(type, route, x) ==
  LET leaves == Leaves(x)
  IN  /\ route = "row" /\ IsArray(x)
      /\ \E i \in 1 .. Len(leaves) - 1 :
           \/ type = "geography"
           \/ type \in UnknownTypes \ ListTypes /\ leaves[i].is # <<>> /\ Last(leaves[i].is) = "\\"

RECURSIVE Same(_, _)
Same(a, b) ==
  /\ a.js = b.js
  /\ IF IsArray(a) THEN Len(a.is) = Len(b.is) /\ \A i \in DOMAIN a.is : Same(a.is[i], b.is[i])
     ELSE a.is = b.is

\* The value as a program has it, for a JSON text by its own type.
AsGiven(type, dims, x) ==
  Through(LAMBDA y : IF type = "json" /\ y.js # "null" THEN J(y.is.kind, y.is.text) ELSE y, dims, x)

(***************************************************************************)
(* A value put into a column is the value that comes back, by either way   *)
(* in and by either way out, except for what is named above; and only what *)
(* is named above is turned down.                                          *)
(***************************************************************************)
ColumnReturned ==
  LET type == subject[1]  dims == subject[2]  x == subject[3]  way == subject[4]
      leaves == Range(Leaves(x))
  IN  /\ stage \in {"kept", "turned down"} =>
           (stage = "turned down"
              <=> \/ \E y \in leaves : Refuses(type, way, y)
                  \/ /\ IsArray(x) /\ leaves = {Nil} /\ way = "inline"
                     /\ type \in NumberTypes \ {"numeric"})
      /\ stage = "got" =>
           (Same(result, AsGiven(type, dims, x))
              <=> ~ (CutWrongly(type, data, x) \/ \E y \in leaves : Alters(type, dims, data, y)))
==============================================================================
