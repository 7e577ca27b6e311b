---------------------------- MODULE Expressions ----------------------------
(***************************************************************************)
(* What every expression of the query builders has in common               *)
(* (functions/index.ts, functions/subquery.ts, sql.ts): the text it        *)
(* appends to a query, whether it aggregates, and what it makes of a value *)
(* the driver returns.  An object of a class is a record, made by the      *)
(* operator named after the class:                                         *)
(*   kind   "column", "fn", "filter", "arg", "sql", of a literal its type  *)
(*          in JavaScript, "part" for what is no expression of its own,    *)
(*   k, of  what the program asked for: a name and its operands,           *)
(*   sql    the tokens toQuery appends,                                    *)
(*   flags  the true ones of its `_`, as its constructor finds them,       *)
(*   pg     the type PostgreSQL gives it (external), ts the kinds of       *)
(*          values its TypeScript type announces,                          *)
(*   back   fromDriverValue (of a column, fromDriver), by kind of value;   *)
(*   scalar fromDriverScalar of a column; json, its detectJsonKind.        *)
(***************************************************************************)
EXTENDS Grammar, TLC

\* Kinds of values but null; a numeral is a string of digits, a decimal one with a point.
Kinds == {"number", "NaN", "bigint", "numeral", "decimal", "text", "boolean", "date", "array", "document"}
Number == {"number", "numeral", "bigint"}
Same == [v \in Kinds |-> v]
Always(kind) == [v \in Kinds |-> kind]

\* What the drivers return for a type; the type a value has that comes out of JSON.
Driven(pg) ==
  CASE pg \in {"int4", "float8"} -> {"number"}
    [] pg = "int8" -> Number
    [] pg = "numeric" -> {"numeral", "decimal"}
    [] pg \in {"json", "jsonb"} -> {"document", "array", "number", "boolean"}
    [] pg = "timestamptz" -> {"date"}
    [] pg \in {"array", "boolean", "document"} -> {pg}
    [] OTHER -> {"text"}
OutOfJson(pg) == CASE pg \in {"int8", "numeric"} -> "float8"
                   [] pg = "timestamptz" -> "text"
                   [] OTHER -> pg

\* The conversions of functions/index.ts.
NumericFromDriver == [v \in Kinds |-> CASE v \in Number \cup {"decimal"} -> "number" [] v = "text" -> "NaN" [] OTHER -> v]
StringFromDriver == Same
BooleanFromDriver == Always("boolean")
ParseJsonDriverValue == [v \in Kinds |-> IF v \in {"numeral", "decimal"} THEN "number" ELSE v]

Commas(texts) == FlattenSeq([i \in DOMAIN texts |-> IF i = 1 THEN texts[i] ELSE <<",">> \o texts[i]])
Parens(text) == <<"(">> \o text \o <<")">>
Named(name, text) == <<name>> \o Parens(text)
Texts(es) == [i \in DOMAIN es |-> es[i].sql]

\* The constructors ask their operands: containsAggregate, containsWindow.
FlagsOf(es) == UNION {es[i].flags : i \in DOMAIN es}
Object(kind, k, of, sql) ==
  [kind |-> kind, k |-> k, of |-> of, sql |-> sql, flags |-> FlagsOf(of),
   pg |-> "text", ts |-> {"text"}, back |-> Same, scalar |-> Same, json |-> ""]
Typed(e, pg, ts, back) == [e EXCEPT !.pg = pg, !.ts = ts, !.back = back, !.scalar = back]
SqlFn(k, of, sql, pg, ts, back) == Typed(Object("fn", k, of, sql), pg, ts, back)
Part(k, of, sql) == Object("part", k, of, sql)

\* fromDriverScalar of the columns of a type, and the type they announce.
FromDriverScalar(pg) ==
  [v \in Kinds |->
     CASE pg \in {"int4", "float8"} /\ v = "numeral" -> "number"
       [] pg = "int4" /\ v = "decimal" -> "truncated"
       [] pg = "float8" /\ v = "decimal" -> "number"
       [] pg = "int8" /\ v \in Number -> "bigint"
       [] pg = "int8" /\ v = "decimal" -> "SyntaxError"
       [] pg = "numeric" /\ v \in Number -> "numeral"
       [] pg = "timestamptz" /\ v = "text" -> "date"
       [] OTHER -> v]
Announced(pg) ==
  CASE pg \in {"int4", "float8"} -> {"number"}
    [] pg = "int8" -> {"bigint"}
    [] pg = "timestamptz" -> {"date"}
    [] OTHER -> Driven(pg)

\* A column of a table that goes by an alias in the query.
Column(name, pg) == [Typed(Object("column", name, <<>>, <<name>>), pg, Announced(pg), FromDriverScalar(pg))
                       EXCEPT !.json = IF pg \in {"json", "jsonb"} THEN pg ELSE ""]
\* fromDriver converts the elements; fromDriverScalar takes the array for one of them.
ArrayColumn(name, pg) == [Column(name, "array") EXCEPT !.scalar = [FromDriverScalar(pg) EXCEPT !["array"] = "invalid"]]
FullName(name) == "table." \o name

Literal(js, token) ==
  LET pg == CASE js = "number" -> "int4" [] js = "bigint" -> "int8" [] js = "document" -> "json"
              [] js \in {"boolean", "array", "text"} -> js [] OTHER -> "unknown"
  IN  Typed(Object(js, token, <<>>, <<token>>), pg, IF js = "null" THEN {} ELSE {js}, Same)
Minus(e) == [e EXCEPT !.k = "-", !.of = <<e>>, !.sql = <<"-">> \o @]
Elements(es) == [Literal("array", "ARRAY") EXCEPT !.of = es, !.flags = FlagsOf(es)]
Null == Literal("null", "NULL")
Arg == Typed(Object("arg", "$1", <<>>, <<"$1">>), "unknown", Kinds, Same)
Sql(token) == Typed(Object("sql", token, <<>>, <<token>>), "unknown", Kinds, Same)

------------------------------------------------------------------------------
RECURSIVE ColumnsOf(_)
ColumnsOf(e) == IF e.kind = "column" THEN {e.k} ELSE UNION {ColumnsOf(e.of[i]) : i \in DOMAIN e.of}

\* A query of its own: the aliases are not known, the placeholders are another's.
ToSQL(e) == [i \in DOMAIN e.sql |-> CASE e.sql[i] \in ColumnsOf(e) -> FullName(e.sql[i])
                                      [] e.sql[i] = "$1" -> "$1 of another query"
                                      [] OTHER -> e.sql[i]]
\* toSqlValue, which calls the toSQL an Arg does not have.
ToSqlValue(e) == IF e.kind = "arg" THEN <<"TypeError">> ELSE ToSQL(e)

Cast(text, type) == IF type = "" THEN text ELSE text \o <<"::", type>>

\* toSQL and toSQLExpression of a column, for a value of its type; an element must be a value.
ElementToSQL(e) == IF e.kind \in {"column", "fn", "arg"} THEN <<"not a value">> ELSE e.sql
ColumnToSQL(column, e) ==
  IF column.pg # "array" \/ e.kind \in {"null", "sql"} THEN e.sql
  ELSE IF e.of = <<>> THEN <<"'{}'">>
  ELSE <<"ARRAY", "[">> \o Commas([i \in DOMAIN e.of |-> ElementToSQL(e.of[i])]) \o <<"]">>
ToSQLExpression(column, e) == Cast(ColumnToSQL(column, e), IF column.pg = "array" THEN "type[]" ELSE "")

\* AppendOperandOptions; lead holds the operand that leads, if any.
NoOptions == [lead |-> <<>>, prefer |-> "", argCast |-> "", dateCast |-> ""]
LeadBy(e) == [NoOptions EXCEPT !.lead = <<e>>]
Prefer(json) == [NoOptions EXCEPT !.prefer = json]
ForJson(json) == [Prefer(json) EXCEPT !.argCast = "text"]

\* detectJsonKind goes by the cast of a column, or the name of the function's class.
JsonKind(o) ==
  LET detected == IF o.lead = <<>> THEN "" ELSE o.lead[1].json
  IN  IF o.prefer = "jsonb" \/ detected = "" THEN o.prefer ELSE detected
LedByColumn(o) == o.lead # <<>> /\ o.lead[1].kind = "column"

RECURSIVE AppendOperand(_, _)
AppendOperand(e, o) ==
  CASE e.kind = "arg" -> Cast(e.sql, o.argCast)
    [] e.kind = "array" ->
         IF LedByColumn(o) /\ o.lead[1].pg = "array" THEN ToSQLExpression(o.lead[1], e)
         ELSE IF JsonKind(o) # ""
         THEN LET each == [Prefer(JsonKind(o)) EXCEPT !.argCast = o.argCast]
              IN  Named(JsonKind(o) \o "_build_array",
                        Commas([i \in DOMAIN e.of |-> AppendOperand(e.of[i], each)]))
         ELSE IF e.of = <<>> THEN <<"'{}'">>
         ELSE <<"ARRAY", "[">> \o Commas([i \in DOMAIN e.of |-> ToSqlValue(e.of[i])]) \o <<"]">>
    [] e.kind = "date" -> IF LedByColumn(o) THEN ColumnToSQL(o.lead[1], e) ELSE Cast(e.sql, o.dateCast)
    [] e.kind = "document" -> Cast(e.sql, IF JsonKind(o) = "" THEN "json" ELSE JsonKind(o))
    [] OTHER -> e.sql
Operands(es, o) == Commas([i \in DOMAIN es |-> AppendOperand(es[i], o)])

\* restoreOperandValue: by the operand the value comes from.
RestoreOperandValue(e) ==
  CASE e.json # "" /\ e.kind = "column" -> Same
    [] e.kind \in {"column", "fn"} -> e.back
    [] e.kind = "number" -> [v \in Kinds |-> IF v \in Number \cup {"decimal", "boolean", "date"} THEN "number" ELSE "NaN"]
    [] e.kind = "bigint" -> FromDriverScalar("int8")
    [] e.kind = "boolean" -> BooleanFromDriver
    [] e.kind = "date" -> Always("date")
    [] e.kind = "array" \/ e.kind = "document" -> ParseJsonDriverValue
    [] OTHER -> Same

------------------------------------------------------------------------------
\* Subqueries own their text: nothing of their operands shows in their flags.
Subquery(e) == [e EXCEPT !.flags = {}]
Negated(e) == [e EXCEPT !.k = "NOT", !.of = <<e>>, !.sql = <<"NOT">> \o @]
SubquerySqlFn(k, of, sql) == Subquery(SqlFn(k, of, sql, "boolean", {"boolean"}, BooleanFromDriver))

\* A query that selects one item; a select in the place of an operand.
ScalarSubqueryFn(query, item) ==
  Subquery(SqlFn(query, <<>>, Parens(<<query>>), item.pg, item.ts, item.back))
ExistsFn(query, isNot) ==
  LET e == SubquerySqlFn("EXISTS", <<Sql(query)>>, Named("EXISTS", <<query>>))
  IN  IF isNot THEN Negated(e) ELSE e
InFn(field, values, isNot) ==
  LET listed == Commas([i \in DOMAIN values |-> IF values[i].kind = "arg" THEN values[i].sql
                                                ELSE ToSQLExpression(field, values[i])])
      e == SubquerySqlFn("IN", <<field>> \o values, field.sql \o Named("IN", listed))
  IN  IF values = <<>>
      THEN IF isNot THEN [Negated(e) EXCEPT !.sql = <<"TRUE">>] ELSE [e EXCEPT !.sql = <<"FALSE">>]
      ELSE IF isNot THEN [Negated(e) EXCEPT !.sql = field.sql \o <<"NOT">> \o Named("IN", listed)] ELSE e
==============================================================================
