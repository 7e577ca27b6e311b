---------------------------- MODULE SqlFunctions ----------------------------
(***************************************************************************)
(* The SQL functions (the files of functions/): for each class the text    *)
(* its toQuery appends, the flags its constructor finds, and what its      *)
(* fromDriverValue makes of a value.  The names are those of the classes;  *)
(* an operand that may be left out is a sequence of at most one.           *)
(***************************************************************************)
EXTENDS Expressions

\* name(e, ...), by the appenders that write an operand as it is.
TextFn(name, es) == SqlFn(name, es, Named(name, Commas(Texts(es))), "text", {"text"}, StringFromDriver)
NumericFn(name, es, pg) == Typed(TextFn(name, es), pg, {"number"}, NumericFromDriver)

\* The type PostgreSQL finds for numbers, and for values that may each be the result (external).
Numbers == <<"float8", "numeric", "int8", "int4">>
Common(es) ==
  LET types == SelectSeq([i \in DOMAIN es |-> es[i].pg], LAMBDA pg : pg # "unknown")
      wide == SelectSeq(Numbers, LAMBDA pg : pg \in Range(types))
  IN  IF types = <<>> THEN "unknown" ELSE IF wide = <<>> THEN types[1] ELSE wide[1]
Rounded(e) == IF e.pg = "numeric" THEN "numeric" ELSE "float8"

------------------------------------------------------------------------------
LengthFn(e) == NumericFn("length", <<e>>, "int4")
LowerFn(e) == TextFn("lower", <<e>>)
UpperFn(e) == TextFn("upper", <<e>>)
TrimFn(e) == TextFn("trim", <<e>>)
LeftFn(e, n) == TextFn("left", <<e, n>>)
RightFn(e, n) == TextFn("right", <<e, n>>)
PositionFn(e, search) == NumericFn("strpos", <<e, search>>, "int4")
ConcatFn(es) == TextFn("concat", es)
ConcatWsFn(sep, es) == TextFn("concat_ws", <<sep>> \o es)

Operator(l, op, r, text) == SqlFn(op, <<l, r>>, text, Common(<<l, r>>), {"number"}, NumericFromDriver)
\* Arithmetic that leaves out its parentheses.
InfixBare(l, op, r) == Operator(l, op, r, l.sql \o <<op>> \o r.sql)
Infix(l, op, r) == Operator(l, op, r, Parens(l.sql \o <<op>> \o r.sql))
AddFn(l, r) == Infix(l, "+", r)
SubFn(l, r) == Infix(l, "-", r)
MulFn(l, r) == Infix(l, "*", r)
DivFn(l, r) == Infix(l, "/", r)

AbsFn(e) == NumericFn("abs", <<e>>, e.pg)
ModFn(e, n) == NumericFn("mod", <<e, n>>, Common(<<e, n>>))
RoundFn(e, digits) == NumericFn("round", <<e>> \o digits, IF digits = <<>> THEN Rounded(e) ELSE "numeric")
CeilFn(e) == NumericFn("ceil", <<e>>, Rounded(e))
FloorFn(e) == NumericFn("floor", <<e>>, Rounded(e))
TruncFn(e, digits) == NumericFn("trunc", <<e>> \o digits, IF digits = <<>> THEN Rounded(e) ELSE "numeric")
PowerFn(e, exponent) == NumericFn("power", <<e, exponent>>, Rounded(e))

DistanceFn(column, op, value) ==
  LET type == IF value.kind \in {"arg", "null"} THEN "" ELSE column.pg
  IN  [Operator(column, op, value, column.sql \o <<op>> \o Cast(value.sql, type)) EXCEPT !.pg = "float8"]
L2Distance(column, value) == DistanceFn(column, "<->", value)
InnerProduct(column, value) == DistanceFn(column, "<#>", value)
CosineDistance(column, value) == DistanceFn(column, "<=>", value)
L1Distance(column, value) == DistanceFn(column, "<+>", value)
HammingDistance(column, value) == DistanceFn(column, "<~>", value)
JaccardDistance(column, value) == DistanceFn(column, "<%>", value)
PointToQuery(point) == TextFn("ST_PointFromText", <<point>>)
StDistanceFn(column, point) ==
  NumericFn("ST_Distance", <<column, IF point.kind = "null" THEN point ELSE PointToQuery(point)>>, "float8")

------------------------------------------------------------------------------
\* name(e, ...), by appendOperand.
Appending(k, es, o) == SqlFn(k, es, Named(k, Operands(es, o)), "text", {"text"}, StringFromDriver)

AnyArg == [NoOptions EXCEPT !.argCast = "text"]
NumNonNullsFn(es) == Typed(Appending("num_nonnulls", es, AnyArg), "int4", {"number"}, NumericFromDriver)
NumNullsFn(es) == Typed(Appending("num_nulls", es, AnyArg), "int4", {"number"}, NumericFromDriver)

AnyOf(es) == UNION {es[i].ts : i \in DOMAIN es}

\* Of the operands, the first that has a type of its own says how the value is read.
ByFirst(es, kinds) ==
  LET typed == SelectSeq(es, LAMBDA e : e.kind \in {"column", "fn"} \cup kinds)
  IN  IF typed = <<>> THEN Same ELSE RestoreOperandValue(typed[1])

CoalesceFn(es) ==
  LET o == [LeadBy(es[1]) EXCEPT !.prefer = IF es[1].json = "jsonb" THEN "jsonb" ELSE ""]
  IN  Typed(Appending("coalesce", es, o), Common(es), AnyOf(es),
            ByFirst(es, {"number", "bigint", "boolean", "array"}))
\* Reading the result as the value it is compared with.
NullIfByValue(e, value) ==
  Typed(Appending("nullif", <<e, value>>, LeadBy(e)), e.pg, e.ts, RestoreOperandValue(value))
NullIfFn(e, value) ==
  Typed(Appending("nullif", <<e, value>>, LeadBy(e)), IF e.pg = "unknown" THEN value.pg ELSE e.pg, e.ts,
        RestoreOperandValue(e))
Extreme(k, es) ==
  Typed(Appending(k, es, LeadBy(es[1])), Common(es), AnyOf(es), ByFirst(es, {"number", "bigint", "boolean"}))
GreatestFn(es) == Extreme("greatest", es)
LeastFn(es) == Extreme("least", es)

(***************************************************************************)
(* CASE: branches are pairs of a condition and a result, otherwise the     *)
(* ELSE.  A value is read by the first column or function among the        *)
(* results, failing which by the literal that leads.                       *)
(***************************************************************************)
ByLiteral(e) ==
  CASE e.kind = "bigint" -> [v \in Kinds |-> IF v \in Number THEN "bigint" ELSE v]
    [] e.kind = "number" -> [v \in Kinds |-> IF v \in Number \cup {"decimal", "boolean", "date"} THEN "number" ELSE v]
    [] e.kind = "boolean" -> BooleanFromDriver
    [] e.kind = "date" -> Always("date")
    [] OTHER -> Same
CaseFn(branches, otherwise) ==
  LET results == [i \in DOMAIN branches |-> branches[i][2]] \o otherwise
      given == SelectSeq(results, LAMBDA e : e.kind # "null")
      typed == SelectSeq(results, LAMBDA e : e.kind \in {"column", "fn"})
      kinds == {results[i].json : i \in DOMAIN results}
      o == [NoOptions EXCEPT
              !.lead = IF given = <<>> THEN <<>> ELSE <<given[1]>>,
              !.prefer = IF "jsonb" \in kinds THEN "jsonb" ELSE IF "json" \in kinds THEN "json" ELSE "",
              !.dateCast = IF given # <<>> /\ \A i \in DOMAIN given : given[i].kind = "date"
                           THEN "timestamptz" ELSE ""]
      When(b) == Part("WHEN", <<b[1], b[2]>>, <<"WHEN">> \o b[1].sql \o <<"THEN">> \o AppendOperand(b[2], o))
      Else(e) == Part("ELSE", <<e>>, <<"ELSE">> \o AppendOperand(e, o))
      parts == [i \in DOMAIN branches |-> When(branches[i])] \o [i \in DOMAIN otherwise |-> Else(otherwise[i])]
  IN  SqlFn("CASE", parts, <<"CASE">> \o FlattenSeq(Texts(parts)) \o <<"END">>,
            IF o.dateCast # "" THEN o.dateCast ELSE Common(results), AnyOf(results),
            IF typed # <<>> THEN (IF typed[1].kind = "column" THEN typed[1].scalar ELSE typed[1].back)
            ELSE IF given # <<>> THEN ByLiteral(given[1]) ELSE Same)

------------------------------------------------------------------------------
Order(e, way) == Part(way, <<e>>, e.sql \o <<way>>)
OrderBy(orders) ==
  IF orders = <<>> THEN <<>> ELSE <<Part("ORDER BY", orders, <<"ORDER BY">> \o Commas(Texts(orders)))>>

(***************************************************************************)
(* Aggregates: the operand with the text it is appended as, DISTINCT, what *)
(* orderBy() and filter() added.  An aggregate aggregates, whatever its    *)
(* operands do.                                                            *)
(***************************************************************************)
AggregateSqlFn(k, e, text, distinct, orders, condition) ==
  LET filter == [i \in DOMAIN condition |->
                   Part("FILTER", <<condition[i]>>, <<"FILTER", "(", "WHERE">> \o condition[i].sql \o <<")">>)]
      call == <<k, "(">> \o (IF distinct THEN <<"DISTINCT">> ELSE <<>>) \o text
                \o FlattenSeq(Texts(OrderBy(orders))) \o <<")">>
      operand == IF distinct THEN Part("DISTINCT", <<e>>, <<>>) ELSE e
  IN  [SqlFn(k, <<operand>> \o OrderBy(orders) \o filter, call \o FlattenSeq(Texts(filter)),
             "int8", {"number"}, NumericFromDriver) EXCEPT !.flags = {"aggregate"}]
Aggregate(k, e, orders, condition) == AggregateSqlFn(k, e, e.sql, FALSE, orders, condition)

CountFn(e, orders, condition) == Aggregate("count", e, orders, condition)
CountStarFn(condition) == Aggregate("count", Sql("*"), <<>>, condition)
CountDistinctFn(e, orders, condition) == AggregateSqlFn("count", e, e.sql, TRUE, orders, condition)
SumFn(e, orders, condition) ==
  Typed(Aggregate("sum", e, orders, condition),
        CASE e.pg = "int4" -> "int8" [] e.pg = "int8" -> "numeric" [] OTHER -> e.pg, e.ts,
        [v \in Kinds |-> CASE v \in {"number", "numeral", "decimal"} -> "number" [] v = "text" -> "NaN" [] OTHER -> v])
AvgFn(e, orders, condition) ==
  Typed(Aggregate("avg", e, orders, condition), IF e.pg = "float8" THEN "float8" ELSE "numeric", e.ts, Same)

\* fromDriverScalar, also where the column is an array.
Delegated(fn, e) == Typed(fn, e.pg, e.ts, IF e.kind = "column" THEN e.scalar ELSE e.back)
MinFn(e, orders, condition) == Delegated(Aggregate("min", e, orders, condition), e)
MaxFn(e, orders, condition) == Delegated(Aggregate("max", e, orders, condition), e)

------------------------------------------------------------------------------
Windowed == {"aggregate", "window"}
PureWindowSqlFn(k, es) ==
  [Typed(SqlFn(k, es, Named(k, Commas(Texts(es))), "int8", {"number"}, NumericFromDriver), "int8",
         {"number"}, NumericFromDriver) EXCEPT !.flags = Windowed]
RowNumberFn == PureWindowSqlFn("row_number", <<>>)
RankFn == PureWindowSqlFn("rank", <<>>)
DenseRankFn == PureWindowSqlFn("dense_rank", <<>>)
PercentRankFn == Typed(PureWindowSqlFn("percent_rank", <<>>), "float8", {"number"}, Always("number"))
CumeDistFn == Typed(PureWindowSqlFn("cume_dist", <<>>), "float8", {"number"}, Always("number"))
NtileFn(buckets) == PureWindowSqlFn("ntile", <<buckets>>)

WindowExprFn(k, e, es) == Delegated(PureWindowSqlFn(k, <<e>> \o es), e)
OffsetCall(k, e, offset, fallback) ==
  LET by == IF offset = <<>> /\ fallback # <<>> THEN <<Literal("number", "1")>> ELSE offset
      default == [i \in DOMAIN fallback |-> [fallback[i] EXCEPT !.sql = AppendOperand(fallback[i], NoOptions)]]
  IN  WindowExprFn(k, e, by \o default)
LagFn(e, offset, fallback) == OffsetCall("lag", e, offset, fallback)
LeadFn(e, offset, fallback) == OffsetCall("lead", e, offset, fallback)
FirstValueFn(e) == WindowExprFn("first_value", e, <<>>)
LastValueFn(e) == WindowExprFn("last_value", e, <<>>)
NthValueFn(e, n) == WindowExprFn("nth_value", e, <<n>>)

FrameEndpoint(offset, kind) == offset \o <<kind>>
FrameClause(type, start, end, exclude) ==
  LET words == <<type>> \o (IF end = <<>> THEN start ELSE <<"BETWEEN">> \o start \o <<"AND">> \o end) \o exclude
  IN  Part("frame", [i \in DOMAIN words |-> Sql(words[i])], words)

\* over(): the function, its conversion, and the OVER clause; it refuses an aggregate's ORDER BY.
WindowedSqlFn(fn, partition, orders, frame) ==
  LET by == IF partition = <<>> THEN <<>>
            ELSE <<Part("PARTITION BY", partition, <<"PARTITION BY">> \o Commas(Texts(partition)))>>
      spec == by \o OrderBy(orders) \o frame
      over == Part("OVER", spec, <<"OVER">> \o Parens(FlattenSeq(Texts(spec))))
  IN  IF "aggregate" \in fn.flags /\ \E i \in DOMAIN fn.of : fn.of[i].k = "ORDER BY"
      THEN Object("error", "Error", <<fn>>, <<>>)
      ELSE [fn EXCEPT !.of = Append(@, over), !.sql = @ \o over.sql, !.flags = Windowed, !.json = ""]

------------------------------------------------------------------------------
\* JSON functions, of json and of jsonb; the name of the class tells which.
OfJson(fn, json, pg, ts, back) == [Typed(fn, pg, ts, back) EXCEPT !.json = json]
JsonName(json, name) == json \o name

\* fields are pairs of a key and an operand.
JsonBuildObjectFn(json, fields) ==
  LET k == JsonName(json, "_build_object")
      of == FlattenSeq(fields)
      texts == [i \in DOMAIN of |-> AppendOperand(of[i], ForJson(json))]
  IN  OfJson(SqlFn(k, of, Named(k, Commas(texts)), "", {}, Same), json, "document", {"document"},
             ParseJsonDriverValue)
JsonBuildArrayFn(json, items) ==
  OfJson(Appending(JsonName(json, "_build_array"), items, ForJson(json)), json, "array", {"array"},
         ParseJsonDriverValue)
JsonAggFn(json, e, distinct, orders, condition) ==
  OfJson(AggregateSqlFn(JsonName(json, "_agg"), e, AppendOperand(e, ForJson(json)), distinct, orders, condition),
         json, "array", {"array"}, ParseJsonDriverValue)

\* A plain record is written as the json_build_object of its entries.
Table(name) == Typed(Part(name, <<>>, <<name>>), "document", {"document"}, Same)
ToJsonScalar(e, json) ==
  IF e.kind \in {"null", "text", "date", "arg"} THEN Cast(e.sql, "text") ELSE AppendOperand(e, Prefer(json))
ToJsonFn(json, e) ==
  LET k == "to_" \o json
      text == IF e.kind = "part" THEN e.sql ELSE ToJsonScalar(e, json)
  IN  OfJson(SqlFn(k, <<e>>, Named(k, text), "", {}, Same), json, OutOfJson(e.pg), e.ts, RestoreOperandValue(e))
JsonStripNullsFn(json, e) ==
  OfJson(Appending(JsonName(json, "_strip_nulls"), <<e>>, Prefer(json)), json, OutOfJson(e.pg), e.ts,
         RestoreOperandValue(e))

------------------------------------------------------------------------------
\* Text search; a configuration comes first.
TsText(e, type) == IF e.kind \in {"text", "arg"} THEN Cast(e.sql, type) ELSE AppendOperand(e, NoOptions)
TsOperand(e, type) == [e EXCEPT !.sql = TsText(e, type)]
Config(config) == [i \in DOMAIN config |-> TsOperand(config[i], IF config[i].kind = "arg" THEN "regconfig" ELSE "")]

ToTsvectorFn(document, config) == TextFn("to_tsvector", Config(config) \o <<document>>)
TsqueryParserFn(name, query, config) == TextFn(name, Config(config) \o <<query>>)
TsHeadlineFn(document, query, config, options) ==
  TextFn("ts_headline", Config(config) \o <<document, TsOperand(query, "tsquery")>> \o options)
TsRankFn(name, vector, query, normalization) ==
  NumericFn(name, <<TsOperand(vector, "tsvector"), TsOperand(query, "tsquery")>> \o normalization, "float8")
SetweightFn(vector, weight) == TextFn("setweight", <<TsOperand(vector, "tsvector"), weight>>)
StripFn(vector) == TextFn("strip", <<TsOperand(vector, "tsvector")>>)
QuerytreeFn(query) == TextFn("querytree", <<TsOperand(query, "tsquery")>>)
NumnodeFn(query) == NumericFn("numnode", <<TsOperand(query, "tsquery")>>, "int4")
==============================================================================
