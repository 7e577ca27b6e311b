------------------------------ MODULE Filters ------------------------------
(***************************************************************************)
(* The conditions (the files of filters/): comparisons, IS NULL, AND and   *)
(* OR, of arrays, of text, of places and of text search.                   *)
(***************************************************************************)
EXTENDS SqlFunctions

Filter(k, of, sql) == Typed(Object("filter", k, of, sql), "boolean", {"boolean"}, Same)
Plain(filter) == [filter EXCEPT !.flags = {}]
BooleanFilter(token) == Filter(token, <<>>, <<token>>)

\* Left of op is a column: it writes a literal as a value of its own type.
RightOfColumn(column, r) ==
  IF r.kind \in {"arg", "column", "fn"} THEN r.sql ELSE ToSQLExpression(column, r)
ComparisonLeftIsColumn(l, op, r) == Filter(op, <<l, r>>, l.sql \o <<op>> \o RightOfColumn(l, r))
\* A comparison that does not ask its operands whether they aggregate.
ComparisonUnasked(l, op, r) ==
  Plain(Filter(op, <<l, r>>, l.sql \o <<op>> \o (IF r.kind = "fn" THEN r.sql ELSE ToSqlValue(r))))
ComparisonLeftIsSqlFn(l, op, r) ==
  Filter(op, <<l, r>>, l.sql \o <<op>> \o (IF r.kind = "fn" THEN r.sql ELSE ToSqlValue(r)))
Comparison(l, op, r) ==
  IF l.kind = "column" THEN ComparisonLeftIsColumn(l, op, r) ELSE ComparisonLeftIsSqlFn(l, op, r)
Eq(l, r) == Comparison(l, "=", r)
Ne(l, r) == Comparison(l, "!=", r)
Gt(l, r) == Comparison(l, ">", r)
Gte(l, r) == Comparison(l, ">=", r)
Lt(l, r) == Comparison(l, "<", r)
Lte(l, r) == Comparison(l, "<=", r)

IsNullCondition(column) == Plain(Filter("IS NULL", <<column>>, column.sql \o <<"IS", "NULL">>))
IsNotNullCondition(column) == Plain(Filter("IS NOT NULL", <<column>>, column.sql \o <<"IS", "NOT", "NULL">>))

\* Conditions that are not there are skipped.
Joined(op, conditions) ==
  LET given == SelectSeq(conditions, LAMBDA c : c.kind # "null")
  IN  Filter(op, given, Parens(FlattenSeq([i \in DOMAIN given |->
               IF i = 1 THEN given[i].sql ELSE <<op>> \o given[i].sql])))
AndCondition(conditions) == Joined("AND", conditions)
OrCondition(conditions) == Joined("OR", conditions)

------------------------------------------------------------------------------
ArrayComparison(op, column, values) == Plain(Filter(op, <<column, values>>,
  column.sql \o <<op>> \o (IF values.kind = "arg" THEN values.sql ELSE ToSQLExpression(column, values))))
ArrayContainsFilter(column, values) == ArrayComparison("@>", column, values)
ArrayContainedByFilter(column, values) == ArrayComparison("<@", column, values)
ArrayOverlapsFilter(column, values) == ArrayComparison("&&", column, values)

Quantified(value, k, column) ==
  LET all == Part(k, <<column>>, Named(k, column.sql))
  IN  Plain(Filter("=", <<value, all>>, value.sql \o <<"=">> \o all.sql))
ArrayHasFilter(column, value) == Quantified(value, "ANY", column)
ArrayAllFilter(column, value) == Quantified(value, "ALL", column)

------------------------------------------------------------------------------
\* The characters of a string; % and _ get a backslash, a backslash none.
Char(s, i) == SubSeq(s, i, i)
RECURSIVE Escaped(_)
Escaped(s) ==
  IF s = "" THEN "" ELSE (IF Char(s, 1) \in {"%", "_"} THEN "\\" ELSE "") \o Char(s, 1) \o Escaped(Tail(s))
\* An Arg is taken as it comes.
Pattern(e) == IF e.kind = "arg" THEN e.sql ELSE <<Escaped(e.k)>>
Like(k, column, e, pattern) == Plain(Filter(k, <<column, e>>, column.sql \o pattern))
StartsWithCondition(column, prefix) ==
  Plain(Filter("starts_with", <<column, prefix>>, Named("starts_with", column.sql \o <<",">> \o prefix.sql)))
EndsWithCondition(column, suffix) ==
  Like("ends with", column, suffix, <<"LIKE">> \o Parens(<<"'%'", "||">> \o Pattern(suffix)))
ContainsCondition(column, part) ==
  Like("contains", column, part, <<"LIKE">> \o Parens(<<"'%'", "||">> \o Pattern(part) \o <<"||", "'%'">>))
LikeCondition(column, pattern) == Like("LIKE", column, pattern, <<"LIKE">> \o pattern.sql)
ILikeCondition(column, pattern) == Like("ILIKE", column, pattern, <<"ILIKE">> \o pattern.sql)

------------------------------------------------------------------------------
Spatial(name, column, point, more) == Plain(TextFn(name, <<column, PointToQuery(point)>> \o more))
StDWithinFilter(column, point, radius) == Spatial("ST_DWithin", column, point, <<radius>>)
StIntersectsFilter(column, point) == Spatial("ST_Intersects", column, point, <<>>)
StContainsFilter(column, point) == Spatial("ST_Contains", column, point, <<>>)
StWithinFilter(column, point) == Spatial("ST_Within", column, point, <<>>)

TsMatchFilter(vector, query) ==
  Filter("@@", <<vector, query>>, TsText(vector, "tsvector") \o <<"@@">> \o TsText(query, "tsquery"))
==============================================================================
