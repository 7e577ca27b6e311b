----------------------------- MODULE MCBuilding -----------------------------
(* Instances for Building: columns of the types that are read differently. *)
EXTENDS Building

num == Column("n", "int4")
txt == Column("t", "text")
vec == Column("v", "vector")
tags == ArrayColumn("tags", "text")
doc == Column("doc", "jsonb")
One == Literal("number", "1")

MCColumns == {num, txt, vec, tags, doc, Column("big", "int8"), Column("d", "numeric"), Column("at", "timestamptz"),
              Column("g", "geography"), Column("bits", "bit")}
\* One of every way to write an expression.
MCOrders == {Order(txt, "ASC")}
MCOvers == {[partition |-> <<>>, orders |-> <<>>, frame |-> <<>>],
            [partition |-> <<num, txt>>, orders |-> <<Order(txt, "ASC"), Order(num, "DESC")>>,
             frame |-> <<FrameClause("ROWS", <<"UNBOUNDED PRECEDING">>, <<"CURRENT ROW">>, <<"EXCLUDE TIES">>)>>]}
MCConditions == {Eq(num, Arg), InFn(num, <<>>, TRUE)}
Compound ==
  {AddFn(num, One), SubFn(One, MulFn(num, num)), DistanceFn(vec, "<->", Arg), LowerFn(txt), ExistsFn("query", TRUE),
   InFn(num, <<One, Arg>>, TRUE), ScalarSubqueryFn("query", num), RoundFn(Column("d", "numeric"), <<One>>), CountFn(num, <<>>, <<>>),
   WindowedSqlFn(MaxFn(num, <<>>, <<Eq(num, Arg)>>), <<num>>, <<>>, <<>>),
   CaseFn(<< <<Eq(txt, Arg), num>> >>, <<One>>), CoalesceFn(<<num, Null>>), JsonBuildArrayFn("json", <<num, txt>>),
   JsonBuildObjectFn("jsonb", << <<Literal("text", "k"), Column("big", "int8")>> >>)}
MCStarts == MCColumns \cup Compound
  \cup {Eq(num, AddFn(num, One)), OrCondition(<<Eq(num, Arg), IsNullCondition(txt)>>), Ne(CountFn(num, <<>>, <<>>), One)}
MCBeside == {One, Minus(One), Literal("text", "a"), Arg, num, tags, Null, Elements(<<One, num>>),
             Elements(<<>>), CountFn(num, <<>>, <<>>), DistanceFn(vec, "<->", Arg), ExistsFn("query", TRUE)}
MCPatterns == {Literal("text", p) : p \in {"a", "50%", "a_b", "a\\b"}} \cup {Arg}
==============================================================================
