------------------------------ MODULE Building ------------------------------
(***************************************************************************)
(* A program builds an expression from the inside out: every step hands    *)
(* what is built to one more function or filter, beside other operands.    *)
(* The constructors take what their TypeScript signatures let through.     *)
(***************************************************************************)
EXTENDS Meanings

CONSTANTS
  Starts,       \* what there is at first
  Beside,       \* other operands
  Patterns,     \* texts to look for: literals and Args
  Conditions, Orders,
  Overs,        \* PARTITION BY, ORDER BY and frame of an OVER
  MaxUses       \* bound: functions around that

VARIABLES
  built,        \* the expression
  uses          \* how many functions went into it

vars == <<built, uses>>

Init == built \in Starts /\ uses = 0

Use(e) == uses < MaxUses /\ built' = e /\ uses' = uses + 1
UseOne(es) == \E e \in es : Use(e)

\* What the signatures ask of an operand.
IsExpression(e) == e.kind \in {"column", "fn"}
Scalar(e) == e.pg # "array"
NumericOperand(e) == (IsExpression(e) /\ e.pg \in Range(Numbers))
                       \/ e.kind \in {"number", "bigint", "arg", "sql", "null"}
TextExpr(e) == (IsExpression(e) /\ e.pg = "text") \/ e.kind \in {"text", "arg", "sql", "null"}
AggregateInput(e) == IsExpression(e) /\ e.flags = {}
Condition(e) == e.kind = "filter" \/ (e.kind = "fn" /\ e.k \in {"EXISTS", "IN", "NOT"})
Pair(l, r) == {<<l, r>>, <<r, l>>}
Pairs == UNION {Pair(built, o) : o \in Beside}
AtMostOne(S) == {<<>>} \cup {<<x>> : x \in S}
Numeral == Literal("number", "2")

------------------------------------------------------------------------------
Strings ==
  /\ TextExpr(built)
  /\ \/ UseOne({LengthFn(built), LowerFn(built), UpperFn(built), TrimFn(built),
                LeftFn(built, Numeral), RightFn(built, Numeral), ConcatFn(<<built>>)})
     \/ \E o \in {x \in Beside : TextExpr(x)} :
          UseOne({PositionFn(built, o), PositionFn(o, built), ConcatWsFn(o, <<built, o>>)})
Concat == /\ IsExpression(built) /\ Scalar(built)
          /\ \E o \in {x \in Beside : x.kind # "array" /\ Scalar(x)} : Use(ConcatFn(<<o, built>>))

Arithmetic ==
  /\ NumericOperand(built)
  /\ \E p \in {x \in Pairs : NumericOperand(x[1]) /\ NumericOperand(x[2])} :
       UseOne({AddFn(p[1], p[2]), SubFn(p[1], p[2]), MulFn(p[1], p[2]), DivFn(p[1], p[2])})
Mathematical ==
  /\ NumericOperand(built)
  /\ UseOne({AbsFn(built), ModFn(built, Numeral), CeilFn(built), FloorFn(built), PowerFn(built, Numeral)}
              \cup {RoundFn(built, d) : d \in AtMostOne({Numeral})}
              \cup {TruncFn(built, d) : d \in AtMostOne({Numeral})})

Distances ==
  /\ built.kind = "column"
  /\ \E v \in {Literal("text", "[1]"), Arg, Null} :
       \/ built.pg = "vector" /\ UseOne({L2Distance(built, v), InnerProduct(built, v),
                                        CosineDistance(built, v), L1Distance(built, v)})
       \/ built.pg = "bit" /\ UseOne({HammingDistance(built, v), JaccardDistance(built, v)})
Places ==
  /\ built.kind = "column" /\ built.pg = "geography"
  /\ \E p \in {Literal("text", "POINT(1 2)"), Null} : Use(StDistanceFn(built, p))
PlaceFilters ==
  /\ built.kind = "column" /\ built.pg = "geography"
  /\ LET p == Literal("text", "POINT(1 2)")
     IN  UseOne({StDWithinFilter(built, p, Numeral), StIntersectsFilter(built, p),
                 StContainsFilter(built, p), StWithinFilter(built, p)})

------------------------------------------------------------------------------
Counting == IsExpression(built) /\ \E p \in Pairs : UseOne({NumNonNullsFn(p), NumNullsFn(p)})

Choosing ==
  /\ IsExpression(built)
  /\ \E p \in Pairs : UseOne({CoalesceFn(p), NullIfFn(p[1], p[2]), GreatestFn(p), LeastFn(p)})
Cases ==
  \/ /\ IsExpression(built)
     /\ \E c \in Conditions, p \in Pairs : UseOne({CaseFn(<< <<c, p[1]>> >>, <<p[2]>>),
                                                   CaseFn(<< <<c, p[1]>>, <<c, p[2]>> >>, <<>>)})
  \/ Condition(built) /\ \E o \in Beside : Use(CaseFn(<< <<built, o>> >>, <<>>))

Aggregates ==
  /\ AggregateInput(built)
  /\ \E o \in AtMostOne(Orders), c \in AtMostOne(Conditions) :
       \/ UseOne({MinFn(built, o, c), MaxFn(built, o, c)})
       \/ built.kind = "column" /\ UseOne({CountFn(built, o, c), CountDistinctFn(built, o, c)})
       \/ NumericOperand(built) /\ Scalar(built) /\ UseOne({SumFn(built, o, c), AvgFn(built, o, c)})
CountStar == Condition(built) /\ built.flags = {} /\ Use(CountStarFn(<<built>>))

Windowing(fn) ==
  \E w \in Overs : Use(WindowedSqlFn(fn, w.partition, w.orders, w.frame))
Windows ==
  \/ built.flags = {"aggregate"} /\ built.k \in {"count", "sum", "avg", "min", "max", "json_agg"}
       /\ Windowing(built)
  \/ AggregateInput(built) /\ \E fn \in {FirstValueFn(built), LastValueFn(built), NthValueFn(built, Numeral),
                                        LagFn(built, <<>>, <<>>), LeadFn(built, <<Numeral>>, <<>>)} : Windowing(fn)
  \/ AggregateInput(built) /\ "number" \in built.ts /\ Windowing(LagFn(built, <<>>, <<Numeral>>))
Ranking ==
  \E fn \in {RowNumberFn, RankFn, DenseRankFn, PercentRankFn, CumeDistFn, NtileFn(Numeral)},
     p \in {x \in {built} : AggregateInput(x)} : Use(WindowedSqlFn(fn, <<p>>, <<Order(p, "DESC")>>, <<>>))

------------------------------------------------------------------------------
Key == Literal("text", "key")
Json(json) ==
  /\ IsExpression(built)
  /\ \/ \E o \in Beside : UseOne({JsonBuildObjectFn(json, << <<Key, built>>, <<Key, o>> >>),
                                 JsonBuildArrayFn(json, <<built, o>>),
                                 JsonBuildArrayFn(json, <<Elements(<<built, o>>)>>)})
     \/ UseOne({ToJsonFn(json, built), JsonStripNullsFn(json, built)})
     \/ built.flags = {} /\ \E o \in AtMostOne(Orders), c \in AtMostOne(Conditions), d \in BOOLEAN :
                              Use(JsonAggFn(json, built, d, o, c))
JsonFunctions == \E json \in {"json", "jsonb"} : Json(json) \/ Use(ToJsonFn(json, Table("users")))

TextSearch ==
  LET config == Literal("text", "english")
      query == TsqueryParserFn("to_tsquery", Literal("text", "a & b"), <<config>>)
      vector == ToTsvectorFn(built, <<Arg>>)
  IN  /\ built.kind = "column" /\ TextExpr(built)
      /\ UseOne({vector, TsqueryParserFn("plainto_tsquery", built, <<>>),
                 TsHeadlineFn(built, query, <<config>>, <<>>), TsHeadlineFn(built, Key, <<>>, <<Key>>),
                 TsRankFn("ts_rank", vector, Arg, <<>>), TsRankFn("ts_rank_cd", built, query, <<Numeral>>),
                 SetweightFn(vector, Literal("text", "A")), StripFn(vector), QuerytreeFn(query), NumnodeFn(Key),
                 TsMatchFilter(vector, query), TsMatchFilter(built, Key)})

------------------------------------------------------------------------------
\* Of a column with an Arg or a column too; of a function with a literal or a function.
ComparesWith(l, r) ==
  IF l.kind = "column"
  THEN r.kind \in {"column", "arg", "fn", "null"}
         \/ (IF Scalar(l) THEN r.kind \in {"number", "text"} ELSE r.kind = "array" /\ ~NeedsTheQuery(r))
  ELSE l.kind = "fn" /\ r.kind \in {"number", "bigint", "text", "boolean", "date", "fn", "null"}
Compares ==
  \E p \in {x \in Pairs : ComparesWith(x[1], x[2])} :
    UseOne({Eq(p[1], p[2]), Ne(p[1], p[2]), Gt(p[1], p[2]), Gte(p[1], p[2]), Lt(p[1], p[2]), Lte(p[1], p[2])})
Joins ==
  /\ Condition(built)
  /\ \E c \in Conditions \cup {Null, BooleanFilter("TRUE"), BooleanFilter("FALSE")} :
       UseOne({AndCondition(<<built, c>>), OrCondition(<<c, built>>),
               AndCondition(<<c, OrCondition(<<built, c, built>>), c>>)})
Columns ==
  /\ built.kind = "column"
  /\ \/ UseOne({IsNullCondition(built), IsNotNullCondition(built)})
     \/ /\ built.pg = "array"
        /\ \/ \E v \in {Arg, Elements(<<>>), Elements(<<Numeral, Numeral>>)} :
                UseOne({ArrayContainsFilter(built, v), ArrayContainedByFilter(built, v),
                        ArrayOverlapsFilter(built, v)})
           \/ \E v \in {Arg, Numeral} : UseOne({ArrayHasFilter(built, v), ArrayAllFilter(built, v)})
     \/ /\ built.pg = "text"
        /\ \E p \in Patterns : UseOne({StartsWithCondition(built, p), EndsWithCondition(built, p),
                                       ContainsCondition(built, p), LikeCondition(built, p),
                                       ILikeCondition(built, p)})
     \/ \E vs \in {<<>>, <<Arg>>, <<Numeral, Arg>>, <<Sql("query")>>}, isNot \in BOOLEAN :
          Scalar(built) /\ Use(InFn(built, vs, isNot))
Subqueries ==
  \/ IsExpression(built) /\ built.kind = "fn" /\ Use(ScalarSubqueryFn("query", built))
  \/ \E isNot \in BOOLEAN : Use(ExistsFn("query", isNot))

Next ==
  \/ Strings \/ Concat \/ Arithmetic \/ Mathematical \/ Distances \/ Places \/ PlaceFilters
  \/ Counting \/ Choosing \/ Cases \/ Aggregates \/ CountStar \/ Windows \/ Ranking
  \/ JsonFunctions \/ TextSearch \/ Compares \/ Joins \/ Columns \/ Subqueries

Spec == Init /\ [][Next]_vars

------------------------------------------------------------------------------
(***************************************************************************)
(* PostgreSQL reads in the text of an expression the expression that was   *)
(* built, however deep: no operator of an operand takes hold of what is    *)
(* beside it.  It does not where a distance is computed with, NOT EXISTS   *)
(* is ordered, and() or or() is given no condition, a text to end with or  *)
(* to contain is an Arg or holds a backslash, and an array literal that is *)
(* not JSON holds a column or an Arg.                                      *)
(***************************************************************************)
MeansWhatWasBuilt ==
  built.kind # "error" => (Normal(Parsed(built.sql)) = Normal(Meaning(built)) <=> ~Misread(built))

(***************************************************************************)
(* An expression says it aggregates, or is windowed, exactly when          *)
(* PostgreSQL finds an aggregate or a window in its text, subqueries       *)
(* apart: what GROUP BY and the refusals of over() go by.                  *)
(***************************************************************************)
KnowsItself == built.kind \in {"fn", "filter"} => built.flags = Flagged(Parsed(built.sql))

(***************************************************************************)
(* A value the driver returns for a function is read as one of the type    *)
(* the function announces to TypeScript.  It is not where an average or a  *)
(* sum outgrows the type of its operand, where what picks an element reads *)
(* an array as one of its elements, and where the first of several         *)
(* operands reads a result PostgreSQL widens to another's type.            *)
(***************************************************************************)
ResultHasItsType ==
  (built.kind = "fn" /\ built.k # "query" /\ Accepts(built) /\ built.ts # {} /\ built.pg # "unknown") =>
    ((\A v \in Driven(built.pg) : built.back[v] \in built.ts) <=> ~Surprising(built))
==============================================================================
