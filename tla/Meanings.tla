------------------------------ MODULE Meanings ------------------------------
(***************************************************************************)
(* What an expression is meant to say, beside what PostgreSQL reads in the *)
(* text it appends: two trees, compared when casts, the several ways to    *)
(* write an array and the patterns of LIKE are taken for what they mean.   *)
(***************************************************************************)
EXTENDS Filters, FiniteSets

RECURSIVE Meaning(_), Normal(_), Objects(_), Trees(_), AsRead(_)

\* The tree the program built.
Meaning(e) ==
  LET of == [i \in DOMAIN e.of |-> Meaning(e.of[i])]
  IN  CASE e.kind = "filter" /\ e.k \in {"AND", "OR"} ->
             IF of = <<>> THEN Atom("nothing")
             ELSE FoldLeft(LAMBDA l, r : Tree(e.k, <<l, r>>), of[1], Tail(of))
        [] e.k = "IN" /\ Len(of) = 1 -> Atom("FALSE")
        [] OTHER -> Tree(e.k, of)

\* A pattern of LIKE: a backslash takes the next character as it is, % and _ stand for others.
AsRead(pattern) ==
  CASE pattern = "" -> <<>>
    [] Char(pattern, 1) = "\\" ->
         IF pattern = "\\" THEN <<"invalid">>
         ELSE <<Char(pattern, 2)>> \o AsRead(SubSeq(pattern, 3, Len(pattern)))
    [] Char(pattern, 1) \in {"%", "_"} -> <<"any">> \o AsRead(Tail(pattern))
    [] OTHER -> <<Char(pattern, 1)>> \o AsRead(Tail(pattern))
Spelled(token) == Tree("text", [i \in 1 .. Len(token) |-> Atom(Char(token, i))])
Percent == Atom("'%'")
\* A placeholder stands for a pattern, not for a text.
PatternOf(token) ==
  IF Char(token, 1) = "$" THEN Atom("any")
  ELSE Tree("text", [i \in DOMAIN AsRead(token) |-> Atom(AsRead(token)[i])])

Normal(tree) ==
  LET of == [i \in DOMAIN tree.of |-> Normal(tree.of[i])]
      inner == of[1]
  IN  CASE tree.op = "::" -> inner
        [] tree.op \in {"json_build_array", "jsonb_build_array"} -> Tree("ARRAY", of)
        [] tree = Atom("'{}'") -> Atom("ARRAY")
        [] tree.op = "NOT" /\ inner = Atom("FALSE") -> Atom("TRUE")
        [] tree.op = "NOT" /\ inner.op \in {"=", "!="} ->
             Tree(inner.op, <<Normal(Tree("NOT", <<inner.of[1]>>)), inner.of[2]>>)
        [] tree.op \in {"ends with", "contains"} -> Tree(tree.op, <<of[1], Spelled(of[2].op)>>)
        [] tree.op = "LIKE" /\ of[2].op = "||" ->
             IF of[2].of[1] = Percent THEN Tree("ends with", <<of[1], PatternOf(of[2].of[2].op)>>)
             ELSE Tree("contains", <<of[1], PatternOf(of[2].of[1].of[2].op)>>)
        [] OTHER -> Tree(tree.op, of)

Objects(e) == {e} \cup UNION {Objects(e.of[i]) : i \in DOMAIN e.of}
Trees(tree) == {tree} \cup UNION {Trees(tree.of[i]) : i \in DOMAIN tree.of}

------------------------------------------------------------------------------
\* What is known to be read otherwise than it is meant.
IsDistance(e) == e.kind = "fn" /\ e.k \in {"<->", "<#>", "<=>", "<+>", "<~>", "<%>"}
IsNotExists(e) == e.kind = "fn" /\ e.k = "NOT" /\ e.of # <<>> /\ e.of[1].k = "EXISTS"
Unparenthesised(e) ==
  \/ e.k \in {"+", "-", "*", "/"} /\ \E i \in DOMAIN e.of : IsDistance(e.of[i])
  \/ e.k \in {"<", ">", "<=", ">="} /\ IsNotExists(e.of[1])
Nothing(e) == e.kind = "filter" /\ e.k \in {"AND", "OR"} /\ e.of = <<>>
HasBackslash(s) == \E i \in 1 .. Len(s) : Char(s, i) = "\\"
Unescaped(e) == e.k \in {"ends with", "contains"} /\ (e.of[2].kind = "arg" \/ HasBackslash(e.of[2].k))

\* An array literal that is no JSON, or is led by an array column, is rendered with no query around it.
OneOfMany == {"coalesce", "nullif", "greatest", "least", "CASE"}
Chosen(e) == IF e.k = "CASE" THEN [i \in DOMAIN e.of |-> Last(e.of[i].of)] ELSE e.of
LedByArray(e) ==
  LET given == SelectSeq(Chosen(e), LAMBDA o : e.k # "CASE" \/ o.kind # "null")
  IN  e.k \in OneOfMany /\ given # <<>>
        /\ given[1].kind = "column" /\ given[1].pg = "array"
JsonAround(e) ==
  \/ e.json # ""
  \/ e.k \in OneOfMany \ {"CASE"} /\ e.of[1].json # ""
  \/ e.k = "CASE" /\ \E i \in DOMAIN e.of : Chosen(e)[i].json # ""
NeedsTheQuery(e) == e.kind = "array" /\ \E i \in DOMAIN e.of : e.of[i].kind \in {"column", "arg"}
OutOfContext(e) ==
  /\ e.kind = "fn" /\ e.of # <<>> /\ (~JsonAround(e) \/ LedByArray(e))
  /\ \E o \in Range(Chosen(e)) : NeedsTheQuery(o)

Misread(e) == \E o \in Objects(e) : Unparenthesised(o) \/ Nothing(o) \/ Unescaped(o) \/ OutOfContext(o)

------------------------------------------------------------------------------
\* What the text aggregates, subqueries apart; the window functions that are no aggregates.
Pure == {"row_number", "rank", "dense_rank", "percent_rank", "cume_dist", "ntile", "lag", "lead",
         "first_value", "last_value", "nth_value"}
Grouping == {"count", "sum", "avg", "min", "max", "json_agg", "jsonb_agg"}
Flagged(tree) ==
  LET ops == {t.op : t \in Trees(tree)}
  IN  (IF ops \cap (Pure \cup Grouping) # {} THEN {"aggregate"} ELSE {})
        \cup (IF ops \cap (Pure \cup {"OVER"}) # {} THEN {"window"} ELSE {})

------------------------------------------------------------------------------
\* Values that may each be the result are of one type, or numbers; otherwise PostgreSQL refuses them.
OneType(es) ==
  LET types == {o.pg : o \in Range(es)} \ {"unknown"}
  IN  types \subseteq Range(Numbers) \/ Cardinality(types) <= 1
Accepts(e) == e.kind # "error" /\ (e.k \in OneOfMany => OneType(Chosen(e)))

IsArrayColumn(e) == e.kind = "column" /\ e.pg = "array"
FirstTyped(es) == SelectSeq(es, LAMBDA o : o.kind \in {"column", "fn"})
Surprising(e) ==
  LET of == IF e.of # <<>> /\ e.of[1].k = "DISTINCT" THEN e.of[1].of ELSE e.of
  IN  \/ e.k = "sum" /\ (of[1].pg = "int4" \/ of[1].ts \cap {"bigint", "numeral", "decimal"} # {})
      \/ e.k = "avg" /\ of[1].pg # "float8" /\ "numeral" \notin of[1].ts
      \/ e.k \in {"min", "max", "lag", "lead", "first_value", "last_value", "nth_value"} /\ IsArrayColumn(of[1])
      \/ e.k = "CASE" /\ FirstTyped(Chosen(e)) # <<>> /\ IsArrayColumn(FirstTyped(Chosen(e))[1])
      \/ e.k \in OneOfMany /\ FirstTyped(Chosen(e)) # <<>>
           /\ LET back == FirstTyped(Chosen(e))[1].back
              IN  \/ back = FromDriverScalar("int4") /\ e.pg \in {"int8", "numeric"} /\ ~(e.pg = "int8" /\ "bigint" \in e.ts)
                  \/ back = FromDriverScalar("int8") /\ e.pg = "numeric"
==============================================================================
