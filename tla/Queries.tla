------------------------------- MODULE Queries -------------------------------
(***************************************************************************)
(* Three ways to ask: prepare() and run(), a select that groups by itself  *)
(* (query-builders/select.ts), and findMany (rq.ts); and how the builders  *)
(* (select.ts, insert.ts, update.ts, delete.ts, the functions) hand their  *)
(* Query down through clauses, expressions and subqueries.  The text is    *)
(* kept as a tree of nodes.                                                *)
(***************************************************************************)
EXTENDS PreparedStatements, RelationalQuery, FiniteSetsExt, TLC

CONSTANTS
  TableColumns,  \* the columns of the tables of the outermost statement
  Selections,    \* projections asked for without prepare()
  Findable,      \* <<table, options>> asked of findMany
  Databases      \* contents of the tables

VARIABLE answer  \* what the last call without prepare() came to

vars == <<statementVars, answer>>

(***************************************************************************)
(* An expression is a leaf, a subquery [k: "sub", query], or a form of     *)
(* others [k, of]: "fn" a scalar function, "object" a json_build_object,   *)
(* "case" the condition, the result and the ELSE of a CASE, "filter" a     *)
(* comparison, "in" a column and values, "agg" and "win" an aggregate and  *)
(* a windowed function, "sql" a template.                                  *)
(***************************************************************************)
Leaves == {"col", "arg", "literal", "none"}

Node(t, n, sub) == [t |-> t, n |-> n, sub |-> sub]

------------------------------------------------------------------------------
\* Automatic GROUP BY.

RECURSIVE HasAggregate(_)
HasAggregate(e) ==
  CASE e.k \in {"agg", "win"} -> TRUE
    [] e.k \in Leaves \cup {"sub", "in", "sql"} -> FALSE
    [] OTHER -> \E i \in DOMAIN e.of : HasAggregate(e.of[i])

RECURSIVE HasWindow(_)
HasWindow(e) ==
  CASE e.k = "win" -> TRUE
    [] e.k \in Leaves \cup {"sub", "in", "sql"} -> FALSE
    [] OTHER -> \E i \in DOMAIN e.of : HasWindow(e.of[i])

IsSqlFn(e) == e.k \in {"fn", "object", "case", "agg", "win", "in", "sub"}

\* Whether an operand of a comparison can say which columns it reads.
RECURSIVE Publishes(_)
Publishes(e) ==
  CASE e.k \in {"col", "literal", "arg"} -> TRUE
    [] e.k = "filter" -> \A i \in DOMAIN e.of : Publishes(e.of[i])
    [] OTHER -> e.k \in {"object", "case", "in"}

\* referencedColumns: the columns found among the operands that publish theirs.
RECURSIVE ReferencedColumns(_)
ReferencedColumns(e) ==
  LET Found == FlattenSeq([i \in DOMAIN e.of |-> ReferencedColumns(e.of[i])])
  IN  CASE e.k = "col" -> <<e>>
        [] e.k = "in" -> <<e.of[1]>>
        [] e.k \in {"object", "filter"} -> Found
        [] e.k = "case" -> IF Publishes(e.of[1]) THEN Found ELSE <<>>
        [] OTHER -> <<>>

GroupingKeys(item) ==
  CASE item.k = "col" -> <<item>>
    [] IsSqlFn(item) /\ ~HasAggregate(item) /\ ~HasWindow(item) ->
         IF ReferencedColumns(item) # <<>> THEN ReferencedColumns(item)
         ELSE IF item.k \in {"sub", "in"} THEN <<>> ELSE <<item>>
    [] OTHER -> <<>>

GroupBy(s) ==
  IF s.groupBy # <<>> THEN s.groupBy
  ELSE IF \E i \in DOMAIN s.items :
            /\ IsSqlFn(s.items[i])
            /\ HasAggregate(s.items[i]) /\ ~HasWindow(s.items[i])
  THEN FoldLeft(LAMBDA keys, e : IF e.k = "col" /\ e \in Range(keys) THEN keys ELSE Append(keys, e),
                <<>>, FlattenSeq([i \in DOMAIN s.items |-> GroupingKeys(s.items[i])]))
  ELSE <<>>

------------------------------------------------------------------------------
\* Statements: clauses in the order their text is built.

Clause(name, es) == [k |-> name, of |-> es]
Statements == {"select", "insert", "update", "delete"}

SelectClauses(s) ==
  <<Clause("WITH", s.ctes), Clause("SELECT", s.items), Clause("FROM", s.joins),
    Clause("WHERE", s.where), Clause("GROUP BY", GroupBy(s)), Clause("HAVING", s.having),
    Clause("ORDER BY", s.order), Clause("LIMIT", s.limit), Clause("OFFSET", s.offset)>>

InsertClauses(s) ==
  <<Clause("VALUES", FlattenSeq(s.rows)), Clause("DO UPDATE SET", s.set),
    Clause("WHERE", s.where), Clause("RETURNING", s.returning)>>

\* The columns with an updateFn that were not set follow those that were.
UpdateClauses(s) ==
  <<Clause("SET", s.set \o s.updateFns), Clause("WHERE", s.where), Clause("RETURNING", s.returning)>>

DeleteClauses(s) == <<Clause("WHERE", s.where), Clause("RETURNING", s.returning)>>

\* Only a SELECT keeps its own WITH below another statement; empty clauses are left out.
Clauses(s, root) ==
  LET with == IF root THEN <<Clause("WITH", s.ctes)>> ELSE <<>>
      all == CASE s.k = "select" -> SelectClauses(s)
               [] s.k = "insert" -> with \o InsertClauses(s)
               [] s.k = "update" -> with \o UpdateClauses(s)
               [] s.k = "delete" -> with \o DeleteClauses(s)
  IN  SelectSeq(all, LAMBDA c : c.of # <<>>)

Parts(e) == CASE e.k \in Statements -> Clauses(e, FALSE)
              [] e.k = "sub" -> <<e.query>>
              [] OTHER -> e.of

RECURSIVE LeavesOf(_)
LeavesOf(e) ==
  IF e.k \in Leaves THEN <<e>>
  ELSE FoldLeft(LAMBDA leaves, part : leaves \o LeavesOf(part), <<>>, Parts(e))

WithLeaves(s) == [leaves |-> LeavesOf([k |-> "clauses", of |-> Clauses(s, TRUE)])] @@ s

\* The words of a statement, hung on its clauses and expressions.
RECURSIVE Hang(_, _)
Hang(r, e) ==
  IF e.k \in Leaves
  THEN [words |-> Tail(r.words),
        out |-> Append(r.out, Node(Head(r.words).t, Head(r.words).n, <<>>))]
  ELSE LET in == FoldLeft(Hang, [words |-> r.words, out |-> <<>>], Parts(e))
       IN  [words |-> in.words, out |-> Append(r.out, Node(e.k, 0, in.out))]

Text(s, query) ==
  Node(s.k, 0, FoldLeft(Hang, [words |-> query.text, out |-> <<>>], Clauses(s, TRUE)).out)

------------------------------------------------------------------------------
\* What PostgreSQL makes of a SELECT that groups.

ClauseOf(text, name) ==
  LET found == SelectSeq(text.sub, LAMBDA c : c.t = name)
  IN  FlattenSeq([i \in DOMAIN found |-> found[i].sub])

RECURSIVE ColumnsIn(_)
ColumnsIn(node) == ({node.t} \cap TableColumns)
                   \cup UNION {ColumnsIn(node.sub[i]) : i \in DOMAIN node.sub}

RECURSIVE Aggregates(_)
Aggregates(node) == \/ node.t = "agg"
                    \/ node.t \notin {"sub", "win"} /\ \E i \in DOMAIN node.sub : Aggregates(node.sub[i])

\* An expression of the keys, of aggregates, or one made of such expressions.
RECURSIVE IsGrouped(_, _)
IsGrouped(node, keys) ==
  \/ node \in keys
  \/ node.t \in {"agg", "$", "literal"}
  \/ node.t = "sub" /\ \A c \in ColumnsIn(node) : Node(c, 0, <<>>) \in keys
  \/ /\ node.t # "sub" /\ node.sub # <<>>
     /\ \A i \in DOMAIN node.sub : IsGrouped(node.sub[i], keys)

Accepted(text) ==
  LET items == ClauseOf(text, "SELECT")
      keys == Range(ClauseOf(text, "GROUP BY"))
  IN  \/ keys = {} /\ \A i \in DOMAIN items : ~Aggregates(items[i])
      \/ \A i \in DOMAIN items : IsGrouped(items[i], keys)

(***************************************************************************)
(* The selections for which the keys are found: no column beside an        *)
(* aggregate in one expression, no template and no subquery that reads the *)
(* columns of the outer tables, and in a JSON object or a CASE no function *)
(* that does not say which columns it reads; no window among aggregates.   *)
(***************************************************************************)
RECURSIVE Reads(_)
Reads(e) == CASE e.k = "col" -> {e.name} \cap TableColumns
              [] e.k \in Leaves \cup {"agg"} -> {}
              [] OTHER -> UNION {Reads(Parts(e)[i]) : i \in DOMAIN Parts(e)}

RECURSIVE OfColumns(_)
OfColumns(e) ==
  \/ Reads(e) = {} \/ e.k = "col"
  \/ e.k = "in" /\ \A i \in 2 .. Len(e.of) : Reads(e.of[i]) = {}
  \/ e.k \in {"object", "case", "filter"} /\ \A i \in DOMAIN e.of : OfColumns(e.of[i])

Groupable(items) ==
  LET given == Range(items)
  IN  /\ \A e \in given :
           /\ (HasAggregate(e) /\ ~HasWindow(e)) => Reads(e) = {}
           /\ e.k \in {"sql", "sub"} => Reads(e) = {}
           /\ e.k \in {"object", "case", "in"} => OfColumns(e)
      /\ \A e, w \in given : (HasWindow(w) /\ HasAggregate(e)) => HasWindow(e)
------------------------------------------------------------------------------
\* Bound: a query that is not prepared leaves nothing behind, so it is all its behaviour does.
First == prepared = <<>> /\ answer = Nothing

Init == PreparedInit /\ answer = Nothing

Select(s) ==
  /\ answer' = [kind |-> "selected", statement |-> s,
                text |-> Text(s, ToQuery(s, <<>>, key, FALSE))]
  /\ UNCHANGED statementVars

\* An impossible choice of columns throws; an alias that is not there fails.
Found(table, o, db, rows) ==
  IF Rejected(o) \/ Fails(table, o)
  THEN [kind |-> "error", table |-> table, options |-> o]
  ELSE [kind |-> "found", table |-> table, options |-> o, db |-> db, rows |-> rows]

Find(table, o, db) ==
  /\ answer' = Found(table, o, db, FindMany(db, table, o))
  /\ UNCHANGED statementVars

\* findFirst takes no limit and no offset of its own.
FindOne(table, o, db) ==
  /\ o.limit = <<>> /\ o.offset = 0
  /\ answer' = Found(table, [o EXCEPT !.limit = <<1>>], db, FindFirst(db, table, o))
  /\ UNCHANGED statementVars

Next ==
  \/ answer = Nothing /\ PreparedNext /\ UNCHANGED answer
  \/ First /\ \E s \in {WithLeaves(selection) : selection \in Selections} : Select(s)
  \/ First /\ \E f \in Findable, db \in Databases : Find(f[1], f[2], db)
  \/ First /\ \E f \in Findable, db \in Databases : FindOne(f[1], f[2], db)

Spec == Init /\ [][Next]_vars

------------------------------------------------------------------------------
(***************************************************************************)
(* "Durcno groups by the non-aggregate items on its own" (docs/CRUD/       *)
(* select.md): a select whose expressions it can see through is one that   *)
(* PostgreSQL accepts, also where a placeholder stands in a key.           *)
(***************************************************************************)
GroupedLegally ==
  LET Legal(s, text) == (s.k = "select" /\ s.groupBy = <<>> /\ Groupable(s.items))
                          => Accepted(text)
  IN  /\ answer.kind = "selected" => Legal(answer.statement, answer.text)
      /\ \A p \in DOMAIN prepared :
           Legal(prepared[p].statement, Text(prepared[p].statement, prepared[p].query))

(***************************************************************************)
(* findMany and findFirst return the objects the options describe, with    *)
(* exactly those related to each, in order, cut and converted as their     *)
(* columns are, unless a relation bears the name of a column or of the     *)
(* root table, or is filtered by a subquery.                               *)
(***************************************************************************)
TreeReturned ==
  /\ answer.kind = "error" => \/ Rejected(answer.options)
                              \/ ~Named(answer.table, answer.options)
                              \/ ~NoSubquery(answer.options)
  /\ (answer.kind = "found" /\ Named(answer.table, answer.options) /\ NoSubquery(answer.options))
       => answer.rows = Promised(answer.db, answer.table, answer.options)
==============================================================================
