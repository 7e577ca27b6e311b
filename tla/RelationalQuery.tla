--------------------------- MODULE RelationalQuery ---------------------------
(***************************************************************************)
(* db.query(table).findMany(options) (query-builders/rq.ts): the tree of   *)
(* relations in `with` becomes one SELECT with nested LEFT JOIN LATERALs,  *)
(* whose rows are converted back into a tree of objects.  The SQL is kept  *)
(* as a term, and AsPostgreSQL gives it PostgreSQL's meaning: a column is  *)
(* read from the nearest table of that alias.  Objects is what the docs    *)
(* promise, said without SQL.                                              *)
(***************************************************************************)
EXTENDS Naturals, Sequences, SequencesExt, FiniteSetsExt, TLC

CONSTANTS
  Columns,      \* table -> the set of its columns; "id" is one of each
  RelationsOf   \* table -> [relation key -> [t, table, col, ref]]

(***************************************************************************)
(* Options: columns, a sequence of <<column, flag>>; select, a sequence of *)
(* <<alias, column>>; with, [relation key -> options]; where, a sequence   *)
(* of filters, all to hold; orderBy, at most one <<column, direction>>;    *)
(* limit, at most one number; offset.                                      *)
(***************************************************************************)
AllColumns == [columns |-> <<>>, select |-> <<>>, with |-> <<>>, where |-> <<>>,
               orderBy |-> <<>>, limit |-> <<>>, offset |-> 0]

\* The first flag decides how all the listed columns are read.
GetSelectedColumns(o, table) ==
  LET listed == {o.columns[i][1] : i \in DOMAIN o.columns}
  IN  IF o.columns = <<>> THEN Columns[table]
      ELSE IF o.columns[1][2] THEN Columns[table] \cap listed
                              ELSE Columns[table] \ listed

\* [output key -> column] of one level; `select` replaces `columns`.
Projection(o, table) ==
  IF o.select # <<>> THEN [a \in {s[1] : s \in Range(o.select)} |->
                             (CHOOSE s \in Range(o.select) : s[1] = a)[2]]
  ELSE [c \in GetSelectedColumns(o, table) |-> c]

\* `select` with `columns`, or an alias that is a relation's key.
Rejected(o) ==
  /\ o.select # <<>>
  /\ o.columns # <<>> \/ \E s \in Range(o.select) : s[1] \in DOMAIN o.with

------------------------------------------------------------------------------
\* Rendering.  An alias is the path of relation keys; a table's own name is <<name>>.

\* Column.toQuery: a table in the context has its alias, any other its name.
QualifierByName(context, table) == <<table>>
Qualifier(context, table) == IF table \in DOMAIN context THEN context[table] ELSE <<table>>

Comparison(f, context) ==
  [k |-> "is", col |-> f.col, of |-> Qualifier(context, f.table), value |-> f.value]

\* A subquery is rendered without the context its EXISTS was given.
Subquery(f, context) ==
  [k |-> "exists", from |-> f.from, col |-> f.col,
   outer |-> f.outer, of |-> Qualifier(<<>>, f.table)]

RenderFilter(f, context) ==
  IF f.k = "is" THEN Comparison(f, context) ELSE Subquery(f, context)

JoinOn(rel, parent) ==
  IF rel.t = "Fk" THEN [col |-> rel.ref, of |-> parent, other |-> rel.col]
                  ELSE [col |-> rel.col, of |-> parent, other |-> rel.ref]

RECURSIVE BuildRelationSubquery(_, _, _, _)
BuildRelationSubquery(alias, parent, o, rel) ==
  LET many == rel.t = "Many"
  IN  [alias |-> alias, table |-> rel.table, many |-> many,
       items |-> Projection(o, rel.table),
       joins |-> [k \in DOMAIN o.with |->
                    BuildRelationSubquery(Append(alias, k), alias, o.with[k],
                                          RelationsOf[rel.table][k])],
       on |-> <<JoinOn(rel, parent)>>,
       where |-> IF many THEN [i \in DOMAIN o.where |->
                                RenderFilter(o.where[i], rel.table :> alias)]
                         ELSE <<>>,
       orderBy |-> IF many THEN o.orderBy ELSE <<>>,
       limit |-> IF many THEN o.limit ELSE <<1>>,
       offset |-> IF many THEN o.offset ELSE 0]

RelationToQuery(table, o) ==
  [alias |-> <<table>>, table |-> table, many |-> TRUE, on |-> <<>>,
   items |-> Projection(o, table),
   joins |-> [k \in DOMAIN o.with |->
                BuildRelationSubquery(<<k>>, <<table>>, o.with[k], RelationsOf[table][k])],
   where |-> [i \in DOMAIN o.where |-> RenderFilter(o.where[i], <<>>)],
   orderBy |-> o.orderBy, limit |-> o.limit, offset |-> o.offset]

------------------------------------------------------------------------------
\* PostgreSQL.  db is [table -> its rows], a row [column -> number].

Null == 0
Equal(x, y) == x = y /\ x # Null

\* Every alias a condition names is visible where it stands, and none is taken twice.
RECURSIVE Resolves(_, _)
Resolves(scope, l) ==
  LET inner == scope \cup {l.alias}
  IN  /\ \A f \in Range(l.where) :
           f.of \in inner \cup (IF f.k = "exists" THEN {<<f.from>>} ELSE {})
      /\ \A k \in DOMAIN l.joins : l.joins[k].alias # l.alias /\ Resolves(inner, l.joins[k])

Holds(db, tables, f) ==
  IF f.k = "is" THEN Equal(tables[f.of][f.col], f.value)
  ELSE \E s \in db[f.from] :
         Equal(s[f.col], ((<<f.from>> :> s) @@ tables)[f.of][f.outer])

Before(orderBy, r, s) ==
  IF orderBy = <<>> \/ r[orderBy[1][1]] = s[orderBy[1][1]] THEN r.id < s.id
  ELSE IF orderBy[1][2] = "asc" THEN r[orderBy[1][1]] < s[orderBy[1][1]]
                                ELSE r[orderBy[1][1]] > s[orderBy[1][1]]

\* Rows in order, cut; those that no ORDER BY tells apart by their id.
Cut(rows, orderBy, limit, offset) ==
  LET sorted == SetToSortSeq(rows, LAMBDA r, s : Before(orderBy, r, s))
  IN  SubSeq(sorted, offset + 1,
             IF limit = <<>> THEN Len(sorted) ELSE Min({offset + limit[1], Len(sorted)}))

Field(column, value) == [as |-> column, value |-> value, rows |-> <<>>]
Related(many, rows) == [as |-> IF many THEN "list" ELSE "object", value |-> 0, rows |-> rows]

\* tables: the row each visible alias stands for, the innermost first.
RECURSIVE AsPostgreSQL(_, _, _)
AsPostgreSQL(db, outer, l) ==
  LET At(r) == (l.alias :> r) @@ outer
      Kept == {r \in db[l.table] :
                 /\ \A j \in Range(l.on) : Equal(r[j.col], At(r)[j.of][j.other])
                 /\ \A f \in Range(l.where) : Holds(db, At(r), f)}
      Json(r) == [k \in DOMAIN l.joins |->
                    Related(l.joins[k].many, AsPostgreSQL(db, At(r), l.joins[k]))]
                 @@ [a \in DOMAIN l.items |-> Field("", r[l.items[a]])]
      rows == Cut(Kept, l.orderBy, l.limit, l.offset)
  IN  [i \in DOMAIN rows |-> Json(rows[i])]

------------------------------------------------------------------------------
\* Rows to objects: what a key is, is asked of the aliases, the columns, the relations.
RECURSIVE Convert(_, _, _)
Convert(object, table, o) ==
  [key \in DOMAIN object |->
     IF o.select # <<>> /\ key \in {s[1] : s \in Range(o.select)}
       THEN [object[key] EXCEPT !.as = Projection(o, table)[key]]
     ELSE IF key \in Columns[table] THEN [object[key] EXCEPT !.as = key]
     ELSE [object[key] EXCEPT !.rows =
             [i \in DOMAIN @ |-> Convert(@[i], RelationsOf[table][key].table, o.with[key])]]]

FindMany(db, table, o) ==
  LET rows == AsPostgreSQL(db, <<>>, RelationToQuery(table, o))
  IN  [i \in DOMAIN rows |-> Convert(rows[i], table, o)]

Fails(table, o) == ~Resolves({}, RelationToQuery(table, o))

FindFirst(db, table, o) == FindMany(db, table, [o EXCEPT !.limit = <<1>>])

------------------------------------------------------------------------------
\* The promise: the objects asked for, each with those related to it.

Wanted(o, table) ==
  LET on == {c \in Columns[table] : \E i \in DOMAIN o.columns : o.columns[i] = <<c, TRUE>>}
      off == {c \in Columns[table] : \E i \in DOMAIN o.columns : o.columns[i] = <<c, FALSE>>}
  IN  IF on # {} THEN on ELSE Columns[table] \ off

Satisfies(db, r, f) ==
  IF f.k = "is" THEN Equal(r[f.col], f.value)
                ELSE \E s \in db[f.from] : Equal(s[f.col], r[f.outer])

RECURSIVE Objects(_, _, _, _)
Objects(db, table, o, among) ==
  LET rows == Cut({r \in among : \A f \in Range(o.where) : Satisfies(db, r, f)},
                  o.orderBy, o.limit, o.offset)
      Linked(rel, r) == {c \in db[rel.table] : IF rel.t = "Fk" THEN Equal(c[rel.ref], r[rel.col])
                                                             ELSE Equal(c[rel.col], r[rel.ref])}
      Relation(k, r) ==
        LET rel == RelationsOf[table][k]
            all == Objects(db, rel.table, o.with[k], Linked(rel, r))
        IN  Related(rel.t = "Many", IF rel.t = "Many" THEN all ELSE SubSeq(all, 1, Min({1, Len(all)})))
      Own(r) == IF o.select # <<>>
                THEN [a \in {s[1] : s \in Range(o.select)} |->
                        LET s == CHOOSE s \in Range(o.select) : s[1] = a IN Field(s[2], r[s[2]])]
                ELSE [c \in Wanted(o, table) |-> Field(c, r[c])]
  IN  [i \in DOMAIN rows |-> [k \in DOMAIN o.with |-> Relation(k, rows[i])] @@ Own(rows[i])]

Promised(db, table, o) == Objects(db, table, o, db[table])

\* A relation is not called as a column of its table, or as the table asked for.
RECURSIVE OwnNames(_, _)
OwnNames(table, o) ==
  \A k \in DOMAIN o.with : k \notin Columns[table] /\ OwnNames(RelationsOf[table][k].table, o.with[k])
Named(table, o) == table \notin DOMAIN o.with /\ OwnNames(table, o)

\* No relation is filtered by a subquery.
RECURSIVE NoSubquery(_)
NoSubquery(o) == \A k \in DOMAIN o.with :
  /\ \A f \in Range(o.with[k].where) : f.k = "is"
  /\ NoSubquery(o.with[k])
==============================================================================
