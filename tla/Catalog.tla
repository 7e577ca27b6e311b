------------------------------- MODULE Catalog -------------------------------
(***************************************************************************)
(* PostgreSQL's catalog, as far as the statements of a migration depend on  *)
(* it: what exists under which name, what a statement needs, what it takes  *)
(* along.  A constraint is                                                  *)
(*   [kind: "unique" (of one column), "fkey" or "named",                    *)
(*    columns: the columns it is on, target: <<table, column>> or None].    *)
(***************************************************************************)
EXTENDS Snapshots

EmptyCatalog ==
  [schemas |-> {Public}, tables |-> Nothing, enums |-> Nothing,
   sequences |-> {}]

Constraint(kind, columns, target) ==
  [kind |-> kind, columns |-> columns, target |-> target]

ColumnTypes(columns) == [c \in DOMAIN columns |-> columns[c].type]

(* The constraints that the definitions of columns bring with them. *)
OwnConstraints(key, columns) ==
  LET keys  == {c \in DOMAIN columns : columns[c].unique}
      fkeys == {c \in DOMAIN columns : columns[c].references # None}
  IN FoldSet(LAMBDA c, f :
               With(f, AutoName(key, c, "key"), Constraint("unique", {c}, None)),
       FoldSet(LAMBDA c, f :
                 With(f, AutoName(key, c, "fkey"),
                      Constraint("fkey", {c}, columns[c].references)),
         Nothing, fkeys), keys)

(* PostgreSQL appends a number to a name that is taken. *)
Fresh(taken, name) == IF name \in taken THEN Append(name, "1") ELSE name

(* Adds constraints that PostgreSQL names itself. *)
AddOwn(constraints, own) ==
  FoldSet(LAMBDA n, f : With(f, Fresh(DOMAIN f, n), own[n]), constraints,
          DOMAIN own)

-----------------------------------------------------------------------------
(* What a statement needs.                                                  *)

KnownType(db, type) == type[1] = "pg_catalog" \/ type \in DOMAIN db.enums

KnownColumn(db, target) ==
  /\ target[1] \in DOMAIN db.tables
  /\ target[2] \in DOMAIN db.tables[target[1]].columns

(* Some other table's foreign key, or the one of another column, points to  *)
(* a column in C of table k.                                                *)
Referenced(db, k, C) ==
  \E u \in DOMAIN db.tables : \E n \in DOMAIN db.tables[u].constraints :
    LET con == db.tables[u].constraints[n] IN
    /\ con.target # None /\ con.target[1] = k /\ con.target[2] \in C
    /\ ~(u = k /\ con.columns \subseteq C)

Occupied(db, schema) ==
  \E k \in DOMAIN db.tables \cup DOMAIN db.enums \cup db.sequences :
    k[1] = schema

(* Can columns be defined in table k?  A table may refer to itself. *)
Definable(db, k, columns) ==
  \A c \in DOMAIN columns :
    /\ KnownType(db, columns[c].type)
    /\ LET target == columns[c].references IN
         \/ target = None
         \/ KnownColumn(db, target)
         \/ target[1] = k /\ target[2] \in DOMAIN columns

PossibleInTable(db, t, st) ==
  CASE st.op = "addColumn"    -> /\ st.column \notin DOMAIN t.columns
                                 /\ Definable(db, st.key, st.column :> st.def)
    [] st.op = "dropColumn"   -> /\ st.column \in DOMAIN t.columns
                                 /\ ~Referenced(db, st.key, {st.column})
    [] st.op = "renameColumn" -> /\ st.column \in DOMAIN t.columns
                                 /\ st.to \notin DOMAIN t.columns
    [] st.op = "alterColumnType" -> /\ st.column \in DOMAIN t.columns
                                    /\ KnownType(db, st.type)
    [] st.op = "addUnique"      -> st.column \in DOMAIN t.columns
    [] st.op = "addForeignKey"  -> /\ st.name \notin DOMAIN t.constraints
                                   /\ st.column \in DOMAIN t.columns
                                   /\ KnownColumn(db, st.to)
    [] st.op = "addConstraint"  -> /\ st.name \notin DOMAIN t.constraints
                                   /\ st.columns \subseteq DOMAIN t.columns
    [] st.op \in {"dropConstraint", "dropForeignKey"} ->
         st.name \in DOMAIN t.constraints
    [] st.op = "createIndex" ->
         /\ st.columns \subseteq DOMAIN t.columns
         /\ \A k \in DOMAIN db.tables :
              k[1] = st.key[1] => st.name \notin DOMAIN db.tables[k].indexes

(* An index is dropped by its bare name, which PostgreSQL looks up in the   *)
(* schemas of the search path.                                              *)
Possible(db, st) ==
  CASE st.op = "createSchema" -> st.schema \notin db.schemas
    [] st.op = "dropSchema"   -> /\ st.schema \in db.schemas
                                 /\ ~Occupied(db, st.schema)
    [] st.op = "createTable"  -> /\ st.key[1] \in db.schemas
                                 /\ st.key \notin DOMAIN db.tables
                                 /\ Definable(db, st.key, st.def.columns)
    [] st.op = "dropTable"    -> LET C == DOMAIN db.tables[st.key].columns IN
                                 /\ st.key \in DOMAIN db.tables
                                 /\ ~Referenced(db, st.key, C)
    [] st.op = "renameTable"  -> /\ st.key \in DOMAIN db.tables
                                 /\ st.to \notin DOMAIN db.tables
    [] st.op = "createType"   -> /\ st.key[1] \in db.schemas
                                 /\ st.key \notin DOMAIN db.enums
    [] st.op = "dropType" ->
         /\ st.key \in DOMAIN db.enums
         /\ \A k \in DOMAIN db.tables :
              st.key \notin Range(db.tables[k].columns)
    [] st.op = "addValue" ->
         /\ st.key \in DOMAIN db.enums
         /\ \/ Contains(db.enums[st.key], st.value)
            \/ {st.after, st.before} \subseteq ToSet(db.enums[st.key]) \cup {None}
    [] st.op = "createSequence" -> /\ st.key[1] \in db.schemas
                                   /\ st.key \notin db.sequences
    [] st.op = "dropSequence"   -> st.key \in db.sequences
    [] st.op = "dropIndex" ->
         \E k \in DOMAIN db.tables :
           k[1] = Public /\ st.name \in DOMAIN db.tables[k].indexes
    [] OTHER -> /\ st.key \in DOMAIN db.tables
                /\ PossibleInTable(db, db.tables[st.key], st)

-----------------------------------------------------------------------------
(* What a statement does.                                                   *)

(* Columns of table k are renamed in all that mentions them. *)
Substitute(S, x, y) == {IF e = x THEN y ELSE e : e \in S}

FollowColumn(db, k, c, to) ==
  [db EXCEPT !.tables = [u \in DOMAIN @ |->
    LET t == @[u] IN
    [t EXCEPT
       !.columns = IF u = k THEN Moved(@, c, to) ELSE @,
       !.indexes = IF u = k THEN [n \in DOMAIN @ |-> Substitute(@[n], c, to)]
                            ELSE @,
       !.constraints = [n \in DOMAIN @ |->
         [@[n] EXCEPT
            !.columns = IF u = k THEN Substitute(@, c, to) ELSE @,
            !.target  = IF @ = <<k, c>> THEN <<k, to>> ELSE @]]]]]

FollowTable(db, k, to) ==
  LET renamed == Moved(db.tables, k, to) IN
  [db EXCEPT !.tables = [u \in DOMAIN renamed |->
    [renamed[u] EXCEPT !.constraints = [n \in DOMAIN @ |->
       [@[n] EXCEPT !.target =
          IF @ # None /\ @[1] = k THEN <<to, @[2]>> ELSE @]]]]]

EffectInTable(t, st) ==
  CASE st.op = "addColumn" ->
         LET columns == st.column :> st.def IN
         [t EXCEPT !.columns = @ @@ ColumnTypes(columns),
                   !.constraints = AddOwn(@, OwnConstraints(st.key, columns))]
    [] st.op = "dropColumn" ->
         [t EXCEPT
            !.columns = Without(@, st.column),
            !.indexes = RestrictValues(@, LAMBDA C : st.column \notin C),
            !.constraints =
              RestrictValues(@, LAMBDA con : st.column \notin con.columns)]
    [] st.op = "alterColumnType" -> [t EXCEPT !.columns[st.column] = st.type]
    [] st.op = "addUnique" ->
         [t EXCEPT !.constraints =
            AddOwn(@, AutoName(st.key, st.column, "key") :>
                        Constraint("unique", {st.column}, None))]
    [] st.op = "addForeignKey" ->
         [t EXCEPT !.constraints =
            With(@, st.name, Constraint("fkey", {st.column}, st.to))]
    [] st.op = "addConstraint" ->
         [t EXCEPT !.constraints =
            With(@, st.name, Constraint("named", st.columns, None))]
    [] st.op \in {"dropConstraint", "dropForeignKey"} ->
         [t EXCEPT !.constraints = Without(@, st.name)]
    [] st.op = "createIndex" ->
         [t EXCEPT !.indexes = With(@, st.name, st.columns)]

Effect(db, st) ==
  CASE st.op = "createSchema" -> [db EXCEPT !.schemas = @ \cup {st.schema}]
    [] st.op = "dropSchema"   -> [db EXCEPT !.schemas = @ \ {st.schema}]
    [] st.op = "createTable"  ->
         [db EXCEPT !.tables = With(@, st.key,
            [columns |-> ColumnTypes(st.def.columns),
             constraints |->
               AddOwn([n \in DOMAIN st.def.constraints |->
                         Constraint("named", st.def.constraints[n], None)],
                      OwnConstraints(st.key, st.def.columns)),
             indexes |-> Nothing])]
    [] st.op = "dropTable"    -> [db EXCEPT !.tables = Without(@, st.key)]
    [] st.op = "renameTable"  -> FollowTable(db, st.key, st.to)
    [] st.op = "renameColumn" -> FollowColumn(db, st.key, st.column, st.to)
    [] st.op = "createType"   -> [db EXCEPT !.enums = With(@, st.key, st.values)]
    [] st.op = "dropType"     -> [db EXCEPT !.enums = Without(@, st.key)]
    [] st.op = "addValue"     ->
         IF Contains(db.enums[st.key], st.value) THEN db
         ELSE [db EXCEPT !.enums[st.key] = Placed(@, st)]
    [] st.op = "createSequence" -> [db EXCEPT !.sequences = @ \cup {st.key}]
    [] st.op = "dropSequence"   -> [db EXCEPT !.sequences = @ \ {st.key}]
    [] st.op = "dropIndex" ->
         LET k == CHOOSE u \in DOMAIN db.tables :
                    u[1] = Public /\ st.name \in DOMAIN db.tables[u].indexes
         IN [db EXCEPT !.tables[k].indexes = Without(@, st.name)]
    [] OTHER ->
         [db EXCEPT !.tables[st.key] = EffectInTable(@, st)]

(* A script in a transaction. *)
Execute(db, script) ==
  FoldLeft(LAMBDA r, st :
             IF r.ok /\ Possible(r.db, st)
             THEN [ok |-> TRUE, db |-> Effect(r.db, st)]
             ELSE [ok |-> FALSE, db |-> db],
           [ok |-> TRUE, db |-> db], script)

-----------------------------------------------------------------------------
(* The catalog has what the snapshot says, whatever the constraints of      *)
(* columns are called; an enum may have more values.                        *)

Own(t, kind) ==
  {<<t.constraints[n].columns, t.constraints[n].target>> :
     n \in {m \in DOMAIN t.constraints : t.constraints[m].kind = kind}}

SameTable(t, s) ==
  /\ t.columns = ColumnTypes(s.columns)
  /\ t.indexes = s.indexes
  /\ Own(t, "unique") =
       {<<{c}, None>> : c \in {d \in DOMAIN s.columns : s.columns[d].unique}}
  /\ Own(t, "fkey") =
       {<<{c}, s.columns[c].references>> :
          c \in {d \in DOMAIN s.columns : s.columns[d].references # None}}
  /\ {n \in DOMAIN t.constraints : t.constraints[n].kind = "named"} =
       DOMAIN s.constraints
  /\ \A n \in DOMAIN s.constraints :
       t.constraints[n].columns = s.constraints[n]

Describes(s, db) ==
  /\ DOMAIN db.tables = DOMAIN s.tables
  /\ \A k \in DOMAIN s.tables : SameTable(db.tables[k], s.tables[k])
  /\ db.sequences = s.sequences
  /\ db.schemas = {Public} \cup SchemasOf(s)
  /\ DOMAIN db.enums = DOMAIN s.enums
  /\ \A e \in DOMAIN s.enums :
       SelectSeq(db.enums[e], LAMBDA v : Contains(s.enums[e], v)) = s.enums[e]
=============================================================================
