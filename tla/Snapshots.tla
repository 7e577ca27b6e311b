------------------------------ MODULE Snapshots ------------------------------
(***************************************************************************)
(* The snapshot of a schema, what each DDL statement does to it, and the    *)
(* statements `durcno generate' writes to lead from one snapshot to         *)
(* another.                                                                 *)
(*                                                                          *)
(* Tables, types and sequences are keys <<schema, name>>.  The type of a    *)
(* column stands for its type, NOT NULL and DEFAULT, which are altered one  *)
(* by one and depend on nothing; a column that is the primary key,          *)
(* generated or computed stays what it is, and so do the options of a       *)
(* sequence: generate does not look at them.  CHECK, UNIQUE and PRIMARY KEY *)
(* constraints of a table are names with the columns they mention.  One     *)
(* call of an ALTER TABLE builder is one statement here.                    *)
(***************************************************************************)
EXTENDS Naturals, Sequences, FiniteSets, SequencesExt

CONSTANTS
  TableOrder,  \* the keys of all tables, sorted
  Public,      \* the schema "public"
  KeyColumns,  \* columns with "_key" inside of their names
  Namesakes,   \* <<table, name, column>>: a name other than the column's own
               \* constraint's of which dropConstraint makes the column's name
  None

(* The name of a column's own constraint does not lead to another column;   *)
(* the one of api_key_id leads to api_id_key, and no table has both.        *)
ASSUME NamesakesAssumption ==
  \A t \in Namesakes : t[2] # <<t[1], t[2][2], "key">>

Nothing == [x \in {} |-> x]
Empty   == [tables |-> Nothing, enums |-> Nothing, sequences |-> {}]

(* The names PostgreSQL gives to a column's own constraints, and durcno's   *)
(* names for them: <table>_<column>_key and <table>_<column>_fkey.          *)
AutoName(key, c, suffix) == <<key[2], c, suffix>>

With(f, x, v)   == [y \in DOMAIN f \cup {x} |-> IF y = x THEN v ELSE f[y]]
Without(f, x)   == Restrict(f, DOMAIN f \ {x})
Moved(f, x, to) == IF x \in DOMAIN f THEN With(Without(f, x), to, f[x]) ELSE f

-----------------------------------------------------------------------------
(* applyToSnapshot.                                                         *)

(* Mutant: BEFORE is forgotten. *)
PlacedAfter(values, st) ==
  IF st.after # None /\ Contains(values, st.after)
    THEN InsertAt(values, (CHOOSE i \in DOMAIN values : values[i] = st.after) + 1,
                  st.value)
  ELSE Append(values, st.value)

(* Where addValue puts a value: after or before its anchor, else last. *)
Placed(values, st) ==
  LET at(v) == CHOOSE i \in DOMAIN values : values[i] = v IN
  IF st.after # None /\ Contains(values, st.after)
    THEN InsertAt(values, at(st.after) + 1, st.value)
  ELSE IF st.after = None /\ st.before # None /\ Contains(values, st.before)
    THEN InsertAt(values, at(st.before), st.value)
  ELSE Append(values, st.value)

(* dropConstraint takes a constraint for a column's own one if its name     *)
(* ends in "_key" and is the column's once the first "<table>_" and the     *)
(* first "_key" are cut out; a column that has "_key" inside is not found.  *)
OwnConstraint(key, c, name) ==
  \/ name = AutoName(key, c, "key") /\ c \notin KeyColumns
  \/ <<key[2], name, c>> \in Namesakes

(* A statement of an ALTER TABLE, or a CREATE INDEX. *)
ApplyToTable(t, st) ==
  LET alter(field, v) ==
        [t EXCEPT !.columns = [c \in DOMAIN @ |->
           IF c = st.column THEN [@[c] EXCEPT ![field] = v] ELSE @[c]]]
  IN CASE st.op = "addColumn" ->
            [t EXCEPT !.columns = With(@, st.column, st.def)]
       [] st.op = "dropColumn" ->
            [t EXCEPT !.columns = Without(@, st.column)]
       [] st.op = "renameColumn" ->
            [t EXCEPT !.columns = Moved(@, st.column, st.to)]
       [] st.op = "alterColumnType" -> alter("type", st.type)
       [] st.op = "addUnique"       -> alter("unique", TRUE)
       [] st.op = "addForeignKey"   -> alter("references", st.to)
       [] st.op = "dropForeignKey"  -> alter("references", None)
       [] st.op = "addConstraint" ->
            [t EXCEPT !.constraints = With(@, st.name, st.columns)]
       [] st.op = "dropConstraint" ->
            [t EXCEPT
               !.constraints = Without(@, st.name),
               !.columns = [c \in DOMAIN @ |->
                 IF OwnConstraint(st.key, c, st.name)
                 THEN [@[c] EXCEPT !.unique = FALSE] ELSE @[c]]]
       [] st.op = "createIndex" ->
            [t EXCEPT !.indexes = With(@, st.name, st.columns)]

(* An index is dropped by its name alone: of the tables that have one of    *)
(* that name, the one that was made first loses it, here any of them.       *)
Apply(s, st) ==
  CASE st.op \in {"createSchema", "dropSchema"} -> s
    [] st.op = "createTable" ->
         [s EXCEPT !.tables = With(@, st.key, st.def)]
    [] st.op = "dropTable"   -> [s EXCEPT !.tables = Without(@, st.key)]
    [] st.op = "renameTable" -> [s EXCEPT !.tables = Moved(@, st.key, st.to)]
    [] st.op = "createType"  ->
         [s EXCEPT !.enums = With(@, st.key, st.values)]
    [] st.op = "dropType"    -> [s EXCEPT !.enums = Without(@, st.key)]
    [] st.op = "addValue"    ->
         [s EXCEPT !.enums = [e \in DOMAIN @ |->
            IF e = st.key THEN Placed(@[e], st) ELSE @[e]]]
    [] st.op = "createSequence" ->
         [s EXCEPT !.sequences = @ \cup {st.key}]
    [] st.op = "dropSequence" -> [s EXCEPT !.sequences = @ \ {st.key}]
    [] st.op = "dropIndex" ->
         LET owners == {k \in DOMAIN s.tables :
                          st.name \in DOMAIN s.tables[k].indexes}
         IN IF owners = {} THEN s
            ELSE LET k == CHOOSE owner \in owners : TRUE IN
                 [s EXCEPT !.tables[k].indexes = Without(@, st.name)]
    [] OTHER ->
         [s EXCEPT !.tables = [k \in DOMAIN @ |->
            IF k = st.key THEN ApplyToTable(@[k], st) ELSE @[k]]]

(* The snapshot after each statement of a script, and in the end. *)
Replayed(s, script) ==
  LET after[i \in 0..Len(script)] ==
        IF i = 0 THEN s ELSE Apply(after[i - 1], script[i])
  IN  after

Replay(s, script) == Replayed(s, script)[Len(script)]

When(condition, item) == IF condition THEN <<item>> ELSE <<>>

(* The members of a sequence that are in S, in their order. *)
Picked(seq, S) ==
  FlattenSeq([i \in DOMAIN seq |-> When(seq[i] \in S, seq[i])])

-----------------------------------------------------------------------------
(* orderTables: a table comes after the tables its columns refer to.        *)

Dependencies(tables, k) ==
  {tables[k].columns[c].references[1] :
     c \in {d \in DOMAIN tables[k].columns :
              tables[k].columns[d].references # None}} \ {k}

(* A call of dfs for each of some keys in turn. *)
Calls(tables) ==
  [visiting : SUBSET DOMAIN tables, ordered : Seq(DOMAIN tables),
   keys : Seq(DOMAIN tables)]

(* The list after each of the calls; `deeper' are the calls within a call. *)
Visited(tables, deeper, x) ==
  LET after[i \in 0..Len(x.keys)] ==
        IF i = 0 THEN x.ordered
        ELSE LET k       == x.keys[i]
                 ordered == after[i - 1]
             IN IF k \in x.visiting \/ Contains(ordered, k) THEN ordered
                ELSE Append(deeper[[visiting |-> x.visiting \cup {k},
                                    ordered  |-> ordered,
                                    keys     |-> SetToSeq(Dependencies(tables, k))]],
                            k)
  IN  after

(* A call visits no table that is being visited, so that calls are never    *)
(* deeper than there are tables.                                            *)
Visits(tables) ==
  LET visits[depth \in 0..Cardinality(DOMAIN tables)] ==
        LET deeper == IF depth = 0 THEN [y \in Calls(tables) |-> y.ordered]
                                   ELSE visits[depth - 1]
        IN [x \in Calls(tables) |-> Visited(tables, deeper, x)[Len(x.keys)]]
  IN  visits

(* Mutant: the dependencies are not followed. *)
OrderSorted(tables) == Picked(TableOrder, DOMAIN tables)

OrderTables(tables) ==
  Visits(tables)[Cardinality(DOMAIN tables)]
    [[visiting |-> {}, ordered |-> <<>>,
      keys |-> Picked(TableOrder, DOMAIN tables)]]

-----------------------------------------------------------------------------
(* A snapshot of a schema that can be written down: what a column refers to *)
(* is part of it, and no enum says a value twice.                           *)

IsMap(f) == f = [x \in DOMAIN f |-> f[x]] /\ IsFiniteSet(DOMAIN f)

WellFormedTable(t) ==
  /\ t = [columns |-> t.columns, indexes |-> t.indexes,
          constraints |-> t.constraints]
  /\ IsMap(t.columns) /\ IsMap(t.indexes) /\ IsMap(t.constraints)
  /\ \A c \in DOMAIN t.columns :
       LET column == t.columns[c] IN
       /\ column = [type |-> column.type, unique |-> column.unique,
                    references |-> column.references]
       /\ column.unique \in BOOLEAN

WellFormed(s) ==
  /\ s = [tables |-> s.tables, enums |-> s.enums, sequences |-> s.sequences]
  /\ IsMap(s.tables) /\ IsMap(s.enums) /\ IsFiniteSet(s.sequences)
  /\ DOMAIN s.tables \subseteq ToSet(TableOrder)
  /\ \A k \in DOMAIN s.tables :
       /\ WellFormedTable(s.tables[k])
       /\ Dependencies(s.tables, k) \subseteq DOMAIN s.tables
  /\ \A e \in DOMAIN s.enums :
       LET values == s.enums[e] IN
       /\ values \in Seq(ToSet(values) \ {None})
       /\ IsInjective(values)

-----------------------------------------------------------------------------
(* generateMigration, in the order in which it writes its statements.       *)
(* `renames' maps old keys of tables to new ones, `columnRenames' the new   *)
(* key of a table to a map from its old columns to new ones.                *)

(* One statement for each member, in an order that does not matter. *)
ForEach(S, Statement(_)) ==
  LET s == SetToSeq(S) IN [i \in DOMAIN s |-> Statement(s[i])]

SchemasOf(s) == {k[1] : k \in DOMAIN s.tables} \ {Public}

RenameTables(renames) ==
  ForEach(DOMAIN renames,
    LAMBDA k : [op |-> "renameTable", key |-> k, to |-> renames[k]])

(* Mutant: tables are dropped before the ones that refer to them. *)
DropTablesForwards(prev, curr, renames) ==
  LET gone == Picked(OrderTables(prev.tables),
                DOMAIN prev.tables \ (DOMAIN curr.tables \cup DOMAIN renames))
  IN [i \in DOMAIN gone |-> [op |-> "dropTable", key |-> gone[i]]]

DropTables(prev, curr, renames) ==
  LET gone == Picked(Reverse(OrderTables(prev.tables)),
                DOMAIN prev.tables \ (DOMAIN curr.tables \cup DOMAIN renames))
  IN [i \in DOMAIN gone |-> [op |-> "dropTable", key |-> gone[i]]]

(* Mutant: the neighbours may be new as well. *)
AddValueNextTo(key, v, old, new) ==
  LET at == CHOOSE i \in DOMAIN new : new[i] = v
  IN [op |-> "addValue", key |-> key, value |-> v,
      after  |-> IF at > 1 THEN new[at - 1] ELSE None,
      before |-> IF at = 1 /\ Len(new) > 1 THEN new[2] ELSE None]

(* The neighbours of a new value that the type has already. *)
AddValue(key, v, old, new) ==
  LET at     == CHOOSE i \in DOMAIN new : new[i] = v
      common == {i \in DOMAIN new : Contains(old, new[i])}
      left   == {i \in common : i < at}
      right  == {i \in common : i > at}
  IN [op |-> "addValue", key |-> key, value |-> v,
      after  |-> IF left # {} THEN new[Max(left)] ELSE None,
      before |-> IF left = {} /\ right # {} THEN new[Min(right)] ELSE None]

Added(old, new) == Picked(new, ToSet(new) \ ToSet(old))

(* An enum that lost values or has them in another order. *)
Refused(prev, curr) ==
  \E e \in DOMAIN prev.enums \cap DOMAIN curr.enums :
    Picked(curr.enums[e], ToSet(prev.enums[e])) # prev.enums[e]

(* Enums are created or get values; on the way down they keep them. *)
AlterEnums(prev, curr, direction) ==
  FlattenSeq(ForEach(DOMAIN curr.enums, LAMBDA e :
    IF e \notin DOMAIN prev.enums
    THEN <<[op |-> "createType", key |-> e, values |-> curr.enums[e]]>>
    ELSE LET old == prev.enums[e]
             new == curr.enums[e]
             add == Added(old, new)
         IN IF direction = "down" THEN <<>>
            ELSE [i \in DOMAIN add |-> AddValue(e, add[i], old, new)]))

CreateTable(key, t) ==
  <<[op |-> "createTable", key |-> key,
     def |-> [t EXCEPT !.indexes = Nothing]]>>

CreateIndexes(key, t, names) ==
  ForEach(names, LAMBDA n : [op |-> "createIndex", key |-> key, name |-> n,
                             columns |-> t.indexes[n]])

(* The names that one map has and the other has not, or has differently. *)
Changed(f, g) == {n \in DOMAIN f : n \in DOMAIN g => f[n] # g[n]}

(* What makes column c, which was p, into q. *)
AlterColumn(key, c, p, q) ==
  When(p.type # q.type,
       [op |-> "alterColumnType", key |-> key, column |-> c, type |-> q.type]) \o
  When(q.unique /\ ~p.unique,
       [op |-> "addUnique", key |-> key, column |-> c]) \o
  When(p.unique /\ ~q.unique,
       [op |-> "dropConstraint", key |-> key, name |-> AutoName(key, c, "key")]) \o
  When(p.references \notin {q.references, None},
       [op |-> "dropForeignKey", key |-> key, column |-> c,
        name |-> AutoName(key, c, "fkey")]) \o
  When(q.references \notin {p.references, None},
       [op |-> "addForeignKey", key |-> key, column |-> c,
        name |-> AutoName(key, c, "fkey"), to |-> q.references])

(* generateAlterTableStmts: from table p to q. *)
AlterTable(key, p, q, renamed) ==
  LET old(c) == IF c \in Range(renamed)
                THEN CHOOSE o \in DOMAIN renamed : renamed[o] = c ELSE c
  IN ForEach(Changed(p.indexes, q.indexes),
       LAMBDA n : [op |-> "dropIndex", name |-> n]) \o
     ForEach(DOMAIN renamed, LAMBDA c :
       [op |-> "renameColumn", key |-> key, column |-> c, to |-> renamed[c]]) \o
     ForEach(DOMAIN p.columns \ (DOMAIN q.columns \cup DOMAIN renamed),
       LAMBDA c : [op |-> "dropColumn", key |-> key, column |-> c]) \o
     FlattenSeq(ForEach(DOMAIN q.columns, LAMBDA c :
       IF old(c) \in DOMAIN p.columns
       THEN AlterColumn(key, c, p.columns[old(c)], q.columns[c])
       ELSE <<[op |-> "addColumn", key |-> key, column |-> c,
               def |-> q.columns[c]]>>)) \o
     ForEach(Changed(p.constraints, q.constraints),
       LAMBDA n : [op |-> "dropConstraint", key |-> key, name |-> n]) \o
     ForEach(Changed(q.constraints, p.constraints),
       LAMBDA n : [op |-> "addConstraint", key |-> key, name |-> n,
                   columns |-> q.constraints[n]]) \o
     CreateIndexes(key, q, Changed(q.indexes, p.indexes))

(* The key a table of the new snapshot has in the old one. *)
OldKey(renames, k) ==
  IF k \in Range(renames) THEN CHOOSE o \in DOMAIN renames : renames[o] = k
                          ELSE k

AlterTables(prev, curr, renames, columnRenames) ==
  LET order == OrderTables(curr.tables)
      statements(k) ==
        LET t == curr.tables[k] IN
        IF OldKey(renames, k) \in DOMAIN prev.tables
        THEN AlterTable(k, prev.tables[OldKey(renames, k)], t,
                        columnRenames[k])
        ELSE CreateTable(k, t) \o CreateIndexes(k, t, DOMAIN t.indexes)
  IN FlattenSeq([i \in DOMAIN order |-> statements(order[i])])

GenerateMigration(prev, curr, direction, renames, columnRenames) ==
  ForEach(SchemasOf(curr) \ SchemasOf(prev),
    LAMBDA s : [op |-> "createSchema", schema |-> s]) \o
  RenameTables(renames) \o
  DropTables(prev, curr, renames) \o
  ForEach(DOMAIN prev.enums \ DOMAIN curr.enums,
    LAMBDA e : [op |-> "dropType", key |-> e]) \o
  AlterEnums(prev, curr, direction) \o
  ForEach(prev.sequences \ curr.sequences,
    LAMBDA k : [op |-> "dropSequence", key |-> k]) \o
  ForEach(curr.sequences \ prev.sequences,
    LAMBDA k : [op |-> "createSequence", key |-> k]) \o
  AlterTables(prev, curr, renames, columnRenames) \o
  ForEach(SchemasOf(prev) \ SchemasOf(curr),
    LAMBDA s : [op |-> "dropSchema", schema |-> s])

-----------------------------------------------------------------------------
(* resolveRenames: which answers there are.                                 *)

PartialInjections(S, T) ==
  {f \in UNION {[D -> T] : D \in SUBSET S} : IsInjective(f)}

(* A table that is gone may have become a new one of the same schema. *)
TableRenames(prev, curr) ==
  {r \in PartialInjections(DOMAIN prev.tables \ DOMAIN curr.tables,
                           DOMAIN curr.tables \ DOMAIN prev.tables) :
     \A k \in DOMAIN r : r[k][1] = k[1]}

Staying(prev, curr, renames) ==
  {k \in DOMAIN curr.tables : OldKey(renames, k) \in DOMAIN prev.tables}

(* A column that is gone may have become a new one of its table. *)
ColumnRenames(prev, curr, renames) ==
  LET stay == Staying(prev, curr, renames)
      of(k) == LET p == DOMAIN prev.tables[OldKey(renames, k)].columns
                   q == DOMAIN curr.tables[k].columns
               IN PartialInjections(p \ q, q \ p)
  IN {r \in [stay -> UNION {of(k) : k \in stay}] :
        \A k \in stay : r[k] \in of(k)}

(* The same renames on the way down. *)
ReverseColumnRenames(renames, columnRenames) ==
  [o \in {OldKey(renames, k) : k \in DOMAIN columnRenames} |->
     AntiFunction(columnRenames[CHOOSE k \in DOMAIN columnRenames :
                                  OldKey(renames, k) = o])]

Unrenamed(prev, curr) == [k \in Staying(prev, curr, Nothing) |-> Nothing]
=============================================================================
