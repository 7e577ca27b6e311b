--------------------------- MODULE SchemaEvolution ---------------------------
(***************************************************************************)
(* A schema that is edited again and again, the migrations that generate    *)
(* writes for it, and a database they are applied to and taken back from.   *)
(*                                                                          *)
(* A script runs in a transaction, as the default options say; what happens *)
(* between its statements is MigrationRunner's subject.                     *)
(***************************************************************************)
EXTENDS Catalog, Relation

CONSTANT
  Projects  \* for each, the designs its schema file may have, and a bound:
            \* how many migrations are generated

ASSUME EvolutionAssumption ==
  /\ TableOrder \in Seq(ToSet(TableOrder))
  /\ \A p \in Projects :
       p.migrations \in Nat /\ \A d \in p.designs : WellFormed(d)

VARIABLES
  project,  \* which one it is
  folders,  \* the migrations: their scripts and what they were made from
  applied,  \* how many of them are applied
  db,       \* the catalog
  mistaken  \* history: did a script drop what belongs to something else?

vars == <<project, folders, applied, db, mistaken>>

(* The previous snapshot: all up scripts, replayed. *)
Recorded(n) ==
  Replay(Empty, FlattenSeq([i \in 1..n |-> folders[i].up]))

Init ==
  /\ project \in Projects
  /\ folders = <<>>
  /\ applied = 0
  /\ db = EmptyCatalog
  /\ mistaken = FALSE

-----------------------------------------------------------------------------
(* Both scripts of a migration. *)
Migration(prev, curr, renames, columnRenames) ==
  [prev |-> prev, curr |-> curr,
   renames |-> renames, columnRenames |-> columnRenames,
   up   |-> GenerateMigration(prev, curr, "up", renames, columnRenames),
   down |-> GenerateMigration(curr, prev, "down", AntiFunction(renames),
              ReverseColumnRenames(renames, columnRenames))]

(* Without a terminal, flags or --yes generate does not guess what was      *)
(* renamed.                                                                 *)
Unresolved(prev, curr) ==
  \/ Cardinality(TableRenames(prev, curr)) > 1
  \/ Cardinality(ColumnRenames(prev, curr, Nothing)) > 1

(* The schema file is edited, and generate reads it: it stops, says that    *)
(* there are no changes, or writes a folder.                                *)
Generate(design) ==
  LET prev == Recorded(Len(folders)) IN
  /\ Len(folders) < project.migrations
  /\ \/ /\ Unresolved(prev, design) \/ Refused(prev, design)
        /\ UNCHANGED vars
     \/ /\ ~Refused(prev, design)
        /\ \E renames \in TableRenames(prev, design) :
           \E columnRenames \in ColumnRenames(prev, design, renames) :
             LET m == Migration(prev, design, renames, columnRenames) IN
             /\ folders' = IF m.up = <<>> THEN folders ELSE Append(folders, m)
             /\ UNCHANGED <<project, applied, db, mistaken>>

(* The pairs of an old and a new column in the tables that stay. *)
Columns(prev, curr, renames, columnRenames) ==
  LET pairs(k) ==
        LET p == prev.tables[OldKey(renames, k)].columns
            q == curr.tables[k].columns
        IN {[key |-> k, old |-> OldKey(columnRenames[k], c), new |-> c,
             p |-> p[OldKey(columnRenames[k], c)], q |-> q[c]] :
              c \in {d \in DOMAIN q : OldKey(columnRenames[k], d) \in DOMAIN p}}
  IN UNION {pairs(k) : k \in Staying(prev, curr, renames)}

(* The indexes a table that stays loses, and those in the search path. *)
DroppedIndexes(prev, curr, renames, k) ==
  Changed(prev.tables[OldKey(renames, k)].indexes, curr.tables[k].indexes)

InPublic(n) ==
  \E u \in DOMAIN db.tables : u[1] = Public /\ n \in DOMAIN db.tables[u].indexes

(* A constraint of a column is dropped by the name it would get today:      *)
(* after renames that may be the name of another one.  An index is dropped  *)
(* by its name without a schema (generate.ts:1026-1043, 1126-1133).         *)
Mistaken(prev, curr, renames, columnRenames) ==
  \/ \E x \in Columns(prev, curr, renames, columnRenames) :
       LET constraints == db.tables[OldKey(renames, x.key)].constraints
           other(suffix, kind) ==
             LET n == AutoName(x.key, x.new, suffix) IN
             /\ n \in DOMAIN constraints
             /\ \/ constraints[n].kind # kind
                \/ constraints[n].columns # {x.old}
       IN \/ x.p.unique /\ ~x.q.unique /\ other("key", "unique")
          \/ x.p.references \notin {x.q.references, None} /\ other("fkey", "fkey")
  \/ \E k \in Staying(prev, curr, renames) :
       k[1] # Public /\ \E n \in DroppedIndexes(prev, curr, renames, k) : InPublic(n)

(* Mutant: a failed script is recorded, too. *)
RunScriptAnyway(from, to, renames, columnRenames, script, count) ==
  LET r == Execute(db, script) IN
  /\ db' = r.db
  /\ applied' = count
  /\ mistaken' = (mistaken \/ (r.ok /\ Mistaken(from, to, renames, columnRenames)))
  /\ UNCHANGED <<project, folders>>

(* A script, which leads from one snapshot to another, succeeds or leaves   *)
(* everything as it was.                                                    *)
RunScript(from, to, renames, columnRenames, script, count) ==
  LET r == Execute(db, script) IN
  /\ db' = r.db
  /\ applied' = IF r.ok THEN count ELSE applied
  /\ mistaken' = (mistaken \/ (r.ok /\ Mistaken(from, to, renames, columnRenames)))
  /\ UNCHANGED <<project, folders>>

MigrateNext ==
  /\ applied < Len(folders)
  /\ LET f == folders[applied + 1] IN
     RunScript(f.prev, f.curr, f.renames, f.columnRenames, f.up, applied + 1)

DownLatest ==
  /\ applied > 0
  /\ LET f == folders[applied] IN
     RunScript(f.curr, f.prev, AntiFunction(f.renames),
               ReverseColumnRenames(f.renames, f.columnRenames),
               f.down, applied - 1)

Next ==
  \/ \E design \in project.designs : Generate(design)
  \/ MigrateNext
  \/ DownLatest

Spec == Init /\ [][Next]_vars

-----------------------------------------------------------------------------
(* What generate does not get right.                                        *)

(* Two values of an enum are added after the same one: they come out in     *)
(* reverse order (generate.ts:751-766).                                     *)
SameAnchor(prev, curr) ==
  \E e \in DOMAIN prev.enums \cap DOMAIN curr.enums :
    LET add == Added(prev.enums[e], curr.enums[e])
        after(v) == AddValue(e, v, prev.enums[e], curr.enums[e]).after
    IN \E i, j \in DOMAIN add :
         i # j /\ after(add[i]) # None /\ after(add[i]) = after(add[j])

(* A column with "_key" inside of its name stops being unique: the replay   *)
(* does not find it (table.ts:810-817).                                     *)
KeyForgotten(prev, curr, renames, columnRenames) ==
  \E x \in Columns(prev, curr, renames, columnRenames) :
    x.new \in KeyColumns /\ x.p.unique /\ ~x.q.unique

(* An index is dropped and another table has one of its name, before or     *)
(* after: the replay takes it from the table that was made first            *)
(* (indexes.ts:245-253).                                                    *)
SharedIndex(prev, curr, renames) ==
  \E k \in Staying(prev, curr, renames) :
  \E n \in DroppedIndexes(prev, curr, renames, k) :
  \E u \in DOMAIN curr.tables \ {k} :
    \/ n \in DOMAIN curr.tables[u].indexes
    \/ /\ u \in Staying(prev, curr, renames)
       /\ n \in DOMAIN prev.tables[OldKey(renames, u)].indexes

(* A constraint is taken for a column's own one: with it, the replay drops  *)
(* the column's uniqueness.  And where it has that one's very name, it is   *)
(* dropped with it (table.ts:797-817).                                      *)
Eponymous(prev, curr, renames, columnRenames) ==
  \E k \in Staying(prev, curr, renames) :
    LET p == prev.tables[OldKey(renames, k)]
        q == curr.tables[k]
    IN \E c \in DOMAIN q.columns :
         LET n   == AutoName(k, c, "key")
             old == OldKey(columnRenames[k], c)
         IN \/ /\ q.columns[c].unique
               /\ \E m \in Changed(p.constraints, q.constraints) : OwnConstraint(k, c, m)
            \/ /\ n \in DOMAIN p.constraints \ Changed(p.constraints, q.constraints)
               /\ old \in DOMAIN p.columns
               /\ p.columns[old].unique /\ ~q.columns[c].unique

(* Where the replay of a migration is not what the schema says. *)
Misrecorded(prev, curr, renames, columnRenames) ==
  \/ SameAnchor(prev, curr)
  \/ KeyForgotten(prev, curr, renames, columnRenames)
  \/ SharedIndex(prev, curr, renames)
  \/ Eponymous(prev, curr, renames, columnRenames)

Gone(prev, curr, renames) ==
  DOMAIN prev.tables \ (DOMAIN curr.tables \cup DOMAIN renames)

(* Old keys of the tables that stay. *)
Kept(prev, curr, renames) ==
  {OldKey(renames, k) : k \in Staying(prev, curr, renames)}

(* A table or a type is dropped before the column of another table that     *)
(* uses it is altered or dropped (generate.ts:681-695).                     *)
DroppedInUse(prev, curr, renames) ==
  \E k \in Kept(prev, curr, renames) :
    \/ Dependencies(prev.tables, k) \cap Gone(prev, curr, renames) # {}
    \/ \E c \in DOMAIN prev.tables[k].columns :
         prev.tables[k].columns[c].type \in
           DOMAIN prev.enums \ DOMAIN curr.enums

(* A column takes its constraints along, and then they are dropped again    *)
(* (generate.ts:971-976, 1046-1083).                                        *)
DroppedTwice(prev, curr, renames, columnRenames) ==
  \E k \in Staying(prev, curr, renames) :
    LET p == prev.tables[OldKey(renames, k)]
        q == curr.tables[k]
        gone == DOMAIN p.columns \ (DOMAIN q.columns \cup DOMAIN columnRenames[k])
    IN \E n \in Changed(p.constraints, q.constraints) :
         p.constraints[n] \cap gone # {}

(* The constraint of a column still has the name of the table or the column *)
(* before a rename (generate.ts:1002-1009, 1026-1043).                      *)
Misnamed(prev, curr, renames, columnRenames) ==
  \E x \in Columns(prev, curr, renames, columnRenames) :
    LET names == DOMAIN db.tables[OldKey(renames, x.key)].constraints IN
    \/ x.p.unique /\ ~x.q.unique /\ AutoName(x.key, x.new, "key") \notin names
    \/ /\ x.p.references \notin {x.q.references, None}
       /\ AutoName(x.key, x.new, "fkey") \notin names

(* An index outside of the search path is dropped by its bare name          *)
(* (generate.ts:1126-1133, indexes.ts:240-243).                             *)
IndexElsewhere(prev, curr, renames) ==
  \E k \in Staying(prev, curr, renames) :
    k[1] # Public /\ \E n \in DroppedIndexes(prev, curr, renames, k) : ~InPublic(n)

(* Schemas are made and dropped with their tables: a type or a sequence in  *)
(* a schema without tables is homeless (generate.ts:653-668, 889-897).      *)
Homeless(prev, curr) ==
  LET others(s) == {k[1] : k \in DOMAIN s.enums \cup s.sequences} \ {Public} IN
  ~(others(curr) \subseteq SchemasOf(curr))

(* The tables that refer to themselves through others. *)
OnCircle(tables) ==
  LET D       == DOMAIN tables
      depends == [x, y \in D |-> y \in Dependencies(tables, x)]
  IN {k \in D : TransitiveClosure(depends, D)[k, k]}

(* Tables that refer to each other in a circle have no order                *)
(* (cli/utils.ts:14-20): whether one that is new or gone can be made or     *)
(* dropped depends on where the circle is entered.                          *)
Circular(prev, curr, renames) ==
  \/ OnCircle(curr.tables) \ Staying(prev, curr, renames) # {}
  \/ OnCircle(prev.tables) \cap Gone(prev, curr, renames) # {}

(* The name for a constraint or an index is taken: after renames, by a      *)
(* column's own, or by another table's index.                               *)
Taken(prev, curr, renames, columnRenames) ==
  \/ \E x \in Columns(prev, curr, renames, columnRenames) :
       /\ x.q.references \notin {x.p.references, None}
       /\ AutoName(x.key, x.new, "fkey") \in
            DOMAIN db.tables[OldKey(renames, x.key)].constraints
  \/ \E k \in Staying(prev, curr, renames) :
     \E n \in DOMAIN curr.tables[k].constraints :
     \E c \in DOMAIN curr.tables[k].columns : n = AutoName(k, c, "key")
  \/ \E k \in DOMAIN curr.tables : \E n \in DOMAIN curr.tables[k].indexes :
       \E u \in DOMAIN db.tables :
         /\ n \in DOMAIN db.tables[u].indexes
         /\ u # OldKey(renames, k)

Hindered(prev, curr, renames, columnRenames) ==
  \/ DroppedInUse(prev, curr, renames)
  \/ DroppedTwice(prev, curr, renames, columnRenames)
  \/ Misnamed(prev, curr, renames, columnRenames)
  \/ IndexElsewhere(prev, curr, renames)
  \/ Homeless(prev, curr)

-----------------------------------------------------------------------------
(* Properties.                                                              *)

(* After generate, the migrations, replayed, say what the schema says; "No  *)
(* changes detected" says that they do so already (generate.ts:499-507,     *)
(* 575-578).                                                                *)
Represented ==
  /\ \A i \in DOMAIN folders :
       LET f == folders[i] IN
       \/ Misrecorded(f.prev, f.curr, f.renames, f.columnRenames)
       \/ Recorded(i) = f.curr
  /\ LET prev == Recorded(Len(folders)) IN
     \A d \in project.designs :
       LET none == Unrenamed(prev, d) IN
       /\ ~Refused(prev, d)
       /\ GenerateMigration(prev, d, "up", Nothing, none) = <<>>
       => prev = d

(* The replay of the applied migrations describes the database, also after  *)
(* some were taken back: the next migration is made for what is there       *)
(* (generate.ts:499-507; the applyToSnapshot and toSQL of each statement).  *)
DatabaseMatches ==
  \/ Describes(Recorded(applied), db)
  \/ mistaken
  \/ \E i \in DOMAIN folders :
       LET f == folders[i] IN
       \/ KeyForgotten(f.prev, f.curr, f.renames, f.columnRenames)
       \/ SharedIndex(f.prev, f.curr, f.renames)
       \/ Eponymous(f.prev, f.curr, f.renames, f.columnRenames)

(* A script runs, exactly if it does none of the things generate gets       *)
(* wrong; with a circle of tables, or a name that is taken, it may fail.    *)
RunsUnless(prev, curr, renames, columnRenames, script) ==
  LET ok == Execute(db, script).ok IN
  \/ mistaken
  \/ IF Hindered(prev, curr, renames, columnRenames) THEN ~ok
     ELSE \/ ok
          \/ Circular(prev, curr, renames)
          \/ Taken(prev, curr, renames, columnRenames)
          \/ Mistaken(prev, curr, renames, columnRenames)

(* A generated migration can be applied. *)
UpApplies ==
  applied < Len(folders) =>
    LET f == folders[applied + 1] IN
    RunsUnless(f.prev, f.curr, f.renames, f.columnRenames, f.up)

(* And it can be taken back. *)
DownReverts ==
  applied > 0 =>
    LET f == folders[applied] IN
    RunsUnless(f.curr, f.prev, AntiFunction(f.renames),
               ReverseColumnRenames(f.renames, f.columnRenames), f.down)

(* What squash takes for granted: the difference of two points of the       *)
(* history, made in one step and without renames, leads from the one to the *)
(* other (squash.ts:154-177).                                               *)
RangesReplay ==
  \A i, j \in 0..Len(folders) :
    LET prev == Recorded(i)
        curr == Recorded(j)
        none == Unrenamed(prev, curr)
    IN i < j =>
         \/ Refused(prev, curr) \/ Misrecorded(prev, curr, Nothing, none)
         \/ Replay(prev, GenerateMigration(prev, curr, "up", Nothing, none))
              = curr
=============================================================================
