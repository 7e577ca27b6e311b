# Durcno in TLA+

Durcno is a PostgreSQL query builder for TypeScript with a migration manager.
This directory holds TLA+ models of the parts of it that keep state and can get
into trouble with it, the TLC configurations that check the models on small
instances, and proofs of the main results for all instances, checked by TLAPS.

Paths are relative to the root of the repository's tree (`src/` is the
repository, so the TypeScript sources are under `src/src/`).

Contents: [the system](#the-system), [the plan](#the-plan),
[the modules and the code](#the-modules-and-the-code),
[what the runs show](#what-the-runs-show), [fairness](#fairness),
[what is proved](#what-is-proved), [findings](#findings),
[what is not modelled](#what-is-not-modelled).

## The system

| Component | State it keeps | Operations | Talks to |
|---|---|---|---|
| Migration runner (`cli/commands/migrate.ts`, `down.ts`, `cli/checks.ts`, `models.ts`) | applied scripts in the database, the table `durcno.migrations`, a session per run | `migrate`, `down` | migration folders (reads), PostgreSQL through a client for scripts and a second pool for the ledger |
| Squash (`cli/commands/squash.ts`) | migration folders, the table `durcno.migrations` | `squash start end [--force] [--skip-db]` | snapshot replay, schema diff, PostgreSQL |
| Generate (`cli/commands/generate.ts`, `cli/utils.ts`) | migration folders | `generate`: replays all folders, diffs with the schema, asks about renames, writes a folder | snapshot replay, prompts |
| Snapshot and DDL statements (`migration/`) | a snapshot: tables, enums, sequences | `toSQL` and `applyToSnapshot` of each statement | used by generate and squash |
| status, push (`cli/commands/`) | none of their own | report; generate and then migrate | runner, generate |
| Database (`db.ts`) | one connector; per call: client, try/catch/finally position | `transaction`, plain queries, `close` | connectors |
| Connectors (`connectors/`) | pool, clients, pglite's shared instance and its reference count | `acquireClient`, `query`, `close` | drivers |
| Prepared statements (`query-builders/prepare.ts`, `query.ts`) | the name each `Arg` was given last, the slots of a query | `prepare`, `run` | database |
| Query builders (`query-builders/`) | a builder's clauses until it renders | rendering of SELECT, INSERT, UPDATE, DELETE, WITH; `findMany`, `findFirst` | expressions, database |
| Filters and functions (`filters/`, `functions/`, `sql.ts`) | immutable expression objects | rendering, what an expression says of itself, reading of its result | columns, query builders |
| Columns (`columns/`) | configuration of a column | a value to a literal, to the driver and back | PostgreSQL, drivers |
| exec, repl (`cli/commands/exec.ts`, `repl.ts`, `cli/sql-split.ts`, `cli/sql-runner.ts`) | line buffer; position in the script | split and run statements | connectors |
| WKX (`wkx/`) | none | text, binary and JSON geometry codecs | geography columns |
| init, logger, validators | none | files, text, zod schemas | - |

How they interact: `generate` turns the difference between the folders and the
schema into a folder; `migrate` applies folders to a database and records them;
`down` takes them back; `squash` replaces a range of folders by one and corrects
the records. The folders are shared through version control, so several people
(and deployments) run these commands at the same time. Applications use
`db.transaction` and plain queries over the same connectors.

What is hard in it:

- The script of a migration and its record are **two transactions** over two
  connections, and there are four execution modes (`joined` or `sequential`,
  with or without a transaction), each with its own way of failing.
- `migrate` **undoes** what it applied when a later migration fails, in a catch
  block whose own statements may fail.
- Deployments **overlap**: two runs read the same list of pending migrations.
- `squash` deletes folders before it writes the new one and rewrites the ledger
  record by record; it may be **killed** anywhere.
- A transaction has **awaits** between acquiring a client, `BEGIN`, the callback's
  queries, `COMMIT`, `ROLLBACK` and the release, any of which may fail, and a
  callback may run its queries side by side or call `db.transaction` again.
- The pools behind the connectors differ: pglite has **one session** for all, whose
  instance is made for the first client and closed with the last, with awaits in both.
- The REPL's handlers run while the answer to an earlier line is **awaited**.
- One `Query` object is handed through clauses, subqueries and expressions, each of which
  appends text and **numbers placeholders**; relations nest the same table under several aliases.
- An expression writes **its own parentheses or none**, and a value has two ways into
  PostgreSQL and two out of it, with conversions of their own.

What makes each component correct:

- *Runner*: a recorded migration is in force; what a run reverts is what it
  applied, newest first; `down` stops exactly at its target; every run ends.
- *Squash*: folders describe the same schema as before, the ledger still tells
  the truth about the database, and a kill leaves what is outside of the range
  alone.
- *Generate and snapshots*: replaying the folders gives the schema; the SQL of the
  folders makes the database that the snapshot describes; down undoes up.
- *Database*: a call is one atomic change, its promise says whether it happened,
  its connection comes back clean, and everybody who waits gets one.
- *Prepared statements*: an argument reaches the placeholder it was named for.
- *Query builders*: PostgreSQL accepts the grouping; the objects a relational query
  returns are the ones its options describe.
- *Filters and functions*: the text means what was built, and its result is read as the
  type that is announced.
- *Columns, WKX*: what comes back is what was given.
- *repl, exec*: every statement typed is sent as typed; exit status 0 means all of it.

`PROJECT.json` lists the hazards of this code at their lines, with the properties
that would catch them, or why none does: some of them do happen, and are findings.

## The plan

| Step | Modules | Builds on | Theorems |
|---|---|---|---|
| 1 | MigrationRunner, against the abstract MigrationLedger | - | types, safety of overlapping runs, refinement, what a run comes to |
| 2 | Transactions, against the abstract AtomicStore | - | types, isolation, atomicity, refinement |
| 3 | Squash, over what a migration makes and drops | - | what a kill cannot touch; what a success preserves |
| 4 | Snapshots, Catalog, SchemaEvolution | each other | where a generated migration leads; what the history records |
| 5 | PgLiteInstance | - | reference count, no answered write is lost |
| 6 | Repl; SqlSplit and Exec; Console | Repl, Exec | the REPL's statements; the splitter against the lexer; exec |
| 7 | PreparedStatements; RelationalQuery; Queries, which builds on both | - | what a placeholder is bound to; the rest is recursive |
| 8 | Grammar, Expressions, SqlFunctions, Filters, Meanings, Building | one on the other | none: recursive |
| 9 | Geometries, Wkt, Wkb, Twkb, GeoJson, Geography, Columns | one on the other | none: recursive |

All of it is done. What could come next: `generate`'s check for colliding entities, set
operations and locks in Queries, and callbacks with concurrent branches with promises
of their own, weaker ones.

Abstract specifications: `MigrationLedger` (a migration comes into force and goes out
of force as a whole, its record is written only while it is in force) and `AtomicStore`
(a call is one atomic change before its promise settles, or none).

## The modules and the code

### MigrationRunner

`migrate.ts`, `down.ts` and the checks they share, statement by statement. A
`Runner` is one invocation of the tool. Migrations are numbers in the order of
their folder names; number 1 creates the schema `durcno` and the ledger.

| Variable | In the code |
|---|---|
| `plan`, `folders` | what `up.ts` and `down.ts` say (mode, number of statements), and the folders in the working tree |
| `done`, `records` | committed statements of each migration; rows of `durcno.migrations` |
| `session` | the server's view of the client the scripts go through: idle, in a transaction, in a failed one |
| `pc`, `dir`, `todo`, `cur`, `step` | where the command is: the loop over migrations, upwards or (down, or migrate's catch block) downwards, and the statement inside a script |
| `mine` | `appliedMigrations` of migrate |
| `base`, `torn` | history: what a run found, and migrations cut from their record by a failure or a kill between the two transactions |

Actions follow the code's steps: `Start` (read folders, connect), `Probe`
(`migrationsTableExists`), `ReadRecords`/`ReadFails`, `PickMigration` and `Exit` (the
loops), `ImportFails`, `SkipEmpty`, `RunJoined`/`JoinedFails` (one query),
`Begin`/`Statement`/`StatementFails`/`CommitScript`/`Rollback` (sequential),
`Insert`/`InsertFails` and `Erase`/`EraseFails` (the ledger), `Catch` (what follows a
script that threw), `Crash` (kill), `AddFolder` (a folder arrives from generate or a
merge). What a statement does is counted, not named: an up statement needs all of
its migration's earlier statements and none of the later ones, a down statement
takes the last one back. A joined script is one implicit transaction when it has
no `BEGIN` of its own. An open transaction locks what it has changed.

*MCMigrationRunner* gives the file contents TLC enumerates. *MigrationLedger* is
the abstract specification; the mapping is `kept` = migrations whose down script
is empty, `inForce` = migrations all of whose statements are in force.

### Transactions

`DB.transaction` (`db.ts:575-615`) and plain queries of one `DB` over the pool of
its connector. A `Task` is one call; `Caller` says in whose callback it is made.

| Variable | In the code |
|---|---|
| `pc` | position in `transaction`: acquiring, BEGIN, callback, COMMIT, ROLLBACK, finally |
| `client`, `queue` | the client of the call; who waits in `acquireClient` |
| `sent`, `threw`, `swallowed` | the callback: queries made, has it thrown, did it catch an error itself |
| `answer`, `outcome` | the reply the call awaits; what its promise settles with |
| `inbox` | requests on the way to each connection (drivers keep them in order) |
| `tx`, `work`, `alive` | the server's view of a connection: transaction state, uncommitted writes, does it still work |
| `store`, `lost` | committed writes; history: calls whose COMMIT was carried out but whose answer broke off |

Actions: `Call`, `Grant`/`AcquireFails` (the pool), `EnterCallback`, `Send`, `Raise`,
`Swallow`, `FinishCallback`, `Catch`, `Conclude`, `Release` (the steps of the call
between awaits), `Serve` (PostgreSQL answers BEGIN, a write, COMMIT or ROLLBACK,
also in a failed transaction or in none), `Refuse` and `Drop` (a connection breaks
and every request on it fails). Two constants choose the environment: `Concurrent`
(the callback starts its queries side by side, so some are still running when one
has failed) and `Shared` (pglite: every client stands for the one session).
*AtomicStore* is the abstract specification; `settled` is mapped to the calls that
are done.

Drivers are outside of this repository and modelled from how it uses them: a pool
replaces a broken connection when its client is given back. A connection that breaks
while it is idle in the pool is left out: what node-postgres does with its
unhandled `error` event is not decided by this code.

### Squash

`squash.ts` step by step over the folders and one developer's database. A
migration's `up.ts` is what it makes and drops of a small set of objects, some of
which are made by `ddl.custom` and are invisible to a snapshot.

| Variable | In the code |
|---|---|
| `stage`, `up` | how much of each folder is on the disk (none, empty, up.ts, both) and what up.ts says |
| `records`, `objects` | the ledger and what the database contains |
| `pc`, `job`, `rangeAllApplied`, `squashed`, `todo` | the running command: arguments, the folder list it read, the result of the database check, the new migration, what is left to delete or to unrecord |
| `base`, `disturbed` | history: what the command found, and whether a migration was applied after its database check |

Actions: `Start` (arguments), `CheckDatabase` (all applied or none), `Scan` (custom
statements), `Build` (both replays, the diff, "nothing to do"), `DeleteFolder`,
`MakeFolder`, `WriteUp`, `WriteDown`, `EraseRecord`, `InsertRecord`, `Stop` (a kill or
an error anywhere), and `Migrate` by somebody else at any time. `Migrate` is atomic
here: MigrationRunner takes it apart. That a diff replays to the snapshot it was
made from is taken for granted in this module; `RangesReplay` of SchemaEvolution says
when that is right.

### Snapshots, Catalog and SchemaEvolution

*Snapshots* has no variables: it is the data and the algorithms of `migration/` and
`generate.ts`. `Apply` is `applyToSnapshot` of every statement that generate writes,
`Replay` the loop over folders, `OrderTables` the depth-first order of
`cli/utils.ts` (a function of how deep a call is and of its arguments: `Visits`),
`WellFormed` says which schemas can be written down, `GenerateMigration` the function of that name with its statements in
their order (schemas, renames, drops of tables, enums, sequences, tables, schemas) and
`AlterTable` is `generateAlterTableStmts`. `TableRenames` and `ColumnRenames` are the
answers a user can give, by prompt or flags.

*Catalog* is external: what PostgreSQL needs for a statement (`Possible`), what the
statement does to the catalog (`Effect`), and a script in a transaction (`Execute`).
It names the constraints of columns as PostgreSQL does and keeps those names when
tables and columns are renamed, takes constraints and indexes along with a column,
refuses to drop what something else depends on, and looks bare index names up in the
search path.

*SchemaEvolution* puts them together:

| Variable | In the code |
|---|---|
| `project` | what the schema file may say over time, and the bound on the number of migrations |
| `folders` | the migrations: both scripts, and (history) the snapshots and renames they were made from |
| `applied` | how many of them the ledger has |
| `db` | the catalog |
| `mistaken` | history: a script dropped a constraint or an index of somebody else that had the name |

Actions: `Generate(design)` (the schema file now says `design`; generate stops because
it may not guess renames or because an enum lost values, finds nothing to do, or
writes a folder), `MigrateNext`, `DownLatest` (one script in a transaction, as the
default options say; MigrationRunner has what happens around and inside it).

The data is abstract: the type of a column stands for its type, NOT NULL and DEFAULT; a
CHECK, UNIQUE or PRIMARY KEY constraint is a name with the columns it mentions. Changes
that generate does not look at at all (a column becoming a primary key, generated or
computed, the options of a sequence) are not among the designs: it writes nothing for
them. Type changes keep to types that PostgreSQL converts by itself.

What generate gets wrong is described in terms of the two snapshots. Where the replay of a
migration is not what the schema says (`Misrecorded`): `SameAnchor`, `KeyForgotten`,
`SharedIndex`, `Eponymous`. Where PostgreSQL refuses a script (`Hindered`): `DroppedInUse`,
`DroppedTwice`, `Misnamed`, `IndexElsewhere`, `Homeless`. Which
other names `dropConstraint` takes for that of a column's own constraint is the constant
`Namesakes`, because the names of the model are not put together of characters; the own
constraint of one column does not lead to another column (`NamesakesAssumption`), as that of
`api_key_id` would to an `api_id_key` in the same table. `UpApplies` and `DownReverts` say that a script
is refused if one of the latter holds, and only then, unless tables refer to each other in a
circle (`Circular`) or names are used again (`Taken`, `Mistaken`), where it may be. The
conditions are thus the complete list for these designs, and each of them is needed: without
it the run fails.

### PgLiteInstance

`PgLiteConnector` and its client and pool (`connectors/pglite.ts`): `getClient` and
`getPool` make a `Handle`; `Acquire` starts the instance for the first and counts the
others, `Started`, `StartFails`, `Release`, `ReleaseLast` and `Closed` follow the awaits of the
code. `instance`
and `refs` are `#instance` and `#refs`; an `Instance` is a PGlite object, external, which
reads the `disk` when it starts, answers from its `memory` and has written it back once
`close()` is done. `overlapped` is history: an instance was made while another was alive.

### Repl, SqlSplit, Exec and Console

*Repl* is the handlers of readline's `line`, `SIGINT` and `close` events. A handler runs
up to its `await` in one action; `Answer` does the rest later, and other lines may come
between. `buffer` and `inMultiLine` are the code's, `flying` the queries that are awaited;
`draft`, `meant` and `crossed` are history. *SqlSplit* is `splitSqlScript` over sequences of
characters, with PostgreSQL's lexer, character by character, as the reference; one round of
each of the code's loops is an operator (`CommentLoop`, `SplitLoop`, ...), and so is one
character of the lexer (`LexStep`). `Letter` and `Digit` are the characters of names; those
beyond ASCII, which PostgreSQL also takes for letters, are left out. *Exec*
goes from reading the script to the exit status. *Console* is a process that runs one of the two.

### PreparedStatements, RelationalQuery and Queries

*PreparedStatements*: the `Query` handed down through a statement is a record of its slots
(`preparedSlots`, `argIndices`, the number of the next placeholder being one more than its
slots) and of the words it wrote. A statement is known there only by its leaves, in the order
in which its builder comes to them: a column, an `Arg`, a literal, a cell left out. The state is
`key` (what `prepare` named each `Arg` last), `prepared`, `runs`, `clock` (calls of `insertFn`
and `updateFn`) and the last run, `sent`.

*RelationalQuery*: `findMany` from options to nested lateral joins (as a term), PostgreSQL's
meaning of that term (external), and the rows handler that rebuilds the objects; `Promised`
says without SQL what the options describe.

*Queries* has the builders: the clauses of SELECT, INSERT, UPDATE, DELETE and WITH in the order
of the code, the keys that automatic `GROUP BY` gathers, and from them the leaves of a
statement (`WithLeaves`) and its text as a tree (`Text`). It adds one variable, `answer`, what the
last call without `prepare` came to. Its steps are those of PreparedStatements and calls that
leave the variables of PreparedStatements alone.

### Grammar, Expressions, SqlFunctions, Filters, Meanings and Building

*Grammar* is external: how PostgreSQL reads operators, calls, CASE, IN and IS. An object of
an expression class is a record (*Expressions*): what was asked for, the tokens `toQuery`
appends, the flags its constructor finds, the type PostgreSQL gives it, the values its
TypeScript type announces, and `fromDriverValue`. *SqlFunctions* and *Filters* have one
operator per class or factory of `functions/` and `filters/`. *Meanings* has the tree that
was built and the one that is read, and brings both to one form. *Building* is a program that
puts what is built into one more function or filter, in every place its signature allows.

### Geometries, Wkt, Wkb, Twkb, GeoJson, Geography and Columns

A geometry is a record of type, srid, dimensions and parts. Each format is a module with
a writer and a reader for the seven classes; a text is a sequence of tokens, a buffer one of
cells, sizes are computed where the code computes them, and TWKB's integers have a width. A
coordinate is a double, counted in units of `1 / Unit`: TWKB's products, quotients,
differences and sums are rounded to `DoubleBits` significant bits (`AsDouble`), and what
becomes an integer is cut (`Whole`).
*Geography* writes and reads each format, and sends a value through a geography column
(PostGIS is external: what it accepts and which bytes it answers with). *Columns* adds the
other thirty types: `Put` writes a literal (`toSQL`) or the value of a placeholder
(`toDriver`), `Keep` and `TurnDown` are PostgreSQL, `Fetch` returns it in a row or in the
JSON of a relational query (`fromDriver`), alone or in an array; the text of an array the
driver does not know is taken apart character by character, as `#parsePostgresArrayString`
does. The four share the variables `stage`, `subject`, `data` and `result`.

## What the runs show

| Run | Instance | Shows |
|---|---|---|
| `runner_single` | one runner, 3 migrations in every mode, 3 runs, 2 refused statements, 1 kill | `TypeOK`; `RecordedInForce`: a record never outlives its migration unless a kill or an error fell between the two; `FailedMigrateLeavesNoTrace`; `DownUndoesExactlyFromTarget`; `LedgerImplemented` |
| `runner_parallel` | two overlapping migrates, 2 migrations, 1 fault, 1 kill | `HeldInForce`: nobody reverts what another run counts as applied; `OneHolder`; `EveryRunEnds` |
| `runner_rollback` | default modes, one fault | counterexample to `AnnouncedRollbackHappens` |
| `tx_pooled` | a transaction, one nested in its callback, a plain query, 2 connections, 2 queries each, 1 fault, 1 broken connection | `Isolated`, `PoolClean`, `Atomic`, `ResolvedIsCommitted`, `RejectedIsUndone`, `StoreImplemented`, `EveryCallSettles` |
| `tx_pglite` | two transactions and a query on pglite's one session | counterexample to `Atomic` |
| `squash_range` | 4 migrations, 3 objects, 2 runs, 1 kill, migrate alongside, every range and option | `SchemaPreserved`, `RecordsTellDatabase`, `StillDeployable`, `RefusalChangesNothing`, `OutsideUntouched`, `FoldersFirst` |
| `evolution` | 3 migrations over 17 designs, every rename, ups and downs in any order; 3 or 4 over designs that use names again | `Represented`: the folders replay to the schema; `DatabaseMatches`: the replay describes the database; `UpApplies`, `DownReverts`: exactly which scripts PostgreSQL refuses; `RangesReplay`: what squash builds on |
| `pglite_instance` | 4 handles, 3 instances, 2 rows | `TypeOK` (no count below zero; no row anywhere whose query was not answered); `HeldIsOpen`: the count is the number of open handles, which share one open instance; `WritesSurvive` |
| `console` | 5 lines typed at any moment; scripts of up to four pieces | `StatementsAsTyped`: what is sent is what was typed; `ScriptCarriedOut`: exec carries out exactly the statements PostgreSQL's lexer finds, up to the first refused one, and its exit status tells |
| `queries` | 2 prepared statements over 2 `Arg` objects; projections of columns, aggregates, windows and subqueries; relations to the table itself and to another, two deep | `EveryPlaceholderBound`: each placeholder gets the value written there; `GroupedLegally`; `TreeReturned` |
| `expressions` | every function and filter around each way to write an operand | `MeansWhatWasBuilt`; `KnowsItself`: its flags are what a parse of its text finds; `ResultHasItsType` |
| `geography` | every class, dimension and format; values of every type of column by every way | `ReadBack`, `GeographyReturned`, `ColumnReturned`: what comes back unchanged, and exactly what does not |

Properties with exceptions (`UpApplies`, `ReadBack`, `ColumnReturned`, `MeansWhatWasBuilt` and
others) are equivalences wherever that is possible: the exceptions are named by operators
(`Loses`, `Alters`, `Misread`, `Surprising`, `DroppedInUse`, ...), and TLC confirms that in each of
them the code does go wrong, and nowhere else.

### Bounds, and why they are enough

- *Runner*: three migrations are the least that give a revert loop with two members
  and a target of `down` with something newer and something older. Two statements
  in a script are the least that can stop half-way. Two faults let the catch block
  fail as well; a kill needs to happen once. Three runs allow migrate, down (or a
  failed migrate) and migrate again. Two runners are enough for an overlap, since
  `OneHolder` speaks of two.
- *Transactions*: two queries make "half of a transaction" possible. Two connections
  let the nested call run while its caller holds one; one connection makes every
  handover a reuse. A second fault lets `ROLLBACK`'s counterpart fail too.
- *Squash*: four migrations leave something before and after a range of two; two
  squashes let the second meet a squashed or half-squashed folder.
- *SchemaEvolution*: three migrations are the least that rename something and then drop
  a constraint that kept its old name. The designs contain, in pairs, a table and a
  column renamed, references added, dropped and moved, an index and a constraint that go
  with their column or without it, enum values added before, between and after others,
  a schema that comes and goes, a type in a schema without tables, a circle of tables. Two more
  projects use names again: that of a unique column after a rename (which takes a fourth
  migration to do harm), one index name in two schemas, one name for a constraint and a
  column's own. They are projects of their own because mixing them with the rest would only
  multiply the histories. A fourth has a constraint that is taken for that of a
  column without having its name (`a_key` on `accounts`, for the column `a`).
- *PgLiteInstance*: a third instance is needed for one made during a close, a fourth handle
  for one that joins it; handles, instances and rows are interchangeable.
- *Console*: five lines hold two statements of two lines and a line that interferes. Each
  piece of a script opens, closes or hides something (quotes, escape strings, dollar quotes,
  comments, nested comments, semicolons); four of them combine every two that interact.
- *Queries*: two statements, two `Arg` objects and one run are what sharing needs; a table that refers
  to itself and two levels of relations are the least where two aliases of one table are in sight.
- *Building*: one use around columns and around one compound of every way to write an
  expression (bare, in parentheses, a call, a CASE, a subquery, a window). What a function
  writes depends on its operand only through that text and a few flags.
- *Geography and Columns*: integers of 7 bits in parts of 3 stand for 32 and 7 (the last
  part is cut in both, and two bits of it decide). Of coordinates, `Factor` = 100 stands for 10^5
  and 8 significant bits for 53, in units of 1/32768: like the code's, the products of decimals
  fall short of a whole number for some (0.07, 0.14, 0.28 and 0.29), lines of them drift by up
  to two digits, and quarters and whole numbers are exact. Numbers of *Columns* have 6 significant bits, `real` has 3, and the integers end where the values
  around do; a day has four hours and the program's clock is one hour ahead. Texts have up to
  two of the characters quoting is about, arrays two elements or two by two.
- `MaxRuns`, `MaxFaults`, `MaxCrashes`, `MaxDrops`, `MaxStops`, a project's `migrations`, `MaxLines`,
  `MaxPrepared` and `MaxUses` bound the counters
  and appear in the guards of the actions that count. The proofs hold for all of
  them.

The runs of the runner, of Squash, of the REPL and of pglite use `CHECK_DEADLOCK FALSE`,
because the system stops there when nobody starts anything any more; so do those of single
values, queries and expressions, which end with the answer. Transactions is checked for
deadlock: its only final step, `AllSettled`, requires that every call has settled and
every connection is quiet.

## Fairness

- *Runner*: weak fairness of `Work(p)` for each runner. A started process keeps being
  executed and the server answers; a statement waits for a lock only as long as
  another runner's open transaction lasts, and that runner is treated fairly too.
  Nothing makes operators start a command or a process be killed.
- *Transactions*: weak fairness of a call's own steps (the event loop runs
  continuations), of the pool handing out a free connection, and of every connection
  answering (a broken one: the driver rejects). Callbacks come to an end. No fairness for
  faults, dropped connections or callbacks that throw.

`EveryCallSettles` depends on the connections being enough for the nested calls: a
callback that calls `db.transaction` holds one connection while it waits for another,
and as many such calls as there are connections wait for each other for ever. The
runs stay below that number; no document of the repository promises more.

## What is proved

Proof modules EXTEND the component and are checked by `tlapm`; each holds for every
value of the constants that the named assumptions allow.

**MigrationRunnerProofs** proves `TypeCorrect`: `Spec => []TypeOK`. `TypeOK` is
inductive by itself, because it also says where a script position can be and who can
have a transaction open.

It also proves, if nothing overlaps with a `down`
(`"down" \notin Overlapping`), for any number of concurrent migrates:
`RecordsAreSound` (`RecordedInForce`), `AppliedStaysInForce` (`HeldInForce`) and
`AppliedByOne` (`OneHolder`). None of the three is inductive: what a run counts as its
own (`mine`) becomes its list of things to revert (`todo`), its current migration
moves between the two, and a sequential transaction has executed statements that are
not committed. The inductive invariant is

    IInv == TypeOK /\ Alone /\ FirstListed /\ PickedOnce /\ TxWork
            /\ OwnedInForce /\ OneOwner /\ RecordedInForce

where `Owns(p, m)` follows a migration through the whole life of a run, `TxWork`
says that an open transaction has left the committed state alone and nobody else is
at work on the same migration, `PickedOnce` that the migration at hand is off the list,
`Alone` that a down has the database for itself, and `FirstListed` that migration 1 is
in every list (so that "is this the first migration?" is asked of the right one). The
step lemmas separate the actions that change what is in force (`Executes`) from those
that only move ownership around (`QuietOwns`) or change the records.

**MigrationRunnerProofs** also proves `RunnerImplementsLedger`: with one command at a
time (`Overlapping = {}`) the runner implements MigrationLedger, from
`IInv /\ Solo /\ LedgerEmpty /\ Reverted`: only one process is alive, a missing table
has no rows, and whoever is about to erase a record has taken the migration back.

It also proves what a run comes to, for commands that follow one another (`OneRunner` and
`Overlapping = {}`) and any number of migrations, statements, runs, failures and kills:
`FailedMigrateIsRolledBack` (`FailedMigrateLeavesNoTrace`) and `DownIsExact`
(`DownUndoesExactlyFromTarget`). Both compare the end of a run with what it found, `base`.
The invariant `OInv` says where it is on the way (`Progress`): `Fresh` until the first
migration is picked, then `Walking`, and `Outcome` when it is off. While it walks, what is in
force is what it has been through (`Standing`) plus the migration at hand, the records are
those migrations (`Recorded`), the rest of the list lies on the right side of the one at
hand (`Places`), and the one failure has happened if and only if migrate has turned round
(`Refusals`). The lemmas take the phases one by one. That migration 1 has statements
and that its down script takes all of them back (`RunnerAssumption`) is what `generate`
writes: the schema and the ledger.

**TransactionsProofs** proves `TypeCorrect`, `ConnectionsIsolated` (`Isolated`) and
`ConnectionsComeBackClean` (`PoolClean`),
`CallsAreAtomic` (`Atomic`), `ResolvedCallsAreCommitted`, `RejectedCallsAreUndone` and
`TransactionsImplementStore`, all for exclusive connections and callbacks that await
each query (`~Shared`, `~Concurrent`: with either of them some of this is false, see the
findings), and for any nesting of calls. The invariant `PoolInv` ties the two sides of
the wire together: `Exclusive` (one holder per connection), `OneInFlight` (a connection
carries at most the one request its holder awaits), `Suspended` (a callback makes one
call at a time and sends nothing meanwhile), and `Phases` (for each position of a call,
what the server must know of its connection: for example after a failed COMMIT there is
no transaction, after COMMIT was answered "ok" everything is committed). `StoreInv` adds
for each call which of its writes the store may contain.

**SquashProofs** proves `RangeIsRespected` (`OutsideUntouched`), `RecordsGoLast`
(`FoldersFirst`) and `RefusalsAreHarmless` (`RefusalChangesNothing`) without assumptions
about the migrations, with kills and migrate at any point. `SquashInv` adds to the
properties what each phase has done so far (`Phases`). For any number of migrations it also
proves what a squash that succeeds leaves behind: `SquashPreservesSchema`
(`SchemaPreserved`), `LedgerFollows` (`RecordsTellDatabase`: until the next migrate after the
command looked at the database, the records still tell what is in it) and `StaysDeployable`
(`StillDeployable`, if `~OneByOne`: for pglite it is false, see the findings). `CourseInv` adds
to `SquashInv` what the phases have found out: the one script that stands for the range, and
what the database held. The replay of the folders is then taken apart into what comes before
the range, the range and what comes after (`BeforeTheRange`, `AcrossTheRange`,
`AfterTheRange`), each by induction on the number of the migration.

**PgLiteInstanceProofs** proves `TypeCorrect` (`TypeOK`: the count does not go below
zero, and no row is anywhere before its query was answered), `HandlesShareInstance` (`HeldIsOpen`:
the count is the number of open handles) and
`AnsweredWritesSurvive` (`WritesSurvive`) for any number of handles, instances and rows. The
invariant adds `OneAlive`: unless one was made next to another (`overlapped`), a single instance
is alive, so what was written is in its memory or, once it is closed, on the disk.

**ConsoleProofs** proves `TypedIsSent` (`StatementsAsTyped`) for any number of lines and any
delay of the answers, from `BufferInv` (outside of a statement the buffer is empty, or the
query it was sent with is still awaited) and `OneMulti` (at most one handler is going to
clear it). Both speak of lines that do not begin a statement while the answer to one is out
(`~crossed`): otherwise the property is false, see the findings.

It also proves that the splitter is right: `SplitsAsPostgres` says
`Statements(s) = PgStatements(s)` for every script `s`, of any length and any nesting of
comments, strings and bodies, for which none of the three exceptions of `Unusual` holds.
`ExecCarriesOut` (`ScriptCarriedOut`) follows for any set of scripts. The argument goes along
the splitter's loop:

- `Open(s, i)`: before character `i` the lexer is outside of everything. `Passed` says that
  what the splitter takes in one round, up to `j`, is what the lexer takes to be one thing,
  and leaves it open again at `j`. There is a lemma for each kind of thing: `LinePassed`,
  `BlockPassed`, `QuotedPassed`, `DollarPassed`, `OnePassed`.
- `Agrees`: in an open place both have cut the same statements off and have seen text, or
  none, since the last cut. `LoopAgrees` carries that along.
- `ExecInv` (`Told`, `Carried`): what exec has sent is a prefix of the statements, and it has
  sent no more after a refusal.

`AlphabetAssumption` (the characters that mean something to the splitter are no letters or
digits, and `E` is a letter) and `ScriptAssumption` (a script is a sequence of its own
characters) are all it needs of the constants.

**SnapshotsProofs** and **SchemaEvolutionProofs** prove `GeneratedIsRecorded` (`Represented`),
`RangesLead` (`RangesReplay`) and `RecordedWellFormed`, for any designs, any number of migrations,
any answers about renames and whatever is applied meanwhile. The inductive invariant, `History`,
says how each migration came about: for some design and some renames, from what the migrations before
it record. Everything else is about one diff, and has no variables:

- `MigrationLeads`: from any schema that can be written down, the up script for any other
  replays to one that can be written down, and to that other one unless `Misrecorded` holds.
  `NothingWritten`: an empty script means that the two are the same, `Misrecorded` or not.
- `GenerateLeads` cuts the script into its nine parts. Each `...Part` lemma says from which snapshot
  to which its part `Leads`; `LeadsOn` puts them together. A part with a statement for each of some items
  is followed item by item (`...Block`, `First`), and what the snapshot is after n items is stated
  outright: `Renamed`, `Dropped`, `Extended`, `Cleared`, `EnumsSoFar`.
- `Outcome` is what a script leads to in any case, known mistakes included: it is exact but for
  the order of enum values, the indexes that another table may have lost, and the columns and
  constraints that were taken for each other. `OutcomeExactly` shows that nothing is left of this
  difference when there is no mistake.
- `OrderTablesLists`: the depth-first search returns each table once, circles or not, by
  induction over how deep it is (`Visits`). `AddedAre`, `PlacedInOrder` and `InOrderIs` show that values
  which are added next to their neighbours end up in the order of the enum.

`EvolutionAssumption` asks no more than that the designs can be written down (`WellFormed`) and that
`TableOrder` is a sequence; `NamesakesAssumption`, that the own constraint of a column is not
taken for another column's. The proof found two conditions that the earlier designs did not show, `SharedIndex`
and `Eponymous`; the projects that use names again are there for them.

**PreparedStatementsProofs** proves `PlaceholdersBound`: `PreparedSpec => []EveryPlaceholderBound`, for
every statement (any sequence of leaves), every object of Args, also one that holds an `Arg` under
several keys or shares it with other statements, and every sequence of `prepare` and `run`. The
property speaks of places in a text and of the arguments of a run; what connects the two is
`Handed`, the invariant of one rendering, shown leaf by leaf (`WriteHands`, `ToQueryHands`): every word
with a number is bound by its slot (`Bound`), every slot is used by a word (`Used`), and the number
kept for an `Arg` is that of a slot with the name the `Arg` has now (`Numbered`). That this name is
the last key that holds it (`NamedByItsKey`) is what `prepare` makes true just before it renders
(`Named`); a later `prepare` may rename the `Arg`, but the slot keeps the key it was made with, so
that the invariant `Inv` need not say anything about `key`. `PreparableAssumption` says that a statement
uses keys of its object only, which its type demands; `NamesAssumption`, that no key is empty, because
an empty one stands for a slot without a key. Since nothing is assumed about the order of the leaves,
the theorem holds for the builders of Queries and for any other.

Induction. The library's theorems about induction and recursive functions take operators as
parameters, which the provers cannot instantiate, so these modules do without: a
statement about every number is proved of the least number for which it fails
(`Smallest`, `Upwards`, `Downwards`, `ByMeasure`), with the statement given as a set. A
recursive function is `CHOOSE`n, so that it has the value of its definition must be proved: such
a function exists because every round of the loop comes closer to the end
(`LoopDefined`, `ReplayDefined` and the lemmas called `...Defined`).

Only model-checked:

- liveness (`EveryRunEnds`, `EveryCallSettles`): fairness and ENABLED are beyond the
  prover;
- what the theorems exclude: a `down` alongside a migrate and branches of a callback side by
  side make some of the properties false, and what a run comes to is a question for runs that
  follow one another;
- the catalog (`DatabaseMatches`, `UpApplies`, `DownReverts`): they compare a script with what
  PostgreSQL does for each of its statements, in an order that matters, under a list of exceptions that speak
  of names after any number of renames. The inductive invariant would have to say which name every
  constraint has got on its way;
- how the builders of queries come to their leaves and what they group by, `findMany`, and
  everything about expressions, geometries and columns: their terms are trees, built
  and read by RECURSIVE operators. The inductions above are along the number of a migration
  or a place in a script; an induction over trees would need the library's theorems.

## Findings

With a run of their own:

1. **The announced revert does not happen** (`runner_rollback`). With the default
   options a script is one joined query with its own `BEGIN`. When it fails, the
   session stays in a failed transaction; `runUpMigration` sends `ROLLBACK` only for
   sequential scripts, so every down script of the catch block is rejected ("current
   transaction is aborted") and each rejection is logged and swallowed.
2. **Transactions of pglite are not isolated** (`tx_pglite`). `acquireClient` hands out
   the one instance to everybody at once.

Seen in the passing runs, as exceptions of their properties or as choices of the model:

*Migrations.* `down` logs a failing script and ends as if its target had been reverted.
`squash` writes its migration without the connector's execution options, so a history that
pglite could run it cannot run any more (`OneByOne = TRUE` in Squash shows it). Enum values
added in a row come out in reverse order, and the next `generate` stops with "has reordered
values" (`SameAnchor`). Types and tables are dropped before the columns that use them
(`DroppedInUse`); a column dropped together with its constraint drops the constraint twice
(`DroppedTwice`); after a rename the constraint of a column is dropped under a name it does
not have (`Misnamed`); the replay does not notice that a column with `_key` inside its name
stopped being unique (`KeyForgotten`); an index outside of the search path cannot be dropped
(`IndexElsewhere`); an enum in a schema without tables has no schema (`Homeless`). A constraint or an
index that is dropped may be somebody else's: when a unique column is renamed and a new one gets its old name, dropping
the uniqueness of the new one drops the constraint of the old one (`Mistaken`); the index of a table in another schema is
taken for that of a table in `public`, by PostgreSQL (`Mistaken`) and by the replay, which takes the first table that has one of
that name (`SharedIndex`, `migration/ddl/indexes.ts:245-253`). A constraint that is called like a column's own one
is dropped with it in the replay; and any constraint whose name is a column's after the first `<table>_` and the first
`_key` are cut out, such as `mail_key`, takes that column's uniqueness with it (`Eponymous`,
`migration/ddl/table.ts:807-817`).
A kill between the records' deletion and the insertion leaves a squashed migration
unrecorded although it is applied; a `down` that overlaps with a `migrate` reverts what that
run has just applied.

*Database.* After `Promise.all` has rejected, other branches of a callback still send queries
on a client that has gone back to the pool, where such a query can fail inside another
call's transaction, whose COMMIT then commits nothing and whose promise resolves
(`Concurrent = TRUE`; whether a driver lets a released client send is its own business).

*pglite.* The comment at `connectors/pglite.ts:50-54` promises one instance on a data
directory; an acquire while the last `close()` is awaited makes a second one, which does not
see the rows the first has yet to write (`overlapped`). An instance that failed to start is kept,
and handed out, until everybody has let go of it. Queries do not ask whether their handle is closed.

*repl and exec.* A statement of several lines that is begun while the answer to the one before
is awaited is sent together with that one's text, or loses its beginning (`crossed`; the
buffer is cleared after the `await`, `cli/commands/repl.ts:78`). At the end of the input the process
exits with queries in flight. The splitter disagrees with PostgreSQL on an escape string continued
on the next line, on `$tag$` inside of a name and on `E` right after a `$` (`Unusual`); `\r` as the end of a
comment and `BEGIN ATOMIC` are left out of the model. A client that failed to connect is not closed.

*Prepared statements and queries.* `prepare` names the `Arg` objects it is given, and a slot
takes the name at the time it is rendered. The `where` of a nested relation renders a subquery in
`exists(...)` without the aliases in force, so it names tables that are not there
(`website/docs/CRUD/relational-query.md:202` shows such a condition on a relation). A relation called like
the root table gives the same alias twice; one called like a column is read by that
column's conversion; `with: {k: undefined}` below the root projects an alias that was never
joined. When `columns` mixes `true` and `false`, the first one decides. Functions over JSON and CASE name
only some of the columns they read (`functions/case.ts:112`), so that an automatic GROUP BY is
refused; Sql templates and correlated subqueries say nothing at all. An insert, update or delete
within WITH drops its own WITH. `.where()` twice keeps the second.

*Expressions* (`Misread`, `Surprising`). A distance operator is written without parentheses, so
arithmetic on a distance is read otherwise; NOT EXISTS in a comparison with `<` binds otherwise;
`and()` and `or()` of nothing leave a hole; `endsWith` and `contains` with an `Arg` or a backslash
look for something else; array literals that contain a column or an `Arg` are written without their query.
`avg` announces its operand's type and returns PostgreSQL's text; `sum` over a bigint announces a
bigint and returns a number; `min`, `max`, `lag` and other functions that return an element's value read an array
column's elements instead of the array; `coalesce`, `greatest`, `least` and CASE read a wider
result by the rule of their first operand (`parseInt` cuts a fraction off, `BigInt` throws on one).
`count(distinct e)` ordered by something else is rejected by PostgreSQL, and so are DISTINCT windows.
`containsAggregate` gives up at a depth of 32, beyond what the model builds.

*Columns* (`Refuses`, `Alters`, `CutWrongly`). `BooleanColumn.toDriverScalar` (`columns/boolean.ts:27-30`)
puts SQL quotes into the value of a placeholder, so PostgreSQL refuses every boolean `Arg` and
every generated boolean of a prepared statement. `NaN` and infinities as literals are read as
names, while as placeholders they are values. A fraction for an integer is rounded in a literal
and refused in a placeholder. A bigint or a numeric that comes back in JSON has passed through a
JavaScript number, and so have the elements of a numeric array in a row: digits are lost, although
`website/docs/Schema/columns.md:112` says that values are returned as strings to avoid just that. A
timestamp without a zone comes back shifted by the program's zone, because it is written in UTC and read
by the local clock. A JSON text that is itself JSON is parsed twice. An enum's, tsvector's or
sparsevec's array is cut wrongly after an element that ends in a backslash (the parser looks at
one character before a quote, `columns/common.ts:603`), and of an array of geographies only the
first is read, for PostGIS separates them by colons. An uuid without a version it knows is refused
as a literal and taken in a placeholder. An array of arrays one of which is empty is written as
a text among arrays, which PostgreSQL refuses (left out of the instance).

*Geometries* (`Loses`). An empty member of a multi-geometry and an empty ring have no text that is
read again; EWKT and EWKB write an undefined srid; an empty point is NaN in WKB and comes back as
one; collections of collections with Z or M lose it under an srid; TWKB's integers wrap beyond
±2^30 units, and fractions of the last digit are cut, also those that only a product of doubles
has (`FallsShort`): 4.35 is written as 434999 and read as 4.34999; what is cut from one
difference is missing from all points after it, and the reader adds quotients up as doubles, so that 0.1
and 0.2 more are 0.30000000000000004; a polygon of holes only is shifted or
lost; GeoJSON drops M, and Z of what is empty. An srid of 0 in GeoJSON is read as 4326.

## What is not modelled

- *Statements only written by hand* (renamed enum values, extensions) in SchemaEvolution;
  Squash has custom ones. Rows: that a statement fails because of the
  data is a fault in MigrationRunner and left out of Catalog.
- *status and push*: they only call what is modelled. *init, logger, validators*: text and
  typing without state. *Options of connectors, `DB.close`*: nothing depends on them but the
  end of the process.
- *Query builders*: set operations, locks, DISTINCT ON, INSERT from a SELECT, UPDATE ... FROM and the
  wording of clauses; `pushArg`, which nobody calls.
- *Expressions*: Sql templates, whose text is the program's; helpers without operands such as `now()`.
  *Columns*: values that are Sql templates, precision and scale, the parsers of drivers other
  than node-postgres.
- *WKX*: the byte order, the digits of a number, and the bounding boxes, sizes and ids of TWKB, which
  the reader skips and the writer never writes.
- *Scripts beyond ASCII*: a name with such a letter ends, for the splitter's check of `E'`,
  where PostgreSQL goes on with it.
- *The text of SQL statements*, where no property is about it: a statement is what it does to
  the state the properties speak of.
