------------------------------- MODULE Squash -------------------------------
(***************************************************************************)
(* The command `durcno squash': a range of migration folders becomes one,   *)
(* and the ledger of the developer's database follows.                      *)
(*                                                                          *)
(* Migrations are numbered in the order of their folder names.  An up.ts is *)
(* what its statements make and drop of the database's objects; the objects *)
(* in Custom come from ddl.custom, which a snapshot does not see.  That a   *)
(* snapshot diff replays to what it was made from is taken as given here.   *)
(* A ledger that does not exist yet counts as empty, as squash.ts does.     *)
(***************************************************************************)
EXTENDS Naturals, FiniteSets

CONSTANTS
  N,          \* the number of migrations
  Object,     \* what migrations make and drop
  Custom,     \* those that only ddl.custom makes and drops
  Histories,  \* what the up.ts files may say at first
  OneByOne,   \* pglite: does a query hold a single statement only?
  MaxRuns,    \* bound: how many times squash is started
  MaxStops    \* bound: how many runs are killed or die of an error

Name == 1..N

(* options.execution of an up.ts, and its statements. *)
Execution == {"joined", "sequential"}
Script == [make : SUBSET Object, drop : SUBSET Object, execution : Execution]
NoScript == [make |-> {}, drop |-> {}, execution |-> "joined"]

(* How much of a folder is on the disk. *)
Stage == {"absent", "empty", "up", "whole"}

Job == [start : Name, end : Name, force : BOOLEAN, skipDb : BOOLEAN,
        names : SUBSET Name]

ASSUME SquashAssumption ==
  /\ N \in Nat \ {0}
  /\ Custom \subseteq Object
  /\ Histories \subseteq [Name -> Script]
  /\ OneByOne \in BOOLEAN
  /\ MaxRuns \in Nat /\ MaxStops \in Nat

VARIABLES
  stage, up,        \* the migration folders
  records, objects, \* the database: durcno.migrations, and what is there
  pc, job, rangeAllApplied, squashed, todo, exit, \* of the running squash
  base,             \* history: folders when it started, database when it looked
  disturbed,        \* history: was a migration applied after that?
  runs, stops

disk  == <<stage, up>>
db    == <<records, objects>>
local == <<job, rangeAllApplied, squashed, todo>>
vars  == <<disk, db, pc, local, exit, base, disturbed, runs, stops>>

-----------------------------------------------------------------------------
(* Replaying migrations.                                                    *)

(* r says what is there and whether every statement so far could run. *)
Run(r, s) ==
  [ok      |-> /\ r.ok
               /\ s.make \cap r.objects = {} /\ s.drop \subseteq r.objects
               /\ OneByOne /\ s.make \cup s.drop # {} =>
                    s.execution = "sequential",
   objects |-> (r.objects \ s.drop) \cup s.make]

(* The migrations in `names', in order, from the objects in `from': what    *)
(* has become of it after each number, and in the end.                      *)
Replayed(scripts, names, from) ==
  LET after[i \in 0..N] ==
        IF i = 0 THEN [ok |-> TRUE, objects |-> from]
        ELSE IF i \in names THEN Run(after[i - 1], scripts[i])
        ELSE after[i - 1]
  IN  after

Replay(scripts, names, from) == Replayed(scripts, names, from)[N]

Snapshot(scripts, names) == Replay(scripts, names, {}).objects \ Custom
IsCustom(s) == (s.make \cup s.drop) \cap Custom # {}

(* Mutant: the snapshots are swapped. *)
DiffSwapped(prev, curr) ==
  [make |-> prev \ curr, drop |-> curr \ prev, execution |-> "joined"]

(* What generateMigration writes, with the default options. *)
Diff(prev, curr) ==
  [make |-> curr \ prev, drop |-> prev \ curr, execution |-> "joined"]

Folders(st) == {n \in Name : st[n] # "absent"}
Importable  == {n \in Name : stage[n] \in {"up", "whole"}}

(* Mutants: off by one. *)
BeforeAndStart == {n \in job.names : n <= job.start}
RangeAndNext   == {n \in job.names : job.start <= n /\ n <= job.end + 1}

(* before and range of the running command. *)
Before == {n \in job.names : n < job.start}
Range  == {n \in job.names : job.start <= n /\ n <= job.end}

Least(S) == CHOOSE n \in S : \A m \in S : n <= m

Init ==
  /\ up \in Histories
  /\ stage = [n \in Name |-> "whole"]
  /\ records \in {S \in SUBSET Name : Replay(up, S, {}).ok}
  /\ objects = Replay(up, records, {}).objects
  /\ pc = "idle"
  /\ job = [start |-> 1, end |-> 1, force |-> FALSE, skipDb |-> FALSE,
            names |-> {}]
  /\ rangeAllApplied = FALSE
  /\ squashed = NoScript
  /\ todo = {}
  /\ exit = "none"
  /\ base = [stage |-> stage, up |-> up, records |-> records,
             objects |-> objects]
  /\ disturbed = FALSE
  /\ runs = 0
  /\ stops = 0

-----------------------------------------------------------------------------
(* squash(start, end, options).                                             *)

Goto(from, to) == pc = from /\ pc' = to

End(from, code) ==
  /\ Goto(from, "idle")
  /\ exit' = code

(* The command reads the folder names and checks its arguments. *)
Start(start, end, force, skipDb) ==
  /\ pc = "idle" /\ runs < MaxRuns
  /\ runs' = runs + 1
  /\ job' = [start |-> start, end |-> end, force |-> force,
             skipDb |-> skipDb, names |-> Folders(stage)]
  /\ base' = [stage |-> stage, up |-> up, records |-> records,
              objects |-> objects]
  /\ rangeAllApplied' = FALSE
  /\ squashed' = NoScript
  /\ todo' = {}
  /\ disturbed' = FALSE
  /\ LET valid == {start, end} \subseteq Folders(stage) /\ start <= end IN
       \/ ~valid /\ End("idle", "refused")
       \/ valid /\ start = end /\ End("idle", "nothing")
       \/ valid /\ start # end /\ Goto("idle", "check") /\ exit' = "none"
  /\ UNCHANGED <<disk, db, stops>>

(* The range must be applied as a whole or not at all. *)
CheckDatabase ==
  /\ LET applied == Range \cap records IN
       \/ /\ job.skipDb
          /\ Goto("check", "scan")
          /\ UNCHANGED <<rangeAllApplied, exit>>
       \/ /\ ~job.skipDb
          /\ applied \notin {{}, Range}
          /\ End("check", "refused")
          /\ UNCHANGED rangeAllApplied
       \/ /\ ~job.skipDb
          /\ applied \in {{}, Range}
          /\ Goto("check", "scan")
          /\ rangeAllApplied' = (applied = Range)
          /\ UNCHANGED exit
  /\ base' = IF job.skipDb THEN base
             ELSE [base EXCEPT !.records = records, !.objects = objects]
  /\ UNCHANGED <<disk, db, job, squashed, todo, disturbed, runs, stops>>

(* The imports stop at the first migration with a custom statement. *)
Scan ==
  /\ LET odd == {n \in Range : n \notin Importable \/ IsCustom(up[n])}
         broken == odd # {} /\ Least(odd) \notin Importable
         custom == odd # {} /\ ~broken
     IN \/ broken /\ End("scan", "broken")
        \/ custom /\ ~job.force /\ End("scan", "refused")
        \/ /\ ~broken /\ (custom => job.force)
           /\ Goto("scan", "build")
           /\ UNCHANGED exit
  /\ UNCHANGED <<disk, db, local, base, disturbed, runs, stops>>

(* Mutant: that there is nothing to squash is noticed after the folders     *)
(* are gone.                                                                *)
BuildTooLate ==
  /\ End("build", "nothing")
  /\ Snapshot(up, Before) = Snapshot(up, Before \cup Range)
  /\ stage' = [n \in Name |-> IF n \in Range THEN "absent" ELSE stage[n]]
  /\ UNCHANGED <<up, db, local, base, disturbed, runs, stops>>

(* Both snapshots are replayed and their difference becomes the migration. *)
Build ==
  /\ LET prev == Snapshot(up, Before)
         curr == Snapshot(up, Before \cup Range)
         readable == Before \cup Range \subseteq Importable
     IN \/ ~readable /\ End("build", "broken") /\ UNCHANGED <<squashed, todo>>
        \/ /\ readable /\ prev = curr
           /\ End("build", "nothing")
           /\ UNCHANGED <<squashed, todo>>
        \/ /\ readable /\ prev # curr
           /\ Goto("build", "delete")
           /\ squashed' = Diff(prev, curr)
           /\ todo' = Range
           /\ UNCHANGED exit
  /\ UNCHANGED <<disk, db, job, rangeAllApplied, base, disturbed, runs, stops>>

(* Mutant: the record goes with the folder. *)
DeleteBoth ==
  /\ pc = "delete" /\ todo # {}
  /\ stage' = [stage EXCEPT ![Least(todo)] = "absent"]
  /\ records' = IF job.skipDb THEN records ELSE records \ {Least(todo)}
  /\ todo' = todo \ {Least(todo)}
  /\ UNCHANGED <<up, objects, pc, job, rangeAllApplied, squashed, exit, base,
                 disturbed, runs, stops>>

(* rmSync of one folder of the range, oldest first. *)
DeleteFolder ==
  /\ pc = "delete" /\ todo # {}
  /\ stage' = [stage EXCEPT ![Least(todo)] = "absent"]
  /\ todo' = todo \ {Least(todo)}
  /\ UNCHANGED <<up, db, pc, job, rangeAllApplied, squashed, exit, base,
                 disturbed, runs, stops>>

(* mkdirSync, then up.ts, then down.ts. *)
MakeFolder ==
  /\ todo = {}
  /\ Goto("delete", "up")
  /\ stage' = [stage EXCEPT ![job.start] = "empty"]
  /\ UNCHANGED <<up, db, local, exit, base, disturbed, runs, stops>>

WriteUp ==
  /\ Goto("up", "down")
  /\ stage' = [stage EXCEPT ![job.start] = "up"]
  /\ up' = [up EXCEPT ![job.start] = squashed]
  /\ UNCHANGED <<db, local, exit, base, disturbed, runs, stops>>

(* Mutant: the ledger is rewritten whatever is applied. *)
WriteDownRecording ==
  /\ stage' = [stage EXCEPT ![job.start] = "whole"]
  /\ Goto("down", "ledger")
  /\ todo' = Range
  /\ UNCHANGED <<up, db, job, rangeAllApplied, squashed, exit, base, disturbed,
                 runs, stops>>

WriteDown ==
  /\ stage' = [stage EXCEPT ![job.start] = "whole"]
  /\ \/ /\ rangeAllApplied
        /\ Goto("down", "ledger")
        /\ todo' = Range
        /\ UNCHANGED exit
     \/ /\ ~rangeAllApplied
        /\ End("down", "squashed")
        /\ UNCHANGED todo
  /\ UNCHANGED <<up, db, job, rangeAllApplied, squashed, base, disturbed,
                 runs, stops>>

(* One DELETE for each migration of the range, committed on its own. *)
EraseRecord ==
  /\ pc = "ledger" /\ todo # {}
  /\ records' = records \ {Least(todo)}
  /\ todo' = todo \ {Least(todo)}
  /\ UNCHANGED <<disk, objects, pc, job, rangeAllApplied, squashed, exit,
                 base, disturbed, runs, stops>>

InsertRecord ==
  /\ todo = {} /\ job.start \notin records
  /\ End("ledger", "squashed")
  /\ records' = records \cup {job.start}
  /\ UNCHANGED <<disk, objects, local, base, disturbed, runs, stops>>

(* The command is killed, or an error nobody catches ends it: a database    *)
(* that cannot be reached, a file that cannot be removed or written, a      *)
(* statement that is refused.                                               *)
Stop ==
  /\ pc # "idle" /\ stops < MaxStops
  /\ stops' = stops + 1
  /\ End(pc, "stopped")
  /\ UNCHANGED <<disk, db, local, base, disturbed, runs>>

-----------------------------------------------------------------------------
(* `durcno migrate', which works on whole folders only, applies the first   *)
(* pending migration and records it.                                        *)
Migrate ==
  /\ \A n \in Folders(stage) : stage[n] = "whole"
  /\ LET pending == Folders(stage) \ records IN
       /\ pending # {}
       /\ LET after == Run([ok |-> TRUE, objects |-> objects],
                           up[Least(pending)])
          IN after.ok /\ objects' = after.objects
       /\ records' = records \cup {Least(pending)}
  /\ disturbed' = (disturbed \/ pc # "check" \/ job.skipDb)
  /\ UNCHANGED <<disk, pc, local, exit, base, runs, stops>>

Next ==
  \/ \E start, end \in Name, force, skipDb \in BOOLEAN :
       Start(start, end, force, skipDb)
  \/ CheckDatabase \/ Scan \/ Build
  \/ DeleteFolder \/ MakeFolder \/ WriteUp \/ WriteDown
  \/ EraseRecord \/ InsertRecord
  \/ Stop \/ Migrate

Spec == Init /\ [][Next]_vars
-----------------------------------------------------------------------------
(* Properties.                                                              *)

Readable(st) == {n \in Name : st[n] \in {"up", "whole"}}
Pending(st, recorded) == Readable(st) \ recorded

Recorded(st, scripts, recorded) ==
  Replay(scripts, recorded \cap Readable(st), {}).objects

Succeeded == pc = "idle" /\ exit = "squashed"

(* When the command looked, all folders were a possible history, so were    *)
(* the recorded ones, and the ledger told the truth.                        *)
Orderly ==
  /\ Replay(base.up, Readable(base.stage), {}).ok
  /\ Replay(base.up, base.records \cap Readable(base.stage), {}) =
       [ok |-> TRUE, objects |-> base.objects]

(* "Cannot squash a mix of applied and unapplied migrations": the command   *)
(* checked that, or was told not to and was lucky; and no migration was     *)
(* applied since.  (`migrate' applies what is pending even where later      *)
(* migrations are applied already, and then a ledger may no longer tell, in *)
(* the order of the names, what is there.)                                  *)
Checked ==
  /\ ~disturbed
  /\ job.skipDb => Range \cap base.records \in {{}, Range}

(* A squash that reports success leaves folders that describe the same      *)
(* schema as before, and, unless custom statements were given up with       *)
(* --force, the same database (squash.ts:154-186).                          *)
SchemaPreserved ==
  Succeeded =>
    LET before == Readable(base.stage)
        after  == Readable(stage)
    IN /\ Snapshot(up, after) = Snapshot(base.up, before)
       /\ ~job.force =>
            Replay(up, after, {}).objects = Replay(base.up, before, {}).objects

(* If the ledger told the truth about the database when the command looked  *)
(* at it, it does when success is reported, and it names no migration that  *)
(* is gone: migrate goes on from there (squash.ts:93-125, 207-217).         *)
RecordsTellDatabase ==
  Succeeded /\ Checked /\ Orderly =>
    LET ignored == IF job.force THEN Custom ELSE {} IN
    /\ Recorded(stage, up, records) \ ignored = objects \ ignored
    /\ ~job.skipDb /\ base.records \subseteq Folders(base.stage) =>
         records \subseteq Folders(stage)

(* What could be applied before can be applied afterwards: the pending      *)
(* migrations, in order, to the database (squash.ts:177-205).               *)
StillDeployable ==
  /\ Succeeded /\ Checked /\ Orderly /\ ~job.force
  /\ Replay(base.up, Pending(base.stage, base.records), base.objects).ok
  => Replay(up, Pending(stage, records), objects).ok

(* A squash that refuses, finds nothing to do or cannot read a migration    *)
(* has changed nothing (squash.ts:46-193).                                  *)
RefusalChangesNothing ==
  pc = "idle" /\ exit \in {"refused", "nothing", "broken"} =>
    stage = base.stage /\ up = base.up /\ base.records \subseteq records

(* Whatever happens, a kill included: migrations outside of the range keep  *)
(* their folders and their records (squash.ts:82-85, 195-217).              *)
OutsideUntouched ==
  \A n \in {m \in Name : m < job.start \/ m > job.end} :
    /\ stage[n] = base.stage[n] /\ up[n] = base.up[n]
    /\ n \in base.records => n \in records

(* Whatever happens, a kill included: a record is only given up once the    *)
(* migration that takes its place is on the disk (squash.ts:195-217).       *)
FoldersFirst ==
  ~(base.records \subseteq records) =>
    /\ stage[job.start] = "whole" /\ up[job.start] = squashed
    /\ \A n \in Range \ {job.start} : stage[n] = "absent"
=============================================================================
