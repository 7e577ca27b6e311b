--------------------------- MODULE MigrationRunner ---------------------------
(***************************************************************************)
(* The commands `durcno migrate` and `durcno down`, with the PostgreSQL     *)
(* session each of them works through.                                      *)
(*                                                                          *)
(* A runner is one invocation of the command line tool.  It keeps one       *)
(* client for the scripts of the migrations; every access to the table      *)
(* durcno.migrations (the ledger) goes through a second, short-lived pool,  *)
(* so a script and its ledger entry are never in the same transaction.      *)
(*                                                                          *)
(* Migrations are numbered in the order of their folder names.  Number 1    *)
(* creates the schema durcno and the ledger in its last statement and       *)
(* drops them in the first statement of its down script.  Statements are    *)
(* abstract: `done[m]' says how many statements of m's up script are in     *)
(* force, an up statement needs all of m's earlier ones and only them, a    *)
(* down statement takes away the last one.                                  *)
(***************************************************************************)
EXTENDS Naturals, FiniteSets

CONSTANTS
  Runner,      \* invocations of the tool that can be alive at the same time
  N,           \* the number of migrations
  Plans,       \* what the migration files may say, see PlanShape
  Overlapping, \* the commands operators let overlap with one another
  MaxRuns,     \* bound: how many invocations are started
  MaxFaults,   \* bound: how many statements the server rejects by itself
  MaxCrashes   \* bound: how many invocations are killed

Migration == 1..N
Command   == {"migrate", "down"}

(* options.execution and options.transaction of an up.ts or a down.ts. *)
Mode == {"joinedTx", "joined", "seqTx", "seq"}

UsesTransaction(mode) == mode \in {"joinedTx", "seqTx"}
IsSequential(mode)    == mode \in {"seqTx", "seq"}

(* size and undo count the statements of up.ts and of down.ts: the latter   *)
(* has none when there is nothing `generate' knows to take back.  For       *)
(* migration 1 it always does: schema and ledger (generate.ts:666, 895).    *)
PlanShape == [Migration -> [up : Mode, down : Mode, size : Nat, undo : Nat]]

ASSUME RunnerAssumption ==
  /\ N \in Nat \ {0}
  /\ Plans \subseteq PlanShape
  /\ \A pl \in Plans :
       /\ pl[1].size > 0 /\ pl[1].undo = pl[1].size
       /\ \A m \in Migration : pl[m].undo \in {0, pl[m].size}
  /\ Overlapping \subseteq Command
  /\ MaxRuns \in Nat /\ MaxFaults \in Nat /\ MaxCrashes \in Nat

VARIABLES
  plan,     \* the migration files
  folders,  \* the migration folders in the working tree
  done,     \* committed: statements of each migration in force
  records,  \* committed: names in durcno.migrations
  session,  \* the server's view of each runner's client
  pc, cmd, target, list, dir, todo, cur, step, mine, exit, \* of each runner
  base,     \* history: what each runner found when it started
  torn,     \* history: migrations whose script and record were cut apart
  runs, faults, crashes

disk   == <<plan, folders>>
db     == <<done, records>>
input  == <<cmd, target, list>>
loop   == <<dir, todo, mine>>
bounds == <<runs, faults, crashes>>
vars   == <<disk, db, session, pc, input, loop, cur, step, exit, base, torn,
            bounds>>

-----------------------------------------------------------------------------
Size(m)   == plan[m].size
InForce(m) == done[m] = Size(m)

(* information_schema.tables has a row for durcno.migrations. *)
LedgerExists == InForce(1)

ScriptMode(p)   == IF dir[p] = "up" THEN plan[cur[p]].up ELSE plan[cur[p]].down
ScriptLength(p) == IF dir[p] = "up" THEN Size(cur[p]) ELSE plan[cur[p]].undo

(* Statements of cur[p] in force once k statements of its script have run. *)
After(p, k) == IF dir[p] = "up" THEN k ELSE Size(cur[p]) - k

(* migrationDirNames[0] in migrate, the last index of the reversed list in  *)
(* down.                                                                    *)
IsFirstMigration(p) == \A m \in list[p] : cur[p] <= m

(* A runner with an open transaction that has changed m keeps the others    *)
(* off m's objects until it ends.                                           *)
Locked(p, m) ==
  \E q \in Runner \ {p} : session[q] = "open" /\ cur[q] = m /\ step[q] > 0

LedgerLocked(p) ==
  \E q \in Runner \ {p} :
    session[q] = "open" /\ cur[q] = 1 /\ dir[q] = "down" /\ step[q] > 0

(* The objects the next statement (or the whole joined script) needs. *)
Expected(p) == IF ScriptMode(p) = "seq" THEN After(p, step[p]) ELSE After(p, 0)
Runnable(p) == done[cur[p]] = Expected(p)

(* The script of cur[p] leaves k of its migration's statements in force.    *)
(* Without its last statement migration 1 has no ledger any more.           *)
Commit(m, k) ==
  /\ done' = [done EXCEPT ![m] = k]
  /\ records' = IF m = 1 /\ k < Size(1) THEN {} ELSE records

(* The server rejects what it was sent: always when bad, or by a fault.     *)
Rejects(bad) ==
  \/ bad /\ UNCHANGED faults
  \/ ~bad /\ faults < MaxFaults /\ faults' = faults + 1

(* The runner stops between a script and its record, or inside a script     *)
(* whose statements commit one by one.                                      *)
Tears(p) ==
  \/ pc[p] = "ledger"
  \/ pc[p] = "script" /\ ScriptMode(p) = "seq" /\ step[p] > 0

Tear(p) == torn' = IF Tears(p) THEN torn \cup {cur[p]} ELSE torn

Goto(p, label) == pc' = [pc EXCEPT ![p] = label]

-----------------------------------------------------------------------------
(* What follows a script that succeeded. *)
Finish(p) ==
  Goto(p, IF dir[p] = "down" /\ IsFirstMigration(p) THEN "pick" ELSE "ledger")

(* Faulty variants of Catch: without the revert loop; reverting every       *)
(* earlier folder; starting the loop over; erasing after a failed script.   *)
CatchWithoutReverting(p) ==
  /\ Goto(p, "pick")
  /\ dir' = [dir EXCEPT ![p] = "down"]
  /\ todo' = [todo EXCEPT ![p] = IF dir[p] = "up" THEN {} ELSE @]
  /\ UNCHANGED mine
CatchRevertingAll(p) ==
  /\ Goto(p, "pick")
  /\ dir' = [dir EXCEPT ![p] = "down"]
  /\ todo' = [todo EXCEPT ![p] = IF dir[p] = "up"
                                 THEN {m \in list[p] : m < cur[p]} ELSE @]
  /\ UNCHANGED mine
CatchRestarting(p) ==
  /\ Goto(p, "pick")
  /\ dir' = [dir EXCEPT ![p] = "down"]
  /\ todo' = [todo EXCEPT ![p] = mine[p]]
  /\ UNCHANGED mine
CatchErasing(p) ==
  /\ Goto(p, IF dir[p] = "up" THEN "pick" ELSE "ledger")
  /\ dir' = [dir EXCEPT ![p] = "down"]
  /\ todo' = [todo EXCEPT ![p] = IF dir[p] = "up" THEN mine[p] ELSE @]
  /\ UNCHANGED mine

(* What follows a script that threw: an up script ends in migrate's catch   *)
(* block, which walks appliedMigrations backwards; a down script's error is *)
(* logged and the walk goes on.                                             *)
Catch(p) ==
  /\ Goto(p, "pick")
  /\ dir' = [dir EXCEPT ![p] = "down"]
  /\ todo' = [todo EXCEPT ![p] = IF dir[p] = "up" THEN mine[p] ELSE @]
  /\ UNCHANGED mine

(* Faulty variant: the catch clause does not throw again. *)
ThrowSwallowed(p) == Finish(p) /\ UNCHANGED loop

(* The catch clause around the script first sends ROLLBACK, but only for a  *)
(* sequential script in a transaction.                                      *)
Throw(p) ==
  IF ScriptMode(p) = "seqTx"
  THEN Goto(p, "rollback") /\ UNCHANGED loop
  ELSE Catch(p)

(* Faulty variant: down does not look for its target. *)
NeverAtTarget(p) == FALSE

(* down stops after its target, whether or not the target was reverted. *)
AtTarget(p) == cmd[p] = "down" /\ cur[p] = target[p]

-----------------------------------------------------------------------------
(* An operator starts a command.  The folder list is read, and the client   *)
(* connected, before anything else happens.                                 *)
Start(p, c, t) ==
  /\ pc[p] = "off" /\ runs < MaxRuns
  /\ \A q \in Runner \ {p} :
       pc[q] # "off" => {c, cmd[q]} \subseteq Overlapping
  /\ runs' = runs + 1
  /\ cmd'     = [cmd EXCEPT ![p] = c]
  /\ target'  = [target EXCEPT ![p] = t]
  /\ list'    = [list EXCEPT ![p] = folders]
  /\ session' = [session EXCEPT ![p] = "idle"]
  /\ dir'     = [dir EXCEPT ![p] = IF c = "migrate" THEN "up" ELSE "down"]
  /\ todo'    = [todo EXCEPT ![p] = {}]
  /\ mine'    = [mine EXCEPT ![p] = {}]
  /\ cur'     = [cur EXCEPT ![p] = 0]
  /\ step'    = [step EXCEPT ![p] = 0]
  /\ exit'    = [exit EXCEPT ![p] = "none"]
  /\ base'    = [base EXCEPT ![p] = [done |-> done, records |-> records,
                                     faults |-> faults]]
  /\ Goto(p, "probe")
  /\ UNCHANGED <<disk, db, torn, faults, crashes>>

(* migrationsTableExists: without the table nothing counts as applied. *)
Probe(p) ==
  /\ pc[p] = "probe"
  /\ Goto(p, IF LedgerExists THEN "read" ELSE "pick")
  /\ todo' = [todo EXCEPT ![p] = IF ~LedgerExists /\ cmd[p] = "migrate"
                                 THEN list[p] ELSE {}]
  /\ UNCHANGED <<disk, db, session, input, dir, mine, cur, step, exit, base,
                 torn, bounds>>

(* migrate keeps the folders without a record, down those with one. *)
ReadRecords(p) ==
  /\ pc[p] = "read" /\ LedgerExists /\ ~LedgerLocked(p)
  /\ todo' = [todo EXCEPT ![p] = IF cmd[p] = "migrate" THEN list[p] \ records
                                 ELSE list[p] \cap records]
  /\ Goto(p, "pick")
  /\ UNCHANGED <<disk, db, session, input, dir, mine, cur, step, exit, base,
                 torn, bounds>>

(* Either query fails: nothing has been applied, the process exits 1. *)
ReadFails(p) ==
  /\ \/ pc[p] = "probe" /\ Rejects(FALSE)
     \/ pc[p] = "read" /\ ~LedgerLocked(p) /\ Rejects(~LedgerExists)
  /\ Goto(p, "off")
  /\ session' = [session EXCEPT ![p] = "closed"]
  /\ exit' = [exit EXCEPT ![p] = "fail"]
  /\ UNCHANGED <<disk, db, input, loop, cur, step, base, torn, runs, crashes>>

(* The for loops: upwards through what is pending, downwards through what   *)
(* is to be reverted.                                                       *)
PickMigration(p) ==
  /\ pc[p] = "pick"
  /\ ~AtTarget(p)
  /\ \E m \in todo[p] :
       /\ \A k \in todo[p] : IF dir[p] = "up" THEN m <= k ELSE k <= m
       /\ cur'  = [cur EXCEPT ![p] = m]
       /\ todo' = [todo EXCEPT ![p] = @ \ {m}]
  /\ step' = [step EXCEPT ![p] = 0]
  /\ Goto(p, "script")
  /\ UNCHANGED <<disk, db, session, input, dir, mine, exit, base, torn, bounds>>

(* client.close and process.exit. *)
Exit(p) ==
  /\ pc[p] = "pick"
  /\ todo[p] = {} \/ AtTarget(p)
  /\ Goto(p, "off")
  /\ session' = [session EXCEPT ![p] = "closed"]
  /\ exit' = [exit EXCEPT ![p] =
                IF cmd[p] = "migrate" /\ dir[p] = "down" THEN "fail" ELSE "ok"]
  /\ UNCHANGED <<disk, db, input, loop, cur, step, base, torn, bounds>>

-----------------------------------------------------------------------------
(* import() of up.ts or down.ts throws, outside the inner try statement. *)
ImportFails(p) ==
  /\ pc[p] = "script" /\ step[p] = 0 /\ session[p] # "open"
  /\ Rejects(FALSE)
  /\ Catch(p)
  /\ UNCHANGED <<disk, db, session, input, cur, step, exit, base, torn, runs,
                 crashes>>

SkipEmpty(p) ==
  /\ pc[p] = "script" /\ ScriptLength(p) = 0
  /\ Finish(p)
  /\ UNCHANGED <<disk, db, session, input, loop, cur, step, exit, base, torn,
                 bounds>>

(* The whole script in one query; without BEGIN and COMMIT it is one        *)
(* implicit transaction, so it is all or nothing either way.                *)
RunJoined(p) ==
  /\ pc[p] = "script" /\ ScriptLength(p) > 0 /\ ~IsSequential(ScriptMode(p))
  /\ session[p] = "idle" /\ ~Locked(p, cur[p]) /\ Runnable(p)
  /\ Commit(cur[p], After(p, ScriptLength(p)))
  /\ Finish(p)
  /\ UNCHANGED <<disk, session, input, loop, cur, step, exit, base, torn,
                 bounds>>

(* A rejected script that began with BEGIN leaves its session in a failed   *)
(* transaction, and the code does not send ROLLBACK for it.                 *)
JoinedFails(p) ==
  /\ pc[p] = "script" /\ ScriptLength(p) > 0 /\ ~IsSequential(ScriptMode(p))
  /\ \/ session[p] = "aborted" /\ UNCHANGED faults
     \/ session[p] = "idle" /\ ~Locked(p, cur[p]) /\ Rejects(~Runnable(p))
  /\ session' = [session EXCEPT ![p] =
                   IF UsesTransaction(ScriptMode(p)) THEN "aborted" ELSE @]
  /\ Throw(p)
  /\ UNCHANGED <<disk, db, input, cur, step, exit, base, torn, runs, crashes>>

Begin(p) ==
  /\ pc[p] = "script" /\ ScriptLength(p) > 0 /\ ScriptMode(p) = "seqTx"
  /\ \/ /\ session[p] = "idle"
        /\ session' = [session EXCEPT ![p] = "open"]
        /\ UNCHANGED <<pc, loop>>
     \/ /\ session[p] = "aborted"
        /\ Throw(p)
        /\ UNCHANGED session
  /\ UNCHANGED <<disk, db, input, cur, step, exit, base, torn, bounds>>

(* The session a sequential script sends its statements through. *)
InScript(p) ==
  /\ pc[p] = "script" /\ step[p] < ScriptLength(p)
  /\ IsSequential(ScriptMode(p))
  /\ ScriptMode(p) = "seqTx" => session[p] = "open"

Statement(p) ==
  /\ InScript(p) /\ session[p] # "aborted"
  /\ ~Locked(p, cur[p]) /\ Runnable(p)
  /\ step' = [step EXCEPT ![p] = @ + 1]
  /\ IF ScriptMode(p) = "seq"
     THEN /\ Commit(cur[p], After(p, step[p] + 1))
          /\ IF step[p] + 1 = ScriptLength(p) THEN Finish(p) ELSE UNCHANGED pc
     ELSE UNCHANGED <<db, pc>>
  /\ UNCHANGED <<disk, session, input, loop, cur, exit, base, torn, bounds>>

StatementFails(p) ==
  /\ InScript(p)
  /\ \/ session[p] = "aborted" /\ UNCHANGED faults
     \/ session[p] # "aborted" /\ ~Locked(p, cur[p]) /\ Rejects(~Runnable(p))
  /\ session' = [session EXCEPT ![p] = IF @ = "open" THEN "aborted" ELSE @]
  /\ Throw(p)
  /\ Tear(p)
  /\ UNCHANGED <<disk, db, input, cur, step, exit, base, runs, crashes>>

(* Faulty variant: a sequential script without its COMMIT. *)
CommitForgotten(p) ==
  /\ pc[p] = "script" /\ ScriptMode(p) = "seqTx" /\ session[p] = "open"
  /\ step[p] = ScriptLength(p)
  /\ Finish(p)
  /\ UNCHANGED <<disk, db, session, input, loop, cur, step, exit, base, torn,
                 bounds>>

(* COMMIT of a sequential script; a rejected COMMIT ends the transaction. *)
CommitScript(p) ==
  /\ pc[p] = "script" /\ ScriptMode(p) = "seqTx" /\ session[p] = "open"
  /\ step[p] = ScriptLength(p)
  /\ session' = [session EXCEPT ![p] = "idle"]
  /\ \/ /\ Commit(cur[p], After(p, step[p]))
        /\ Finish(p)
        /\ UNCHANGED <<loop, faults>>
     \/ /\ Rejects(FALSE)
        /\ Throw(p)
        /\ UNCHANGED db
  /\ UNCHANGED <<disk, input, cur, step, exit, base, torn, runs, crashes>>

Rollback(p) ==
  /\ pc[p] = "rollback"
  /\ session' = [session EXCEPT ![p] = "idle"]
  /\ Catch(p)
  /\ UNCHANGED <<disk, db, input, cur, step, exit, base, torn, bounds>>

-----------------------------------------------------------------------------
(* insertInto(Migrations) after an up script, through its own connection. *)
Insert(p) ==
  /\ pc[p] = "ledger" /\ dir[p] = "up"
  /\ LedgerExists /\ ~LedgerLocked(p) /\ cur[p] \notin records
  /\ records' = records \cup {cur[p]}
  /\ mine' = [mine EXCEPT ![p] = @ \cup {cur[p]}]
  /\ Goto(p, "pick")
  /\ UNCHANGED <<disk, done, session, input, dir, todo, cur, step, exit, base,
                 torn, bounds>>

(* The name is UNIQUE, the table may be gone, the server may refuse. *)
InsertFails(p) ==
  /\ pc[p] = "ledger" /\ dir[p] = "up" /\ ~LedgerLocked(p)
  /\ Rejects(~LedgerExists \/ cur[p] \in records)
  /\ Throw(p)
  /\ Tear(p)
  /\ UNCHANGED <<disk, db, session, input, cur, step, exit, base, runs, crashes>>

(* deleteFrom(Migrations) after a down script. *)
Erase(p) ==
  /\ pc[p] = "ledger" /\ dir[p] = "down" /\ ~LedgerLocked(p)
  /\ LedgerExists
  /\ records' = records \ {cur[p]}
  /\ Goto(p, "pick")
  /\ UNCHANGED <<disk, done, session, input, loop, cur, step, exit, base, torn,
                 bounds>>

EraseFails(p) ==
  /\ pc[p] = "ledger" /\ dir[p] = "down" /\ ~LedgerLocked(p)
  /\ Rejects(~LedgerExists)
  /\ Catch(p)
  /\ Tear(p)
  /\ UNCHANGED <<disk, db, session, input, cur, step, exit, base, runs, crashes>>

-----------------------------------------------------------------------------
(* The process is killed; the server rolls its open transaction back. *)
Crash(p) ==
  /\ pc[p] # "off" /\ crashes < MaxCrashes
  /\ crashes' = crashes + 1
  /\ session' = [session EXCEPT ![p] = "closed"]
  /\ exit' = [exit EXCEPT ![p] = "killed"]
  /\ Goto(p, "off")
  /\ Tear(p)
  /\ UNCHANGED <<disk, db, input, loop, cur, step, base, runs, faults>>

(* A migration arrives in the working tree, from generate or from a merge,  *)
(* not necessarily the newest.                                              *)
AddFolder(m) ==
  /\ m \notin folders
  /\ folders' = folders \cup {m}
  /\ UNCHANGED <<plan, db, session, pc, input, loop, cur, step, exit, base,
                 torn, bounds>>

-----------------------------------------------------------------------------
Init ==
  /\ plan \in Plans
  /\ folders = {1}
  /\ done = [m \in Migration |-> 0]
  /\ records = {}
  /\ session = [p \in Runner |-> "closed"]
  /\ pc      = [p \in Runner |-> "off"]
  /\ cmd     = [p \in Runner |-> "migrate"]
  /\ target  = [p \in Runner |-> 1]
  /\ list    = [p \in Runner |-> {}]
  /\ dir     = [p \in Runner |-> "up"]
  /\ todo    = [p \in Runner |-> {}]
  /\ cur     = [p \in Runner |-> 0]
  /\ step    = [p \in Runner |-> 0]
  /\ mine    = [p \in Runner |-> {}]
  /\ exit    = [p \in Runner |-> "none"]
  /\ base    = [p \in Runner |-> [done |-> done, records |-> {}, faults |-> 0]]
  /\ torn = {}
  /\ runs = 0 /\ faults = 0 /\ crashes = 0

(* What a runner does by itself once it has been started. *)
Work(p) ==
  \/ Probe(p) \/ ReadRecords(p) \/ ReadFails(p)
  \/ PickMigration(p) \/ Exit(p)
  \/ ImportFails(p) \/ SkipEmpty(p) \/ RunJoined(p) \/ JoinedFails(p)
  \/ Begin(p) \/ Statement(p) \/ StatementFails(p) \/ CommitScript(p)
  \/ Rollback(p)
  \/ Insert(p) \/ InsertFails(p) \/ Erase(p) \/ EraseFails(p)

Next ==
  \/ \E p \in Runner : Work(p) \/ Crash(p)
  \/ \E p \in Runner, c \in Command, t \in Migration :
       Start(p, c, t)
  \/ \E m \in Migration : AddFolder(m)

Spec == Init /\ [][Next]_vars

(* The runtime keeps executing a started process and the server answers. *)
FairSpec == Spec /\ \A p \in Runner : WF_vars(Work(p))

-----------------------------------------------------------------------------
(* Types, and the ranges the loops rely on: a script position never passes  *)
(* the end of the script, no migration has more statements in force than it *)
(* has, and only a runner inside a sequential script has a transaction open.*)
DomainsOK ==
  /\ plan \in Plans /\ folders \subseteq Migration
  /\ done \in [Migration -> Nat]
  /\ records \subseteq Migration /\ torn \subseteq Migration
  /\ session \in [Runner -> {"closed", "idle", "open", "aborted"}]
  /\ pc \in [Runner -> {"off", "probe", "read", "pick", "script", "rollback",
                        "ledger"}]
  /\ cmd \in [Runner -> Command] /\ dir \in [Runner -> {"up", "down"}]
  /\ target \in [Runner -> Migration] /\ cur \in [Runner -> 0..N]
  /\ list \in [Runner -> SUBSET Migration]
  /\ todo \in [Runner -> SUBSET Migration]
  /\ mine \in [Runner -> SUBSET Migration]
  /\ step \in [Runner -> Nat]
  /\ exit \in [Runner -> {"none", "ok", "fail", "killed"}]
  /\ base \in [Runner -> [done : [Migration -> Nat], records : SUBSET Migration,
                          faults : Nat]]
  /\ runs \in Nat /\ faults \in Nat /\ crashes \in Nat

PositionOK(p) ==
  /\ pc[p] \in {"script", "rollback", "ledger"} => cur[p] \in Migration
  /\ pc[p] = "script" => step[p] <= ScriptLength(p)
  /\ session[p] = "open" =>
       pc[p] = "script" /\ ScriptMode(p) = "seqTx" /\ ScriptLength(p) > 0

TypeOK ==
  /\ DomainsOK
  /\ \A m \in Migration : done[m] <= Size(m)
  /\ \A p \in Runner : PositionOK(p)

(* p has taken statements of m back and has not yet erased its record. *)
Reverting(p, m) == cur[p] = m /\ dir[p] = "down" /\ Tears(p)

(* A record says that every statement of its migration is in force, except  *)
(* while a runner is taking the migration back, and except for the          *)
(* migrations whose runner was stopped between script and record.           *)
RecordedInForce ==
  \A m \in records :
    InForce(m) \/ m \in torn \/ \E p \in Runner : Reverting(p, m)

(* p has applied m and has not begun to take it back. *)
Holds(p, m) ==
  /\ pc[p] # "off" /\ cmd[p] = "migrate"
  /\ IF dir[p] = "up"
     THEN m \in mine[p] \/ (pc[p] = "ledger" /\ cur[p] = m)
     ELSE m \in todo[p]

(* However migrate runs interleave, what one of them applied stays in force *)
(* until that same run takes it back.                                       *)
HeldInForce ==
  \A p \in Runner, m \in Migration : Holds(p, m) => InForce(m)

(* Two runs of migrate never both count the same migration as theirs, so    *)
(* neither reverts the other's work.                                        *)
OneHolder ==
  \A p, q \in Runner, m \in Migration :
    Holds(p, m) /\ Holds(q, m) /\ Size(m) > 0 => p = q

Reversible(m) == plan[m].undo = Size(m)

(* The run of p is over, and in it the server refused at most k statements  *)
(* that it could have executed.                                             *)
Ended(p, c, status, k) ==
  /\ pc[p] = "off" /\ cmd[p] = c /\ exit[p] = status
  /\ faults <= base[p].faults + k

(* p found a database in which exactly the recorded migrations are in force. *)
FoundInStep(p) ==
  \A m \in Migration :
    base[p].done[m] = IF m \in base[p].records THEN Size(m) ELSE 0

(* The rollback of a failed migrate (migrate.ts, "Reverting applied         *)
(* migrations..."): unless an up script was one joined transaction, a run   *)
(* that met one failure, and none between a script and its record, leaves   *)
(* the database as it found it.                                             *)
FailedMigrateLeavesNoTrace ==
  \A p \in Runner :
    /\ Ended(p, "migrate", "fail", 1) /\ FoundInStep(p) /\ torn = {}
    /\ \A m \in Migration : plan[m].up # "joinedTx"
    => /\ records = base[p].records
       /\ \A m \in Migration : Reversible(m) => done[m] = base[p].done[m]

(* A down without failures undoes the target and all that is newer, and     *)
(* nothing that is older.                                                   *)
DownUndoesExactlyFromTarget ==
  \A p \in Runner :
    /\ Ended(p, "down", "ok", 0) /\ FoundInStep(p)
    /\ target[p] \in base[p].records
    => /\ records = {m \in base[p].records : m < target[p]}
       /\ \A m \in Migration :
            IF m \in base[p].records /\ m >= target[p]
            THEN Reversible(m) => done[m] = 0
            ELSE done[m] = base[p].done[m]

(* Every command comes to an end. *)
EveryRunEnds == \A p \in Runner : pc[p] # "off" ~> pc[p] = "off"

(* With one command at a time, the runner implements the ledger: every step *)
(* is one of the four changes MigrationLedger allows, or none.              *)
Ledger == INSTANCE MigrationLedger WITH
  kept <- {m \in Migration : plan[m].undo = 0},
  inForce <- {m \in Migration : InForce(m)}

LedgerImplemented == Ledger!Spec

-----------------------------------------------------------------------------
(* What the documentation says and the code does not do.                    *)

(* migrate.ts:62 "Migration failed. Reverting applied migrations...": when  *)
(* the command has ended after one failure, nothing it applied is recorded. *)
AnnouncedRollbackHappens ==
  \A p \in Runner :
    Ended(p, "migrate", "fail", 1) => mine[p] \cap records = {}
=============================================================================
