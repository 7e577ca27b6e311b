------------------------ MODULE MigrationRunnerProofs ------------------------
(* Proofs about MigrationRunner, for every number of migrations, every      *)
(* runner set, every plan and every bound.                                  *)
EXTENDS MigrationRunner, TLAPS

LEMMA PlanFacts ==
  ASSUME DomainsOK, NEW m \in Migration
  PROVE  /\ plan[m] \in [up : Mode, down : Mode, size : Nat, undo : Nat]
         /\ Size(m) \in Nat
         /\ plan[m].undo \in {0, Size(m)}
         /\ 1 \in Migration /\ Size(1) > 0
BY RunnerAssumption DEF DomainsOK, PlanShape, Migration, Size

LEMMA ScriptFacts ==
  ASSUME DomainsOK, NEW p \in Runner, cur[p] \in Migration
  PROVE  /\ ScriptMode(p) \in Mode
         /\ ScriptLength(p) \in Nat /\ ScriptLength(p) <= Size(cur[p])
         /\ \A k \in 0..ScriptLength(p) : After(p, k) \in 0..Size(cur[p])
<1>1. /\ plan[cur[p]] \in [up : Mode, down : Mode, size : Nat, undo : Nat]
      /\ Size(cur[p]) \in Nat
      /\ plan[cur[p]].undo \in {0, Size(cur[p])}
  BY PlanFacts
<1>2. dir[p] \in {"up", "down"}
  BY DEF DomainsOK
<1> QED
  BY <1>1, <1>2 DEF ScriptMode, ScriptLength, After, Size

USE DEF disk, db, input, loop, bounds

LEMMA InitTypeOK == Init => TypeOK
<1> SUFFICES ASSUME Init PROVE TypeOK
  OBVIOUS
<1>1. DomainsOK
  BY RunnerAssumption DEF Init, DomainsOK, Migration, Command
<1>2. \A m \in Migration : done[m] <= Size(m)
  BY <1>1, PlanFacts DEF Init
<1> QED
  BY <1>1, <1>2 DEF TypeOK, PositionOK, Init

LEMMA StartDomains ==
  ASSUME DomainsOK, NEW p \in Runner, NEW c \in Command, NEW t \in Migration,
         Start(p, c, t)
  PROVE  DomainsOK'
<1>1. [done |-> done, records |-> records, faults |-> faults]
        \in [done : [Migration -> Nat], records : SUBSET Migration,
             faults : Nat]
  BY DEF DomainsOK
<1>2. base' \in [Runner -> [done : [Migration -> Nat],
                           records : SUBSET Migration, faults : Nat]]
  BY <1>1 DEF DomainsOK, Start
<1>3. /\ plan' = plan /\ folders' = folders /\ done' = done
      /\ records' = records /\ torn' = torn /\ faults' = faults
      /\ crashes' = crashes
  BY DEF Start
<1>4. /\ cmd' \in [Runner -> Command] /\ dir' \in [Runner -> {"up", "down"}]
      /\ target' \in [Runner -> Migration] /\ cur' \in [Runner -> 0..N]
      /\ list' \in [Runner -> SUBSET Migration]
  BY RunnerAssumption DEF DomainsOK, Start
<1>5. /\ todo' \in [Runner -> SUBSET Migration]
      /\ mine' \in [Runner -> SUBSET Migration]
      /\ step' \in [Runner -> Nat]
      /\ exit' \in [Runner -> {"none", "ok", "fail", "killed"}]
      /\ session' \in [Runner -> {"closed", "idle", "open", "aborted"}]
      /\ pc' \in [Runner -> {"off", "probe", "read", "pick", "script",
                             "rollback", "ledger"}]
      /\ runs' \in Nat
  BY DEF DomainsOK, Start, Goto
<1> QED
  BY <1>2, <1>3, <1>4, <1>5 DEF DomainsOK

(* What the shared parts of the actions do to the domains. *)
LoopOK ==
  /\ pc \in [Runner -> {"off", "probe", "read", "pick", "script", "rollback",
                        "ledger"}]
  /\ dir \in [Runner -> {"up", "down"}]
  /\ todo \in [Runner -> SUBSET Migration]
  /\ mine \in [Runner -> SUBSET Migration]

LEMMA CatchDomains ==
  ASSUME DomainsOK, NEW p \in Runner, Catch(p) PROVE LoopOK'
BY DEF DomainsOK, LoopOK, Catch, Goto

LEMMA ThrowDomains ==
  ASSUME DomainsOK, NEW p \in Runner, Throw(p) PROVE LoopOK'
BY CatchDomains DEF DomainsOK, LoopOK, Throw, Goto

LEMMA FinishDomains ==
  ASSUME DomainsOK, NEW p \in Runner, Finish(p)
  PROVE  pc' \in [Runner -> {"off", "probe", "read", "pick", "script",
                             "rollback", "ledger"}]
BY DEF DomainsOK, Finish, Goto

LEMMA RejectDomains ==
  ASSUME DomainsOK, NEW bad \in BOOLEAN, Rejects(bad)
  PROVE  faults' \in Nat
BY DEF DomainsOK, Rejects

LEMMA TearDomains ==
  ASSUME DomainsOK, NEW p \in Runner, Tear(p), Tears(p) => cur[p] \in Migration
  PROVE  torn' \subseteq Migration
BY DEF DomainsOK, Tear

LEMMA CommitDomains ==
  ASSUME TypeOK, NEW m \in Migration, NEW k \in 0..Size(m), Commit(m, k)
  PROVE  /\ done' \in [Migration -> Nat]
         /\ \A n \in Migration : done'[n] <= Size(n)
         /\ records' \subseteq Migration
BY PlanFacts DEF TypeOK, DomainsOK, Commit

LEMMA WorkDomains ==
  ASSUME TypeOK, NEW p \in Runner, Work(p) \/ Crash(p)
  PROVE  DomainsOK'
<1>0. pc[p] \in {"script", "rollback", "ledger"} => cur[p] \in Migration
  BY DEF TypeOK, PositionOK
<1>1. CASE Probe(p)
  BY <1>1 DEF TypeOK, DomainsOK, Probe, Goto
<1>2. CASE ReadRecords(p)
  BY <1>2 DEF TypeOK, DomainsOK, ReadRecords, Goto
<1>3. CASE ReadFails(p)
  BY <1>3, RejectDomains DEF TypeOK, DomainsOK, ReadFails, Goto
<1>4. CASE PickMigration(p)
  <2>1. PICK m \in todo[p] : /\ cur' = [cur EXCEPT ![p] = m]
                            /\ todo' = [todo EXCEPT ![p] = @ \ {m}]
    BY <1>4 DEF PickMigration
  <2>2. m \in 0..N
    BY RunnerAssumption DEF TypeOK, DomainsOK, Migration
  <2>3. /\ cur' \in [Runner -> 0..N]
        /\ todo' \in [Runner -> SUBSET Migration]
    BY <2>1, <2>2 DEF TypeOK, DomainsOK
  <2> QED
    BY <1>4, <2>3 DEF TypeOK, DomainsOK, PickMigration, Goto
<1>5. CASE Exit(p)
  BY <1>5 DEF TypeOK, DomainsOK, Exit, Goto
<1>6. CASE ImportFails(p)
  BY <1>6, CatchDomains, RejectDomains DEF TypeOK, DomainsOK, LoopOK, ImportFails
<1>7. CASE SkipEmpty(p)
  BY <1>7, FinishDomains DEF TypeOK, DomainsOK, SkipEmpty
<1>8. CASE RunJoined(p)
  <2>1. cur[p] \in Migration /\ ScriptLength(p) \in Nat
    BY <1>0, <1>8, ScriptFacts DEF RunJoined, TypeOK
  <2>2. After(p, ScriptLength(p)) \in 0..Size(cur[p])
    BY <2>1, ScriptFacts DEF TypeOK
  <2>3. done' \in [Migration -> Nat] /\ records' \subseteq Migration
    BY <1>8, <2>1, <2>2, CommitDomains DEF RunJoined
  <2> QED
    BY <1>8, <2>3, FinishDomains DEF TypeOK, DomainsOK, RunJoined
<1>9. CASE JoinedFails(p)
  BY <1>9, ThrowDomains, RejectDomains DEF TypeOK, DomainsOK, LoopOK, JoinedFails
<1>10. CASE Begin(p)
  BY <1>10, ThrowDomains DEF TypeOK, DomainsOK, LoopOK, Begin
<1>11. CASE Statement(p)
  <2>1. cur[p] \in Migration /\ step[p] + 1 \in 0..ScriptLength(p)
    BY <1>0, <1>11, ScriptFacts DEF Statement, InScript, TypeOK, DomainsOK
  <2>2. After(p, step[p] + 1) \in 0..Size(cur[p])
    BY <2>1, ScriptFacts DEF TypeOK
  <2>3. /\ done' \in [Migration -> Nat]
        /\ records' \subseteq Migration
    BY <1>11, <2>1, <2>2, CommitDomains DEF Statement, TypeOK, DomainsOK
  <2>4. pc' \in [Runner -> {"off", "probe", "read", "pick", "script",
                            "rollback", "ledger"}]
    BY <1>11, FinishDomains DEF Statement, TypeOK, DomainsOK
  <2>5. step' \in [Runner -> Nat]
    BY <1>11 DEF Statement, TypeOK, DomainsOK
  <2>6. UNCHANGED <<disk, session, input, loop, cur, exit, base, torn, bounds>>
    BY <1>11 DEF Statement
  <2> QED
    BY <2>3, <2>4, <2>5, <2>6 DEF TypeOK, DomainsOK
<1>12. CASE StatementFails(p)
  <2>1. faults' \in Nat
    BY <1>12 DEF StatementFails, Rejects, TypeOK, DomainsOK
  <2>2. torn' \subseteq Migration
    BY <1>0, <1>12, TearDomains DEF StatementFails, Tears, TypeOK
  <2>3. LoopOK'
    BY <1>12, ThrowDomains DEF StatementFails, TypeOK
  <2> QED
    BY <1>12, <2>1, <2>2, <2>3 DEF TypeOK, DomainsOK, LoopOK, StatementFails
<1>13. CASE CommitScript(p)
  <2>1. cur[p] \in Migration /\ ScriptLength(p) \in Nat
    BY <1>0, <1>13, ScriptFacts DEF CommitScript, TypeOK
  <2>2. After(p, ScriptLength(p)) \in 0..Size(cur[p])
    BY <2>1, ScriptFacts DEF TypeOK
  <2>3. CASE Commit(cur[p], After(p, step[p])) /\ Finish(p)
             /\ UNCHANGED <<loop, faults>>
    <3>1. done' \in [Migration -> Nat] /\ records' \subseteq Migration
      BY <1>13, <2>1, <2>2, <2>3, CommitDomains DEF CommitScript
    <3> QED
      BY <1>13, <2>3, <3>1, FinishDomains DEF TypeOK, DomainsOK, CommitScript
  <2>4. CASE Rejects(FALSE) /\ Throw(p) /\ UNCHANGED db
    BY <1>13, <2>4, ThrowDomains, RejectDomains
    DEF TypeOK, DomainsOK, LoopOK, CommitScript
  <2> QED
    BY <1>13, <2>3, <2>4 DEF CommitScript
<1>14. CASE Rollback(p)
  BY <1>14, CatchDomains DEF TypeOK, DomainsOK, LoopOK, Rollback
<1>15. CASE Insert(p)
  BY <1>0, <1>15 DEF TypeOK, DomainsOK, Insert, Goto
<1>16. CASE InsertFails(p)
  BY <1>0, <1>16, ThrowDomains, RejectDomains, TearDomains
  DEF TypeOK, DomainsOK, LoopOK, InsertFails, Tears
<1>17. CASE Erase(p)
  BY <1>17 DEF TypeOK, DomainsOK, Erase, Goto
<1>18. CASE EraseFails(p)
  BY <1>0, <1>18, CatchDomains, RejectDomains, TearDomains
  DEF TypeOK, DomainsOK, LoopOK, EraseFails, Tears
<1>19. CASE Crash(p)
  BY <1>0, <1>19, TearDomains DEF TypeOK, DomainsOK, Crash, Goto, Tears
<1> QED
  BY <1>1, <1>2, <1>3, <1>4, <1>5, <1>6, <1>7, <1>8, <1>9, <1>10, <1>11,
     <1>12, <1>13, <1>14, <1>15, <1>16, <1>17, <1>18, <1>19 DEF Work

-----------------------------------------------------------------------------
(* An action of runner p leaves the other runners alone. *)
Frame(p) ==
  /\ plan' = plan
  /\ \A q \in Runner \ {p} :
       /\ pc'[q] = pc[q] /\ cmd'[q] = cmd[q] /\ list'[q] = list[q]
       /\ dir'[q] = dir[q] /\ todo'[q] = todo[q] /\ mine'[q] = mine[q]
       /\ cur'[q] = cur[q] /\ step'[q] = step[q] /\ session'[q] = session[q]

LEMMA WorkFrame ==
  ASSUME DomainsOK, NEW p \in Runner, Work(p) \/ Crash(p) PROVE Frame(p)
<1>1. CASE Probe(p)
  BY <1>1 DEF Frame, DomainsOK, Probe, Goto
<1>2. CASE ReadRecords(p)
  BY <1>2 DEF Frame, DomainsOK, ReadRecords, Goto
<1>3. CASE ReadFails(p)
  BY <1>3 DEF Frame, DomainsOK, ReadFails, Goto
<1>4. CASE PickMigration(p)
  BY <1>4 DEF Frame, DomainsOK, PickMigration, Goto
<1>5. CASE Exit(p)
  BY <1>5 DEF Frame, DomainsOK, Exit, Goto
<1>6. CASE ImportFails(p)
  BY <1>6 DEF Frame, DomainsOK, ImportFails, Goto, Catch
<1>7. CASE SkipEmpty(p)
  BY <1>7 DEF Frame, DomainsOK, SkipEmpty, Goto, Finish
<1>8. CASE RunJoined(p)
  BY <1>8 DEF Frame, DomainsOK, RunJoined, Goto, Finish
<1>9. CASE JoinedFails(p)
  BY <1>9 DEF Frame, DomainsOK, JoinedFails, Goto, Throw, Catch
<1>10. CASE Begin(p)
  BY <1>10 DEF Frame, DomainsOK, Begin, Goto, Throw, Catch
<1>11. CASE Statement(p)
  BY <1>11 DEF Frame, DomainsOK, Statement, Goto, Finish
<1>12. CASE StatementFails(p)
  BY <1>12 DEF Frame, DomainsOK, StatementFails, Goto, Throw, Catch
<1>13. CASE CommitScript(p)
  BY <1>13 DEF Frame, DomainsOK, CommitScript, Goto, Finish, Throw, Catch
<1>14. CASE Rollback(p)
  BY <1>14 DEF Frame, DomainsOK, Rollback, Goto, Catch
<1>15. CASE Insert(p)
  BY <1>15 DEF Frame, DomainsOK, Insert, Goto
<1>16. CASE InsertFails(p)
  BY <1>16 DEF Frame, DomainsOK, InsertFails, Goto, Throw, Catch
<1>17. CASE Erase(p)
  BY <1>17 DEF Frame, DomainsOK, Erase, Goto
<1>18. CASE EraseFails(p)
  BY <1>18 DEF Frame, DomainsOK, EraseFails, Goto, Catch
<1>19. CASE Crash(p)
  BY <1>19 DEF Frame, DomainsOK, Crash, Goto
<1> QED
  BY <1>1, <1>2, <1>3, <1>4, <1>5, <1>6, <1>7, <1>8, <1>9, <1>10, <1>11,
     <1>12, <1>13, <1>14, <1>15, <1>16, <1>17, <1>18, <1>19 DEF Work

LEMMA StartFrame ==
  ASSUME DomainsOK, NEW p \in Runner, NEW c \in Command, NEW t \in Migration,
         Start(p, c, t)
  PROVE  Frame(p)
BY DEF Frame, DomainsOK, Start, Goto

(* Where runner p itself is after one of its actions. *)
LEMMA WorkPosition ==
  ASSUME TypeOK, NEW p \in Runner, Work(p) \/ Crash(p) PROVE PositionOK(p)'
<1>0. DomainsOK /\ PositionOK(p) /\ plan' = plan
  BY WorkFrame DEF TypeOK, Frame
<1>1. CASE Probe(p) \/ ReadRecords(p) \/ ReadFails(p) \/ Exit(p) \/ Crash(p)
  BY <1>0, <1>1 DEF DomainsOK, PositionOK, Probe, ReadRecords, ReadFails, Exit,
     Crash, Goto
<1>2. CASE PickMigration(p)
  <2>1. PICK m \in todo[p] : cur' = [cur EXCEPT ![p] = m]
    BY <1>2 DEF PickMigration
  <2>2. m \in Migration
    BY <1>0 DEF DomainsOK
  <2>3. /\ cur'[p] = m /\ dir'[p] = dir[p] /\ step'[p] = 0 /\ pc'[p] = "script"
        /\ session'[p] # "open"
    BY <1>0, <1>2, <2>1 DEF DomainsOK, PositionOK, PickMigration, Goto
  <2>4. ScriptLength(p)' \in Nat
    BY <1>0, <2>2, <2>3, PlanFacts DEF ScriptLength, Size
  <2> QED
    BY <2>2, <2>3, <2>4 DEF PositionOK
<1>3. CASE \/ ImportFails(p) \/ SkipEmpty(p) \/ JoinedFails(p) \/ RunJoined(p)
           \/ Rollback(p)
  <2>1. pc'[p] \in {"pick", "ledger", "rollback"} /\ cur'[p] = cur[p]
    BY <1>0, <1>3 DEF DomainsOK, ImportFails, SkipEmpty, JoinedFails, RunJoined,
       Rollback, Goto, Throw, Catch, Finish
  <2>2. session'[p] # "open"
    <3>1. CASE SkipEmpty(p)
      BY <1>0, <3>1 DEF PositionOK, SkipEmpty
    <3>2. CASE ImportFails(p) \/ RunJoined(p)
      BY <1>0, <3>2 DEF ImportFails, RunJoined
    <3>3. CASE JoinedFails(p) \/ Rollback(p)
      BY <1>0, <3>3 DEF DomainsOK, JoinedFails, Rollback
    <3> QED
      BY <1>3, <3>1, <3>2, <3>3
  <2>3. pc[p] \in {"script", "rollback"}
    BY <1>3 DEF ImportFails, SkipEmpty, JoinedFails, RunJoined, Rollback
  <2> QED
    BY <1>0, <2>1, <2>2, <2>3 DEF PositionOK
<1>4. CASE Begin(p)
  <2>1. /\ cur'[p] = cur[p] /\ dir'[p] = dir[p] /\ step'[p] = step[p]
    BY <1>0, <1>4 DEF DomainsOK, Begin, Throw, Goto
  <2>2. CASE session[p] = "idle" /\ UNCHANGED <<pc, loop>>
    BY <1>0, <1>4, <2>2
    DEF DomainsOK, PositionOK, Begin, ScriptMode, ScriptLength, Size
  <2>3. CASE session[p] = "aborted" /\ Throw(p) /\ UNCHANGED session
    BY <1>0, <1>4, <2>1, <2>3 DEF DomainsOK, PositionOK, Begin, Throw, Goto
  <2> QED
    BY <1>4, <2>2, <2>3 DEF Begin
<1>5. CASE Statement(p)
  <2>1. /\ cur'[p] = cur[p] /\ dir'[p] = dir[p] /\ step'[p] = step[p] + 1
        /\ session'[p] = session[p] /\ pc[p] = "script"
        /\ cur[p] \in Migration
    BY <1>0, <1>5 DEF DomainsOK, PositionOK, Statement, InScript
  <2>2. ScriptLength(p) \in Nat /\ step[p] + 1 <= ScriptLength(p)
    BY <1>0, <1>5, <2>1, ScriptFacts DEF DomainsOK, Statement, InScript
  <2>3. ScriptLength(p)' = ScriptLength(p) /\ ScriptMode(p)' = ScriptMode(p)
    BY <1>0, <2>1 DEF ScriptLength, ScriptMode, Size
  <2>4. pc'[p] \in {"script", "pick", "ledger"}
    BY <1>0, <1>5, <2>1 DEF DomainsOK, Statement, Finish, Goto
  <2>5. session[p] = "open" => pc'[p] = "script"
    BY <1>0, <1>5, <2>1 DEF PositionOK, Statement
  <2> QED
    BY <1>0, <2>1, <2>2, <2>3, <2>4, <2>5 DEF PositionOK
<1>6. CASE StatementFails(p) \/ CommitScript(p)
  <2>1. /\ pc'[p] \in {"pick", "ledger", "rollback"} /\ cur'[p] = cur[p]
        /\ pc[p] = "script"
    BY <1>0, <1>6 DEF DomainsOK, StatementFails, CommitScript, InScript, Goto,
       Throw, Catch, Finish
  <2>2. session'[p] # "open"
    BY <1>0, <1>6 DEF DomainsOK, StatementFails, CommitScript
  <2> QED
    BY <1>0, <2>1, <2>2 DEF PositionOK
<1>7. CASE Insert(p) \/ InsertFails(p) \/ Erase(p) \/ EraseFails(p)
  <2>1. /\ pc'[p] \in {"pick", "rollback"} /\ cur'[p] = cur[p]
        /\ session'[p] = session[p] /\ pc[p] = "ledger"
    BY <1>0, <1>7 DEF DomainsOK, Insert, InsertFails, Erase, EraseFails, Goto,
       Throw, Catch
  <2> QED
    BY <1>0, <2>1 DEF PositionOK
<1> QED
  BY <1>1, <1>2, <1>3, <1>4, <1>5, <1>6, <1>7 DEF Work

(* A migration never has more statements in force than it has. *)
LEMMA WorkBounds ==
  ASSUME TypeOK, NEW p \in Runner, Work(p) \/ Crash(p)
  PROVE  \A m \in Migration : done'[m] <= Size(m)
<1>0. DomainsOK /\ PositionOK(p) /\ \A m \in Migration : done[m] <= Size(m)
  BY DEF TypeOK
<1>1. CASE done' = done
  BY <1>0, <1>1
<1>2. CASE \E k \in 0..ScriptLength(p) :
             /\ pc[p] = "script"
             /\ Commit(cur[p], After(p, k))
  <2>1. cur[p] \in Migration
    BY <1>0, <1>2 DEF PositionOK
  <2>2. PICK k \in 0..ScriptLength(p) : Commit(cur[p], After(p, k))
    BY <1>2
  <2>3. After(p, k) \in 0..Size(cur[p])
    BY <1>0, <2>1, ScriptFacts
  <2> QED
    BY <2>1, <2>2, <2>3, CommitDomains
<1>3. done' = done \/ \E k \in 0..ScriptLength(p) :
             /\ pc[p] = "script"
             /\ Commit(cur[p], After(p, k))
  <2>1. pc[p] = "script" => step[p] \in Nat /\ ScriptLength(p) \in Nat
    BY <1>0, ScriptFacts DEF PositionOK, DomainsOK
  <2>2. CASE Statement(p)
    BY <1>0, <2>1, <2>2 DEF Statement, InScript
  <2>3. CASE RunJoined(p)
    BY <1>0, <2>1, <2>3 DEF RunJoined
  <2>4. CASE CommitScript(p)
    <3>1. step[p] \in 0..ScriptLength(p) /\ pc[p] = "script"
      BY <2>1, <2>4 DEF CommitScript
    <3> QED
      BY <2>4, <3>1 DEF CommitScript
  <2>5. CASE ~(Statement(p) \/ RunJoined(p) \/ CommitScript(p))
    BY <2>5 DEF Work, Probe, ReadRecords, ReadFails, PickMigration, Exit,
       ImportFails, SkipEmpty, JoinedFails, Begin, StatementFails, Rollback,
       Insert, InsertFails, Erase, EraseFails, Crash
  <2> QED
    BY <2>2, <2>3, <2>4, <2>5
<1> QED
  BY <1>1, <1>2, <1>3

LEMMA FramePosition ==
  ASSUME NEW p \in Runner, Frame(p), NEW q \in Runner \ {p}, PositionOK(q)
  PROVE  PositionOK(q)'
BY DEF Frame, PositionOK, ScriptMode, ScriptLength, Size

LEMMA WorkTypeOK ==
  ASSUME TypeOK, NEW p \in Runner, Work(p) \/ Crash(p) PROVE TypeOK'
<1>1. Frame(p) /\ DomainsOK' /\ PositionOK(p)'
  BY WorkFrame, WorkDomains, WorkPosition DEF TypeOK
<1>2. \A q \in Runner \ {p} : PositionOK(q)'
  BY <1>1, FramePosition DEF TypeOK
<1>3. \A m \in Migration : done'[m] <= Size(m)'
  BY <1>1, WorkBounds DEF Frame, Size
<1> QED
  BY <1>1, <1>2, <1>3 DEF TypeOK

LEMMA StartTypeOK ==
  ASSUME TypeOK, NEW p \in Runner, NEW c \in Command, NEW t \in Migration,
         Start(p, c, t)
  PROVE  TypeOK'
<1>1. DomainsOK' /\ Frame(p)
  BY StartDomains, StartFrame DEF TypeOK
<1>2. PositionOK(p)'
  BY DEF TypeOK, DomainsOK, PositionOK, Start, Goto
<1>3. \A q \in Runner \ {p} : PositionOK(q)'
  BY <1>1, FramePosition DEF TypeOK
<1>4. \A m \in Migration : done'[m] <= Size(m)'
  BY DEF TypeOK, Start, Size
<1> QED
  BY <1>1, <1>2, <1>3, <1>4 DEF TypeOK

LEMMA StepTypeOK == TypeOK /\ [Next]_vars => TypeOK'
<1> SUFFICES ASSUME TypeOK, [Next]_vars PROVE TypeOK'
  OBVIOUS
<1>1. CASE \E p \in Runner : Work(p) \/ Crash(p)
  BY <1>1, WorkTypeOK
<1>2. CASE \E p \in Runner, c \in Command, t \in Migration : Start(p, c, t)
  BY <1>2, StartTypeOK
<1>3. CASE \E m \in Migration : AddFolder(m)
  BY <1>3 DEF AddFolder, TypeOK, DomainsOK, PositionOK, ScriptMode,
     ScriptLength, Size
<1>4. CASE UNCHANGED vars
  BY <1>4 DEF vars, TypeOK, DomainsOK, PositionOK, ScriptMode, ScriptLength,
     Size
<1> QED
  BY <1>1, <1>2, <1>3, <1>4 DEF Next

(* The types, and the positions of every runner, hold in every state. *)
THEOREM TypeCorrect == Spec => []TypeOK
<1>1. Init => TypeOK
  BY InitTypeOK
<1>2. TypeOK /\ [Next]_vars => TypeOK'
  BY StepTypeOK
<1> QED
  BY <1>1, <1>2, PTL DEF Spec

-----------------------------------------------------------------------------
(* Proof that the record of a migration can be trusted (RecordedInForce)    *)
(* and that concurrent runs of migrate do not undo each other's work        *)
(* (HeldInForce, OneHolder), as long as no `durcno down' overlaps with      *)
(* another command.  The inductive invariant says who owns a migration:     *)
(* from the moment its up script has run until its down script has begun    *)
(* to have an effect.                                                       *)

(* p has applied m, and no statement of p has taken any of it back. *)
Owns(p, m) ==
  /\ pc[p] # "off" /\ cmd[p] = "migrate"
  /\ \/ dir[p] = "up" /\ m \in mine[p]
     \/ dir[p] = "up" /\ pc[p] = "ledger" /\ cur[p] = m
     \/ dir[p] = "down" /\ m \in todo[p]
     \/ /\ dir[p] = "down" /\ pc[p] = "script" /\ cur[p] = m
        /\ step[p] = 0 \/ ScriptMode(p) # "seq"

OwnedInForce == \A p \in Runner, m \in Migration : Owns(p, m) => InForce(m)

OneOwner ==
  \A p, q \in Runner, m \in Migration :
    Owns(p, m) /\ Owns(q, m) /\ Size(m) > 0 => p = q

(* A down runs alone, and only migrate ever walks upwards. *)
Alone ==
  \A p \in Runner :
    /\ pc[p] # "off" /\ cmd[p] = "down" =>
         dir[p] = "down" /\ \A q \in Runner \ {p} : pc[q] = "off"
    /\ pc[p] \in {"probe", "read"} /\ cmd[p] = "migrate" => dir[p] = "up"

FirstListed ==
  1 \in folders /\ \A p \in Runner : pc[p] # "off" => 1 \in list[p]

PickedOnce ==
  \A p \in Runner : pc[p] = "script" => cur[p] \notin todo[p]

(* p's open transaction has executed a statement. *)
Working(p) == session[p] = "open" /\ step[p] > 0

(* An open transaction has not changed what is committed, and nobody else   *)
(* works on the same migration.                                             *)
TxWork ==
  /\ \A p \in Runner :
       pc[p] = "script" /\ ScriptMode(p) = "seqTx" /\ session[p] # "open" =>
         step[p] = 0
  /\ \A p \in Runner : Working(p) => done[cur[p]] = After(p, 0)
  /\ \A p, q \in Runner : Working(p) /\ Working(q) /\ cur[p] = cur[q] => p = q

IInv ==
  /\ TypeOK
  /\ Alone /\ FirstListed /\ PickedOnce /\ TxWork
  /\ OwnedInForce /\ OneOwner
  /\ RecordedInForce

-----------------------------------------------------------------------------
(* The only actions that change what is in force. *)

(* p's script of cur[p] brings it from one position to the k-th. *)
Executes(p, k) ==
  /\ pc[p] = "script" /\ cur[p] \in Migration
  /\ k \in 1..ScriptLength(p)
  /\ Commit(cur[p], After(p, k))
  /\ UNCHANGED <<plan, cur, dir, todo, mine, torn>>
  /\ Working(p) \/ ~Locked(p, cur[p])
  /\ \/ /\ ScriptMode(p) # "seq" /\ k = ScriptLength(p)
        /\ done[cur[p]] = After(p, 0) /\ Finish(p)
     \/ /\ ScriptMode(p) = "seq"
        /\ done[cur[p]] = After(p, k - 1)
        /\ step[p] = k - 1 /\ step' = [step EXCEPT ![p] = k]
        /\ IF k = ScriptLength(p) THEN Finish(p) ELSE pc' = pc

LEMMA WorkEffect ==
  ASSUME TypeOK, TxWork, NEW p \in Runner, Work(p) \/ Crash(p)
  PROVE  \/ \E k \in Nat : Executes(p, k)
         \/ /\ done' = done /\ ~RunJoined(p)
            /\ Statement(p) => ScriptMode(p) = "seqTx"
            /\ CommitScript(p) => Throw(p) /\ records' = records
<1>0. /\ DomainsOK /\ PositionOK(p)
      /\ pc[p] = "script" => /\ step[p] \in Nat /\ ScriptLength(p) \in Nat
                             /\ cur[p] \in Migration /\ ScriptMode(p) \in Mode
  BY ScriptFacts DEF TypeOK, PositionOK, DomainsOK
<1>1. CASE RunJoined(p)
  <2>1. ScriptMode(p) # "seq" /\ done[cur[p]] = After(p, 0)
    BY <1>0, <1>1 DEF RunJoined, Runnable, Expected, IsSequential
  <2>2. /\ pc[p] = "script" /\ ScriptLength(p) > 0 /\ ~Locked(p, cur[p])
        /\ Commit(cur[p], After(p, ScriptLength(p))) /\ Finish(p)
        /\ UNCHANGED <<plan, cur, dir, todo, mine, torn>>
    BY <1>1 DEF RunJoined, loop, disk
  <2>3. ScriptLength(p) \in 1..ScriptLength(p)
    BY <1>0, <2>2
  <2>4. Executes(p, ScriptLength(p))
    BY <1>0, <2>1, <2>2, <2>3 DEF Executes
  <2> QED
    BY <1>0, <2>2, <2>4
<1>2. CASE Statement(p) /\ ScriptMode(p) = "seq"
  <2>1. done[cur[p]] = After(p, step[p] + 1 - 1) /\ step[p] = step[p] + 1 - 1
    <3>1. step[p] \in Nat /\ step[p] + 1 - 1 = step[p]
      BY <1>0, <1>2 DEF Statement, InScript
    <3> QED
      BY <1>2, <3>1 DEF Statement, Runnable, Expected
  <2>2. step[p] + 1 \in 1..ScriptLength(p) /\ pc[p] = "script"
    BY <1>0, <1>2 DEF Statement, InScript
  <2>3. IF step[p] + 1 = ScriptLength(p) THEN Finish(p) ELSE pc' = pc
    BY <1>0, <1>2, <2>2 DEF Statement
  <2>4. step' = [step EXCEPT ![p] = step[p] + 1]
    BY <1>2 DEF Statement
  <2>5. Executes(p, step[p] + 1)
    BY <1>0, <1>2, <2>1, <2>2, <2>3, <2>4 DEF Executes, Statement, loop, disk
  <2> QED
    BY <1>0, <2>2, <2>5
<1>3. CASE CommitScript(p)
  <2>1. /\ pc[p] = "script" /\ ScriptMode(p) = "seqTx" /\ session[p] = "open"
        /\ step[p] = ScriptLength(p) /\ ScriptLength(p) > 0
    BY <1>0, <1>3 DEF CommitScript, PositionOK
  <2>2. Working(p) /\ done[cur[p]] = After(p, 0)
    BY <1>0, <2>1 DEF Working, TxWork
  <2>3. CASE Commit(cur[p], After(p, step[p])) /\ Finish(p) /\ UNCHANGED loop
    <3>1. UNCHANGED <<plan, cur, dir, todo, mine, torn>>
      BY <1>3, <2>3 DEF CommitScript, loop, disk
    <3>2. Executes(p, ScriptLength(p))
      BY <1>0, <2>1, <2>2, <2>3, <3>1 DEF Executes
    <3> QED
      BY <1>0, <2>1, <3>2
  <2>4. CASE Throw(p) /\ UNCHANGED db
    BY <2>1, <2>4 DEF RunJoined, IsSequential, db
  <2> QED
    BY <1>3, <2>3, <2>4 DEF CommitScript
<1>4. CASE Statement(p) /\ ScriptMode(p) # "seq"
  <2>1. ScriptMode(p) = "seqTx" /\ done' = done
    BY <1>4 DEF Statement, InScript, IsSequential, db
  <2>2. ~RunJoined(p)
    BY <2>1 DEF RunJoined, IsSequential
  <2>3. ~CommitScript(p)
    <3>1. step'[p] # step[p]
      BY <1>0, <1>4 DEF Statement, InScript, DomainsOK
    <3> QED
      BY <3>1 DEF CommitScript
  <2> QED
    BY <2>1, <2>2, <2>3
<1>5. CASE ~(RunJoined(p) \/ Statement(p) \/ CommitScript(p))
  BY <1>5 DEF Work, Probe, ReadRecords, ReadFails, PickMigration, Exit,
     ImportFails, SkipEmpty, JoinedFails, Begin, StatementFails, Rollback,
     Insert, InsertFails, Erase, EraseFails, Crash, db
<1> QED
  BY <1>1, <1>2, <1>3, <1>4, <1>5

(* Upwards a script starts from less than it ends with, and downwards it    *)
(* ends with less than there was.                                           *)
LEMMA ExecutesFacts ==
  ASSUME TypeOK, NEW p \in Runner, NEW k \in Nat, Executes(p, k)
  PROVE  /\ Size(cur[p]) > 0
         /\ dir[p] = "up" => ~InForce(cur[p])
         /\ dir[p] = "down" => done'[cur[p]] < Size(cur[p])
         /\ done'[cur[p]] = After(p, k)
         /\ \A m \in Migration \ {cur[p]} : done'[m] = done[m]
         /\ records' \subseteq records
         /\ ScriptMode(p) = "seq" /\ done[cur[p]] = Size(cur[p])
              /\ dir[p] = "down" => k = 1 /\ step[p] = 0
         /\ dir[p] = "up" /\ pc'[p] # pc[p] => done'[cur[p]] = Size(cur[p])
<1>1. /\ DomainsOK /\ cur[p] \in Migration /\ k \in 1..ScriptLength(p)
      /\ Commit(cur[p], After(p, k))
  BY DEF TypeOK, Executes
<1>2. /\ ScriptLength(p) \in Nat /\ Size(cur[p]) \in Nat
      /\ ScriptLength(p) <= Size(cur[p])
      /\ dir[p] \in {"up", "down"}
  BY <1>1, ScriptFacts, PlanFacts DEF DomainsOK
<1>3. done[cur[p]] \in {After(p, 0), After(p, k - 1)}
  BY DEF Executes
<1>4. /\ done' = [done EXCEPT ![cur[p]] = After(p, k)]
      /\ done \in [Migration -> Nat]
      /\ records' \subseteq records
  BY <1>1 DEF Commit, DomainsOK
<1>5. dir[p] = "up" => done[cur[p]] < Size(cur[p])
  BY <1>1, <1>2, <1>3 DEF After
<1>6. dir[p] = "down" => After(p, k) < Size(cur[p])
  BY <1>1, <1>2 DEF After
<1>7. ScriptMode(p) = "seq" => /\ done[cur[p]] = After(p, k - 1)
                               /\ step[p] = k - 1
  BY DEF Executes
<1>8. pc'[p] # pc[p] => k = ScriptLength(p)
  BY DEF Executes
<1>9. dir[p] = "up" => After(p, ScriptLength(p)) = Size(cur[p])
  BY DEF After, ScriptLength
<1> QED
  BY <1>1, <1>2, <1>4, <1>5, <1>6, <1>7, <1>8, <1>9 DEF After, InForce

-----------------------------------------------------------------------------
(* The moves of the program counter. *)
LEMMA WorkMoves ==
  ASSUME DomainsOK, NEW p \in Runner, Work(p) \/ Crash(p)
  PROVE  /\ pc[p] # "off" /\ cmd' = cmd /\ list' = list /\ folders' = folders
         /\ dir'[p] = dir[p] \/ dir'[p] = "down"
         /\ pc'[p] # "probe"
         /\ pc'[p] = "read" => dir'[p] = dir[p] /\ pc[p] = "probe"
         /\ pc'[p] = "script" => \/ pc[p] = "script" /\ cur'[p] = cur[p]
                                   /\ todo'[p] = todo[p]
                                \/ cur'[p] \notin todo'[p]
<1>1. CASE Probe(p)
  BY <1>1 DEF DomainsOK, Probe, Goto, disk, input, loop
<1>2. CASE ReadRecords(p)
  BY <1>2 DEF DomainsOK, ReadRecords, Goto, disk, input, loop
<1>3. CASE ReadFails(p)
  BY <1>3 DEF DomainsOK, ReadFails, Goto, disk, input, loop
<1>4. CASE PickMigration(p)
  BY <1>4 DEF DomainsOK, PickMigration, Goto, disk, input, loop
<1>5. CASE Exit(p)
  BY <1>5 DEF DomainsOK, Exit, Goto, disk, input, loop
<1>6. CASE ImportFails(p)
  BY <1>6 DEF DomainsOK, ImportFails, Goto, disk, input, loop, Catch
<1>7. CASE SkipEmpty(p)
  BY <1>7 DEF DomainsOK, SkipEmpty, Goto, disk, input, loop, Finish
<1>8. CASE RunJoined(p)
  BY <1>8 DEF DomainsOK, RunJoined, Goto, disk, input, loop, Finish
<1>9. CASE JoinedFails(p)
  BY <1>9 DEF DomainsOK, JoinedFails, Goto, disk, input, loop, Throw, Catch
<1>10. CASE Begin(p)
  BY <1>10 DEF DomainsOK, Begin, Goto, disk, input, loop, Throw, Catch
<1>11. CASE Statement(p)
  BY <1>11 DEF DomainsOK, Statement, Goto, disk, input, loop, Finish, InScript
<1>12. CASE StatementFails(p)
  BY <1>12 DEF DomainsOK, StatementFails, Goto, disk, input, loop, Throw, Catch, InScript
<1>13. CASE CommitScript(p)
  BY <1>13 DEF DomainsOK, CommitScript, Goto, disk, input, loop, Finish, Throw, Catch
<1>14. CASE Rollback(p)
  BY <1>14 DEF DomainsOK, Rollback, Goto, disk, input, loop, Catch
<1>15. CASE Insert(p)
  BY <1>15 DEF DomainsOK, Insert, Goto, disk, input, loop
<1>16. CASE InsertFails(p)
  BY <1>16 DEF DomainsOK, InsertFails, Goto, disk, input, loop, Throw, Catch
<1>17. CASE Erase(p)
  BY <1>17 DEF DomainsOK, Erase, Goto, disk, input, loop
<1>18. CASE EraseFails(p)
  BY <1>18 DEF DomainsOK, EraseFails, Goto, disk, input, loop, Catch
<1>19. CASE Crash(p)
  BY <1>19 DEF DomainsOK, Crash, Goto, disk, input, loop
<1> QED
  BY <1>1, <1>2, <1>3, <1>4, <1>5, <1>6, <1>7, <1>8, <1>9, <1>10, <1>11,
     <1>12, <1>13, <1>14, <1>15, <1>16, <1>17, <1>18, <1>19 DEF Work

LEMMA WorkControl ==
  ASSUME IInv, NEW p \in Runner, Work(p) \/ Crash(p)
  PROVE  Alone' /\ FirstListed' /\ PickedOnce'
<1>0. DomainsOK /\ Frame(p)
  BY WorkFrame DEF IInv, TypeOK
<1>1. Alone'
  BY <1>0, WorkMoves DEF IInv, Alone, Frame
<1>2. FirstListed'
  BY <1>0, WorkMoves DEF IInv, FirstListed, Frame
<1>3. PickedOnce'
  BY <1>0, WorkMoves DEF IInv, PickedOnce, Frame
<1> QED
  BY <1>1, <1>2, <1>3

LEMMA StartControl ==
  ASSUME IInv, NEW p \in Runner, NEW c \in Command, NEW t \in Migration,
         Start(p, c, t), "down" \notin Overlapping
  PROVE  Alone' /\ FirstListed' /\ PickedOnce'
<1>0. DomainsOK /\ Frame(p) /\ Alone /\ FirstListed /\ PickedOnce
  BY StartFrame DEF IInv, TypeOK
<1>1. /\ cmd'[p] = c /\ pc'[p] = "probe" /\ list'[p] = folders
      /\ dir'[p] = IF c = "migrate" THEN "up" ELSE "down"
      /\ folders' = folders
  BY <1>0 DEF DomainsOK, Start, Goto, disk
<1>2. \A q \in Runner \ {p} : pc[q] # "off" => c # "down" /\ cmd[q] # "down"
  BY DEF Start
<1>3. Alone'
  BY <1>0, <1>1, <1>2 DEF Alone, Frame
<1>4. FirstListed'
  BY <1>0, <1>1 DEF FirstListed, Frame
<1>5. PickedOnce'
  BY <1>0, <1>1 DEF PickedOnce, Frame
<1> QED
  BY <1>3, <1>4, <1>5

-----------------------------------------------------------------------------
(* Transactions: who has one open, and what it has done. *)
LEMMA WorkOpen ==
  ASSUME TypeOK, NEW p \in Runner, Work(p) \/ Crash(p),
         ~Begin(p), ~(Statement(p) /\ ScriptMode(p) = "seqTx")
  PROVE  /\ session'[p] # "open"
         /\ pc'[p] = "script" => step'[p] = 0 \/ ScriptMode(p)' # "seqTx"
<1>0. DomainsOK /\ PositionOK(p) /\ plan' = plan
  BY WorkFrame DEF TypeOK, Frame
<1>1. CASE Probe(p)
  BY <1>0, <1>1 DEF DomainsOK, PositionOK, Probe, Goto
<1>2. CASE ReadRecords(p)
  BY <1>0, <1>2 DEF DomainsOK, PositionOK, ReadRecords, Goto
<1>3. CASE ReadFails(p)
  BY <1>0, <1>3 DEF DomainsOK, PositionOK, ReadFails, Goto
<1>4. CASE PickMigration(p)
  BY <1>0, <1>4 DEF DomainsOK, PositionOK, PickMigration, Goto
<1>5. CASE Exit(p)
  BY <1>0, <1>5 DEF DomainsOK, PositionOK, Exit, Goto
<1>6. CASE ImportFails(p)
  BY <1>0, <1>6 DEF DomainsOK, PositionOK, ImportFails, Goto, Catch
<1>7. CASE SkipEmpty(p)
  BY <1>0, <1>7 DEF DomainsOK, PositionOK, SkipEmpty, Goto, Finish
<1>8. CASE RunJoined(p)
  BY <1>0, <1>8 DEF DomainsOK, PositionOK, RunJoined, Goto, Finish
<1>9. CASE JoinedFails(p)
  BY <1>0, <1>9 DEF DomainsOK, PositionOK, JoinedFails, Goto, Throw, Catch
<1>11. CASE Statement(p)
  <2>1. /\ ScriptMode(p) # "seqTx" /\ session'[p] = session[p]
        /\ pc[p] = "script"
    BY <1>0, <1>11 DEF Statement, InScript
  <2>2. ScriptMode(p)' = ScriptMode(p)
    BY <1>0, <1>11 DEF Statement, ScriptMode, loop
  <2> QED
    BY <1>0, <2>1, <2>2 DEF PositionOK
<1>12. CASE StatementFails(p)
  BY <1>0, <1>12 DEF DomainsOK, PositionOK, StatementFails, Goto, Throw, Catch, InScript
<1>13. CASE CommitScript(p)
  BY <1>0, <1>13 DEF DomainsOK, PositionOK, CommitScript, Goto, Finish, Throw, Catch
<1>14. CASE Rollback(p)
  BY <1>0, <1>14 DEF DomainsOK, PositionOK, Rollback, Goto, Catch
<1>15. CASE Insert(p)
  BY <1>0, <1>15 DEF DomainsOK, PositionOK, Insert, Goto
<1>16. CASE InsertFails(p)
  BY <1>0, <1>16 DEF DomainsOK, PositionOK, InsertFails, Goto, Throw, Catch
<1>17. CASE Erase(p)
  BY <1>0, <1>17 DEF DomainsOK, PositionOK, Erase, Goto
<1>18. CASE EraseFails(p)
  BY <1>0, <1>18 DEF DomainsOK, PositionOK, EraseFails, Goto, Catch
<1>19. CASE Crash(p)
  BY <1>0, <1>19 DEF DomainsOK, PositionOK, Crash, Goto
<1> QED
  BY <1>1, <1>2, <1>3, <1>4, <1>5, <1>6, <1>7, <1>8, <1>9, <1>11, <1>12,
     <1>13, <1>14, <1>15, <1>16, <1>17, <1>18, <1>19 DEF Work

LEMMA WorkTransaction ==
  ASSUME TypeOK, TxWork, NEW p \in Runner, Work(p) \/ Crash(p)
  PROVE  /\ pc'[p] = "script" /\ ScriptMode(p)' = "seqTx" /\ session'[p] # "open"
              => step'[p] = 0
         /\ Working(p)' =>
              /\ done' = done /\ cur'[p] = cur[p] /\ dir'[p] = dir[p]
              /\ done[cur[p]] = After(p, 0)
              /\ Working(p) \/ ~Locked(p, cur[p])
<1>0. DomainsOK /\ PositionOK(p) /\ plan' = plan
  BY WorkFrame DEF TypeOK, Frame
<1>1. CASE Begin(p)
  <2>1. /\ pc[p] = "script" /\ ScriptMode(p) = "seqTx" /\ session[p] # "open"
        /\ step'[p] = step[p]
    BY <1>1 DEF Begin
  <2>2. step[p] = 0
    BY <2>1 DEF TxWork
  <2> QED
    BY <2>1, <2>2 DEF Working
<1>2. CASE Statement(p) /\ ScriptMode(p) = "seqTx"
  <2>1. /\ session[p] = "open" /\ session'[p] = "open"
        /\ done' = done /\ cur' = cur /\ dir' = dir
        /\ ~Locked(p, cur[p]) /\ done[cur[p]] = After(p, 0)
    BY <1>2 DEF Statement, InScript, Runnable, Expected, db, loop
  <2> QED
    BY <2>1
<1>3. CASE ~Begin(p) /\ ~(Statement(p) /\ ScriptMode(p) = "seqTx")
  BY <1>3, WorkOpen DEF Working
<1> QED
  BY <1>1, <1>2, <1>3

LEMMA WorkTxWork ==
  ASSUME TypeOK, TxWork, NEW p \in Runner, Work(p) \/ Crash(p) PROVE TxWork'
<1>0. DomainsOK /\ Frame(p)
  BY WorkFrame DEF TypeOK
<1>1. ASSUME NEW q \in Runner, pc'[q] = "script", ScriptMode(q)' = "seqTx",
             session'[q] # "open"
      PROVE  step'[q] = 0
  BY <1>0, <1>1, WorkTransaction DEF Frame, TxWork, ScriptMode
<1>2. ASSUME NEW q \in Runner, Working(q)'
      PROVE  done'[cur'[q]] = After(q, 0)'
  <2>1. CASE q = p
    <3>1. /\ done' = done /\ cur'[p] = cur[p] /\ dir'[p] = dir[p]
          /\ done[cur[p]] = After(p, 0)
      BY <1>2, <2>1, WorkTransaction
    <3> QED
      BY <1>0, <2>1, <3>1 DEF After, Size, Frame
  <2>2. CASE q # p
    <3>1. /\ Working(q) /\ cur'[q] = cur[q] /\ After(q, 0)' = After(q, 0)
          /\ done[cur[q]] = After(q, 0) /\ PositionOK(q)
      BY <1>0, <1>2, <2>2 DEF Frame, Working, After, Size, TxWork, TypeOK
    <3>2. done'[cur[q]] = done[cur[q]]
      <4>1. SUFFICES ASSUME NEW k \in Nat, Executes(p, k)
                     PROVE  cur[q] # cur[p]
        BY <3>1, <4>1, WorkEffect, ExecutesFacts DEF PositionOK, Working
      <4>2. CASE Working(p)
        BY <2>2, <3>1, <4>2 DEF TxWork
      <4>3. CASE ~Locked(p, cur[p])
        BY <2>2, <3>1, <4>3 DEF Locked, Working
      <4> QED
        BY <4>1, <4>2, <4>3 DEF Executes
    <3> QED
      BY <3>1, <3>2
  <2> QED
    BY <2>1, <2>2
<1>3. ASSUME NEW q \in Runner, NEW r \in Runner, Working(q)', Working(r)',
             cur'[q] = cur'[r]
      PROVE  q = r
  <2>1. ASSUME NEW s \in Runner \ {p}, Working(s)', Working(p)',
               cur'[s] = cur'[p]
        PROVE  FALSE
    <3>1. /\ Working(s) /\ cur'[s] = cur[s] /\ cur'[p] = cur[p]
          /\ Working(p) \/ ~Locked(p, cur[p])
      BY <1>0, <2>1, WorkTransaction DEF Frame, Working
    <3> QED
      BY <2>1, <3>1 DEF TxWork, Locked, Working
  <2>2. CASE q # p /\ r # p
    BY <1>0, <1>3, <2>2 DEF Frame, Working, TxWork
  <2> QED
    BY <1>3, <2>1, <2>2
<1> QED
  BY <1>1, <1>2, <1>3 DEF TxWork
-----------------------------------------------------------------------------
(* Ownership is only gained by executing an up script to its end. *)
LEMMA QuietOwns ==
  ASSUME IInv, NEW p \in Runner, Work(p) \/ Crash(p),
         ~RunJoined(p), ~Statement(p), ~CommitScript(p),
         NEW m \in Migration, Owns(p, m)'
  PROVE  Owns(p, m) \/ Size(m) = 0
<1>0. DomainsOK /\ Alone /\ plan' = plan /\ PickedOnce
  BY WorkFrame DEF IInv, TypeOK, Frame
<1>1. CASE Probe(p)
  BY <1>0, <1>1 DEF Probe, DomainsOK, Owns, Goto, input, loop, Alone
<1>2. CASE ReadRecords(p)
  BY <1>0, <1>2 DEF ReadRecords, DomainsOK, Owns, Goto, input, loop, Alone
<1>3. CASE ReadFails(p)
  BY <1>0, <1>3 DEF ReadFails, DomainsOK, Owns, Goto, input, loop, Alone
<1>4. CASE PickMigration(p)
  BY <1>0, <1>4 DEF PickMigration, DomainsOK, Owns, Goto, input, loop, Alone, ScriptMode
<1>5. CASE Exit(p)
  BY <1>0, <1>5 DEF Exit, DomainsOK, Owns, Goto, input, loop, Alone
<1>6. CASE ImportFails(p)
  BY <1>0, <1>6 DEF ImportFails, DomainsOK, Owns, Goto, input, loop, Alone, Catch
<1>7. CASE SkipEmpty(p)
  BY <1>0, <1>7 DEF SkipEmpty, DomainsOK, Owns, Goto, input, loop, Alone, Finish, ScriptLength
<1>8. CASE JoinedFails(p)
  BY <1>0, <1>8 DEF JoinedFails, DomainsOK, Owns, Goto, input, loop, Alone, Throw, Catch
<1>9. CASE Begin(p)
  BY <1>0, <1>9 DEF Begin, DomainsOK, Owns, Goto, input, loop, Alone, Throw, Catch, ScriptMode
<1>10. CASE StatementFails(p)
  <2>1. pc[p] = "script" /\ cmd' = cmd /\ cur' = cur /\ Throw(p)
    BY <1>10 DEF StatementFails, InScript, input
  <2> QED
    BY <1>0, <2>1 DEF Throw, Catch, DomainsOK, Owns, Goto, loop
<1>11. CASE Rollback(p)
  BY <1>0, <1>11 DEF Rollback, DomainsOK, Owns, Goto, input, loop, Alone, Catch
<1>12. CASE Insert(p)
  BY <1>0, <1>12 DEF Insert, DomainsOK, Owns, Goto, input, loop, Alone
<1>13. CASE InsertFails(p)
  BY <1>0, <1>13 DEF InsertFails, DomainsOK, Owns, Goto, input, loop, Alone, Throw, Catch
<1>14. CASE Erase(p)
  BY <1>0, <1>14 DEF Erase, DomainsOK, Owns, Goto, input, loop, Alone
<1>15. CASE EraseFails(p)
  BY <1>0, <1>15 DEF EraseFails, DomainsOK, Owns, Goto, input, loop, Alone, Catch
<1>16. CASE Crash(p)
  BY <1>0, <1>16 DEF Crash, DomainsOK, Owns, Goto, input, loop, Alone
<1> QED
  BY <1>1, <1>2, <1>3, <1>4, <1>5, <1>6, <1>7, <1>8, <1>9, <1>10, <1>11, <1>12, <1>13, <1>14, <1>15, <1>16 DEF Work
LEMMA ExecutesOwns ==
  ASSUME IInv, NEW p \in Runner, NEW k \in Nat, Executes(p, k), cmd' = cmd,
         NEW m \in Migration, Owns(p, m)'
  PROVE  /\ done'[m] = Size(m)
         /\ Owns(p, m) \/ (m = cur[p] /\ ~InForce(m))
<1>0. /\ TypeOK /\ DomainsOK /\ PickedOnce /\ OwnedInForce
      /\ pc[p] = "script" /\ cur[p] \in Migration /\ k > 0
      /\ UNCHANGED <<plan, cur, dir, todo, mine>>
      /\ dir[p] \in {"up", "down"} /\ ScriptMode(p)' = ScriptMode(p)
  BY DEF IInv, TypeOK, DomainsOK, Executes, ScriptMode
<1>1. /\ pc'[p] = pc[p] \/ pc'[p] \in {"pick", "ledger"}
      /\ pc'[p] = pc[p] => ScriptMode(p) = "seq" /\ step'[p] = k
  BY <1>0 DEF Executes, Finish, Goto, DomainsOK
<1>2. CASE m # cur[p]
  <2>1. Owns(p, m)
    BY <1>0, <1>1, <1>2 DEF Owns
  <2> QED
    BY <1>0, <1>2, <2>1, ExecutesFacts DEF OwnedInForce, InForce
<1>3. CASE m = cur[p] /\ dir[p] = "up"
  <2>1. ~InForce(m) /\ (pc'[p] # pc[p] => done'[m] = Size(m))
    BY <1>0, <1>3, ExecutesFacts
  <2>2. m \in mine[p] => Owns(p, m)
    BY <1>0, <1>3 DEF Owns
  <2>3. m \notin mine[p]
    BY <1>0, <2>1, <2>2 DEF OwnedInForce
  <2>4. pc'[p] # pc[p]
    BY <1>0, <1>3, <2>3 DEF Owns
  <2> QED
    BY <1>3, <2>1, <2>4
<1>4. CASE m = cur[p] /\ dir[p] = "down"
  <2>1. m \notin todo[p]
    BY <1>0, <1>4 DEF PickedOnce
  <2> QED
    BY <1>0, <1>1, <1>4, <2>1 DEF Owns
<1> QED
  BY <1>0, <1>2, <1>3, <1>4

(* What p owns after a step of its own is in force, and p owned it before   *)
(* or has just brought it into force.                                       *)
LEMMA WorkOwns ==
  ASSUME IInv, NEW p \in Runner, Work(p) \/ Crash(p),
         NEW m \in Migration, Owns(p, m)'
  PROVE  /\ done'[m] = Size(m)
         /\ Owns(p, m) \/ Size(m) = 0 \/ ~InForce(m)
<1>0. /\ TypeOK /\ DomainsOK /\ TxWork /\ OwnedInForce
      /\ plan' = plan /\ cmd' = cmd
  BY WorkFrame, WorkMoves DEF IInv, TypeOK, Frame
<1>1. CASE \E k \in Nat : Executes(p, k)
  BY <1>0, <1>1, ExecutesOwns
<1>2. CASE /\ done' = done /\ ~RunJoined(p)
           /\ Statement(p) => ScriptMode(p) = "seqTx"
           /\ CommitScript(p) => Throw(p)
  <2>1. Owns(p, m) \/ Size(m) = 0
    <3>1. CASE Statement(p)
      <4>1. /\ ScriptMode(p) = "seqTx" /\ ScriptMode(p)' = ScriptMode(p)
            /\ UNCHANGED <<pc, cmd, dir, todo, mine, cur>>
        BY <1>0, <1>2, <3>1 DEF Statement, loop, ScriptMode
      <4> QED
        BY <4>1 DEF Owns
    <3>2. CASE CommitScript(p)
      <4>1. Throw(p) /\ cur' = cur /\ pc[p] = "script"
        BY <1>2, <3>2 DEF CommitScript
      <4> QED
        BY <1>0, <4>1 DEF Throw, Catch, DomainsOK, Owns, Goto, loop
    <3> QED
      BY <1>2, <3>1, <3>2, QuietOwns
  <2>2. done[m] <= Size(m) /\ done[m] \in Nat
    BY <1>0 DEF TypeOK, DomainsOK
  <2> QED
    BY <1>0, <1>2, <2>1, <2>2 DEF OwnedInForce, InForce
<1> QED
  BY <1>0, <1>1, <1>2, WorkEffect

(* A step of p leaves alone what another runner owns. *)
LEMMA WorkKeeps ==
  ASSUME IInv, NEW p \in Runner, Work(p) \/ Crash(p),
         NEW q \in Runner \ {p}, NEW m \in Migration, Owns(q, m), Size(m) > 0
  PROVE  done'[m] = Size(m)
<1>0. TypeOK /\ DomainsOK /\ TxWork /\ InForce(m) /\ Alone /\ OneOwner
  BY DEF IInv, TypeOK, OwnedInForce
<1>1. SUFFICES ASSUME NEW k \in Nat, Executes(p, k), m = cur[p] PROVE FALSE
  BY <1>0, <1>1, WorkEffect, ExecutesFacts DEF InForce
<1>2. /\ dir[p] = "down" /\ pc[p] = "script"
      /\ ScriptMode(p) = "seq" => step[p] = 0
  BY <1>0, <1>1, ExecutesFacts DEF InForce, Executes, DomainsOK
<1>3. cmd[p] = "migrate"
  BY <1>0, <1>2 DEF Alone, Owns, DomainsOK, Command
<1>4. Owns(p, m)
  BY <1>1, <1>2, <1>3 DEF Owns
<1> QED
  BY <1>0, <1>4 DEF OneOwner

LEMMA WorkOwnership ==
  ASSUME IInv, NEW p \in Runner, Work(p) \/ Crash(p)
  PROVE  OwnedInForce' /\ OneOwner'
<1>0. DomainsOK /\ Frame(p) /\ OwnedInForce /\ OneOwner
      /\ \A m \in Migration : done[m] <= Size(m)
  BY WorkFrame DEF IInv, TypeOK
<1>1. TypeOK' 
  BY WorkTypeOK DEF IInv
<1>2. ASSUME NEW q \in Runner \ {p}, NEW m \in Migration, Owns(q, m)'
      PROVE  Owns(q, m)
  BY <1>0, <1>2 DEF Frame, Owns, ScriptMode
<1>3. \A m \in Migration : Size(m)' = Size(m)
  BY <1>0 DEF Frame, Size
<1>4. ASSUME NEW q \in Runner, NEW m \in Migration, Owns(q, m)'
      PROVE  done'[m] = Size(m)
  <2>1. CASE Size(m) = 0
    BY <1>1, <1>3, <2>1 DEF TypeOK, DomainsOK
  <2>2. CASE q # p /\ Size(m) # 0
    <3>1. Size(m) > 0
      BY <1>0, <2>2, PlanFacts DEF DomainsOK
    <3> QED
      BY <1>2, <1>4, <2>2, <3>1, WorkKeeps
  <2> QED
    BY <1>4, <2>1, <2>2, WorkOwns
<1>5. OwnedInForce'
  BY <1>3, <1>4 DEF OwnedInForce, InForce
<1>6. ASSUME NEW q \in Runner \ {p}, NEW m \in Migration,
             Owns(q, m)', Owns(p, m)', Size(m) > 0
      PROVE  FALSE
  <2>1. Owns(q, m) /\ InForce(m)
    BY <1>0, <1>2, <1>6 DEF OwnedInForce
  <2> QED
    BY <1>0, <1>6, <2>1, WorkOwns DEF OneOwner
<1>7. OneOwner'
  BY <1>0, <1>2, <1>3, <1>6 DEF OneOwner
<1> QED
  BY <1>5, <1>7
-----------------------------------------------------------------------------
(* The ledger. *)

(* A step that executes nothing either leaves the records and p's part in   *)
(* a reversal alone, or marks the migration, or is Insert or Erase.         *)
LEMMA QuietRecords ==
  ASSUME TypeOK, NEW p \in Runner, Work(p) \/ Crash(p),
         done' = done, ~RunJoined(p), ~Insert(p), ~Erase(p),
         Statement(p) => ScriptMode(p) = "seqTx",
         CommitScript(p) => records' = records
  PROVE  /\ records' = records /\ torn \subseteq torn'
         /\ dir[p] = "down" /\ Tears(p) => cur[p] \in torn'
<1>0. /\ DomainsOK /\ PositionOK(p)
      /\ pc[p] = "script" => ScriptLength(p) \in Nat /\ step[p] \in Nat
  <2>1. DomainsOK /\ PositionOK(p)
    BY DEF TypeOK
  <2> QED
    BY <2>1, ScriptFacts DEF DomainsOK, PositionOK
<1>1. CASE Probe(p)
  BY <1>0, <1>1 DEF Probe, Tears, Tear, db
<1>2. CASE ReadRecords(p)
  BY <1>0, <1>2 DEF ReadRecords, Tears, Tear, db
<1>3. CASE ReadFails(p)
  BY <1>0, <1>3 DEF ReadFails, Tears, Tear, db
<1>4. CASE PickMigration(p)
  BY <1>0, <1>4 DEF PickMigration, Tears, Tear, db
<1>5. CASE Exit(p)
  BY <1>0, <1>5 DEF Exit, Tears, Tear, db
<1>6. CASE ImportFails(p)
  BY <1>0, <1>6 DEF ImportFails, Tears, Tear, db
<1>7. CASE SkipEmpty(p)
  BY <1>0, <1>7 DEF SkipEmpty, Tears, Tear, db, PositionOK
<1>8. CASE JoinedFails(p)
  BY <1>0, <1>8 DEF JoinedFails, Tears, Tear, db, IsSequential
<1>9. CASE Begin(p)
  BY <1>0, <1>9 DEF Begin, Tears, Tear, db
<1>10. CASE StatementFails(p)
  BY <1>0, <1>10 DEF StatementFails, Tears, Tear, db, InScript
<1>11. CASE CommitScript(p)
  BY <1>0, <1>11 DEF CommitScript, Tears, Tear, db
<1>12. CASE Rollback(p)
  BY <1>0, <1>12 DEF Rollback, Tears, Tear, db
<1>13. CASE InsertFails(p)
  BY <1>0, <1>13 DEF InsertFails, Tears, Tear, db
<1>14. CASE EraseFails(p)
  BY <1>0, <1>14 DEF EraseFails, Tears, Tear, db
<1>15. CASE Crash(p)
  BY <1>0, <1>15 DEF Crash, Tears, Tear, db
<1>16. CASE Statement(p)
  BY <1>0, <1>16 DEF Statement, InScript, Tears, db
<1> QED
  BY <1>1, <1>2, <1>3, <1>4, <1>5, <1>6, <1>7, <1>8, <1>9, <1>10, <1>11, <1>12, <1>13, <1>14, <1>15, <1>16 DEF Work
(* A reversal is visible as such as soon as it has an effect; reverting     *)
(* migration 1 takes the ledger away at once.                               *)
LEMMA ExecutesReverting ==
  ASSUME IInv, NEW p \in Runner, NEW k \in Nat, Executes(p, k), list' = list,
         dir[p] = "down", NEW m \in records', m = cur[p]
  PROVE  Reverting(p, m)'
<1>0. /\ TypeOK /\ DomainsOK /\ FirstListed /\ pc[p] = "script" /\ k > 0
      /\ cur[p] \in Migration /\ UNCHANGED <<plan, cur, dir>>
      /\ Commit(cur[p], After(p, k))
      /\ ScriptMode(p)' = ScriptMode(p)
  BY DEF IInv, TypeOK, Executes, ScriptMode
<1>1. done'[cur[p]] < Size(cur[p]) /\ done'[cur[p]] = After(p, k)
  BY <1>0, ExecutesFacts
<1>2. ~IsFirstMigration(p)
  <2>1. SUFFICES ASSUME IsFirstMigration(p) PROVE FALSE
    BY <2>1
  <2>2. 1 \in list[p] /\ N \in Nat
    BY <1>0, RunnerAssumption DEF FirstListed
  <2>3. cur[p] = 1
    BY <1>0, <2>1, <2>2 DEF IsFirstMigration, Migration
  <2>4. records' = {}
    BY <1>0, <1>1, <2>3 DEF Commit
  <2> QED
    BY <2>4
<1>3. Finish(p) => pc'[p] = "ledger"
  BY <1>0, <1>2 DEF Finish, Goto, DomainsOK
<1>4. CASE Finish(p)
  BY <1>0, <1>3, <1>4 DEF Reverting, Tears
<1>5. CASE pc' = pc /\ ScriptMode(p) = "seq" /\ step' = [step EXCEPT ![p] = k]
  <2>1. step'[p] = k /\ pc'[p] = "script"
    BY <1>0, <1>5 DEF DomainsOK
  <2> QED
    BY <1>0, <1>5, <2>1 DEF Reverting, Tears
<1> QED
  BY <1>4, <1>5 DEF Executes

LEMMA WorkRecorded ==
  ASSUME IInv, NEW p \in Runner, Work(p) \/ Crash(p)
  PROVE  RecordedInForce'
<1>0. /\ TypeOK /\ DomainsOK /\ TxWork /\ RecordedInForce /\ Alone
      /\ OwnedInForce /\ Frame(p) /\ list' = list /\ plan' = plan
  BY WorkFrame, WorkMoves DEF IInv, TypeOK, Frame
<1>1. ASSUME NEW r \in Runner \ {p}, NEW m, Reverting(r, m)
      PROVE  Reverting(r, m)'
  BY <1>0, <1>1 DEF Frame, Reverting, Tears, ScriptMode
<1>2. SUFFICES ASSUME NEW m \in records'
               PROVE  \/ done'[m] = Size(m) \/ m \in torn'
                      \/ \E r \in Runner : Reverting(r, m)'
  BY <1>0 DEF RecordedInForce, InForce, Size
<1>3. CASE \E k \in Nat : Executes(p, k)
  <2>1. PICK k \in Nat : Executes(p, k)
    BY <1>3
  <2>2. m \in records /\ torn' = torn /\ m \in Migration
    BY <1>0, <1>2, <2>1, ExecutesFacts DEF Executes, DomainsOK
  <2>3. CASE m = cur[p] /\ dir[p] = "down"
    BY <1>0, <1>2, <2>1, <2>3, ExecutesReverting
  <2>4. CASE m # cur[p] \/ dir[p] = "up"
    <3>1. InForce(m) => m # cur[p]
      BY <1>0, <2>1, <2>4, ExecutesFacts
    <3>2. ~Reverting(p, m)
      BY <2>4 DEF Reverting
    <3>3. InForce(m) => done'[m] = Size(m)
      BY <1>0, <2>1, <2>2, <3>1, ExecutesFacts DEF InForce
    <3> QED
      BY <1>0, <1>1, <2>2, <3>2, <3>3 DEF RecordedInForce
  <2> QED
    BY <1>0, <2>3, <2>4 DEF DomainsOK
<1>4. CASE /\ done' = done /\ ~RunJoined(p) /\ ~Insert(p) /\ ~Erase(p)
           /\ Statement(p) => ScriptMode(p) = "seqTx"
           /\ CommitScript(p) => records' = records
  <2>1. /\ m \in records /\ torn \subseteq torn'
        /\ Reverting(p, m) => m \in torn'
    BY <1>0, <1>2, <1>4, QuietRecords DEF Reverting
  <2> QED
    BY <1>0, <1>1, <1>4, <2>1 DEF RecordedInForce, InForce
<1>5. CASE Insert(p)
  <2>1. /\ done' = done /\ torn' = torn
        /\ m \in records \/ m = cur[p]
        /\ pc[p] = "ledger" /\ dir[p] = "up"
    BY <1>2, <1>5 DEF Insert
  <2>2. Owns(p, cur[p]) /\ cur[p] \in Migration
    BY <1>0, <2>1 DEF Owns, Alone, DomainsOK, Command, TypeOK, PositionOK
  <2>3. ~Reverting(p, m)
    BY <2>1 DEF Reverting
  <2> QED
    BY <1>0, <1>1, <2>1, <2>2, <2>3 DEF RecordedInForce, OwnedInForce, InForce
<1>6. CASE Erase(p)
  <2>1. done' = done /\ torn' = torn /\ m \in records /\ m # cur[p]
    BY <1>2, <1>6 DEF Erase
  <2> QED
    BY <1>0, <1>1, <2>1 DEF RecordedInForce, InForce, Reverting
<1>7. CASE Insert(p) \/ Erase(p) \/ ~(Insert(p) \/ Erase(p))
  BY <1>0, <1>3, <1>4, <1>5, <1>6, WorkEffect
<1> QED
  BY <1>7

-----------------------------------------------------------------------------
(* The steps that are no runner's own. *)
LEMMA StartInv ==
  ASSUME IInv, NEW p \in Runner, NEW c \in Command, NEW t \in Migration,
         Start(p, c, t), "down" \notin Overlapping
  PROVE  IInv'
<1>0. /\ TypeOK /\ DomainsOK /\ Frame(p) /\ UNCHANGED <<plan, done, records, torn>>
      /\ pc[p] = "off"
  BY StartFrame DEF IInv, TypeOK, Start, disk, db
<1>1. TypeOK'
  BY <1>0, StartTypeOK
<1>2. /\ pc'[p] = "probe" /\ session'[p] = "idle" /\ step'[p] = 0
      /\ todo'[p] = {} /\ mine'[p] = {}
  BY <1>0 DEF Start, Goto, DomainsOK
<1>3. Alone' /\ FirstListed' /\ PickedOnce'
  BY StartControl
<1>4. \A q \in Runner, m \in Migration : Owns(q, m)' => Owns(q, m)
  BY <1>0, <1>2 DEF Owns, Frame, ScriptMode
<1>5. OwnedInForce' /\ OneOwner'
  BY <1>0, <1>4 DEF IInv, OwnedInForce, OneOwner, InForce, Size
<1>6. TxWork'
  <2>1. \A q \in Runner : Working(q)' => q # p /\ Working(q)
    BY <1>0, <1>2 DEF Working, Frame
  <2> QED
    BY <1>0, <1>2, <2>1 DEF IInv, TxWork, Frame, After, Size, ScriptMode
<1>7. RecordedInForce'
  <2>1. \A r \in Runner, m \in Migration : Reverting(r, m) => Reverting(r, m)'
    BY <1>0 DEF Reverting, Tears, Frame, ScriptMode
  <2> QED
    BY <1>0, <2>1 DEF IInv, RecordedInForce, InForce, Size, DomainsOK
<1> QED
  BY <1>1, <1>3, <1>5, <1>6, <1>7 DEF IInv

(* IInv reads every variable but the history and the bounds. *)
LEMMA FrameInv ==
  ASSUME IInv, TypeOK', 1 \in folders',
         UNCHANGED <<plan, db, session, pc, input, loop, cur, step, torn>>
  PROVE  IInv'
<1>1. Alone' /\ FirstListed' /\ PickedOnce'
  BY DEF IInv, Alone, FirstListed, PickedOnce, input, loop
<1>0. \A m : Size(m)' = Size(m)
  BY DEF Size
<1>2. \A p \in Runner, m \in Migration :
        /\ Owns(p, m)' <=> Owns(p, m)
        /\ Reverting(p, m)' <=> Reverting(p, m)
  BY DEF Owns, Reverting, Tears, ScriptMode, input, loop
<1>3. OwnedInForce' /\ OneOwner'
  BY <1>0, <1>2 DEF IInv, OwnedInForce, OneOwner, InForce, db
<1>4. TxWork'
  BY DEF IInv, TxWork, Working, After, ScriptMode, Size, db, loop
<1>5. RecordedInForce'
  <2>1. RecordedInForce /\ records \subseteq Migration
    BY DEF IInv, TypeOK, DomainsOK
  <2>2. ASSUME NEW m \in records
        PROVE  \/ InForce(m)' \/ m \in torn'
               \/ \E p \in Runner : Reverting(p, m)'
    <3>1. \/ InForce(m) \/ m \in torn
          \/ \E p \in Runner : Reverting(p, m)
      BY <2>1 DEF RecordedInForce
    <3>2. /\ Size(m)' = Size(m) /\ done' = done
          /\ m \in torn => m \in torn'
      BY <1>0 DEF db
    <3>3. InForce(m) => InForce(m)'
      BY <3>2 DEF InForce
    <3> QED
      BY <1>2, <2>1, <3>1, <3>2, <3>3
  <2> QED
    BY <2>2 DEF RecordedInForce, db
<1> QED
  BY <1>1, <1>3, <1>4, <1>5 DEF IInv

LEMMA StepInv ==
  ASSUME IInv, [Next]_vars, "down" \notin Overlapping PROVE IInv'
<1>1. TypeOK'
  BY StepTypeOK DEF IInv
<1>2. ASSUME NEW p \in Runner, Work(p) \/ Crash(p) PROVE IInv'
  BY <1>1, <1>2, WorkControl, WorkTxWork, WorkOwnership, WorkRecorded DEF IInv
<1>3. ASSUME NEW m \in Migration, AddFolder(m) PROVE IInv'
  <2>1. 1 \in folders'
    BY <1>3 DEF IInv, FirstListed, AddFolder
  <2> QED
    BY <1>1, <1>3, <2>1, FrameInv DEF AddFolder
<1>4. CASE UNCHANGED vars
  <2>1. 1 \in folders'
    BY <1>4 DEF IInv, FirstListed, vars, disk
  <2> QED
    BY <1>1, <1>4, <2>1, FrameInv DEF vars, disk
<1> QED
  BY <1>2, <1>3, <1>4, StartInv DEF Next

LEMMA InitInv == Init => IInv
<1> SUFFICES ASSUME Init PROVE IInv
  OBVIOUS
<1>1. TypeOK
  BY InitTypeOK
<1>2. Alone /\ FirstListed /\ PickedOnce /\ OwnedInForce /\ OneOwner /\ TxWork
  BY DEF Init, Alone, FirstListed, PickedOnce, OwnedInForce, OneOwner, Owns,
         TxWork, Working
<1>3. RecordedInForce
  BY DEF Init, RecordedInForce
<1> QED
  BY <1>1, <1>2, <1>3 DEF IInv

(* However many runs of migrate interleave, fail, retry and are killed, and *)
(* whatever the scripts: as long as a down runs alone, a recorded migration *)
(* is in force unless it is being reverted or was cut from its record.      *)
THEOREM RecordsAreSound ==
  ASSUME "down" \notin Overlapping PROVE Spec => []RecordedInForce
<1>1. IInv => RecordedInForce
  BY DEF IInv
<1> QED
  BY <1>1, InitInv, StepInv, PTL DEF Spec

(* Nobody takes back what a running migrate has applied, but that migrate   *)
(* itself (the catch block of migrate.ts).                                  *)
THEOREM AppliedStaysInForce ==
  ASSUME "down" \notin Overlapping PROVE Spec => []HeldInForce
<1>1. IInv => HeldInForce
  BY DEF IInv, TypeOK, DomainsOK, HeldInForce, Holds, OwnedInForce, Owns
<1> QED
  BY <1>1, InitInv, StepInv, PTL DEF Spec

(* Two runs of migrate never both take themselves for the one that applied  *)
(* a migration.                                                             *)
THEOREM AppliedByOne ==
  ASSUME "down" \notin Overlapping PROVE Spec => []OneHolder
<1>1. IInv => OneHolder
  BY DEF IInv, TypeOK, DomainsOK, OneHolder, Holds, OneOwner, Owns
<1> QED
  BY <1>1, InitInv, StepInv, PTL DEF Spec

-----------------------------------------------------------------------------
(***************************************************************************)
(* What commands that run one at a time come to: proofs that they implement *)
(* MigrationLedger, whatever the scripts, their execution modes, the        *)
(* failures and the kills; that a migrate that failed once leaves no trace; *)
(* and that a down undoes its target and what is newer, and no more.        *)
(***************************************************************************)
Solo == \A p, q \in Runner : pc[p] # "off" /\ pc[q] # "off" => p = q

(* Without the table there are no rows. *)
LedgerEmpty == ~InForce(1) => records = {}

(* Who is about to erase a record has taken its migration back, as far as   *)
(* the down script does.                                                    *)
Reverted ==
  \A p \in Runner : pc[p] = "ledger" /\ dir[p] = "down" =>
    ~InForce(cur[p]) \/ plan[cur[p]].undo = 0

RInv == IInv /\ Solo /\ LedgerEmpty /\ Reverted

Kept    == {m \in Migration : plan[m].undo = 0}
Applied == {m \in Migration : InForce(m)}

-----------------------------------------------------------------------------
(* The records change with a script of migration 1, in Insert and in Erase. *)
LEMMA WorkRecordsOnly ==
  ASSUME RInv, NEW p \in Runner, Work(p) \/ Crash(p)
  PROVE  \/ \E k \in Nat : Executes(p, k)
         \/ done' = done /\ (records' = records \/ Insert(p) \/ Erase(p))
<1>0. TypeOK /\ TxWork
  BY DEF RInv, IInv
<1>1. CASE /\ done' = done /\ ~RunJoined(p)
           /\ Statement(p) => ScriptMode(p) = "seqTx"
           /\ CommitScript(p) => records' = records
           /\ ~Insert(p) /\ ~Erase(p)
  BY <1>0, <1>1, QuietRecords
<1> QED
  BY <1>0, <1>1, WorkEffect

LEMMA WorkLedgerEmpty ==
  ASSUME RInv, NEW p \in Runner, Work(p) \/ Crash(p) PROVE LedgerEmpty'
<1>0. TypeOK /\ DomainsOK /\ plan' = plan /\ LedgerEmpty /\ 1 \in Migration
  BY WorkFrame, RunnerAssumption DEF RInv, IInv, TypeOK, Frame, Migration
<1>1. ASSUME NEW k \in Nat, Executes(p, k) PROVE LedgerEmpty'
  <2>1. /\ Commit(cur[p], After(p, k)) /\ cur[p] \in Migration
        /\ done'[cur[p]] = After(p, k) /\ done'[cur[p]] <= Size(cur[p])
        /\ \A m \in Migration \ {cur[p]} : done'[m] = done[m]
    <3>1. TypeOK'
      BY WorkTypeOK DEF RInv, IInv
    <3>2. \A m \in Migration : done'[m] <= Size(m)
      BY <1>0, <3>1 DEF TypeOK, Size
    <3> QED
      BY <1>0, <1>1, <3>2, ExecutesFacts DEF Executes
  <2>2. done' \in [Migration -> Nat] /\ Size(1) \in Nat
    BY <1>0, WorkDomains, PlanFacts DEF DomainsOK
  <2>3. CASE cur[p] = 1
    <3>1. done'[1] # Size(1) => After(p, k) < Size(1)
      BY <1>0, <2>1, <2>2, <2>3
    <3> QED
      BY <1>0, <2>1, <2>3, <3>1 DEF LedgerEmpty, InForce, Commit, Size
  <2>4. CASE cur[p] # 1
    BY <1>0, <2>1, <2>4 DEF LedgerEmpty, InForce, Commit, Size
  <2> QED
    BY <2>3, <2>4
<1>2. CASE done' = done /\ (records' = records \/ Insert(p) \/ Erase(p))
  BY <1>0, <1>2 DEF LedgerEmpty, InForce, Size, Insert, Erase, LedgerExists
<1> QED
  BY <1>1, <1>2, WorkRecordsOnly

(* A runner arrives at "ledger" only behind a script that succeeded. *)
LEMMA WorkToLedger ==
  ASSUME TypeOK, NEW p \in Runner, Work(p) \/ Crash(p), pc'[p] = "ledger",
         ~RunJoined(p), Statement(p) => ScriptMode(p) = "seqTx",
         CommitScript(p) => Throw(p)
  PROVE  SkipEmpty(p)
<1>0. DomainsOK
  BY DEF TypeOK
<1>1. CASE Statement(p)
  BY <1>0, <1>1 DEF Statement, InScript
<1>2. CASE StatementFails(p)
  <2>1. Throw(p)
    BY <1>2 DEF StatementFails
  <2> QED
    BY <1>0, <2>1 DEF Throw, Catch, Goto, DomainsOK
<1>3. CASE CommitScript(p)
  BY <1>0, <1>3 DEF Throw, Catch, Goto, DomainsOK
<1>4. CASE JoinedFails(p) \/ InsertFails(p)
  BY <1>0, <1>4 DEF JoinedFails, InsertFails, Throw, Catch, Goto, DomainsOK
<1>5. CASE Begin(p)
  BY <1>0, <1>5 DEF Begin, Throw, Catch, Goto, DomainsOK
<1>6. CASE ImportFails(p) \/ Rollback(p) \/ EraseFails(p)
  BY <1>0, <1>6 DEF ImportFails, Rollback, EraseFails, Catch, Goto, DomainsOK
<1>7. CASE Probe(p) \/ ReadRecords(p) \/ ReadFails(p) \/ PickMigration(p)
           \/ Exit(p) \/ Crash(p)
  BY <1>0, <1>7 DEF Probe, ReadRecords, ReadFails, PickMigration, Exit, Crash,
     Goto, DomainsOK
<1>8. CASE Insert(p) \/ Erase(p)
  BY <1>0, <1>8 DEF Insert, Erase, Goto, DomainsOK
<1> QED
  BY <1>1, <1>2, <1>3, <1>4, <1>5, <1>6, <1>7, <1>8 DEF Work

LEMMA WorkReverted ==
  ASSUME RInv, NEW p \in Runner, Work(p) \/ Crash(p) PROVE Reverted'
<1>0. /\ TypeOK /\ DomainsOK /\ TxWork /\ Solo /\ Frame(p) /\ plan' = plan
      /\ pc[p] # "off"
  BY WorkFrame, WorkMoves DEF RInv, IInv, TypeOK, Frame
<1>1. SUFFICES ASSUME pc'[p] = "ledger", dir'[p] = "down"
               PROVE  done'[cur'[p]] # Size(cur'[p]) \/ plan[cur'[p]].undo = 0
  <2>1. \A q \in Runner \ {p} : pc'[q] # "ledger"
    BY <1>0 DEF Solo, Frame
  <2> QED
    BY <1>0, <1>1, <2>1 DEF Reverted, InForce, Size
<1>2. ASSUME NEW k \in Nat, Executes(p, k)
      PROVE  done'[cur'[p]] # Size(cur'[p])
  <2>1. dir[p] = "down" /\ cur' = cur
    BY <1>1, <1>2 DEF Executes
  <2>2. done'[cur[p]] < Size(cur[p]) /\ cur[p] \in Migration
    BY <1>0, <1>2, <2>1, ExecutesFacts DEF Executes
  <2>3. done'[cur[p]] \in Nat /\ Size(cur[p]) \in Nat
    BY <1>0, <2>2, WorkDomains, PlanFacts DEF DomainsOK
  <2> QED
    BY <2>1, <2>2, <2>3
<1>3. CASE SkipEmpty(p)
  BY <1>1, <1>3 DEF SkipEmpty, ScriptLength, loop
<1> QED
  BY <1>0, <1>1, <1>2, <1>3, WorkEffect, WorkToLedger

-----------------------------------------------------------------------------
LEMMA RInvStep ==
  ASSUME RInv, [Next]_vars, Overlapping = {} PROVE RInv'
<1>0. DomainsOK
  BY DEF RInv, IInv, TypeOK
<1>1. IInv'
  BY StepInv DEF RInv
<1>2. ASSUME NEW p \in Runner, Work(p) \/ Crash(p) PROVE RInv'
  <2>1. Solo'
    BY <1>0, <1>2, WorkFrame, WorkMoves DEF RInv, Solo, Frame
  <2> QED
    BY <1>1, <1>2, <2>1, WorkLedgerEmpty, WorkReverted DEF RInv
<1>3. ASSUME NEW p \in Runner, NEW c \in Command, NEW t \in Migration,
             Start(p, c, t)
      PROVE  RInv'
  <2>1. /\ \A q \in Runner \ {p} : pc[q] = "off"
        /\ pc'[p] = "probe" /\ Frame(p)
        /\ UNCHANGED <<plan, done, records>>
    BY <1>0, <1>3, StartFrame DEF RInv, IInv, Start, Goto, DomainsOK, disk, db
  <2>2. Solo' /\ Reverted'
    BY <2>1 DEF Solo, Reverted, Frame
  <2>3. LedgerEmpty'
    BY <2>1 DEF RInv, LedgerEmpty, InForce, Size
  <2> QED
    BY <1>1, <2>2, <2>3 DEF RInv
<1>4. CASE UNCHANGED <<plan, db, pc, loop, cur>>
  <2>1. Solo' /\ Reverted' /\ LedgerEmpty'
    BY <1>4 DEF RInv, Solo, Reverted, LedgerEmpty, InForce, Size, db, loop
  <2> QED
    BY <1>1, <2>1 DEF RInv
<1>5. ASSUME NEW m \in Migration, AddFolder(m) PROVE RInv'
  BY <1>4, <1>5 DEF AddFolder
<1>6. CASE UNCHANGED vars
  BY <1>4, <1>6 DEF vars, disk
<1> QED
  BY <1>2, <1>3, <1>5, <1>6 DEF Next

(* Executing statements is Apply, Revert, or invisible in the ledger. *)
LEMMA ExecutesRefines ==
  ASSUME RInv, NEW p \in Runner, NEW k \in Nat, Executes(p, k),
         Work(p) \/ Crash(p)
  PROVE  \/ \E m \in Migration : Ledger!Apply(m) \/ Ledger!Revert(m)
         \/ UNCHANGED Ledger!lvars
<1> DEFINE m == cur[p]
<1>0. /\ TypeOK /\ DomainsOK /\ LedgerEmpty /\ m \in Migration
      /\ plan' = plan /\ Commit(m, After(p, k)) /\ k \in 1..ScriptLength(p)
      /\ dir[p] \in {"up", "down"} /\ 1 \in Migration
  BY PlanFacts DEF RInv, IInv, TypeOK, DomainsOK, Executes
<1>1. /\ done'[m] = After(p, k) /\ done' \in [Migration -> Nat]
      /\ Size(m) \in Nat /\ done'[m] <= Size(m)
      /\ \A i \in Migration \ {m} : done'[i] = done[i]
      /\ \A i : Size(i)' = Size(i)
  <2>1. TypeOK'
    BY WorkTypeOK DEF RInv, IInv
  <2> QED
    BY <1>0, <2>1, ExecutesFacts, PlanFacts DEF TypeOK, DomainsOK, Size
<1>2. Kept' = Kept
  BY <1>0 DEF Kept
<1>3. CASE dir[p] = "up" /\ done'[m] = Size(m)
  <2>1. m \notin Applied /\ records' = records
    BY <1>0, <1>1, <1>3, ExecutesFacts DEF Applied, Commit
  <2>2. Applied' = Applied \cup {m}
    BY <1>0, <1>1, <1>3 DEF Applied, InForce
  <2>3. Ledger!Apply(m)
    BY <1>2, <2>1, <2>2 DEF Ledger!Apply, Kept, Applied
  <2> QED
    BY <1>0, <2>3
<1>4. CASE dir[p] = "down" /\ InForce(m)
  <2>1. done'[m] < Size(m)
    BY <1>0, <1>4, ExecutesFacts
  <2>2. m \notin Kept
    BY <1>0, <1>4 DEF Kept, ScriptLength
  <2>3. Applied' = Applied \ {m}
    BY <1>0, <1>1, <2>1 DEF Applied, InForce
  <2>4. records' = IF m = 1 THEN {} ELSE records
    BY <1>0, <1>1, <2>1 DEF Commit
  <2>5. Ledger!Revert(m)
    BY <1>0, <1>2, <1>4, <2>2, <2>3, <2>4 DEF Ledger!Revert, Kept, Applied
  <2> QED
    BY <1>0, <2>5
<1>5. CASE ~InForce(m) /\ done'[m] # Size(m)
  <2>1. Applied' = Applied
    BY <1>0, <1>1, <1>5 DEF Applied, InForce
  <2>2. records' = records
    BY <1>0, <1>5 DEF Commit, LedgerEmpty
  <2> QED
    BY <1>2, <2>1, <2>2 DEF Ledger!lvars, Kept, Applied
<1>6. /\ dir[p] = "up" => ~InForce(m)
      /\ dir[p] = "down" => done'[m] # Size(m)
  BY <1>0, <1>1, ExecutesFacts
<1> QED
  BY <1>0, <1>3, <1>4, <1>5, <1>6

LEMMA WorkRefines ==
  ASSUME RInv, NEW p \in Runner, Work(p) \/ Crash(p)
  PROVE  [Ledger!Next]_(Ledger!lvars)
<1>0. /\ TypeOK /\ DomainsOK /\ Reverted /\ Alone /\ OwnedInForce
      /\ plan' = plan /\ 1 \in Migration
  BY WorkFrame, RunnerAssumption
     DEF RInv, IInv, TypeOK, Frame, Migration
<1>1. ASSUME NEW k \in Nat, Executes(p, k) PROVE [Ledger!Next]_(Ledger!lvars)
  BY <1>1, ExecutesRefines DEF Ledger!Next
<1>2. ASSUME done' = done PROVE Kept' = Kept /\ Applied' = Applied
  BY <1>0, <1>2 DEF Kept, Applied, InForce, Size
<1>3. CASE done' = done /\ records' = records
  BY <1>2, <1>3 DEF Ledger!lvars, Kept, Applied
<1>4. CASE Insert(p)
  <2>1. /\ done' = done /\ records' = records \cup {cur[p]} /\ InForce(1)
        /\ pc[p] = "ledger" /\ dir[p] = "up"
    BY <1>4 DEF Insert, LedgerExists
  <2>2. Owns(p, cur[p]) /\ cur[p] \in Migration
    BY <1>0, <2>1 DEF Owns, Alone, DomainsOK, Command, TypeOK, PositionOK
  <2>3. {1, cur[p]} \subseteq Applied
    BY <1>0, <2>1, <2>2 DEF Applied, OwnedInForce
  <2>4. Ledger!Record(cur[p])
    BY <1>2, <2>1, <2>3 DEF Ledger!Record, Kept, Applied
  <2> QED
    BY <2>2, <2>4 DEF Ledger!Next
<1>5. CASE Erase(p)
  <2>1. /\ done' = done /\ records' = records \ {cur[p]} /\ InForce(1)
        /\ pc[p] = "ledger" /\ dir[p] = "down"
    BY <1>5 DEF Erase, LedgerExists
  <2>2. cur[p] \in Migration
    BY <1>0, <2>1 DEF TypeOK, PositionOK
  <2>3. 1 \in Applied /\ cur[p] \notin Applied \ Kept
    BY <1>0, <2>1, <2>2 DEF Applied, Kept, Reverted
  <2>4. Ledger!Erase(cur[p])
    BY <1>2, <2>1, <2>3 DEF Ledger!Erase, Kept, Applied
  <2> QED
    BY <2>2, <2>4 DEF Ledger!Next
<1> QED
  BY <1>1, <1>3, <1>4, <1>5, WorkRecordsOnly

LEMMA StepRefines ==
  ASSUME RInv, [Next]_vars PROVE [Ledger!Next]_(Ledger!lvars)
<1>1. CASE UNCHANGED <<plan, done, records>>
  BY <1>1 DEF Ledger!lvars, InForce, Size
<1>2. ASSUME NEW p \in Runner, NEW c \in Command, NEW t \in Migration,
             Start(p, c, t)
      PROVE  UNCHANGED <<plan, done, records>>
  BY <1>2 DEF Start, disk, db
<1>3. ASSUME NEW m \in Migration, AddFolder(m)
      PROVE  UNCHANGED <<plan, done, records>>
  BY <1>3 DEF AddFolder, db
<1>4. CASE UNCHANGED vars
  BY <1>1, <1>4 DEF vars, disk, db
<1> QED
  BY <1>1, <1>2, <1>3, <1>4, WorkRefines DEF Next

LEMMA InitRefines == Init => RInv /\ Ledger!Init
<1> SUFFICES ASSUME Init PROVE RInv /\ Ledger!Init
  OBVIOUS
<1>1. IInv /\ DomainsOK
  BY InitInv DEF IInv, TypeOK
<1>2. Solo /\ LedgerEmpty /\ Reverted
  BY DEF Init, Solo, LedgerEmpty, Reverted
<1>3. \A m \in Migration : InForce(m) => plan[m].undo = 0
  BY <1>1, PlanFacts DEF Init, InForce
<1>4. ~InForce(1)
  BY <1>1, PlanFacts, RunnerAssumption DEF Init, InForce, Migration
<1>5. Ledger!Init
  BY <1>3, <1>4 DEF Init, Ledger!Init
<1> QED
  BY <1>1, <1>2, <1>5 DEF RInv

(* Under one command at a time, migrate and down implement the ledger: a    *)
(* migration is recorded only while it is in force, unrecorded only once it *)
(* is not (or cannot be taken back), and changes state as a whole.          *)
THEOREM RunnerImplementsLedger ==
  ASSUME Overlapping = {} PROVE Spec => LedgerImplemented
<1>1. RInv /\ [Next]_vars => RInv'
  BY RInvStep
<1>2. RInv /\ [Next]_vars => [Ledger!Next]_(Ledger!lvars)
  BY StepRefines
<1> QED
  BY <1>1, <1>2, InitRefines, PTL DEF Spec, LedgerImplemented, Ledger!Spec

-----------------------------------------------------------------------------
(* What a command comes to.                                                 *)

(* What p was given to work with, and what has befallen it: see             *)
(* FailedMigrateLeavesNoTrace and DownUndoesExactlyFromTarget.              *)
Undisturbed(p) ==
  /\ FoundInStep(p)
  /\ cmd[p] = "migrate" =>
       /\ faults <= base[p].faults + 1 /\ torn = {}
       /\ \A m \in Migration : plan[m].up # "joinedTx"
  /\ cmd[p] = "down" =>
       /\ faults <= base[p].faults
       /\ target[p] \in base[p].records

Busy(p) == pc[p] \in {"script", "ledger", "rollback"}

(* The migrations p takes the next one from, and those that are recorded    *)
(* and in force, cur[p] left aside.                                         *)
Source(p) ==
  IF cmd[p] = "down" THEN base[p].records
  ELSE IF dir[p] = "up" THEN Migration \ (base[p].records \cup mine[p])
  ELSE mine[p]

Standing(p) ==
  IF cmd[p] = "down" THEN todo[p]
  ELSE base[p].records \cup (IF dir[p] = "up" THEN mine[p] ELSE todo[p])

(* Before the first migration is picked. *)
Fresh(p) ==
  /\ records = base[p].records /\ done = base[p].done
  /\ todo[p] = {} /\ mine[p] = {} /\ cur[p] = 0
  /\ session[p] = "idle"
  /\ dir[p] = IF cmd[p] = "migrate" THEN "up" ELSE "down"
  /\ pc[p] = "read" => InForce(1)

Places(p) ==
  /\ todo[p] \subseteq Source(p) /\ mine[p] \cap base[p].records = {}
  /\ Busy(p) => cur[p] \in Source(p) \ todo[p]
  /\ Busy(p) /\ dir[p] = "down" => \A m \in todo[p] : m < cur[p]
  /\ cmd[p] = "down" =>
       /\ dir[p] = "down" /\ mine[p] = {}
       /\ cur[p] = 0 => todo[p] = base[p].records
       /\ cur[p] # 0 => \A m \in base[p].records : m < cur[p] <=> m \in todo[p]
       /\ cur[p] = target[p] \/ target[p] \in todo[p]

Effects(p) ==
  /\ \A m \in Standing(p) : InForce(m)
  /\ \A m \in Migration \ Standing(p) :
       \/ Busy(p) /\ m = cur[p]
       \/ done[m] = 0
       \/ /\ dir[p] = "down" /\ ~Reversible(m)
          /\ m \in base[p].records \cup mine[p]
  /\ pc[p] = "script" => Runnable(p)
  /\ pc[p] = "ledger" => IF dir[p] = "up" THEN InForce(cur[p])
                         ELSE done[cur[p]] = 0 \/ ~Reversible(cur[p])
  /\ pc[p] = "rollback" => dir[p] = "up" /\ done[cur[p]] = 0

(* The record of a migration that is being reverted is still there, unless  *)
(* it went with the ledger.                                                 *)
Recorded(p) ==
  IF Busy(p) /\ dir[p] = "down"
  THEN \/ records = Standing(p) \cup {cur[p]}
       \/ cur[p] = 1 /\ pc[p] = "script" /\ records = {} /\ Standing(p) = {}
  ELSE records = Standing(p)

Refusals(p) ==
  /\ cmd[p] = "migrate" /\ (dir[p] = "down" \/ pc[p] = "rollback") =>
       faults > base[p].faults
  /\ pc[p] # "rollback" => session[p] # "aborted"

Walking(p) == Places(p) /\ Effects(p) /\ Recorded(p) /\ Refusals(p)

Outcome(p) ==
  /\ cmd[p] = "migrate" /\ exit[p] = "fail" =>
       /\ records = base[p].records
       /\ \A m \in Migration : Reversible(m) => done[m] = base[p].done[m]
  /\ cmd[p] = "down" /\ exit[p] = "ok" =>
       /\ records = {m \in base[p].records : m < target[p]}
       /\ \A m \in Migration :
            IF m \in base[p].records /\ m >= target[p]
            THEN Reversible(m) => done[m] = 0
            ELSE done[m] = base[p].done[m]

Progress(p) ==
  /\ pc[p] \in {"probe", "read"} => Fresh(p)
  /\ Busy(p) \/ pc[p] = "pick" => Walking(p)
  /\ pc[p] = "off" => Outcome(p)

(* Nothing is recorded but what has a folder, and a runner has listed all   *)
(* that was recorded when it started.                                       *)
Listed ==
  /\ records \subseteq folders
  /\ \A p \in Runner : pc[p] # "off" =>
       /\ base[p].records \subseteq list[p] /\ list[p] \subseteq folders
       /\ todo[p] \subseteq list[p] /\ mine[p] \subseteq list[p]
       /\ Busy(p) => cur[p] \in list[p]

LedgerFound ==
  \A p \in Runner : base[p].done[1] # Size(1) => base[p].records = {}

Counted == \A p \in Runner : base[p].faults <= faults

OInv ==
  /\ Listed /\ LedgerFound /\ Counted
  /\ \A p \in Runner : Undisturbed(p) => Progress(p)

-----------------------------------------------------------------------------
(* What a command comes to, by the phases of its work.                      *)

(* Only one command is at work: nobody else changes what it left.           *)
OneRunner == \A p, q \in Runner : p = q

LEMMA WorkInput ==
  ASSUME DomainsOK, NEW p \in Runner, Work(p) \/ Crash(p)
  PROVE  /\ UNCHANGED <<plan, folders, cmd, target, list, base>>
         /\ faults' \in Nat /\ faults <= faults' /\ torn \subseteq torn'
<1>0. faults \in Nat
  BY DEF DomainsOK
<1>1. CASE Probe(p) \/ ReadRecords(p) \/ PickMigration(p) \/ Exit(p) \/ SkipEmpty(p)
           \/ RunJoined(p) \/ Begin(p) \/ Statement(p) \/ Rollback(p) \/ Insert(p)
           \/ Erase(p)
  BY <1>0, <1>1 DEF Probe, ReadRecords, PickMigration, Exit, SkipEmpty, RunJoined,
     Begin, Statement, Rollback, Insert, Erase, disk, input, bounds
<1>2. CASE ReadFails(p) \/ ImportFails(p) \/ JoinedFails(p) \/ CommitScript(p)
  BY <1>0, <1>2 DEF ReadFails, ImportFails, JoinedFails, CommitScript, Rejects, disk,
     input
<1>3. CASE StatementFails(p) \/ InsertFails(p) \/ EraseFails(p) \/ Crash(p)
  BY <1>0, <1>3 DEF StatementFails, InsertFails, EraseFails, Crash, Rejects, Tear,
     disk, input
<1> QED BY <1>1, <1>2, <1>3 DEF Work

LEMMA WorkUndisturbed ==
  ASSUME DomainsOK, NEW p \in Runner, Work(p) \/ Crash(p), Undisturbed(p)'
  PROVE  Undisturbed(p)
<1>1. /\ UNCHANGED <<plan, folders, cmd, target, list, base>>
      /\ faults' \in Nat /\ faults <= faults' /\ torn \subseteq torn'
  BY WorkInput
<1>2. faults \in Nat /\ base[p].faults \in Nat
  BY DEF DomainsOK
<1> QED BY <1>1, <1>2 DEF Undisturbed, FoundInStep, Size

LEMMA SameSets ==
  ASSUME NEW p \in Runner, base' = base, cmd' = cmd,
         dir'[p] = dir[p], todo'[p] = todo[p], mine'[p] = mine[p]
  PROVE  Source(p)' = Source(p) /\ Standing(p)' = Standing(p)
BY DEF Source, Standing

(* The migration at work is left aside. *)
LEMMA Aside ==
  ASSUME DomainsOK, NEW p \in Runner, Places(p)
  PROVE  /\ Standing(p) \subseteq Migration
         /\ Busy(p) => /\ cur[p] \in Migration \ Standing(p)
                       /\ dir[p] = "up" <=> cur[p] \notin base[p].records \cup mine[p]
<1>1. /\ todo[p] \subseteq Migration /\ mine[p] \subseteq Migration
      /\ base[p].records \subseteq Migration /\ dir[p] \in {"up", "down"}
  BY DEF DomainsOK
<1> QED BY <1>1 DEF Places, Source, Standing

-----------------------------------------------------------------------------
(* Before the first script. *)

LEMMA FirstPick ==
  ASSUME DomainsOK, NEW p \in Runner, Fresh(p), Undisturbed(p),
         UNCHANGED <<plan, done, records, session, cmd, target, dir, mine, cur, base>>,
         pc'[p] = "pick",
         IF cmd[p] = "migrate" THEN todo'[p] \subseteq Migration \ base[p].records
                               ELSE todo'[p] = base[p].records
  PROVE  Walking(p)'
<1>1. /\ cmd[p] \in {"migrate", "down"} /\ ~Busy(p)'
      /\ records = base[p].records /\ done = base[p].done
      /\ mine[p] = {} /\ cur[p] = 0 /\ session[p] = "idle"
      /\ dir[p] = IF cmd[p] = "migrate" THEN "up" ELSE "down"
  BY DEF DomainsOK, Fresh, Busy, Command
<1>2. Standing(p)' = base[p].records
  BY <1>1 DEF Standing
<1>3. Places(p)'
  BY <1>1 DEF Places, Source, Undisturbed
<1>4. \A m \in Migration : done[m] = IF m \in base[p].records THEN Size(m) ELSE 0
  BY <1>1 DEF Undisturbed, FoundInStep
<1>5. Effects(p)'
  <2>1. base[p].records \subseteq Migration
    BY DEF DomainsOK
  <2> QED BY <1>2, <1>4, <2>1 DEF Effects, InForce, Size
<1>6. Recorded(p)' /\ Refusals(p)'
  BY <1>1, <1>2 DEF Recorded, Refusals
<1> QED BY <1>3, <1>5, <1>6 DEF Walking

LEMMA ProbeProgress ==
  ASSUME DomainsOK, NEW p \in Runner, Progress(p), Undisturbed(p), LedgerFound,
         Probe(p)
  PROVE  Progress(p)'
<1>1. /\ UNCHANGED <<plan, done, records, session, cmd, target, dir, mine, cur, base>>
      /\ Fresh(p) /\ list[p] \subseteq Migration
  BY DEF Probe, Progress, disk, db, input, DomainsOK
<1>2. CASE LedgerExists
  <2>1. pc'[p] = "read" /\ todo'[p] = {}
    BY <1>2 DEF Probe, Goto, DomainsOK
  <2>2. Fresh(p)'
    BY <1>1, <1>2, <2>1 DEF Fresh, LedgerExists, InForce, Size
  <2> QED BY <2>1, <2>2 DEF Progress, Busy
<1>3. CASE ~LedgerExists
  <2>1. base[p].records = {}
    BY <1>1, <1>3 DEF Fresh, LedgerFound, LedgerExists, InForce
  <2>2. /\ pc'[p] = "pick"
        /\ todo'[p] = IF cmd[p] = "migrate" THEN list[p] ELSE {}
    BY <1>3 DEF Probe, Goto, DomainsOK
  <2>3. Walking(p)'
    BY <1>1, <2>1, <2>2, FirstPick
  <2> QED BY <2>2, <2>3 DEF Progress
<1> QED BY <1>2, <1>3

LEMMA ReadProgress ==
  ASSUME DomainsOK, NEW p \in Runner, Progress(p), Undisturbed(p), Listed,
         ReadRecords(p)
  PROVE  Progress(p)'
<1>1. /\ UNCHANGED <<plan, done, records, session, cmd, target, dir, mine, cur, base>>
      /\ Fresh(p) /\ list[p] \subseteq Migration
      /\ base[p].records \subseteq list[p]
  BY DEF ReadRecords, Progress, disk, db, input, DomainsOK, Listed
<1>2. /\ pc'[p] = "pick"
      /\ todo'[p] = IF cmd[p] = "migrate" THEN list[p] \ records
                    ELSE list[p] \cap records
  BY DEF ReadRecords, Goto, DomainsOK
<1>3. records = base[p].records
  BY <1>1 DEF Fresh
<1>4. Walking(p)'
  BY <1>1, <1>2, <1>3, FirstPick
<1> QED BY <1>2, <1>4 DEF Progress

(* A command that could not read the ledger, and one that was killed. *)
LEMMA GivesUp ==
  ASSUME DomainsOK, NEW p \in Runner, Progress(p), ReadFails(p) \/ Crash(p)
  PROVE  Progress(p)'
<1>1. /\ UNCHANGED <<plan, done, records, cmd, target, base>> /\ pc'[p] = "off"
      /\ ReadFails(p) => exit'[p] = "fail" /\ Fresh(p)
      /\ Crash(p) => exit'[p] = "killed"
  BY DEF ReadFails, Crash, Progress, Goto, disk, db, input, DomainsOK
<1>2. Outcome(p)'
  BY <1>1 DEF Outcome, Fresh
<1> QED BY <1>1, <1>2 DEF Progress, Busy

-----------------------------------------------------------------------------
(* The loops. *)

LEMMA PickProgress ==
  ASSUME DomainsOK, NEW p \in Runner, Walking(p), PickMigration(p)
  PROVE  Walking(p)'
<1>1. PICK m \in todo[p] :
        /\ \A k \in todo[p] : IF dir[p] = "up" THEN m <= k ELSE k <= m
        /\ cur' = [cur EXCEPT ![p] = m]
        /\ todo' = [todo EXCEPT ![p] = @ \ {m}]
  BY DEF PickMigration
<1>2. /\ UNCHANGED <<plan, done, records, session, cmd, target, dir, mine, base, faults>>
      /\ pc[p] = "pick" /\ pc'[p] = "script" /\ step'[p] = 0
      /\ cur'[p] = m /\ todo'[p] = todo[p] \ {m}
      /\ cur[p] # target[p] \/ cmd[p] # "down"
  BY <1>1 DEF PickMigration, AtTarget, Goto, disk, db, input, bounds, DomainsOK
<1>3. /\ todo[p] \subseteq Migration /\ m \in Migration /\ Size(m) \in Nat
      /\ cmd[p] \in {"migrate", "down"} /\ dir[p] \in {"up", "down"}
      /\ base[p].records \subseteq Migration
      /\ cur[p] \in 0..N
  BY PlanFacts DEF DomainsOK, Command
<1>4. /\ ~Busy(p) /\ Busy(p)' /\ Source(p)' = Source(p)
      /\ cmd[p] = "down" => dir[p] = "down"
      /\ dir[p] = "up" => Standing(p)' = Standing(p) /\ m \notin Standing(p)
      /\ dir[p] = "down" => /\ Standing(p) = Standing(p)' \cup {m}
                            /\ m \in Standing(p)
  BY <1>2, <1>3 DEF Busy, Source, Standing, Walking, Places
<1>5. Places(p)'
  <2>1. N \in Nat /\ \A i \in Migration : i \in Nat
    BY RunnerAssumption DEF Migration
  <2>2. todo'[p] \subseteq Source(p) /\ m \in Source(p) \ todo'[p]
    BY <1>2 DEF Walking, Places
  <2>3. dir[p] = "down" => \A k \in todo'[p] : k < m
    BY <1>1, <1>2, <1>3, <2>1
  <2>4. ASSUME cmd[p] = "down", NEW k \in base[p].records
        PROVE  k < m <=> k \in todo'[p]
    <3>1. k < m => k \in todo[p]
      <4>1. CASE cur[p] = 0
        BY <2>4, <4>1 DEF Walking, Places
      <4>2. CASE cur[p] # 0
        <5>1. /\ m \in base[p].records
              /\ \A i \in base[p].records : i < cur[p] <=> i \in todo[p]
          BY <2>4, <4>2 DEF Walking, Places, Source
        <5>2. k \in Nat /\ m \in Nat /\ cur[p] \in Nat
          BY <1>3, <2>1, <2>4
        <5> QED BY <2>4, <5>1, <5>2
      <4> QED BY <4>1, <4>2
    <3>2. ~(m < m)
      BY <1>3, <2>1
    <3> QED BY <1>2, <1>4, <2>3, <2>4, <3>1, <3>2
  <2>5. m # 0
    BY <1>3 DEF Migration
  <2> QED BY <1>2, <1>4, <2>2, <2>3, <2>4, <2>5 DEF Walking, Places
<1>6. Effects(p)'
  <2>1. done[m] = After(p, 0)'
    <3>1. CASE dir[p] = "up"
      BY <1>2, <1>3, <1>4, <3>1 DEF Walking, Effects, After
    <3>2. CASE dir[p] = "down"
      BY <1>2, <1>3, <1>4, <3>2 DEF Walking, Effects, After, InForce, Size
    <3> QED BY <1>3, <3>1, <3>2
  <2>2. Runnable(p)'
    BY <1>2, <2>1 DEF Runnable, Expected
  <2>3. \A k \in Standing(p)' : done'[k] = Size(k)'
    BY <1>2, <1>3, <1>4 DEF Walking, Effects, InForce, Size
  <2>4. \A k \in Migration \ Standing(p)' :
          \/ k = m
          \/ done[k] = 0
          \/ dir[p] = "down" /\ ~Reversible(k) /\ k \in base[p].records \cup mine[p]
    BY <1>3, <1>4 DEF Walking, Effects
  <2>5. \A k : Reversible(k)' = Reversible(k)
    BY <1>2 DEF Reversible, Size
  <2> QED BY <1>2, <1>4, <2>2, <2>3, <2>4, <2>5 DEF Effects, InForce
<1>7. Recorded(p)' /\ Refusals(p)'
  BY <1>2, <1>3, <1>4 DEF Walking, Recorded, Refusals
<1> QED BY <1>5, <1>6, <1>7 DEF Walking

LEMMA ExitProgress ==
  ASSUME DomainsOK, NEW p \in Runner, Undisturbed(p), Walking(p), Exit(p)
  PROVE  Outcome(p)'
<1>1. /\ UNCHANGED <<plan, done, records, cmd, target, base>>
      /\ pc[p] = "pick" /\ ~Busy(p)
      /\ todo[p] = {} \/ (cmd[p] = "down" /\ cur[p] = target[p])
      /\ exit'[p] = IF cmd[p] = "migrate" /\ dir[p] = "down" THEN "fail" ELSE "ok"
  <2>1. exit'[p] = IF cmd[p] = "migrate" /\ dir[p] = "down" THEN "fail" ELSE "ok"
    BY DEF Exit, DomainsOK
  <2>2. UNCHANGED <<plan, done, records, cmd, target, base>>
    BY DEF Exit, disk, db, input
  <2>3. pc[p] = "pick" /\ (todo[p] = {} \/ (cmd[p] = "down" /\ cur[p] = target[p]))
    BY DEF Exit, AtTarget
  <2> QED BY <2>1, <2>2, <2>3 DEF Busy
<1>2. /\ \A m \in Migration :
           base[p].done[m] = IF m \in base[p].records THEN Size(m) ELSE 0
      /\ base[p].records \subseteq Migration /\ todo[p] \subseteq Migration
      /\ records = Standing(p)
      /\ \A m \in Migration : (Reversible(m)' <=> Reversible(m)) /\ Size(m)' = Size(m)
  BY <1>1 DEF Undisturbed, FoundInStep, DomainsOK, Walking, Recorded, Reversible, Size
<1>3. CASE cmd[p] = "migrate" /\ dir[p] = "down"
  <2>1. Standing(p) = base[p].records
    BY <1>1, <1>3 DEF Standing
  <2>2. \A m \in Migration : Reversible(m) => done[m] = base[p].done[m]
    BY <1>1, <1>2, <2>1 DEF Walking, Effects, InForce
  <2> QED BY <1>1, <1>2, <1>3, <2>1, <2>2 DEF Outcome
<1>4. CASE cmd[p] = "down"
  <2>1. /\ Standing(p) = todo[p] /\ cur[p] = target[p] /\ cur[p] # 0
        /\ mine[p] = {} /\ todo[p] \subseteq base[p].records
    <3>1. target[p] # 0
      BY DEF DomainsOK, Migration
    <3> QED BY <1>1, <1>4, <3>1 DEF Standing, Walking, Places, Source
  <2>2. todo[p] = {m \in base[p].records : m < target[p]}
    BY <1>4, <2>1 DEF Walking, Places
  <2>3. ASSUME NEW m \in Migration
        PROVE  IF m \in base[p].records /\ m >= target[p]
               THEN Reversible(m) => done[m] = 0
               ELSE done[m] = base[p].done[m]
    <3>1. CASE m \in todo[p]
      <4>1. m < target[p] /\ done[m] = Size(m) /\ m \in base[p].records
        BY <2>1, <2>2, <3>1 DEF Walking, Effects, InForce
      <4>2. ~(m >= target[p])
        <5>1. N \in Nat /\ m \in Nat /\ target[p] \in Nat
          BY RunnerAssumption DEF DomainsOK, Migration
        <5> QED BY <4>1, <5>1
      <4> QED BY <1>2, <4>1, <4>2
    <3>2. CASE m \in base[p].records \ todo[p]
      <4>1. done[m] = 0 \/ ~Reversible(m)
        BY <1>1, <2>1, <3>2 DEF Walking, Effects
      <4>2. m >= target[p]
        <5>1. N \in Nat /\ m \in Nat /\ target[p] \in Nat
          BY RunnerAssumption DEF DomainsOK, Migration
        <5> QED BY <2>2, <3>2, <5>1
      <4> QED BY <3>2, <4>1, <4>2
    <3>3. CASE m \notin base[p].records
      BY <1>1, <1>2, <2>1, <3>3 DEF Walking, Effects
    <3> QED BY <2>1, <3>1, <3>2, <3>3
  <2> QED BY <1>1, <1>2, <1>4, <2>1, <2>2, <2>3 DEF Outcome
<1>5. cmd[p] \in {"migrate", "down"} /\ dir[p] \in {"up", "down"}
  BY DEF DomainsOK, Command
<1>6. CASE cmd[p] = "migrate" /\ dir[p] = "up"
  BY <1>1, <1>6 DEF Outcome
<1> QED BY <1>3, <1>4, <1>5, <1>6

-----------------------------------------------------------------------------
(* Scripts. *)

(* Nothing has changed but the position in an open transaction. *)
LEMMA WithinTransaction ==
  ASSUME DomainsOK, NEW p \in Runner, Walking(p), pc[p] = "script",
         ScriptMode(p) = "seqTx", session'[p] # "aborted", faults' = faults,
         UNCHANGED <<plan, done, records, pc, cmd, target, dir, todo, mine, cur, base>>
  PROVE  Walking(p)'
<1>1. Source(p)' = Source(p) /\ Standing(p)' = Standing(p) /\ (Busy(p)' <=> Busy(p))
  BY SameSets DEF Busy
<1>2. Places(p)'
  BY <1>1 DEF Walking, Places
<1>3. Runnable(p)'
  BY DEF Walking, Effects, Runnable, Expected, After, ScriptMode, Size
<1>4. Effects(p)'
  BY <1>1, <1>3 DEF Walking, Effects, InForce, Reversible, Size
<1>5. Recorded(p)' /\ Refusals(p)'
  BY <1>1 DEF Walking, Recorded, Refusals
<1> QED BY <1>2, <1>4, <1>5 DEF Walking

(* Where the down script of migration 1 is at work, nothing else is left.   *)
LEMMA NothingElseStands ==
  ASSUME DomainsOK, NEW p \in Runner, Walking(p), Busy(p), dir[p] = "down",
         cur[p] = 1, LedgerFound, Undisturbed(p)
  PROVE  Standing(p) = {}
<1>1. todo[p] = {}
  <2>1. \A m \in todo[p] : m \in 1..N /\ m < 1
    BY DEF Walking, Places, DomainsOK, Migration
  <2> QED BY <2>1, RunnerAssumption
<1>2. CASE cmd[p] = "down"
  BY <1>1, <1>2 DEF Standing
<1>3. CASE cmd[p] # "down"
  <2>1. 1 \in mine[p] /\ 1 \notin base[p].records /\ 1 \in Migration
    BY <1>3 DEF Walking, Places, Source, DomainsOK
  <2>2. base[p].done[1] = 0 /\ Size(1) > 0 /\ Size(1) \in Nat
    BY <2>1, PlanFacts DEF Undisturbed, FoundInStep
  <2>3. base[p].records = {}
    BY <2>2 DEF LedgerFound
  <2> QED BY <1>1, <1>3, <2>3 DEF Standing
<1> QED BY <1>2, <1>3

(* The first migration of the list is migration 1. *)
LEMMA FirstIsOne ==
  ASSUME DomainsOK, FirstListed, NEW p \in Runner, pc[p] # "off", cur[p] \in Migration
  PROVE  IsFirstMigration(p) <=> cur[p] = 1
<1>1. N \in Nat /\ list[p] \subseteq Migration /\ 1 \in list[p]
  BY RunnerAssumption DEF DomainsOK, FirstListed
<1> QED BY <1>1 DEF IsFirstMigration, Migration


(* A script, or a part of one, has been executed. *)
LEMMA ExecutesProgress ==
  ASSUME TypeOK, LedgerEmpty, LedgerFound, FirstListed, NEW p \in Runner,
         Undisturbed(p), Walking(p), NEW k \in Nat, Executes(p, k),
         session'[p] # "aborted", faults' = faults,
         UNCHANGED <<cmd, target, base>>
  PROVE  Walking(p)'
<1> DEFINE c == cur[p]
<1>1. /\ DomainsOK /\ pc[p] = "script" /\ Busy(p) /\ c \in Migration
      /\ UNCHANGED <<plan, cur, dir, todo, mine>>
      /\ k \in 1..ScriptLength(p) /\ Commit(c, After(p, k))
      /\ dir[p] \in {"up", "down"}
  BY DEF TypeOK, DomainsOK, Executes, Busy
<1>2. /\ done'[c] = After(p, k) /\ \A m \in Migration \ {c} : done'[m] = done[m]
      /\ dir[p] = "up" => ~InForce(c)
      /\ ScriptLength(p) \in Nat /\ Size(c) \in Nat /\ Size(c) > 0
      /\ plan[c].undo \in {0, Size(c)}
      /\ N \in Nat
  BY <1>1, ExecutesFacts, ScriptFacts, PlanFacts, RunnerAssumption
<1>3. /\ Source(p)' = Source(p) /\ Standing(p)' = Standing(p)
      /\ Standing(p) \subseteq Migration \ {c}
  BY <1>1, SameSets, Aside DEF Walking
<1>4. \/ /\ k = ScriptLength(p)
         /\ pc'[p] = IF dir[p] = "down" /\ c = 1 THEN "pick" ELSE "ledger"
      \/ ScriptMode(p) = "seq" /\ pc'[p] = "script" /\ step'[p] = k
  <2>1. IsFirstMigration(p) <=> c = 1
    BY <1>1, FirstIsOne
  <2>2. Finish(p) =>
          pc'[p] = IF dir[p] = "down" /\ c = 1 THEN "pick" ELSE "ledger"
    BY <1>1, <2>1 DEF Finish, Goto, DomainsOK
  <2>3. CASE ScriptMode(p) # "seq"
    BY <2>2, <2>3 DEF Executes
  <2>4. CASE ScriptMode(p) = "seq"
    BY <1>1, <2>2, <2>4 DEF Executes, DomainsOK
  <2> QED BY <2>3, <2>4
<1>5. Places(p)'
  BY <1>1, <1>3, <1>4 DEF Walking, Places, Busy
<1>6. /\ \A m : (Reversible(m)' <=> Reversible(m)) /\ Size(m)' = Size(m)
      /\ ScriptMode(p)' = ScriptMode(p) /\ \A i : After(p, i)' = After(p, i)
  BY <1>1 DEF Reversible, Size, ScriptMode, After
<1>7. k = ScriptLength(p) => done'[c] = IF dir[p] = "up" THEN Size(c) ELSE 0
  BY <1>1, <1>2 DEF After, ScriptLength
<1>8. Effects(p)'
  <2>1. \A m \in Standing(p)' : InForce(m)'
    BY <1>2, <1>3, <1>6 DEF Walking, Effects, InForce
  <2>2. \A m \in (Migration \ Standing(p)) \ {c} :
          \/ done'[m] = 0
          \/ dir[p] = "down" /\ ~Reversible(m) /\ m \in base[p].records \cup mine[p]
    BY <1>1, <1>2 DEF Walking, Effects
  <2>3. pc'[p] = "script" => Runnable(p)'
    BY <1>1, <1>2, <1>4, <1>6 DEF Runnable, Expected
  <2>4. pc'[p] = "ledger" => IF dir[p] = "up" THEN InForce(c)'
                             ELSE done'[c] = 0 \/ ~Reversible(c)
    BY <1>1, <1>4, <1>6, <1>7 DEF InForce
  <2>5. pc'[p] = "pick" => done'[c] = 0
    BY <1>4, <1>7
  <2>6. pc'[p] \in {"pick", "script", "ledger"}
    BY <1>4
  <2> QED BY <1>1, <1>3, <1>6, <2>1, <2>2, <2>3, <2>4, <2>5, <2>6 DEF Effects, Busy
<1>9. Recorded(p)'
  <2>1. CASE dir[p] = "up"
    <3>1. records = Standing(p)
      BY <1>1, <2>1 DEF Walking, Recorded
    <3>2. c = 1 => records = {}
      BY <1>2, <2>1 DEF LedgerEmpty
    <3>3. records' = records
      BY <1>1, <3>2 DEF Commit
    <3> QED BY <1>1, <1>3, <2>1, <3>1, <3>3 DEF Recorded
  <2>2. CASE dir[p] = "down" /\ c # 1
    <3>1. records = Standing(p) \cup {c} /\ records' = records
      BY <1>1, <2>2 DEF Walking, Recorded, Commit
    <3>2. pc'[p] # "pick"
      BY <1>4, <2>2
    <3> QED BY <1>1, <1>3, <1>4, <2>2, <3>1, <3>2 DEF Recorded, Busy
  <2>3. CASE dir[p] = "down" /\ c = 1
    <3>1. Standing(p) = {}
      BY <1>1, <2>3, NothingElseStands
    <3>2. records' = {}
      <4>1. After(p, k) < Size(1)
        BY <1>1, <1>2, <2>3 DEF After
      <4> QED BY <1>1, <2>3, <4>1 DEF Commit
    <3>3. pc'[p] \in {"pick", "script"}
      BY <1>4, <2>3
    <3> QED BY <1>1, <1>3, <2>3, <3>1, <3>2, <3>3 DEF Recorded, Busy
  <2> QED BY <1>1, <2>1, <2>2, <2>3
<1>10. Refusals(p)'
  BY <1>1, <1>4 DEF Walking, Refusals
<1> QED BY <1>5, <1>8, <1>9, <1>10 DEF Walking

(* An empty script. *)
LEMMA SkipProgress ==
  ASSUME TypeOK, FirstListed, NEW p \in Runner, Walking(p), SkipEmpty(p)
  PROVE  Walking(p)'
<1> DEFINE c == cur[p]
<1>1. /\ DomainsOK /\ pc[p] = "script" /\ Busy(p) /\ c \in Migration
      /\ UNCHANGED <<plan, done, records, cmd, target, cur, dir, todo, mine, base,
                     session, step, faults>>
      /\ ScriptLength(p) = 0 /\ Finish(p) /\ step[p] <= ScriptLength(p)
      /\ dir[p] \in {"up", "down"}
  BY DEF TypeOK, DomainsOK, PositionOK, SkipEmpty, Busy, disk, db, input, loop, bounds
<1>2. /\ Size(c) \in Nat /\ plan[c].undo \in {0, Size(c)} /\ step[p] = 0
      /\ 1 \in Migration /\ plan \in Plans
  BY <1>1, PlanFacts DEF DomainsOK
<1>3. Size(c) = 0 \/ (dir[p] = "down" /\ ~Reversible(c) /\ plan[c].undo = 0)
  BY <1>1, <1>2 DEF ScriptLength, Reversible
<1>4. c # 1
  <2>1. Size(1) > 0 /\ plan[1].undo = Size(1)
    BY <1>2, RunnerAssumption DEF Size
  <2>2. Size(1) \in Nat
    BY <1>1, <1>2, PlanFacts
  <2> QED BY <1>3, <2>1, <2>2
<1>5. pc'[p] = "ledger"
  BY <1>1, <1>4, FirstIsOne DEF Finish, Goto, DomainsOK
<1>6. Source(p)' = Source(p) /\ Standing(p)' = Standing(p)
  BY <1>1, SameSets
<1>7. Places(p)'
  BY <1>1, <1>5, <1>6 DEF Walking, Places, Busy
<1>8. Effects(p)'
  <2>1. IF dir[p] = "up" THEN InForce(c) ELSE done[c] = 0 \/ ~Reversible(c)
    <3>1. CASE Size(c) = 0
      <4>1. done[c] = 0
        BY <1>1, <3>1 DEF TypeOK, DomainsOK
      <4> QED BY <3>1, <4>1 DEF InForce
    <3>2. CASE dir[p] = "down" /\ ~Reversible(c)
      BY <3>2
    <3> QED BY <1>3, <3>1, <3>2
  <2> QED BY <1>1, <1>5, <1>6, <2>1
          DEF Walking, Effects, Busy, InForce, Reversible, Size
<1>9. Recorded(p)' /\ Refusals(p)'
  BY <1>1, <1>4, <1>5, <1>6 DEF Walking, Recorded, Refusals, Busy
<1> QED BY <1>7, <1>8, <1>9 DEF Walking

(* A failure that can be survived is one of an up script that has left no   *)
(* trace: the applied migrations are now to be reverted.                    *)
LEMMA CatchProgress ==
  ASSUME DomainsOK, NEW p \in Runner, Walking(p), Busy(p), dir[p] = "up",
         done[cur[p]] = 0, Catch(p), session'[p] # "aborted",
         faults' \in Nat, faults' > base[p].faults,
         UNCHANGED <<plan, done, records, cmd, target, cur, base>>
  PROVE  Walking(p)'
<1>1. /\ pc'[p] = "pick" /\ dir'[p] = "down" /\ todo'[p] = mine[p] /\ mine' = mine
      /\ cmd[p] = "migrate" /\ ~Busy(p)'
  BY DEF Catch, Goto, DomainsOK, Walking, Places, Command, Busy
<1>2. /\ Standing(p)' = Standing(p)
      /\ Source(p)' = mine[p]
      /\ records = Standing(p)
  BY <1>1 DEF Standing, Source, Walking, Recorded
<1>3. Places(p)'
  BY <1>1, <1>2 DEF Walking, Places
<1>4. Effects(p)'
  BY <1>1, <1>2 DEF Walking, Effects, InForce, Reversible, Size
<1>5. Recorded(p)' /\ Refusals(p)'
  BY <1>1, <1>2 DEF Recorded, Refusals
<1> QED BY <1>3, <1>4, <1>5 DEF Walking

LEMMA ThrowProgress ==
  ASSUME DomainsOK, NEW p \in Runner, Walking(p), Busy(p), dir[p] = "up",
         done[cur[p]] = 0, Throw(p),
         session'[p] = "aborted" => ScriptMode(p) = "seqTx",
         faults' \in Nat, faults' > base[p].faults,
         UNCHANGED <<plan, done, records, cmd, target, cur, base>>
  PROVE  Walking(p)'
<1>1. CASE ScriptMode(p) # "seqTx"
  BY <1>1, CatchProgress DEF Throw
<1>2. CASE ScriptMode(p) = "seqTx"
  <2>1. pc'[p] = "rollback" /\ UNCHANGED <<dir, todo, mine>>
    BY <1>2 DEF Throw, Goto, DomainsOK, loop
  <2>2. Source(p)' = Source(p) /\ Standing(p)' = Standing(p) /\ Busy(p)'
    BY <2>1, SameSets DEF Busy
  <2>3. Places(p)'
    BY <2>1, <2>2 DEF Walking, Places
  <2>4. Effects(p)'
    BY <2>1, <2>2 DEF Walking, Effects, InForce, Reversible, Size
  <2>5. Recorded(p)' /\ Refusals(p)'
    BY <2>1, <2>2 DEF Walking, Recorded, Refusals
  <2> QED BY <2>3, <2>4, <2>5 DEF Walking
<1> QED BY <1>1, <1>2

(* A refusal by the server while the run can still be undisturbed is the    *)
(* first of a migrate, on its way up.                                       *)
LEMMA FirstRefusal ==
  ASSUME DomainsOK, Counted, NEW p \in Runner, Walking(p), pc[p] # "rollback",
         Undisturbed(p)', UNCHANGED <<cmd, base>>, faults' = faults + 1
  PROVE  /\ cmd[p] = "migrate" /\ dir[p] = "up"
         /\ faults' \in Nat /\ faults' > base[p].faults
<1>1. /\ faults \in Nat /\ base[p].faults \in Nat /\ base[p].faults <= faults
      /\ cmd[p] \in {"migrate", "down"} /\ dir[p] \in {"up", "down"}
  BY DEF DomainsOK, Command, Counted
<1>2. cmd[p] # "down"
  BY <1>1 DEF Undisturbed
<1>3. dir[p] # "down"
  BY <1>1, <1>2 DEF Undisturbed, Walking, Refusals
<1> QED BY <1>1, <1>2, <1>3

(* A script that is refused before it has left anything in force. *)
LEMMA RefusedProgress ==
  ASSUME TypeOK, Counted, NEW p \in Runner, Walking(p), pc[p] = "script",
         Undisturbed(p)', Throw(p) \/ Catch(p), faults' = faults + 1,
         session'[p] = "aborted" => ScriptMode(p) = "seqTx" /\ Throw(p),
         ScriptMode(p) = "seq" => step[p] = 0,
         UNCHANGED <<plan, done, records, cmd, target, cur, base>>
  PROVE  Walking(p)'
<1>1. DomainsOK /\ Busy(p)
  BY DEF TypeOK, Busy
<1>2. /\ dir[p] = "up" /\ faults' \in Nat /\ faults' > base[p].faults
  BY <1>1, FirstRefusal
<1>3. done[cur[p]] = 0
  BY <1>2 DEF Walking, Effects, Runnable, Expected, After
<1>4. CASE Throw(p)
  BY <1>1, <1>2, <1>3, <1>4, ThrowProgress
<1>5. CASE Catch(p) /\ ~Throw(p)
  BY <1>1, <1>2, <1>3, <1>5, CatchProgress
<1> QED BY <1>4, <1>5

LEMMA FailureProgress ==
  ASSUME TypeOK, Counted, NEW p \in Runner, Walking(p), Undisturbed(p)',
         \/ ImportFails(p) \/ JoinedFails(p) \/ StatementFails(p)
         \/ CommitScript(p) /\ Throw(p) /\ faults' # faults
  PROVE  Walking(p)'
<1>1. /\ UNCHANGED <<plan, done, records, cmd, target, cur, base>>
      /\ pc[p] = "script" /\ session[p] # "aborted" /\ Runnable(p)
      /\ DomainsOK /\ PositionOK(p)
  <2>1. UNCHANGED <<plan, cmd, target, cur, base>> /\ pc[p] = "script"
    BY DEF ImportFails, JoinedFails, StatementFails, CommitScript, InScript,
       disk, input
  <2>2. DomainsOK /\ PositionOK(p)
    BY DEF TypeOK
  <2>3. session[p] # "aborted" /\ Runnable(p)
    BY <2>1 DEF Walking, Effects, Refusals
  <2>4. UNCHANGED <<done, records>>
    BY DEF ImportFails, JoinedFails, StatementFails, CommitScript, Rejects, db
  <2> QED BY <2>1, <2>2, <2>3, <2>4
<1>2. faults' = faults + 1
  BY <1>1 DEF ImportFails, JoinedFails, StatementFails, CommitScript, Rejects
<1>3. cmd[p] = "migrate" /\ dir[p] = "up"
  BY <1>1, <1>2, FirstRefusal
<1>4. /\ torn' = {} /\ plan[cur[p]].up # "joinedTx"
  BY <1>1, <1>3 DEF Undisturbed, PositionOK
<1>5. ScriptMode(p) # "joinedTx"
  BY <1>3, <1>4 DEF ScriptMode
<1>6. CASE ImportFails(p)
  <2>1. /\ Catch(p) /\ step[p] = 0 /\ session'[p] # "aborted"
    BY <1>1, <1>6 DEF ImportFails
  <2> QED BY <1>1, <1>2, <2>1, RefusedProgress
<1>7. CASE JoinedFails(p)
  <2>1. /\ Throw(p) /\ ScriptMode(p) # "seq" /\ ScriptMode(p) # "seqTx"
        /\ session'[p] = session[p]
    BY <1>1, <1>5, <1>7 DEF JoinedFails, IsSequential, UsesTransaction, DomainsOK
  <2> QED BY <1>1, <1>2, <2>1, RefusedProgress
<1>8. CASE StatementFails(p)
  <2>1. Throw(p) /\ Tear(p)
    BY <1>8 DEF StatementFails
  <2>2. session'[p] = "aborted" => ScriptMode(p) = "seqTx"
    BY <1>1, <1>8 DEF StatementFails, DomainsOK, PositionOK
  <2>3. ScriptMode(p) = "seq" => step[p] = 0
    <3>1. ~Tears(p)
      BY <1>4, <2>1 DEF Tear
    <3>2. step[p] \in Nat
      BY <1>1 DEF DomainsOK
    <3> QED BY <1>1, <3>1, <3>2 DEF Tears
  <2> QED BY <1>1, <1>2, <2>1, <2>2, <2>3, RefusedProgress
<1>9. CASE CommitScript(p) /\ Throw(p)
  <2>1. ScriptMode(p) = "seqTx" /\ session'[p] # "aborted"
    BY <1>1, <1>9 DEF CommitScript, DomainsOK
  <2> QED BY <1>1, <1>2, <1>9, <2>1, RefusedProgress
<1> QED BY <1>6, <1>7, <1>8, <1>9

LEMMA RollbackProgress ==
  ASSUME TypeOK, NEW p \in Runner, Walking(p), Undisturbed(p)', Rollback(p)
  PROVE  Walking(p)'
<1>1. /\ UNCHANGED <<plan, done, records, cmd, target, cur, base, faults>>
      /\ pc[p] = "rollback" /\ session'[p] = "idle" /\ Catch(p) /\ DomainsOK
      /\ Busy(p)
  BY DEF TypeOK, DomainsOK, Rollback, disk, db, input, bounds, Busy
<1>2. dir[p] = "up" /\ done[cur[p]] = 0 /\ cmd[p] = "migrate"
  BY <1>1 DEF Walking, Effects, Places, DomainsOK, Command
<1>3. faults' \in Nat /\ faults' > base[p].faults
  BY <1>1, <1>2 DEF Walking, Refusals, DomainsOK
<1> QED BY <1>1, <1>2, <1>3, CatchProgress

(* Statements of a script. *)
LEMMA StatementsProgress ==
  ASSUME TypeOK, TxWork, LedgerEmpty, LedgerFound, FirstListed, NEW p \in Runner,
         Undisturbed(p), Walking(p),
         \/ RunJoined(p) \/ Statement(p)
         \/ CommitScript(p) /\ ~Throw(p)
         \/ Begin(p)
  PROVE  Walking(p)'
<1>1. /\ UNCHANGED <<cmd, target, base, plan, dir, todo, mine, cur>>
      /\ pc[p] = "script" /\ session[p] # "aborted" /\ faults' = faults
      /\ DomainsOK
  <2>1. UNCHANGED <<cmd, target, base, plan, cur>> /\ pc[p] = "script"
    BY DEF RunJoined, Statement, CommitScript, Begin, InScript, disk, input
  <2>2. session[p] # "aborted"
    BY <2>1 DEF Walking, Refusals
  <2>3. UNCHANGED <<dir, todo, mine>> /\ faults' = faults
    BY <2>2 DEF RunJoined, Statement, CommitScript, Begin, loop, bounds
  <2> QED BY <2>1, <2>2, <2>3 DEF TypeOK
<1>2. session'[p] # "aborted"
  BY <1>1 DEF RunJoined, Statement, CommitScript, Begin, DomainsOK
<1>3. CASE \E k \in Nat : Executes(p, k)
  BY <1>1, <1>2, <1>3, ExecutesProgress
<1>4. CASE Begin(p) \/ (Statement(p) /\ ScriptMode(p) = "seqTx")
  <2>1. ScriptMode(p) = "seqTx" /\ UNCHANGED <<done, records, pc>>
    BY <1>1, <1>4 DEF Begin, Statement, db
  <2> QED BY <1>1, <1>2, <2>1, WithinTransaction
<1> QED
  BY <1>3, <1>4, WorkEffect DEF Work

-----------------------------------------------------------------------------
(* The ledger. *)

LEMMA InsertProgress ==
  ASSUME DomainsOK, NEW p \in Runner, Walking(p), Insert(p)
  PROVE  Walking(p)'
<1> DEFINE c == cur[p]
<1>1. /\ UNCHANGED <<plan, done, session, cmd, target, dir, todo, cur, base, faults>>
      /\ pc[p] = "ledger" /\ dir[p] = "up" /\ records' = records \cup {c}
      /\ mine'[p] = mine[p] \cup {c} /\ pc'[p] = "pick"
  BY DEF Insert, disk, input, bounds, Goto, DomainsOK
<1>2. cmd[p] = "migrate" /\ Busy(p) /\ ~Busy(p)' /\ c \in Source(p) \ todo[p]
  BY <1>1 DEF Walking, Places, DomainsOK, Command, Busy
<1>3. /\ Source(p) = Migration \ (base[p].records \cup mine[p])
      /\ Source(p)' = Source(p) \ {c}
      /\ Standing(p)' = Standing(p) \cup {c}
  BY <1>1, <1>2 DEF Source, Standing
<1>4. Places(p)'
  BY <1>1, <1>2, <1>3 DEF Walking, Places
<1>5. Effects(p)'
  <2>1. InForce(c)
    BY <1>1 DEF Walking, Effects
  <2>2. \A m \in Standing(p) : InForce(m)
    BY DEF Walking, Effects
  <2>3. \A m \in Migration \ (Standing(p) \cup {c}) : done[m] = 0
    BY <1>1 DEF Walking, Effects
  <2> QED BY <1>1, <1>3, <2>1, <2>2, <2>3 DEF Effects, InForce, Size
<1>6. Recorded(p)' /\ Refusals(p)'
  BY <1>1, <1>2, <1>3 DEF Walking, Recorded, Refusals
<1> QED BY <1>4, <1>5, <1>6 DEF Walking

LEMMA EraseProgress ==
  ASSUME DomainsOK, NEW p \in Runner, Walking(p), Erase(p)
  PROVE  Walking(p)'
<1> DEFINE c == cur[p]
<1>1. /\ UNCHANGED <<plan, done, session, cmd, target, dir, todo, mine, cur, base,
                     faults>>
      /\ pc[p] = "ledger" /\ dir[p] = "down" /\ records' = records \ {c}
      /\ pc'[p] = "pick" /\ Busy(p)
  BY DEF Erase, disk, input, loop, bounds, Goto, DomainsOK, Busy
<1>2. ~Busy(p)' /\ c \in Source(p) \ todo[p] /\ c \notin Standing(p)
  BY <1>1, Aside DEF Walking, Places, Busy
<1>3. Source(p)' = Source(p) /\ Standing(p)' = Standing(p)
  BY <1>1, SameSets
<1>4. Places(p)'
  BY <1>1, <1>2, <1>3 DEF Walking, Places
<1>5. Effects(p)'
  <2>1. c \in base[p].records \cup mine[p]
    BY <1>1, <1>2 DEF Source
  <2>2. done[c] = 0 \/ ~Reversible(c)
    BY <1>1 DEF Walking, Effects
  <2> QED BY <1>1, <1>2, <1>3, <2>1, <2>2
          DEF Walking, Effects, InForce, Reversible, Size
<1>6. records = Standing(p) \cup {c}
  BY <1>1 DEF Walking, Recorded
<1>7. Recorded(p)' /\ Refusals(p)'
  BY <1>1, <1>2, <1>3, <1>6 DEF Walking, Recorded, Refusals
<1> QED BY <1>4, <1>5, <1>7 DEF Walking

(* The ledger does not refuse a run that is still undisturbed. *)
LEMMA LedgerRefusal ==
  ASSUME TypeOK, Counted, LedgerEmpty, NEW p \in Runner, Walking(p),
         InsertFails(p) \/ EraseFails(p)
  PROVE  ~Undisturbed(p)'
<1>1. /\ UNCHANGED <<plan, cmd, base>> /\ pc[p] = "ledger" /\ Tear(p)
      /\ cmd[p] \in {"migrate", "down"} /\ DomainsOK
      /\ InsertFails(p) => dir[p] = "up"
      /\ EraseFails(p) => dir[p] = "down" /\ Rejects(~LedgerExists)
  BY DEF InsertFails, EraseFails, disk, input, TypeOK, DomainsOK, Command
<1>2. cur[p] \in torn'
  BY <1>1 DEF Tear, Tears
<1>3. CASE cmd[p] = "migrate"
  BY <1>1, <1>2, <1>3 DEF Undisturbed
<1>4. CASE cmd[p] = "down"
  <2>1. EraseFails(p)
    BY <1>1, <1>4 DEF Walking, Places
  <2>2. LedgerExists
    BY <1>1, <2>1 DEF Walking, Recorded, Busy, LedgerEmpty, LedgerExists
  <2>3. faults' = faults + 1
    BY <1>1, <2>1, <2>2 DEF Rejects
  <2>4. ~(faults' <= base[p].faults)
    BY <1>1, <2>3 DEF Counted, DomainsOK
  <2> QED BY <1>1, <1>4, <2>4 DEF Undisturbed
<1> QED BY <1>1, <1>3, <1>4

-----------------------------------------------------------------------------
(* Every step of a command leaves it on its way. *)

LEMMA WorkProgress ==
  ASSUME RInv, OInv, NEW p \in Runner, Work(p) \/ Crash(p), Undisturbed(p)'
  PROVE  Progress(p)'
<1>1. /\ TypeOK /\ DomainsOK /\ TxWork /\ LedgerEmpty /\ FirstListed
      /\ Listed /\ LedgerFound /\ Counted
  BY DEF RInv, IInv, TypeOK, OInv
<1>2. Undisturbed(p) /\ Progress(p)
  BY <1>1, WorkUndisturbed DEF OInv
<1>3. CASE Probe(p)
  BY <1>1, <1>2, <1>3, ProbeProgress
<1>4. CASE ReadRecords(p)
  BY <1>1, <1>2, <1>4, ReadProgress
<1>5. CASE ReadFails(p) \/ Crash(p)
  BY <1>1, <1>2, <1>5, GivesUp
<1>6. CASE Exit(p)
  <2>1. Walking(p) /\ pc'[p] = "off"
    BY <1>1, <1>2, <1>6 DEF Exit, Progress, Goto, DomainsOK
  <2>2. Outcome(p)'
    BY <1>1, <1>2, <1>6, <2>1, ExitProgress
  <2> QED BY <2>1, <2>2 DEF Progress, Busy
<1>7. CASE InsertFails(p) \/ EraseFails(p)
  <2>1. Walking(p)
    BY <1>2, <1>7 DEF InsertFails, EraseFails, Progress, Busy
  <2> QED BY <1>1, <1>7, <2>1, LedgerRefusal
<1> DEFINE Script == \/ ImportFails(p) \/ SkipEmpty(p) \/ RunJoined(p) \/ JoinedFails(p)
                     \/ Begin(p) \/ Statement(p) \/ StatementFails(p) \/ CommitScript(p)
<1>8. CASE PickMigration(p) \/ Script \/ Rollback(p) \/ Insert(p) \/ Erase(p)
  <2>1. pc[p] \in {"script", "pick", "ledger", "rollback"}
    BY <1>8 DEF PickMigration, ImportFails, SkipEmpty, RunJoined, JoinedFails, Begin,
       Statement, StatementFails, CommitScript, InScript, Rollback, Insert, Erase
  <2>2. Walking(p)
    BY <1>2, <2>1 DEF Progress, Busy
  <2>3. pc'[p] \in {"script", "pick", "ledger", "rollback"}
    <3>1. /\ Finish(p) => pc'[p] \in {"pick", "ledger"}
          /\ Catch(p) => pc'[p] = "pick"
          /\ Throw(p) => pc'[p] \in {"pick", "rollback"}
      BY <1>1 DEF Finish, Catch, Throw, Goto, DomainsOK
    <3>2. CASE PickMigration(p) \/ Rollback(p) \/ Insert(p) \/ Erase(p)
      BY <1>1, <3>1, <3>2 DEF PickMigration, Rollback, Insert, Erase, Goto, DomainsOK
    <3>3. CASE Script
      BY <2>1, <3>1, <3>3 DEF ImportFails, SkipEmpty, RunJoined, JoinedFails, Begin,
         Statement, StatementFails, CommitScript
    <3> QED BY <1>8, <3>2, <3>3
  <2>4. Walking(p)'
    <3>1. CASE CommitScript(p) /\ Throw(p)
      <4>1. faults' # faults
        <5>1. ~Finish(p)
          BY <1>1, <3>1 DEF CommitScript, Throw, Finish, Goto, DomainsOK
        <5>2. faults' = faults + 1 /\ faults \in Nat
          BY <1>1, <3>1, <5>1 DEF CommitScript, Rejects, DomainsOK
        <5> QED BY <5>2
      <4> QED BY <1>1, <2>2, <3>1, <4>1, FailureProgress
    <3>2. CASE ImportFails(p) \/ JoinedFails(p) \/ StatementFails(p)
      BY <1>1, <2>2, <3>2, FailureProgress
    <3>3. CASE RunJoined(p) \/ Statement(p) \/ Begin(p) \/ (CommitScript(p) /\ ~Throw(p))
      BY <1>1, <1>2, <2>2, <3>3, StatementsProgress
    <3>4. CASE SkipEmpty(p)
      BY <1>1, <2>2, <3>4, SkipProgress
    <3>5. CASE PickMigration(p)
      BY <1>1, <2>2, <3>5, PickProgress
    <3>6. CASE Rollback(p)
      BY <1>1, <2>2, <3>6, RollbackProgress
    <3>7. CASE Insert(p) \/ Erase(p)
      BY <1>1, <2>2, <3>7, InsertProgress, EraseProgress
    <3> QED BY <1>8, <3>1, <3>2, <3>3, <3>4, <3>5, <3>6, <3>7
  <2> QED BY <2>3, <2>4 DEF Progress
<1> QED BY <1>3, <1>4, <1>5, <1>6, <1>7, <1>8 DEF Work

LEMMA WorkListed ==
  ASSUME RInv, Listed, OneRunner, NEW p \in Runner, Work(p) \/ Crash(p)
  PROVE  Listed'
<1>1. /\ UNCHANGED <<folders, list, base>> /\ DomainsOK
      /\ pc[p] # "off" /\ \A q \in Runner : q = p
      /\ records \subseteq folders /\ base[p].records \subseteq list[p]
      /\ list[p] \subseteq folders /\ todo[p] \subseteq list[p]
      /\ mine[p] \subseteq list[p]
      /\ Busy(p) => cur[p] \in list[p]
  BY WorkInput, WorkMoves DEF RInv, IInv, TypeOK, Listed, OneRunner
<1>2. records' \subseteq folders
  <2>1. ASSUME NEW k \in Nat, Executes(p, k) PROVE records' \subseteq records
    BY <2>1, ExecutesFacts DEF RInv, IInv
  <2>2. CASE Insert(p) \/ Erase(p)
    BY <1>1, <2>2 DEF Insert, Erase, Busy
  <2> QED BY <1>1, <2>1, <2>2, WorkRecordsOnly
<1>3. /\ todo'[p] \subseteq list[p] /\ mine'[p] \subseteq list[p]
      /\ Busy(p)' => cur'[p] \in list[p]
  <2>1. CASE Probe(p) \/ ReadRecords(p) \/ ReadFails(p) \/ Exit(p) \/ Crash(p)
    <3>1. pc'[p] \in {"read", "pick", "off"}
      BY <1>1, <2>1 DEF Probe, ReadRecords, ReadFails, Exit, Crash, Goto, DomainsOK
    <3>2. CASE Probe(p) \/ ReadRecords(p)
      <4>1. mine' = mine /\ todo'[p] \subseteq list[p]
        BY <1>1, <3>2 DEF Probe, ReadRecords, DomainsOK
      <4> QED BY <1>1, <3>1, <4>1 DEF Busy
    <3>3. CASE ReadFails(p) \/ Exit(p) \/ Crash(p)
      <4>1. mine' = mine /\ todo' = todo
        BY <3>3 DEF ReadFails, Exit, Crash, loop
      <4> QED BY <1>1, <3>1, <4>1 DEF Busy
    <3> QED BY <2>1, <3>2, <3>3
  <2>2. CASE PickMigration(p)
    BY <1>1, <2>2 DEF PickMigration, DomainsOK
  <2>3. CASE Insert(p)
    BY <1>1, <2>3 DEF Insert, Busy, Goto, DomainsOK
  <2>4. CASE ~(\/ Probe(p) \/ ReadRecords(p) \/ ReadFails(p) \/ Exit(p) \/ Crash(p)
               \/ PickMigration(p) \/ Insert(p))
    <3>1. Busy(p) /\ cur' = cur
      BY <2>4 DEF Work, ImportFails, SkipEmpty, RunJoined, JoinedFails, Begin,
         Statement, StatementFails, CommitScript, InScript, Rollback, InsertFails,
         Erase, EraseFails, Busy
    <3>2. Catch(p) => todo'[p] \in {todo[p], mine[p]} /\ mine' = mine
      BY <1>1 DEF Catch, DomainsOK
    <3>3. todo'[p] \in {todo[p], mine[p]} /\ mine' = mine
      BY <2>4, <3>2 DEF Work, ImportFails, SkipEmpty, RunJoined, JoinedFails, Begin,
         Statement, StatementFails, CommitScript, Rollback, InsertFails, Erase,
         EraseFails, Throw, loop
    <3> QED BY <1>1, <3>1, <3>3
  <2> QED BY <2>1, <2>2, <2>3, <2>4
<1> QED BY <1>1, <1>2, <1>3 DEF Listed

LEMMA WorkOInv ==
  ASSUME RInv, OInv, OneRunner, NEW p \in Runner, Work(p) \/ Crash(p)
  PROVE  OInv'
<1>1. /\ UNCHANGED <<plan, base>> /\ faults' \in Nat /\ faults <= faults'
      /\ DomainsOK /\ \A q \in Runner : q = p
  BY WorkInput DEF RInv, IInv, TypeOK, OneRunner
<1>2. Listed'
  BY WorkListed DEF OInv
<1>3. LedgerFound'
  BY <1>1 DEF OInv, LedgerFound, Size
<1>4. Counted'
  BY <1>1 DEF OInv, Counted, DomainsOK
<1>5. \A q \in Runner : Undisturbed(q)' => Progress(q)'
  BY <1>1, WorkProgress
<1> QED BY <1>2, <1>3, <1>4, <1>5 DEF OInv

LEMMA StartOInv ==
  ASSUME RInv, OInv, OneRunner, NEW p \in Runner, NEW c \in Command,
         NEW t \in Migration, Start(p, c, t)
  PROVE  OInv'
<1>1. /\ UNCHANGED <<plan, folders, done, records, faults>> /\ DomainsOK
      /\ pc'[p] = "probe" /\ cmd'[p] = c
      /\ base'[p] = [done |-> done, records |-> records, faults |-> faults]
      /\ \A q \in Runner : q = p
  BY DEF Start, disk, db, Goto, RInv, IInv, TypeOK, DomainsOK, OneRunner
<1>2. /\ list'[p] = folders /\ todo'[p] = {} /\ mine'[p] = {} /\ cur'[p] = 0
      /\ session'[p] = "idle"
      /\ dir'[p] = IF c = "migrate" THEN "up" ELSE "down"
  BY <1>1 DEF Start, DomainsOK
<1>3. Listed'
  BY <1>1, <1>2 DEF OInv, Listed, Busy
<1>4. LedgerFound'
  BY <1>1 DEF RInv, LedgerEmpty, InForce, LedgerFound, Size
<1>5. Counted'
  BY <1>1 DEF Counted, DomainsOK
<1>6. Progress(p)'
  BY <1>1, <1>2 DEF Progress, Fresh, Busy
<1> QED BY <1>1, <1>3, <1>4, <1>5, <1>6 DEF OInv

LEMMA FrameOInv ==
  ASSUME OInv, folders \subseteq folders',
         UNCHANGED <<plan, done, records, session, pc, input, loop, cur, step, exit,
                     base, torn, faults>>
  PROVE  OInv'
<1>1. UNCHANGED <<cmd, target, list, dir, todo, mine>>
  BY DEF input, loop
<1>2. Listed' /\ LedgerFound' /\ Counted'
  BY <1>1 DEF OInv, Listed, LedgerFound, Counted, Busy, Size
<1>3. ASSUME NEW p \in Runner, Undisturbed(p)' PROVE Progress(p)'
  <2>1. Undisturbed(p)
    BY <1>1, <1>3 DEF Undisturbed, FoundInStep, Size
  <2>2. Progress(p)
    BY <2>1 DEF OInv
  <2>3. /\ Source(p)' = Source(p) /\ Standing(p)' = Standing(p)
        /\ (Busy(p)' <=> Busy(p))
    BY <1>1, SameSets DEF Busy
  <2>4. Fresh(p) => Fresh(p)'
    BY <1>1 DEF Fresh, InForce, Size
  <2>5. Places(p) => Places(p)'
    BY <1>1, <2>3 DEF Places
  <2>6. Runnable(p) => Runnable(p)'
    BY <1>1 DEF Runnable, Expected, ScriptMode, After, Size
  <2>7. Effects(p) => Effects(p)'
    BY <1>1, <2>3, <2>6 DEF Effects, InForce, Reversible, Size
  <2>8. Recorded(p) /\ Refusals(p) => Recorded(p)' /\ Refusals(p)'
    BY <1>1, <2>3 DEF Recorded, Refusals
  <2>9. Outcome(p) => Outcome(p)'
    BY <1>1 DEF Outcome, Reversible, Size
  <2> QED BY <2>2, <2>3, <2>4, <2>5, <2>7, <2>8, <2>9 DEF Progress, Walking
<1> QED BY <1>2, <1>3 DEF OInv

LEMMA OInvStep ==
  ASSUME RInv, OInv, OneRunner, [Next]_vars PROVE OInv'
<1>1. ASSUME NEW m \in Migration, AddFolder(m) PROVE OInv'
  BY <1>1, FrameOInv DEF AddFolder, db, bounds
<1>2. CASE UNCHANGED vars
  BY <1>2, FrameOInv DEF vars, disk, db, bounds
<1> QED BY <1>1, <1>2, WorkOInv, StartOInv DEF Next

LEMMA InitOInv == Init => OInv
<1> SUFFICES ASSUME Init PROVE OInv
  OBVIOUS
<1>1. Listed /\ LedgerFound /\ Counted
  BY DEF Init, Listed, LedgerFound, Counted
<1>2. \A p \in Runner : Progress(p)
  BY DEF Init, Progress, Outcome, Busy
<1> QED BY <1>1, <1>2 DEF OInv

LEMMA OutcomeInv ==
  ASSUME Overlapping = {}, OneRunner PROVE Spec => [](RInv /\ OInv)
<1>1. Init => RInv /\ OInv
  BY InitRefines, InitOInv
<1>2. RInv /\ OInv /\ [Next]_vars => (RInv /\ OInv)'
  BY RInvStep, OInvStep
<1> QED BY <1>1, <1>2, PTL DEF Spec

(* The rollback of a failed migrate (migrate.ts, "Reverting applied         *)
(* migrations..."), commands running one after the other: whatever the      *)
(* migrations say, and wherever the one failure strikes, records and        *)
(* statements are again what the command found, but for a migration cut     *)
(* apart from its record and for an up script in one joined transaction.    *)
THEOREM FailedMigrateIsRolledBack ==
  ASSUME Overlapping = {}, OneRunner PROVE Spec => []FailedMigrateLeavesNoTrace
<1>1. RInv /\ OInv => FailedMigrateLeavesNoTrace
  <2>1. ASSUME RInv, OInv, NEW p \in Runner, Ended(p, "migrate", "fail", 1),
               FoundInStep(p), torn = {},
               \A m \in Migration : plan[m].up # "joinedTx"
        PROVE  Outcome(p)
    BY <2>1 DEF Ended, Undisturbed, OInv, Progress
  <2> QED BY <2>1 DEF FailedMigrateLeavesNoTrace, Outcome, Ended
<1> QED BY <1>1, OutcomeInv, PTL

(* A down to which nothing happens undoes its target and everything newer,  *)
(* script and record, and nothing older (down.ts).                          *)
THEOREM DownIsExact ==
  ASSUME Overlapping = {}, OneRunner PROVE Spec => []DownUndoesExactlyFromTarget
<1>1. RInv /\ OInv => DownUndoesExactlyFromTarget
  <2>1. ASSUME RInv, OInv, NEW p \in Runner, Ended(p, "down", "ok", 0),
               FoundInStep(p), target[p] \in base[p].records
        PROVE  Outcome(p)
    <3>1. base[p].faults \in Nat
      BY <2>1 DEF RInv, IInv, TypeOK, DomainsOK
    <3> QED BY <2>1, <3>1 DEF Ended, Undisturbed, OInv, Progress
  <2> QED BY <2>1 DEF DownUndoesExactlyFromTarget, Outcome, Ended
<1> QED BY <1>1, OutcomeInv, PTL
=============================================================================
