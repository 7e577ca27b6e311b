---------------------------- MODULE SquashProofs ----------------------------
(***************************************************************************)
(* Proofs about Squash for any number of migrations, whatever they say and  *)
(* wherever a run stops: migrations outside of the range are left alone, a  *)
(* record is given up only once its replacement is written, a squash that   *)
(* refuses changes nothing, and one that succeeds keeps the schema, the     *)
(* ledger and what can be deployed.                                         *)
(*                                                                          *)
(* SquashInv says how far the folders and the ledger have come in each      *)
(* phase of the command; `migrate' may add records at any time.  CourseInv  *)
(* adds what the phases have found out: the one script that stands for the  *)
(* range, and what the database held when the command looked.  What a       *)
(* replay of the folders makes of the database before, across and after the *)
(* range then follows by induction on the number of the migration, for      *)
(* which there is no induction theorem to cite: `Upwards' takes the least   *)
(* counterexample instead.                                                  *)
(***************************************************************************)
EXTENDS Squash, WellFoundedInduction, NaturalsInduction, TLAPS

Intact == stage = base.stage /\ up = base.up /\ base.records \subseteq records

(* The folders and the records that are not to be touched. *)
Elsewhere == {m \in Name : m < job.start \/ m > job.end}

OutsideKept ==
  \A n \in Elsewhere :
    /\ stage[n] = base.stage[n] /\ up[n] = base.up[n]
    /\ n \in base.records => n \in records

Gone == \A n \in Range \ {job.start} : stage[n] = "absent"

(* What each phase has done so far. *)
Phases ==
  /\ pc # "idle" => job.start < job.end /\ exit = "none"
  /\ pc \in {"check", "scan", "build"} => Intact
  /\ pc = "idle" /\ exit \in {"none", "refused", "nothing", "broken"} => Intact
  /\ pc \in {"delete", "up", "down"} => base.records \subseteq records
  /\ pc = "delete" =>
       /\ todo \subseteq Range
       /\ \A n \in Range \ todo : stage[n] = "absent"
  /\ pc \in {"up", "down", "ledger"} => Gone
  /\ pc = "down" => up[job.start] = squashed
  /\ pc = "ledger" =>
       /\ todo \subseteq Range
       /\ stage[job.start] = "whole" /\ up[job.start] = squashed

(* The types the argument needs: what a migration says is left open, as it  *)
(* comes out of a replay.                                                   *)
Shape ==
  /\ stage \in [Name -> Stage]
  /\ up = [n \in Name |-> up[n]]
  /\ job \in Job
  /\ base = [stage |-> base.stage, up |-> base.up, records |-> base.records,
             objects |-> base.objects]
  /\ todo \in SUBSET Name
  /\ pc \in {"idle", "check", "scan", "build", "delete", "up", "down", "ledger"}

SquashInv == Shape /\ OutsideKept /\ FoldersFirst /\ Phases

(* The folders outside of the range are as they were, and the range is one  *)
(* of at least two folders.                                                 *)
Bounded ==
  /\ job.names = Folders(base.stage)
  /\ {job.start, job.end} \subseteq job.names /\ job.start < job.end
  /\ \A n \in Name \ Range : stage[n] = base.stage[n] /\ up[n] = base.up[n]

Scanned == ~job.force => \A n \in Range : ~IsCustom(base.up[n])

Built ==
  /\ Before \cup Range \subseteq Readable(base.stage)
  /\ squashed = Diff(Snapshot(base.up, Before), Snapshot(base.up, Before \cup Range))

Written == stage[job.start] = "whole" /\ up[job.start] = squashed

(* What is known of the folders in each phase, and once it is all done. *)
Course ==
  /\ pc # "idle" \/ exit = "squashed" => Bounded
  /\ pc \in {"build", "delete", "up", "down", "ledger"} \/ Succeeded => Scanned
  /\ pc \in {"delete", "up", "down", "ledger"} \/ Succeeded => Built
  /\ Succeeded => Written /\ Gone

Looked == pc \in {"scan", "build", "delete", "up", "down", "ledger"} \/ Succeeded

(* What is known of the ledger, and of the database as long as nobody else  *)
(* has changed it since the command looked.                                 *)
Answer ==
  /\ Looked => IF rangeAllApplied THEN ~job.skipDb /\ Range \subseteq base.records
               ELSE job.skipDb \/ Range \cap base.records = {}
  /\ pc = "check" => ~rangeAllApplied
  /\ pc = "ledger" => rangeAllApplied

Undisturbed ==
  /\ Looked => objects = base.objects
  /\ pc \in {"scan", "build", "delete", "up", "down"} => records = base.records
  /\ pc = "check" /\ job.skipDb => objects = base.objects /\ records = base.records
  /\ pc = "ledger" => records = base.records \ (Range \ todo)
  /\ Succeeded => records = IF rangeAllApplied
                            THEN (base.records \ Range) \cup {job.start}
                            ELSE base.records

CourseInv == Course /\ Answer /\ (disturbed \/ Undisturbed)

-----------------------------------------------------------------------------
(* Numbers: the smallest of a set, and going up one at a time.              *)

LEMMA Smallest ==
  ASSUME NEW S, S \subseteq Nat, S # {}
  PROVE  \E x \in S : \A y \in S : x <= y
<1> DEFINE R == {p \in Nat \X Nat : p[1] < p[2]}
<1>1. IsWellFoundedOn(R, Nat)
  BY NatLessThanWellFounded DEF OpToRel
<1>2. PICK x \in S : \A y \in S : ~(<<y, x>> \in R)
  BY <1>1, WFMin
<1>3. ASSUME NEW y \in S
      PROVE  x <= y
  <2>1. x \in Nat /\ y \in Nat
    OBVIOUS
  <2>2. ~(y < x)
    BY <1>2, <2>1
  <2> QED BY <2>1, <2>2
<1> QED BY <1>3

LEMMA Upwards ==
  ASSUME NEW a \in Nat, NEW b \in Nat, NEW T, a \in T,
         \A i \in a..b : i \in T /\ i < b => i + 1 \in T
  PROVE  \A i \in a..b : i \in T
<1> DEFINE F == {i \in a..b : i \notin T}
<1> SUFFICES ASSUME F # {}
             PROVE  FALSE
  OBVIOUS
<1>1. F \subseteq Nat
  OBVIOUS
<1>2. PICK x \in F : \A y \in F : x <= y
  BY <1>1, Smallest
<1>3. x \in a..b /\ x \notin T /\ x # a
  BY <1>2
<1>4. x - 1 \in a..b /\ x - 1 < b /\ (x - 1) + 1 = x
  BY <1>3
<1>5. x - 1 \notin F
  BY <1>2, <1>3, <1>4
<1> QED BY <1>3, <1>4, <1>5

-----------------------------------------------------------------------------
(* The oldest folder of a set. *)
LEMMA LeastIsMember ==
  ASSUME NEW S, S \subseteq Nat, S # {}
  PROVE  Least(S) \in S
BY Smallest DEF Least

LEMMA TodoIsNatural ==
  ASSUME Shape, todo # {}
  PROVE  Least(todo) \in todo /\ Least(todo) \in Name
<1>1. todo \subseteq Name /\ Name \subseteq Nat
  BY SquashAssumption DEF Shape, Name
<1> QED BY <1>1, LeastIsMember

LEMMA SquashInit == Init => SquashInv
BY SquashAssumption
   DEF Init, SquashInv, Shape, Stage, Job, Name, Script, OutsideKept, Elsewhere,
       FoldersFirst, Phases, Intact

-----------------------------------------------------------------------------
(* The phases that touch neither the folders nor the ledger.                *)

LEMMA StartStep ==
  ASSUME SquashInv, NEW start \in Name, NEW end \in Name,
         NEW force \in BOOLEAN, NEW skipDb \in BOOLEAN,
         Start(start, end, force, skipDb)
  PROVE  SquashInv'
<1>1. /\ UNCHANGED <<stage, up, records>>
      /\ job' = [start |-> start, end |-> end, force |-> force,
                 skipDb |-> skipDb, names |-> Folders(stage)]
      /\ base' = [stage |-> stage, up |-> up, records |-> records, objects |-> objects]
      /\ todo' = {}
  BY DEF Start, disk, db
<1>2. \/ pc' = "idle" /\ exit' \in {"refused", "nothing"}
      \/ pc' = "check" /\ exit' = "none" /\ start <= end /\ start # end
  BY DEF Start, Goto, End
<1>3. Shape'
  BY <1>1, <1>2 DEF SquashInv, Shape, Job, Folders
<1>4. Phases'
  <2>1. start \in Nat /\ end \in Nat
    BY SquashAssumption DEF Name
  <2> QED BY <1>1, <1>2, <2>1 DEF Phases, Intact
<1>5. OutsideKept' /\ FoldersFirst'
  BY <1>1 DEF OutsideKept, FoldersFirst
<1> QED BY <1>3, <1>4, <1>5 DEF SquashInv

LEMMA ReadStep ==
  ASSUME SquashInv, CheckDatabase \/ Scan \/ Build
  PROVE  SquashInv'
<1>1. /\ UNCHANGED <<stage, up, records, job>>
      /\ base'.stage = base.stage /\ base'.up = base.up
      /\ base'.records \in {base.records, records}
      /\ pc \in {"check", "scan", "build"}
  BY DEF CheckDatabase, Scan, Build, disk, db, local, Goto, End, SquashInv, Shape
<1>2. \/ pc' = "idle" /\ exit' \in {"refused", "nothing", "broken"} /\ todo' = todo
      \/ pc' \in {"scan", "build"} /\ exit' = exit /\ todo' = todo
      \/ pc' = "delete" /\ exit' = exit /\ todo' = Range
  <2>1. CASE CheckDatabase
    BY <2>1 DEF CheckDatabase, Goto, End
  <2>2. CASE Scan
    BY <2>2 DEF Scan, Goto, End, local
  <2>3. CASE Build
    BY <2>3 DEF Build, Goto, End
  <2> QED BY <2>1, <2>2, <2>3
<1>3. Range \subseteq Name /\ Range' = Range
  BY <1>1 DEF SquashInv, Shape, Job, Range
<1>4. Shape'
  <2>1. base' = [stage |-> base'.stage, up |-> base'.up, records |-> base'.records,
                 objects |-> base'.objects]
    BY DEF CheckDatabase, Scan, Build, local, SquashInv, Shape
  <2> QED BY <1>1, <1>2, <1>3, <2>1 DEF SquashInv, Shape
<1>5. Phases'
  BY <1>1, <1>2, <1>3 DEF SquashInv, Phases, Intact
<1>6. OutsideKept' /\ FoldersFirst'
  BY <1>1 DEF SquashInv, OutsideKept, Elsewhere, FoldersFirst, Phases, Intact
<1> QED BY <1>4, <1>5, <1>6 DEF SquashInv

LEMMA StopStep ==
  ASSUME SquashInv, Stop
  PROVE  SquashInv'
<1>1. /\ UNCHANGED <<stage, up, records, base, job, todo, squashed>>
      /\ pc' = "idle" /\ exit' = "stopped"
  BY DEF Stop, disk, db, local, End, Goto
<1>2. Range' = Range /\ Elsewhere' = Elsewhere
  BY <1>1 DEF Range, Elsewhere
<1> QED BY <1>1, <1>2
        DEF SquashInv, Shape, OutsideKept, FoldersFirst, Phases, Intact

LEMMA MigrateStep ==
  ASSUME SquashInv, Migrate
  PROVE  SquashInv'
<1>1. /\ UNCHANGED <<stage, up, pc, job, todo, squashed, exit, base>>
      /\ records \subseteq records'
  BY DEF Migrate, disk, local
<1>2. Range' = Range /\ Elsewhere' = Elsewhere
  BY <1>1 DEF Range, Elsewhere
<1> QED BY <1>1, <1>2
        DEF SquashInv, Shape, OutsideKept, FoldersFirst, Phases, Intact, Gone

-----------------------------------------------------------------------------
(* The phases that rewrite the folders.                                     *)

LEMMA RangeFacts ==
  ASSUME SquashInv, pc # "idle"
  PROVE  /\ job.start \in Name /\ job.start \notin Elsewhere
         /\ Range \subseteq Name /\ Range \cap Elsewhere = {}
<1>1. job.start \in Nat /\ job.end \in Nat /\ job.start \in Name
  BY SquashAssumption DEF SquashInv, Shape, Job, Name
<1>2. job.start < job.end
  BY DEF SquashInv, Phases
<1>3. Name \subseteq Nat /\ job.names \subseteq Name
  BY SquashAssumption DEF SquashInv, Shape, Job, Name
<1>4. \A n \in Range : n \in Name /\ ~(n < job.start) /\ ~(n > job.end)
  <2>1. \A n \in Range : n \in job.names /\ job.start <= n /\ n <= job.end
    BY DEF Range
  <2>2. \A n \in job.names : n \in Name /\ n \in Nat
    BY <1>3
  <2> QED BY <1>1, <2>1, <2>2
<1>5. Range \subseteq Name
  BY <1>4
<1>6. Range \cap Elsewhere = {}
  BY <1>4 DEF Elsewhere
<1>7. job.start \notin Elsewhere
  BY <1>1, <1>2 DEF Elsewhere
<1> QED BY <1>1, <1>5, <1>6, <1>7

LEMMA DeleteStep ==
  ASSUME SquashInv, DeleteFolder
  PROVE  SquashInv'
<1> DEFINE d == Least(todo)
<1>1. /\ UNCHANGED <<up, records, pc, job, squashed, exit, base>>
      /\ pc = "delete" /\ todo # {}
      /\ stage' = [stage EXCEPT ![d] = "absent"]
      /\ todo' = todo \ {d}
  BY DEF DeleteFolder, db
<1>2. d \in todo /\ d \in Name /\ d \in Range /\ todo \subseteq Range
  BY <1>1, TodoIsNatural DEF SquashInv, Phases
<1> HIDE DEF d
<1>3. Range' = Range /\ Elsewhere' = Elsewhere
  BY <1>1 DEF Range, Elsewhere
<1>4. stage'[d] = "absent" /\ \A n \in Name \ {d} : stage'[n] = stage[n]
  BY <1>1, <1>2 DEF SquashInv, Shape
<1>5. Shape'
  BY <1>1, <1>2 DEF SquashInv, Shape, Stage
<1>6. Phases'
  <2>1. \A n \in Range \ todo' : stage'[n] = "absent"
    BY <1>1, <1>2, <1>4, RangeFacts DEF SquashInv, Phases
  <2> QED BY <1>1, <1>2, <1>3, <2>1 DEF SquashInv, Phases
<1>7. OutsideKept'
  <2>1. d \notin Elsewhere /\ Elsewhere \subseteq Name
    BY <1>1, <1>2, RangeFacts DEF Elsewhere
  <2> QED BY <1>1, <1>3, <1>4, <2>1 DEF SquashInv, OutsideKept
<1>8. FoldersFirst'
  BY <1>1 DEF SquashInv, FoldersFirst, Phases
<1> QED BY <1>5, <1>6, <1>7, <1>8 DEF SquashInv

(* mkdir and the two files: only the folder of the first migration changes. *)
LEMMA WriteStep ==
  ASSUME SquashInv, MakeFolder \/ WriteUp \/ WriteDown
  PROVE  SquashInv'
<1> DEFINE d == job.start
<1>1. /\ UNCHANGED <<records, job, squashed, base>>
      /\ pc \in {"delete", "up", "down"}
      /\ base.records \subseteq records
  BY DEF MakeFolder, WriteUp, WriteDown, db, local, Goto, End, SquashInv, Phases
<1>2. /\ d \in Name /\ d \notin Elsewhere /\ Elsewhere \subseteq Name
      /\ Range \subseteq Name
  BY <1>1, RangeFacts DEF Elsewhere
<1>3. Range' = Range /\ Elsewhere' = Elsewhere /\ d' = d
  BY <1>1 DEF Range, Elsewhere
<1>4. \A n \in Name \ {d} : stage'[n] = stage[n] /\ up'[n] = up[n]
  BY <1>2 DEF MakeFolder, WriteUp, WriteDown, db, local, SquashInv, Shape
<1>5. Shape'
  <2>1. stage' \in [Name -> Stage]
    BY <1>2 DEF MakeFolder, WriteUp, WriteDown, SquashInv, Shape, Stage
  <2>2. up' = [n \in Name |-> up'[n]]
    BY <1>2 DEF MakeFolder, WriteUp, WriteDown, SquashInv, Shape
  <2>3. todo' \in SUBSET Name /\ job' \in Job
    BY <1>1, <1>2 DEF MakeFolder, WriteUp, WriteDown, local, SquashInv, Shape
  <2>4. pc' \in {"idle", "up", "down", "ledger"}
    BY DEF MakeFolder, WriteUp, WriteDown, Goto, End
  <2>5. base' = base
    BY <1>1
  <2> QED BY <2>1, <2>2, <2>3, <2>4, <2>5 DEF SquashInv, Shape
<1>6. OutsideKept'
  BY <1>1, <1>2, <1>3, <1>4 DEF SquashInv, OutsideKept
<1>7. Gone
  BY DEF MakeFolder, WriteUp, WriteDown, Goto, End, SquashInv, Phases, Gone
<1>8. Gone'
  BY <1>2, <1>3, <1>4, <1>7 DEF Gone
<1>9. Phases'
  <2>1. CASE MakeFolder
    BY <1>1, <1>3, <1>8, <2>1 DEF MakeFolder, Goto, SquashInv, Phases
  <2>2. CASE WriteUp
    <3>1. up'[d] = squashed
      BY <1>2, <2>2 DEF WriteUp, SquashInv, Shape
    <3> QED BY <1>1, <1>3, <1>8, <2>2, <3>1 DEF WriteUp, Goto, SquashInv, Phases
  <2>3. CASE WriteDown
    <3>1. stage'[d] = "whole" /\ up'[d] = squashed
      BY <1>2, <2>3
         DEF WriteDown, Goto, End, SquashInv, Shape, Phases
    <3>2. \/ pc' = "ledger" /\ todo' = Range /\ exit' = exit
          \/ pc' = "idle" /\ exit' = "squashed"
      BY <2>3 DEF WriteDown, Goto, End
    <3> QED BY <1>1, <1>3, <1>8, <3>1, <3>2 DEF SquashInv, Phases
  <2> QED BY <2>1, <2>2, <2>3
<1>10. FoldersFirst'
  BY <1>1 DEF FoldersFirst
<1> QED BY <1>5, <1>6, <1>9, <1>10 DEF SquashInv
-----------------------------------------------------------------------------
(* The ledger follows: records of the range go, that of `start' comes back. *)

LEMMA LedgerStep ==
  ASSUME SquashInv, EraseRecord \/ InsertRecord
  PROVE  SquashInv'
<1>1. /\ UNCHANGED <<stage, up, job, squashed, base>>
      /\ pc = "ledger"
      /\ stage[job.start] = "whole" /\ up[job.start] = squashed /\ Gone
      /\ todo \subseteq Range
  BY DEF EraseRecord, InsertRecord, disk, local, Goto, End, SquashInv, Phases
<1>2. Range' = Range /\ Elsewhere' = Elsewhere
  BY <1>1 DEF Range, Elsewhere
<1>3. \/ pc' = "ledger" /\ exit' = exit /\ todo' \subseteq todo
      \/ pc' = "idle" /\ exit' = "squashed" /\ todo' = todo
  BY DEF EraseRecord, InsertRecord, Goto, End, local
<1>4. \A n \in Elsewhere : n \in records => n \in records'
  <2>1. CASE EraseRecord
    <3>1. Least(todo) \in todo
      BY <2>1, TodoIsNatural DEF EraseRecord, SquashInv
    <3>2. Least(todo) \notin Elsewhere
      BY <1>1, <3>1, RangeFacts
    <3>3. records' = records \ {Least(todo)}
      BY <2>1 DEF EraseRecord
    <3> QED BY <3>2, <3>3
  <2>2. CASE InsertRecord
    BY <2>2 DEF InsertRecord
  <2> QED BY <2>1, <2>2
<1>5. Shape'
  BY <1>1, <1>3 DEF SquashInv, Shape
<1>6. OutsideKept'
  BY <1>1, <1>2, <1>4 DEF SquashInv, OutsideKept
<1>7. FoldersFirst'
  BY <1>1, <1>2 DEF FoldersFirst, Gone
<1>8. Phases'
  BY <1>1, <1>2, <1>3 DEF SquashInv, Phases, Gone
<1> QED BY <1>5, <1>6, <1>7, <1>8 DEF SquashInv

-----------------------------------------------------------------------------
LEMMA SquashStutter ==
  ASSUME SquashInv, UNCHANGED vars
  PROVE  SquashInv'
BY DEF vars, disk, db, local, SquashInv, Shape, OutsideKept, Elsewhere,
       FoldersFirst, Phases, Intact, Gone, Range

LEMMA SquashStep == SquashInv /\ [Next]_vars => SquashInv'
<1> SUFFICES ASSUME SquashInv, [Next]_vars
             PROVE  SquashInv'
  OBVIOUS
<1>1. ASSUME NEW start \in Name, NEW end \in Name,
             NEW force \in BOOLEAN, NEW skipDb \in BOOLEAN,
             Start(start, end, force, skipDb)
      PROVE  SquashInv'
  BY <1>1, StartStep
<1>2. CASE CheckDatabase \/ Scan \/ Build
  BY <1>2, ReadStep
<1>3. CASE DeleteFolder
  BY <1>3, DeleteStep
<1>4. CASE MakeFolder \/ WriteUp \/ WriteDown
  BY <1>4, WriteStep
<1>5. CASE EraseRecord \/ InsertRecord
  BY <1>5, LedgerStep
<1>6. CASE Stop
  BY <1>6, StopStep
<1>7. CASE Migrate
  BY <1>7, MigrateStep
<1>8. CASE UNCHANGED vars
  BY <1>8, SquashStutter
<1> QED BY <1>1, <1>2, <1>3, <1>4, <1>5, <1>6, <1>7, <1>8 DEF Next

LEMMA SquashInvHolds == Spec => []SquashInv
BY SquashInit, SquashStep, PTL DEF Spec

(* For every number of migrations and whatever they say: migrations outside *)
(* of the range keep their folders and their records, at every step and     *)
(* after every kill (squash.ts:82-85, 195-217).                             *)
THEOREM RangeIsRespected == Spec => []OutsideUntouched
<1>1. SquashInv => OutsideUntouched
  BY DEF SquashInv, OutsideKept, OutsideUntouched, Elsewhere
<1> QED BY <1>1, SquashInvHolds, PTL

(* A record is given up only when the folder that takes the place of the    *)
(* range is complete and the other folders are gone (squash.ts:195-217).    *)
THEOREM RecordsGoLast == Spec => []FoldersFirst
<1>1. SquashInv => FoldersFirst
  BY DEF SquashInv
<1> QED BY <1>1, SquashInvHolds, PTL

(* Every early return comes before the first write (squash.ts:46-193).      *)
THEOREM RefusalsAreHarmless == Spec => []RefusalChangesNothing
<1>1. SquashInv => RefusalChangesNothing
  BY DEF SquashInv, Phases, Intact, RefusalChangesNothing
<1> QED BY <1>1, SquashInvHolds, PTL

-----------------------------------------------------------------------------
(* Replayed is the function its recursive definition describes.             *)

Position(scripts, names, from, after, i) ==
  IF i = 0 THEN [ok |-> TRUE, objects |-> from]
  ELSE IF i \in names THEN Run(after[i - 1], scripts[i])
  ELSE after[i - 1]

LEMMA ReplayDefined ==
  ASSUME NEW scripts, NEW names, NEW from
  PROVE  Replayed(scripts, names, from) =
           [i \in 0..N |-> Position(scripts, names, from,
                                    Replayed(scripts, names, from), i)]
<1> DEFINE Fits(n, g) == g = [i \in 0..n |-> Position(scripts, names, from, g, i)]
           T == {n \in 0..N : \E g : Fits(n, g)}
<1>0. N \in Nat
  BY SquashAssumption
<1>1. 0 \in T
  <2>1. Fits(0, [i \in 0..0 |-> [ok |-> TRUE, objects |-> from]])
    BY DEF Position
  <2> HIDE DEF Fits
  <2> QED BY <1>0, <2>1
<1>2. ASSUME NEW n \in 0..N, n \in T, n < N
      PROVE  n + 1 \in T
  <2>1. PICK g : Fits(n, g)
    BY <1>2
  <2> DEFINE h == [i \in 0..n + 1 |-> IF i <= n THEN g[i]
                     ELSE Position(scripts, names, from, g, n + 1)]
  <2>2. \A i \in 0..n : h[i] = g[i]
    BY <1>0
  <2>3. ASSUME NEW i \in 0..n + 1
        PROVE  h[i] = Position(scripts, names, from, h, i)
    <3>1. i = 0 \/ h[i - 1] = g[i - 1]
      BY <1>0, <2>2
    <3>2. Position(scripts, names, from, h, i) = Position(scripts, names, from, g, i)
      BY <3>1 DEF Position
    <3>3. h[i] = Position(scripts, names, from, g, i)
      BY <1>0, <2>1
    <3> QED BY <3>2, <3>3
  <2> HIDE DEF h
  <2>4. h = [i \in 0..n + 1 |-> h[i]]
    BY DEF h
  <2>5. Fits(n + 1, h)
    BY <2>3, <2>4
  <2>6. n + 1 \in 0..N
    BY <1>0, <1>2
  <2> HIDE DEF Fits
  <2> QED BY <2>5, <2>6
<1>3. N \in T
  <2> HIDE DEF T
  <2> QED BY <1>0, <1>1, <1>2, Upwards
<1>4. PICK g : Fits(N, g)
  BY <1>3
<1>5. Replayed(scripts, names, from) = CHOOSE after : Fits(N, after)
  BY DEF Replayed, Position
<1>6. Fits(N, CHOOSE after : Fits(N, after))
  BY <1>4
<1> QED BY <1>5, <1>6

(* r goes through the migrations in `names'. *)
IsReplay(r, scripts, names) ==
  \A i \in 1..N : r[i] = IF i \in names THEN Run(r[i - 1], scripts[i]) ELSE r[i - 1]

LEMMA ReplayIsReplay ==
  ASSUME NEW scripts, NEW names, NEW from
  PROVE  /\ IsReplay(Replayed(scripts, names, from), scripts, names)
         /\ Replayed(scripts, names, from)[0] = [ok |-> TRUE, objects |-> from]
<1> DEFINE r == Replayed(scripts, names, from)
<1>1. r = [i \in 0..N |-> Position(scripts, names, from, r, i)]
  BY ReplayDefined
<1> HIDE DEF r
<1>2. \A i \in 0..N : r[i] = Position(scripts, names, from, r, i)
  BY <1>1
<1>3. 0 \in 0..N /\ 1..N \subseteq 0..N /\ \A i \in 1..N : i # 0
  BY SquashAssumption
<1>4. IsReplay(r, scripts, names)
  BY <1>2, <1>3 DEF IsReplay, Position
<1>5. r[0] = [ok |-> TRUE, objects |-> from]
  BY <1>2, <1>3 DEF Position
<1> QED BY <1>4, <1>5 DEF r

-----------------------------------------------------------------------------
(* What a replay does between two positions a and b.                        *)

LEMMA RunEffect ==
  ASSUME NEW r, NEW s, NEW o
  PROVE  /\ o \in Run(r, s).objects <=> o \in s.make \/ (o \in r.objects /\ o \notin s.drop)
         /\ Run(r, s).ok => /\ r.ok
                            /\ o \in s.make => o \notin r.objects
                            /\ o \in s.drop => o \in r.objects
BY DEF Run

(* Two replays go through the same migrations from a to b. *)
Alike(a, b, s1, n1, s2, n2) ==
  \A i \in a + 1..b : (i \in n1 <=> i \in n2) /\ (i \in n1 => s1[i] = s2[i])

LEMMA ReplaySkips ==
  ASSUME NEW r, NEW s, NEW n, IsReplay(r, s, n),
         NEW a \in 0..N, NEW b \in 0..N, a <= b,
         \A i \in a + 1..b : i \notin n
  PROVE  r[b] = r[a]
<1> DEFINE T == {i \in Nat : r[i] = r[a]}
<1>1. ASSUME NEW i \in a..b, i \in T, i < b
      PROVE  i + 1 \in T
  <2>1. i + 1 \in 1..N /\ i + 1 \in a + 1..b /\ (i + 1) - 1 = i
    BY <1>1, SquashAssumption
  <2>2. r[i + 1] = r[i]
    BY <2>1 DEF IsReplay
  <2> QED BY <1>1, <2>1, <2>2
<1>2. a \in T /\ a \in Nat /\ b \in Nat /\ b \in a..b
  BY SquashAssumption
<1> HIDE DEF T
<1>3. b \in T
  BY <1>1, <1>2, Upwards
<1> QED BY <1>3 DEF T

LEMMA ReplayAgrees ==
  ASSUME NEW r1, NEW s1, NEW n1, IsReplay(r1, s1, n1),
         NEW r2, NEW s2, NEW n2, IsReplay(r2, s2, n2),
         NEW a \in 0..N, NEW b \in 0..N, a <= b,
         Alike(a, b, s1, n1, s2, n2), r1[a] = r2[a]
  PROVE  r1[b] = r2[b]
<1> DEFINE T == {i \in Nat : r1[i] = r2[i]}
<1>1. ASSUME NEW i \in a..b, i \in T, i < b
      PROVE  i + 1 \in T
  <2>1. i + 1 \in 1..N /\ i + 1 \in a + 1..b /\ (i + 1) - 1 = i
    BY <1>1, SquashAssumption
  <2>2. r1[i + 1] = r2[i + 1]
    BY <1>1, <2>1 DEF IsReplay, Alike
  <2> QED BY <1>1, <2>1, <2>2
<1>2. a \in T /\ a \in Nat /\ b \in Nat /\ b \in a..b
  BY SquashAssumption
<1> HIDE DEF T
<1>3. b \in T
  BY <1>1, <1>2, Upwards
<1> QED BY <1>3 DEF T

(* What could be run to the end could be run so far. *)
LEMMA ReplayOkBefore ==
  ASSUME NEW r, NEW s, NEW n, IsReplay(r, s, n),
         NEW a \in 0..N, NEW b \in 0..N, a <= b, r[b].ok
  PROVE  r[a].ok
<1> SUFFICES ASSUME ~r[a].ok
             PROVE  FALSE
  OBVIOUS
<1> DEFINE T == {i \in Nat : ~r[i].ok}
<1>1. ASSUME NEW i \in a..b, i \in T, i < b
      PROVE  i + 1 \in T
  <2>1. i + 1 \in 1..N /\ (i + 1) - 1 = i
    BY <1>1, SquashAssumption
  <2>2. r[i + 1] = Run(r[i], s[i + 1]) \/ r[i + 1] = r[i]
    BY <2>1 DEF IsReplay
  <2>3. ~r[i + 1].ok
    BY <1>1, <2>2, RunEffect
  <2> QED BY <2>1, <2>3
<1>2. a \in T /\ a \in Nat /\ b \in Nat /\ b \in a..b
  BY SquashAssumption
<1> HIDE DEF T
<1>3. b \in T
  BY <1>1, <1>2, Upwards
<1> QED BY <1>3 DEF T

(* What becomes of an object depends on no other object. *)
LEMMA ReplayFollows ==
  ASSUME NEW r1, NEW s1, NEW n1, IsReplay(r1, s1, n1),
         NEW r2, NEW s2, NEW n2, IsReplay(r2, s2, n2),
         NEW a \in 0..N, NEW b \in 0..N, a <= b,
         Alike(a, b, s1, n1, s2, n2),
         NEW o, o \in r1[a].objects <=> o \in r2[a].objects
  PROVE  o \in r1[b].objects <=> o \in r2[b].objects
<1> DEFINE T == {i \in Nat : o \in r1[i].objects <=> o \in r2[i].objects}
<1>1. ASSUME NEW i \in a..b, i \in T, i < b
      PROVE  i + 1 \in T
  <2>1. i + 1 \in 1..N /\ i + 1 \in a + 1..b /\ (i + 1) - 1 = i
    BY <1>1, SquashAssumption
  <2>2. \/ r1[i + 1] = Run(r1[i], s1[i + 1]) /\ r2[i + 1] = Run(r2[i], s1[i + 1])
        \/ r1[i + 1] = r1[i] /\ r2[i + 1] = r2[i]
    BY <2>1 DEF IsReplay, Alike
  <2>3. o \in r1[i + 1].objects <=> o \in r2[i + 1].objects
    BY <1>1, <2>2, RunEffect
  <2> QED BY <2>1, <2>3
<1>2. a \in T /\ a \in Nat /\ b \in Nat /\ b \in a..b
  BY SquashAssumption
<1> HIDE DEF T
<1>3. b \in T
  BY <1>1, <1>2, Upwards
<1> QED BY <1>3 DEF T

LEMMA ReplayLeaves ==
  ASSUME NEW r, NEW s, NEW n, IsReplay(r, s, n),
         NEW a \in 0..N, NEW b \in 0..N, a <= b, NEW o,
         \A i \in a + 1..b : i \in n => o \notin s[i].make /\ o \notin s[i].drop
  PROVE  o \in r[b].objects <=> o \in r[a].objects
<1> DEFINE T == {i \in Nat : o \in r[i].objects <=> o \in r[a].objects}
<1>1. ASSUME NEW i \in a..b, i \in T, i < b
      PROVE  i + 1 \in T
  <2>1. i + 1 \in 1..N /\ i + 1 \in a + 1..b /\ (i + 1) - 1 = i
    BY <1>1, SquashAssumption
  <2>2. \/ i + 1 \in n /\ r[i + 1] = Run(r[i], s[i + 1])
        \/ r[i + 1] = r[i]
    BY <2>1 DEF IsReplay
  <2>3. o \in r[i + 1].objects <=> o \in r[i].objects
    BY <2>1, <2>2, RunEffect
  <2> QED BY <1>1, <2>1, <2>3
<1>2. a \in T /\ a \in Nat /\ b \in Nat /\ b \in a..b
  BY SquashAssumption
<1> HIDE DEF T
<1>3. b \in T
  BY <1>1, <1>2, Upwards
<1> QED BY <1>3 DEF T

(* When the same migrations can be run both where an object is and where it *)
(* is not, they neither make nor drop it.                                   *)
LEMMA ReplayDiffers ==
  ASSUME NEW r1, NEW s1, NEW n1, IsReplay(r1, s1, n1), 
         NEW r2, NEW s2, NEW n2, IsReplay(r2, s2, n2),
         NEW a \in 0..N, NEW b \in 0..N, a <= b,
         Alike(a, b, s1, n1, s2, n2), r1[b].ok, r2[b].ok,
         NEW o, ~(o \in r1[a].objects <=> o \in r2[a].objects)
  PROVE  /\ o \in r1[b].objects <=> o \in r1[a].objects
         /\ o \in r2[b].objects <=> o \in r2[a].objects
<1> DEFINE T == {i \in Nat : /\ o \in r1[i].objects <=> o \in r1[a].objects
                             /\ o \in r2[i].objects <=> o \in r2[a].objects}
<1>1. ASSUME NEW i \in a..b, i \in T, i < b
      PROVE  i + 1 \in T
  <2>1. /\ i + 1 \in 1..N /\ i + 1 \in 0..N /\ i + 1 <= b
        /\ i + 1 \in a + 1..b /\ (i + 1) - 1 = i
    BY <1>1, SquashAssumption
  <2>2. r1[i + 1].ok /\ r2[i + 1].ok
    BY <2>1, ReplayOkBefore
  <2>3. CASE i + 1 \in n1
    <3>1. /\ r1[i + 1] = Run(r1[i], s1[i + 1])
          /\ r2[i + 1] = Run(r2[i], s1[i + 1])
      BY <2>1, <2>3 DEF IsReplay, Alike
    <3>2. /\ o \in s1[i + 1].make => o \notin r1[i].objects /\ o \notin r2[i].objects
          /\ o \in s1[i + 1].drop => o \in r1[i].objects /\ o \in r2[i].objects
      BY <2>2, <3>1 DEF Run
    <3>3. ~(o \in r1[i].objects <=> o \in r2[i].objects)
      BY <1>1
    <3>4. /\ o \in r1[i + 1].objects <=> o \in r1[i].objects
          /\ o \in r2[i + 1].objects <=> o \in r2[i].objects
      BY <3>1, <3>2, <3>3 DEF Run
    <3> QED BY <1>1, <2>1, <3>4
  <2>4. CASE i + 1 \notin n1
    <3>1. r1[i + 1] = r1[i] /\ r2[i + 1] = r2[i]
      BY <2>1, <2>4 DEF IsReplay, Alike
    <3> QED BY <1>1, <2>1, <3>1
  <2> QED BY <2>3, <2>4
<1>2. a \in T /\ a \in Nat /\ b \in Nat /\ b \in a..b
  BY SquashAssumption
<1> HIDE DEF T
<1>3. b \in T
  BY <1>1, <1>2, Upwards
<1> QED BY <1>3 DEF T

(* From the same objects on, what one of two replays can run the other can. *)
LEMMA ReplayStillOk ==
  ASSUME NEW r1, NEW s1, NEW n1, IsReplay(r1, s1, n1),
         NEW r2, NEW s2, NEW n2, IsReplay(r2, s2, n2),
         NEW a \in 0..N, NEW b \in 0..N, a <= b,
         Alike(a, b, s1, n1, s2, n2), r2[b].ok, r1[a].ok,
         r1[a].objects = r2[a].objects
  PROVE  r1[b].ok
<1> DEFINE T == {i \in Nat : r1[i].ok /\ r1[i].objects = r2[i].objects}
<1>1. ASSUME NEW i \in a..b, i \in T, i < b
      PROVE  i + 1 \in T
  <2>1. /\ i + 1 \in 1..N /\ i + 1 \in 0..N /\ i + 1 <= b
        /\ i + 1 \in a + 1..b /\ (i + 1) - 1 = i /\ i + 1 \in Nat
    BY <1>1, SquashAssumption
  <2>2. r2[i + 1].ok
    BY <2>1, ReplayOkBefore
  <2>3. \/ r1[i + 1] = Run(r1[i], s1[i + 1]) /\ r2[i + 1] = Run(r2[i], s1[i + 1])
        \/ r1[i + 1] = r1[i] /\ r2[i + 1] = r2[i]
    BY <2>1 DEF IsReplay, Alike
  <2>4. r1[i + 1].ok /\ r1[i + 1].objects = r2[i + 1].objects
    BY <1>1, <2>2, <2>3 DEF Run
  <2> QED BY <2>1, <2>4
<1>2. a \in T /\ a \in Nat /\ b \in Nat /\ b \in a..b
  BY SquashAssumption
<1> HIDE DEF T
<1>3. b \in T
  BY <1>1, <1>2, Upwards
<1> QED BY <1>3 DEF T

-----------------------------------------------------------------------------
(* The folders after a squash that succeeded.                               *)

Done == Bounded /\ Scanned /\ Built /\ Written /\ Gone

LEMMA Layout ==
  ASSUME Shape, Done
  PROVE  /\ job.start \in 1..N /\ job.end \in 1..N /\ job.start < job.end
         /\ job.start \in Range /\ job.start \in Readable(stage)
         /\ Range \subseteq job.start..job.end
         /\ \A i \in job.start..job.end :
              /\ i \in Readable(stage) => i = job.start
              /\ i \in Readable(base.stage) <=> i \in Range
         /\ \A i \in 1..N : i < job.start \/ i > job.end =>
              /\ up[i] = base.up[i] /\ i \notin Range
              /\ i \in Readable(stage) <=> i \in Readable(base.stage)
         /\ Before = {i \in Readable(base.stage) : i < job.start}
<1>0. /\ job.start \in Name /\ job.end \in Name /\ job.names \subseteq Name
      /\ Name = 1..N /\ Name \subseteq Nat /\ N \in Nat
      /\ job.start < job.end /\ job.start \in job.names /\ job.end \in job.names
      /\ job.names = {n \in Name : base.stage[n] # "absent"}
  BY SquashAssumption DEF Shape, Job, Name, Done, Bounded, Folders
<1>1. job.start \in Range /\ job.start \in Readable(stage)
  BY <1>0 DEF Range, Done, Written, Readable
<1>2. Range \subseteq job.start..job.end /\ Range \subseteq Name
  BY <1>0 DEF Range
<1>3. ASSUME NEW i \in job.start..job.end
      PROVE  /\ i \in Readable(stage) => i = job.start
             /\ i \in Readable(base.stage) <=> i \in Range
  <2>1. i \in Name
    BY <1>0
  <2>2. i \in Range <=> base.stage[i] # "absent"
    BY <1>0, <2>1 DEF Range
  <2>3. i \in Range => i \in Readable(base.stage)
    BY DEF Done, Built
  <2>4. i \in Readable(base.stage) => i \in Range
    BY <2>1, <2>2 DEF Readable
  <2>5. i \in Range /\ i # job.start => stage[i] = "absent"
    BY DEF Done, Gone
  <2>6. i \notin Range => stage[i] = "absent"
    BY <2>1, <2>2 DEF Done, Bounded
  <2> QED BY <2>3, <2>4, <2>5, <2>6 DEF Readable
<1>4. ASSUME NEW i \in 1..N, i < job.start \/ i > job.end
      PROVE  /\ up[i] = base.up[i] /\ i \notin Range
             /\ i \in Readable(stage) <=> i \in Readable(base.stage)
  <2>1. i \in Name /\ i \notin Range
    BY <1>0, <1>4 DEF Range
  <2> QED BY <2>1 DEF Done, Bounded, Readable
<1>5. Before = {i \in Readable(base.stage) : i < job.start}
  <2>1. Before \subseteq Readable(base.stage)
    BY DEF Done, Built
  <2>2. \A i \in Readable(base.stage) : i \in job.names
    BY <1>0 DEF Readable
  <2> QED BY <2>1, <2>2 DEF Before
<1> QED BY <1>0, <1>1, <1>2, <1>3, <1>4, <1>5

(* All that could be read, from nothing. *)
Whole == Replayed(base.up, Readable(base.stage), {})

(* The two snapshots are taken from that history. *)
LEMMA Snapshots ==
  ASSUME Shape, Done
  PROVE  /\ Snapshot(base.up, Before) = Whole[job.start - 1].objects \ Custom
         /\ Snapshot(base.up, Before \cup Range) = Whole[job.end].objects \ Custom
<1> DEFINE s == job.start
           e == job.end
           m == s - 1
           p == Replayed(base.up, Before, {})
           c == Replayed(base.up, Before \cup Range, {})
<1>0. /\ s \in 1..N /\ e \in 1..N /\ s < e /\ 0 \in 0..N /\ N \in 0..N /\ N \in Nat
      /\ m \in 0..N /\ e \in 0..N /\ m <= N /\ e <= N /\ 0 <= m /\ 0 <= e /\ m + 1 = s
  BY Layout, SquashAssumption
<1>1. /\ IsReplay(Whole, base.up, Readable(base.stage))
      /\ IsReplay(p, base.up, Before)
      /\ IsReplay(c, base.up, Before \cup Range)
      /\ Whole[0] = p[0] /\ Whole[0] = c[0]
  <2>1. /\ IsReplay(Whole, base.up, Readable(base.stage))
        /\ Whole[0] = [ok |-> TRUE, objects |-> {}]
    BY ReplayIsReplay DEF Whole
  <2>2. IsReplay(p, base.up, Before) /\ p[0] = [ok |-> TRUE, objects |-> {}]
    BY ReplayIsReplay
  <2>3. IsReplay(c, base.up, Before \cup Range) /\ c[0] = [ok |-> TRUE, objects |-> {}]
    BY ReplayIsReplay
  <2> HIDE DEF p, c
  <2> QED BY <2>1, <2>2, <2>3
<1>2. p[m] = Whole[m]
  <2>1. Alike(0, m, base.up, Before, base.up, Readable(base.stage))
    <3>1. ASSUME NEW i \in 0 + 1..m
          PROVE  i < s
      BY <1>0
    <3> QED BY <3>1, Layout DEF Alike
  <2>2. /\ IsReplay(Whole, base.up, Readable(base.stage)) /\ IsReplay(p, base.up, Before)
        /\ p[0] = Whole[0]
    BY <1>1
  <2> HIDE DEF m, s, e, p, c
  <2> QED BY <1>0, <2>1, <2>2, ReplayAgrees
<1>3. p[N] = p[m]
  <2>1. ASSUME NEW i \in m + 1..N
        PROVE  i \notin Before
    <3>1. ~(i < s)
      BY <1>0
    <3> QED BY <3>1, Layout
  <2> HIDE DEF m, s, p
  <2> QED BY <1>0, <1>1, <2>1, ReplaySkips
<1>4. c[e] = Whole[e]
  <2>1. Alike(0, e, base.up, Before \cup Range, base.up, Readable(base.stage))
    <3>1. ASSUME NEW i \in 0 + 1..e
          PROVE  i \in Before \cup Range <=> i \in Readable(base.stage)
      <4>1. i \in 1..N /\ (i < s \/ i \in s..e)
        BY <1>0
      <4>2. CASE i < s
        BY <1>0, <4>1, <4>2, Layout
      <4>3. CASE i \in s..e
        <5>1. i \notin Before
          BY <1>0, <4>3, Layout
        <5> QED BY <4>3, <5>1, Layout
      <4> QED BY <4>1, <4>2, <4>3
    <3> QED BY <3>1 DEF Alike
  <2> HIDE DEF e, c
  <2> QED BY <1>0, <1>1, <2>1, ReplayAgrees
<1>5. c[N] = c[e]
  <2>1. \A i \in e + 1..N : i \notin Before \cup Range
    <3>1. ASSUME NEW i \in e + 1..N
          PROVE  i \in 1..N /\ i > e /\ ~(i < s)
      BY <1>0
    <3> QED BY <3>1, Layout
  <2> HIDE DEF e, c
  <2> QED BY <1>0, <1>1, <2>1, ReplaySkips
<1> QED BY <1>2, <1>3, <1>4, <1>5 DEF Snapshot, Replay

(* r2 goes through the range as it was and r1 through what became of it:    *)
(* an object comes to the same, when the range finds it as it is in the     *)
(* whole history, or can be run from where it finds it.                     *)
SameRange(r1, n1, r2, n2) ==
  /\ IsReplay(r1, up, n1) /\ n1 \subseteq Readable(stage)
  /\ IsReplay(r2, base.up, n2) /\ n2 \subseteq Readable(base.stage)
  /\ r1[0] = r2[0]
  /\ \A i \in Name \ Range : i \in n1 <=> i \in n2
  /\ job.start \in n1 /\ Range \subseteq n2

LEMMA BeforeTheRange ==
  ASSUME Shape, Done, NEW r1, NEW n1, NEW r2, NEW n2, SameRange(r1, n1, r2, n2)
  PROVE  /\ r1[job.start - 1] = r2[job.start - 1]
         /\ r1[job.start] = Run(r2[job.start - 1], squashed)
         /\ r1[job.end] = r1[job.start]
<1> DEFINE s == job.start
           e == job.end
<1>0. /\ s \in 1..N /\ e \in 1..N /\ s < e /\ 0 \in 0..N /\ s \in 0..N /\ N \in Nat
      /\ s - 1 \in 0..N /\ e \in 0..N /\ 0 <= s - 1 /\ s <= e
  BY Layout, SquashAssumption
<1>1. r1[s - 1] = r2[s - 1]
  <2>1. ASSUME NEW i \in 0 + 1..s - 1
        PROVE  (i \in n1 <=> i \in n2) /\ up[i] = base.up[i]
    <3>1. i \in 1..N /\ i < s
      BY <1>0
    <3>2. i \in Name \ Range /\ up[i] = base.up[i]
      BY <3>1, Layout DEF Name
    <3> QED BY <3>2 DEF SameRange
  <2>2. Alike(0, s - 1, up, n1, base.up, n2)
    BY <2>1 DEF Alike
  <2> HIDE DEF s
  <2> QED BY <1>0, <2>2, ReplayAgrees DEF SameRange
<1>2. r1[s] = Run(r1[s - 1], squashed)
  BY <1>0 DEF SameRange, IsReplay, Done, Written
<1>3. r1[e] = r1[s]
  <2>1. ASSUME NEW i \in s + 1..e
        PROVE  i \notin n1
    <3>1. i \in s..e /\ i # s
      BY <1>0
    <3> QED BY <3>1, Layout DEF SameRange
  <2> HIDE DEF s, e
  <2> QED BY <1>0, <2>1, ReplaySkips DEF SameRange
<1> QED BY <1>1, <1>2, <1>3

LEMMA AcrossTheRange ==
  ASSUME Shape, Done, NEW r1, NEW n1, NEW r2, NEW n2, SameRange(r1, n1, r2, n2),
         NEW o, ~job.force \/ o \notin Custom,
         \/ o \in r2[job.start - 1].objects <=> o \in Whole[job.start - 1].objects
         \/ r2[job.end].ok /\ Whole[job.end].ok
  PROVE  o \in r1[job.end].objects <=> o \in r2[job.end].objects
<1> DEFINE s == job.start
           e == job.end
           m == s - 1
<1>0. /\ s \in 1..N /\ e \in 1..N /\ s < e /\ m \in 0..N /\ e \in 0..N /\ m <= e
      /\ m + 1 = s
  BY Layout, SquashAssumption
<1>1. IsReplay(Whole, base.up, Readable(base.stage))
  BY ReplayIsReplay DEF Whole
<1>2. Alike(m, e, base.up, n2, base.up, Readable(base.stage))
  BY <1>0, Layout DEF Alike, SameRange
<1>3. o \in r1[e].objects <=>
        o \in squashed.make \/ (o \in r2[m].objects /\ o \notin squashed.drop)
  BY BeforeTheRange, RunEffect
<1>4. /\ o \in squashed.make <=> o \notin Custom /\ o \in Whole[e].objects /\ o \notin Whole[m].objects
      /\ o \in squashed.drop <=> o \notin Custom /\ o \in Whole[m].objects /\ o \notin Whole[e].objects
  BY Snapshots DEF Done, Built, Diff
<1>5. CASE o \in Custom
  <2>1. ASSUME NEW i \in m + 1..e, i \in n2
        PROVE  o \notin base.up[i].make /\ o \notin base.up[i].drop
    <3>1. i \in Range
      BY <1>0, <2>1, Layout DEF SameRange
    <3> QED BY <1>5, <3>1 DEF Done, Scanned, IsCustom
  <2>2. o \in r2[e].objects <=> o \in r2[m].objects
    <3> HIDE DEF m, e
    <3> QED BY <1>0, <2>1, ReplayLeaves DEF SameRange
  <2> QED BY <1>3, <1>4, <1>5, <2>2
<1>6. CASE o \notin Custom /\ (o \in r2[m].objects <=> o \in Whole[m].objects)
  <2>1. o \in r2[e].objects <=> o \in Whole[e].objects
    <3> HIDE DEF m, e
    <3> QED BY <1>0, <1>1, <1>2, <1>6, ReplayFollows DEF SameRange
  <2> QED BY <1>3, <1>4, <1>6, <2>1
<1>7. CASE ~(o \in r2[m].objects <=> o \in Whole[m].objects)
  <2>1. r2[e].ok /\ Whole[e].ok
    BY <1>7
  <2>2. /\ o \in r2[e].objects <=> o \in r2[m].objects
        /\ o \in Whole[e].objects <=> o \in Whole[m].objects
    <3> HIDE DEF m, e
    <3> QED BY <1>0, <1>1, <1>2, <1>7, <2>1, ReplayDiffers DEF SameRange
  <2> QED BY <1>3, <1>4, <2>2
<1> QED BY <1>5, <1>6, <1>7

(* After the range both go through the same migrations again. *)
LEMMA AfterTheRange ==
  ASSUME Shape, Done, NEW r1, NEW n1, NEW r2, NEW n2,
         n1 \subseteq Readable(stage), n2 \subseteq Readable(base.stage),
         \A i \in Name \ Range : i \in n1 <=> i \in n2
  PROVE  Alike(job.end, N, up, n1, base.up, n2)
<1>1. ASSUME NEW i \in job.end + 1..N
      PROVE  (i \in n1 <=> i \in n2) /\ up[i] = base.up[i]
  <2>1. i \in 1..N /\ i > job.end
    BY <1>1, Layout, SquashAssumption
  <2>2. i \in Name \ Range /\ up[i] = base.up[i]
    BY <2>1, Layout DEF Name
  <2> QED BY <2>2
<1> QED BY <1>1 DEF Alike

LEMMA ThroughTheRange ==
  ASSUME Shape, Done, NEW r1, NEW n1, NEW r2, NEW n2, SameRange(r1, n1, r2, n2),
         NEW o, ~job.force \/ o \notin Custom,
         \/ o \in r2[job.start - 1].objects <=> o \in Whole[job.start - 1].objects
         \/ r2[job.end].ok /\ Whole[job.end].ok
  PROVE  o \in r1[N].objects <=> o \in r2[N].objects
<1>1. o \in r1[job.end].objects <=> o \in r2[job.end].objects
  BY AcrossTheRange
<1>2. Alike(job.end, N, up, n1, base.up, n2)
  BY AfterTheRange DEF SameRange
<1>3. job.end \in 0..N /\ N \in 0..N /\ job.end <= N
  BY Layout, SquashAssumption
<1> QED BY <1>1, <1>2, <1>3, ReplayFollows DEF SameRange

-----------------------------------------------------------------------------
(* What a squash that succeeded comes to.                                   *)

LEMMA DonePreserves ==
  ASSUME Shape, Done
  PROVE  LET before == Readable(base.stage)
             after  == Readable(stage)
         IN /\ Snapshot(up, after) = Snapshot(base.up, before)
            /\ ~job.force =>
                 Replay(up, after, {}).objects = Replay(base.up, before, {}).objects
<1> DEFINE r == Replayed(up, Readable(stage), {})
<1>1. IsReplay(r, up, Readable(stage)) /\ r[0] = [ok |-> TRUE, objects |-> {}]
  BY ReplayIsReplay
<1>2. /\ IsReplay(Whole, base.up, Readable(base.stage))
      /\ Whole[0] = [ok |-> TRUE, objects |-> {}]
  BY ReplayIsReplay DEF Whole
<1> HIDE DEF r
<1>3. SameRange(r, Readable(stage), Whole, Readable(base.stage))
  <2>1. \A i \in Name \ Range : i \in Readable(stage) <=> i \in Readable(base.stage)
    BY DEF Done, Bounded, Readable
  <2>2. job.start \in Readable(stage) /\ Range \subseteq Readable(base.stage)
    BY Layout DEF Done, Built
  <2> QED BY <1>1, <1>2, <2>1, <2>2 DEF SameRange
<1>4. \A o : ~job.force \/ o \notin Custom =>
               (o \in r[N].objects <=> o \in Whole[N].objects)
  BY <1>3, ThroughTheRange
<1>5. r[N].objects \ Custom = Whole[N].objects \ Custom
  BY <1>4
<1>6. ~job.force => r[N].objects = Whole[N].objects
  BY <1>4
<1> QED BY <1>5, <1>6 DEF r, Whole, Snapshot, Replay

(* The records, and the database, as the command leaves them. *)
LedgerDone ==
  /\ objects = base.objects
  /\ records = IF rangeAllApplied THEN (base.records \ Range) \cup {job.start}
               ELSE base.records
  /\ \/ Range \subseteq base.records
     \/ ~rangeAllApplied /\ Range \cap base.records = {}

LEMMA DoneRecorded ==
  ASSUME Shape, Done, LedgerDone, Orderly
  PROVE  LET ignored == IF job.force THEN Custom ELSE {}
         IN  Recorded(stage, up, records) \ ignored = objects \ ignored
<1> DEFINE n1 == records \cap Readable(stage)
           n2 == base.records \cap Readable(base.stage)
           r1 == Replayed(up, n1, {})
           r2 == Replayed(base.up, n2, {})
<1>1. IsReplay(r1, up, n1) /\ r1[0] = [ok |-> TRUE, objects |-> {}]
  BY ReplayIsReplay
<1>2. IsReplay(r2, base.up, n2) /\ r2[0] = [ok |-> TRUE, objects |-> {}]
  BY ReplayIsReplay
<1>3. r2[N].ok /\ r2[N].objects = objects /\ Whole[N].ok
  BY DEF Orderly, Replay, Whole, LedgerDone
<1>4. Recorded(stage, up, records) = r1[N].objects
  BY DEF Recorded, Replay
<1> HIDE DEF r1, r2
<1>5. \A i \in Name \ Range : i \in n1 <=> i \in n2
  <2>1. \A i \in Name \ Range : i \in Readable(stage) <=> i \in Readable(base.stage)
    BY DEF Done, Bounded, Readable
  <2>2. \A i \in Name \ Range : i \in records <=> i \in base.records
    BY Layout DEF LedgerDone
  <2> QED BY <2>1, <2>2
<1>6. CASE Range \subseteq base.records
  <2>1. SameRange(r1, n1, r2, n2)
    <3>1. job.start \in n1 /\ Range \subseteq n2
      BY <1>6, Layout DEF LedgerDone, Done, Built
    <3> QED BY <1>1, <1>2, <1>5, <3>1 DEF SameRange
  <2>2. r2[job.end].ok /\ Whole[job.end].ok
    <3>1. job.end \in 0..N /\ N \in 0..N /\ job.end <= N
      BY Layout, SquashAssumption
    <3>2. IsReplay(Whole, base.up, Readable(base.stage))
      BY ReplayIsReplay DEF Whole
    <3> HIDE DEF n1, n2
    <3> QED BY <1>2, <1>3, <3>1, <3>2, ReplayOkBefore
  <2> HIDE DEF n1, n2
  <2>3. \A o : ~job.force \/ o \notin Custom =>
                 (o \in r1[N].objects <=> o \in r2[N].objects)
    BY <2>1, <2>2, ThroughTheRange
  <2> QED BY <1>3, <1>4, <2>3
<1>7. CASE ~rangeAllApplied /\ Range \cap base.records = {}
  <2>1. \A i \in Range : i \notin n1 /\ i \notin n2
    BY <1>7 DEF LedgerDone
  <2>2. Alike(0, N, up, n1, base.up, n2)
    <3>1. ASSUME NEW i \in 0 + 1..N
          PROVE  (i \in n1 <=> i \in n2) /\ (i \in n1 => up[i] = base.up[i])
      <4>1. i \in Name
        BY <3>1 DEF Name
      <4> QED BY <1>5, <2>1, <4>1 DEF Done, Bounded
    <3> QED BY <3>1 DEF Alike
  <2>3. 0 \in 0..N /\ N \in 0..N /\ 0 <= N
    BY SquashAssumption
  <2> HIDE DEF n1, n2
  <2>4. r1[N] = r2[N]
    BY <1>1, <1>2, <2>2, <2>3, ReplayAgrees
  <2> QED BY <1>3, <1>4, <2>4
<1> QED BY <1>6, <1>7 DEF LedgerDone

LEMMA DoneDeployable ==
  ASSUME Shape, Done, LedgerDone, Orderly, ~OneByOne, ~job.force,
         Replay(base.up, Pending(base.stage, base.records), base.objects).ok
  PROVE  Replay(up, Pending(stage, records), objects).ok
<1> DEFINE n1 == Pending(stage, records)
           n2 == Pending(base.stage, base.records)
           r1 == Replayed(up, n1, objects)
           r2 == Replayed(base.up, n2, objects)
           s == job.start
           e == job.end
           m == s - 1
<1>0. /\ m \in 0..N /\ s \in 0..N /\ e \in 0..N /\ N \in 0..N /\ 0 \in 0..N
      /\ m <= e /\ e <= N /\ 0 <= N /\ m <= N
  BY Layout, SquashAssumption
<1>1. IsReplay(r1, up, n1) /\ r1[0] = [ok |-> TRUE, objects |-> objects]
  BY ReplayIsReplay
<1>2. IsReplay(r2, base.up, n2) /\ r2[0] = [ok |-> TRUE, objects |-> objects]
  BY ReplayIsReplay
<1>3. r2[N].ok /\ Whole[N].ok
  BY DEF Orderly, Replay, Whole, LedgerDone
<1>4. Replay(up, Pending(stage, records), objects).ok <=> r1[N].ok
  BY DEF Replay
<1> HIDE DEF r1, r2
<1>5. \A i \in Name \ Range : i \in n1 <=> i \in n2
  <2>1. \A i \in Name \ Range : i \in Readable(stage) <=> i \in Readable(base.stage)
    BY DEF Done, Bounded, Readable
  <2>2. \A i \in Name \ Range : i \in records <=> i \in base.records
    BY Layout DEF LedgerDone
  <2> QED BY <2>1, <2>2 DEF Pending
<1>6. CASE Range \subseteq base.records
  <2>1. \A i \in Range : i \notin n1 /\ i \notin n2
    <3>1. \A i \in Range : i \in Readable(stage) => i = s
      BY Layout
    <3>2. s \in records
      BY <1>6, Layout DEF LedgerDone
    <3> QED BY <1>6, <3>1, <3>2 DEF Pending
  <2>2. Alike(0, N, up, n1, base.up, n2)
    <3>1. ASSUME NEW i \in 0 + 1..N
          PROVE  (i \in n1 <=> i \in n2) /\ (i \in n1 => up[i] = base.up[i])
      <4>1. i \in Name
        BY <3>1 DEF Name
      <4> QED BY <1>5, <2>1, <4>1 DEF Done, Bounded
    <3> QED BY <3>1 DEF Alike
  <2>3. r1[N] = r2[N]
    <3> HIDE DEF n1, n2
    <3> QED BY <1>0, <1>1, <1>2, <2>2, ReplayAgrees
  <2> QED BY <1>3, <1>4, <2>3
<1>7. CASE ~rangeAllApplied /\ Range \cap base.records = {}
  <2>1. SameRange(r1, n1, r2, n2)
    <3>1. s \in n1 /\ Range \subseteq n2
      BY <1>7, Layout DEF LedgerDone, Done, Built, Pending
    <3>2. n1 \subseteq Readable(stage) /\ n2 \subseteq Readable(base.stage)
      BY DEF Pending
    <3> HIDE DEF n1, n2
    <3> QED BY <1>1, <1>2, <1>5, <3>1, <3>2 DEF SameRange
  <2>2. r2[m].ok /\ r2[e].ok /\ Whole[e].ok
    <3>1. IsReplay(Whole, base.up, Readable(base.stage))
      BY ReplayIsReplay DEF Whole
    <3> HIDE DEF n1, n2, m, e
    <3> QED BY <1>0, <1>2, <1>3, <3>1, ReplayOkBefore
  <2>3. \A o : o \in r1[e].objects <=> o \in r2[e].objects
    <3> HIDE DEF n1, n2
    <3> QED BY <2>1, <2>2, AcrossTheRange
  <2>4. r1[e].ok
    <3>1. r1[e] = Run(r2[m], squashed)
      <4> HIDE DEF n1, n2
      <4> QED BY <2>1, BeforeTheRange
    <3>2. ASSUME NEW o, o \in squashed.make \/ o \in squashed.drop
          PROVE  o \in squashed.make <=> o \notin r2[m].objects
      <4>1. /\ o \in squashed.make <=> /\ o \notin Custom /\ o \in Whole[e].objects
                                       /\ o \notin Whole[m].objects
            /\ o \in squashed.drop <=> /\ o \notin Custom /\ o \in Whole[m].objects
                                       /\ o \notin Whole[e].objects
        BY Snapshots DEF Done, Built, Diff
      <4>2. Alike(m, e, base.up, n2, base.up, Readable(base.stage))
        <5>1. m + 1 = s
          BY <1>0, Layout
        <5> QED BY <2>1, <5>1, Layout DEF Alike, SameRange
      <4>3. IsReplay(Whole, base.up, Readable(base.stage))
        BY ReplayIsReplay DEF Whole
      <4>4. o \in r2[m].objects <=> o \in Whole[m].objects
        <5>1. SUFFICES ASSUME ~(o \in r2[m].objects <=> o \in Whole[m].objects)
                       PROVE  FALSE
          OBVIOUS
        <5>2. o \in Whole[e].objects <=> o \in Whole[m].objects
          <6> HIDE DEF n1, n2, m, e
          <6> QED BY <1>0, <1>2, <2>2, <4>2, <4>3, <5>1, ReplayDiffers
        <5> QED BY <3>2, <4>1, <5>2
      <4> QED BY <3>2, <4>1, <4>4
    <3>3. squashed.make \cap r2[m].objects = {} /\ squashed.drop \subseteq r2[m].objects
      <4>1. \A o \in squashed.make : o \notin squashed.drop
        BY DEF Done, Built, Diff
      <4> QED BY <3>2, <4>1
    <3> QED BY <2>2, <3>1, <3>3 DEF Run
  <2>5. Alike(e, N, up, n1, base.up, n2)
    <3>1. n1 \subseteq Readable(stage) /\ n2 \subseteq Readable(base.stage)
      BY DEF Pending
    <3> HIDE DEF n1, n2
    <3> QED BY <1>5, <3>1, AfterTheRange
  <2>6. r1[e].objects = r2[e].objects /\ r1[e].ok /\ r2[e].ok
    BY <2>2, <2>3, <2>4
  <2> HIDE DEF n1, n2, e
  <2>7. r1[N].ok
    BY <1>0, <1>1, <1>2, <1>3, <2>5, <2>6, ReplayStillOk
  <2> QED BY <1>4, <2>7
<1> QED BY <1>6, <1>7 DEF LedgerDone

-----------------------------------------------------------------------------
(* The course of a squash is an invariant.                                  *)

LEMMA CourseInit == Init => CourseInv
BY DEF Init, CourseInv, Course, Answer, Undisturbed, Looked, Succeeded

LEMMA CourseStart ==
  ASSUME SquashInv, NEW start \in Name, NEW end \in Name,
         NEW force \in BOOLEAN, NEW skipDb \in BOOLEAN,
         Start(start, end, force, skipDb)
  PROVE  CourseInv'
<1>1. /\ UNCHANGED <<stage, up, records, objects>>
      /\ job' = [start |-> start, end |-> end, force |-> force,
                 skipDb |-> skipDb, names |-> Folders(stage)]
      /\ base' = [stage |-> stage, up |-> up, records |-> records, objects |-> objects]
      /\ ~rangeAllApplied'
  BY DEF Start, disk, db
<1>2. \/ pc' = "idle" /\ exit' \in {"refused", "nothing"}
      \/ /\ pc' = "check" /\ exit' = "none"
         /\ {start, end} \subseteq Folders(stage) /\ start <= end /\ start # end
  BY DEF Start, Goto, End
<1>3. pc' = "check" => Bounded'
  <2>1. start \in Nat /\ end \in Nat
    BY SquashAssumption DEF Name
  <2> QED BY <1>1, <1>2, <2>1 DEF Bounded, Folders
<1> QED BY <1>1, <1>2, <1>3
        DEF CourseInv, Course, Answer, Undisturbed, Looked, Succeeded

(* Steps that change neither the folders nor what is known of them. *)
LEMMA FoldersFrame ==
  ASSUME UNCHANGED <<stage, up, job, squashed>>,
         base'.stage = base.stage, base'.up = base.up
  PROVE  /\ Range' = Range /\ Before' = Before
         /\ Bounded => Bounded' 
         /\ Scanned => Scanned'
         /\ Built => Built'
         /\ Written => Written'
         /\ Gone => Gone'
<1>1. Range' = Range /\ Before' = Before
  BY DEF Range, Before
<1>2. Bounded => Bounded'
  BY <1>1 DEF Bounded, Folders
<1>3. Scanned => Scanned'
  BY <1>1 DEF Scanned
<1>4. Built => Built'
  BY <1>1 DEF Built, Readable
<1>5. (Written => Written') /\ (Gone => Gone')
  BY <1>1 DEF Written, Gone
<1> QED BY <1>1, <1>2, <1>3, <1>4, <1>5

LEMMA CourseCheck ==
  ASSUME SquashInv, CourseInv, CheckDatabase
  PROVE  CourseInv'
<1>1. /\ UNCHANGED <<stage, up, records, objects, job, squashed, disturbed>>
      /\ pc = "check"
      /\ base' = IF job.skipDb THEN base
                 ELSE [base EXCEPT !.records = records, !.objects = objects]
  BY DEF CheckDatabase, disk, db, Goto, End
<1>2. base'.stage = base.stage /\ base'.up = base.up
  BY <1>1 DEF SquashInv, Shape
<1>3. CASE pc' = "idle"
  <2>1. exit' = "refused"
    BY <1>1, <1>3 DEF CheckDatabase, Goto, End
  <2> QED BY <1>3, <2>1 DEF CourseInv, Course, Answer, Undisturbed, Looked, Succeeded
<1>4. CASE pc' = "scan"
  <2>1. Bounded' /\ Range' = Range
    BY <1>1, <1>2, FoldersFrame DEF CourseInv, Course
  <2>2. job.start \in Range
    <3>1. job.start \in Nat /\ job.end \in Nat
      BY SquashAssumption DEF SquashInv, Shape, Job, Name
    <3> QED BY <1>1, <3>1 DEF CourseInv, Course, Bounded, Range
  <2>3. CASE job.skipDb
    <3>1. base' = base /\ rangeAllApplied' = rangeAllApplied
      BY <1>1, <2>3 DEF CheckDatabase
    <3>2. ~rangeAllApplied
      BY <1>1, <2>3 DEF CourseInv, Answer
    <3> QED BY <1>1, <1>4, <2>1, <2>3, <3>1, <3>2
            DEF CourseInv, Course, Answer, Undisturbed, Looked, Succeeded
  <2>4. CASE ~job.skipDb
    <3>1. base'.records = records /\ base'.objects = objects
      BY <1>1, <2>4 DEF SquashInv, Shape
    <3>2. /\ Range \cap records \in {{}, Range}
          /\ rangeAllApplied' = (Range \cap records = Range)
      BY <1>4, <2>4 DEF CheckDatabase, End, Goto
    <3>3. IF rangeAllApplied' THEN Range \subseteq records ELSE Range \cap records = {}
      BY <3>2
    <3> QED BY <1>1, <1>4, <2>1, <2>4, <3>1, <3>3
            DEF CourseInv, Course, Answer, Undisturbed, Looked, Succeeded
  <2> QED BY <2>3, <2>4
<1> QED BY <1>3, <1>4 DEF CheckDatabase, Goto, End

LEMMA CourseScan ==
  ASSUME SquashInv, CourseInv, Scan
  PROVE  CourseInv'
<1>1. /\ UNCHANGED <<stage, up, records, objects, job, squashed, rangeAllApplied,
                     base, disturbed>>
      /\ pc = "scan" /\ up = base.up
  BY DEF Scan, disk, db, local, Goto, End, SquashInv, Phases, Intact
<1>2. CASE pc' = "idle"
  <2>1. exit' \in {"broken", "refused"}
    BY <1>1, <1>2 DEF Scan, Goto, End
  <2> QED BY <1>2, <2>1 DEF CourseInv, Course, Answer, Undisturbed, Looked, Succeeded
<1>3. CASE pc' = "build"
  <2>1. Bounded' /\ Range' = Range
    BY <1>1, FoldersFrame DEF CourseInv, Course
  <2>2. Scanned
    <3>1. ~job.force => {n \in Range : n \notin Importable \/ IsCustom(up[n])} = {}
      BY <1>3 DEF Scan, End, Goto
    <3> QED BY <1>1, <3>1 DEF Scanned
  <2>3. Scanned'
    BY <1>1, <2>2, FoldersFrame
  <2> QED BY <1>1, <1>3, <2>1, <2>3
          DEF CourseInv, Course, Answer, Undisturbed, Looked, Succeeded
<1> QED BY <1>2, <1>3 DEF Scan, Goto, End

LEMMA CourseBuild ==
  ASSUME SquashInv, CourseInv, Build
  PROVE  CourseInv'
<1>1. /\ UNCHANGED <<stage, up, records, objects, job, rangeAllApplied, base, disturbed>>
      /\ pc = "build" /\ up = base.up /\ stage = base.stage
  BY DEF Build, disk, db, Goto, End, SquashInv, Phases, Intact
<1>2. CASE pc' = "idle"
  <2>1. exit' \in {"broken", "nothing"}
    BY <1>1, <1>2 DEF Build, Goto, End
  <2> QED BY <1>2, <2>1 DEF CourseInv, Course, Answer, Undisturbed, Looked, Succeeded
<1>3. CASE pc' = "delete"
  <2>1. Range' = Range /\ Before' = Before
    BY <1>1 DEF Range, Before
  <2>2. Bounded' /\ Scanned'
    BY <1>1, <2>1 DEF CourseInv, Course, Bounded, Folders, Scanned, IsCustom
  <2>3. /\ Before \cup Range \subseteq Readable(base.stage)
        /\ squashed' = Diff(Snapshot(base.up, Before), Snapshot(base.up, Before \cup Range))
    BY <1>1, <1>3 DEF Build, Goto, End, Importable, Readable
  <2>4. Built'
    BY <1>1, <2>1, <2>3 DEF Built, Readable
  <2> QED BY <1>1, <1>3, <2>1, <2>2, <2>4
          DEF CourseInv, Course, Answer, Undisturbed, Looked, Succeeded
<1> QED BY <1>2, <1>3 DEF Build, Goto, End

(* While the folders are rewritten, only those of the range change. *)
LEMMA RewriteFrame ==
  ASSUME SquashInv, CourseInv, pc \in {"delete", "up", "down"},
         UNCHANGED <<job, squashed, base>>,
         \A n \in Name \ Range : stage'[n] = stage[n] /\ up'[n] = up[n]
  PROVE  Range' = Range /\ Bounded' /\ Scanned' /\ Built'
<1>1. Bounded /\ Scanned /\ Built /\ Range' = Range /\ Before' = Before
  BY DEF CourseInv, Course, Range, Before
<1>2. Bounded'
  BY <1>1 DEF Bounded, Folders
<1>3. Scanned'
  BY <1>1 DEF Scanned, IsCustom
<1>4. Built'
  BY <1>1 DEF Built, Readable
<1> QED BY <1>1, <1>2, <1>3, <1>4

LEMMA CourseRewrite ==
  ASSUME SquashInv, CourseInv, DeleteFolder \/ MakeFolder \/ WriteUp \/ WriteDown
  PROVE  CourseInv'
<1>1. /\ UNCHANGED <<records, objects, job, rangeAllApplied, squashed, base, disturbed>>
      /\ pc \in {"delete", "up", "down"}
  BY DEF DeleteFolder, MakeFolder, WriteUp, WriteDown, db, local, Goto, End
<1>2. job.start \in Range
  <2>1. job.start \in Nat /\ job.end \in Nat
    BY SquashAssumption DEF SquashInv, Shape, Job, Name
  <2> QED BY <1>1, <2>1 DEF CourseInv, Course, Bounded, Range
<1>3. \A n \in Name \ Range : stage'[n] = stage[n] /\ up'[n] = up[n]
  <2>1. CASE DeleteFolder
    <3>1. Least(todo) \in Range
      BY <2>1, TodoIsNatural DEF DeleteFolder, SquashInv, Phases
    <3> QED BY <2>1, <3>1 DEF DeleteFolder, SquashInv, Shape
  <2>2. CASE MakeFolder \/ WriteUp \/ WriteDown
    BY <1>2, <2>2 DEF MakeFolder, WriteUp, WriteDown, db, SquashInv, Shape
  <2> QED BY <2>1, <2>2
<1>4. Range' = Range /\ Bounded' /\ Scanned' /\ Built'
  BY <1>1, <1>3, RewriteFrame
<1>5. CASE DeleteFolder \/ MakeFolder \/ WriteUp
  <2>1. pc' \in {"delete", "up", "down"}
    BY <1>5 DEF DeleteFolder, MakeFolder, WriteUp, Goto
  <2> QED BY <1>1, <1>4, <2>1
          DEF CourseInv, Course, Answer, Undisturbed, Looked, Succeeded
<1>6. CASE WriteDown
  <2>1. Written' /\ Gone'
    <3>1. job.start \in Name /\ pc = "down" /\ Range \subseteq Name
      BY <1>6, RangeFacts DEF WriteDown, Goto, End
    <3>2. up[job.start] = squashed /\ Gone
      BY <3>1 DEF SquashInv, Phases
    <3>3. /\ stage'[job.start] = "whole" /\ up' = up
          /\ \A n \in Name \ {job.start} : stage'[n] = stage[n]
      BY <1>6, <3>1 DEF WriteDown, SquashInv, Shape
    <3> QED BY <1>1, <1>4, <3>1, <3>2, <3>3 DEF Written, Gone
  <2>2. \/ rangeAllApplied /\ pc' = "ledger" /\ todo' = Range
        \/ ~rangeAllApplied /\ pc' = "idle" /\ exit' = "squashed"
    BY <1>6 DEF WriteDown, Goto, End
  <2>3. pc = "down"
    BY <1>6 DEF WriteDown, Goto, End
  <2>4. Course' /\ Answer'
    BY <1>1, <1>4, <2>1, <2>2, <2>3 DEF CourseInv, Course, Answer, Looked, Succeeded, Gone
  <2>5. disturbed' \/ Undisturbed'
    <3>1. Undisturbed => records = base.records /\ objects = base.objects
      BY <2>3 DEF Undisturbed, Looked
    <3>2. base.records \ (Range \ Range) = base.records
      OBVIOUS
    <3> QED BY <1>1, <1>4, <2>2, <3>1, <3>2
            DEF CourseInv, Undisturbed, Looked, Succeeded
  <2> QED BY <2>4, <2>5 DEF CourseInv
<1> QED BY <1>5, <1>6

LEMMA CourseLedger ==
  ASSUME SquashInv, CourseInv, EraseRecord \/ InsertRecord
  PROVE  CourseInv'
<1>1. /\ UNCHANGED <<stage, up, objects, job, rangeAllApplied, squashed, base, disturbed>>
      /\ pc = "ledger"
  BY DEF EraseRecord, InsertRecord, disk, local, Goto, End
<1>2. /\ Range' = Range /\ Bounded' /\ Scanned' /\ Built' /\ rangeAllApplied
      /\ todo \subseteq Range
  BY <1>1, FoldersFrame DEF CourseInv, Course, Answer, SquashInv, Phases
<1>3. CASE EraseRecord
  <2>1. /\ pc' = "ledger" /\ Least(todo) \in todo
        /\ records' = records \ {Least(todo)} /\ todo' = todo \ {Least(todo)}
    BY <1>3, TodoIsNatural DEF EraseRecord, SquashInv
  <2>2. records = base.records \ (Range \ todo) =>
          records' = base.records \ (Range \ todo')
    BY <1>2, <2>1
  <2> QED BY <1>1, <1>2, <2>1, <2>2
          DEF CourseInv, Course, Answer, Undisturbed, Looked, Succeeded
<1>4. CASE InsertRecord
  <2>1. /\ pc' = "idle" /\ exit' = "squashed" /\ todo = {}
        /\ records' = records \cup {job.start}
    BY <1>4 DEF InsertRecord, Goto, End
  <2>2. Written' /\ Gone'
    BY <1>1, FoldersFrame DEF SquashInv, Phases, Written
  <2>3. records = base.records \ (Range \ todo) =>
          records' = (base.records \ Range) \cup {job.start}
    BY <2>1
  <2> QED BY <1>1, <1>2, <2>1, <2>2, <2>3
          DEF CourseInv, Course, Answer, Undisturbed, Looked, Succeeded, Gone
<1> QED BY <1>3, <1>4

LEMMA CourseMigrate ==
  ASSUME SquashInv, CourseInv, Migrate
  PROVE  CourseInv'
<1>1. /\ UNCHANGED <<stage, up, pc, job, rangeAllApplied, squashed, exit, base>>
      /\ disturbed' = (disturbed \/ pc # "check" \/ job.skipDb)
  BY DEF Migrate, disk, local
<1>2. Course' /\ Answer'
  BY <1>1, FoldersFrame DEF CourseInv, Course, Answer, Looked, Succeeded, Gone
<1>3. disturbed' \/ Undisturbed'
  BY <1>1 DEF Undisturbed, Looked, Succeeded
<1> QED BY <1>2, <1>3 DEF CourseInv

LEMMA CourseStep ==
  ASSUME SquashInv, CourseInv, [Next]_vars
  PROVE  CourseInv'
<1>1. ASSUME NEW start \in Name, NEW end \in Name,
             NEW force \in BOOLEAN, NEW skipDb \in BOOLEAN,
             Start(start, end, force, skipDb)
      PROVE  CourseInv'
  BY <1>1, CourseStart
<1>2. CASE CheckDatabase \/ Scan \/ Build
  BY <1>2, CourseCheck, CourseScan, CourseBuild
<1>3. CASE DeleteFolder \/ MakeFolder \/ WriteUp \/ WriteDown
  BY <1>3, CourseRewrite
<1>4. CASE EraseRecord \/ InsertRecord
  BY <1>4, CourseLedger
<1>5. CASE Stop
  <2>1. pc' = "idle" /\ exit' = "stopped"
    BY <1>5 DEF Stop, End, Goto
  <2> QED BY <2>1 DEF CourseInv, Course, Answer, Undisturbed, Looked, Succeeded
<1>6. CASE Migrate
  BY <1>6, CourseMigrate
<1>7. CASE UNCHANGED vars
  <2>1. UNCHANGED <<stage, up, records, objects, pc, job, rangeAllApplied, squashed,
                    todo, exit, base, disturbed>>
    BY <1>7 DEF vars, disk, db, local
  <2> QED BY <2>1, FoldersFrame
          DEF CourseInv, Course, Answer, Undisturbed, Looked, Succeeded, Gone
<1> QED BY <1>1, <1>2, <1>3, <1>4, <1>5, <1>6, <1>7 DEF Next

LEMMA CourseHolds == Spec => [](SquashInv /\ CourseInv)
<1>1. Init => SquashInv /\ CourseInv
  BY SquashInit, CourseInit
<1>2. (SquashInv /\ CourseInv) /\ [Next]_vars => (SquashInv /\ CourseInv)'
  BY SquashStep, CourseStep
<1> QED BY <1>1, <1>2, PTL DEF Spec

LEMMA SuccessIsDone ==
  ASSUME SquashInv, CourseInv, Succeeded
  PROVE  /\ Shape /\ Done
         /\ Checked => LedgerDone
         /\ Checked /\ ~job.skipDb =>
              IF rangeAllApplied THEN Range \subseteq base.records
              ELSE Range \cap base.records = {}
<1>1. Shape /\ Done
  BY DEF SquashInv, CourseInv, Course, Done, Succeeded
<1>2. IF rangeAllApplied THEN ~job.skipDb /\ Range \subseteq base.records
      ELSE job.skipDb \/ Range \cap base.records = {}
  BY DEF CourseInv, Answer, Looked
<1>3. Checked => LedgerDone
  <2>1. SUFFICES ASSUME Checked
                 PROVE  LedgerDone
    OBVIOUS
  <2>2. Undisturbed /\ Looked
    BY <2>1 DEF CourseInv, Checked, Looked
  <2>3. job.skipDb => Range \subseteq base.records \/ Range \cap base.records = {}
    BY <2>1 DEF Checked
  <2> QED BY <1>2, <2>2, <2>3 DEF Undisturbed, LedgerDone
<1> QED BY <1>1, <1>2, <1>3

(* For every history, however many migrations: a squash that reports        *)
(* success leaves folders that describe the same schema, and without        *)
(* --force the same database (squash.ts:154-205).                           *)
THEOREM SquashPreservesSchema == Spec => []SchemaPreserved
<1>1. SquashInv /\ CourseInv => SchemaPreserved
  BY SuccessIsDone, DonePreserves DEF SchemaPreserved
<1> QED BY <1>1, CourseHolds, PTL

(* The ledger of the database still tells what is in it, and names nothing  *)
(* that is gone (squash.ts:93-125, 207-217).                                *)
THEOREM LedgerFollows == Spec => []RecordsTellDatabase
<1>1. ASSUME SquashInv, CourseInv
      PROVE  RecordsTellDatabase
  <2>1. SUFFICES ASSUME Succeeded, Checked, Orderly
                 PROVE  LET ignored == IF job.force THEN Custom ELSE {} IN
                        /\ Recorded(stage, up, records) \ ignored = objects \ ignored
                        /\ ~job.skipDb /\ base.records \subseteq Folders(base.stage) =>
                             records \subseteq Folders(stage)
    BY DEF RecordsTellDatabase
  <2>2. Shape /\ Done /\ LedgerDone
    BY <1>1, <2>1, SuccessIsDone
  <2>3. ASSUME ~job.skipDb, base.records \subseteq Folders(base.stage)
        PROVE  records \subseteq Folders(stage)
    <3>1. \A n \in Folders(base.stage) \ Range : n \in Folders(stage)
      BY <2>2 DEF Done, Bounded, Folders
    <3>2. job.start \in Folders(stage)
      <4>1. job.start \in Name
        BY <2>2 DEF Shape, Job
      <4> QED BY <2>2, <4>1 DEF Done, Written, Folders
    <3>3. \A n \in records : n = job.start \/ n \in base.records \ Range
      BY <1>1, <2>1, <2>2, <2>3, SuccessIsDone DEF LedgerDone
    <3> QED BY <2>3, <3>1, <3>2, <3>3
  <2> QED BY <2>1, <2>2, <2>3, DoneRecorded
<1> QED BY <1>1, CourseHolds, PTL

(* What could be deployed before still can be, where a query may hold more  *)
(* than one statement; for pglite it is not so (squash.ts:177-205).         *)
THEOREM StaysDeployable == ASSUME ~OneByOne PROVE Spec => []StillDeployable
<1>1. ASSUME SquashInv, CourseInv
      PROVE  StillDeployable
  BY <1>1, SuccessIsDone, DoneDeployable DEF StillDeployable
<1> QED BY <1>1, CourseHolds, PTL
=============================================================================
