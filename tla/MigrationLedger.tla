--------------------------- MODULE MigrationLedger ---------------------------
(***************************************************************************)
(* What the migration commands promise of a database, whatever the scripts, *)
(* sessions and failures below: a migration comes into force and goes out   *)
(* of force as a whole, its record is written only while it is in force and *)
(* removed only once it is not, and the ledger lives and dies with          *)
(* migration 1.                                                             *)
(***************************************************************************)
EXTENDS Naturals

CONSTANT Migration

VARIABLES
  kept,    \* the migrations whose down script takes nothing back
  inForce,
  records

lvars == <<kept, inForce, records>>

Init ==
  /\ kept \subseteq Migration
  /\ inForce \subseteq kept    \* empty scripts
  /\ 1 \notin inForce
  /\ records = {}

Apply(m) ==
  /\ m \notin inForce
  /\ inForce' = inForce \cup {m}
  /\ UNCHANGED <<kept, records>>

Revert(m) ==
  /\ m \in inForce \ kept
  /\ inForce' = inForce \ {m}
  /\ records' = IF m = 1 THEN {} ELSE records
  /\ UNCHANGED kept

Record(m) ==
  /\ {1, m} \subseteq inForce
  /\ records' = records \cup {m}
  /\ UNCHANGED <<kept, inForce>>

Erase(m) ==
  /\ 1 \in inForce
  /\ m \notin inForce \ kept
  /\ records' = records \ {m}
  /\ UNCHANGED <<kept, inForce>>

Next == \E m \in Migration : Apply(m) \/ Revert(m) \/ Record(m) \/ Erase(m)

Spec == Init /\ [][Next]_lvars
=============================================================================
