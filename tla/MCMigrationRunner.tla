-------------------------- MODULE MCMigrationRunner --------------------------
(* Small instances of MigrationRunner for TLC. *)
EXTENDS MigrationRunner

(* A migration file pair whose two scripts have n statements each. *)
Both(up, down, n) == [up |-> up, down |-> down, size |-> n, undo |-> n]

(* Every execution mode, alone and mixed with another one; a migration with *)
(* two statements, one that cannot be undone and one that is empty.         *)
MixedPlans ==
  {<<Both(u, u, 1), Both(u, u, 2), Both(u, u, 1)>> : u \in Mode} \cup
  {<<Both("seqTx", "joinedTx", 2),
     [up |-> u, down |-> "seq", size |-> 1, undo |-> 0],
     Both("joined", "seqTx", 1)>> : u \in Mode} \cup
  {<<Both("joined", "joined", 1), Both(u, "seqTx", 0), Both(u, "joined", 2)>> :
      u \in Mode}

(* For overlapping runs: a second migration with two statements, in a       *)
(* transaction of its own, in one query, or statement by statement.         *)
TwoPlans ==
  {<<Both("joinedTx", "joinedTx", 1), Both("joinedTx", "seqTx", 2)>>,
   <<Both("seqTx", "seqTx", 1), Both("seq", "joined", 2)>>,
   <<Both("joined", "joined", 1), Both("seqTx", "seq", 2)>>}

(* What generate writes for every connector but pglite: the defaults of     *)
(* migrate.ts and down.ts for transaction and execution.                    *)
DefaultPlans == {[m \in Migration |-> Both("joinedTx", "joinedTx", 1)]}
=============================================================================
