---------------------------- MODULE MCTransactions ----------------------------
(* Small instances of Transactions for TLC. *)
EXTENDS Transactions

CONSTANTS t1, t2, q

(* The callback of t1 makes the call t2: nested transactions. *)
Nested == [t \in Task |-> IF t = t2 THEN t1 ELSE None]

Flat == [t \in Task |-> None]
=============================================================================
