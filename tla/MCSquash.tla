------------------------------ MODULE MCSquash ------------------------------
(* Small instances of Squash for TLC. *)
EXTENDS Squash

CONSTANTS a, b, c \* objects; c is made by ddl.custom

File(make, drop, execution) ==
  [make |-> make, drop |-> drop, execution |-> execution]

(* Four migrations: a table that is made, dropped and made again, a range   *)
(* whose statements cancel out, a custom object that is dropped later, and  *)
(* statements that run one at a time.                                       *)
Mixed ==
  {<<File({a}, {}, "joined"), File({b}, {}, e), File({}, {a}, "joined"),
     File({a}, {b}, "joined")>> : e \in Execution} \cup
  {<<File({a}, {}, "joined"), File({b, c}, {}, "joined"),
     File({}, {b}, "joined"), File({}, {c}, "joined")>>,
   <<File({a}, {}, "joined"), File({b}, {a}, "joined"),
     File({c}, {}, "joined"), File({a}, {}, "joined")>>}
=============================================================================
