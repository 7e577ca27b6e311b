------------------------------ MODULE Console ------------------------------
(***************************************************************************)
(* The two commands that run SQL somebody wrote (cli/index.ts): `repl' and  *)
(* `exec'.  A process runs one of them.                                     *)
(***************************************************************************)
EXTENDS Repl, Exec

VARIABLE command

consoleVars == <<command, replVars, execVars>>

Init ==
  /\ command \in {"repl", "exec"}
  /\ ReplInit
  /\ ExecInit
  /\ command = "repl" => script = <<>>

Next ==
  /\ UNCHANGED command
  /\ \/ command = "repl" /\ ReplNext /\ UNCHANGED execVars
     \/ command = "exec" /\ ExecNext /\ UNCHANGED replVars

Spec == Init /\ [][Next]_consoleVars
=============================================================================
