-------------------------------- MODULE Exec --------------------------------
(***************************************************************************)
(* `durcno exec' (cli/commands/exec.ts): read SQL from an option, a file or *)
(* stdin, run its statements one after the other, stop at the first error.  *)
(***************************************************************************)
EXTENDS SqlSplit

CONSTANT Script \* the texts that may be given

ASSUME ScriptAssumption == \A s \in Script : s \in Seq({s[i] : i \in DOMAIN s})

VARIABLES
  script,     \* what --command, --file or stdin holds
  lexed,      \* history: what PostgreSQL's lexer makes of it
  step,       \* where the command is
  parts,      \* what splitSqlScript made of it
  at,         \* the part at hand
  done,       \* statements carried out
  session,    \* the client: "none", "open" or "closed"
  exitCode

execVars == <<script, lexed, step, parts, at, done, session, exitCode>>

(* What runMetaCommand does with a backslash command. *)
Listing == <<"\\", "d">>
Help == <<"\\", "?">>

NoParts == [type |-> "sql", parts |-> <<>>]

ExecInit ==
  /\ script \in Script
  /\ lexed = [statements |-> PgStatements(script), unusual |-> Unusual(script)]
  /\ step = "read" /\ parts = NoParts /\ at = 1 /\ done = <<>>
  /\ session = "none" /\ exitCode = 0

(* fail(): the message is printed, and the command goes on to its end. *)
Fail(next) == exitCode' = 1 /\ step' = next

(* No SQL, both options at once, or a file that cannot be read. *)
ReadFails ==
  /\ step = "read"
  /\ Fail("ended")
  /\ UNCHANGED <<script, lexed, parts, at, done, session>>

Read ==
  /\ step = "read"
  /\ Trim(script) # <<>>
  /\ step' = "connect"
  /\ UNCHANGED <<script, lexed, parts, at, done, session, exitCode>>

(* The config cannot be loaded, or nobody answers; the client is left as it *)
(* is.                                                                      *)
ConnectFails ==
  /\ step = "connect"
  /\ Fail("ended")
  /\ UNCHANGED <<script, lexed, parts, at, done, session>>

Connect ==
  /\ step = "connect"
  /\ session' = "open"
  /\ parts' = SplitSqlScript(script)
  /\ step' = "run"
  /\ UNCHANGED <<script, lexed, at, done, exitCode>>

Part == parts.parts[at]

Running == step = "run" /\ at <= Len(parts.parts)

(* A statement, or the query of a listing, that is carried out. *)
RunPart ==
  /\ Running
  /\ parts.type = "meta" => Part \in {Listing, Help}
  /\ done' = IF parts.type = "sql" THEN Append(done, Part) ELSE done
  /\ at' = at + 1
  /\ UNCHANGED <<script, lexed, step, parts, session, exitCode>>

(* One that PostgreSQL refuses, or a command nobody knows, ends the loop.   *)
PartFails ==
  /\ Running
  /\ parts.type = "meta" => Part # Help
  /\ Fail("close")
  /\ UNCHANGED <<script, lexed, parts, at, done, session>>

Finish ==
  /\ step = "run"
  /\ at > Len(parts.parts)
  /\ step' = "close"
  /\ UNCHANGED <<script, lexed, parts, at, done, session, exitCode>>

(* The `finally'; that close() fails is nobody's concern. *)
Close ==
  /\ step = "close"
  /\ session' = "closed"
  /\ step' = "ended"
  /\ UNCHANGED <<script, lexed, parts, at, done, exitCode>>

ExecNext ==
  \/ ReadFails \/ Read \/ ConnectFails \/ Connect
  \/ RunPart \/ PartFails \/ Finish \/ Close

-----------------------------------------------------------------------------
IsPrefixOf(s, t) == Len(s) <= Len(t) /\ s = SubSeq(t, 1, Len(s))

(* "Statements run sequentially and execution stops at the first error.     *)
(* The command exits 0 on success and 1 on failure" (website/docs/cli.md),  *)
(* for the statements that PostgreSQL sees in the script: those carried out *)
(* are the first ones, whole and in order; success means all of them, and   *)
(* failure that one is missing (or that there is none).  `Unusual' scripts  *)
(* are excepted: sql-split cuts them differently.  However it ends, the     *)
(* client is not left open.                                                 *)
ScriptCarriedOut ==
  /\ session = "open" => step \in {"run", "close"}
  /\ lexed.unusual \/ parts.type = "meta" \/
      /\ IsPrefixOf(done, lexed.statements)
      /\ step = "ended" /\ exitCode = 0 => done = lexed.statements
      /\ exitCode = 1 => done # lexed.statements \/ done = <<>>
=============================================================================
