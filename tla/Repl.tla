-------------------------------- MODULE Repl --------------------------------
(***************************************************************************)
(* `durcno repl' (cli/commands/repl.ts): the handlers of readline's "line", *)
(* "SIGINT" and "close" events.  A handler runs up to its `await' at once;  *)
(* the rest follows when the query is answered, and other lines may have    *)
(* been handled in between.                                                 *)
(*                                                                          *)
(* A line is its number in the input and what the handler tells apart.      *)
(***************************************************************************)
EXTENDS Naturals, Sequences

CONSTANT MaxLines \* how many lines are typed

ASSUME ReplAssumption == MaxLines \in Nat

(* Text that goes on, text that ends with a semicolon, white space, a       *)
(* backslash command, and `exit' or `quit'.                                 *)
LineKind == {"open", "end", "blank", "meta", "exit"}

(* Queries that are awaited: a buffer, a line of its own, a meta command's. *)
QueryKind == {"multi", "single", "meta"}

VARIABLES
  client,      \* "connected", "closing" while close() is awaited, "exited"
  lines,       \* lines read so far
  buffer,      \* multiLineBuffer: the lines in it
  inMultiLine,
  flying,      \* queries that are awaited, in the order they were sent
  sent,        \* statements sent, each the sequence of its lines
  draft,       \* history: the lines of the statement that is being typed
  meant,       \* history: statements typed to their end
  crossed      \* history: a statement of several lines was begun while
               \* the answer to another one was awaited

replVars ==
  <<client, lines, buffer, inMultiLine, flying, sent, draft, meant, crossed>>

ReplInit ==
  /\ client = "connected"
  /\ lines = 0
  /\ buffer = <<>> /\ inMultiLine = FALSE
  /\ flying = <<>> /\ sent = <<>>
  /\ draft = <<>> /\ meant = <<>>
  /\ crossed = FALSE

Reading == client = "connected" /\ lines < MaxLines

(* A query goes out and its handler waits for the answer. *)
Send(kind, statement) ==
  /\ flying' = Append(flying, kind)
  /\ sent' = Append(sent, statement)

(* The line handler on a line that is not the end of anything: one more     *)
(* line in the buffer.  Inside of a statement the words that are commands   *)
(* at the prompt are text.                                                  *)
ContinueLine(kind) ==
  /\ Reading
  /\ kind # "end"
  /\ inMultiLine \/ kind = "open"
  /\ lines' = lines + 1
  /\ buffer' = Append(buffer, lines')
  /\ inMultiLine' = TRUE
  /\ draft' = Append(draft, lines')
  /\ crossed' = \/ crossed
                 \/ /\ ~inMultiLine
                    /\ \E i \in 1..Len(flying) : flying[i] = "multi"
  /\ UNCHANGED <<client, flying, sent, meant>>

EndLineKeepingMode == \* inMultiLine is left as it is
  /\ Reading
  /\ inMultiLine
  /\ lines' = lines + 1
  /\ buffer' = Append(buffer, lines')
  /\ Send("multi", buffer')
  /\ draft' = <<>>
  /\ meant' = Append(meant, Append(draft, lines'))
  /\ UNCHANGED <<client, inMultiLine, crossed>>

(* The last line of several: the buffer is sent, and cleared only when the  *)
(* answer has come.                                                         *)
EndLine ==
  /\ Reading
  /\ inMultiLine
  /\ lines' = lines + 1
  /\ buffer' = Append(buffer, lines')
  /\ inMultiLine' = FALSE
  /\ Send("multi", buffer')
  /\ draft' = <<>>
  /\ meant' = Append(meant, Append(draft, lines'))
  /\ UNCHANGED <<client, crossed>>

(* A line that is a statement by itself. *)
SingleLine ==
  /\ Reading
  /\ ~inMultiLine
  /\ lines' = lines + 1
  /\ Send("single", <<lines'>>)
  /\ meant' = Append(meant, <<lines'>>)
  /\ UNCHANGED <<client, buffer, inMultiLine, draft, crossed>>

(* White space at the prompt. *)
BlankLine ==
  /\ Reading
  /\ ~inMultiLine
  /\ lines' = lines + 1
  /\ UNCHANGED <<client, buffer, inMultiLine, flying, sent, draft, meant, crossed>>

(* A backslash command at the prompt; those that list something query. *)
MetaLine ==
  /\ Reading
  /\ ~inMultiLine
  /\ lines' = lines + 1
  /\ flying' \in {flying, Append(flying, "meta")}
  /\ UNCHANGED <<client, buffer, inMultiLine, sent, draft, meant, crossed>>

AnsweredClearing(kind) == \* a buffer is cleared after every query
  /\ flying # <<>>
  /\ Head(flying) = kind
  /\ flying' = Tail(flying)
  /\ buffer' = <<>>
  /\ UNCHANGED <<client, lines, inMultiLine, sent, draft, meant, crossed>>

(* The oldest query is answered, with rows or an error, and its handler     *)
(* goes on.                                                                 *)
Answered(kind) ==
  /\ flying # <<>>
  /\ Head(flying) = kind
  /\ flying' = Tail(flying)
  /\ buffer' = IF kind = "multi" THEN <<>> ELSE buffer
  /\ UNCHANGED <<client, lines, inMultiLine, sent, draft, meant, crossed>>

(* Ctrl+C inside of a statement forgets it. *)
Cancel ==
  /\ client = "connected"
  /\ inMultiLine
  /\ buffer' = <<>>
  /\ inMultiLine' = FALSE
  /\ draft' = <<>>
  /\ UNCHANGED <<client, lines, flying, sent, meant, crossed>>

(* `exit' or Ctrl+C at the prompt: the client is closed, and only then does *)
(* the process end.  What is still awaited may be answered or rejected.     *)
Leave ==
  /\ client = "connected"
  /\ ~inMultiLine
  /\ client' = "closing"
  /\ UNCHANGED <<lines, buffer, inMultiLine, flying, sent, draft, meant, crossed>>

(* rl.close() after the client's, or the end of the input: process.exit.    *)
Exit ==
  /\ client \in {"connected", "closing"}
  /\ client' = "exited"
  /\ flying' = <<>>
  /\ UNCHANGED <<lines, buffer, inMultiLine, sent, draft, meant, crossed>>

ReplNext ==
  \/ \E kind \in LineKind : ContinueLine(kind)
  \/ EndLine \/ SingleLine \/ BlankLine \/ MetaLine
  \/ \E kind \in QueryKind : Answered(kind)
  \/ Cancel \/ Leave \/ Exit

-----------------------------------------------------------------------------
Lines == 1..MaxLines

ReplTypeOK ==
  /\ client \in {"connected", "closing", "exited"}
  /\ lines \in 0..MaxLines
  /\ buffer \in Seq(Lines) /\ draft \in Seq(Lines)
  /\ inMultiLine \in BOOLEAN /\ crossed \in BOOLEAN
  /\ flying \in Seq(QueryKind)
  /\ sent \in Seq(Seq(Lines)) /\ meant \in Seq(Seq(Lines))

(* "Queries are executed when they end with `;'" and "Press Ctrl+C during   *)
(* multi-line input to cancel the current query" (website/docs/cli.md): the *)
(* statements sent are those that were typed, line by line and in order,    *)
(* none twice and none with lines of another, also when lines arrive before *)
(* the answer to an earlier one.  The exception is the hazard of the line   *)
(* handler: it clears the buffer after the answer, so that a statement of   *)
(* several lines begun meanwhile is sent together with the earlier one, or  *)
(* without its beginning.                                                   *)
StatementsAsTyped ==
  ~crossed =>
    /\ sent = meant
    /\ inMultiLine => buffer = draft
    /\ ~inMultiLine => draft = <<>>
=============================================================================
