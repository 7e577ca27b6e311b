------------------------------ MODULE SqlSplit ------------------------------
(***************************************************************************)
(* cli/sql-split.ts: a script is cut into statements at the semicolons that *)
(* are not inside of a string, a quoted identifier, a dollar-quoted body or *)
(* a comment.  Next to it, as a reference, what PostgreSQL's lexer takes a  *)
(* script to be: the state after each character.                            *)
(*                                                                          *)
(* A script is a sequence of characters, ASCII ones: what PostgreSQL allows *)
(* in a name beyond them is left out.  E stands for both cases, a blank for *)
(* a tab and a line break for both its kinds.                               *)
(***************************************************************************)
EXTENDS Naturals, Sequences, FiniteSets

CONSTANTS
  Letter,  \* [A-Za-z_], what a name or a tag may begin with
  Digit    \* [0-9], what it may go on with, besides

Blank == {" ", "\n"}
DoubleQuote == "\""
Semicolon == ";"

ASSUME AlphabetAssumption ==
  /\ "E" \in Letter \ Digit
  /\ (Letter \cup Digit) \cap
       (Blank \cup {"'", DoubleQuote, "-", "/", "*", "$", Semicolon, "\\"}) = {}

At(s, i) == IF i \in DOMAIN s THEN s[i] ELSE "none"

Least(S, default) ==
  IF S = {} THEN default ELSE CHOOSE x \in S : \A y \in S : x <= y

(* The place after the first `part' that begins at i or later, or after the *)
(* whole script.                                                            *)
After(s, part, i) ==
  Least({j + Len(part) : j \in {j \in i..Len(s) + 1 - Len(part) :
                                  SubSeq(s, j, j + Len(part) - 1) = part}},
        Len(s) + 1)

Trim(s) ==
  LET dark == {i \in DOMAIN s : s[i] \notin Blank}
  IN  IF dark = {} THEN <<>>
      ELSE SubSeq(s, Least(dark, 0),
                  CHOOSE i \in dark : \A j \in dark : j <= i)

-----------------------------------------------------------------------------
(* The splitter.  Each operator gives the place after what begins at i.     *)

FlatCommentEnd(s, i) == \* comments that do not nest
  After(s, <<"*", "/">>, i + 2)

(* The loop over a comment: after one round, and in the end. *)
CommentLoop(s, x) ==
  IF At(s, x.j) = "/" /\ At(s, x.j + 1) = "*"
    THEN [j |-> x.j + 2, depth |-> x.depth + 1]
  ELSE IF At(s, x.j) = "*" /\ At(s, x.j + 1) = "/"
    THEN [j |-> x.j + 2, depth |-> x.depth - 1]
  ELSE [x EXCEPT !.j = @ + 1]

CommentEnds(s) ==
  LET end[x \in [j : Nat, depth : Nat]] ==
        IF x.j > Len(s) \/ x.depth = 0 THEN x.j ELSE end[CommentLoop(s, x)]
  IN  end

CommentEnd(s, i) == CommentEnds(s)[[j |-> i + 2, depth |-> 1]]

IsEscapeString(s, i) ==
  At(s, i - 1) = "E" /\ At(s, i - 2) \notin Letter \cup Digit \cup {"$"}

QuoteEnds(s, i) ==
  LET end[j \in Nat] ==
        IF j > Len(s) THEN j
        ELSE IF s[j] = "\\" /\ s[i] = "'" /\ IsEscapeString(s, i) THEN end[j + 2]
        ELSE IF s[j] # s[i] THEN end[j + 1]
        ELSE IF At(s, j + 1) = s[i] THEN end[j + 2]
        ELSE j + 1
  IN  end

QuoteEnd(s, i) == QuoteEnds(s, i)[i + 1]

(* The tag that begins at i, dollars included; empty if none does. *)
Tag(s, i) ==
  LET close == {j \in i + 1..Len(s) :
                  /\ s[j] = "$" /\ s[i + 1] \notin Digit
                  /\ \A k \in i + 1..j - 1 : s[k] \in Letter \cup Digit}
  IN  IF At(s, i) # "$" \/ close = {} THEN <<>>
      ELSE SubSeq(s, i, Least(close, 0))

IsComment(s, i) ==
  \/ s[i] = "-" /\ At(s, i + 1) = "-"
  \/ s[i] = "/" /\ At(s, i + 1) = "*"

PartEnd(s, i) ==
  CASE s[i] = "-" /\ IsComment(s, i) -> After(s, <<"\n">>, i)
    [] s[i] = "/" /\ IsComment(s, i) -> CommentEnd(s, i)
    [] s[i] \in {"'", DoubleQuote} -> QuoteEnd(s, i)
    [] s[i] = "$" /\ Tag(s, i) # <<>> ->
         After(s, Tag(s, i), i + Len(Tag(s, i)))
    [] OTHER -> i + 1

(* pushStatement: what is only white space or comments is no statement. *)
PushStatement(s, start, end, hasContent) ==
  IF hasContent THEN <<Trim(SubSeq(s, start, end))>> ELSE <<>>

(* The loop over a script.  The buffer is always the script from `start',   *)
(* the place after the last semicolon, on.                                  *)
Loop == [i : Nat \ {0}, start : Nat \ {0}, hasContent : BOOLEAN]

SplitLoop(s, x) ==
  IF s[x.i] = Semicolon
  THEN [i |-> x.i + 1, start |-> x.i + 1, hasContent |-> FALSE]
  ELSE [x EXCEPT !.i = PartEnd(s, x.i),
                 !.hasContent = IF s[x.i] \in Blank \/ IsComment(s, x.i)
                                THEN @ ELSE TRUE]

Splitting(s) ==
  LET split[x \in Loop] ==
        IF x.i > Len(s) THEN PushStatement(s, x.start, Len(s), x.hasContent)
        ELSE IF s[x.i] = Semicolon
             THEN PushStatement(s, x.start, x.i - 1, x.hasContent)
                    \o split[SplitLoop(s, x)]
        ELSE split[SplitLoop(s, x)]
  IN  split

Statements(s) == Splitting(s)[[i |-> 1, start |-> 1, hasContent |-> FALSE]]

(* parseMetaScript: the lines of a script that is made of nothing but       *)
(* backslash commands.                                                      *)
MetaLines(s) ==
  LET breaks == {i \in DOMAIN s : s[i] = "\n"}
      lines[i \in Nat] ==
        IF i > Len(s) THEN <<>>
        ELSE LET stop == Least({b \in breaks : b >= i}, Len(s) + 1)
                 line == Trim(SubSeq(s, i, stop - 1))
             IN  (IF line = <<>> THEN <<>> ELSE <<line>>) \o lines[stop + 1]
  IN  lines[1]

IsMetaScript(s) ==
  /\ Trim(s) # <<>>
  /\ \A i \in DOMAIN MetaLines(s) : Head(MetaLines(s)[i]) = "\\"

SplitSqlScript(s) ==
  IF IsMetaScript(s) THEN [type |-> "meta", parts |-> MetaLines(s)]
  ELSE [type |-> "sql", parts |-> Statements(s)]

-----------------------------------------------------------------------------
(* PostgreSQL's lexer.  `in' is what the characters so far have led into,   *)
(* `since' where it began, `skip' a character that is already accounted     *)
(* for, `closed' the last end of a string with escapes.                     *)

Outside(lex, i) == [lex EXCEPT !.in = "code", !.since = i]

(* A string with escapes goes on after white space with a line break. *)
Continues(s, lex, i) ==
  /\ lex.closed > 0
  /\ \A k \in lex.closed + 1..i - 1 : s[k] \in Blank
  /\ \E k \in lex.closed + 1..i - 1 : s[k] = "\n"

(* The state after character i in code or in a name. *)
InCode(s, lex, i) ==
  LET Into(what) == [lex EXCEPT !.in = what, !.since = i]
  IN  IF lex.in = "name" /\ s[i] \in Letter \cup Digit \cup {"$"} THEN lex
      ELSE IF s[i] \in Letter THEN Into("name")
      ELSE IF IsComment(s, i)
           THEN [Into(IF s[i] = "-" THEN "line" ELSE "block")
                   EXCEPT !.skip = i + 1, !.depth = 1]
      ELSE IF s[i] = "'"
           THEN Into(IF \/ lex.in = "name" /\ lex.since = i - 1 /\ s[i - 1] = "E"
                        \/ Continues(s, lex, i)
                     THEN "escape" ELSE "string")
      ELSE IF s[i] = DoubleQuote THEN Into("quoted")
      ELSE IF Tag(s, i) # <<>>
           THEN [Into("dollar") EXCEPT !.skip = i + Len(Tag(s, i)) - 1]
      ELSE Outside(lex, i)

InQuotes(s, lex, i, quote) ==
  IF lex.in = "escape" /\ s[i] = "\\" THEN [lex EXCEPT !.skip = i + 1]
  ELSE IF s[i] # quote THEN lex
  ELSE IF At(s, i + 1) = quote THEN [lex EXCEPT !.skip = i + 1]
  ELSE [Outside(lex, i) EXCEPT !.closed = IF lex.in = "escape" THEN i ELSE @]

InBlock(s, lex, i) ==
  IF s[i] = "/" /\ At(s, i + 1) = "*"
  THEN [lex EXCEPT !.depth = @ + 1, !.skip = i + 1]
  ELSE IF s[i] = "*" /\ At(s, i + 1) = "/"
  THEN [lex EXCEPT !.depth = @ - 1, !.skip = i + 1]
  ELSE lex

InDollar(s, lex, i) ==
  LET tag == Tag(s, lex.since)
      start == i - Len(tag) + 1
  IN  IF start >= lex.since + Len(tag) /\ SubSeq(s, start, i) = tag
      THEN Outside(lex, i) ELSE lex

(* The state after character i, from the state before it. *)
LexStep(s, before, i) ==
  IF i <= before.skip THEN before
  ELSE CASE \/ before.in \in {"code", "name"}
            \/ before.in = "block" /\ before.depth = 0 -> InCode(s, before, i)
         [] before.in \in {"string", "escape"} -> InQuotes(s, before, i, "'")
         [] before.in = "quoted" -> InQuotes(s, before, i, DoubleQuote)
         [] before.in = "block" /\ before.depth > 0 -> InBlock(s, before, i)
         [] before.in = "dollar" -> InDollar(s, before, i)
         [] before.in = "line" ->
              IF s[i] = "\n" THEN Outside(before, i) ELSE before

(* The state after each character; 0 is the beginning. *)
Lex(s) ==
  LET lex[i \in 0..Len(s)] ==
        IF i = 0
        THEN [in |-> "code", since |-> 0, depth |-> 0, skip |-> 0, closed |-> 0]
        ELSE LexStep(s, lex[i - 1], i)
  IN  lex

(* A semicolon that ends a statement. *)
Ends(s, lex, i) == s[i] = Semicolon /\ lex[i].in = "code" /\ lex[i].since = i

(* The first of them from i on; after the script if there is none. *)
Stop(s, lex, i) == Least({j \in i..Len(s) : Ends(s, lex, j)}, Len(s) + 1)

HasText(s, lex, i, stop) ==
  \E j \in i..stop - 1 : s[j] \notin Blank /\ lex[j].in \notin {"line", "block"}

(* The statements between the semicolons that PostgreSQL sees, from a place *)
(* after one of them.                                                       *)
PgSplitting(s) ==
  LET lex == Lex(s)
      from[i \in Nat \ {0}] ==
        IF i > Len(s) THEN <<>>
        ELSE LET stop == Stop(s, lex, i)
             IN  (IF HasText(s, lex, i, stop)
                  THEN <<Trim(SubSeq(s, i, stop - 1))>> ELSE <<>>)
                 \o from[stop + 1]
  IN  from

PgStatements(s) == PgSplitting(s)[1]

(* What the splitter does not know of that lexer: a dollar inside of a name *)
(* begins no tag, a string with escapes may go on in the next line, and an  *)
(* E right after a dollar may begin one.                                    *)
Unusual(s) ==
  LET lex == Lex(s)
  IN  \E i \in DOMAIN s :
        LET before == lex[i - 1]
        IN  \/ s[i] = "$" /\ before.in = "name" /\ Tag(s, i) # <<>>
            \/ s[i] = "'" /\ lex[i].in = "escape" /\ lex[i].since = i
                 /\ ~IsEscapeString(s, i)
=============================================================================
