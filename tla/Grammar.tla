------------------------------ MODULE Grammar ------------------------------
(***************************************************************************)
(* How PostgreSQL reads an expression (external): the precedence of its    *)
(* operators, calls with what may follow them, CASE, IN and IS NULL.       *)
(* A text is a sequence of tokens; what is read is a tree.                 *)
(***************************************************************************)
EXTENDS Naturals, Sequences, SequencesExt

Tree(op, of) == [op |-> op, of |-> of]
Atom(token) == Tree(token, <<>>)

Unread == [ok |-> FALSE, tree |-> Atom(""), at |-> 0]
Read(tree, at) == [ok |-> TRUE, tree |-> tree, at |-> at]

Comparisons == {"<", ">", "=", "<=", ">=", "!="}
Matching == {"LIKE", "ILIKE", "IN"}
Others == {"||", "->", "->>", "#>", "#>>", "#-", "@>", "<@", "&&", "?", "?|", "?&", "@@",
           "<->", "<#>", "<=>", "<+>", "<~>", "<%>"}

\* From the loosest to the tightest.
Precedence(token) ==
  CASE token = "OR" -> 1
    [] token = "AND" -> 2
    [] token = "IS" -> 4
    [] token \in Comparisons -> 5
    [] token \in Matching \cup {"NOT"} -> 6     \* NOT LIKE, NOT IN
    [] token \in Others -> 7
    [] token \in {"+", "-"} -> 8
    [] token \in {"*", "/", "%"} -> 9
    [] token = "^" -> 10
    [] token = "::" -> 15
    [] OTHER -> 0
AfterNot == 3
AfterMinus == 13
Highest == 15

\* Tokens that no operand is.
Reserved == {")", ",", "]", "", "AND", "OR", "THEN", "WHEN", "ELSE", "END", "ASC", "DESC", "WHERE",
             "ORDER BY", "PARTITION BY", "FILTER", "OVER", "IS", "LIKE", "ILIKE", "IN",
             "::", "*", "/", "%", "+", "^"} \cup Comparisons \cup Others
At(s, i) == IF i \in DOMAIN s THEN s[i] ELSE ""

RECURSIVE Expression(_, _, _), Following(_, _, _, _), Listed(_, _), Sorted(_, _), Branches(_, _)

\* e, e, ...
Listed(s, i) ==
  LET first == Expression(s, i, 1)
  IN  IF ~first.ok THEN Unread
      ELSE IF At(s, first.at) # "," THEN Read(Tree("list", <<first.tree>>), first.at)
      ELSE LET rest == Listed(s, first.at + 1)
           IN  IF rest.ok THEN Read(Tree("list", <<first.tree>> \o rest.tree.of), rest.at) ELSE Unread

\* e ASC, e DESC, ...
Sorted(s, i) ==
  LET e == Expression(s, i, 1)
      way == At(s, e.at)
      item == Tree(way, <<e.tree>>)
  IN  IF ~e.ok \/ way \notin {"ASC", "DESC"} THEN Unread
      ELSE IF At(s, e.at + 1) # "," THEN Read(Tree("ORDER BY", <<item>>), e.at + 1)
      ELSE LET rest == Sorted(s, e.at + 2)
           IN  IF rest.ok THEN Read(Tree("ORDER BY", <<item>> \o rest.tree.of), rest.at) ELSE Unread

Optional(s, i, token, R(_)) == IF At(s, i) = token THEN R(i + 1) ELSE Read(Tree("", <<>>), i)
Given(r) == IF r.tree.op = "" THEN <<>> ELSE <<r.tree>>

\* The frame of a window is kept as it is written.
Frame(s, i) ==
  LET words == SelectSeq([k \in 1 .. Len(s) |-> k], LAMBDA k : k >= i /\ \A j \in i .. k : s[j] # ")")
  IN  IF At(s, i) \notin {"ROWS", "RANGE", "GROUPS"} THEN Read(Tree("", <<>>), i)
      ELSE Read(Tree("frame", [k \in DOMAIN words |-> Atom(s[words[k]])]), i + Len(words))

Over(s, i) ==
  LET part == Optional(s, i, "PARTITION BY", LAMBDA j : Listed(s, j))
      order == IF part.ok THEN Optional(s, part.at, "ORDER BY", LAMBDA j : Sorted(s, j)) ELSE Unread
      frame == IF order.ok THEN Frame(s, order.at) ELSE Unread
  IN  IF ~frame.ok \/ At(s, frame.at) # ")" THEN Unread
      ELSE Read(Tree("OVER", (IF part.tree.op = "" THEN <<>> ELSE <<Tree("PARTITION BY", part.tree.of)>>)
                               \o Given(order) \o Given(frame)), frame.at + 1)

\* name ( [DISTINCT] arguments [ORDER BY ...] ) [FILTER (WHERE ...)] [OVER (...)]
Call(s, i) ==
  LET distinct == At(s, i + 2) = "DISTINCT"
      from == IF distinct THEN i + 3 ELSE i + 2
      args == IF At(s, from) = ")" THEN Read(Tree("list", <<>>), from)
              ELSE IF At(s, from) = "*" THEN Read(Tree("list", <<Atom("*")>>), from + 1)
              ELSE Listed(s, from)
      order == IF args.ok THEN Optional(s, args.at, "ORDER BY", LAMBDA j : Sorted(s, j)) ELSE Unread
      filter == IF ~order.ok \/ At(s, order.at) # ")" THEN Unread
                ELSE IF At(s, order.at + 1) # "FILTER" THEN Read(Tree("", <<>>), order.at + 1)
                ELSE LET c == Expression(s, order.at + 4, 1)
                     IN  IF SubSeq(s, order.at + 2, order.at + 3) = <<"(", "WHERE">> /\ c.ok
                              /\ At(s, c.at) = ")"
                         THEN Read(Tree("FILTER", <<c.tree>>), c.at + 1) ELSE Unread
      over == IF ~filter.ok THEN Unread
              ELSE IF At(s, filter.at) # "OVER" THEN Read(Tree("", <<>>), filter.at)
              ELSE IF At(s, filter.at + 1) = "(" THEN Over(s, filter.at + 2) ELSE Unread
      of == (IF distinct THEN <<Tree("DISTINCT", args.tree.of)>> ELSE args.tree.of)
              \o Given(order) \o Given(filter) \o Given(over)
  IN  IF over.ok THEN Read(Tree(s[i], of), over.at) ELSE Unread

\* WHEN c THEN e ... [ELSE e] END
Branches(s, i) ==
  CASE At(s, i) = "WHEN" ->
         LET c == Expression(s, i + 1, 1)
             e == IF c.ok /\ At(s, c.at) = "THEN" THEN Expression(s, c.at + 1, 1) ELSE Unread
             rest == IF e.ok THEN Branches(s, e.at) ELSE Unread
         IN  IF rest.ok THEN Read(Tree("CASE", <<Tree("WHEN", <<c.tree, e.tree>>)>> \o rest.tree.of), rest.at)
             ELSE Unread
    [] At(s, i) = "ELSE" ->
         LET e == Expression(s, i + 1, 1)
         IN  IF e.ok /\ At(s, e.at) = "END" THEN Read(Tree("CASE", <<Tree("ELSE", <<e.tree>>)>>), e.at + 1)
             ELSE Unread
    [] At(s, i) = "END" -> Read(Tree("CASE", <<>>), i + 1)
    [] OTHER -> Unread

Parenthesised(s, i) ==
  LET r == Listed(s, i)
  IN  IF ~r.ok \/ At(s, r.at) # ")" THEN Unread
      ELSE Read(IF Len(r.tree.of) = 1 THEN r.tree.of[1] ELSE Tree("row", r.tree.of), r.at + 1)

Prefixed(s, i, op, p) ==
  LET r == Expression(s, i + 1, p) IN IF r.ok THEN Read(Tree(op, <<r.tree>>), r.at) ELSE Unread

Primary(s, i) ==
  CASE At(s, i) = "NOT" -> Prefixed(s, i, "NOT", AfterNot)
    [] At(s, i) = "-" -> Prefixed(s, i, "-", AfterMinus)
    [] At(s, i) = "(" -> Parenthesised(s, i + 1)
    [] At(s, i) = "CASE" -> IF At(s, i + 1) = "WHEN" THEN Branches(s, i + 1) ELSE Unread
    [] At(s, i) = "ARRAY" /\ At(s, i + 1) = "[" ->
         IF At(s, i + 2) = "]" THEN Read(Tree("ARRAY", <<>>), i + 3)
         ELSE LET r == Listed(s, i + 2)
              IN  IF r.ok /\ At(s, r.at) = "]" THEN Read(Tree("ARRAY", r.tree.of), r.at + 1) ELSE Unread
    [] At(s, i) \in Reserved -> Unread
    [] At(s, i + 1) = "(" -> Call(s, i)
    [] OTHER -> Read(Atom(s[i]), i + 1)

\* What follows an operand, by operators that bind tighter than min and no tighter than max.
Following(s, left, min, max) ==
  LET token == At(s, left.at)
      p == Precedence(token)
      i == left.at
      On(tree, at, most) == Following(s, Read(tree, at), min, most)
      Binary(op, from) ==
        LET r == Expression(s, from, p + 1)
        IN  IF r.ok THEN On(Tree(op, <<left.tree, r.tree>>), r.at, IF p \in {5, 6} THEN p - 1 ELSE p)
            ELSE Unread
  IN  IF ~left.ok \/ p < min \/ p > max \/ p = 0 THEN left
      ELSE CASE token = "::" -> On(Tree("::", <<left.tree, Atom(At(s, i + 1))>>), i + 2, p)
             [] token = "IS" -> CASE At(s, i + 1) = "NULL" -> On(Tree("IS NULL", <<left.tree>>), i + 2, Highest)
                                  [] SubSeq(s, i + 1, i + 2) = <<"NOT", "NULL">> ->
                                       On(Tree("IS NOT NULL", <<left.tree>>), i + 3, Highest)
                                  [] OTHER -> Unread
             [] token = "NOT" -> LET r == Following(s, [left EXCEPT !.at = i + 1], p, p)
                                 IN  IF At(s, i + 1) \in Matching /\ r.ok
                                     THEN On(Tree("NOT", <<r.tree>>), r.at, p - 1) ELSE Unread
             [] token = "IN" -> LET r == IF At(s, i + 1) = "(" THEN Listed(s, i + 2) ELSE Unread
                                IN  IF r.ok /\ At(s, r.at) = ")"
                                    THEN On(Tree("IN", <<left.tree>> \o r.tree.of), r.at + 1, p - 1)
                                    ELSE Unread
             [] OTHER -> Binary(token, i + 1)

Expression(s, i, min) == Following(s, Primary(s, i), min, Highest)

\* The whole of a text.
Parsed(s) == LET r == Expression(s, 1, 1) IN IF r.ok /\ r.at = Len(s) + 1 THEN r.tree ELSE Atom("syntax error")
==============================================================================
