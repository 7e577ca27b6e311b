------------------------- MODULE PreparedStatements -------------------------
(***************************************************************************)
(* prepare() and run() (query-builders/prepare.ts, query.ts): one Query is *)
(* handed down through a statement; it numbers the $N placeholders and     *)
(* remembers what each of them is bound to.  Prepared statements share     *)
(* state: an Arg is an object that prepare() names, and one object may be  *)
(* given to several of them.                                               *)
(*                                                                         *)
(* A statement is known here by its leaves, in the order its builder comes *)
(* to them, whatever it is: the builders are in Queries.                   *)
(***************************************************************************)
EXTENDS Naturals, Sequences, SequencesExt

CONSTANTS
  Args,          \* Arg objects
  Names,         \* keys of the objects of Args given to prepare(), as a sequence
  Values,        \* what a run gives for a key
  Preparable,    \* statements for prepare(), with their leaves
  Given,         \* objects of Args: functions from sets of keys to Args
  MaxPrepared, MaxRuns

VARIABLES
  key,        \* Arg -> the name prepare() gave it last
  prepared,   \* PrepareStatements, in the order they were made
  runs,       \* number of run() calls
  clock,      \* calls of insertFn and updateFn
  sent        \* the last run: its statement, what it was given and its arguments

statementVars == <<key, prepared, runs, clock, sent>>

(***************************************************************************)
(* A leaf is a column [k: "col", name], what the statement wrote as args.x *)
(* [k: "arg", name: x], a literal, or a cell that was not given [k:        *)
(* "none", name, generated].  No key is empty: "" stands for no key.       *)
(***************************************************************************)
ASSUME NamesAssumption == Names \in Seq(ToSet(Names)) /\ "" \notin ToSet(Names)

ASSUME GivenAssumption == \A args \in Given : args \in [DOMAIN args -> Args]
                                              /\ DOMAIN args \subseteq ToSet(Names)

\* A statement uses the keys of the object it is called with, and no others.
ASSUME PreparableAssumption ==
  \A s \in Preparable :
    LET leaves == s.leaves
    IN  /\ leaves \in Seq(ToSet(leaves))
        /\ \A i \in DOMAIN leaves, args \in Given :
             leaves[i].k = "arg" => leaves[i].name \in DOMAIN args

------------------------------------------------------------------------------
(***************************************************************************)
(* The Query: args, the Arg object each key names, and keys, the names     *)
(* prepare() gave the objects; indices, the number of each object used (0: *)
(* none); slots, what placeholder n is bound to: a key, a column to        *)
(* generate, or (at # 0) a value taken while rendering; text, its words.   *)
(* A word says (kind, name) what the statement wrote there: no part of the *)
(* program.                                                                *)
(***************************************************************************)
NewQuery(args, keys, isPrepared) ==
  [args |-> args, keys |-> keys, isPrepared |-> isPrepared,
   indices |-> [a \in Args |-> 0], slots |-> <<>>, text |-> <<>>]

AllocateSlot(q, slot) == [q EXCEPT !.slots = Append(@, slot)]
Put(q, word) == [q EXCEPT !.text = Append(@, word)]
Word(t) == [t |-> t, n |-> 0, kind |-> "", name |-> ""]
Placeholder(n, kind, name) == [t |-> "$", n |-> n, kind |-> kind, name |-> name]

\* One number for an Arg, however often it is used.
AddArgAnew(q, name) ==
  LET a == q.args[name]
      n == Len(q.slots) + 1
  IN  Put(AllocateSlot([q EXCEPT !.indices[a] = n], [key |-> q.keys[a], column |-> "", at |-> 0]),
          Placeholder(n, "arg", name))
AddArg(q, name) ==
  LET n == q.indices[q.args[name]]
  IN  IF n # 0 THEN Put(q, Placeholder(n, "arg", name)) ELSE AddArgAnew(q, name)

\* A value of the time of rendering; one that every run calls for.
PushArg(q, column) ==
  Put(AllocateSlot(q, [key |-> "", column |-> column, at |-> 1]),
      Placeholder(Len(q.slots) + 1, "generated", column))
AddDeferredArg(q, column) ==
  Put(AllocateSlot(q, [key |-> "", column |-> column, at |-> 0]),
      Placeholder(Len(q.slots) + 1, "generated", column))

\* A cell left out: DEFAULT, or the column's insertFn.
Omitted(q, leaf) ==
  IF ~leaf.generated THEN Put(q, Word("DEFAULT"))
  ELSE IF q.isPrepared THEN AddDeferredArg(q, leaf.name) ELSE Put(q, Word("literal"))

Write(q, leaf) ==
  CASE leaf.k = "arg" -> AddArg(q, leaf.name)
    [] leaf.k = "none" -> Omitted(q, leaf)
    [] leaf.k = "col" -> Put(q, Word(leaf.name))
    [] OTHER -> Put(q, Word("literal"))

ToQuery(s, args, keys, isPrepared) ==
  LET query[n \in 0 .. Len(s.leaves)] ==
        IF n = 0 THEN NewQuery(args, keys, isPrepared) ELSE Write(query[n - 1], s.leaves[n])
  IN  query[Len(s.leaves)]

------------------------------------------------------------------------------
Nothing == [kind |-> "nothing"]

PreparedInit ==
  /\ key = [a \in Args |-> ""]
  /\ prepared = <<>>
  /\ runs = 0
  /\ clock = 1
  /\ sent = Nothing

\* The keys are assigned in turn: the last one that holds an Arg names it.
Holding(args, a) == {i \in DOMAIN Names : Names[i] \in DOMAIN args /\ args[Names[i]] = a}
LastName(args, a) == Names[CHOOSE i \in Holding(args, a) : \A j \in Holding(args, a) : j <= i]
Renamed(args) == [a \in Args |-> IF Holding(args, a) # {} THEN LastName(args, a) ELSE key[a]]

Prepare(s, args) ==
  /\ Len(prepared) < MaxPrepared
  /\ key' = Renamed(args)
  /\ prepared' = Append(prepared, [statement |-> s, query |-> ToQuery(s, args, key', TRUE)])
  /\ UNCHANGED <<runs, clock, sent>>

\* The value of one slot, the i-th of a run.
Bind(slot, values, i) ==
  IF slot.key # "" THEN [column |-> "", value |-> values[slot.key], at |-> 0]
  ELSE [column |-> slot.column, value |-> 0, at |-> IF slot.at = 0 THEN clock + i ELSE slot.at]

Run(p, values) ==
  /\ runs < MaxRuns
  /\ runs' = runs + 1
  /\ LET slots == prepared[p].query.slots
     IN  /\ sent' = [kind |-> "run", statement |-> p, values |-> values, since |-> clock,
                     arguments |-> [i \in DOMAIN slots |-> Bind(slots[i], values, i)]]
         /\ clock' = clock + Len(slots)
  /\ UNCHANGED <<key, prepared>>

PreparedNext ==
  \/ \E s \in Preparable, args \in Given : Prepare(s, args)
  \/ \E p \in DOMAIN prepared :
       \E values \in [DOMAIN prepared[p].query.args -> Values] : Run(p, values)

PreparedSpec == PreparedInit /\ [][PreparedNext]_statementVars

------------------------------------------------------------------------------
(***************************************************************************)
(* Every $N of a run carries what the statement wrote at that place: the   *)
(* value given for the key, whatever the Arg has been called since, or a   *)
(* value generated for this run and this place; and nothing else is sent.  *)
(* An Arg held under two keys of one object goes by the last of them.      *)
(***************************************************************************)
WhatWasWritten(place, run, args) ==
  LET bound == run.arguments[place.n]
  IN  IF place.kind = "generated"
      THEN bound.column = place.name /\ bound.at > run.since
      ELSE (\A k \in DOMAIN args : args[k] = args[place.name] => k = place.name)
             => (bound.column = "" /\ bound.value = run.values[place.name])

EveryPlaceholderBound == sent.kind = "run" =>
  LET query == prepared[sent.statement].query
      places == {word \in ToSet(query.text) : word.n # 0}
  IN  /\ \A place \in places : WhatWasWritten(place, sent, query.args)
      /\ \A x, y \in places : (x.n = y.n /\ x # y) => x.kind = "arg" /\ y.kind = "arg"
      /\ {place.n : place \in places} = DOMAIN sent.arguments
==============================================================================
