------------------------- MODULE MCSchemaEvolution -------------------------
(* Small instances of SchemaEvolution for TLC. *)
EXTENDS SchemaEvolution

Accounts == <<"public", "accounts">>
Books    == <<"public", "books">>
Clients  == <<"public", "clients">>
Logs     == <<"audit", "logs">>
Kind     == <<"public", "kind">>
Level    == <<"audit", "level">>
Number      == <<"pg_catalog", "int">>
Big      == <<"pg_catalog", "bigint">>
Text     == <<"pg_catalog", "text">>

PublicLogs == <<"public", "logs">>
Sorted     == <<Logs, Accounts, Books, Clients, PublicLogs>>
WithKeys   == {"api_key_id"}
ShortNames == {<<"accounts", <<"a", "key">>, "a">>}

Column(type)  == [type |-> type, unique |-> FALSE, references |-> None]
Unique(type)  == [Column(type) EXCEPT !.unique = TRUE]
Ref(key)      == [Column(Number) EXCEPT !.references = <<key, "id">>]
Id            == "id" :> Column(Number)

Table(columns) ==
  [columns |-> Id @@ columns, indexes |-> Nothing, constraints |-> Nothing]
Indexed(key, c, t)     == [t EXCEPT !.indexes = <<key[2], c, "index">> :> {c}]
Constrained(key, c, t) == [t EXCEPT !.constraints = <<key[2], c, "check">> :> {c}]
Design(tables) == [tables |-> tables, enums |-> Nothing, sequences |-> {}]
WithEnum(d, key, values) == [d EXCEPT !.enums = @ @@ (key :> values)]

JustAccounts == Design(Accounts :> Table(Nothing))
Kinds(values) ==
  WithEnum(Design(Accounts :> Table("kind" :> Column(Kind))), Kind, values)

(* A parent and a child table, under two names for the parent. *)
Family(parent) ==
  [Design(parent :> Table("mail" :> Unique(Text)) @@
          Books  :> Indexed(Books, "owner", Table("owner" :> Ref(parent))))
     EXCEPT !.sequences = {<<"public", "serial">>}]

(* The same with the column renamed, and no reference. *)
Apart ==
  Design(Accounts :> Table("email" :> Column(Text)) @@
         Books :> Table("owner" :> Column(Number)))

Checked(c) ==
  Design(Accounts :> Constrained(Accounts, c, Table(c :> Unique(Text))))

Keyed(column) == Design(Accounts :> Table("api_key_id" :> column))

Audit(t) == Design(Accounts :> Table(Nothing) @@ Logs :> t)
AtColumn == Table("at" :> Column(Text))

Circle ==
  Design(Books :> Table("owner" :> Ref(Clients)) @@
         Clients :> Table("book" :> Ref(Books)))

SmallDesigns ==
  {Empty, JustAccounts, Kinds(<<"x">>), Kinds(<<"x", "y">>),
   Kinds(<<"y", "z", "x">>), Kinds(<<"x", "z", "y">>),
   Family(Accounts), Family(Clients), Apart,
   Checked("mail"), Checked("email"),
   Keyed(Unique(Number)), Keyed(Column(Big)),
   Audit(AtColumn), Audit(Indexed(Logs, "at", AtColumn)),
   WithEnum(JustAccounts, Level, <<"x">>), Circle}

-----------------------------------------------------------------------------
(* Names that are given twice: to a column after the one that had it was    *)
(* renamed, to the indexes of two schemas, to a constraint and a column's.  *)

Mails(uniques, plain) ==
  Accounts :> Table([c \in uniques |-> Unique(Text)] @@
                    [c \in plain |-> Column(Text)])
Named(tables) ==
  [tables EXCEPT ![Accounts].constraints = <<"accounts", "a", "key">> :> {"a"}]

WithIndex == Indexed(Logs, "at", AtColumn)
SameIndex(tables, t, u) == Design(tables @@ PublicLogs :> t @@ Logs :> u)

UniqueDesigns ==
  {Design(Mails({"a"}, {})), Design(Mails({"b"}, {})),
   Design(Mails({"a", "b"}, {})), Design(Mails({"b"}, {"a"}))}

NameDesigns ==
  {Design(Mails({"a"}, {})),
   SameIndex(Named(Mails({"a"}, {})), WithIndex, WithIndex),
   SameIndex(Named(Mails({}, {"a"})), WithIndex, AtColumn),
   SameIndex(Mails({"a"}, {}), AtColumn, WithIndex)}

(* A constraint a_key on accounts, of which dropConstraint makes "a". *)
Short(tables) ==
  [tables EXCEPT ![Accounts].constraints = <<"a", "key">> :> {"a"}]

ShortDesigns ==
  {Design(Mails({"a"}, {})), Design(Mails({}, {"a"})),
   Design(Short(Mails({"a"}, {}))), Design(Short(Mails({}, {"a"})))}

SmallProjects ==
  {[designs |-> SmallDesigns,  migrations |-> 3],
   [designs |-> UniqueDesigns, migrations |-> 4],
   [designs |-> NameDesigns,   migrations |-> 3],
   [designs |-> ShortDesigns,  migrations |-> 3]}
=============================================================================
